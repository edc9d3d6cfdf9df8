# A TLA+ model of rk-deviceio

rk-deviceio is the library that Rockchip's Linux boards use to drive LEDs,
keys, timers, Wi-Fi, Bluetooth and a media player. This directory holds TLA+
modules for its concurrent core, the TLC configurations that check them and
proofs for TLAPS. File names below are relative to `src/`; `L/` stands for
`DeviceIO/src/linux/`, `B/` for `DeviceIO/bluetooth/bluez/`.

1. [The system](#the-system)
2. [Modules](#modules)
3. [Runs](#runs)
4. [Proofs](#proofs)
5. [What is not modelled](#what-is-not-modelled)
6. [Plan](#plan)

To repeat the results: `tlc -config MCLed.cfg MCLed.tla` and so on for the
other runs of the table, `tlapm Led_proofs.tla` and so on for the other
`_proofs` modules.

## The system

The library is C and C++ linked into one process. Most components are a file
with static state, an API that any client thread may call, one or two threads
of its own and callbacks to the client. Nothing is restarted or replicated;
what is hard is what threads do between each other's critical sections, or,
where nothing is locked, between each other's statements.

| Component | State | Operations | Threads | Hard to get right |
|---|---|---|---|---|
| LED effects, `L/Rk_led.cpp` | three layers of effects, pending command, last colour written | set, off, all off, direct colour, init, exit | `led_thread`, on a condition variable | signals outside the wait, expiry, order of the STABLE list, the cached colour |
| Timers, `L/RK_timer.cpp` | linked list of handles, running flag | create, start, stop, init, exit | `rk_thread_timer`, every millisecond | nothing is locked; the walk goes on from a handle that may be stopped meanwhile |
| Keys, `L/Rk_key.cpp` | registrations, keys down, transaction under way, queue of compositions, the long and multiple press under way | register, init, exit; press and release from the input device | `thread_key_monitor`, `thread_compose_long_key`, `thread_multi_press_key`, and the timer thread | partial matches, waits with deadlines that releases change, flags re-read after a wait |
| Media player, `librkmediaplayer/source/src/RK_mediaplayer.c` | playlist, current track, mode, GStreamer playbin | play, pause, resume, stop, add, clear, next, prev, mode, destroy | `listen_playbin_bus` | a track is chosen under the mutex and played outside; both threads do it |
| Wi-Fi, `L/wifi/Rk_wifi.cpp` | connection state, the network being connected, five flags | enable, connect (four ways), cancel, disconnect, forget, reset, recovery, scan | monitor of wpa_supplicant, one check thread per connect | one global for all check threads, flags that are reset by whoever ends first |
| Wake locks, `L/Rk_wake_lock.c` | two file descriptors | acquire, release, wait for all | none | the test for the time-out |
| Bluetooth, `B/` | which profiles are open, connected devices, sockets, the processes that serve them | init, deinit, open and close of sink, source, HFP, BLE, SPP | GLib main loop, SPP server, listeners for HFP and the underrun | which profiles exclude each other, failed opens, close against a thread in `select` |
| Network configuration, `L/netlink/` | requests from BLE or a soft AP | parse, connect, report | TCP, UDP and broadcast servers | answers that come late; clients of Wi-Fi |
| Board code (`L/key.cpp`, `led_pwm.cpp`, `power.cpp`, `Timer.cpp`, ...) | device files | - | one each | older code with the same tasks |
| Properties, log, shell, encodings, voice print | a map in a file, tables | - | none | - |

The interactions: the key monitor starts and stops `RK_timer` handles for long
presses, whose callback runs in the timer thread; the network configuration
calls the Wi-Fi component and is called back with its state; `bt_hal` drives
the profiles and the SPP server. The LED manager and the media player use no
other component. Callbacks to the client run in the component's own thread.

What makes each component correct:

- **LED**: the topmost effect is the one that is displayed, after any mix of
  sets, offs and expiries; no command is slept over; effects with a time-out go.
- **Timers**: started timers are called back, a one-shot one once for its start
  unless the start of another one lists it again.
- **Transactions**: called back if and only if the keys were pressed in order
  and in time. **Compositions**: called back once, for the registered time, while all
  keys are held as long as the entry that is called back through was not freed;
  and never forgotten.
- **Player**: the list stays linked, every mode goes through it as it says,
  what plays is the current track, and the end of a stream starts the next.
- **Long and multiple presses**: no press falls between the three threads that
  may report it; no long press is reported early, no click counted twice.
- **Wi-Fi**: a check thread ends; where clients wait, it judges, reports and
  cleans up the network it was started for, no network gets two entries, and what
  is saved changes only after a success or at the client's word.
- **Bluetooth profiles, SPP server**: "open" means that the profile is served;
  a close leaves what another profile needs and ends the thread it joins;
  after a deinitialization nothing is open, no process runs, and no thread is left
  of HFP and of the serial port server. (The thread that listens for the underrun
  may be left: only the close of an open sink stops it, `B/bt_hal.cpp:816`.)

The hazards of the code, each at its line and with the property that covers it
or the reason why none does, are listed in `PROJECT.json`. Noticed besides, and
neither modelled nor listed there: `period / TIMER_PERIOD` and its half are
divisors (`L/Rk_led.cpp:50`) and `1000000 * period` overflows above 2147 ms
(`:155`); two first calls of `check_moudle_init` race (`:327`); a quick exit and
init of the timers leaves two threads (`L/RK_timer.cpp:129`), and a handle that is
restarted between two statements of the walk has an unsigned age below zero
(`:109`), as has a multiple press whose thread is late (`L/Rk_key.cpp:775`);
`while (cnt--)` ends at -1 (`L/Rk_wake_lock.c:154`).

## Modules

`Led` implements the abstract `LedLayers`, `Wifi` the abstract `WifiAttempt`.
`Bluetooth` is composed of `SppServer`, `BtListener` and its own profiles;
`KeyPress` of the key module and the timers' walk. The others stand alone; the
`MC` modules give them finite sets of effects, keys and intervals, the `_proofs`
modules extend them.

A critical section is one action where everything shared is under a mutex (Led,
KeyCompose, the playlist). Where nothing is locked (RkTimer, the playbin) an
action ends at each statement after which another thread matters.

### Led, LedLayers: `L/Rk_led.cpp`

`temp`, `realtime` and `stable` are the three layers of `m_led_manager`,
`new_command_reached` its pending command, `color_last` the static of
`led_write`, `status` the state of the device nodes. An effect is a record of
the fields of `RK_Led_Effect_t` that the code looks at; a colour is one
channel, since the three are computed alike. `led_thread` is a variable for the
place where the thread is: about to wait, in one of the two waits, woken,
handling, about to refresh. `lit` is what the LED shows. `id` names instances
by the call that made them, where the code has heap addresses.

Every API call is an action, and so is every section of the thread. Waits may
end by a signal, by their time-out and, as POSIX allows, for no reason. Writing
the device may fail (`DeviceOutcomes`). Breathing divides by half of
`period / TIMER_PERIOD`: when that is zero the thread is `undefined` and
nothing more is said.

`LedLayers` is what the guide promises: a set of active effects; set, off and
all off change it; a refresh may drop effects whose time-out has come, never
one below an effect that stays, and displays the topmost of the rest. Three
fields, a list, a clock and a thread implement it with
`active <- AbstractActive, issued <- calls`.

### RkTimer: `L/RK_timer.cpp`

`next` and `head_handle` are the list, `pc` and `target` the walk of each timer
thread. `starting` is the handle that a client in `RK_timer_start` has found
unlisted; `todo` the statement of that start which comes next: the handle is
stamped (`Stamp`), gets the head as its link (`Link`) and becomes the head
(`Head`), and as nothing is locked (`:60-63`) others may come between. Time is kept as the age of `timer_start` and
`timer_last`, saturated at the longest interval. `RK_timer_stop` is the
function as written, whose `prev` never advances. `armed` and `revived` are
histories for `OneShotOnce`: the one-shot handles that were listed by their own
start, and those that were listed again by the start of another handle. The
latter happens when a stop, of a client or of the walk after a callback, empties the
list between `next = head_handle` and `head_handle = handle`.

### KeyTransaction: `check_transaction_event` in `L/Rk_key.cpp`

One thread, two variables: the registrations, and the transaction under way
with the keys that remain. The code keeps key codes in strings ("1 2 ");
here they are sequences, and `check_transaction_event` with its
`goto recheck` is one action. `pressed` is the history of presses that the
properties look back on.

### KeyCompose: `check_compose_press_event` and `thread_compose_long_key` in `L/Rk_key.cpp`

The monitor's part is `Press`, `Signal` and `Release`: queueing and signalling
are two critical sections of one press. `compose` is where
`thread_compose_long_key` is. `strstr(keys, "2 ")` also finds 12, so a key
*mentions* a code that ends like it. Where the code returns without unlocking
the mutex, `leaked` becomes TRUE and every later section is disabled; `freed` counts the releases since the entry that
the thread waits for was freed, up to two. When the thread reads it all the same
(`L/Rk_key.cpp:710`), the entry may be as it was, so that the composition is called
back with its keys up; it may be that of a composition queued since; or it makes
no sense and the thread is `undefined`. Spurious wakeups are left out
here: they are of the same kind as the wake-up by an unrelated release, which
is modelled.

### MediaPlayer: `librkmediaplayer/source/src/RK_mediaplayer.c`

`next`, `prev`, `playlist_start`, `playlist_end`, `playlist_current` and
`playlist_cnt` are the linked list, whose nodes are numbered in the order of
their allocation. Choosing a track (`RK_mediaplayer_next`, `prev`,
`start_playlist`) is one action, as it is under `playlist_mutex`.
`RK_mediaplayer_play` is four: the state of the playbin is read, it is reset,
given a uri, started. `cur_music` is what each thread has chosen. A random walk
takes `rand() % playlist_cnt` steps, at least one, along the links and begins
again after the end (`Walks`).

GStreamer is modelled from how the code uses it: setting the playbin to NULL
discards its bus; starting it fails for a bad url, and from then on reading its
state reports the failure until it is set to NULL or started with success;
lowering the state never fails. A stream ends at any time while the playbin
plays. The application is one thread and its callback does not call the player.
Position, duration, seeking and the messages that are only handed to the
callback are left out.

### KeyPress: long and multiple presses in `L/Rk_key.cpp`

Three threads decide what a press was: `monitor` (`thread_key_monitor`) starts
and stops the timer and counts clicks, `timer` (`rk_thread_timer`) calls
`timer_cb`, and `thread_key_multiple` reports once no other click has come for
`TIME_MULTIPLE`. `m_input_multiple_event` is shared under a mutex, whose sections
are one action each; `m_input_timer` and the timer handle are not, so the code
that touches them is cut after each statement (`Arm`, `TestKey`, `CallLong`,
`ResetTimer`, `Stop`, ...).

Time is in ticks (250 ms in the instance): a tick passes only when no thread has
anything to do, and a user changes a key at most once in a tick. `owed` remembers the
presses that nothing was reported of, `undue` the reports that nothing justifies.
`excuse` is "late" when a press or release falls into the very tick in which a
time is up, or when `responded` is left over from before; "overlap" when two
keys are used at once; "crash" when a NULL pointer was followed
(`L/Rk_key.cpp:848`, and `timer_cb` after the monitor's reset). It is not
claimed that a press is reported once: a release in the tick in which
`TIME_MULTIPLE` ends is reported by both threads. `get_input_long_press_key`
takes the last of the list, which is the one registered first and not the
longest; two heartbeats on one key lose a press between them.

### WifiAttempt, Wifi: `L/wifi/Rk_wifi.cpp`

`connecting_id`, `connect_info` and the four flags are the globals of the file.
`call` is where each client is in one of the four ways to connect, one action
for each command to wpa_supplicant; `check` the threads that poll for the
connection. wpa_supplicant is `networks`, `conf` (its file), `enabled` and
`station`, modelled from the commands: a new network gets an id one above the
greatest, `flush` and `reconfigure` number the file's networks anew.

`RK_wifi_connect_with_ssid` and `..._with_bssid` save the name where the bssid
belongs (`L/wifi/Rk_wifi.cpp:1467`, `:1523`), so that what is reported of them has an
empty name: `connect_info` is NULL then, and `goal` is the network all the
same. Searching for the name and `add_network` are two commands. The answer
FAIL of the latter goes through `atoi` (`:879`), and network 0 is set up in
its place. `RK_wifi_getSavedInfo`, which every successful check calls, copies
what wpa_supplicant knows into an array of ten (`RK_WIFI_SAVED_INFO_MAX`)
without looking at its end: the model knows at most ten networks and says nothing of an eleventh.

A client may be *patient* (`budget = NULL`): it waits for the answer before it
touches Wi-Fi again, for ever. Otherwise it makes `budget` calls at any
time, over the connections under way; turning Wi-Fi on and off is not counted. `goal`, and `told`, the last report, are kept for patient clients. `WifiAttempt` says what one attempt at a time may
do; it is claimed for patient clients, as is that no network gets two entries.
Its own words name what the code does besides: an attempt to a network that was
known may be answered without its name; a refused key that is reported while an attempt
listens, be it the key of one before, lets it end unanswered (`wrong`); an attempt that is
denied an entry takes another network's (`denied`); a cancel that comes too late for its
attempt takes the next one (`asked`), and a cancelled attempt goes back to
the file, from which its failure may drop another network (`cancelled`).
For the others the model shows threads that judge, and remove, each other's
network, and only `EveryCheckEnds` is claimed.

Abstracted: addresses and DHCP (a thread may find wlan0 without an address for
as long as it likes, or with an old one); a disconnection, after which the monitor
flushes the address and tells wpa_supplicant to reconnect (it does so after
`RK_wifi_disconnect_network` too, which the guide calls disconnecting); an
event about a refused key may be read at any time while Wi-Fi is on; the wait
of `RK_wifi_cancel`. `told` leaves out OPEN, OFF and DISCONNECTED. One client
stands for the thread of the application, so the refusal by
`wifi_connect_lock` is not exercised.

### Bluetooth, SppServer, BtListener: `B/bt_hal.cpp`, `B/bluez_ctrl.cpp`, `B/spp_server/`, `B/bluez_alsa_client/rfcomm_msg.cpp`

`bt_control` holds the flags, `bluetoothd`, `bluealsa` (with the profiles it was
started for) and `aplay` the processes. The application's thread makes one call
at a time; `todo` lists the functions the call has still to go through, each an
action, such as `<<"sink_close", "start_source">>` for `rk_bt_source_open` with
the sink open. Between them bluetoothd may die (`BluetoothdDies`): every
`..._is_open` is FALSE from then on, and TRUE again after the next
`rk_bt_init`, since nobody has cleared the flags. A start of bluealsa, of
bluealsa-aplay and of the client of bluealsa may fail, each with what the code leaves
then. A process that is killed ends.

`SppServer` is the server's thread, cut wherever `bt_spp_server_close` could take a
descriptor away; FD_SET of -1 is undefined and may come out in any way. One
phone connects and leaves. `BtListener` is the thread for the status of HFP and
its twin for the underrun of the sink.

## Runs

| Run | Bounds | Shows |
|---|---|---|
| `led` | five effects (all types and layers, equal and different priorities, one name twice), two names, failing device, three calls | types; the STABLE list is a stack by priority and recency without a name twice; no pending command is slept over; a set effect on top is displayed before the thread sleeps; TEMP effects are displayed and expire; `Led` implements `LedLayers` |
| `led_off` | three lasting effects | *violated*: an off between refresh and wait is lost, the removed effect stays |
| `led_lit` | the same | *violated*: a colour equal to the last one written is not written, though the LED was turned off meanwhile |
| `timer` | two handles, three settings, one client, one timer thread | the list stays a list and the walk within it; a one-shot timer is called back once per start, and once more for each time the start of another one, overtaken by a stop between its two writes, lists it again; a listed repeating timer again and again; after exit the thread ends |
| `key_transaction` | five sequences, two registered, four presses | called back only after the keys, and always when no first key is ambiguous |
| `key_compose` | four compositions (overlapping, equal, ending alike), two registered, four keys, a thread up to 3 ms late | the queue is what is held; the mutex is given back unless keys are ambiguous; called back at most once, and only while held, but for two releases before the woken thread reads the entry that the first one freed; not forgotten |
| `key_compose_early` | two compositions that share a key | *violated*: two releases make the thread call back early |
| `player` | three tracks, one end-of-stream message | the list is linked, next and prev undo each other, shuffling reaches all but the current, what plays is current, the end of a stream starts another |
| `key_press` | two keys, long presses and heartbeats of 1 and 3 ticks, single and double clicks, `TIME_MULTIPLE` of 2; two registrations, three if on one key | clicks are counted, long presses are held, no press is left unanswered |
| `wifi` | two networks, two ids, two checking threads of two rounds; patient clients, or two calls without waiting | `Wifi` implements `WifiAttempt` with the excuses it names; one entry per network; every check ends, of clients that do not wait too |
| `bluetooth` | five calls, one phone, any number of deaths of bluetoothd | an open profile is served, but for four excuses; what a deinitialization leaves; a call ends |
| `bluetooth_exclude` | three calls | *violated*: `rk_bt_hfp_open` does not end the sink's service, whose flag stays set while its bluealsa is gone |

**Why the bounds are enough.** Three LED calls put two effects in one layer and
one in another, or set, remove and set again, with the thread anywhere between
them; every effect type and every expiry occurs. Two timers are the least for
which stopping one can harm the other. Two registrations and four presses allow
a complete sequence of three keys after a begun one, and a sequence of two
after another of two. Four keys hold two overlapping compositions and a key in
neither. Three tracks are the least with a middle, and the least for which a
shuffle has a choice. Two registrations
on two keys let one key's timer be in the way of the other's, three on one key
mix a long press, a heartbeat and clicks. Two ids and two networks are the
least for which a number given anew names another network. Five calls
initialize, open two profiles, close one and deinitialize, or open and close the
SPP server twice, or survive a death of bluetoothd and a second
initialization. Bounds on calls, presses and registrations are guards of
the actions; ages saturate. Deadlock is not checked: a library whose clients
have nothing more to ask stops, and `leaked`, `undefined` and `crashed` are
ends.

**Fairness.** `Led`: weak fairness of the thread, which the kernel schedules,
whose mutex is held only for short sections, and whose timed waits end. Nobody
must call anything, and a spurious wakeup need not come. `RkTimer`: of each
thread, of the passing of time, and of the rest of a started call.
`KeyCompose`: of the monitor's second section, the thread and time; no key
must be pressed or released. `MediaPlayer`: of the listener, which never blocks
longer than 100 ms; the application may do nothing, and a stream need not end.
`KeyPress`: of the three threads and of time. `Wifi`: of a call that was begun
and of each check thread, whose commands return; no client need call, no event
need come. `Bluetooth`: of a call that was begun, of the server's thread, which
polls, and of each listener; a phone need neither come nor go.

**What the excuses in the properties mean.** `OneShotOnce` counts starts, and
the listings by another handle's start that a stop overtook (`revived`);
`ListIsList` is for one client thread: two that start one handle at once can
link it to itself. `CalledWhileHeld` lets a callback come with the keys up in one
case: a release has freed the entry the thread waits for, and a second one resets
`m_compose_long_press_key_up` before the woken thread has the mutex. `CalledOnce` and `MutexGivenBack` exclude two registrations
with the same keys and key codes of which one ends like the other: then the
monitor keeps the mutex, and the run has such registrations in it to show that
nothing else does. `PlaysCurrent` excludes the moments after both threads used
the playbin at once (`disturbed`), in which the model does reach another track
than the current one, and after a failed start, after which `play` gives up.
`KeepsPlaying` excludes the end of a sequence, an empty list and a failed start.
`OpenIsServed` has four excuses, each from a cause of its own: flags that
outlived bluetoothd ("stale"); HFP when an open of the source or the sink, and the sink when one
of HFP, has restarted bluealsa without closing it ("displaced"); the sink that
`rk_bt_control` marks as open after it could not be opened ("unopened"); the source when a
close of an HFP that had lost its own bluealsa, or had outlived bluetoothd, kills it ("taken",
`B/bt_hal.cpp:1603-1613`). A source that loses bluealsa to an open, or a sink to a close, is not excused.
`OffIsOff` excludes the stale flags and a server whose close came before its thread had set
`server_running`, and says nothing of the listener for the underrun; `CallEnds` the two joins that do wait: for a phone that was
accepted while the close slept, and for a listener that made its socket after the
stop had looked for one.

**Disagreements** of code and documentation are the violated runs above; the
quotations are in `PROJECT.json`. Met while reading, and without a run of their own:

- `doc/Rockchip_Developer_Guide_DeviceIo_Key_CN.md:105` says of a transaction that it is triggered
  after its keys were pressed one after the other; 1 1 2 is missed in 1 1 1 2
  (`L/Rk_key.cpp:413`), since a mismatch goes back to the first key only.
- `librkmediaplayer/source/include/DeviceIo/RK_mediaplayer.h:9` says "Play in sequence, stop at the end of the playlist";
  past the end the player reports a stop and plays the first track again when
  asked for the next (`RK_mediaplayer.c:631`).
- `L/RK_timer.cpp:69` says of `RK_timer_stop` "Stop the timer work, remove the handle off work list". Its `prev`
  is never advanced (`:81`), so that stopping any listed handle empties the list.
- `rk_bt_sink_open` does to HFP what `rk_bt_hfp_open` does to the sink in `bluetooth_exclude`,
  and `rk_bt_source_open` closes the sink but not HFP.
- `rk_bt_control(BT_SINK_OPEN)` sets the flag although the open failed
  (`B/bluez_ctrl.cpp:643`).
- `RK_set_all_led_effect_off` loses its signal like `RK_set_led_effect_off`.
- `RK_mediaplayer_start_playlist` begins with the last track, and the listener's
  `next` undoes a `stop` that came after the message it is handling.
- `RK_wait_all_wake_lock_release` reports its time-outs as successes and a
  release in its last round as a time-out.
- The documented `period <= 0` of a BREATH effect divides by zero.

## Proofs

| Module | Theorem | Says, for all values of the constants |
|---|---|---|
| `Led_proofs` | `TypeCorrect` | the types; no breathing colour leaves its channel |
| | `AlwaysSorted`, `AlwaysUnique` | order and uniqueness of the STABLE list |
| | `NoCommandSleptOver` | no pending command is slept over |
| | `SetAlwaysShown` | an effect that was set last and is on top is displayed when the thread sleeps |
| | `LayersImplemented` | `Led` implements `LedLayers`: each step is one of its steps or a stutter |
| `RkTimer_proofs` | `TypeCorrect` | the types, for any number of clients and threads |
| | `ListStaysList` | with one client, the links from the head never form a cycle |
| | `OneShotCalledOnce` | with one client and one walk, a one-shot timer is called back once per start, and once more for each time another handle's start, overtaken by a stop, lists it again |
| `KeyTransaction_proofs` | `TypeCorrect` | what remains of a transaction is a proper end of its keys |
| | `OnlyWhatWasPressed` | called back only after its keys, in order, in time, none used twice |
| | `WhatIsPressed` | what was pressed in order and in time is called back, unless first keys are ambiguous |
| `KeyCompose_proofs` | `TypeCorrect` | the types; no deadline of a freed composition is waited for |
| | `QueueHeld` | what is queued is held down completely, and queued once |
| | `MutexReturned` | the monitor gives the mutex back, unless registrations are ambiguous |
| | `CalledAtMostOnce` | called back at most once until the keys go down together again, unless registrations are ambiguous |
| | `CalledOnlyWhileHeld` | called back only while all keys are down, but through an entry that was freed, and then only after a second release |
| `KeyPress_proofs` | `TypeCorrect` | the types; clicks stay below the most that is registered, which is reported |
| | `MultipleAlwaysCounted` | a multiple press is reported only for that many presses of its key, each in time |
| | `LongAlwaysHeld` | a long press or heartbeat is reported only of a key that was down for as long, while one key is used at a time |
| `MediaPlayer_proofs` | `TypeCorrect` | the types, those of the playbin and of both threads included |
| | `AlwaysLinked` | the playlist is linked both ways in the order of addition and holds the current track |
| | `PrevAlwaysUndoesNext` | prev leads back where next came from; a loop visits every track |
| | `RandomAlwaysOther` | a shuffle can choose every track but the current one, and no other |
| | `PlaysAlwaysCurrent` | what plays is the current track, until both threads use the playbin at once |
| `Wifi_proofs` | `TypeCorrect` | the types, whatever the threads do to each other's globals |
| | `EntriesUnique` | patient clients never get two entries for one network, in wpa_supplicant or in its file, as long as it knows at most ten |
| | `AttemptsAreSteps` | `Wifi` implements `WifiAttempt`, the excuses named there included, but for its fairness: each step is one of its steps or a stutter |
| `Bluetooth_proofs` | `TypeCorrect` | the types, those of the SPP server and of the listeners included |
| | `AlwaysServed` | between calls a profile that is open is served, but for the four named excuses |
| | `DeinitIsOff` | after a deinitialization nothing is open but stale flags, no process runs, HFP has no thread, and the SPP server none unless its close was missed; of the underrun's listener nothing is said |

The assumptions are those of the modules: effects, transactions, compositions
and bounds have their types, `TIMER_PERIOD` and `WIFI_CONNECT_RETRY` are not zero, NULL is no
instance, transaction, event, track or network, the timer handles are finitely
many, the numbers of clicks in `KeyPress` have a greatest, as those of an `int` do, keys have at most three digits, and the configuration file that Wi-Fi
begins with has one entry per network and at most ten. Only these ten bound a size. Two theorems about
the timers have hypotheses besides, named below.

Each new inductive invariant was an invariant of a TLC run on the instance of
its module before it was proved. Folds and sets that are defined by recursion (the queue's
order, `Reached`, the walks of a shuffle) are reasoned about without an
induction theorem: the numbers for which a claim fails have a least one
(`LeastNatural`), and that leads to a contradiction.

**Led.** `LedInv` adds to the properties that every id in the list was given
out already (`IdsIssued`). Without it the list is not inductively sorted: the
new effect goes in front of its equals, which is right only if it is the most
recent. One lemma per list operation (removing a name, inserting by priority,
dropping the expired, displaying the head) says that a good list stays good,
and one per action cites them. That a breathing channel stays in 0..255 is
arithmetic (`Fraction`, `FoldRange`): a colour times f, divided by h, with f at
most h. `SetIsShown` speaks of a thread that sleeps, so its invariant has to say
what happens before: while the newest effect is on top and not displayed, a command is
pending or the thread is at the place where it displays (`NewestAwaited`); that an effect which
comes on top is one of those in the layers needs that each is in its own
(`InPlace`). For the refinement, the effects of `LedLayers` are the union of
three sets: two layers have one effect or none (`One`), the third those of the list
(`Listing`). Each list operation is then an operation on `Listing`, and a refresh drops
expired effects from the top down until one stays.

**RkTimer.** `Reached` is proved to be the least set that has the start and is closed
under links; this is where the handles have to be finitely many. The handle
that a client is starting is not on the list until its last statement has made it the head (`Unlisted`):
true for one client, which is in one start at a time
(`OneClient`). What it becomes the head of is the list as it was when the link was
written, which may have been emptied since (`ListMoves`). Two clients that start one handle at once do make a cycle, so the
hypothesis is needed. For `OneShotOnce` the links, those of handles off the list
included, have a ranking (`Descending`); one-shot handles on the list
are owed a callback, `armed` or `revived` (`Owed`), but for
the one that is being called back (`ListedArmed`), and so are those before
the walk, though a stop may have taken them off (`AheadArmed`). It needs besides
that one thread walks (`OneWalk`: a quick exit and init leaves two, which may both
call back) and that a handle is not created anew while it is on the list, which
makes a repeating timer that was called back a one-shot timer.

**KeyTransaction.** `CalledAsPressed` speaks of presses long past, the code
only of the keys that remain. `Following` connects them: the keys of the event
that do not remain are the last keys that were pressed, in time, and none of
them was called back for. A press advances it, begins a new one or ends it.
`PressedIsCalled` is the converse, and so is its invariant: a beginning of a
registered sequence that was just pressed is what is under way, with the rest
of the keys remaining (`UnderWay`). Its first key is no other's first or later key
when registrations are unambiguous, so no other press can have begun or gone on in
its place. Registrations only grow (`OfList`, `Counted`), and a press counts for those that existed.

**KeyCompose.** The queue is a selection in the order of registration, which a
function of positions describes (`Picks`): nothing is selected twice, and
everything that qualifies is. What the thread waits for with a deadline is in the
queue as long as it was not freed (`EventQueued`), and with one release since
`m_compose_long_press_key_up` is still set; without that it might call back a
composition whose keys are up without a second release. A composition that was called back is held and no
longer queued (`CalledIsGone`), which both branches of `compose_check_has_event`
need for calling back at most once. It holds while registrations are unambiguous,
which they cannot become once they were not.

**KeyPress.** The reports are judged by what the user did, of which the code sees
little: the age of the one timer and that of the last click it counted.
`Places` says what is set together, such as the timer and the key of `m_input_timer`.
For multiple presses, what `thread_key_multiple` has counted is no more than what
the user did, the last click is no older than its `age` says, and a press that is
on its way to it is one it has not counted (`Counted`). It needs that a key is pressed
only when its last press has arrived (`Clicked`): a release comes at least a tick later and
the threads take less. That holds with several keys at a time, and with clicks of one key between those of another.
Long presses have one handle for all keys, and its age is that of the key only
while one key is used at a time. So `LongInv` is claimed while no two keys overlapped
(`Single`). Then everything that is not at rest is about the one key that is down or
just went up (`Alone`); a timer that is listed has its key in `m_input_timer`, and its
age is no more than the time for which that key is down (`ForKey`). A release takes the key
from `m_input_timer` before the key can be pressed again, which is why the next
press finds the handle unlisted and starts it anew; and a callback resets `m_input_timer`
only after it has stopped the handle.

**MediaPlayer.** Since nodes are numbered as they are allocated and only ever
added at the end or cleared all at once, the nodes of the list are an interval.
`ListInv` adds to `ListIsLinked` what the next insertion needs: the last node
is the one allocated last, and links not yet used are NULL. For the shuffle, a
walk of k steps from node n ends at n + k, less the length of the list if that
is beyond its end. A walk is unique (a least step at which two differ leads to
a contradiction) and exists; fewer steps than nodes, and at least one, lead to
every other node and never back. `PlaysCurrent` follows a track from its choice,
which is under the mutex, to its playing, which is not: until the threads disturb each other, at most one
is in `play`, what it was given is the current track, and from the reset to the start the playbin is silent
(`Undisturbed`). That an old track is not the current one by accident needs that no node is allocated
twice (`AllKnown`).

**Wifi.** The types are proved in five parts, one per group of variables
(`TypeCall`, `TypeCheck`, ...), with `Named`: a call has its network, and once it
sets the network up, its id. `OneEntryPerNetwork` is not inductive: a client
finds no entry, adds one and names it three commands later, and somebody may
name another meanwhile. `Found` says that nobody has, and holds because patient
clients are `Alone`: one call at a time, and no thread that checks, which might
remove an entry or number them anew. Numbering anew keeps names unique
(`CompactKeeps`): entries with one name are one entry, and it has one place in
the count. The run has one client; the theorem any number.

For `AttemptsAreSteps`, whoever works alone owns the globals, which are shared without a lock: while a client sets a
network up, `goal` and `connecting_id` are those of its call, and `connect_info` is
its network or, for the calls that save no name, NULL (`OwnCall`), and no network
is joined but that one; then they belong to the one thread that checks (`OwnCheck`, `OneCheck`).
`wifi_connect_lock` is held only by a client that sets a network up, so a cancel, which the lock
lets through, is asked during an attempt (`LockHeld`). `wifi_is_exist` is left set by nobody at rest (`Existing`), and off, wpa_supplicant knows nothing (`NothingOff`).
`View` is what `WifiAttempt` sees, in terms of who works, and each action is shown to change it as a step of `WifiAttempt`
or not at all. That numbering anew loses no name is a
fact about finite sets: the ranks of n entries are 1..n (`NamesCompact`). An attempt that is denied an entry has a
network that is not known (`Found`), and setting up network 0 for it takes one name
away and adds its own (`NamesReplace`).

**Bluetooth.** A call is a list of functions of which bluetoothd's death may fall
between any two, so the invariant ties what is left of the list (`Left`) to
the flags and processes: a profile is started only when the close of the other is
behind it (`MakesWay`), or bluetoothd has died since and every flag is one from before (`Bereft`), what a deinitialization has no longer to do is done
(`Deinitializing`), while bluetoothd is started again every flag is one from before
(`Restarting`), and the server's thread runs unless it is just being closed
(`SppRuns`). It is enough that lists are in a certain order (`Ordered`: what closes first, what starts last);
that the lists which calls begin with are so (`Starts`) is shown call by call.

**Only model-checked**: everything under fairness (`TempIsShown`,
`TempExpires`, `RepeatsForEver`, `ExitEndsThreads`, `QueuedIsHandled`,
`KeepsPlaying`, `PressIsAnswered`, `EveryCheckEnds`, `CallEnds`, and the
fairness of `WifiAttempt` in `ImplementsAttempt`), since the prover has neither
fairness nor ENABLED. Every invariant of a run that passes is proved.

## What is not modelled

Of the modelled components: racing first calls of `check_moudle_init` and the
initialisation of the keys; a second timer thread after a quick exit and init;
the two other channels of a colour; the text of key codes; seeking and the
playing position.

Of the keys: the reading of input devices, callbacks that take longer than a
tick. Of Wi-Fi: scanning, the encodings of names, airkiss, a crash of
wpa_supplicant. Of Bluetooth: OBEX, PAN, discovery and bonding, the automatic
connection of the source, the file descriptors that the servers never close,
and what passes over a connection.

Other components: the wake lock is a loop of ten lines around the kernel's files. The D-Bus
clients (A2DP master, AVRCP, GATT, OBEX) do what `bluetoothd` decides, of
which there is no description here. Mixers, LEDs and batteries of single
boards, properties, logging, shells and sockets are I/O around little state;
encodings and voice print are data. rapidjson, gdbus, parts of BlueZ and the
BSA samples are third-party code.

## Plan

Done, in this order: Led and LedLayers, RkTimer, KeyTransaction, KeyCompose,
MediaPlayer, Wifi and WifiAttempt, KeyPress, Bluetooth with SppServer and
BtListener, and the proofs above.

Nothing of safety that a run claims is without a proof. What would come next:

1. The thread of `spp_server` that fails to bind or listen (`B/spp_server/spp_server.cpp:105`),
   which no property covers.
2. The hypothesis of the timers' theorems, one client: which orders of two clients on
   different handles are safe.
3. The liveness properties, when the prover has fairness.
