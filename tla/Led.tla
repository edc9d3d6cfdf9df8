-------------------------------- MODULE Led --------------------------------
(***************************************************************************)
(* The LED effect manager, DeviceIO/src/linux/Rk_led.cpp.                  *)
(*                                                                         *)
(* m_led_manager keeps three layers of effects: temp and realtime hold at  *)
(* most one effect, stable a linked list kept in priority order.  The API  *)
(* functions change the layers and signal the condition variable; one      *)
(* detached thread, led_thread, waits on it (for ever, or for the period   *)
(* of the displayed effect) and writes the colour of the topmost effect.   *)
(*                                                                         *)
(* Every function touches m_led_manager under m_led_manager.mutex, so each *)
(* critical section is one action; what may come between two sections is   *)
(* what this module is about.                                              *)
(***************************************************************************)
EXTENDS Integers, Sequences, SequencesExt

CONSTANTS
  Effects,       \* the RK_Led_Effect_t values that clients pass
  Names,         \* effect names
  TIMER_PERIOD,  \* milliseconds between two steps of a BREATH effect
  DeviceOutcomes,\* {TRUE}: the PWM nodes work; {TRUE, FALSE}: they may fail
  DirectColors,  \* colours that clients write with RK_set_all_led_status
  MaxCalls,      \* bound on the number of API calls
  NULL

TEMP == "TEMP"
STABLE == "STABLE"
REALTIME == "REALTIME"
Layers == {TEMP, STABLE, REALTIME}
NONE == "NONE"
BLINK == "BLINK"
BREATH == "BREATH"

(* RK_Led_Effect_t.  A colour is the brightness of one channel: the three  *)
(* channels are computed and written alike.  -1 stands for the documented  *)
(* "<= 0 means unlimited" of period and timeout.                           *)
EffectType ==
  [name : Names, layer : Layers, type : {NONE, BLINK, BREATH},
   priority : Int, period : Nat \cup {-1}, timeout : Nat \cup {-1},
   colors : 0..255, colors_blink : 0..255]

ASSUME EffectsAssumption == Effects \subseteq EffectType
ASSUME TimerAssumption == TIMER_PERIOD \in Nat \ {0}
ASSUME DeviceAssumption == DeviceOutcomes \subseteq BOOLEAN /\ DeviceOutcomes # {}
ASSUME ColorAssumption == DirectColors \subseteq 0..255
ASSUME CallsAssumption == MaxCalls \in Nat

(* RK_Led_Effect_ins_t.  id is the number of the API call that made the    *)
(* instance: a name for the heap address, used to tell instances apart.    *)
Instance ==
  [id : Nat, effect : Effects, time : Nat, colors : 0..255, count : Nat]

ASSUME NullAssumption == NULL \notin Instance

VARIABLES
  temp, realtime,       \* an instance or NULL
  stable,               \* the linked list, head first
  new_command_reached,  \* -1, or the layer number of an unhandled command
  led_thread,           \* where the thread is, see ThreadStates
  color_last,           \* the static of led_write
  status,               \* m_LedFd.status
  lit,                  \* the colour the LED shows
  shown,                \* history: id of the instance led_effect_task chose last
  calls                 \* API calls made so far

vars == <<temp, realtime, stable, new_command_reached, led_thread,
          color_last, status, lit, shown, calls>>

(* none: not created;  wait: about to lock in led_wait_new_command;        *)
(* forever, timed: in pthread_cond_wait, pthread_cond_timedwait;           *)
(* woken: woken up, about to have the mutex again;  handle, task: about to *)
(* lock in led_handle_new_command, led_effect_task;  undefined: a division *)
(* by zero in led_effect_breath was executed, nothing is known any more.   *)
ThreadStates ==
  {"none", "wait", "forever", "timed", "woken", "handle", "task", "undefined"}
Blocked == {"forever", "timed"}

(* Type invariant.  A channel of a computed colour never leaves 0..255,    *)
(* which would spill into the neighbouring channel (led_effect_breath).    *)
TypeOK ==
  /\ temp \in Instance \cup {NULL}
  /\ realtime \in Instance \cup {NULL}
  /\ stable \in Seq(Instance)
  /\ new_command_reached \in {-1, 0, 1, 2}
  /\ led_thread \in ThreadStates
  /\ color_last \in -1..255
  /\ status \in {-1, 0, 1}
  /\ lit \in 0..255
  /\ shown \in Nat
  /\ calls \in Nat

-----------------------------------------------------------------------------
(* The displayed effect.                                                   *)

Top == IF temp # NULL THEN temp
       ELSE IF realtime # NULL THEN realtime
       ELSE IF stable # <<>> THEN stable[1] ELSE NULL

AllLayersEmpty == temp = NULL /\ realtime = NULL /\ stable = <<>>

-----------------------------------------------------------------------------
(* Writing the device.                                                     *)

(* RK_set_all_led_status: opens the nodes when they are not, gives up for  *)
(* good after a failed open, and leaves the LED alone when a write fails.  *)
RK_set_all_led_status(color) ==
  \E opened, written \in DeviceOutcomes :
    /\ status' = IF status # 0 THEN status ELSE IF opened THEN 1 ELSE -1
    /\ lit' = IF status' = 1 /\ written THEN color ELSE lit

RK_set_all_led_off == RK_set_all_led_status(0)

(* led_write: nothing to do when the colour is the one written last.       *)
led_write(color) ==
  /\ color_last' = color
  /\ IF color = color_last
     THEN UNCHANGED <<status, lit>>
     ELSE RK_set_all_led_status(color)

-----------------------------------------------------------------------------
(* Displaying an effect for one more period.                               *)

timer_period_count(e) == IF e.period > 0 THEN e.period \div TIMER_PERIOD ELSE 0
BreathUndefined(e) == e.type = BREATH /\ timer_period_count(e) \div 2 = 0

(* The triangle of led_effect_breath: up for half the period, then down.   *)
Fold_Unfolded(now, n) == now
Fold(now, n) == IF now > n \div 2 THEN n - now ELSE now
led_effect_breath(i) ==
  LET n == timer_period_count(i.effect)
      now == i.count % n
  IN [i EXCEPT !.colors = (i.effect.colors * Fold(now, n)) \div (n \div 2),
               !.count = now + 1]

led_effect_blink(i) ==
  [i EXCEPT !.colors = IF i.colors = i.effect.colors
                       THEN i.effect.colors_blink ELSE i.effect.colors,
            !.count = 1]

(* time is kept in 0..timeout: past the timeout more is the same, and only *)
(* a period <= 0, which never reaches a timeout, moves it down.            *)
AddTime(i, ms) ==
  LET t == i.time + ms
  IN [i EXCEPT !.time = IF i.effect.timeout <= 0 \/ t < 0 THEN 0
                        ELSE IF t > i.effect.timeout THEN i.effect.timeout
                        ELSE t]

Display(i) ==
  CASE i.effect.type = BLINK  -> AddTime(led_effect_blink(i), i.effect.period)
    [] i.effect.type = BREATH -> AddTime(led_effect_breath(i), TIMER_PERIOD)
    [] OTHER                  -> AddTime(i, i.effect.period)

led_handle_timeout(i) == i.effect.timeout > 0 /\ i.time >= i.effect.timeout

(* What led_effect_task has left of a one-effect layer before displaying.  *)
Unexpired(layer) ==
  IF layer # NULL /\ led_handle_timeout(layer) THEN NULL ELSE layer
UnexpiredList ==
  IF stable # <<>> /\ led_handle_timeout(stable[1]) THEN Tail(stable) ELSE stable

-----------------------------------------------------------------------------
(* The condition variable.  pthread_cond_signal is lost on a thread that   *)
(* does not wait.                                                          *)

signal_Lost(thread) == thread
signal(thread) == IF thread \in Blocked THEN "woken" ELSE thread

need_wait_forever_NoTemp ==
  /\ ~(realtime # NULL /\ realtime.effect.period > 0)
  /\ \A k \in 1..Len(stable) : stable[k].effect.period <= 0
need_wait_forever ==
  /\ ~(temp # NULL /\ temp.effect.period > 0)
  /\ ~(realtime # NULL /\ realtime.effect.period > 0)
  /\ \A k \in 1..Len(stable) : stable[k].effect.period <= 0

(* Which of its waits led_wait_new_command chooses.                        *)
WaitKind ==
  IF \/ need_wait_forever
     \/ Top = NULL
     \/ Top.effect.type = NONE /\ Top.effect.timeout <= 0
  THEN "forever" ELSE "timed"

-----------------------------------------------------------------------------
(* The list operations of RK_set_led_effect and RK_set_led_effect_off.     *)

(* Unlinks the first instance of that name, if there is one.               *)
RemoveName_Keep(list, name) == list
RemoveName_Head(list, name) == IF list = <<>> THEN list ELSE Tail(list)
RemoveName(list, name) ==
  IF \E k \in 1..Len(list) : list[k].effect.name = name
  THEN RemoveAt(list, CHOOSE k \in 1..Len(list) :
                        /\ list[k].effect.name = name
                        /\ \A j \in 1..(k - 1) : list[j].effect.name # name)
  ELSE list

(* The place before the first instance that is not more important.         *)
InsertPosition_Below(list, priority) ==
  CHOOSE k \in 1..(Len(list) + 1) :
    /\ \A j \in 1..(k - 1) : list[j].effect.priority >= priority
    /\ k <= Len(list) => list[k].effect.priority < priority
InsertPosition(list, priority) ==
  CHOOSE k \in 1..(Len(list) + 1) :
    /\ \A j \in 1..(k - 1) : list[j].effect.priority > priority
    /\ k <= Len(list) => list[k].effect.priority <= priority

InsertByPriority(list, i) ==
  InsertAt(list, InsertPosition(list, i.effect.priority), i)

-----------------------------------------------------------------------------
(* The API.                                                                *)

Call == calls < MaxCalls /\ calls' = calls + 1

(* check_moudle_init: the first call starts the thread, which may already  *)
(* wait for ever when that call gets the mutex.                            *)
check_moudle_init ==
  IF led_thread = "none" THEN {"wait", "forever"} ELSE {led_thread}

RK_set_led_effect(e) ==
  LET ins == [id |-> calls + 1, effect |-> e, time |-> 0,
              colors |-> e.colors, count |-> 0]
  IN
  /\ Call
  /\ CASE e.layer = STABLE ->
            /\ stable' = InsertByPriority(RemoveName(stable, e.name), ins)
            /\ new_command_reached' = 0
            /\ UNCHANGED <<temp, realtime>>
       [] e.layer = REALTIME ->
            /\ realtime' = ins
            /\ new_command_reached' = 1
            /\ UNCHANGED <<temp, stable>>
       [] e.layer = TEMP ->
            /\ temp' = ins
            /\ new_command_reached' = 2
            /\ UNCHANGED <<realtime, stable>>
  /\ \E thread \in check_moudle_init : led_thread' = signal(thread)
  /\ UNCHANGED <<color_last, status, lit, shown>>

(* RK_set_led_effect_off looks at the name in the STABLE layer only.       *)
RK_set_led_effect_off(layer, name) ==
  /\ Call
  /\ stable' = IF layer = STABLE THEN RemoveName(stable, name) ELSE stable
  /\ realtime' = IF layer = REALTIME THEN NULL ELSE realtime
  /\ temp' = IF layer = TEMP THEN NULL ELSE temp
  /\ IF AllLayersEmpty' THEN RK_set_all_led_off ELSE UNCHANGED <<status, lit>>
  /\ led_thread' = signal(led_thread)
  /\ UNCHANGED <<new_command_reached, color_last, shown>>

RK_set_all_led_effect_off ==
  /\ Call
  /\ temp' = NULL
  /\ realtime' = NULL
  /\ stable' = <<>>
  /\ led_thread' = signal(led_thread)
  /\ UNCHANGED <<new_command_reached, color_last, status, lit, shown>>

(* A client that writes the LED itself, without the mutex.                 *)
DirectWrite(color) ==
  /\ Call
  /\ RK_set_all_led_status(color)
  /\ UNCHANGED <<temp, realtime, stable, new_command_reached, led_thread,
                 color_last, shown>>

RK_led_init ==
  /\ Call
  /\ status = 0
  /\ \E opened \in DeviceOutcomes : status' = IF opened THEN 1 ELSE -1
  /\ UNCHANGED <<temp, realtime, stable, new_command_reached, led_thread,
                 color_last, lit, shown>>

RK_led_exit ==
  /\ Call
  /\ status' = 0
  /\ UNCHANGED <<temp, realtime, stable, new_command_reached, led_thread,
                 color_last, lit, shown>>

-----------------------------------------------------------------------------
(* led_thread.                                                             *)

led_wait_new_command_Unchecked ==
  /\ led_thread = "wait"
  /\ led_thread' = WaitKind
  /\ UNCHANGED <<temp, realtime, stable, new_command_reached, color_last,
                 status, lit, shown, calls>>
led_wait_new_command ==
  /\ led_thread = "wait"
  /\ led_thread' = IF new_command_reached >= 0 THEN "handle" ELSE WaitKind
  /\ UNCHANGED <<temp, realtime, stable, new_command_reached, color_last,
                 status, lit, shown, calls>>

(* pthread_cond_timedwait times out.                                       *)
WaitTimeout ==
  /\ led_thread = "timed"
  /\ led_thread' = "woken"
  /\ UNCHANGED <<temp, realtime, stable, new_command_reached, color_last,
                 status, lit, shown, calls>>

(* pthread_cond_wait returns without a signal, as POSIX allows.            *)
SpuriousWakeup ==
  /\ led_thread = "forever"
  /\ led_thread' = "woken"
  /\ UNCHANGED <<temp, realtime, stable, new_command_reached, color_last,
                 status, lit, shown, calls>>

(* The rest of led_wait_new_command, and the branch of led_thread on it.   *)
WokenUp ==
  /\ led_thread = "woken"
  /\ led_thread' = IF new_command_reached >= 0 THEN "handle" ELSE "task"
  /\ UNCHANGED <<temp, realtime, stable, new_command_reached, color_last,
                 status, lit, shown, calls>>

led_handle_new_command_NoTask ==
  /\ led_thread = "handle"
  /\ new_command_reached' = -1
  /\ led_thread' = "wait"
  /\ UNCHANGED <<temp, realtime, stable, color_last, status, lit, shown, calls>>
led_handle_new_command ==
  /\ led_thread = "handle"
  /\ new_command_reached' = -1
  /\ led_thread' = "task"
  /\ UNCHANGED <<temp, realtime, stable, color_last, status, lit, shown, calls>>

(* led_effect_task: drop the expired, display and write the topmost effect *)
(* that is left.                                                           *)
led_effect_task ==
  LET t == Unexpired(temp)
      r == IF t = NULL THEN Unexpired(realtime) ELSE realtime
      s == IF t = NULL /\ r = NULL THEN UnexpiredList ELSE stable
      top == IF t # NULL THEN t ELSE IF r # NULL THEN r
             ELSE IF s # <<>> THEN s[1] ELSE NULL
      Shows(i) == Display(i).colors
  IN
  /\ led_thread = "task"
  /\ IF top # NULL /\ BreathUndefined(top.effect)
     THEN /\ led_thread' = "undefined"
          /\ UNCHANGED <<temp, realtime, stable, color_last, status, lit, shown>>
     ELSE /\ temp' = IF t = NULL THEN NULL ELSE Display(t)
          /\ realtime' = IF t = NULL /\ r # NULL THEN Display(r) ELSE r
          /\ stable' = IF t = NULL /\ r = NULL /\ s # <<>>
                       THEN ReplaceAt(s, 1, Display(s[1])) ELSE s
          /\ IF top = NULL
             THEN RK_set_all_led_off /\ UNCHANGED color_last
             ELSE led_write(Shows(top))
          /\ shown' = IF top = NULL THEN 0 ELSE top.id
          /\ led_thread' = "wait"
  /\ UNCHANGED <<new_command_reached, calls>>

-----------------------------------------------------------------------------
Init ==
  /\ temp = NULL
  /\ realtime = NULL
  /\ stable = <<>>
  /\ new_command_reached = 0
  /\ led_thread = "none"
  /\ color_last = -1
  /\ status = 0
  /\ lit = 0
  /\ shown = 0
  /\ calls = 0

Client ==
  \/ \E e \in Effects : RK_set_led_effect(e)
  \/ \E layer \in Layers, name \in Names : RK_set_led_effect_off(layer, name)
  \/ RK_set_all_led_effect_off
  \/ \E color \in DirectColors : DirectWrite(color)
  \/ RK_led_init
  \/ RK_led_exit

Thread ==
  \/ led_wait_new_command
  \/ WaitTimeout
  \/ WokenUp
  \/ led_handle_new_command
  \/ led_effect_task

Next == Client \/ Thread \/ SpuriousWakeup

(* The kernel schedules the detached thread, the mutex is free between the *)
(* short sections and timed waits end: the thread goes on whenever it can. *)
Spec == Init /\ [][Next]_vars /\ WF_vars(Thread)

-----------------------------------------------------------------------------
(* What holds.                                                             *)

Sorted(list) ==
  \A j, k \in 1..Len(list) : j < k =>
    \/ list[j].effect.priority > list[k].effect.priority
    \/ /\ list[j].effect.priority = list[k].effect.priority
       /\ list[j].id > list[k].id

UniqueNames(list) ==
  \A j, k \in 1..Len(list) : list[j].effect.name = list[k].effect.name => j = k

(* The STABLE list is a stack by priority: a more important effect is      *)
(* nearer the head and, among equals, the one set last (the two loops of   *)
(* RK_set_led_effect, across expiries and removals).                       *)
StableSorted == Sorted(stable)

(* No two effects of the STABLE list have the same name, so that           *)
(* RK_set_led_effect_off, which stops at the first, leaves none behind.    *)
StableNamesUnique == UniqueNames(stable)

(* The thread never sleeps over a command that RK_set_led_effect left for  *)
(* it: whatever order the signal and the wait come in, it is not lost.     *)
PendingNeverSleeps == new_command_reached >= 0 => led_thread \notin Blocked

(* When the thread sleeps after a call of RK_set_led_effect that put its   *)
(* effect on top, that effect is the one being displayed.                  *)
SetIsShown ==
  led_thread \in Blocked /\ Top # NULL /\ Top.id = calls => shown = Top.id

(* A TEMP effect is displayed, unless it is replaced or taken away before. *)
TempIsShown ==
  \A n \in 1..MaxCalls :
    (temp # NULL /\ temp.id = n) ~> (shown = n \/ temp = NULL \/ temp.id # n)

(* A TEMP effect with a period and a timeout does not stay for ever        *)
(* (led_effect_task counts time, need_wait_forever makes the thread come). *)
TempExpires ==
  \A n \in 1..MaxCalls :
    (temp # NULL /\ temp.id = n /\ temp.effect.period > 0 /\ temp.effect.timeout > 0)
      ~> (temp = NULL \/ temp.id # n)

-----------------------------------------------------------------------------
(* The layers, the list and the thread implement a set of effects of which *)
(* the topmost is displayed.                                               *)

Abstract(i) == [id |-> i.id, effect |-> i.effect]
AbstractActive ==
  {Abstract(i) : i \in ({temp, realtime} \ {NULL})
                        \cup {stable[k] : k \in 1..Len(stable)}}

Promise == INSTANCE LedLayers WITH active <- AbstractActive, issued <- calls

(* Every step of the manager is a step of LedLayers, or changes neither    *)
(* the active effects nor the displayed one: led_effect_task displays the  *)
(* topmost effect, drops only effects with a timeout and none below one    *)
(* that stays; off removes exactly the named effect.                       *)
ImplementsLayers == Promise!LayersSpec

-----------------------------------------------------------------------------
(* What the documentation says and the code does not do.                   *)

(* "If the effect that is closed is the displayed one, the previous effect *)
(* is displayed automatically": when the thread sleeps for ever, it        *)
(* displays the top effect.                                                *)
OffUncoversPrevious == led_thread = "forever" /\ Top # NULL => shown = Top.id

(* "If TEMP has an element it is always displayed ...": the LED has the    *)
(* colour of the effect that the thread has chosen and sleeps over.        *)
ChosenIsLit ==
  led_thread = "forever" /\ Top # NULL /\ Top.id = shown => lit = Top.colors
=============================================================================
