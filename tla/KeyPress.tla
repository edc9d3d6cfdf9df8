------------------------------ MODULE KeyPress ------------------------------
(***************************************************************************)
(* Single, long and multiple presses of the key module,                    *)
(* DeviceIO/src/linux/Rk_key.cpp.                                          *)
(*                                                                         *)
(* Three threads decide what a press is.  thread_key_monitor reads presses *)
(* and releases; a key that has long presses starts the one timer.  The    *)
(* thread of RK_timer calls timer_cb when the longest of them is reached,  *)
(* or again and again for a heartbeat.  thread_key_multiple counts the     *)
(* clicks and decides once no other has come for TIME_MULTIPLE.  The last  *)
(* two share m_input_multiple_event under a mutex, a critical section      *)
(* being one action; m_input_timer and the timer have no lock.             *)
(*                                                                         *)
(* Time passes in ticks, and only when no thread has anything to do: what  *)
(* the threads and callbacks do takes less than a tick, but within a tick  *)
(* they run in any order.  No composition, which would also stop the timer,*)
(* is registered: those are the subject of KeyCompose.                     *)
(***************************************************************************)
EXTENDS Integers, Sequences, SequencesExt, FiniteSets, FiniteSetsExt

CONSTANTS
  Keys, NULL,
  Times,          \* times of the long presses and heartbeats to register
  Clicks,         \* numbers of clicks to register
  TIME_MULTIPLE,  \* the time between two clicks of one multiple press
  MaxAge,         \* ages are kept up to here, the longest time
  MaxRegistered,  \* bounds on the number of registrations, for several keys
  MaxAlone        \* and for one, the others having none

Ages == 0..MaxAge

ASSUME KeysAssumption == NULL \notin Keys
ASSUME TimesAssumption ==
  /\ TIME_MULTIPLE \in Nat \ {0} /\ {MaxAge, MaxRegistered, MaxAlone} \subseteq Nat
  /\ Clicks \subseteq Nat \ {0} /\ Times \subseteq Nat \ {0}
  /\ \A t \in Times \cup {TIME_MULTIPLE + 1} : t <= MaxAge
ASSUME ClicksAssumption == \E most \in Clicks \cup {0} : \A n \in Clicks : n <= most

VARIABLES
  m_long_press_head,      \* each key's [time, kind], the latest first
  m_multiple_press_head,  \* each key's numbers of clicks
  handle,                 \* the timer: [time, repeat, start, last, listed],
                          \* with the ages of timer_start and timer_last
  m_input_timer,          \* [timer, cb, hb, key_code]; of the pointers,
                          \* whether they are set
  m_input_multiple_event, \* [event, max, times, clicked, code, age, responded]
  monitor,                \* thread_key_monitor: [pc, code, time]
  timer,                  \* rk_thread_timer: [pc, once]
  key,                    \* the user: of each key whether it is down, whether
                          \* it has changed in this tick, for how long it is or
                          \* was held, the age of the last press, and how many
                          \* presses came within TIME_MULTIPLE of each other
  owed,                   \* history: the keys pressed and not reported since
  undue,                  \* history: the kinds of report made without a cause
  excuse                  \* history: the worst that the code has no
                          \* provision for.  "late": a press or release comes
                          \* while a time is up and not handled, or responded
                          \* is left from before;  "overlap": two keys at once

lists == <<m_long_press_head, m_multiple_press_head>>
history == <<owed, undue, excuse>>
vars == <<lists, handle, m_input_timer, m_input_multiple_event, monitor, timer,
          key, history>>

Greatest(S) == CHOOSE x \in S : \A y \in S : y <= x
Unlisted == [time |-> 0, repeat |-> 0, start |-> 0, last |-> 0, listed |-> FALSE]
NoTimer == [timer |-> FALSE, cb |-> FALSE, hb |-> FALSE, key_code |-> NULL]
NoEvent == [event |-> NULL, max |-> 0, times |-> 0, code |-> NULL, age |-> 0,
            clicked |-> FALSE, responded |-> FALSE]
Idle == [pc |-> "idle", code |-> NULL, time |-> 0]

(* Type invariant, and: clicks are not counted up to the most there may be,*)
(* but reported then.                                                      *)
Presses == [time : Times, kind : {"cb", "hb"}]
TypeOK ==
  /\ m_long_press_head \in [Keys -> Seq(Presses)]
  /\ m_multiple_press_head \in [Keys -> SUBSET Clicks]
  /\ handle \in [time : Times \cup {0}, repeat : Times \cup {0},
                 start : Ages, last : Ages, listed : BOOLEAN]
  /\ m_input_timer \in [timer : BOOLEAN, cb : BOOLEAN, hb : BOOLEAN,
                        key_code : Keys \cup {NULL}]
  /\ m_input_multiple_event \in
       [event : Keys \cup {NULL}, code : Keys \cup {NULL}, age : Ages,
        times : 0..Greatest(Clicks \cup {2}) - 1, max : Clicks \cup {0},
        clicked : BOOLEAN, responded : BOOLEAN]
  /\ monitor \in [pc : {"idle", "arm", "click", "press", "time", "stop", "answer", "clear"},
                  code : Keys \cup {NULL}, time : Ages]
  /\ timer \in [pc : {"walk", "called", "key", "call", "reset", "return"},
                once : BOOLEAN]
  /\ key \in [Keys -> [down : BOOLEAN, changed : BOOLEAN, held : Ages,
                       last : Ages, count : 0..Greatest(Clicks \cup {1})]]
  /\ owed \subseteq Keys
  /\ undue \subseteq {"long", "multiple"}
  /\ excuse \in {"none", "late", "overlap", "crash"}

-----------------------------------------------------------------------------
(* Reports: the callbacks of the application.                              *)
Report(kind, k, due) ==
  /\ undue' = IF due THEN undue ELSE undue \cup {kind}
  /\ owed' = owed \ {k}
  /\ UNCHANGED excuse
ReportPress(k) == Report("press", k, TRUE)
ReportLong(k, time) == Report("long", k, key[k].held >= time)
ReportMultiple(k, times) == Report("multiple", k, key[k].count >= times)

(* A pointer that is NULL is followed.                                     *)
Crash == excuse' = "crash" /\ UNCHANGED <<owed, undue>>
Running == excuse # "crash"

-----------------------------------------------------------------------------
(* Registrations, here all before the first press.  A long press forgets   *)
(* the heartbeats of its key and the other way round; what is registered   *)
(* already is ignored.                                                     *)
Used(k) == key[k].down \/ key[k].changed \/ key[k].last > 0
MayRegister == \A k \in Keys : ~Used(k)
Registered(k) == Len(m_long_press_head[k]) + Cardinality(m_multiple_press_head[k])
BoundRegistered(k) ==
  \/ MapThenSumSet(Registered, Keys) < MaxRegistered
  \/ Registered(k) < MaxAlone /\ \A other \in Keys \ {k} : Registered(other) = 0
NotUsed == <<handle, m_input_timer, m_input_multiple_event, monitor, timer, key, history>>

RK_input_register_long_press(k, press) ==
  LET list == m_long_press_head[k]
      same == IF list # <<>> /\ list[1].kind # press.kind THEN <<>> ELSE list
  IN
  /\ MayRegister /\ BoundRegistered(k)
  /\ ~Contains(same, press)
  /\ m_long_press_head' = [m_long_press_head EXCEPT ![k] = <<press>> \o same]
  /\ UNCHANGED <<NotUsed, m_multiple_press_head>>

RK_input_register_multiple_press_callback(k, times) ==
  /\ MayRegister /\ BoundRegistered(k)
  /\ times \notin m_multiple_press_head[k]
  /\ m_multiple_press_head' = [m_multiple_press_head EXCEPT ![k] = @ \cup {times}]
  /\ UNCHANGED <<NotUsed, m_long_press_head>>

-----------------------------------------------------------------------------
(* What is looked up.  get_input_long_press_key takes the last of the list *)
(* that the time has reached, be it the longest or not.                    *)
HasLong(k) == m_long_press_head[k] # <<>>
OneHeartbeat(k) ==
  Len(m_long_press_head[k]) <= 1 \/ m_long_press_head[k][1].kind = "cb"
HasMultiple(k) == m_multiple_press_head[k] # {}

get_max_input_long_press_key(k) ==
  CHOOSE p \in ToSet(m_long_press_head[k]) :
    \A q \in ToSet(m_long_press_head[k]) : q.time <= p.time

Reached(k, time) ==
  {i \in 1..Len(m_long_press_head[k]) : m_long_press_head[k][i].time <= time}
get_input_long_press_key_Any(k, time) ==
  IF HasLong(k) THEN Last(m_long_press_head[k]) ELSE NULL
get_input_long_press_key(k, time) ==
  IF Reached(k, time) = {} THEN NULL
  ELSE m_long_press_head[k][Greatest(Reached(k, time))]

Enough(k, times) == {n \in m_multiple_press_head[k] : n <= times}
get_multiple_press_Next(k, times) ==
  IF Enough(k, times + 1) = {} THEN NULL ELSE Greatest(Enough(k, times + 1))
get_multiple_press(k, times) ==
  IF Enough(k, times) = {} THEN NULL ELSE Greatest(Enough(k, times))

(* RK_timer.cpp: a handle that is listed is not started again, and keeps   *)
(* its timer_start.                                                        *)
RK_timer_start(h) ==
  IF h.listed THEN h ELSE [h EXCEPT !.start = 0, !.last = 0, !.listed = TRUE]
RK_timer_stop(h) == [h EXCEPT !.listed = FALSE]
IsDue(h) ==
  h.listed /\ IF h.repeat = 0 THEN h.start >= h.time ELSE h.last >= h.repeat

(* It leaves the heartbeat as it is.                                       *)
input_timer_reset_Kept(i) == [i EXCEPT !.timer = FALSE, !.cb = FALSE]
input_timer_reset(i) == [i EXCEPT !.timer = FALSE, !.cb = FALSE, !.key_code = NULL]

(* thread_key_multiple waits until clicked, or, with a click to decide, no *)
(* longer than until TIME_MULTIPLE after it.                               *)
MultipleWaits == m_input_multiple_event.event # NULL /\ ~m_input_multiple_event.clicked
Expired == MultipleWaits /\ m_input_multiple_event.age >= TIME_MULTIPLE

(* It leaves clicked and responded as they are.                            *)
multiple_press_event_reset(e) ==
  [e EXCEPT !.event = NULL, !.times = 0, !.max = 0, !.code = NULL, !.age = 0]

-----------------------------------------------------------------------------
(* thread_key_monitor, handle_input_event.                                 *)
MonitorGoes(pc) == monitor' = [monitor EXCEPT !.pc = pc]
Done == monitor' = Idle

(* The user changes a key at most once a tick.  Keys overlap when one is   *)
(* pressed not later than in the tick in which the other goes up, or before*)
(* its press is reported.                                                  *)
MostClicks == Greatest(Clicks \cup {1})
Late == IF excuse = "none" THEN "late" ELSE excuse
Decided(k) == ~key[k].down /\ ~key[k].changed /\ k \notin owed

UserPresses(k) ==
  /\ monitor.pc = "idle" /\ Running
  /\ ~key[k].down /\ ~key[k].changed
  /\ key' = [key EXCEPT ![k] =
       [down |-> TRUE, changed |-> TRUE, held |-> 0, last |-> 0,
        count |-> IF @.count < MostClicks THEN @.count + 1 ELSE MostClicks]]
  /\ excuse' = IF \E other \in Keys \ {k} : ~Decided(other) THEN "overlap"
               ELSE IF Expired \/ m_input_multiple_event.responded THEN Late
               ELSE excuse
  /\ owed' = owed \cup {k}
  /\ UNCHANGED undue

(* A press: a key with long presses sets the timer up.                     *)
Press(k) ==
  /\ UserPresses(k)
  /\ IF HasLong(k)
     THEN LET max == get_max_input_long_press_key(k) IN
          /\ handle' = [handle EXCEPT !.time = IF max.kind = "cb" THEN max.time ELSE 0,
                                      !.repeat = IF max.kind = "hb" THEN max.time ELSE 0]
          /\ m_input_timer' = [m_input_timer EXCEPT !.cb = max.kind = "cb",
                                                    !.hb = max.kind = "hb"]
     ELSE UNCHANGED <<handle, m_input_timer>>
  /\ monitor' = [code |-> k, time |-> 0,
                 pc |-> IF HasLong(k) THEN "arm"
                        ELSE IF HasMultiple(k) THEN "click" ELSE "press"]
  /\ UNCHANGED <<lists, m_input_multiple_event, timer>>

Arm ==
  /\ monitor.pc = "arm"
  /\ m_input_timer' = [m_input_timer EXCEPT !.timer = TRUE, !.key_code = monitor.code]
  /\ handle' = RK_timer_start(handle)
  /\ IF HasMultiple(monitor.code) THEN MonitorGoes("click") ELSE Done
  /\ UNCHANGED <<lists, m_input_multiple_event, timer, key, history>>

(* clicked is a flag, not a count; the signal wakes thread_key_multiple.   *)
Click ==
  /\ monitor.pc = "click"
  /\ m_input_multiple_event' =
       [m_input_multiple_event EXCEPT !.clicked = TRUE, !.code = monitor.code,
          !.max = Greatest(m_multiple_press_head[monitor.code])]
  /\ Done
  /\ UNCHANGED <<lists, handle, m_input_timer, timer, key, history>>

PlainPress ==
  /\ monitor.pc = "press"
  /\ ReportPress(monitor.code)
  /\ Done
  /\ UNCHANGED <<lists, handle, m_input_timer, m_input_multiple_event, timer, key>>

(* A release, late when the timer is due and has not yet called back.      *)
Release(k) ==
  /\ monitor.pc = "idle" /\ Running
  /\ key[k].down /\ ~key[k].changed
  /\ key' = [key EXCEPT ![k].down = FALSE, ![k].changed = TRUE]
  /\ excuse' = IF IsDue(handle) \/ timer.pc # "walk" THEN Late ELSE excuse
  /\ monitor' = [code |-> k, time |-> 0,
                 pc |-> IF HasLong(k) /\ m_input_timer.timer /\ m_input_timer.key_code # NULL
                        THEN "time" ELSE "clear"]
  /\ UNCHANGED <<lists, handle, m_input_timer, m_input_multiple_event, timer, owed, undue>>

(* The pointer that was tested is followed after timer_cb may have reset it. *)
ReadTime ==
  /\ monitor.pc = "time"
  /\ IF m_input_timer.timer THEN UNCHANGED history ELSE Crash
  /\ monitor' = [monitor EXCEPT !.pc = "stop", !.time = handle.start]
  /\ UNCHANGED <<lists, handle, m_input_timer, m_input_multiple_event, timer, key>>

Stop ==
  /\ monitor.pc = "stop"
  /\ handle' = IF m_input_timer.timer THEN RK_timer_stop(handle) ELSE handle
  /\ m_input_timer' = input_timer_reset(m_input_timer)
  /\ MonitorGoes("answer")
  /\ UNCHANGED <<lists, m_input_multiple_event, timer, key, history>>

(* A long press whose time is reached; or a press, unless clicks are being *)
(* counted or a multiple press has been reported.                          *)
Answer ==
  LET k == monitor.code
      long == get_input_long_press_key(k, monitor.time)
      e == m_input_multiple_event
  IN
  /\ monitor.pc = "answer"
  /\ IF long # NULL
     THEN IF long.kind = "cb" THEN ReportLong(k, long.time) ELSE UNCHANGED history
     ELSE IF e.event = NULL /\ ~e.responded THEN ReportPress(k)
     ELSE UNCHANGED history
  /\ MonitorGoes("clear")
  /\ UNCHANGED <<lists, handle, m_input_timer, m_input_multiple_event, timer, key>>

Clear ==
  /\ monitor.pc = "clear"
  /\ m_input_multiple_event' = [m_input_multiple_event EXCEPT !.responded = FALSE]
  /\ Done
  /\ UNCHANGED <<lists, handle, m_input_timer, timer, key, history>>

Monitor == Arm \/ Click \/ PlainPress \/ ReadTime \/ Stop \/ Answer \/ Clear

-----------------------------------------------------------------------------
(* rk_thread_timer and timer_cb.                                           *)
TimerGoes(pc) == timer' = [timer EXCEPT !.pc = pc]

Due ==
  /\ timer.pc = "walk" /\ IsDue(handle) /\ Running
  /\ timer' = [pc |-> "called", once |-> handle.repeat = 0]
  /\ handle' = IF handle.repeat = 0 THEN handle ELSE [handle EXCEPT !.last = 0]
  /\ UNCHANGED <<lists, m_input_timer, m_input_multiple_event, monitor, key, history>>

Called ==
  /\ timer.pc = "called"
  /\ IF m_input_timer.cb
     THEN /\ handle' = IF m_input_timer.timer THEN RK_timer_stop(handle) ELSE handle
          /\ TimerGoes("key")
          /\ UNCHANGED history
     ELSE /\ UNCHANGED handle
          /\ TimerGoes("return")
          /\ IF m_input_timer.hb /\ m_input_timer.key_code # NULL
             THEN ReportLong(m_input_timer.key_code, handle.repeat)
             ELSE UNCHANGED history
  /\ UNCHANGED <<lists, m_input_timer, m_input_multiple_event, monitor, key>>

TestKey ==
  /\ timer.pc = "key"
  /\ TimerGoes(IF m_input_timer.key_code # NULL THEN "call" ELSE "reset")
  /\ UNCHANGED <<lists, handle, m_input_timer, m_input_multiple_event, monitor, key, history>>

(* Callback, key and timer are read again.                                 *)
CallLong ==
  /\ timer.pc = "call"
  /\ IF m_input_timer.cb /\ m_input_timer.timer
     THEN ReportLong(m_input_timer.key_code, handle.time)
     ELSE Crash
  /\ TimerGoes("reset")
  /\ UNCHANGED <<lists, handle, m_input_timer, m_input_multiple_event, monitor, key>>

ResetTimer ==
  /\ timer.pc = "reset"
  /\ m_input_timer' = input_timer_reset(m_input_timer)
  /\ TimerGoes("return")
  /\ UNCHANGED <<lists, handle, m_input_multiple_event, monitor, key, history>>

Return ==
  /\ timer.pc = "return"
  /\ handle' = IF timer.once THEN RK_timer_stop(handle) ELSE handle
  /\ timer' = [pc |-> "walk", once |-> FALSE]
  /\ UNCHANGED <<lists, m_input_timer, m_input_multiple_event, monitor, key, history>>

Timer == Due \/ Called \/ TestKey \/ CallLong \/ ResetTimer \/ Return

-----------------------------------------------------------------------------
Completes_Beyond(e) == e.times + 1 > e.max
Completes(e) == e.times + 1 >= e.max

(* multiple_handle_new_event: the first click, another, or a click of      *)
(* another key, where the callback of a press gets its key by a pointer    *)
(* that is known to be NULL.                                               *)
multiple_handle_new_event ==
  LET e == m_input_multiple_event
      new == [e EXCEPT !.clicked = FALSE, !.age = 0]
      next == [new EXCEPT !.times = @ + 1]
      report == get_multiple_press(e.event, e.times)
  IN
  /\ e.clicked /\ Running
  /\ \/ /\ e.event = NULL
        /\ m_input_multiple_event' = [new EXCEPT !.times = 1, !.event = e.code]
        /\ UNCHANGED history
     \/ /\ e.event # NULL /\ e.event # e.code
        /\ m_input_multiple_event' = [new EXCEPT !.times = 1, !.event = e.code,
                                                 !.responded = @ \/ report # NULL]
        /\ IF report # NULL THEN ReportMultiple(e.event, report) ELSE Crash
     \/ /\ e.event = e.code /\ Completes(e)
        /\ m_input_multiple_event' =
             [multiple_press_event_reset(next) EXCEPT !.responded = TRUE]
        /\ ReportMultiple(e.code, e.max)
     \/ /\ e.event = e.code /\ ~Completes(e)
        /\ m_input_multiple_event' = next
        /\ UNCHANGED history
  /\ UNCHANGED <<lists, handle, m_input_timer, monitor, timer, key>>

(* multiple_wait_new_event, when the time is up: a press is left to the    *)
(* release while a timer is set.                                           *)
Expire ==
  LET e == m_input_multiple_event
      report == get_multiple_press(e.code, e.times)
  IN
  /\ Expired /\ Running
  /\ m_input_multiple_event' =
       [multiple_press_event_reset(e) EXCEPT !.responded = @ \/ report # NULL]
  /\ IF report # NULL THEN ReportMultiple(e.code, report)
     ELSE IF m_input_timer.key_code = NULL THEN ReportPress(e.code)
     ELSE UNCHANGED history
  /\ UNCHANGED <<lists, handle, m_input_timer, monitor, timer, key>>

Multiple == multiple_handle_new_event \/ Expire

-----------------------------------------------------------------------------
(* A tick: TIME_MULTIPLE ticks are 500 ms.  Clicks that are further apart  *)
(* are counted anew, and what an unlisted timer holds is no longer read.   *)
Quiet ==
  /\ monitor.pc = "idle" /\ timer.pc = "walk" /\ Running
  /\ ~IsDue(handle) /\ ~m_input_multiple_event.clicked /\ ~Expired

Older(age) == IF age < MaxAge THEN age + 1 ELSE MaxAge

Tick ==
  /\ Quiet
  /\ key' = [k \in Keys |->
       IF ~Used(k) THEN key[k]
       ELSE [down |-> key[k].down, changed |-> FALSE, last |-> Older(key[k].last),
             held |-> IF key[k].down THEN Older(key[k].held) ELSE 0,
             count |-> IF key[k].last < TIME_MULTIPLE THEN key[k].count ELSE 0]]
  /\ handle' = IF handle.listed THEN [handle EXCEPT !.start = Older(@), !.last = Older(@)]
               ELSE Unlisted
  /\ m_input_multiple_event' =
       IF MultipleWaits THEN [m_input_multiple_event EXCEPT !.age = Older(@)]
       ELSE m_input_multiple_event
  /\ <<key, handle, m_input_multiple_event>>' # <<key, handle, m_input_multiple_event>>
  /\ UNCHANGED <<lists, m_input_timer, monitor, timer, history>>

-----------------------------------------------------------------------------
Init ==
  /\ m_long_press_head = [k \in Keys |-> <<>>]
  /\ m_multiple_press_head = [k \in Keys |-> {}]
  /\ handle = Unlisted
  /\ m_input_timer = NoTimer
  /\ m_input_multiple_event = NoEvent
  /\ monitor = Idle
  /\ timer = [pc |-> "walk", once |-> FALSE]
  /\ key = [k \in Keys |-> [down |-> FALSE, changed |-> FALSE, held |-> 0,
                         last |-> 0, count |-> 0]]
  /\ owed = {} /\ undue = {} /\ excuse = "none"

Next ==
  \/ \E k \in Keys, p \in Presses : RK_input_register_long_press(k, p)
  \/ \E k \in Keys, n \in Clicks : RK_input_register_multiple_press_callback(k, n)
  \/ \E k \in Keys : Press(k) \/ Release(k)
  \/ Monitor \/ Timer \/ Multiple \/ Tick

(* The threads run, and time passes; a user need do nothing.               *)
Spec ==
  /\ Init /\ [][Next]_vars
  /\ WF_vars(Monitor) /\ WF_vars(Timer) /\ WF_vars(Multiple) /\ WF_vars(Tick)

-----------------------------------------------------------------------------
(* A multiple press is reported only for at least that many presses of the *)
(* key, each within TIME_MULTIPLE of the one before.                       *)
MultipleIsCounted == "multiple" \notin undue

(* While only one key is used at a time, a long press and a heartbeat are  *)
(* reported only for a key that is or was down for as long as that.        *)
LongIsHeld == "long" \in undue => excuse \in {"overlap", "crash"}

(* Every press of a key that has one heartbeat at most is reported, as a   *)
(* press, as long or as one of many: none falls between the three threads. *)
(* Excused are two keys at a time, a release in the tick in which the timer*)
(* is due, and what follows a multiple press reported after the release.   *)
PressIsAnswered ==
  \A k \in Keys :
    (k \in owed /\ OneHeartbeat(k)) ~> (k \notin owed \/ excuse # "none")
=============================================================================
