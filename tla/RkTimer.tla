------------------------------ MODULE RkTimer ------------------------------
(***************************************************************************)
(* The timer service, DeviceIO/src/linux/RK_timer.cpp.                     *)
(*                                                                         *)
(* Timers are handles on an intrusive linked list.  Clients create, start  *)
(* and stop them, rk_thread_timer walks the list every millisecond and     *)
(* calls back those that are due.  Nothing is locked: a client call, and a *)
(* call made from a callback, may come between any two steps of the walk.  *)
(***************************************************************************)
EXTENDS Integers, FiniteSets

CONSTANTS
  Handles,    \* the RK_Timer_t structures of the clients
  Clients,    \* the client threads
  Threads,    \* bounds how many timer threads exist at a time
  Settings,   \* the [time, repeat] that clients pass to RK_timer_create
  MaxAge,     \* ages are kept up to here, the longest interval
  Api,        \* the calls that clients make
  NULL

ASSUME SettingsAssumption == Settings \subseteq [time : Nat, repeat : Nat]
ASSUME MaxAgeAssumption ==
  MaxAge \in Nat /\ \A g \in Settings : g.time <= MaxAge /\ g.repeat <= MaxAge
ASSUME FiniteAssumption == IsFiniteSet(Handles)
ASSUME NullAssumption == NULL \notin Handles \cup [time : Nat, repeat : Nat]

VARIABLES
  timer,          \* per handle [time, repeat]: timer_time and timer_repeat,
                  \* NULL before RK_timer_create
  age,            \* per handle, ms since timer_start and since timer_last,
                  \* saturated at MaxAge
  next,           \* per handle, the link of the list
  head_handle,
  timer_running,
  pc, target,     \* per timer thread, where it is and its loop variable
  starting,       \* per client, the handle whose start is under way, or NULL
  todo,           \* per client, the statement at which such a start goes on
  armed,          \* history: one-shot handles listed and not called back since
  revived         \* history: handles listed again by the start of another one

vars == <<timer, age, next, head_handle, timer_running, pc, target,
          starting, todo, armed, revived>>
list == <<next, head_handle>>
start == <<starting, todo>>
history == <<armed, revived>>

(* Type invariant, and: the walk never looks at a NULL target.             *)
(*                                                                         *)
(* none: no thread;  loop: about to test timer_running;  asleep: in usleep; *)
(* visit: about to look at target;  oneshot, repeating: in its callback.    *)
(* stamp, link, head: before lines 60, 62 and 63.                          *)
Callback == {"oneshot", "repeating"}

TypeOK ==
  /\ timer \in [Handles -> [time : Nat, repeat : Nat] \cup {NULL}]
  /\ age \in [Handles -> [start : 0..MaxAge, last : 0..MaxAge]]
  /\ next \in [Handles -> Handles \cup {NULL}]
  /\ head_handle \in Handles \cup {NULL}
  /\ timer_running \in BOOLEAN
  /\ pc \in [Threads -> {"none", "loop", "asleep", "visit"} \cup Callback]
  /\ target \in [Threads -> Handles \cup {NULL}]
  /\ starting \in [Clients -> Handles \cup {NULL}]
  /\ todo \in [Clients -> {"stamp", "link", "head"}]
  /\ armed \in SUBSET Handles /\ revived \in SUBSET Handles
  /\ \A t \in Threads : pc[t] \in {"visit"} \cup Callback => target[t] # NULL

OneShot(h) == timer[h].repeat = 0
Due(h) == IF OneShot(h) THEN age[h].start >= timer[h].time
          ELSE age[h].last >= timer[h].repeat

(* What following the links from s reaches, and the handles on the list.   *)
Reached(s, links) ==
  LET reach[n \in 0..Cardinality(Handles)] ==
        IF n = 0 THEN {s} \ {NULL}
        ELSE reach[n - 1] \cup ({links[h] : h \in reach[n - 1]} \ {NULL})
  IN reach[Cardinality(Handles)]
Listed == Reached(head_handle, next)

(* Some listed handle is the last: the walks over the list end.            *)
ListEnds == head_handle # NULL => \E h \in Listed : next[h] = NULL

-----------------------------------------------------------------------------
(* RK_timer_init: a thread is created unless one is believed to run.  A    *)
(* failure to create it leaves everything as it was, RK_timer_start too.   *)
RK_timer_init ==
  IF timer_running
  THEN UNCHANGED <<timer_running, pc>>
  ELSE \E t \in Threads :
         /\ pc[t] = "none"
         /\ timer_running' = TRUE
         /\ pc' = [pc EXCEPT ![t] = "loop"]

(* Nothing looks at the list: the handle may be on it, as in Rk_key.cpp,   *)
(* which uses one handle for every key.                                    *)
RK_timer_create(h, setting) ==
  /\ timer[h] = NULL \/ "recreate" \in Api
  /\ timer' = [timer EXCEPT ![h] = setting]
  /\ UNCHANGED <<age, list, timer_running, pc, target, start, history>>

(* RK_timer_start, first half: the thread is started and the list searched *)
(* for the handle.                                                         *)
RK_timer_start_Unsearched(c, h) ==
  /\ starting[c] = NULL
  /\ timer[h] # NULL
  /\ RK_timer_init
  /\ ListEnds
  /\ starting' = [starting EXCEPT ![c] = h]
  /\ UNCHANGED <<timer, age, list, target, todo, history>>
RK_timer_start(c, h) ==
  /\ starting[c] = NULL
  /\ timer[h] # NULL
  /\ RK_timer_init
  /\ ListEnds
  /\ starting' = [starting EXCEPT ![c] = IF h \in Listed THEN NULL ELSE h]
  /\ UNCHANGED <<timer, age, list, target, todo, history>>

(* RK_timer_start, the rest: the handle is stamped, given the head as its  *)
(* link and made the head, in three statements that others may come between.*)
Stamp(c) ==
  /\ starting[c] # NULL /\ todo[c] = "stamp"
  /\ age' = [age EXCEPT ![starting[c]] = [start |-> 0, last |-> 0]]
  /\ todo' = [todo EXCEPT ![c] = "link"]
  /\ UNCHANGED <<timer, list, timer_running, pc, target, starting, history>>

Link(c) ==
  /\ starting[c] # NULL /\ todo[c] = "link"
  /\ next' = [next EXCEPT ![starting[c]] = head_handle]
  /\ todo' = [todo EXCEPT ![c] = "head"]
  /\ UNCHANGED <<timer, age, head_handle, timer_running, pc, target, starting, history>>

(* When the list was emptied since Link, what was on it is on it again.    *)
Head(c) ==
  LET h == starting[c] IN
  /\ h # NULL /\ todo[c] = "head"
  /\ head_handle' = h
  /\ starting' = [starting EXCEPT ![c] = NULL]
  /\ todo' = [todo EXCEPT ![c] = "stamp"]
  /\ armed' = IF OneShot(h) THEN armed \cup {h} ELSE armed
  /\ revived' = IF head_handle = next[h] THEN revived
                ELSE revived \cup Reached(next[h], next)
  /\ UNCHANGED <<timer, age, next, timer_running, pc, target>>

(* RK_timer_stop walks with a prev that is never set, so that finding the  *)
(* handle anywhere takes the branch for the head.                          *)
StoppedHead(h) == IF h \in Listed THEN NULL ELSE head_handle

RK_timer_stop(h) ==
  /\ ListEnds
  /\ head_handle' = StoppedHead(h)
  /\ UNCHANGED <<timer, age, next, timer_running, pc, target, start, history>>

RK_timer_exit ==
  /\ timer_running' = FALSE
  /\ UNCHANGED <<timer, age, list, pc, target, start, history>>

-----------------------------------------------------------------------------
(* rk_thread_timer.                                                        *)

Loop_Unchecked(t) ==
  /\ pc[t] = "loop"
  /\ pc' = [pc EXCEPT ![t] = "asleep"]
  /\ UNCHANGED <<timer, age, list, timer_running, target, start, history>>
Loop(t) ==
  /\ pc[t] = "loop"
  /\ pc' = [pc EXCEPT ![t] = IF timer_running THEN "asleep" ELSE "none"]
  /\ UNCHANGED <<timer, age, list, timer_running, target, start, history>>

(* The walk goes on at h, or is over.                                      *)
GoTo_Unchecked(t, h) ==
  /\ target' = [target EXCEPT ![t] = h]
  /\ pc' = [pc EXCEPT ![t] = "visit"]
GoTo(t, h) ==
  /\ target' = [target EXCEPT ![t] = h]
  /\ pc' = [pc EXCEPT ![t] = IF h = NULL THEN "loop" ELSE "visit"]

WakeUp(t) ==
  /\ pc[t] = "asleep"
  /\ GoTo(t, head_handle)
  /\ UNCHANGED <<timer, age, list, timer_running, start, history>>

Visit(t) ==
  LET h == target[t] IN
  /\ pc[t] = "visit"
  /\ IF Due(h)
     THEN /\ pc' = [pc EXCEPT ![t] = IF OneShot(h) THEN "oneshot" ELSE "repeating"]
          /\ age' = IF OneShot(h) THEN age ELSE [age EXCEPT ![h].last = 0]
          /\ armed' = armed \ {h} /\ revived' = revived \ {h}
          /\ UNCHANGED target
     ELSE GoTo(t, next[h]) /\ UNCHANGED <<age, history>>
  /\ UNCHANGED <<timer, list, timer_running, start>>

(* The callback returns; a one-shot timer is stopped and the walk goes on  *)
(* from its link, which RK_timer_stop left.                                *)
Return_Kept(t) ==
  /\ pc[t] \in Callback
  /\ GoTo(t, next[target[t]])
  /\ UNCHANGED <<head_handle, timer, age, next, timer_running, start, history>>
Return_Break(t) ==
  LET h == target[t] IN
  /\ pc[t] \in Callback
  /\ IF pc[t] = "oneshot"
     THEN ListEnds /\ head_handle' = StoppedHead(h)
     ELSE UNCHANGED head_handle
  /\ GoTo(t, NULL)
  /\ UNCHANGED <<timer, age, next, timer_running, start, history>>
Return(t) ==
  LET h == target[t] IN
  /\ pc[t] \in Callback
  /\ IF pc[t] = "oneshot"
     THEN ListEnds /\ head_handle' = StoppedHead(h)
     ELSE UNCHANGED head_handle
  /\ GoTo(t, next[h])
  /\ UNCHANGED <<timer, age, next, timer_running, start, history>>

(* A millisecond passes.                                                   *)
Tick ==
  LET older(n) == IF n = MaxAge THEN n ELSE n + 1 IN
  /\ age' = [h \in Handles |-> [start |-> older(age[h].start),
                                last |-> older(age[h].last)]]
  /\ age' # age
  /\ UNCHANGED <<timer, list, timer_running, pc, target, start, history>>

-----------------------------------------------------------------------------
Init ==
  /\ timer = [h \in Handles |-> NULL]
  /\ age = [h \in Handles |-> [start |-> 0, last |-> 0]]
  /\ next = [h \in Handles |-> NULL]
  /\ head_handle = NULL
  /\ timer_running = FALSE
  /\ pc = [t \in Threads |-> "none"]
  /\ target = [t \in Threads |-> NULL]
  /\ starting = [c \in Clients |-> NULL]
  /\ todo = [c \in Clients |-> "stamp"]
  /\ armed = {} /\ revived = {}

Client ==
  \/ \E h \in Handles, setting \in Settings : RK_timer_create(h, setting)
  \/ "stop" \in Api /\ \E h \in Handles : RK_timer_stop(h)
  \/ "init" \in Api /\ RK_timer_init
       /\ UNCHANGED <<timer, age, list, target, start, history>>
  \/ "exit" \in Api /\ RK_timer_exit
  \/ \E c \in Clients, h \in Handles : RK_timer_start(c, h)

Thread(t) == Loop(t) \/ WakeUp(t) \/ Visit(t) \/ Return(t)

Starting(c) == Stamp(c) \/ Link(c) \/ Head(c)

Next == Client \/ Tick \/ (\E c \in Clients : Starting(c)) \/ \E t \in Threads : Thread(t)

(* The kernel runs every thread, callbacks return, a started call goes on, *)
(* and time passes; a client need not call anything.                       *)
Spec ==
  /\ Init /\ [][Next]_vars
  /\ WF_vars(Tick)
  /\ \A c \in Clients : WF_vars(Starting(c))
  /\ \A t \in Threads : WF_vars(Thread(t))

-----------------------------------------------------------------------------
(* With one client thread, the list of timers stays a list.                *)
ListIsList == ListEnds

(* A one-shot timer is called back once per start, though the thread stops *)
(* it only after the callback and clients restart it meanwhile; and once   *)
(* more for every time the start of another handle lists it again, which   *)
(* happens when a stop, of a client or of the thread after a callback,     *)
(* empties the list between the two writes of that start.  (Clients that   *)
(* change the interval of a started handle are excluded.)                  *)
OneShotOnce ==
  [][\A t \in Threads :
       pc[t] = "visit" /\ pc'[t] = "oneshot"
         => target[t] \in armed \cup revived]_vars

(* A repeating timer that stays on the list is called back again and again,*)
(* whatever starts and stops come between and whoever else is on the list, *)
(* as long as the service runs.                                            *)
RepeatsForEver ==
  \A h \in Handles :
    <>[](h \in Listed /\ ~OneShot(h) /\ timer_running)
      => []<>(\E t \in Threads : pc[t] = "repeating" /\ target[t] = h)

(* After RK_timer_exit every timer thread ends, unless the service is      *)
(* started again: at most the walk under way is finished.                  *)
ExitEndsThreads ==
  ~timer_running ~> (timer_running \/ \A t \in Threads : pc[t] = "none")
=============================================================================
