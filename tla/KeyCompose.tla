----------------------------- MODULE KeyCompose -----------------------------
(***************************************************************************)
(* Compositions of the key module, DeviceIO/src/linux/Rk_key.cpp.          *)
(*                                                                         *)
(* A client registers a set of keys that are to be held down together for  *)
(* a time.  thread_key_monitor queues a composition when the last of its   *)
(* keys goes down and removes it when one goes up; thread_compose_long_key *)
(* waits on a condition variable until the earliest one has been held long *)
(* enough and calls it back.  The queue and two flags are shared under     *)
(* m_mutex_compose_long_press: a critical section is one action, and what  *)
(* comes between two sections is what this module is about.                *)
(*                                                                         *)
(* Long and multiple presses, which the monitor also handles, share no     *)
(* state with this but compose_state.                                      *)
(***************************************************************************)
EXTENDS Integers, Sequences, SequencesExt

CONSTANTS
  Keys,           \* key codes
  Composes,       \* the [keys, time] that clients register
  MaxRegistered,  \* bound on the number of registrations
  MaxAge,         \* bound on the age of a queued composition, above every
                  \* time: how late the thread may be
  NULL

Compose == [keys : Seq(Keys), time : Nat]

ASSUME KeysAssumption == Keys \subseteq 1..999
ASSUME ComposesAssumption == Composes \subseteq Compose
ASSUME AgeAssumption == MaxAge \in Nat /\ \A c \in Composes : c.time < MaxAge
ASSUME BoundsAssumption == MaxRegistered \in Nat

VARIABLES
  m_compose_press_head,      \* the registrations, the latest first
  m_key_pressed_head,        \* the keys that are down
  compose_state,             \* 0: no composition is down, 1: one is but the
                             \* key is not in it, 2: the key is in it
  m_compose_long_press_head, \* the queue, head first: [of, age], age being
                             \* the time since the last key went down
  m_complete,                \* m_complete_compose_long_press
  m_key_up,                  \* m_compose_long_press_key_up
  leaked,                    \* the monitor has kept the mutex
  monitor,                   \* "idle", or "signal": check_compose_press_event
                             \* was not 0, the rest of the press is to come
  compose,                   \* where thread_compose_long_key is
  event,                     \* the composition of the entry it waits for, or NULL
  freed,                     \* history: the releases since that entry was
                             \* freed, with the one that did it, up to 2
  called                     \* history: how often a registration was called
                             \* back since its keys went down together last

vars == <<m_compose_press_head, m_key_pressed_head, compose_state,
          m_compose_long_press_head, m_complete, m_key_up, leaked, monitor,
          compose, event, freed, called>>

Entry == [of : Compose, age : 0..MaxAge]
ASSUME NullAssumption == NULL \notin Compose

(* loop, handle, check: about to lock in compose_wait_new_event,           *)
(* compose_handle_new_event, compose_check_has_event;  forever, timed: in  *)
(* the waits;  woken: out of the timed one, about to have the mutex again; *)
(* undefined: freed memory was read, nothing is known any more.            *)
ThreadStates ==
  {"loop", "handle", "check", "forever", "timed", "woken", "undefined"}

(* Type invariant, and: while the thread waits with a deadline, what it    *)
(* waits for has not been freed.                                           *)
TypeOK ==
  /\ m_compose_press_head \in Seq(Composes)
  /\ m_key_pressed_head \in SUBSET Keys
  /\ compose_state \in 0..2
  /\ m_compose_long_press_head \in Seq(Entry)
  /\ m_complete \in BOOLEAN
  /\ m_key_up \in Keys \cup {0}
  /\ leaked \in BOOLEAN
  /\ monitor \in {"idle", "signal"}
  /\ compose \in ThreadStates
  /\ event \in Compose \cup {NULL}
  /\ called \in [Composes -> 0..2]
  /\ freed \in 0..2
  /\ compose = "timed" => event # NULL /\ freed = 0

-----------------------------------------------------------------------------
(* The elements of a list that are in T, in their order: SelectSeq, as a   *)
(* function that can be reasoned about.                                    *)
Among(list, T) ==
  LET first[n \in 0..Len(list)] ==
        IF n = 0 THEN <<>>
        ELSE IF list[n] \in T THEN Append(first[n - 1], list[n]) ELSE first[n - 1]
  IN first[Len(list)]

(* Keys and registrations.                                                 *)

(* strstr finds "<code> " in the keys also at the end of a longer code.    *)
Ends(key, code) ==
  \E u \in {10, 100, 1000} : u \div 10 <= code /\ code < u /\ key % u = code
Mentions_First(c, code) == Ends(c.keys[1], code)
Mentions(c, code) == \E k \in 1..Len(c.keys) : Ends(c.keys[k], code)

is_compose_press_event_ready(c, down) == \A k \in 1..Len(c.keys) : c.keys[k] \in down

Queued_Inverted(keys) ==
  \E k \in 1..Len(m_compose_long_press_head) :
    m_compose_long_press_head[k].of.keys # keys
Queued(keys) ==
  \E k \in 1..Len(m_compose_long_press_head) :
    m_compose_long_press_head[k].of.keys = keys

(* The registrations that check_compose_press_event queues, in their       *)
(* order: up to the first whose keys are in the queue.  There it keeps the *)
(* mutex, and blocks on it when it locks it again.                         *)
Found(code, down) ==
  Among(m_compose_press_head,
        {c \in Composes : is_compose_press_event_ready(c, down) /\ Mentions(c, code)})
Twice_Unsearched(found, k) == FALSE
Twice(found, k) ==
  Queued(found[k].keys) \/ \E j \in 1..(k - 1) : found[j].keys = found[k].keys
Leaks(found) == \E k \in 1..Len(found) : Twice(found, k)
Fresh(found) ==
  IF Leaks(found)
  THEN SubSeq(found, 1, (CHOOSE k \in 1..Len(found) :
                           /\ Twice(found, k)
                           /\ \A j \in 1..(k - 1) : ~Twice(found, j)) - 1)
  ELSE found

(* Whether the press completes a composition, and whether the release     *)
(* takes one out of the queue: when the monitor signals.                   *)
Completes_Other == compose_state = 1
Completes == compose_state = 2
Removes_Last(kept) == kept = <<>>
Removes(kept) == kept # m_compose_long_press_head

signal(thread) ==
  CASE thread = "forever" -> "loop"
    [] thread = "timed"   -> "woken"
    [] OTHER              -> thread

-----------------------------------------------------------------------------
(* The client.                                                             *)

RK_input_register_compose_press_callback(c) ==
  /\ Len(m_compose_press_head) < MaxRegistered
  /\ m_compose_press_head' = <<c>> \o m_compose_press_head
  /\ UNCHANGED <<m_key_pressed_head, compose_state, m_compose_long_press_head,
                 m_complete, m_key_up, leaked, monitor, compose, event, freed, called>>

-----------------------------------------------------------------------------
(* thread_key_monitor.                                                     *)

(* handle_input_event on a press, up to the result of                      *)
(* check_compose_press_event, which blocks the monitor only when it has    *)
(* kept the mutex before.                                                  *)
Press(code) ==
  LET down == m_key_pressed_head \cup {code}
      found == Found(code, down)
      ready == \E k \in 1..Len(m_compose_press_head) :
                 is_compose_press_event_ready(m_compose_press_head[k], down)
      entry(c) == [of |-> c, age |-> 0]
  IN
  /\ monitor = "idle" /\ ~leaked
  /\ code \notin m_key_pressed_head
  /\ m_key_pressed_head' = down
  /\ m_compose_long_press_head' =
       Reverse([k \in 1..Len(Fresh(found)) |-> entry(found[k])])
         \o m_compose_long_press_head
  /\ leaked' = Leaks(found)
  /\ compose_state' = IF found # <<>> THEN 2 ELSE IF ready THEN 1 ELSE 0
  /\ monitor' = IF ready THEN "signal" ELSE "idle"
  /\ called' = [c \in Composes |->
                  IF is_compose_press_event_ready(c, m_key_pressed_head) THEN called[c] ELSE 0]
  /\ UNCHANGED <<m_compose_press_head, m_complete, m_key_up, compose, event, freed>>

(* The rest of the press, which locks the mutex again.                     *)
Signal ==
  /\ monitor = "signal" /\ ~leaked
  /\ monitor' = "idle"
  /\ IF Completes
     THEN m_complete' = TRUE /\ compose' = signal(compose)
     ELSE UNCHANGED <<m_complete, compose>>
  /\ UNCHANGED <<m_compose_press_head, m_key_pressed_head, compose_state,
                 m_compose_long_press_head, m_key_up, leaked, event, freed, called>>

(* handle_input_event on a release.                                        *)
Release(code) ==
  LET q == m_compose_long_press_head
      kept == Among(q, {e \in ToSet(q) : ~Mentions(e.of, code)})
      up == m_key_pressed_head \ {code}
      frees == event # NULL /\ freed = 0 /\ Mentions(event, code)
  IN
  /\ monitor = "idle" /\ ~leaked
  /\ code \in m_key_pressed_head
  /\ m_key_pressed_head' = up
  /\ m_compose_long_press_head' = kept
  /\ freed' = IF frees THEN 1 ELSE IF freed > 0 THEN 2 ELSE 0
  /\ IF Removes(kept)
     THEN m_key_up' = code /\ compose' = signal(compose)
     ELSE m_key_up' = 0 /\ UNCHANGED compose
  /\ compose_state' = IF compose_state = 2 /\ up = {} THEN 0 ELSE compose_state
  /\ UNCHANGED <<m_compose_press_head, m_complete, leaked, monitor, event, called>>

-----------------------------------------------------------------------------
(* thread_compose_long_key.                                                *)

compose_wait_new_event ==
  /\ compose = "loop" /\ ~leaked
  /\ compose' = IF m_complete THEN "handle" ELSE "check"
  /\ UNCHANGED <<m_compose_press_head, m_key_pressed_head, compose_state,
                 m_compose_long_press_head, m_complete, m_key_up, leaked,
                 monitor, event, freed, called>>

compose_handle_new_event ==
  /\ compose = "handle" /\ ~leaked
  /\ m_complete' = FALSE
  /\ compose' = "check"
  /\ UNCHANGED <<m_compose_press_head, m_key_pressed_head, compose_state,
                 m_compose_long_press_head, m_key_up, leaked, monitor, event,
                 freed, called>>

(* The first of those that have the least time to go.                      *)
get_earliest_compose_long_event ==
  LET q == m_compose_long_press_head
      left(k) == q[k].of.time - q[k].age
  IN CHOOSE k \in 1..Len(q) :
       /\ \A j \in 1..Len(q) : left(k) <= left(j)
       /\ \A j \in 1..(k - 1) : left(k) < left(j)

(* Calling back c and compose_long_press_event_dequeue, which looks for    *)
(* the keys.                                                               *)
CallBack_Kept(c) ==
  /\ UNCHANGED m_compose_long_press_head
  /\ called' = [called EXCEPT ![c] = IF @ = 2 THEN 2 ELSE @ + 1]
CallBack(c) ==
  LET q == m_compose_long_press_head
      same == {k \in 1..Len(q) : q[k].of.keys = c.keys}
  IN
  /\ m_compose_long_press_head' =
       IF same = {} THEN q
       ELSE RemoveAt(q, CHOOSE k \in same : \A j \in same : k <= j)
  /\ called' = [called EXCEPT ![c] = IF @ = 2 THEN 2 ELSE @ + 1]

compose_check_has_event ==
  LET q == m_compose_long_press_head
      e == q[get_earliest_compose_long_event]
  IN
  /\ compose = "check" /\ ~leaked
  /\ CASE q = <<>> ->
            compose' = "forever" /\ UNCHANGED <<event, called, m_compose_long_press_head>>
       [] q # <<>> /\ e.age >= e.of.time ->
            CallBack(e.of) /\ compose' = "loop" /\ UNCHANGED event
       [] q # <<>> /\ e.age < e.of.time ->
            compose' = "timed" /\ event' = e.of
              /\ UNCHANGED <<called, m_compose_long_press_head>>
  /\ UNCHANGED <<m_compose_press_head, m_key_pressed_head, compose_state,
                 m_complete, m_key_up, leaked, monitor, freed>>

(* pthread_cond_timedwait times out.                                       *)
WaitTimeout ==
  /\ compose = "timed"
  /\ \E k \in 1..Len(m_compose_long_press_head) :
       LET e == m_compose_long_press_head[k]
       IN e.of = event /\ e.age >= e.of.time
  /\ compose' = "woken"
  /\ UNCHANGED <<m_compose_press_head, m_key_pressed_head, compose_state,
                 m_compose_long_press_head, m_complete, m_key_up, leaked,
                 monitor, event, freed, called>>

(* The rest of compose_check_has_event after the timed wait.  An entry that *)
(* was freed meanwhile is read all the same: it is as it was, or is that   *)
(* of a composition queued since, or makes no sense.                       *)
WokenUp ==
  /\ compose = "woken" /\ ~leaked
  /\ IF m_key_up > 0 \/ m_complete
     THEN compose' = "loop" /\ UNCHANGED <<m_compose_long_press_head, called>>
     ELSE \/ compose' = "loop" /\ CallBack(event)
          \/ /\ freed > 0 /\ compose' = "loop"
             /\ \E k \in 1..Len(m_compose_long_press_head) :
                  CallBack(m_compose_long_press_head[k].of)
          \/ /\ freed > 0 /\ compose' = "undefined"
             /\ UNCHANGED <<m_compose_long_press_head, called>>
  /\ event' = NULL /\ freed' = 0
  /\ UNCHANGED <<m_compose_press_head, m_key_pressed_head, compose_state,
                 m_complete, m_key_up, leaked, monitor>>

(* A millisecond passes, as long as no entry is older than MaxAge.         *)
Tick ==
  LET q == m_compose_long_press_head IN
  /\ q # <<>> /\ \A k \in 1..Len(q) : q[k].age < MaxAge
  /\ m_compose_long_press_head' = [k \in 1..Len(q) |-> [q[k] EXCEPT !.age = @ + 1]]
  /\ UNCHANGED <<m_compose_press_head, m_key_pressed_head, compose_state,
                 m_complete, m_key_up, leaked, monitor, compose, event, freed, called>>

-----------------------------------------------------------------------------
Init ==
  /\ m_compose_press_head = <<>>
  /\ m_key_pressed_head = {}
  /\ compose_state = 0
  /\ m_compose_long_press_head = <<>>
  /\ m_complete = FALSE
  /\ m_key_up = 0
  /\ leaked = FALSE
  /\ monitor = "idle"
  /\ compose = "loop"
  /\ event = NULL
  /\ freed = 0
  /\ called = [c \in Composes |-> 0]

Thread ==
  \/ compose_wait_new_event
  \/ compose_handle_new_event
  \/ compose_check_has_event
  \/ WaitTimeout
  \/ WokenUp

Next ==
  \/ \E c \in Composes : RK_input_register_compose_press_callback(c)
  \/ \E code \in Keys : Press(code) \/ Release(code)
  \/ Signal
  \/ Thread
  \/ Tick

(* The kernel runs both threads, callbacks return and time passes; nobody  *)
(* has to press or release a key.                                          *)
Spec == Init /\ [][Next]_vars /\ WF_vars(Signal) /\ WF_vars(Thread) /\ WF_vars(Tick)

-----------------------------------------------------------------------------
(* What holds.                                                             *)

(* The keys of registrations differ, and no code ends like another.        *)
Unambiguous ==
  LET R == 1..Len(m_compose_press_head)
      keys(n) == m_compose_press_head[n].keys
  IN /\ \A a, b \in R : keys(a) = keys(b) => a = b
     /\ \A a \in R : \A k \in 1..Len(keys(a)), code \in Keys :
          Ends(keys(a)[k], code) => keys(a)[k] = code

(* Every queued composition is held down completely and queued once:       *)
(* whatever is pressed and released, the queue that the thread works on is *)
(* that of the monitor.                                                    *)
QueueIsHeld ==
  LET q == m_compose_long_press_head IN
  \A j, k \in 1..Len(q) :
    /\ is_compose_press_event_ready(q[j].of, m_key_pressed_head)
    /\ q[j].of.keys = q[k].of.keys => j = k

(* check_compose_press_event gives the mutex back, unless two              *)
(* registrations have the same keys or a code ends like another.           *)
MutexGivenBack == Unambiguous => ~leaked

(* A composition is called back at most once until its keys go down        *)
(* together again, though two branches of compose_check_has_event may do   *)
(* it, one of them through an entry that was freed.                        *)
CalledOnce == Unambiguous => \A c \in Composes : called[c] <= 1

(* A callback comes only while all keys of the composition are down; but   *)
(* for one: when a release has freed the entry that the thread waits for,  *)
(* and a second release has come before the woken thread has the mutex,    *)
(* m_compose_long_press_key_up may be 0 again, and the thread calls back   *)
(* through the freed entry.  One release alone never leads to it.          *)
CalledWhileHeld ==
  [][\A c \in Composes :
       called'[c] > called[c] =>
         \/ is_compose_press_event_ready(c, m_key_pressed_head)
         \/ c = event /\ freed = 2]_vars

(* Every queued composition is called back, or a key goes up: the thread   *)
(* does not sleep over it, whenever the queueing and the signal come.      *)
(* (Excused are the states in which the thread, or the mutex, is lost.)    *)
QueuedIsHandled ==
  \A c \in Composes :
    Queued(c.keys) ~> (~Queued(c.keys) \/ compose = "undefined" \/ leaked)

(* "Called back when the keys are held down together for time ms": not     *)
(* earlier, even if the thread's entry was not freed.                      *)
NotEarly ==
  [][\A c \in Composes : called'[c] > called[c] /\ freed = 0 =>
       \A k \in 1..Len(m_compose_long_press_head) :
         LET e == m_compose_long_press_head[k] IN e.of = c => e.age >= c.time]_vars
=============================================================================
