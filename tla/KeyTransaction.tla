--------------------------- MODULE KeyTransaction ---------------------------
(***************************************************************************)
(* Transactions of the key module, DeviceIO/src/linux/Rk_key.cpp.          *)
(*                                                                         *)
(* A client registers a sequence of keys that are to be pressed one after  *)
(* the other, each within a time of the one before.  thread_key_monitor    *)
(* hands every press to check_transaction_event, which follows at most one *)
(* registered sequence at a time: m_transaction_event_head is what is left *)
(* of it.  A press that does not continue it starts over.                  *)
(***************************************************************************)
EXTENDS Integers, Sequences, SequencesExt

CONSTANTS
  Keys,           \* key codes
  Gaps,           \* the milliseconds that may pass between two presses
  Transactions,   \* the [keys, time] that clients register
  MaxRegistered,  \* bound on the number of registrations
  MaxPresses,     \* bound on the number of presses
  NULL

Transaction == [keys : Seq(Keys) \ {<<>>}, time : Nat]

(* RK_input_transaction_event_t without last_time, which is the time of    *)
(* the last press: each one sets it or ends the event.                     *)
Event == [of : Transaction, remain : Seq(Keys)]

ASSUME TransactionsAssumption == Transactions \subseteq Transaction
ASSUME NullAssumption == NULL \notin Transaction /\ NULL \notin Event
ASSUME GapsAssumption == Gaps \subseteq Nat
ASSUME BoundsAssumption == MaxRegistered \in Nat /\ MaxPresses \in Nat

VARIABLES
  m_transaction_press_head,  \* the registrations, the latest first
  m_transaction_event_head,  \* NULL, or the transaction under way and the
                             \* keys of it that remain
  pressed    \* history: the presses.  gap is the time since the one before,
             \* called the transaction it called back or NULL, registered
             \* the number of registrations then

vars == <<m_transaction_press_head, m_transaction_event_head, pressed>>

EndRemains(e) ==
  LET n == Len(e.of.keys) - Len(e.remain)
  IN n >= 1 /\ \A k \in 1..Len(e.remain) : e.remain[k] = e.of.keys[n + k]

Press == [code : Keys, gap : Gaps, called : Transaction \cup {NULL}, registered : Nat]

(* Type invariant, and: what remains is an end of the registered keys, and *)
(* not all of them, since a press has begun the event.                     *)
TypeOK ==
  /\ m_transaction_press_head \in Seq(Transactions)
  /\ m_transaction_event_head \in Event \cup {NULL}
  /\ m_transaction_event_head # NULL => EndRemains(m_transaction_event_head)
  /\ pressed \in Seq(Press)

-----------------------------------------------------------------------------
RK_input_register_transaction_press_callback(p) ==
  /\ Len(m_transaction_press_head) < MaxRegistered
  /\ m_transaction_press_head' = <<p>> \o m_transaction_press_head
  /\ UNCHANGED <<m_transaction_event_head, pressed>>

(* The part after "recheck": the press begins the first registration that  *)
(* starts with its key, if there is one.                                   *)
Begins(n, code) == m_transaction_press_head[n].keys[1] = code
Recheck_Whole(code) ==
  LET N == {n \in 1..Len(m_transaction_press_head) : Begins(n, code)}
      p == m_transaction_press_head[CHOOSE n \in N : \A k \in N : n <= k]
  IN IF N = {} THEN NULL ELSE [of |-> p, remain |-> p.keys]
Recheck(code) ==
  LET N == {n \in 1..Len(m_transaction_press_head) : Begins(n, code)}
      p == m_transaction_press_head[CHOOSE n \in N : \A k \in N : n <= k]
  IN IF N = {} THEN NULL ELSE [of |-> p, remain |-> Tail(p.keys)]

(* The press is the next one of the event.  Of a registration of one key   *)
(* nothing remains, so that no press continues it.                         *)
Continues(e, code) == e # NULL /\ e.remain # <<>> /\ e.remain[1] = code

(* The last key of a transaction is not asked for its time.                *)
Completes(e, code) == Continues(e, code) /\ Len(e.remain) = 1
Advances_Late(e, code, gap) == Continues(e, code) /\ Len(e.remain) > 1
Advances(e, code, gap) ==
  Continues(e, code) /\ Len(e.remain) > 1 /\ gap <= e.of.time

NextEvent_Lost(e, code, gap) ==
  IF Completes(e, code) THEN NULL
  ELSE IF Advances(e, code, gap) THEN [e EXCEPT !.remain = Tail(e.remain)]
  ELSE IF e = NULL THEN Recheck(code) ELSE NULL
NextEvent(e, code, gap) ==
  IF Completes(e, code) THEN NULL
  ELSE IF Advances(e, code, gap) THEN [e EXCEPT !.remain = Tail(e.remain)]
  ELSE Recheck(code)

(* check_transaction_event on a press, gap milliseconds after the last one.*)
check_transaction_event(code, gap) ==
  LET e == m_transaction_event_head IN
  /\ Len(pressed) < MaxPresses
  /\ m_transaction_event_head' = NextEvent(e, code, gap)
  /\ pressed' = Append(pressed,
       [code |-> code, gap |-> gap,
        called |-> IF Completes(e, code) THEN e.of ELSE NULL,
        registered |-> Len(m_transaction_press_head)])
  /\ UNCHANGED m_transaction_press_head

-----------------------------------------------------------------------------
Init ==
  /\ m_transaction_press_head = <<>>
  /\ m_transaction_event_head = NULL
  /\ pressed = <<>>

Next ==
  \/ \E p \in Transactions : RK_input_register_transaction_press_callback(p)
  \/ \E code \in Keys, gap \in Gaps : check_transaction_event(code, gap)

Spec == Init /\ [][Next]_vars

-----------------------------------------------------------------------------
(* The presses of s after the first i are the first n keys of p, and each  *)
(* one after the first of them came in time.                               *)
Matches(s, p, i, n) ==
  /\ \A k \in 1..n : s[i + k].code = p.keys[k]
  /\ \A k \in 2..n : s[i + k].gap <= p.time

(* Press m called its transaction back after all its keys: pressed without *)
(* another in between, each but the last in time, and none of them counted *)
(* for a callback before.                                                  *)
AsPressed(s, m) ==
  LET p == s[m].called
      n == Len(p.keys) - 1
      i == m - Len(p.keys)
  IN /\ i >= 0
     /\ Matches(s, p, i, n)
     /\ s[m].code = p.keys[n + 1]
     /\ \A k \in 1..n : s[i + k].called = NULL

(* A transaction is called back only when its keys have been pressed one   *)
(* after the other, and no press counts for two callbacks, however the     *)
(* event under way was begun, advanced, dropped and begun again.           *)
CalledAsPressed ==
  \A m \in 1..Len(pressed) : pressed[m].called # NULL => AsPressed(pressed, m)

(* No registered sequence has the first key of another, or its own, again. *)
Unambiguous ==
  LET R == 1..Len(m_transaction_press_head)
      keys(n) == m_transaction_press_head[n].keys
  IN /\ \A a, b \in R : a # b => keys(a)[1] # keys(b)[1]
     /\ \A a, b \in R : \A k \in 2..Len(keys(b)) : keys(a)[1] # keys(b)[k]

(* The keys of p are the last that were pressed, in time, with the         *)
(* registrations as they are now.                                          *)
JustPressed(p) ==
  LET n == Len(p.keys)
      i == Len(pressed) - n
  IN /\ i >= 0
     /\ Matches(pressed, p, i, n)
     /\ \A k \in 1..n : pressed[i + k].registered = Len(m_transaction_press_head)

(* When no first key is ambiguous, a sequence that is pressed in order and *)
(* in time is called back, whatever was pressed or begun before.           *)
PressedIsCalled ==
  \A a \in 1..Len(m_transaction_press_head) :
    LET p == m_transaction_press_head[a] IN
    Unambiguous /\ Len(p.keys) > 1 /\ JustPressed(p)
      => Last(pressed).called # NULL /\ Last(pressed).called.keys = p.keys
=============================================================================
