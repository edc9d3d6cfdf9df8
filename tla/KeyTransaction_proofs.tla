------------------------ MODULE KeyTransaction_proofs ------------------------
(***************************************************************************)
(* Proofs about KeyTransaction.                                            *)
(*                                                                         *)
(* CalledAsPressed speaks of presses long past, check_transaction_event    *)
(* only of what remains.  Following connects the two: the keys of the      *)
(* event that do not remain are the last keys that were pressed.           *)
(* PressedIsCalled asks for the converse, UnderWay: where no first key is  *)
(* ambiguous, a registered sequence of which the first keys were the last  *)
(* that were pressed is the event, with the other keys remaining.          *)
(***************************************************************************)
EXTENDS KeyTransaction, TLAPS, WellFoundedInduction

-----------------------------------------------------------------------------
(* Natural numbers.                                                        *)

(* A non-empty set of natural numbers has a least element.                 *)
LEMMA LeastNatural ==
  ASSUME NEW T \in SUBSET Nat, T # {}
  PROVE  \E m \in T : \A n \in T : m <= n
<1>1. PICK m \in T : \A n \in T : ~(<<n, m>> \in OpToRel(<, Nat))
  BY NatLessThanWellFounded, WFMin
<1>2. \A n \in T : m \in Nat /\ n \in Nat /\ ~(n < m)
  BY <1>1 DEF OpToRel
<1> QED
  BY <1>2

(* The last n presses of s are the first n keys of e, in time and not      *)
(* called back, where n keys of e do not remain.                           *)
Follows(s, e) ==
  LET n == Len(e.of.keys) - Len(e.remain)
      i == Len(s) - n
  IN /\ i >= 0
     /\ Matches(s, e.of, i, n)
     /\ \A k \in 1..n : s[i + k].called = NULL

Following ==
  m_transaction_event_head # NULL => Follows(pressed, m_transaction_event_head)

IInv == TypeOK /\ Following /\ CalledAsPressed

-----------------------------------------------------------------------------
(* EndRemains with a name for the number of keys that are gone.            *)
LEMMA EndRemainsFrom ==
  ASSUME NEW e, NEW n, n = Len(e.of.keys) - Len(e.remain), n >= 1,
         \A k \in 1..Len(e.remain) : e.remain[k] = e.of.keys[n + k]
  PROVE  EndRemains(e)
  BY Zenon DEF EndRemains

(* What a press that begins an event leaves.                               *)
LEMMA RecheckFacts ==
  ASSUME TypeOK, NEW code \in Keys, Recheck(code) # NULL
  PROVE  /\ Recheck(code) \in Event
         /\ EndRemains(Recheck(code))
         /\ Len(Recheck(code).of.keys) - Len(Recheck(code).remain) = 1
         /\ Recheck(code).of.keys[1] = code
<1> DEFINE N == {n \in 1..Len(m_transaction_press_head) : Begins(n, code)}
           a == CHOOSE n \in N : \A k \in N : n <= k
           p == m_transaction_press_head[a]
<1>1. N # {}
  BY DEF Recheck
<1>2. PICK b \in N : TRUE
  BY <1>1
<1>3. \E n \in N : \A k \in N : n <= k
  <2>1. N \subseteq Nat /\ N # {}
    BY <1>1
  <2> HIDE DEF N
  <2> QED
    BY <2>1, LeastNatural
<1>4. a \in N
  BY <1>3
<1>5. p \in Transactions /\ Begins(a, code)
  BY <1>4 DEF TypeOK
<1>6. p \in Transaction /\ p.keys # <<>> /\ p.keys \in Seq(Keys)
  BY <1>5, TransactionsAssumption DEF Transaction
<1>7. p.keys[1] = code
  BY <1>5 DEF Begins
<1>8. Recheck(code) = [of |-> p, remain |-> Tail(p.keys)]
  BY <1>1 DEF Recheck
<1> HIDE DEF p, N, a
<1>9. /\ Tail(p.keys) \in Seq(Keys)
      /\ Len(p.keys) \in Nat \ {0}
      /\ Len(Tail(p.keys)) = Len(p.keys) - 1
      /\ \A k \in 1..(Len(p.keys) - 1) : Tail(p.keys)[k] = p.keys[k + 1]
  BY <1>6
<1> DEFINE r == Recheck(code)
<1>10. r.of = p /\ r.remain = Tail(p.keys)
  BY <1>8
<1>11. r \in Event
  BY <1>6, <1>8, <1>9 DEF Event
<1>12. Len(p.keys) - Len(Tail(p.keys)) = 1
  BY <1>9
<1>13. \A k \in 1..Len(Tail(p.keys)) : Tail(p.keys)[k] = p.keys[1 + k]
  <2> SUFFICES ASSUME NEW k \in 1..(Len(p.keys) - 1)
               PROVE  Tail(p.keys)[k] = p.keys[1 + k]
    BY <1>9
  <2>1. k + 1 = 1 + k
    OBVIOUS
  <2> QED
    BY <1>9, <2>1
<1> HIDE DEF r
<1>14. EndRemains(r)
  <2>1. 1 = Len(r.of.keys) - Len(r.remain)
    BY <1>10, <1>12
  <2>2. \A k \in 1..Len(r.remain) : r.remain[k] = r.of.keys[1 + k]
    BY <1>10, <1>13
  <2>3. 1 >= 1
    OBVIOUS
  <2> QED
    BY <2>1, <2>2, <2>3, EndRemainsFrom
<1> QED
  BY <1>7, <1>10, <1>11, <1>12, <1>14 DEF r

(* What an event that has advanced is.                                     *)
LEMMA AdvanceFacts ==
  ASSUME NEW e \in Event, EndRemains(e), Len(e.remain) > 1
  PROVE  LET f == [e EXCEPT !.remain = Tail(e.remain)] IN
         /\ f \in Event
         /\ EndRemains(f)
         /\ f.of = e.of
         /\ Len(e.of.keys) \in Nat
         /\ Len(e.remain) \in Nat
         /\ Len(f.remain) = Len(e.remain) - 1
<1> DEFINE f == [e EXCEPT !.remain = Tail(e.remain)]
<1>1. /\ e.of \in Transaction /\ e.remain \in Seq(Keys)
      /\ e.of.keys \in Seq(Keys)
  BY DEF Event, Transaction
<1>2. f.of = e.of /\ f.remain = Tail(e.remain)
  BY DEF Event
<1>3. /\ Tail(e.remain) \in Seq(Keys)
      /\ Len(e.remain) \in Nat /\ Len(e.of.keys) \in Nat
      /\ Len(Tail(e.remain)) = Len(e.remain) - 1
      /\ \A k \in 1..(Len(e.remain) - 1) : Tail(e.remain)[k] = e.remain[k + 1]
  BY <1>1
<1>4. f \in Event
  BY <1>3 DEF Event
<1>5. EndRemains(f)
  <2> DEFINE l == Len(e.remain)
             n == Len(e.of.keys) - l
  <2>1. l \in Nat /\ n \in Int
    BY <1>3
  <2>2. n >= 1 /\ \A k \in 1..l : e.remain[k] = e.of.keys[n + k]
    BY DEF EndRemains
  <2>3. n + 1 = Len(f.of.keys) - Len(f.remain)
    <3> HIDE DEF f
    <3>1. Len(f.remain) = l - 1 /\ f.of.keys = e.of.keys
      BY <1>2, <1>3
    <3> QED
      BY <1>3, <3>1
  <2>4. Len(f.remain) = l - 1
    BY <1>2, <1>3
  <2>5. \A k \in 1..(l - 1) : f.remain[k] = e.remain[k + 1]
    BY <1>2, <1>3
  <2> HIDE DEF n, l, f
  <2>6. \A k \in 1..(l - 1) : /\ k + 1 \in 1..l
                             /\ n + (k + 1) = (n + 1) + k
    BY <2>1
  <2>7. \A k \in 1..Len(f.remain) : f.remain[k] = f.of.keys[(n + 1) + k]
    BY <1>2, <2>2, <2>4, <2>5, <2>6
  <2>8. n + 1 >= 1
    BY <2>1, <2>2
  <2> QED
    BY <2>3, <2>7, <2>8, EndRemainsFrom
<1> QED
  BY <1>2, <1>3, <1>4, <1>5

-----------------------------------------------------------------------------
(* check_transaction_event keeps the types.                                *)
LEMMA EventTyped ==
  ASSUME TypeOK, NEW code \in Keys, NEW gap \in Gaps,
         NextEvent(m_transaction_event_head, code, gap) # NULL
  PROVE  /\ NextEvent(m_transaction_event_head, code, gap) \in Event
         /\ EndRemains(NextEvent(m_transaction_event_head, code, gap))
<1> DEFINE e == m_transaction_event_head
<1>1. ~Completes(e, code)
  BY DEF NextEvent
<1>2. CASE Advances(e, code, gap)
  <2>1. e # NULL /\ Len(e.remain) > 1
    BY <1>2 DEF Advances, Continues
  <2>2. e \in Event /\ EndRemains(e)
    BY <2>1 DEF TypeOK
  <2>3. NextEvent(e, code, gap) = [e EXCEPT !.remain = Tail(e.remain)]
    BY <1>1, <1>2 DEF NextEvent
  <2> HIDE DEF e
  <2> QED
    BY <2>1, <2>2, <2>3, AdvanceFacts DEF e
<1>3. CASE ~Advances(e, code, gap)
  <2>1. NextEvent(e, code, gap) = Recheck(code)
    BY <1>1, <1>3 DEF NextEvent
  <2> QED
    BY <2>1, RecheckFacts
<1> QED
  BY <1>2, <1>3

LEMMA TypeInductive ==
  ASSUME TypeOK, [Next]_vars
  PROVE  TypeOK'
<1>1. ASSUME NEW p \in Transactions, RK_input_register_transaction_press_callback(p)
      PROVE  TypeOK'
  <2>1. m_transaction_press_head' \in Seq(Transactions)
    BY <1>1 DEF TypeOK, RK_input_register_transaction_press_callback
  <2> QED
    BY <1>1, <2>1 DEF TypeOK, RK_input_register_transaction_press_callback
<1>2. ASSUME NEW code \in Keys, NEW gap \in Gaps, check_transaction_event(code, gap)
      PROVE  TypeOK'
  <2> DEFINE e == m_transaction_event_head
             x == [code |-> code, gap |-> gap,
                   called |-> IF Completes(e, code) THEN e.of ELSE NULL,
                   registered |-> Len(m_transaction_press_head)]
  <2>1. m_transaction_event_head' = NextEvent(e, code, gap)
    BY <1>2 DEF check_transaction_event
  <2>2. /\ m_transaction_event_head' \in Event \cup {NULL}
        /\ m_transaction_event_head' # NULL => EndRemains(m_transaction_event_head')
    BY <2>1, EventTyped
  <2>3. x.called \in Transaction \cup {NULL}
    BY DEF TypeOK, Completes, Continues, Event
  <2>4. Len(m_transaction_press_head) \in Nat
    BY DEF TypeOK
  <2>5. x \in Press
    BY <2>3, <2>4 DEF Press
  <2>6. pressed' = Append(pressed, x) /\ UNCHANGED m_transaction_press_head
    BY <1>2 DEF check_transaction_event
  <2> HIDE DEF x
  <2>7. pressed' \in Seq(Press)
    BY <2>5, <2>6 DEF TypeOK
  <2> QED
    BY <2>2, <2>6, <2>7 DEF TypeOK, EndRemains
<1>3. CASE UNCHANGED vars
  BY <1>3 DEF vars, TypeOK
<1> QED
  BY <1>1, <1>2, <1>3 DEF Next

(* The types hold for all keys, times and registrations.                   *)
THEOREM TypeCorrect == Spec => []TypeOK
<1>1. Init => TypeOK
  BY DEF Init, TypeOK
<1> QED
  BY <1>1, TypeInductive, PTL DEF Spec

-----------------------------------------------------------------------------
(* The history t is s with one more press.                                 *)
Grown(s, t) ==
  /\ Len(s) \in Nat /\ Len(t) = Len(s) + 1
  /\ \A j \in 1..Len(s) : t[j] = s[j]

(* A match stays one.                                                      *)
LEMMA MatchesKept ==
  ASSUME NEW s, NEW t, Grown(s, t), NEW p, NEW i \in Nat, NEW n \in Nat,
         i + n <= Len(s), Matches(s, p, i, n)
  PROVE  Matches(t, p, i, n)
<1>1. \A k \in 1..n : t[i + k] = s[i + k]
  <2>1. \A k \in 1..n : i + k \in 1..Len(s)
    BY DEF Grown
  <2> QED
    BY <2>1 DEF Grown
<1>2. \A k \in 2..n : k \in 1..n
  OBVIOUS
<1> QED
  BY <1>1, <1>2 DEF Matches

(* A match that the next key in time makes longer.                         *)
LEMMA MatchesLonger ==
  ASSUME NEW s, NEW t, Grown(s, t), NEW p, NEW i \in Nat, NEW n \in Nat,
         Len(s) = i + n, Matches(s, p, i, n),
         t[Len(t)].code = p.keys[n + 1], n >= 1 => t[Len(t)].gap <= p.time
  PROVE  Matches(t, p, i, n + 1)
<1>1. Matches(t, p, i, n)
  BY MatchesKept
<1>2. Len(t) = i + (n + 1)
  BY DEF Grown
<1>3. ASSUME NEW k \in 1..(n + 1)
      PROVE  t[i + k].code = p.keys[k]
  <2>1. CASE k \in 1..n
    BY <1>1, <2>1 DEF Matches
  <2>2. CASE k = n + 1
    BY <1>2, <2>2
  <2> QED
    BY <2>1, <2>2
<1>4. ASSUME NEW k \in 2..(n + 1)
      PROVE  t[i + k].gap <= p.time
  <2>1. CASE k \in 2..n
    BY <1>1, <2>1 DEF Matches
  <2>2. CASE k = n + 1
    BY <1>2, <2>2
  <2> QED
    BY <2>1, <2>2
<1> QED
  BY <1>3, <1>4 DEF Matches

(* Follows with names for the numbers in it.                               *)
LEMMA FollowsFrom ==
  ASSUME NEW s, NEW e, NEW n, NEW i,
         n = Len(e.of.keys) - Len(e.remain), i = Len(s) - n, i >= 0,
         Matches(s, e.of, i, n), \A k \in 1..n : s[i + k].called = NULL
  PROVE  Follows(s, e)
  BY Zenon DEF Follows

(* The presses of s are i presses and the first n keys of e, of which code  *)
(* is the next.                                                            *)
Parts(s, e, code, n, i) ==
  /\ e.of \in Transaction
  /\ Len(e.remain) \in Nat \ {0} /\ Len(e.of.keys) \in Nat
  /\ Len(e.of.keys) = n + Len(e.remain)
  /\ Len(s) = i + n
  /\ Matches(s, e.of, i, n)
  /\ \A k \in 1..n : s[i + k].called = NULL
  /\ code = e.of.keys[n + 1]

LEMMA FollowsFacts ==
  ASSUME NEW s, Len(s) \in Nat, NEW e \in Event, EndRemains(e), Follows(s, e),
         NEW code, Continues(e, code)
  PROVE  \E n \in Nat, i \in Nat : Parts(s, e, code, n, i)
<1> DEFINE n == Len(e.of.keys) - Len(e.remain)
           i == Len(s) - n
<1>1. e.remain # <<>> /\ e.remain[1] = code
  BY DEF Continues
<1>2. /\ e.of \in Transaction
      /\ e.of.keys \in Seq(Keys) /\ e.remain \in Seq(Keys)
  BY DEF Event, Transaction
<1>3. Len(e.of.keys) \in Nat /\ Len(e.remain) \in Nat \ {0}
  BY <1>1, <1>2
<1>4. n \in Int
  BY <1>3
<1>5. n >= 1 /\ \A k \in 1..Len(e.remain) : e.remain[k] = e.of.keys[n + k]
  BY Zenon DEF EndRemains
<1>6. i >= 0 /\ Matches(s, e.of, i, n) /\ \A k \in 1..n : s[i + k].called = NULL
  BY Zenon DEF Follows
<1>7. /\ n \in Nat /\ i \in Nat
      /\ Len(e.of.keys) = n + Len(e.remain)
      /\ Len(s) = i + n
  BY <1>3, <1>4, <1>5, <1>6
<1>8. code = e.of.keys[n + 1]
  <2>1. 1 \in 1..Len(e.remain)
    BY <1>3
  <2>2. e.remain[1] = e.of.keys[n + 1]
    BY <1>5, <2>1, Zenon
  <2> QED
    BY <1>1, <2>2, Zenon
<1> HIDE DEF n, i
<1> QED
  BY <1>2, <1>3, <1>6, <1>7, <1>8 DEF Parts

-----------------------------------------------------------------------------
(* The three things that a press may do, and what it leaves alone.         *)

LEMMA BegunFollows ==
  ASSUME NEW s, NEW t, Grown(s, t), NEW e, NEW code,
         Len(e.of.keys) - Len(e.remain) = 1, e.of.keys[1] = code,
         t[Len(t)].code = code, t[Len(t)].called = NULL
  PROVE  Follows(t, e)
<1> DEFINE i == Len(s)
<1>1. i \in Nat /\ Len(t) = i + 1
  BY DEF Grown
<1>2. i = Len(t) - 1 /\ i >= 0
  BY <1>1
<1>3. \A k \in 1..1 : t[i + k].code = e.of.keys[k] /\ t[i + k].called = NULL
  BY <1>1
<1>4. \A k \in 2..1 : t[i + k].gap <= e.of.time
  OBVIOUS
<1>5. Matches(t, e.of, i, 1)
  BY <1>3, <1>4 DEF Matches
<1> HIDE DEF i
<1> QED
  <2>1. 1 = Len(e.of.keys) - Len(e.remain)
    OBVIOUS
  <2>2. i = Len(t) - 1
    BY <1>2
  <2>3. i >= 0
    BY <1>2
  <2>4. \A k \in 1..1 : t[i + k].called = NULL
    BY <1>3
  <2> QED
    BY <1>5, <2>1, <2>2, <2>3, <2>4, FollowsFrom

LEMMA AdvancedFollows ==
  ASSUME NEW s, NEW t, Grown(s, t), NEW e \in Event, EndRemains(e), Follows(s, e),
         NEW code, NEW gap, Advances(e, code, gap),
         t[Len(t)].code = code, t[Len(t)].gap = gap, t[Len(t)].called = NULL
  PROVE  Follows(t, [e EXCEPT !.remain = Tail(e.remain)])
<1> DEFINE f == [e EXCEPT !.remain = Tail(e.remain)]
<1>1. Continues(e, code) /\ Len(e.remain) > 1 /\ gap <= e.of.time
  BY DEF Advances
<1>2. Len(s) \in Nat /\ Len(t) = Len(s) + 1
  BY DEF Grown
<1> PICK n \in Nat, i \in Nat : Parts(s, e, code, n, i)
  BY <1>1, <1>2, FollowsFacts
<1>3. /\ e.of \in Transaction
      /\ Len(e.remain) \in Nat \ {0} /\ Len(e.of.keys) \in Nat
      /\ Len(e.of.keys) = n + Len(e.remain)
      /\ Len(s) = i + n
      /\ Matches(s, e.of, i, n)
      /\ \A k \in 1..n : s[i + k].called = NULL
      /\ code = e.of.keys[n + 1]
  BY DEF Parts
<1>4. f.of = e.of /\ Len(f.remain) = Len(e.remain) - 1
  BY <1>1, AdvanceFacts
<1> HIDE DEF f
<1>5. Matches(t, e.of, i, n + 1)
  BY <1>1, <1>3, MatchesLonger
<1>6. ASSUME NEW k \in 1..(n + 1)
      PROVE  t[i + k].called = NULL
  <2>1. CASE k \in 1..n
    <3>1. i + k \in 1..Len(s)
      BY <1>3, <2>1
    <3>2. t[i + k] = s[i + k]
      BY <3>1 DEF Grown
    <3> QED
      BY <1>3, <2>1, <3>2
  <2>2. CASE k = n + 1
    <3>1. i + k = Len(t)
      BY <1>2, <1>3, <2>2
    <3> QED
      BY <3>1
  <2> QED
    BY <2>1, <2>2
<1>7. n + 1 = Len(f.of.keys) - Len(f.remain)
  <2>1. Len(f.of.keys) = Len(e.of.keys)
    BY <1>4
  <2>2. Len(e.remain) \in Nat /\ Len(e.of.keys) = n + Len(e.remain)
    BY <1>3
  <2>3. Len(f.remain) = Len(e.remain) - 1
    BY <1>4
  <2>4. \A a \in Nat, b \in Nat : a = n + b => n + 1 = a - (b - 1)
    OBVIOUS
  <2>5. Len(e.of.keys) \in Nat
    BY <1>3
  <2>6. n + 1 = Len(e.of.keys) - (Len(e.remain) - 1)
    BY <2>2, <2>4, <2>5
  <2> QED
    BY <2>1, <2>3, <2>6
<1>8. i = Len(t) - (n + 1)
  BY <1>2, <1>3
<1>9. Matches(t, f.of, i, n + 1)
  BY <1>4, <1>5, Zenon
<1>10. Follows(t, f)
  <2> DEFINE l == n + 1
  <2>1. i >= 0
    OBVIOUS
  <2>2. \A k \in 1..l : t[i + k].called = NULL
    BY <1>6
  <2>3. l = Len(f.of.keys) - Len(f.remain)
    BY <1>7
  <2>4. i = Len(t) - l
    BY <1>8
  <2>5. Matches(t, f.of, i, l)
    BY <1>9
  <2> HIDE DEF l
  <2> QED
    BY <2>1, <2>2, <2>3, <2>4, <2>5, FollowsFrom
<1> QED
  BY <1>10 DEF f

LEMMA CompletedAsPressed ==
  ASSUME NEW s, NEW t, Grown(s, t), NEW e \in Event, EndRemains(e), Follows(s, e),
         NEW code, Completes(e, code),
         t[Len(t)].code = code, t[Len(t)].called = e.of
  PROVE  AsPressed(t, Len(t))
<1>1. Continues(e, code) /\ Len(e.remain) = 1
  BY DEF Completes
<1>2. Len(s) \in Nat /\ Len(t) = Len(s) + 1
  BY DEF Grown
<1> PICK n \in Nat, i \in Nat : Parts(s, e, code, n, i)
  BY <1>1, <1>2, FollowsFacts
<1>3. /\ e.of \in Transaction
      /\ Len(e.remain) \in Nat \ {0} /\ Len(e.of.keys) \in Nat
      /\ Len(e.of.keys) = n + Len(e.remain)
      /\ Len(s) = i + n
      /\ Matches(s, e.of, i, n)
      /\ \A k \in 1..n : s[i + k].called = NULL
      /\ code = e.of.keys[n + 1]
  BY DEF Parts
<1>4. Matches(t, e.of, i, n)
  BY <1>3, MatchesKept
<1>5. \A k \in 1..n : t[i + k].called = NULL
  <2>1. \A k \in 1..n : i + k \in 1..Len(s)
    BY <1>3
  <2> QED
    BY <1>3, <2>1 DEF Grown
<1>6. n = Len(e.of.keys) - 1 /\ i = Len(t) - Len(e.of.keys) /\ i >= 0
  BY <1>1, <1>2, <1>3
<1> QED
  BY <1>3, <1>4, <1>5, <1>6, Zenon DEF AsPressed

LEMMA AsPressedKept ==
  ASSUME NEW s, NEW t, Grown(s, t), NEW m \in 1..Len(s),
         s[m].called \in Transaction, AsPressed(s, m)
  PROVE  AsPressed(t, m)
<1> DEFINE p == s[m].called
           n == Len(p.keys) - 1
           i == m - Len(p.keys)
<1>1. Len(s) \in Nat /\ t[m] = s[m]
  BY DEF Grown
<1>2. Len(p.keys) \in Nat \ {0}
  BY DEF Transaction
<1>3. /\ i >= 0
      /\ Matches(s, p, i, n)
      /\ s[m].code = p.keys[n + 1]
      /\ \A k \in 1..n : s[i + k].called = NULL
  BY Zenon DEF AsPressed
<1>4. i \in Nat /\ n \in Nat /\ i + n <= Len(s)
  <2>1. i >= 0
    BY <1>3
  <2>2. m \in Nat /\ m <= Len(s)
    BY <1>1
  <2>3. \A a \in Nat \ {0} :
          m - a >= 0 => /\ m - a \in Nat /\ a - 1 \in Nat
                        /\ (m - a) + (a - 1) <= Len(s)
    BY <1>1, <2>2
  <2> QED
    BY <1>2, <2>1, <2>3, Zenon
<1>5. \A k \in 1..n : t[i + k] = s[i + k]
  <2> HIDE DEF i, n
  <2>1. \A k \in 1..n : i + k \in 1..Len(s)
    BY <1>1, <1>4
  <2> QED
    BY <2>1 DEF Grown
<1>6. Matches(t, p, i, n)
  <2> HIDE DEF i, n, p
  <2> QED
    BY <1>3, <1>4, MatchesKept
<1>7. \A k \in 1..n : t[i + k].called = NULL
  BY <1>3, <1>5, Zenon
<1> QED
  BY <1>1, <1>3, <1>6, <1>7, Zenon DEF AsPressed

-----------------------------------------------------------------------------
(* The invariant.                                                          *)

LEMMA HistoryGrows ==
  ASSUME TypeOK, NEW code \in Keys, NEW gap \in Gaps,
         check_transaction_event(code, gap)
  PROVE  LET x == pressed'[Len(pressed')]
             e == m_transaction_event_head
         IN /\ Grown(pressed, pressed')
            /\ x.code = code /\ x.gap = gap
            /\ x.called = IF Completes(e, code) THEN e.of ELSE NULL
            /\ x.registered = Len(m_transaction_press_head)
<1> DEFINE e == m_transaction_event_head
           x == [code |-> code, gap |-> gap,
                 called |-> IF Completes(e, code) THEN e.of ELSE NULL,
                 registered |-> Len(m_transaction_press_head)]
<1>1. pressed' = Append(pressed, x)
  BY DEF check_transaction_event
<1>2. /\ x.code = code /\ x.gap = gap
      /\ x.called = IF Completes(e, code) THEN e.of ELSE NULL
      /\ x.registered = Len(m_transaction_press_head)
  OBVIOUS
<1>3. pressed \in Seq(Press)
  BY DEF TypeOK
<1> HIDE DEF x
<1>4. Grown(pressed, pressed') /\ pressed'[Len(pressed')] = x
  BY <1>1, <1>3 DEF Grown
<1> QED
  BY <1>2, <1>4

LEMMA PressKeepsFollowing ==
  ASSUME TypeOK, Following, NEW code \in Keys, NEW gap \in Gaps,
         check_transaction_event(code, gap)
  PROVE  Following'
<1> DEFINE e == m_transaction_event_head
           f == NextEvent(e, code, gap)
           x == pressed'[Len(pressed')]
<1>1. m_transaction_event_head' = f
  BY DEF check_transaction_event
<1>2. SUFFICES ASSUME f # NULL PROVE Follows(pressed', f)
  BY <1>1 DEF Following
<1>3. ~Completes(e, code)
  BY <1>2 DEF NextEvent
<1>4. /\ Grown(pressed, pressed')
      /\ x.code = code /\ x.gap = gap /\ x.called = NULL
  BY <1>3, HistoryGrows
<1>5. CASE Advances(e, code, gap)
  <2>1. e \in Event /\ EndRemains(e) /\ Follows(pressed, e)
    BY <1>5 DEF Advances, Continues, TypeOK, Following
  <2>2. f = [e EXCEPT !.remain = Tail(e.remain)]
    BY <1>3, <1>5 DEF NextEvent
  <2> HIDE DEF e, f
  <2> QED
    BY <1>4, <1>5, <2>1, <2>2, AdvancedFollows
<1>6. CASE ~Advances(e, code, gap)
  <2>1. f = Recheck(code)
    BY <1>3, <1>6 DEF NextEvent
  <2>2. Len(f.of.keys) - Len(f.remain) = 1 /\ f.of.keys[1] = code
    BY <1>2, <2>1, RecheckFacts
  <2> HIDE DEF e, f
  <2> QED
    BY <1>4, <2>2, BegunFollows
<1> QED
  BY <1>5, <1>6

LEMMA PressKeepsCalled ==
  ASSUME TypeOK, Following, CalledAsPressed, NEW code \in Keys, NEW gap \in Gaps,
         check_transaction_event(code, gap)
  PROVE  CalledAsPressed'
<1> DEFINE e == m_transaction_event_head
           x == pressed'[Len(pressed')]
<1>1. /\ Grown(pressed, pressed')
      /\ x.code = code
      /\ x.called = IF Completes(e, code) THEN e.of ELSE NULL
  BY HistoryGrows
<1>2. Len(pressed) \in Nat /\ Len(pressed') = Len(pressed) + 1
  BY <1>1 DEF Grown
<1>3. SUFFICES ASSUME NEW m \in 1..Len(pressed'), pressed'[m].called # NULL
               PROVE  AsPressed(pressed', m)
  BY DEF CalledAsPressed
<1>4. CASE m = Len(pressed')
  <2>1. Completes(e, code) /\ x.called = e.of
    BY <1>1, <1>3, <1>4
  <2>2. e \in Event /\ EndRemains(e) /\ Follows(pressed, e)
    BY <2>1 DEF Completes, Continues, TypeOK, Following
  <2> HIDE DEF e
  <2> QED
    BY <1>1, <1>4, <2>1, <2>2, CompletedAsPressed
<1>5. CASE m \in 1..Len(pressed)
  <2>1. pressed'[m] = pressed[m]
    BY <1>1, <1>5 DEF Grown
  <2>2. AsPressed(pressed, m) /\ pressed[m].called # NULL
    BY <1>3, <1>5, <2>1 DEF CalledAsPressed
  <2>3. pressed[m] \in Press
    BY <1>5 DEF TypeOK
  <2>4. pressed[m].called \in Transaction
    BY <2>2, <2>3 DEF Press
  <2> QED
    BY <1>1, <1>5, <2>2, <2>4, AsPressedKept
<1> QED
  BY <1>2, <1>3, <1>4, <1>5

(* IInv holds in every reachable state: a press keeps each of its parts, a *)
(* registration changes none.                                              *)
THEOREM Invariant == Spec => []IInv
<1>1. Init => IInv
  <2>1. ASSUME Init PROVE TypeOK /\ Following /\ CalledAsPressed
    BY <2>1 DEF Init, TypeOK, Following, CalledAsPressed
  <2> QED
    BY <2>1 DEF IInv
<1>2. ASSUME IInv, [Next]_vars PROVE IInv'
  <2>1. TypeOK /\ Following /\ CalledAsPressed
    BY <1>2 DEF IInv
  <2>2. TypeOK'
    BY <1>2, <2>1, TypeInductive
  <2>3. ASSUME UNCHANGED <<m_transaction_event_head, pressed>>
        PROVE  Following' /\ CalledAsPressed'
    BY <2>1, <2>3 DEF Following, CalledAsPressed
  <2>4. CASE \E p \in Transactions : RK_input_register_transaction_press_callback(p)
    BY <2>2, <2>3, <2>4 DEF IInv, RK_input_register_transaction_press_callback
  <2>5. CASE \E code \in Keys, gap \in Gaps : check_transaction_event(code, gap)
    BY <2>1, <2>2, <2>5, PressKeepsFollowing, PressKeepsCalled DEF IInv
  <2>6. CASE UNCHANGED vars
    BY <2>2, <2>3, <2>6 DEF IInv, vars
  <2> QED
    BY <1>2, <2>4, <2>5, <2>6 DEF Next
<1> QED
  BY <1>1, <1>2, PTL DEF Spec

(* Whatever is registered and pressed, at whatever times: a transaction is *)
(* called back only after its keys, in order, in time and not used before. *)
THEOREM OnlyWhatWasPressed == Spec => []CalledAsPressed
  BY Invariant, PTL DEF IInv

-----------------------------------------------------------------------------
(* What is pressed in order is called back.                                *)

(* The last j presses are the first j keys of p, in time, with the         *)
(* registrations as they are now.                                          *)
LastAre(p, j) ==
  LET i == Len(pressed) - j
  IN /\ i >= 0
     /\ Matches(pressed, p, i, j)
     /\ \A k \in 1..j : pressed[i + k].registered = Len(m_transaction_press_head)

(* A registered sequence, not yet whole, that was pressed is under way.    *)
UnderWay ==
  Unambiguous =>
    \A a \in 1..Len(m_transaction_press_head) :
      LET p == m_transaction_press_head[a] IN
      \A j \in 1..(Len(p.keys) - 1) :
        LastAre(p, j) =>
          /\ m_transaction_event_head # NULL
          /\ m_transaction_event_head.of = p
          /\ Len(m_transaction_event_head.remain) = Len(p.keys) - j

(* What is under way is registered, and registrations only grow.           *)
OfList ==
  m_transaction_event_head # NULL =>
    \E b \in 1..Len(m_transaction_press_head) :
      m_transaction_event_head.of = m_transaction_press_head[b]
Counted ==
  \A m \in 1..Len(pressed) : pressed[m].registered <= Len(m_transaction_press_head)

PressInv == TypeOK /\ UnderWay /\ OfList /\ Counted /\ PressedIsCalled

(* What a registration is.                                                 *)
LEMMA RegisteredKeys ==
  ASSUME TypeOK, NEW a \in 1..Len(m_transaction_press_head)
  PROVE  LET p == m_transaction_press_head[a]
         IN /\ p # NULL /\ p \in Transaction
            /\ p.keys \in Seq(Keys) /\ Len(p.keys) \in Nat /\ Len(p.keys) >= 1
<1> DEFINE p == m_transaction_press_head[a]
<1>1. p \in Transaction
  BY TransactionsAssumption DEF TypeOK
<1>2. p.keys \in Seq(Keys) /\ p.keys # <<>>
  BY <1>1 DEF Transaction
<1> QED
  BY <1>1, <1>2, NullAssumption

(* Unambiguous, a first key begins its own sequence ...                    *)
LEMMA RecheckChooses ==
  ASSUME TypeOK, Unambiguous, NEW a \in 1..Len(m_transaction_press_head)
  PROVE  LET p == m_transaction_press_head[a]
             e == Recheck(p.keys[1])
         IN e # NULL /\ e.of = p /\ Len(e.remain) = Len(p.keys) - 1
<1> DEFINE p == m_transaction_press_head[a]
           N == {n \in 1..Len(m_transaction_press_head) : Begins(n, p.keys[1])}
<1>1. N = {a}
  BY DEF Unambiguous, Begins
<1>2. (CHOOSE n \in N : \A k \in N : n <= k) = a
  BY <1>1
<1>3. Recheck(p.keys[1]) = [of |-> p, remain |-> Tail(p.keys)]
  BY <1>1, <1>2 DEF Recheck
<1>4. /\ p.keys \in Seq(Keys) /\ Len(p.keys) \in Nat /\ Len(p.keys) >= 1
      /\ p # NULL
  BY RegisteredKeys
<1> HIDE DEF p
<1>5. Len(Tail(p.keys)) = Len(p.keys) - 1
  BY <1>4
<1>6. Recheck(p.keys[1]) # NULL
  <2>1. p \in Transaction /\ Tail(p.keys) \in Seq(Keys)
    BY <1>4, RegisteredKeys DEF p
  <2>2. [of |-> p, remain |-> Tail(p.keys)] \in Event
    BY <2>1 DEF Event
  <2> QED
    BY <1>3, <2>2, NullAssumption
<1> QED
  BY <1>3, <1>5, <1>6 DEF p

(* ... and continues none that is under way.                               *)
LEMMA FirstContinuesNone ==
  ASSUME TypeOK, OfList, Unambiguous, NEW a \in 1..Len(m_transaction_press_head)
  PROVE  ~Continues(m_transaction_event_head, m_transaction_press_head[a].keys[1])
<1> DEFINE e == m_transaction_event_head
<1>1. SUFFICES ASSUME e # NULL, e.remain # <<>>
               PROVE  e.remain[1] # m_transaction_press_head[a].keys[1]
  BY DEF Continues
<1>2. PICK b \in 1..Len(m_transaction_press_head) : e.of = m_transaction_press_head[b]
  BY <1>1 DEF OfList
<1>3. e \in Event /\ EndRemains(e)
  BY <1>1 DEF TypeOK
<1> DEFINE n == Len(e.of.keys) - Len(e.remain)
<1>4. n >= 1 /\ \A k \in 1..Len(e.remain) : e.remain[k] = e.of.keys[n + k]
  BY <1>3 DEF EndRemains
<1>5. Len(e.remain) \in Nat /\ Len(e.remain) >= 1 /\ Len(e.of.keys) \in Nat
  BY <1>1, <1>3 DEF Event, Transaction
<1>6. n + 1 \in 2..Len(e.of.keys) /\ e.remain[1] = e.of.keys[n + 1]
  <2>1. n \in Int /\ n + 1 <= Len(e.of.keys)
    BY <1>5
  <2>2. n >= 1
    BY <1>4
  <2> HIDE DEF n, e
  <2> QED
    BY <1>4, <1>5, <2>1, <2>2
<1> HIDE DEF n, e
<1> QED
  BY <1>2, <1>6 DEF Unambiguous

(* Before the last of j presses, the others were the last.                 *)
LEMMA LastBefore ==
  ASSUME TypeOK, NEW code \in Keys, NEW gap \in Gaps,
         check_transaction_event(code, gap), NEW p, NEW j \in Nat, j >= 1,
         LastAre(p, j)'
  PROVE  /\ code = p.keys[j]
         /\ j >= 2 => gap <= p.time /\ LastAre(p, j - 1)
<1>1. /\ Grown(pressed, pressed')
      /\ pressed'[Len(pressed')].code = code /\ pressed'[Len(pressed')].gap = gap
      /\ m_transaction_press_head' = m_transaction_press_head
  BY HistoryGrows DEF check_transaction_event
<1>2. /\ Len(pressed) \in Nat /\ Len(pressed') = Len(pressed) + 1
      /\ \A m \in 1..Len(pressed) : pressed'[m] = pressed[m]
  BY <1>1 DEF Grown
<1> DEFINE i == Len(pressed) - (j - 1)
<1>3. i = Len(pressed') - j /\ i \in Int /\ i + j = Len(pressed')
  BY <1>2
<1>4. /\ i >= 0
      /\ \A k \in 1..j : pressed'[i + k].code = p.keys[k]
      /\ \A k \in 2..j : pressed'[i + k].gap <= p.time
      /\ \A k \in 1..j : pressed'[i + k].registered = Len(m_transaction_press_head)
  BY <1>1, <1>3 DEF LastAre, Matches
<1>5. code = p.keys[j] /\ (j >= 2 => gap <= p.time)
  <2>1. j \in 1..j /\ (j >= 2 => j \in 2..j)
    OBVIOUS
  <2> HIDE DEF i
  <2> QED
    BY <1>1, <1>3, <1>4, <2>1
<1>6. \A k \in 1..(j - 1) : i + k \in 1..Len(pressed) /\ k \in 1..j
  BY <1>2, <1>4
<1>7. \A k \in 2..(j - 1) : k \in 1..(j - 1) /\ k \in 2..j
  OBVIOUS
<1> HIDE DEF i
<1>8. /\ \A k \in 1..(j - 1) :
           /\ pressed[i + k].code = p.keys[k]
           /\ pressed[i + k].registered = Len(m_transaction_press_head)
      /\ \A k \in 2..(j - 1) : pressed[i + k].gap <= p.time
  BY <1>2, <1>4, <1>6, <1>7
<1>9. LastAre(p, j - 1)
  BY <1>4, <1>8 DEF i, LastAre, Matches
<1> QED
  BY <1>5, <1>9

(* The event under way goes on with the next key.                          *)
LEMMA UnderWayContinues ==
  ASSUME TypeOK, UnderWay, Unambiguous,
         NEW a \in 1..Len(m_transaction_press_head), NEW j \in Nat, j >= 2,
         j <= Len(m_transaction_press_head[a].keys),
         LastAre(m_transaction_press_head[a], j - 1)
  PROVE  LET p == m_transaction_press_head[a]
             e == m_transaction_event_head
         IN /\ e \in Event /\ e.of = p /\ EndRemains(e)
            /\ Len(e.remain) = Len(p.keys) - (j - 1)
            /\ Continues(e, p.keys[j])
<1> DEFINE p == m_transaction_press_head[a]
           e == m_transaction_event_head
<1>1. Len(p.keys) \in Nat
  BY RegisteredKeys
<1>2. j - 1 \in 1..(Len(p.keys) - 1)
  BY <1>1
<1>3. e # NULL /\ e.of = p /\ Len(e.remain) = Len(p.keys) - (j - 1)
  BY <1>2 DEF UnderWay
<1>4. e \in Event /\ EndRemains(e)
  BY <1>3 DEF TypeOK
<1>5. Len(p.keys) - Len(e.remain) = j - 1 /\ 1 \in 1..Len(e.remain) /\ j - 1 + 1 = j
  BY <1>1, <1>3
<1>6. e.remain[1] = p.keys[j]
  BY <1>3, <1>4, <1>5 DEF EndRemains
<1>7. e.remain # <<>>
  BY <1>5
<1> QED
  BY <1>3, <1>4, <1>6, <1>7 DEF Continues

(* A press keeps what is pressed under way ...                             *)
LEMMA PressKeepsUnderWay ==
  ASSUME PressInv, NEW code \in Keys, NEW gap \in Gaps,
         check_transaction_event(code, gap)
  PROVE  UnderWay'
<1> DEFINE e == m_transaction_event_head
           f == NextEvent(e, code, gap)
<1>1. m_transaction_event_head' = f /\ m_transaction_press_head' = m_transaction_press_head
  BY DEF check_transaction_event
<1>2. SUFFICES ASSUME Unambiguous, NEW a \in 1..Len(m_transaction_press_head),
                      NEW j \in 1..(Len(m_transaction_press_head[a].keys) - 1),
                      LastAre(m_transaction_press_head[a], j)'
               PROVE  /\ f # NULL /\ f.of = m_transaction_press_head[a]
                      /\ Len(f.remain) = Len(m_transaction_press_head[a].keys) - j
  BY <1>1 DEF UnderWay, Unambiguous
<1>p. PICK p : p = m_transaction_press_head[a]
  OBVIOUS
<1>3. Len(p.keys) \in Nat /\ p # NULL
  BY <1>p, RegisteredKeys DEF PressInv
<1>4. LastAre(p, j)'
  BY <1>1, <1>2, <1>p DEF LastAre, Matches
<1>5. code = p.keys[j] /\ (j >= 2 => gap <= p.time /\ LastAre(p, j - 1))
  BY <1>4, LastBefore DEF PressInv
<1>6. CASE j = 1
  <2>1. ~Continues(e, code)
    BY <1>2, <1>p, <1>5, <1>6, FirstContinuesNone DEF PressInv
  <2>2. f = Recheck(code)
    BY <2>1 DEF NextEvent, Completes, Advances
  <2> HIDE DEF f, e
  <2> QED
    BY <1>2, <1>p, <1>5, <1>6, <2>2, RecheckChooses DEF PressInv
<1>7. CASE j >= 2
  <2>1. /\ e \in Event /\ e.of = p /\ EndRemains(e)
        /\ Len(e.remain) = Len(p.keys) - (j - 1)
        /\ Continues(e, p.keys[j])
    BY <1>2, <1>3, <1>p, <1>5, <1>7, UnderWayContinues DEF PressInv
  <2>2. Len(e.remain) > 1
    BY <1>3, <1>p, <2>1
  <2>3. f = [e EXCEPT !.remain = Tail(e.remain)]
    BY <1>5, <1>7, <2>1, <2>2 DEF NextEvent, Completes, Advances
  <2> HIDE DEF e, f
  <2>4. /\ f \in Event /\ f.of = p /\ Len(f.remain) = Len(e.remain) - 1
    BY <2>1, <2>2, <2>3, AdvanceFacts
  <2>5. f # NULL
    BY <2>4, NullAssumption
  <2> QED
    BY <1>3, <1>p, <2>1, <2>4, <2>5
<1> QED
  BY <1>6, <1>7

(* ... and the last of them calls back.                                    *)
LEMMA PressCalls ==
  ASSUME PressInv, NEW code \in Keys, NEW gap \in Gaps,
         check_transaction_event(code, gap)
  PROVE  PressedIsCalled'
<1> DEFINE e == m_transaction_event_head
           x == pressed'[Len(pressed')]
<1>1. m_transaction_press_head' = m_transaction_press_head
  BY DEF check_transaction_event
<1>2. SUFFICES ASSUME NEW a \in 1..Len(m_transaction_press_head), Unambiguous,
                      Len(m_transaction_press_head[a].keys) > 1,
                      JustPressed(m_transaction_press_head[a])'
               PROVE  /\ x.called # NULL
                      /\ x.called.keys = m_transaction_press_head[a].keys
  BY <1>1 DEF PressedIsCalled, Unambiguous, Last
<1>p. PICK p : p = m_transaction_press_head[a]
  OBVIOUS
<1>3. PICK j : j = Len(p.keys)
  OBVIOUS
<1>4. j \in Nat /\ j >= 2 /\ p # NULL
  BY <1>2, <1>3, <1>p, RegisteredKeys DEF PressInv
<1>5. LastAre(p, j)'
  BY <1>1, <1>2, <1>3, <1>p DEF LastAre, JustPressed, Matches
<1>6. code = p.keys[j] /\ LastAre(p, j - 1)
  BY <1>4, <1>5, LastBefore DEF PressInv
<1>a. /\ j <= Len(m_transaction_press_head[a].keys)
      /\ LastAre(m_transaction_press_head[a], j - 1)
  BY <1>3, <1>4, <1>p, <1>6
<1>7. /\ e.of = p /\ Len(e.remain) = Len(p.keys) - (j - 1)
      /\ Continues(e, p.keys[j])
  BY <1>2, <1>4, <1>p, <1>a, UnderWayContinues DEF PressInv
<1>8. Completes(e, code)
  BY <1>3, <1>4, <1>6, <1>7 DEF Completes
<1>9. x.called = e.of
  BY <1>8, HistoryGrows DEF PressInv
<1> HIDE DEF x, e
<1> QED
  BY <1>4, <1>p, <1>7, <1>9

(* What begins or advances is registered.                                  *)
LEMMA PressKeepsOfList ==
  ASSUME PressInv, NEW code \in Keys, NEW gap \in Gaps,
         check_transaction_event(code, gap)
  PROVE  OfList'
<1> DEFINE e == m_transaction_event_head
           f == NextEvent(e, code, gap)
           N == {n \in 1..Len(m_transaction_press_head) : Begins(n, code)}
<1>1. m_transaction_event_head' = f /\ m_transaction_press_head' = m_transaction_press_head
  BY DEF check_transaction_event
<1>2. SUFFICES ASSUME f # NULL
               PROVE  \E b \in 1..Len(m_transaction_press_head) :
                        f.of = m_transaction_press_head[b]
  BY <1>1 DEF OfList
<1>3. CASE Advances(e, code, gap)
  <2>1. e \in Event /\ EndRemains(e) /\ Len(e.remain) > 1 /\ e # NULL
    BY <1>3 DEF Advances, Continues, PressInv, TypeOK
  <2>2. f = [e EXCEPT !.remain = Tail(e.remain)]
    BY <1>2, <1>3 DEF NextEvent
  <2>3. f.of = e.of
    BY <2>1, <2>2, AdvanceFacts
  <2> HIDE DEF f
  <2> QED
    BY <2>1, <2>3 DEF PressInv, OfList
<1>4. CASE ~Advances(e, code, gap)
  <2>1. f = Recheck(code)
    BY <1>2, <1>4 DEF NextEvent
  <2>2. N # {} /\ N \subseteq Nat
    BY <1>2, <2>1 DEF Recheck
  <2>3. PICK n \in N : n = CHOOSE m \in N : \A k \in N : m <= k
    <3> HIDE DEF N
    <3> QED
      BY <2>2, LeastNatural
  <2>4. f.of = m_transaction_press_head[n]
    BY <2>1, <2>2, <2>3 DEF Recheck
  <2> QED
    BY <2>4
<1> QED
  BY <1>3, <1>4

(* A registration: the presses before it were with fewer.                  *)
LEMMA RegisterKeepsPressInv ==
  ASSUME PressInv, NEW p \in Transactions,
         RK_input_register_transaction_press_callback(p)
  PROVE  UnderWay' /\ OfList' /\ Counted' /\ PressedIsCalled'
<1> DEFINE h == m_transaction_press_head
<1>1. /\ h' = <<p>> \o h
      /\ m_transaction_event_head' = m_transaction_event_head
      /\ pressed' = pressed
      /\ h \in Seq(Transactions)
  BY DEF RK_input_register_transaction_press_callback, PressInv, TypeOK
<1>2. /\ Len(h) \in Nat /\ Len(h') = Len(h) + 1
      /\ \A b \in 1..Len(h) : b + 1 \in 1..Len(h') /\ h'[b + 1] = h[b]
  BY <1>1
<1>3. OfList'
  <2> HIDE DEF h
  <2>1. m_transaction_event_head # NULL
          => \E b \in 1..Len(h) : m_transaction_event_head.of = h[b]
    BY DEF PressInv, OfList, h
  <2>2. m_transaction_event_head # NULL
          => \E b \in 1..Len(h') : m_transaction_event_head.of = h'[b]
    BY <1>2, <2>1
  <2> QED
    BY <1>1, <2>2 DEF OfList, h
<1>4. Len(pressed) \in Nat /\ \A m \in 1..Len(pressed) : pressed[m].registered \in Nat
  <2>1. Len(pressed) \in Nat /\ \A m \in 1..Len(pressed) : pressed[m] \in Press
    BY DEF PressInv, TypeOK
  <2> QED
    BY <2>1 DEF Press
<1>5. \A m \in 1..Len(pressed) : pressed[m].registered < Len(h')
  BY <1>2, <1>4 DEF PressInv, Counted
<1>6. Counted'
  BY <1>1, <1>2, <1>4, <1>5 DEF Counted
<1>7. ASSUME NEW j \in Nat, j >= 1, Len(pressed) - j >= 0,
             \A k \in 1..j : pressed[Len(pressed) - j + k].registered = Len(h')
      PROVE  FALSE
  <2>1. /\ Len(pressed) - j + j = Len(pressed) /\ Len(pressed) \in 1..Len(pressed)
        /\ j \in 1..j
    BY <1>4, <1>7
  <2>2. pressed[Len(pressed) - j + j].registered = Len(h')
    BY <1>7, <2>1
  <2> HIDE DEF h
  <2> QED
    BY <1>2, <1>4, <1>5, <2>1, <2>2
<1>8. \A q, j : j \in Nat /\ j >= 1 => ~LastAre(q, j)'
  BY <1>1, <1>7 DEF LastAre
<1>9. \A b \in 1..Len(h') : Len(h'[b].keys) \in Nat
  <2>1. \A b \in 1..Len(h') : h'[b] \in Transactions
    BY <1>1
  <2> HIDE DEF h
  <2> QED
    BY <2>1, TransactionsAssumption DEF Transaction
<1>10. UnderWay'
  <2> SUFFICES ASSUME NEW a \in 1..Len(h'), NEW j \in 1..(Len(h'[a].keys) - 1)
               PROVE  ~LastAre(h[a], j)'
    BY DEF UnderWay
  <2>2. j \in Nat /\ j >= 1
    BY <1>9
  <2>3. PICK q : q = h'[a]
    OBVIOUS
  <2>4. ~LastAre(q, j)'
    BY <1>8, <2>2
  <2> QED
    BY <2>3, <2>4 DEF LastAre, Matches
<1>11. PressedIsCalled'
  <2> SUFFICES ASSUME NEW a \in 1..Len(h'), Len(h'[a].keys) > 1
               PROVE  ~JustPressed(h[a])'
    BY DEF PressedIsCalled
  <2>1. PICK q : q = h'[a]
    OBVIOUS
  <2>2. Len(q.keys) \in Nat /\ Len(q.keys) >= 1
    BY <1>9, <2>1
  <2>3. ~LastAre(q, Len(q.keys))'
    BY <1>8, <2>2
  <2> QED
    BY <2>1, <2>3 DEF LastAre, JustPressed, Matches
<1> QED
  BY <1>3, <1>6, <1>10, <1>11

(* Where no first key is ambiguous: what is pressed in order and in time   *)
(* is called back, for all keys, sequences and times, whatever was pressed *)
(* or begun before and whenever it was registered.                         *)
THEOREM WhatIsPressed == Spec => []PressedIsCalled
<1>1. Init => PressInv
  <2>1. SUFFICES ASSUME Init PROVE PressInv
    OBVIOUS
  <2>2. Len(m_transaction_press_head) = 0 /\ Len(pressed) = 0
    BY <2>1 DEF Init
  <2> QED
    BY <2>1, <2>2 DEF Init, PressInv, TypeOK, UnderWay, OfList, Counted, PressedIsCalled
<1>2. ASSUME PressInv, [Next]_vars PROVE PressInv'
  <2>1. TypeOK'
    BY <1>2, TypeInductive DEF PressInv
  <2>2. CASE \E p \in Transactions : RK_input_register_transaction_press_callback(p)
    BY <1>2, <2>1, <2>2, RegisterKeepsPressInv DEF PressInv
  <2>3. ASSUME NEW code \in Keys, NEW gap \in Gaps, check_transaction_event(code, gap)
        PROVE  PressInv'
    <3>1. Counted'
      <4>1. /\ Grown(pressed, pressed')
            /\ pressed'[Len(pressed')].registered = Len(m_transaction_press_head)
            /\ m_transaction_press_head' = m_transaction_press_head
        BY <1>2, <2>3, HistoryGrows DEF PressInv, check_transaction_event
      <4>2. \A m \in 1..Len(pressed') : m \in 1..Len(pressed) \/ m = Len(pressed')
        BY <4>1 DEF Grown
      <4>3. Len(m_transaction_press_head) \in Nat
        BY <1>2 DEF PressInv, TypeOK
      <4> QED
        BY <1>2, <4>1, <4>2, <4>3 DEF PressInv, Counted, Grown
    <3> QED
      BY <1>2, <2>1, <2>3, <3>1, PressKeepsUnderWay, PressKeepsOfList, PressCalls
         DEF PressInv
  <2>4. CASE UNCHANGED vars
    <3>1. UNCHANGED <<m_transaction_press_head, m_transaction_event_head, pressed>>
      BY <2>4 DEF vars
    <3>u. Unambiguous' <=> Unambiguous
      BY <3>1 DEF Unambiguous
    <3>2. UnderWay'
      <4>1. SUFFICES ASSUME Unambiguous, NEW a \in 1..Len(m_transaction_press_head),
                            NEW j \in 1..(Len(m_transaction_press_head[a].keys) - 1),
                            LastAre(m_transaction_press_head[a], j)'
                     PROVE  /\ m_transaction_event_head # NULL
                            /\ m_transaction_event_head.of = m_transaction_press_head[a]
                            /\ Len(m_transaction_event_head.remain)
                                 = Len(m_transaction_press_head[a].keys) - j
        BY <3>1, <3>u DEF UnderWay
      <4>2. LastAre(m_transaction_press_head[a], j)
        BY <3>1, <4>1 DEF LastAre, Matches
      <4> QED
        BY <1>2, <4>1, <4>2 DEF PressInv, UnderWay
    <3>3. OfList' /\ Counted'
      BY <1>2, <3>1 DEF PressInv, OfList, Counted
    <3>4. PressedIsCalled'
      <4>1. SUFFICES ASSUME Unambiguous, NEW a \in 1..Len(m_transaction_press_head),
                            NEW p, p = m_transaction_press_head[a],
                            Len(p.keys) > 1, JustPressed(p)
                     PROVE  /\ Last(pressed).called # NULL
                            /\ Last(pressed).called.keys = p.keys
        BY <3>1, <3>u DEF PressedIsCalled, JustPressed, Matches, Last
      <4> QED
        BY <1>2, <4>1 DEF PressInv, PressedIsCalled
    <3> QED
      BY <2>1, <3>2, <3>3, <3>4 DEF PressInv
  <2> QED
    BY <1>2, <2>2, <2>3, <2>4 DEF Next
<1>3. PressInv => PressedIsCalled
  BY DEF PressInv
<1> QED
  BY <1>1, <1>2, <1>3, PTL DEF Spec
=============================================================================
