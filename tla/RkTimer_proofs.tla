--------------------------- MODULE RkTimer_proofs ---------------------------
(***************************************************************************)
(* Proofs about RkTimer, for any handles and settings.                     *)
(***************************************************************************)
EXTENDS RkTimer, TLAPS, WellFoundedInduction, FiniteSetTheorems

-----------------------------------------------------------------------------
(* Natural numbers.                                                        *)

(* A non-empty set of natural numbers has a least element.                 *)
LEMMA LeastNatural ==
  ASSUME NEW T \in SUBSET Nat, T # {}
  PROVE  \E m \in T : \A n \in T : m <= n
<1>1. PICK m \in T : \A n \in T : ~(<<n, m>> \in OpToRel(<, Nat))
  BY NatLessThanWellFounded, WFMin
<1>2. \A n \in T : m \in Nat /\ n \in Nat /\ ~(n < m)
  BY <1>1 DEF OpToRel
<1> QED
  BY <1>2

-----------------------------------------------------------------------------
(* What following links reaches.                                           *)

Links == [Handles -> Handles \cup {NULL}]

(* One more link; the sets of the definition of Reached.                   *)
Followed(R, links) == R \cup ({links[h] : h \in R} \ {NULL})
Reach(f, s, links, n) ==
  f = [i \in 0..n |-> IF i = 0 THEN {s} \ {NULL} ELSE Followed(f[i - 1], links)]

(* A set that following the links does not leave.                          *)
Closed(R, links) == \A h \in R : links[h] # NULL => links[h] \in R

LEMMA ReachExists ==
  ASSUME NEW s, NEW links, NEW n \in Nat
  PROVE  \E f : Reach(f, s, links, n)
<1> DEFINE Bad == {i \in Nat : ~\E f : Reach(f, s, links, i)}
<1> SUFFICES Bad = {}
  OBVIOUS
<1>1. ASSUME Bad # {} PROVE FALSE
  <2>0. Bad \in SUBSET Nat
    OBVIOUS
  <2>b. \A i \in Nat : (\E f : Reach(f, s, links, i)) \/ i \in Bad
    OBVIOUS
  <2>c. \A i \in Bad : ~\E f : Reach(f, s, links, i)
    OBVIOUS
  <2> HIDE DEF Bad
  <2>1. PICK m \in Bad : \A i \in Bad : m <= i
    BY <1>1, <2>0, LeastNatural
  <2>2. m \in Nat /\ ~\E f : Reach(f, s, links, m)
    BY <2>0, <2>c
  <2>3. CASE m = 0
    <3>1. \A i \in 0..0 : i = 0
      OBVIOUS
    <3>2. [i \in 0..0 |-> {s} \ {NULL}]
            = [i \in 0..0 |-> IF i = 0 THEN {s} \ {NULL}
                              ELSE Followed([j \in 0..0 |-> {s} \ {NULL}][i - 1], links)]
      BY <3>1, Zenon
    <3>3. Reach([i \in 0..0 |-> {s} \ {NULL}], s, links, 0)
      BY <3>2 DEF Reach
    <3> QED
      BY <2>2, <2>3, <3>3
  <2>4. CASE m # 0
    <3>1. m - 1 \in Nat /\ m - 1 < m
      BY <2>2, <2>4
    <3>2. m - 1 \notin Bad
      BY <2>1, <2>2, <3>1
    <3>3. PICK g : Reach(g, s, links, m - 1)
      BY <2>b, <3>1, <3>2
    <3> DEFINE E(f, i) == IF i = 0 THEN {s} \ {NULL} ELSE Followed(f[i - 1], links)
               h == [i \in 0..m |-> IF i = m THEN E(g, m) ELSE g[i]]
    <3>4. \A i \in 0..m : i = m \/ (i \in 0..(m - 1) /\ i # m)
      BY <2>2
    <3>5. \A i \in 0..m : i # 0 => i - 1 \in 0..m /\ i - 1 # m
      BY <2>2
    <3>6. \A i \in 0..(m - 1) : g[i] = E(g, i)
      BY <3>3 DEF Reach
    <3>7. \A i \in 0..m : h[i] = IF i = m THEN E(g, m) ELSE g[i]
      OBVIOUS
    <3>8. \A i \in 0..m : i # 0 => h[i - 1] = g[i - 1]
      BY <3>5, <3>7
    <3>9. \A i \in 0..m : E(h, i) = E(g, i)
      BY <3>8
    <3>10. h = [i \in 0..m |-> h[i]]
      OBVIOUS
    <3>11. \A i \in 0..m : h[i] = E(h, i)
      <4> HIDE DEF h, E
      <4> QED
        BY <3>4, <3>6, <3>7, <3>9
    <3>12. Reach(h, s, links, m)
      <4> HIDE DEF h
      <4> QED
        BY <3>10, <3>11 DEF Reach
    <3> QED
      BY <2>2, <3>12
  <2> QED
    BY <2>3, <2>4
<1> QED
  BY <1>1

(* Induction up to a number.                                               *)
LEMMA UpTo ==
  ASSUME NEW N \in Nat, NEW G, 0 \in G, \A i \in 1..N : i - 1 \in G => i \in G
  PROVE  \A i \in 0..N : i \in G
<1> DEFINE Bad == {i \in 0..N : i \notin G}
<1>0. Bad \in SUBSET Nat /\ (\A i \in Bad : i \in 0..N /\ i \notin G)
      /\ \A i \in 0..N : i \in G \/ i \in Bad
  OBVIOUS
<1> HIDE DEF Bad
<1>1. ASSUME Bad # {} PROVE FALSE
  <2>1. PICK m \in Bad : \A i \in Bad : m <= i
    BY <1>0, <1>1, LeastNatural
  <2>2. m \in 0..N /\ m # 0
    BY <1>0
  <2>3. m \in 1..N /\ m - 1 \in 0..N /\ ~(m <= m - 1)
    BY <2>2
  <2> QED
    BY <1>0, <2>1, <2>3
<1> QED
  BY <1>0, <1>1

(* What is reached contains its start, is closed, and nothing smaller is.  *)
LEMMA ReachedFacts ==
  ASSUME NEW s \in Handles \cup {NULL}, NEW links \in Links
  PROVE  /\ Reached(s, links) \subseteq Handles
         /\ s = NULL => Reached(s, links) = {}
         /\ s # NULL => s \in Reached(s, links)
         /\ Closed(Reached(s, links), links)
         /\ \A X \in SUBSET Handles :
              (s # NULL => s \in X) /\ Closed(X, links) => Reached(s, links) \subseteq X
<1> DEFINE N == Cardinality(Handles)
           R == CHOOSE f : Reach(f, s, links, N)
<1>1. N \in Nat
  BY FiniteAssumption, FS_CardinalityType
<1>2. Reached(s, links) = R[N]
  BY DEF Reached, Reach, Followed
<1>3. Reach(R, s, links, N)
  BY <1>1, ReachExists
<1> HIDE DEF N, R
<1>4. /\ R[0] = {s} \ {NULL}
      /\ \A i \in 1..N : R[i] = R[i - 1] \cup ({links[h] : h \in R[i - 1]} \ {NULL})
  <2>1. \A i \in 0..N : R[i] = IF i = 0 THEN {s} \ {NULL} ELSE Followed(R[i - 1], links)
    BY <1>3 DEF Reach
  <2>2. 0 \in 0..N /\ \A i \in 1..N : i \in 0..N /\ i # 0
    BY <1>1
  <2> QED
    BY <2>1, <2>2 DEF Followed
<1>n. N \in 0..N
  BY <1>1
<1>5. ASSUME NEW X \in SUBSET Handles, s # NULL => s \in X, Closed(X, links)
      PROVE  \A i \in 0..N : R[i] \subseteq X
  <2> DEFINE G == {i \in 0..N : R[i] \subseteq X}
  <2>1. 0 \in G
    BY <1>1, <1>4, <1>5
  <2>2. \A i \in 1..N : i - 1 \in G => i \in G
    BY <1>1, <1>4, <1>5 DEF Closed
  <2>3. \A i \in G : R[i] \subseteq X
    OBVIOUS
  <2> HIDE DEF G
  <2> QED
    BY <1>1, <2>1, <2>2, <2>3, UpTo
<1>6. \A i \in 0..N : R[i] \subseteq Handles
  <2>1. Closed(Handles, links)
    BY DEF Closed, Links
  <2> QED
    BY <1>5, <2>1
<1>7. CASE s = NULL
  <2>1. \A i \in 0..N : R[i] \subseteq {}
    <3>1. Closed({}, links)
      BY DEF Closed
    <3> QED
      BY <1>5, <1>7, <3>1
  <2>2. R[N] = {}
    BY <1>n, <2>1
  <2> QED
    BY <1>2, <1>7, <2>2 DEF Closed
<1>8. CASE s # NULL
  <2>1. \A i \in 0..N : s \in R[i]
    <3> DEFINE G == {i \in 0..N : s \in R[i]}
    <3>1. 0 \in G
      BY <1>1, <1>4, <1>8
    <3>2. \A i \in 1..N : i - 1 \in G => i \in G
      BY <1>1, <1>4
    <3>3. \A i \in G : s \in R[i]
      OBVIOUS
    <3> HIDE DEF G
    <3> QED
      BY <1>1, <3>1, <3>2, <3>3, UpTo
  <2>2. \E k \in 1..N : R[k] = R[k - 1]
    <3> SUFFICES ASSUME \A k \in 1..N : R[k] # R[k - 1] PROVE FALSE
      OBVIOUS
    <3> DEFINE G == {i \in 0..N : Cardinality(R[i]) >= i + 1}
    <3>0. \A i \in 0..N : IsFiniteSet(R[i]) /\ Cardinality(R[i]) \in Nat /\ Cardinality(R[i]) <= N
      BY <1>6, FiniteAssumption, FS_Subset, FS_CardinalityType DEF N
    <3>1. 0 \in G
      <4>1. R[0] = {s}
        BY <1>4, <1>8
      <4>2. Cardinality(R[0]) = 1 /\ 0 \in 0..N
        BY <1>1, <4>1, FS_Singleton
      <4> QED
        BY <4>2
    <3>2. ASSUME NEW i \in 1..N, i - 1 \in G PROVE i \in G
      <4>1. i - 1 \in 0..N /\ i \in 0..N /\ i \in Nat /\ i - 1 + 1 = i
        BY <1>1
      <4>2. R[i - 1] \in SUBSET R[i] /\ R[i] # R[i - 1]
        BY <1>4
      <4>3. /\ Cardinality(R[i - 1]) <= Cardinality(R[i])
            /\ Cardinality(R[i]) # Cardinality(R[i - 1])
        <5>1. IsFiniteSet(R[i])
          BY <3>0, <4>1
        <5> QED
          BY <4>2, <5>1, FS_Subset
      <4>4. Cardinality(R[i - 1]) >= i
        BY <3>2, <4>1
      <4>5. Cardinality(R[i - 1]) \in Nat /\ Cardinality(R[i]) \in Nat
        BY <3>0, <4>1
      <4>6. \A a, b \in Nat : a <= b /\ b # a /\ a >= i => b >= i + 1
        BY <4>1
      <4>7. Cardinality(R[i]) >= i + 1
        BY <4>3, <4>4, <4>5, <4>6
      <4> QED
        BY <4>1, <4>7
    <3>3. \A i \in G : Cardinality(R[i]) >= i + 1
      OBVIOUS
    <3> HIDE DEF G
    <3>4. Cardinality(R[N]) >= N + 1
      BY <1>1, <1>n, <3>1, <3>2, <3>3, UpTo
    <3> QED
      BY <1>1, <1>n, <3>0, <3>4
  <2>3. PICK k \in 1..N : R[k] = R[k - 1]
    BY <2>2
  <2>4. Closed(R[k], links)
    BY <1>4, <2>3 DEF Closed
  <2>5. R[N] = R[k]
    <3> DEFINE G == {i \in 0..N : i < k \/ R[i] = R[k]}
    <3>1. 0 \in G
      BY <1>1
    <3>2. ASSUME NEW i \in 1..N, i - 1 \in G PROVE i \in G
      <4>1. i < k \/ i = k \/ (i - 1 >= k /\ ~(i - 1 < k))
        BY <1>1
      <4>2. ASSUME R[i - 1] = R[k] PROVE R[i] = R[k]
        <5>1. R[i] = R[k] \cup ({links[h] : h \in R[k]} \ {NULL})
          BY <1>4, <4>2
        <5>2. {links[h] : h \in R[k]} \ {NULL} \subseteq R[k]
          BY <2>4 DEF Closed
        <5> QED
          BY <5>1, <5>2
      <4>3. i - 1 < k \/ R[i - 1] = R[k]
        BY <3>2
      <4>4. i \in 0..N
        BY <1>1
      <4>5. i < k \/ R[i] = R[k]
        BY <4>1, <4>2, <4>3, Zenon
      <4> QED
        BY <4>4, <4>5
    <3>3. \A i \in G : i < k \/ R[i] = R[k]
      OBVIOUS
    <3> HIDE DEF G
    <3>4. N < k \/ R[N] = R[k]
      BY <1>1, <1>n, <3>1, <3>2, <3>3, UpTo
    <3> QED
      BY <1>1, <3>4
  <2> QED
    BY <1>2, <1>5, <1>6, <1>8, <1>n, <2>1, <2>4, <2>5
<1> QED
  BY <1>7, <1>8

-----------------------------------------------------------------------------
(* Links that are set anew.                                                *)

LEMMA NullIsNone == NULL \notin Handles
  BY NullAssumption

LEMMA FollowsOn ==
  ASSUME NEW links \in Links, NEW s \in Handles
  PROVE  Reached(links[s], links) \subseteq Reached(s, links)
<1>1. links[s] \in Handles \cup {NULL} /\ s # NULL
  BY NullIsNone DEF Links
<1>2. /\ Reached(s, links) \in SUBSET Handles /\ s \in Reached(s, links)
      /\ Closed(Reached(s, links), links)
  BY <1>1, ReachedFacts
<1>3. links[s] # NULL => links[s] \in Reached(s, links)
  BY <1>2 DEF Closed
<1> QED
  BY <1>1, <1>2, <1>3, ReachedFacts

(* A handle in front of a list that it was not on.                         *)
LEMMA Relinked ==
  ASSUME NEW links \in Links, NEW hd \in Handles \cup {NULL}, NEW h \in Handles,
         h \notin Reached(hd, links), NEW new \in Links,
         new[h] = hd, \A x \in Handles : x # h => new[x] = links[x]
  PROVE  /\ Reached(hd, new) = Reached(hd, links)
         /\ Reached(h, new) = {h} \cup Reached(hd, links)
         /\ \A s \in Handles \cup {NULL} :
              Reached(s, new) \subseteq Reached(s, links) \cup Reached(hd, links)
         /\ \A s \in Handles \cup {NULL} :
              h \notin Reached(s, links) => Reached(s, new) \subseteq Reached(s, links)
<1> DEFINE L == Reached(hd, links)
<1>1. /\ new \in Links /\ new[h] = hd
      /\ \A x \in Handles : x # h => new[x] = links[x]
  OBVIOUS
<1>2. /\ L \in SUBSET Handles /\ Closed(L, links) /\ (hd # NULL => hd \in L)
      /\ (hd = NULL => L = {})
  BY ReachedFacts
<1>3. ASSUME NEW s \in Handles \cup {NULL}
      PROVE  /\ Reached(s, links) \in SUBSET Handles /\ Closed(Reached(s, links), links)
             /\ (s # NULL => s \in Reached(s, links))
             /\ Reached(s, new) \in SUBSET Handles /\ Closed(Reached(s, new), new)
             /\ (s # NULL => s \in Reached(s, new))
  BY <1>1, ReachedFacts
<1>4. ASSUME NEW s \in Handles \cup {NULL}, NEW X \in SUBSET Handles,
             s # NULL => s \in X, Closed(X, new)
      PROVE  Reached(s, new) \subseteq X
  BY <1>1, <1>4, ReachedFacts
<1> HIDE DEF L
<1>5. ASSUME NEW s \in Handles \cup {NULL}
      PROVE  Reached(s, new) \subseteq Reached(s, links) \cup L
  <2> DEFINE X == Reached(s, links) \cup L
  <2>1. X \in SUBSET Handles /\ (s # NULL => s \in X)
    BY <1>2, <1>3
  <2>2. Closed(X, new)
    BY <1>1, <1>2, <1>3 DEF Closed
  <2> HIDE DEF X
  <2>3. Reached(s, new) \subseteq X
    BY <1>4, <2>1, <2>2
  <2> QED
    BY <2>3 DEF X
<1>6. ASSUME NEW s \in Handles \cup {NULL}, h \notin Reached(s, links)
      PROVE  Reached(s, new) \subseteq Reached(s, links)
  <2>1. Closed(Reached(s, links), new)
    BY <1>1, <1>3, <1>6 DEF Closed
  <2> QED
    BY <1>3, <1>4, <2>1
<1>7. L \subseteq Reached(hd, new)
  <2> DEFINE X == Reached(hd, new) \cap L
  <2>1. X \in SUBSET Handles /\ (hd # NULL => hd \in X)
    BY <1>2, <1>3
  <2>2. Closed(X, links)
    BY <1>1, <1>2, <1>3 DEF Closed, L
  <2> HIDE DEF X
  <2>3. L \subseteq X
    BY <2>1, <2>2, ReachedFacts DEF L
  <2> QED
    BY <2>3 DEF X
<1>8. Reached(hd, new) = L
  BY <1>6, <1>7 DEF L
<1>9. Reached(h, new) = {h} \cup L
  <2>1. Closed({h} \cup L, new)
    BY <1>1, <1>2 DEF Closed, L
  <2>2. {h} \cup L \in SUBSET Handles
    BY <1>2
  <2>3. Reached(h, new) \subseteq {h} \cup L
    BY <1>4, <2>1, <2>2
  <2>4. h \in Reached(h, new)
    BY <1>3, NullIsNone
  <2>5. L \subseteq Reached(h, new)
    BY <1>1, <1>8, FollowsOn
  <2> QED
    BY <2>3, <2>4, <2>5
<1> QED
  BY <1>1, <1>5, <1>6, <1>8, <1>9 DEF L

(* Links that lead down a ranking do not come back.                        *)
Ranking(r, links) ==
  /\ r \in [Handles -> Nat]
  /\ \A h \in Handles : links[h] # NULL => r[links[h]] < r[h]

LEMMA NeverBack ==
  ASSUME NEW links \in Links, NEW r, Ranking(r, links), NEW s \in Handles
  PROVE  s \notin Reached(links[s], links)
<1> DEFINE X == {h \in Handles : r[h] < r[s]}
<1>1. links[s] \in Handles \cup {NULL} /\ X \in SUBSET Handles
  BY DEF Links
<1>2. links[s] # NULL => links[s] \in X
  BY <1>1 DEF Ranking
<1>3. Closed(X, links)
  <2> SUFFICES ASSUME NEW h \in X, links[h] # NULL PROVE links[h] \in X
    BY DEF Closed
  <2>1. h \in Handles /\ r[h] < r[s] /\ links[h] \in Handles
    BY DEF Links
  <2>2. r[links[h]] < r[h]
    BY <2>1 DEF Ranking
  <2>3. r[links[h]] \in Nat /\ r[h] \in Nat /\ r[s] \in Nat
    BY <2>1 DEF Ranking
  <2>4. r[links[h]] < r[s]
    BY <2>1, <2>2, <2>3
  <2> QED
    BY <2>1, <2>4
<1>4. s \notin X
  BY DEF Ranking
<1> HIDE DEF X
<1>5. Reached(links[s], links) \subseteq X
  BY <1>1, <1>2, <1>3, ReachedFacts
<1> QED
  BY <1>4, <1>5

LEMMA RankedAnew ==
  ASSUME NEW links \in Links, NEW r, Ranking(r, links),
         NEW hd \in Handles \cup {NULL}, NEW h \in Handles, h \notin Reached(hd, links)
  PROVE  \E q : Ranking(q, [links EXCEPT ![h] = hd])
<1> DEFINE L == Reached(hd, links)
           k == IF hd = NULL THEN 1 ELSE r[hd] + 1
           new == [links EXCEPT ![h] = hd]
           q == [x \in Handles |-> IF x \in L THEN r[x] ELSE r[x] + k]
<1>1. k \in Nat /\ k > 0
  BY DEF Ranking
<1>2. /\ L \in SUBSET Handles /\ Closed(L, links) /\ (hd # NULL => hd \in L)
  BY ReachedFacts
<1>3. /\ new[h] = hd /\ \A x \in Handles : x # h => new[x] = links[x]
      /\ \A x \in Handles : links[x] \in Handles \cup {NULL}
  BY DEF Links
<1>4. /\ \A x \in Handles : r[x] \in Nat
      /\ \A x \in Handles : links[x] # NULL => r[links[x]] < r[x]
  BY DEF Ranking
<1>k. hd # NULL => k = r[hd] + 1
  OBVIOUS
<1>l. h \notin L
  OBVIOUS
<1> HIDE DEF L, k, new
<1>5. q \in [Handles -> Nat]
  BY <1>1, <1>4
<1>6. \A x \in Handles : q[x] = IF x \in L THEN r[x] ELSE r[x] + k
  OBVIOUS
<1> HIDE DEF q
<1>7. ASSUME NEW x \in Handles, new[x] # NULL PROVE q[new[x]] < q[x]
  <2>1. CASE x = h
    <3>1. q[hd] = r[hd] /\ q[h] = r[h] + k /\ r[hd] \in Nat /\ r[h] \in Nat /\ k = r[hd] + 1
      BY <1>2, <1>3, <1>4, <1>6, <1>7, <1>k, <1>l, <2>1
    <3>2. q[hd] < q[h]
      BY <3>1
    <3> QED
      BY <1>3, <2>1, <3>2
  <2>2. CASE x # h
    <3> DEFINE y == links[x]
    <3>1. new[x] = y /\ y \in Handles /\ r[y] < r[x] /\ r[x] \in Nat /\ r[y] \in Nat
      BY <1>3, <1>4, <1>7, <2>2
    <3>2. x \in L => y \in L
      BY <1>2, <1>3, <1>7, <2>2 DEF Closed
    <3>3. /\ q[x] = IF x \in L THEN r[x] ELSE r[x] + k
          /\ q[y] = IF y \in L THEN r[y] ELSE r[y] + k
      BY <1>6, <3>1
    <3> HIDE DEF y
    <3>4. q[y] < q[x]
      BY <1>1, <3>1, <3>2, <3>3
    <3> QED
      BY <3>1, <3>4
  <2> QED
    BY <2>1, <2>2
<1>8. Ranking(q, new)
  BY <1>5, <1>7 DEF Ranking
<1> QED
  BY <1>8 DEF new

-----------------------------------------------------------------------------
(* Types.                                                                  *)

LEMMA TypeStep ==
  ASSUME TypeOK, [Next]_vars
  PROVE  TypeOK'
<1> USE DEF TypeOK, list, start, history
<1>0. /\ \A g \in Settings : g \in [time : Nat, repeat : Nat]
      /\ 0 \in 0..MaxAge /\ MaxAge \in Nat
  BY SettingsAssumption, MaxAgeAssumption
<1>1. ASSUME NEW h \in Handles, NEW setting \in Settings, RK_timer_create(h, setting)
      PROVE  TypeOK'
  BY <1>0, <1>1 DEF RK_timer_create
<1>2. ASSUME NEW h \in Handles, RK_timer_stop(h) PROVE TypeOK'
  BY <1>2 DEF RK_timer_stop, StoppedHead
<1>3. ASSUME RK_timer_init
      PROVE  /\ timer_running' \in BOOLEAN
             /\ pc' \in [Threads -> {"none", "loop", "asleep", "visit"} \cup Callback]
             /\ \A t \in Threads : pc'[t] = pc[t] \/ pc'[t] = "loop"
  BY <1>3 DEF RK_timer_init
<1>i. CASE RK_timer_init /\ UNCHANGED <<timer, age, list, target, start, history>>
  BY <1>3, <1>i DEF Callback
<1>4. CASE RK_timer_exit
  BY <1>4 DEF RK_timer_exit
<1>5. ASSUME NEW c \in Clients, NEW h \in Handles, RK_timer_start(c, h) PROVE TypeOK'
  <2>1. starting' \in [Clients -> Handles \cup {NULL}]
    BY <1>5 DEF RK_timer_start
  <2>2. RK_timer_init /\ UNCHANGED <<timer, age, list, target, todo, history>>
    BY <1>5 DEF RK_timer_start
  <2> QED
    BY <1>3, <2>1, <2>2 DEF Callback
<1>6. CASE Tick
  <2> DEFINE older(n) == IF n = MaxAge THEN n ELSE n + 1
  <2>1. \A n \in 0..MaxAge : older(n) \in 0..MaxAge
    BY <1>0
  <2>2. age' = [h \in Handles |-> [start |-> older(age[h].start), last |-> older(age[h].last)]]
    BY <1>6 DEF Tick
  <2> HIDE DEF older
  <2>3. \A h \in Handles : age[h].start \in 0..MaxAge /\ age[h].last \in 0..MaxAge
    OBVIOUS
  <2>4. age' \in [Handles -> [start : 0..MaxAge, last : 0..MaxAge]]
    BY <2>1, <2>2, <2>3
  <2>5. UNCHANGED <<timer, list, timer_running, pc, target, start, history>>
    BY <1>6 DEF Tick
  <2> QED
    BY <2>4, <2>5
<1>7. ASSUME NEW c \in Clients, Starting(c) PROVE TypeOK'
  <2>1. CASE Stamp(c)
    BY <1>0, <2>1 DEF Stamp
  <2>2. CASE Link(c)
    BY <2>2 DEF Link
  <2>3. CASE Head(c)
    <3>1. Reached(next[starting[c]], next) \subseteq Handles
      BY <2>3, ReachedFacts DEF Head, Links
    <3> QED
      BY <2>3, <3>1 DEF Head
  <2> QED
    BY <1>7, <2>1, <2>2, <2>3 DEF Starting
<1>8. ASSUME NEW t \in Threads, Loop(t) PROVE TypeOK'
  BY <1>8 DEF Loop, Callback
<1>9. ASSUME NEW t \in Threads, WakeUp(t) PROVE TypeOK'
  BY <1>9 DEF WakeUp, GoTo, Callback
<1>10. ASSUME NEW t \in Threads, Visit(t) PROVE TypeOK'
  <2>1. target[t] \in Handles
    BY <1>10 DEF Visit
  <2>2. age' \in [Handles -> [start : 0..MaxAge, last : 0..MaxAge]]
    BY <1>0, <1>10, <2>1 DEF Visit
  <2> QED
    BY <1>10, <2>1, <2>2 DEF Visit, GoTo, Callback
<1>11. ASSUME NEW t \in Threads, Return(t) PROVE TypeOK'
  BY <1>11 DEF Return, GoTo, StoppedHead, Callback
<1>12. CASE UNCHANGED vars
  BY <1>12 DEF vars
<1> QED
  BY <1>1, <1>2, <1>i, <1>4, <1>5, <1>6, <1>7, <1>8, <1>9, <1>10, <1>11, <1>12
     DEF Next, Client, Thread

LEMMA InitType == Init => TypeOK
<1> SUFFICES ASSUME Init PROVE TypeOK
  OBVIOUS
<1>1. 0 \in 0..MaxAge
  BY MaxAgeAssumption
<1>2. age \in [Handles -> [start : 0..MaxAge, last : 0..MaxAge]]
  BY <1>1 DEF Init
<1>3. timer \in [Handles -> [time : Nat, repeat : Nat] \cup {NULL}]
  BY DEF Init
<1> QED
  BY <1>2, <1>3 DEF Init, TypeOK, Callback

(* Every variable keeps its type, and the walk is never where it would     *)
(* look at a NULL target.                                                  *)
THEOREM TypeCorrect == Spec => []TypeOK
  BY InitType, TypeStep, PTL DEF Spec

-----------------------------------------------------------------------------
(* The list.                                                               *)

(* One client thread; and one that walks the list, either because no other *)
(* is created or because it is never told to end.                          *)
OneClient == \A c, d \in Clients : c = d
OneWalk == (\A s, t \in Threads : s = t) \/ "exit" \notin Api

(* A handle that a client has searched for and not linked is not listed.   *)
Unlisted ==
  \A c \in Clients : starting[c] # NULL /\ todo[c] # "head" => starting[c] \notin Listed

(* The links never form a cycle, those of handles off the list included.   *)
Descending == \E r : Ranking(r, next)

LEMMA ListedFacts ==
  ASSUME TypeOK
  PROVE  /\ Listed \in SUBSET Handles /\ Closed(Listed, next)
         /\ head_handle # NULL => head_handle \in Listed
         /\ head_handle = NULL => Listed = {}
  BY ReachedFacts DEF Listed, TypeOK, Links

(* What a step does to the list: it writes a link or the head of a start,  *)
(* or drops all, or leaves the list alone.                                 *)
LEMMA ListMoves ==
  ASSUME TypeOK, [Next]_vars
  PROVE  \/ \E c \in Clients : Link(c)
         \/ \E c \in Clients : Head(c)
         \/ /\ next' = next /\ head_handle' \in {head_handle, NULL}
            /\ Listed' \in {Listed, {}}
            /\ \/ UNCHANGED start
               \/ \E c \in Clients : Stamp(c)
               \/ \E c \in Clients, h \in Handles : RK_timer_start(c, h)
<1> SUFFICES ASSUME ~\E c \in Clients : Link(c), ~\E c \in Clients : Head(c)
             PROVE  /\ next' = next /\ head_handle' \in {head_handle, NULL}
                    /\ Listed' \in {Listed, {}}
                    /\ \/ UNCHANGED start
                       \/ \E c \in Clients : Stamp(c)
                       \/ \E c \in Clients, h \in Handles : RK_timer_start(c, h)
  OBVIOUS
<1>1. /\ next' = next /\ head_handle' \in {head_handle, NULL}
      /\ \/ UNCHANGED start
         \/ \E c \in Clients : Stamp(c)
         \/ \E c \in Clients, h \in Handles : RK_timer_start(c, h)
  <2>1. CASE Client
    BY <2>1 DEF Client, RK_timer_create, RK_timer_stop, StoppedHead, RK_timer_exit,
       RK_timer_start, list, start
  <2>2. CASE Tick \/ UNCHANGED vars
    BY <2>2 DEF Tick, vars, list, start
  <2>3. ASSUME NEW t \in Threads, Thread(t)
        PROVE  next' = next /\ head_handle' \in {head_handle, NULL} /\ UNCHANGED start
    BY <2>3 DEF Thread, Loop, WakeUp, Visit, Return, StoppedHead, list, start
  <2>4. ASSUME NEW c \in Clients, Stamp(c)
        PROVE  next' = next /\ head_handle' = head_handle
    BY <2>4 DEF Stamp, list
  <2> QED
    BY <2>1, <2>2, <2>3, <2>4 DEF Next, Starting
<1>2. Listed' = Reached(head_handle', next)
  BY <1>1 DEF Listed
<1>3. Reached(NULL, next) = {}
  BY ReachedFacts DEF TypeOK, Links
<1> QED
  BY <1>1, <1>2, <1>3 DEF Listed

LEMMA UnlistedStep ==
  ASSUME TypeOK, OneClient, Unlisted, [Next]_vars
  PROVE  Unlisted'
<1> SUFFICES ASSUME NEW c \in Clients, starting'[c] # NULL, todo'[c] # "head"
             PROVE  starting'[c] \notin Listed'
  BY DEF Unlisted
<1>1. ASSUME NEW d \in Clients, Link(d) \/ Head(d) PROVE FALSE
  BY <1>1 DEF Link, Head, OneClient, TypeOK
<1>2. Listed' \in {Listed, {}}
  BY <1>1, ListMoves
<1>3. CASE UNCHANGED start
  BY <1>2, <1>3 DEF Unlisted, start
<1>4. ASSUME NEW d \in Clients, NEW h \in Handles, RK_timer_start(d, h)
      PROVE  starting'[c] \notin Listed'
  <2>1. c = d
    BY DEF OneClient
  <2>2. starting'[c] = IF h \in Listed THEN NULL ELSE h
    BY <1>4, <2>1 DEF RK_timer_start, TypeOK
  <2> QED
    BY <1>2, <2>2
<1>5. ASSUME NEW d \in Clients, Stamp(d) PROVE starting'[c] \notin Listed'
  <2>1. c = d
    BY DEF OneClient
  <2>2. starting'[c] = starting[c] /\ todo[c] = "stamp"
    BY <1>5, <2>1 DEF Stamp
  <2> QED
    BY <1>2, <2>2 DEF Unlisted
<1> QED
  BY <1>1, <1>3, <1>4, <1>5, ListMoves

(* What Link makes of the list.                                            *)
LEMMA Linked ==
  ASSUME TypeOK, Unlisted, NEW c \in Clients, Link(c)
  PROVE  LET h == starting[c] IN
         /\ h \in Handles /\ h \notin Listed
         /\ next' = [next EXCEPT ![h] = head_handle] /\ head_handle' = head_handle
         /\ Listed' = Listed
         /\ \A s \in Handles \cup {NULL} :
              Reached(s, next') \subseteq Reached(s, next) \cup Listed
         /\ \A s \in Handles \cup {NULL} :
              h \notin Reached(s, next) => Reached(s, next') \subseteq Reached(s, next)
         /\ Reached(head_handle, next') = Listed
<1> DEFINE h == starting[c]
<1>1. /\ h \in Handles /\ h \notin Listed
      /\ next' = [next EXCEPT ![h] = head_handle] /\ head_handle' = head_handle
  BY DEF Link, TypeOK, Unlisted
<1>2. next \in Links /\ head_handle \in Handles \cup {NULL}
  BY DEF TypeOK, Links
<1>3. Listed = Reached(head_handle, next) /\ Listed' = Reached(head_handle', next')
  BY DEF Listed
<1>a. h \notin Reached(head_handle, next)
  BY <1>1, <1>3
<1> DEFINE new == next'
<1>b. /\ new \in Links /\ new[h] = head_handle
      /\ \A x \in Handles : x # h => new[x] = next[x]
  BY <1>1, <1>2 DEF Links
<1> HIDE DEF h, new
<1>c. /\ Reached(head_handle, new) = Reached(head_handle, next)
      /\ Reached(h, new) = {h} \cup Reached(head_handle, next)
      /\ \A s \in Handles \cup {NULL} :
           Reached(s, new) \subseteq Reached(s, next) \cup Reached(head_handle, next)
      /\ \A s \in Handles \cup {NULL} :
           h \notin Reached(s, next) => Reached(s, new) \subseteq Reached(s, next)
  <2> DEFINE hd == head_handle
             links == next
  <2>1. /\ links \in Links /\ hd \in Handles \cup {NULL} /\ h \in Handles
        /\ h \notin Reached(hd, links) /\ new \in Links
        /\ new[h] = hd /\ \A x \in Handles : x # h => new[x] = links[x]
    BY <1>1, <1>2, <1>a, <1>b
  <2> HIDE DEF hd, links
  <2>2. /\ Reached(hd, new) = Reached(hd, links)
        /\ Reached(h, new) = {h} \cup Reached(hd, links)
        /\ \A s \in Handles \cup {NULL} :
             Reached(s, new) \subseteq Reached(s, links) \cup Reached(hd, links)
        /\ \A s \in Handles \cup {NULL} :
             h \notin Reached(s, links) => Reached(s, new) \subseteq Reached(s, links)
    BY ONLY <2>1, Relinked
  <2> QED
    BY <2>2 DEF hd, links
<1>4. /\ Reached(head_handle, next') = Reached(head_handle, next)
      /\ Reached(h, next') = {h} \cup Reached(head_handle, next)
      /\ \A s \in Handles \cup {NULL} :
           Reached(s, next') \subseteq Reached(s, next) \cup Reached(head_handle, next)
      /\ \A s \in Handles \cup {NULL} :
           h \notin Reached(s, next) => Reached(s, next') \subseteq Reached(s, next)
  BY <1>c DEF new
<1> QED
  BY <1>1, <1>3, <1>4 DEF h

(* What Head makes of it: the handle and what is linked behind it.         *)
LEMMA Headed ==
  ASSUME TypeOK, NEW c \in Clients, Head(c)
  PROVE  LET h == starting[c] IN
         /\ h \in Handles /\ next[h] \in Handles \cup {NULL}
         /\ next' = next /\ head_handle' = h
         /\ Listed' \subseteq {h} \cup Reached(next[h], next)
<1> DEFINE h == starting[c]
           X == {h} \cup Reached(next[h], next)
<1>1. /\ h \in Handles /\ next[h] \in Handles \cup {NULL} /\ next \in Links
      /\ next' = next /\ head_handle' = h
  BY DEF Head, TypeOK, Links
<1>2. Listed' = Reached(h, next)
  BY <1>1 DEF Listed
<1>3. /\ Reached(next[h], next) \subseteq Handles
      /\ next[h] # NULL => next[h] \in Reached(next[h], next)
      /\ Closed(Reached(next[h], next), next)
  BY <1>1, ReachedFacts
<1>4. X \in SUBSET Handles /\ h \in X /\ Closed(X, next)
  BY <1>1, <1>3 DEF Closed
<1> HIDE DEF h, X
<1>5. Reached(h, next) \subseteq X
  BY <1>1, <1>4, ReachedFacts
<1> QED
  BY <1>1, <1>2, <1>5 DEF h, X

LEMMA DescendingStep ==
  ASSUME TypeOK, Unlisted, Descending, [Next]_vars
  PROVE  Descending'
<1>1. PICK r : Ranking(r, next)
  BY DEF Descending
<1>2. ASSUME NEW c \in Clients, Link(c) PROVE Descending'
  <2> DEFINE h == starting[c]
             hd == head_handle
             links == next
  <2>1. /\ h \in Handles /\ h \notin Listed /\ next' = [links EXCEPT ![h] = hd]
    BY <1>2, Linked
  <2>2. /\ links \in Links /\ hd \in Handles \cup {NULL} /\ h \notin Reached(hd, links)
        /\ Ranking(r, links)
    BY <1>1, <2>1 DEF TypeOK, Links, Listed
  <2> HIDE DEF h, hd, links
  <2>3. \E q : Ranking(q, [links EXCEPT ![h] = hd])
    BY ONLY <2>1, <2>2, RankedAnew
  <2> QED
    BY <2>1, <2>3 DEF Descending
<1>3. CASE next' = next
  BY <1>1, <1>3 DEF Descending
<1>4. ASSUME NEW c \in Clients, Head(c) PROVE next' = next
  BY <1>4, Headed
<1> QED
  BY <1>2, <1>3, <1>4, ListMoves

(* The handle of the least rank is the last one.                           *)
LEMMA DescentEnds ==
  ASSUME TypeOK, Descending
  PROVE  ListEnds
<1>1. PICK r : Ranking(r, next)
  BY DEF Descending
<1>2. /\ Listed \in SUBSET Handles /\ Closed(Listed, next)
      /\ head_handle # NULL => head_handle \in Listed
  BY ListedFacts
<1> SUFFICES ASSUME head_handle # NULL PROVE \E h \in Listed : next[h] = NULL
  BY DEF ListEnds
<1> DEFINE T == {r[h] : h \in Listed}
<1>3. T \in SUBSET Nat /\ T # {}
  BY <1>1, <1>2 DEF Ranking
<1>4. (\A n \in T : \E h \in Listed : n = r[h]) /\ \A h \in Listed : r[h] \in T
  OBVIOUS
<1> HIDE DEF T
<1>5. PICK m \in T : \A n \in T : m <= n
  BY <1>3, LeastNatural
<1>6. PICK h \in Listed : m = r[h]
  BY <1>4
<1>7. ASSUME next[h] # NULL PROVE FALSE
  <2>1. next[h] \in Listed /\ h \in Handles /\ next[h] \in Handles
    BY <1>2, <1>7 DEF Closed
  <2>2. r[next[h]] < r[h] /\ r[next[h]] \in Nat /\ r[h] \in Nat
    BY <1>1, <1>7, <2>1 DEF Ranking
  <2>3. r[h] <= r[next[h]]
    BY <1>4, <1>5, <1>6, <2>1
  <2> QED
    BY <2>2, <2>3
<1> QED
  BY <1>7

LEMMA InitDescending == Init => Descending
<1> SUFFICES ASSUME Init PROVE Descending
  OBVIOUS
<1>1. Ranking([h \in Handles |-> 0], next)
  BY DEF Init, Ranking
<1> QED
  BY <1>1 DEF Descending

(* With one client thread the list of timers stays a list, whatever comes  *)
(* between the statements of RK_timer_start and wherever the walks are: no *)
(* walk over it goes round for ever.                                       *)
THEOREM ListStaysList ==
  ASSUME OneClient
  PROVE  Spec => []ListIsList
<1> DEFINE I == TypeOK /\ Unlisted /\ Descending
<1>1. Init => I
  BY InitType, InitDescending DEF Init, Unlisted
<1>2. I /\ [Next]_vars => I'
  BY TypeStep, UnlistedStep, DescendingStep
<1>3. I => ListIsList
  BY DescentEnds DEF ListIsList
<1> QED
  BY <1>1, <1>2, <1>3, PTL DEF Spec

-----------------------------------------------------------------------------
(* One-shot timers.                                                        *)

(* At most one thread walks.                                               *)
Alone ==
  /\ \A s, t \in Threads : pc[s] # "none" /\ pc[t] # "none" => s = t
  /\ "exit" \notin Api => \A t \in Threads : pc[t] # "none" => timer_running

(* What the list, the walk and a client have to do with is created.        *)
Created(h) == h # NULL => timer[h] # NULL
AllCreated ==
  /\ Created(head_handle)
  /\ \A h \in Handles : Created(next[h])
  /\ \A t \in Threads : Created(target[t])
  /\ \A c \in Clients : Created(starting[c])

(* The one-shot timers on the list are owed a call, but for the one in     *)
(* whose callback the walk is; and so are those that the walk has before   *)
(* it, though they may have been taken off the list.                       *)
InCallback(h) == \E t \in Threads : pc[t] = "oneshot" /\ target[t] = h
Owed == armed \cup revived
ArmedIn(R) == \A h \in R : OneShot(h) => h \in Owed
ListedArmed == \A h \in Listed : OneShot(h) => h \in Owed \/ InCallback(h)
AheadArmed ==
  \A t \in Threads :
    /\ pc[t] = "visit" => ArmedIn(Reached(target[t], next))
    /\ pc[t] \in Callback => ArmedIn(Reached(next[target[t]], next))

LEMMA AloneStep ==
  ASSUME TypeOK, OneWalk, Alone, [Next]_vars
  PROVE  Alone'
<1>1. \/ timer_running' = timer_running /\ \A t \in Threads : pc'[t] # "none" => pc[t] # "none"
      \/ "exit" \in Api /\ pc' = pc
      \/ /\ ~timer_running /\ timer_running'
         /\ \E t \in Threads : pc' = [pc EXCEPT ![t] = "loop"]
  <2>1. RK_timer_init =>
          \/ UNCHANGED <<timer_running, pc>>
          \/ /\ ~timer_running /\ timer_running'
             /\ \E t \in Threads : pc' = [pc EXCEPT ![t] = "loop"]
    BY DEF RK_timer_init
  <2>2. CASE Client
    BY <2>1, <2>2 DEF Client, RK_timer_create, RK_timer_stop, RK_timer_exit, RK_timer_start
  <2>3. CASE Tick \/ (\E c \in Clients : Starting(c)) \/ UNCHANGED vars
    BY <2>3 DEF Tick, Starting, Stamp, Link, Head, vars
  <2>4. ASSUME NEW t \in Threads, Thread(t)
        PROVE  timer_running' = timer_running /\ \A s \in Threads : pc'[s] # "none" => pc[s] # "none"
    BY <2>4 DEF Thread, Loop, WakeUp, Visit, Return, GoTo, TypeOK, Callback
  <2> QED
    BY <2>2, <2>3, <2>4 DEF Next
<1>2. CASE timer_running' = timer_running /\ \A t \in Threads : pc'[t] # "none" => pc[t] # "none"
  BY <1>2 DEF Alone
<1>3. CASE "exit" \in Api /\ pc' = pc
  BY <1>3 DEF Alone
<1>4. ASSUME ~timer_running, timer_running', NEW t \in Threads, pc' = [pc EXCEPT ![t] = "loop"]
      PROVE  Alone'
  <2>1. CASE "exit" \notin Api
    <3>1. \A s \in Threads : pc[s] = "none"
      BY <1>4, <2>1 DEF Alone
    <3>2. \A s \in Threads : pc'[s] # "none" => s = t
      BY <1>4, <3>1 DEF TypeOK
    <3> QED
      BY <1>4, <3>2 DEF Alone
  <2>2. CASE "exit" \in Api
    BY <2>2 DEF Alone, OneWalk
  <2> QED
    BY <2>1, <2>2
<1> QED
  BY <1>1, <1>2, <1>3, <1>4

(* What is created keeps its interval.                                     *)
LEMMA Settled ==
  ASSUME TypeOK, "recreate" \notin Api, [Next]_vars, NEW h \in Handles, timer[h] # NULL
  PROVE  timer'[h] = timer[h]
<1>1. CASE Client
  BY <1>1 DEF Client, RK_timer_create, RK_timer_stop, RK_timer_exit, RK_timer_start, TypeOK
<1>2. CASE Tick \/ (\E c \in Clients : Starting(c)) \/ UNCHANGED vars
  BY <1>2 DEF Tick, Starting, Stamp, Link, Head, vars
<1>3. ASSUME NEW t \in Threads, Thread(t)
      PROVE  timer' = timer
  BY <1>3 DEF Thread, Loop, WakeUp, Visit, Return
<1> QED
  BY <1>1, <1>2, <1>3 DEF Next

LEMMA CreatedStep ==
  ASSUME TypeOK, "recreate" \notin Api, AllCreated, [Next]_vars
  PROVE  AllCreated'
<1>0. \A h \in Handles \cup {NULL} : Created(h) => Created(h)'
  <2> SUFFICES ASSUME NEW h \in Handles, timer[h] # NULL PROVE timer'[h] # NULL
    BY DEF Created
  <2> QED
    BY Settled
<1>t. /\ head_handle \in Handles \cup {NULL} /\ NULL \in Handles \cup {NULL}
      /\ \A h \in Handles : next[h] \in Handles \cup {NULL}
      /\ \A t \in Threads : target[t] \in Handles \cup {NULL}
      /\ \A c \in Clients : starting[c] \in Handles \cup {NULL}
  BY DEF TypeOK
<1>1. /\ head_handle' \in {head_handle, NULL} \/ \E c \in Clients : head_handle' = starting[c]
      /\ \A h \in Handles : next'[h] \in {next[h], head_handle}
  <2>1. ASSUME NEW c \in Clients, Link(c)
        PROVE  head_handle' = head_handle /\ \A h \in Handles : next'[h] \in {next[h], head_handle}
    BY <2>1 DEF Link, TypeOK
  <2>2. ASSUME NEW c \in Clients, Head(c)
        PROVE  head_handle' = starting[c] /\ next' = next
    BY <2>2 DEF Head
  <2> QED
    BY <2>1, <2>2, ListMoves
<1>2. \A t \in Threads :
        \/ target'[t] \in {target[t], NULL, head_handle}
        \/ \E h \in Handles : target'[t] = next[h]
  <2>1. CASE Client
    BY <2>1 DEF Client, RK_timer_create, RK_timer_stop, RK_timer_exit, RK_timer_start
  <2>2. CASE Tick \/ (\E c \in Clients : Starting(c)) \/ UNCHANGED vars
    BY <2>2 DEF Tick, Starting, Stamp, Link, Head, vars
  <2>3. ASSUME NEW s \in Threads, Thread(s)
        PROVE  \A t \in Threads :
                 \/ target'[t] \in {target[t], NULL, head_handle}
                 \/ \E h \in Handles : target'[t] = next[h]
    <3>1. CASE Loop(s) \/ WakeUp(s)
      BY <3>1 DEF Loop, WakeUp, GoTo, TypeOK
    <3>2. CASE Visit(s) \/ Return(s)
      <4>1. target[s] \in Handles
        BY <3>2 DEF Visit, Return, TypeOK
      <4> QED
        BY <3>2, <4>1 DEF Visit, Return, GoTo, TypeOK
    <3> QED
      BY <2>3, <3>1, <3>2 DEF Thread
  <2> QED
    BY <2>1, <2>2, <2>3 DEF Next
<1>3. \A c \in Clients :
        \/ starting'[c] \in {starting[c], NULL}
        \/ starting'[c] \in Handles /\ timer[starting'[c]] # NULL
  <2>1. ASSUME NEW d \in Clients, NEW h \in Handles, RK_timer_start(d, h)
        PROVE  \A c \in Clients :
                 \/ starting'[c] \in {starting[c], NULL}
                 \/ starting'[c] \in Handles /\ timer[starting'[c]] # NULL
    BY <2>1 DEF RK_timer_start, TypeOK
  <2>2. ASSUME NEW d \in Clients, Stamp(d) \/ Link(d) \/ Head(d)
        PROVE  \A c \in Clients : starting'[c] \in {starting[c], NULL}
    BY <2>2 DEF Stamp, Link, Head, TypeOK
  <2> QED
    BY <2>1, <2>2, ListMoves DEF start
<1>n. Created(NULL)
  BY DEF Created
<1>4. Created(head_handle)'
  BY <1>0, <1>1, <1>n, <1>t DEF AllCreated, Created
<1>5. \A h \in Handles : Created(next[h])'
  BY <1>0, <1>1, <1>t DEF AllCreated, Created
<1>6. \A t \in Threads : Created(target[t])'
  BY <1>0, <1>2, <1>n, <1>t DEF AllCreated, Created
<1>7. \A c \in Clients : Created(starting[c])'
  BY <1>0, <1>3, <1>n, <1>t DEF AllCreated, Created
<1> QED
  BY <1>4, <1>5, <1>6, <1>7 DEF AllCreated

(* Links lead from what is created to what is created.                     *)
LEMMA ReachedCreated ==
  ASSUME TypeOK, AllCreated, NEW s \in Handles \cup {NULL}, Created(s)
  PROVE  \A h \in Reached(s, next) : h \in Handles /\ timer[h] # NULL
<1> DEFINE X == {h \in Handles : timer[h] # NULL}
<1>1. next \in Links /\ X \in SUBSET Handles /\ (s # NULL => s \in X)
  BY DEF TypeOK, Links, Created
<1>2. Closed(X, next)
  BY <1>1 DEF Closed, AllCreated, Created, Links
<1>3. \A h \in X : h \in Handles /\ timer[h] # NULL
  OBVIOUS
<1> HIDE DEF X
<1>4. Reached(s, next) \subseteq X
  BY <1>1, <1>2, ReachedFacts
<1> QED
  BY <1>3, <1>4

(* The handle that the walk calls back is alone in being called back.      *)
LEMMA CalledBack ==
  ASSUME Alone, NEW t \in Threads, pc[t] # "none", NEW h, InCallback(h)
  PROVE  pc[t] = "oneshot" /\ target[t] = h
BY DEF Alone, InCallback

LEMMA LinkArmed ==
  ASSUME TypeOK, Unlisted, Alone, ListedArmed, AheadArmed, NEW c \in Clients, Link(c)
  PROVE  ListedArmed' /\ AheadArmed'
<1> DEFINE h == starting[c]
<1>1. /\ h \in Handles /\ h \notin Listed
      /\ next' = [next EXCEPT ![h] = head_handle] /\ Listed' = Listed
      /\ \A s \in Handles \cup {NULL} :
           Reached(s, next') \subseteq Reached(s, next) \cup Listed
      /\ \A s \in Handles \cup {NULL} :
           h \notin Reached(s, next) => Reached(s, next') \subseteq Reached(s, next)
      /\ Reached(head_handle, next') = Listed
  BY Linked
<1>2. Owed' = Owed /\ UNCHANGED <<timer, pc, target>>
  BY DEF Link, Owed, history
<1> HIDE DEF h
<1>3. /\ \A x : OneShot(x)' <=> OneShot(x)
      /\ \A x : InCallback(x)' <=> InCallback(x)
  BY <1>2 DEF OneShot, InCallback
<1>4. ListedArmed'
  BY <1>1, <1>2, <1>3 DEF ListedArmed
<1>5. ASSUME NEW t \in Threads, pc[t] = "visit"
      PROVE  ArmedIn(Reached(target[t], next))'
  <2>1. target[t] \in Handles
    BY <1>5 DEF TypeOK
  <2>2. ArmedIn(Reached(target[t], next))
    BY <1>5 DEF AheadArmed
  <2>3. \A x \in Listed : OneShot(x) => x \in Owed
    BY <1>5, CalledBack DEF ListedArmed
  <2>4. Reached(target[t], next') \subseteq Reached(target[t], next) \cup Listed
    BY <1>1, <2>1
  <2> QED
    BY <1>2, <1>3, <2>2, <2>3, <2>4 DEF ArmedIn
<1>6. ASSUME NEW t \in Threads, pc[t] \in Callback
      PROVE  ArmedIn(Reached(next[target[t]], next))'
  <2> DEFINE v == target[t]
  <2>1. v \in Handles /\ next[v] \in Handles \cup {NULL} /\ pc[t] # "none"
    BY <1>6 DEF TypeOK, Callback
  <2>2. ArmedIn(Reached(next[v], next))
    BY <1>6 DEF AheadArmed
  <2>3. \A x \in Listed : x # v /\ OneShot(x) => x \in Owed
    BY <2>1, CalledBack DEF ListedArmed
  <2>4. v' = v
    BY <1>2
  <2> HIDE DEF v
  <2>5. CASE v = h
    <3>1. next'[v] = head_handle
      BY <1>1, <2>5 DEF TypeOK
    <3>2. Reached(next'[v], next') = Listed
      BY <1>1, <3>1
    <3>3. \A x \in Listed : OneShot(x) => x \in Owed
      BY <1>1, <2>3, <2>5
    <3>4. \A x \in Reached(next'[v], next') : OneShot(x)' => x \in Owed'
      BY <1>2, <1>3, <3>2, <3>3
    <3> QED
      BY <2>4, <3>4 DEF ArmedIn, v
  <2>6. CASE v # h
    <3>1. next'[v] = next[v]
      BY <1>1, <2>1, <2>6 DEF TypeOK
    <3>2. \A x \in Reached(next[v], next') : OneShot(x) => x \in Owed
      <4>1. CASE v \in Listed
        <5>1. Listed \in SUBSET Handles /\ Closed(Listed, next)
          BY ListedFacts
        <5>2. next[v] # NULL => next[v] \in Listed
          BY <4>1, <5>1 DEF Closed
        <5>3. next \in Links
          BY DEF TypeOK, Links
        <5>4. Reached(next[v], next) \subseteq Listed
          BY <2>1, <5>1, <5>2, <5>3, ReachedFacts
        <5>5. Reached(next[v], next') \subseteq Reached(next[v], next)
          BY <1>1, <2>1, <5>4
        <5> QED
          BY <2>2, <5>5 DEF ArmedIn
      <4>2. CASE v \notin Listed
        <5>1. Reached(next[v], next') \subseteq Reached(next[v], next) \cup Listed
          BY <1>1, <2>1
        <5> QED
          BY <2>2, <2>3, <4>2, <5>1 DEF ArmedIn
      <4> QED
        BY <4>1, <4>2
    <3>3. \A x \in Reached(next'[v], next') : OneShot(x)' => x \in Owed'
      BY <1>2, <1>3, <3>1, <3>2
    <3> QED
      BY <2>4, <3>3 DEF ArmedIn, v
  <2> QED
    BY <2>5, <2>6
<1> QED
  BY <1>2, <1>4, <1>5, <1>6 DEF AheadArmed

(* A head that was written over in time brings back the list, later what   *)
(* was on it: those are owed another call.                                 *)
LEMMA HeadArmed ==
  ASSUME TypeOK, ListedArmed, AheadArmed, NEW c \in Clients, Head(c)
  PROVE  ListedArmed' /\ AheadArmed'
<1> DEFINE h == starting[c]
<1>1. /\ h \in Handles /\ next' = next
      /\ Listed' \subseteq {h} \cup Reached(next[h], next)
  BY Headed
<1>2. /\ UNCHANGED <<timer, pc, target>>
      /\ armed' = IF OneShot(h) THEN armed \cup {h} ELSE armed
      /\ revived' = IF head_handle = next[h] THEN revived
                    ELSE revived \cup Reached(next[h], next)
  BY DEF Head
<1> HIDE DEF h
<1>3. Owed \subseteq Owed' /\ (OneShot(h) => h \in Owed')
  BY <1>2 DEF Owed
<1>4. /\ \A x : OneShot(x)' <=> OneShot(x)
      /\ \A x : InCallback(x)' <=> InCallback(x)
  BY <1>2 DEF OneShot, InCallback
<1>5. ASSUME NEW x \in Listed', OneShot(x) PROVE x \in Owed' \/ InCallback(x)
  <2>1. CASE x = h
    BY <1>3, <1>5, <2>1
  <2>2. CASE x \in Reached(next[h], next) /\ head_handle = next[h]
    BY <1>3, <1>5, <2>2 DEF ListedArmed, Listed
  <2>3. CASE x \in Reached(next[h], next) /\ head_handle # next[h]
    BY <1>2, <2>3 DEF Owed
  <2> QED
    BY <1>1, <1>5, <2>1, <2>2, <2>3
<1>6. ListedArmed'
  BY <1>4, <1>5 DEF ListedArmed
<1>7. ASSUME NEW s \in Handles \cup {NULL}, ArmedIn(Reached(s, next))
      PROVE  \A x \in Reached(s, next') : OneShot(x)' => x \in Owed'
  BY <1>1, <1>3, <1>4, <1>7 DEF ArmedIn
<1>8. ASSUME NEW t \in Threads, pc[t] = "visit"
      PROVE  ArmedIn(Reached(target[t], next))'
  <2>1. \A x \in Reached(target[t], next') : OneShot(x)' => x \in Owed'
    BY <1>7, <1>8 DEF AheadArmed, TypeOK
  <2>2. \A x \in Reached(target'[t], next') : OneShot(x)' => x \in Owed'
    BY <1>2, <2>1
  <2> QED
    BY <2>2 DEF ArmedIn
<1>9. ASSUME NEW t \in Threads, pc[t] \in Callback
      PROVE  ArmedIn(Reached(next[target[t]], next))'
  <2>1. next[target[t]] \in Handles \cup {NULL}
    BY <1>9 DEF TypeOK
  <2>2. \A x \in Reached(next[target[t]], next') : OneShot(x)' => x \in Owed'
    BY <1>7, <1>9, <2>1 DEF AheadArmed
  <2>3. next'[target'[t]] = next[target[t]]
    BY <1>1, <1>2
  <2>4. \A x \in Reached(next'[target'[t]], next') : OneShot(x)' => x \in Owed'
    BY <2>2, <2>3
  <2> QED
    BY <2>4 DEF ArmedIn
<1> QED
  BY <1>2, <1>6, <1>8, <1>9 DEF AheadArmed

LEMMA WakeUpArmed ==
  ASSUME TypeOK, Alone, ListedArmed, AheadArmed, NEW t \in Threads, WakeUp(t)
  PROVE  ListedArmed' /\ AheadArmed'
<1>1. /\ pc[t] = "asleep" /\ UNCHANGED <<timer, list>> /\ Owed' = Owed
      /\ \A s \in Threads : s # t => pc'[s] = pc[s] /\ target'[s] = target[s]
      /\ target'[t] = head_handle /\ pc'[t] \in {"loop", "visit"}
  BY DEF WakeUp, GoTo, TypeOK, Owed, history
<1>2. \A s \in Threads : s # t => pc'[s] = "none"
  BY <1>1 DEF Alone
<1>3. /\ Listed' = Listed /\ (\A x : OneShot(x)' <=> OneShot(x))
  BY <1>1 DEF Listed, OneShot, list
<1>4. \A x \in Listed : OneShot(x) => x \in Owed
  BY <1>1, CalledBack DEF ListedArmed
<1>5. ListedArmed'
  BY <1>1, <1>3, <1>4 DEF ListedArmed
<1>6. Reached(target'[t], next') = Listed
  BY <1>1 DEF list, Listed
<1>7. \A x \in Reached(target'[t], next') : OneShot(x)' => x \in Owed'
  BY <1>1, <1>3, <1>4, <1>6
<1>8. ASSUME NEW s \in Threads, pc'[s] = "visit" \/ pc'[s] \in Callback
      PROVE  s = t /\ pc'[s] \notin Callback
  BY <1>1, <1>2, <1>8 DEF Callback
<1>9. ArmedIn(Reached(target[t], next))'
  BY <1>7 DEF ArmedIn
<1> QED
  BY <1>5, <1>8, <1>9 DEF AheadArmed

LEMMA VisitArmed ==
  ASSUME TypeOK, Alone, Descending, ListedArmed, AheadArmed, NEW t \in Threads, Visit(t)
  PROVE  ListedArmed' /\ AheadArmed'
<1> DEFINE h == target[t]
<1>1. /\ pc[t] = "visit" /\ h \in Handles /\ next[h] \in Handles \cup {NULL}
      /\ UNCHANGED <<timer, list>> /\ next \in Links
  BY DEF Visit, TypeOK, Links
<1>2. /\ Listed' = Listed /\ (\A x : OneShot(x)' <=> OneShot(x))
  BY <1>1 DEF Listed, OneShot, list
<1>3. \A x \in Listed : OneShot(x) => x \in Owed
  BY <1>1, CalledBack DEF ListedArmed
<1>4. /\ \A s \in Threads : s # t => pc'[s] = "none"
      /\ \A s \in Threads : s # t => pc'[s] = pc[s]
  BY <1>1 DEF Alone, Visit, GoTo, TypeOK
<1>5. \A x \in Reached(h, next) : OneShot(x) => x \in Owed
  BY <1>1 DEF AheadArmed, ArmedIn
<1>6. /\ Reached(next[h], next) \subseteq Reached(h, next)
      /\ h \notin Reached(next[h], next)
  <2>1. PICK r : Ranking(r, next)
    BY DEF Descending
  <2> QED
    BY <1>1, <2>1, FollowsOn, NeverBack
<1>7. next' = next
  BY <1>1 DEF list
<1> HIDE DEF h
<1>8. CASE Due(h)
  <2>1. /\ pc'[t] = IF OneShot(h) THEN "oneshot" ELSE "repeating"
        /\ Owed' = Owed \ {h} /\ target' = target
    BY <1>8 DEF Visit, TypeOK, Owed, h
  <2>2. ListedArmed'
    <3> SUFFICES ASSUME NEW x \in Listed, OneShot(x) PROVE x \in Owed' \/ InCallback(x)'
      BY <1>2 DEF ListedArmed
    <3>1. CASE x = h
      BY <2>1, <3>1 DEF InCallback, h
    <3>2. CASE x # h
      BY <1>3, <2>1, <3>2
    <3> QED
      BY <3>1, <3>2
  <2>3. pc'[t] # "visit" /\ \A s \in Threads : pc'[s] = "visit" \/ pc'[s] \in Callback => s = t
    BY <1>4, <2>1 DEF Callback
  <2>4. \A x \in Reached(next[h], next) : OneShot(x) => x \in Owed'
    BY <1>5, <1>6, <2>1
  <2>5. next'[target'[t]] = next[h]
    BY <1>7, <2>1 DEF h
  <2>6. \A x \in Reached(next'[target'[t]], next') : OneShot(x)' => x \in Owed'
    BY <1>2, <1>7, <2>4, <2>5
  <2>7. ArmedIn(Reached(next[target[t]], next))'
    BY <2>6 DEF ArmedIn
  <2> QED
    BY <2>2, <2>3, <2>7 DEF AheadArmed
<1>9. CASE ~Due(h)
  <2>1. /\ target'[t] = next[h] /\ pc'[t] \in {"loop", "visit"} /\ Owed' = Owed
    BY <1>9 DEF Visit, GoTo, TypeOK, Owed, history, h
  <2>2. ListedArmed'
    BY <1>2, <1>3, <2>1 DEF ListedArmed
  <2>3. \A s \in Threads : pc'[s] \notin Callback /\ (pc'[s] = "visit" => s = t)
    BY <1>4, <2>1 DEF Callback
  <2>4. \A x \in Reached(target'[t], next') : OneShot(x)' => x \in Owed'
    BY <1>2, <1>5, <1>6, <1>7, <2>1
  <2>5. ArmedIn(Reached(target[t], next))'
    BY <2>4 DEF ArmedIn
  <2> QED
    BY <2>2, <2>3, <2>5 DEF AheadArmed
<1> QED
  BY <1>8, <1>9

LEMMA ReturnArmed ==
  ASSUME TypeOK, Alone, ListedArmed, AheadArmed, NEW t \in Threads, Return(t)
  PROVE  ListedArmed' /\ AheadArmed'
<1> DEFINE h == target[t]
<1>1. /\ pc[t] \in Callback /\ pc[t] # "none" /\ timer' = timer /\ Owed' = Owed /\ next' = next
      /\ target'[t] = next[h] /\ pc'[t] \in {"loop", "visit"}
      /\ \A s \in Threads : s # t => pc'[s] = pc[s]
  BY DEF Return, GoTo, TypeOK, Callback, Owed, history
<1>2. \A s \in Threads : s # t => pc'[s] = "none"
  BY <1>1 DEF Alone
<1>3. \A x : OneShot(x)' <=> OneShot(x)
  BY <1>1 DEF OneShot
<1>4. /\ pc[t] = "oneshot" => head_handle' = StoppedHead(h)
      /\ pc[t] # "oneshot" => head_handle' = head_handle
  BY DEF Return
<1>5. \A x \in Reached(next[h], next) : OneShot(x) => x \in Owed
  BY <1>1 DEF AheadArmed, ArmedIn
<1>n. Reached(NULL, next) = {} /\ Listed' = Reached(head_handle', next)
  BY <1>1, ReachedFacts DEF TypeOK, Links, Listed
<1>6. ASSUME NEW x \in Listed' PROVE x \in Listed /\ ~InCallback(x)
  <2>1. head_handle' # NULL
    BY <1>6, <1>n
  <2>2. head_handle' = head_handle /\ (pc[t] = "oneshot" => h \notin Listed)
    BY <1>4, <2>1 DEF StoppedHead
  <2>3. Listed' = Listed
    BY <1>n, <2>2 DEF Listed
  <2> QED
    BY <1>1, <1>6, <2>2, <2>3, CalledBack
<1>7. ListedArmed'
  BY <1>1, <1>3, <1>6 DEF ListedArmed
<1> HIDE DEF h
<1>8. \A s \in Threads : pc'[s] \notin Callback /\ (pc'[s] = "visit" => s = t)
  BY <1>1, <1>2 DEF Callback
<1>9. \A x \in Reached(target'[t], next') : OneShot(x)' => x \in Owed'
  BY <1>1, <1>3, <1>5
<1>10. ArmedIn(Reached(target[t], next))'
  BY <1>9 DEF ArmedIn
<1> QED
  BY <1>7, <1>8, <1>10 DEF AheadArmed

(* The other steps start no walk, arm nothing and disarm nothing.          *)
LEMMA QuietArmed ==
  ASSUME TypeOK, "recreate" \notin Api, AllCreated, ListedArmed, AheadArmed, [Next]_vars,
         next' = next, Listed' \in {Listed, {}}, Owed' = Owed,
         \A t \in Threads : pc'[t] \in {"visit"} \cup Callback <=> pc[t] \in {"visit"} \cup Callback,
         \A t \in Threads : pc[t] \in {"visit"} \cup Callback
                              => pc'[t] = pc[t] /\ target'[t] = target[t]
  PROVE  ListedArmed' /\ AheadArmed'
<1>1. ASSUME NEW h \in Handles, timer[h] # NULL PROVE OneShot(h)' <=> OneShot(h)
  BY <1>1, Settled DEF OneShot
<1>2. ASSUME NEW s \in Handles \cup {NULL}, Created(s), NEW h \in Reached(s, next)
      PROVE  OneShot(h)' <=> OneShot(h)
  BY <1>1, <1>2, ReachedCreated
<1>3. \A h : InCallback(h) => InCallback(h)'
  BY DEF InCallback, Callback
<1>4. ListedArmed'
  <2>1. ASSUME NEW h \in Listed PROVE OneShot(h)' <=> OneShot(h)
    BY <1>2, <2>1 DEF Listed, AllCreated, TypeOK
  <2> QED
    BY <1>3, <2>1 DEF ListedArmed
<1>5. ASSUME NEW t \in Threads, pc[t] = "visit"
      PROVE  ArmedIn(Reached(target[t], next))'
  <2>1. \A h \in Reached(target[t], next) : OneShot(h)' => h \in Owed'
    BY <1>2, <1>5 DEF AheadArmed, ArmedIn, AllCreated, TypeOK
  <2>2. target'[t] = target[t]
    BY <1>5
  <2>3. \A h \in Reached(target'[t], next') : OneShot(h)' => h \in Owed'
    BY <2>1, <2>2
  <2> QED
    BY <2>3 DEF ArmedIn
<1>6. ASSUME NEW t \in Threads, pc[t] \in Callback
      PROVE  ArmedIn(Reached(next[target[t]], next))'
  <2>1. target[t] \in Handles /\ next[target[t]] \in Handles \cup {NULL}
        /\ Created(next[target[t]])
    BY <1>6 DEF TypeOK, AllCreated
  <2>2. \A h \in Reached(next[target[t]], next) : OneShot(h)' => h \in Owed'
    BY <1>2, <1>6, <2>1 DEF AheadArmed, ArmedIn
  <2>3. next'[target'[t]] = next[target[t]]
    BY <1>6
  <2>4. \A h \in Reached(next'[target'[t]], next') : OneShot(h)' => h \in Owed'
    BY <2>2, <2>3
  <2> QED
    BY <2>4 DEF ArmedIn
<1> QED
  BY <1>4, <1>5, <1>6 DEF AheadArmed

LEMMA ArmedStep ==
  ASSUME TypeOK, Unlisted, Alone, "recreate" \notin Api, AllCreated, Descending,
         ListedArmed, AheadArmed, [Next]_vars
  PROVE  ListedArmed' /\ AheadArmed'
<1> DEFINE Walks(p) == p \in {"visit"} \cup Callback
<1>1. ASSUME NEW c \in Clients, Link(c) \/ Head(c) PROVE ListedArmed' /\ AheadArmed'
  BY <1>1, LinkArmed, HeadArmed
<1>2. CASE ~\E c \in Clients : Link(c) \/ Head(c)
  <2>1. next' = next /\ Listed' \in {Listed, {}}
    BY <1>2, ListMoves
  <2>2. ASSUME NEW t \in Threads, Thread(t) PROVE ListedArmed' /\ AheadArmed'
    <3>1. CASE Loop(t)
      <4>1. /\ pc[t] = "loop" /\ pc'[t] \in {"asleep", "none"} /\ Owed' = Owed
            /\ target' = target /\ \A s \in Threads : s # t => pc'[s] = pc[s]
        BY <3>1 DEF Loop, TypeOK, Owed, history
      <4>2. /\ \A s \in Threads : Walks(pc'[s]) <=> Walks(pc[s])
            /\ \A s \in Threads : Walks(pc[s]) => pc'[s] = pc[s] /\ target'[s] = target[s]
        BY <4>1 DEF Callback
      <4> QED
        BY <2>1, <4>1, <4>2, QuietArmed
    <3> QED
      BY <2>2, <3>1, WakeUpArmed, VisitArmed, ReturnArmed DEF Thread
  <2>3. CASE Client \/ Tick \/ (\E c \in Clients : Stamp(c)) \/ UNCHANGED vars
    <3>1. Owed' = Owed /\ target' = target
      BY <2>3 DEF Client, RK_timer_create, RK_timer_stop, RK_timer_exit, RK_timer_start,
         Tick, Stamp, vars, Owed, history
    <3>2. pc' = pc \/ \E t \in Threads : pc[t] = "none" /\ pc' = [pc EXCEPT ![t] = "loop"]
      BY <2>3 DEF Client, RK_timer_create, RK_timer_stop, RK_timer_exit, RK_timer_start,
         RK_timer_init, Tick, Stamp, vars
    <3>3. /\ \A s \in Threads : Walks(pc'[s]) <=> Walks(pc[s])
          /\ \A s \in Threads : Walks(pc[s]) => pc'[s] = pc[s] /\ target'[s] = target[s]
      BY <3>1, <3>2 DEF Callback, TypeOK
    <3> QED
      BY <2>1, <3>1, <3>3, QuietArmed
  <2> QED
    BY <1>2, <2>2, <2>3 DEF Next, Starting
<1> QED
  BY <1>1, <1>2

(* A one-shot timer is called back once for each start, whatever steps of  *)
(* the clients and the walk come between the statements of a start, the    *)
(* callback and the stop that follows it; and once more for each time that *)
(* the start of another handle, overtaken between its writes by a stop,    *)
(* lists it again.                                                         *)
THEOREM OneShotCalledOnce ==
  ASSUME OneClient, OneWalk, "recreate" \notin Api
  PROVE  Spec => OneShotOnce
<1> DEFINE I == /\ TypeOK /\ Unlisted /\ Alone /\ AllCreated /\ Descending
                /\ ListedArmed /\ AheadArmed
           Once == \A t \in Threads :
                     pc[t] = "visit" /\ pc'[t] = "oneshot" => target[t] \in armed \cup revived
<1>1. ASSUME Init PROVE I
  <2>1. TypeOK
    BY <1>1, InitType
  <2>2. Listed = {}
    BY <1>1, <2>1, ListedFacts DEF Init
  <2>3. Descending
    BY <1>1, InitDescending
  <2>4. Unlisted /\ Alone /\ AllCreated
    BY <1>1 DEF Init, Unlisted, Alone, AllCreated, Created
  <2>5. ListedArmed /\ AheadArmed
    BY <1>1, <2>2 DEF Init, ListedArmed, AheadArmed, Callback
  <2> QED
    BY <2>1, <2>3, <2>4, <2>5
<1>2. I /\ [Next]_vars => I'
  BY TypeStep, UnlistedStep, AloneStep, CreatedStep, DescendingStep, ArmedStep
<1>3. ASSUME I, [Next]_vars PROVE Once
  <2> SUFFICES ASSUME NEW t \in Threads, pc[t] = "visit", pc'[t] = "oneshot"
               PROVE  target[t] \in armed \cup revived
    OBVIOUS
  <2>1. target[t] \in Handles /\ next \in Links
    BY <1>3 DEF TypeOK, Links
  <2>2. target[t] \in Reached(target[t], next)
    BY <2>1, NullIsNone, ReachedFacts
  <2>3. OneShot(target[t])
    <3>1. ASSUME Client \/ Tick \/ (\E c \in Clients : Starting(c)) \/ UNCHANGED vars
          PROVE  FALSE
      BY <1>3, <3>1 DEF Client, RK_timer_create, RK_timer_stop, RK_timer_exit,
         RK_timer_start, RK_timer_init, Tick, Starting, Stamp, Link, Head, vars, TypeOK
    <3>2. PICK s \in Threads : Thread(s)
      BY <1>3, <3>1 DEF Next
    <3>3. s = t /\ Visit(t)
      BY <1>3, <3>2 DEF Thread, Loop, WakeUp, Visit, Return, GoTo, TypeOK, Callback
    <3> QED
      BY <1>3, <3>3 DEF Visit, GoTo, TypeOK
  <2> QED
    BY <1>3, <2>2, <2>3 DEF AheadArmed, ArmedIn, Owed
<1> HIDE DEF I
<1>4. I /\ [Next]_vars => [Once]_vars
  BY <1>3
<1>5. Spec => [][Once]_vars
  BY <1>1, <1>2, <1>4, PTL DEF Spec
<1> QED
  BY <1>5 DEF OneShotOnce
=============================================================================
