----------------------------- MODULE Led_proofs -----------------------------
(* Proofs about Led, for every set of effects, every number of calls and   *)
(* every behaviour of the device.                                          *)
EXTENDS Led, TLAPS, WellFoundedInduction

-----------------------------------------------------------------------------
(* Natural numbers and lists.                                              *)

(* A non-empty set of natural numbers has a least element.                 *)
LEMMA LeastNatural ==
  ASSUME NEW T \in SUBSET Nat, T # {}
  PROVE  \E m \in T : \A n \in T : m <= n
<1>1. PICK m \in T : \A n \in T : ~(<<n, m>> \in OpToRel(<, Nat))
  BY NatLessThanWellFounded, WFMin
<1>2. \A n \in T : m \in Nat /\ n \in Nat /\ ~(n < m)
  BY <1>1 DEF OpToRel
<1> QED
  BY <1>2

(* The elements of a concatenation.                                        *)
LEMMA ConcatElements ==
  ASSUME NEW S, NEW s \in Seq(S), NEW t \in Seq(S)
  PROVE  /\ s \o t \in Seq(S)
         /\ Len(s \o t) = Len(s) + Len(t)
         /\ \A j \in 1..Len(s) : (s \o t)[j] = s[j]
         /\ \A j \in (Len(s) + 1)..(Len(s) + Len(t)) : (s \o t)[j] = t[j - Len(s)]
  OBVIOUS

(* Inserting moves the elements from position k on by one.                 *)
LEMMA InsertAtElements ==
  ASSUME NEW S, NEW s \in Seq(S), NEW k \in 1..(Len(s) + 1), NEW x \in S
  PROVE  /\ InsertAt(s, k, x) \in Seq(S)
         /\ Len(InsertAt(s, k, x)) = Len(s) + 1
         /\ \A j \in 1..(Len(s) + 1) :
              InsertAt(s, k, x)[j] =
                IF j < k THEN s[j] ELSE IF j = k THEN x ELSE s[j - 1]
<1> DEFINE a == SubSeq(s, 1, k - 1)
           b == SubSeq(s, k, Len(s))
           c == a \o <<x>>
<1>1. a \in Seq(S) /\ Len(a) = k - 1 /\ \A j \in 1..(k - 1) : a[j] = s[j]
  OBVIOUS
<1>2. b \in Seq(S) /\ Len(b) = Len(s) - k + 1
      /\ \A j \in 1..(Len(s) - k + 1) : b[j] = s[k + j - 1]
  OBVIOUS
<1>3. InsertAt(s, k, x) = c \o b
  BY DEF InsertAt
<1> HIDE DEF a, b
<1>4. c \in Seq(S) /\ Len(c) = k
      /\ \A j \in 1..k : c[j] = IF j < k THEN a[j] ELSE x
  BY <1>1
<1> HIDE DEF c
<1>5. /\ (c \o b) \in Seq(S) /\ Len(c \o b) = Len(c) + Len(b)
      /\ \A j \in 1..Len(c) : (c \o b)[j] = c[j]
      /\ \A j \in (Len(c) + 1)..(Len(c) + Len(b)) : (c \o b)[j] = b[j - Len(c)]
  BY <1>2, <1>4, ConcatElements
<1>6. Len(c \o b) = Len(s) + 1 /\ \A j \in 1..k : (c \o b)[j] = c[j]
  BY <1>2, <1>4, <1>5
<1>7. \A j \in (k + 1)..(Len(s) + 1) : (c \o b)[j] = b[j - k]
  BY <1>2, <1>4, <1>5
<1>8. \A j \in (k + 1)..(Len(s) + 1) : b[j - k] = s[j - 1]
  <2>1. SUFFICES ASSUME NEW j \in (k + 1)..(Len(s) + 1) PROVE b[j - k] = s[j - 1]
    OBVIOUS
  <2>2. j - k \in 1..(Len(s) - k + 1) /\ k + (j - k) - 1 = j - 1
    OBVIOUS
  <2> QED
    BY <1>2, <2>2
<1> QED
  BY <1>1, <1>3, <1>4, <1>5, <1>6, <1>7, <1>8

(* Removing moves the elements after position k by one.                    *)
LEMMA RemoveAtElements ==
  ASSUME NEW S, NEW s \in Seq(S), NEW k \in 1..Len(s)
  PROVE  /\ RemoveAt(s, k) \in Seq(S)
         /\ Len(RemoveAt(s, k)) = Len(s) - 1
         /\ \A j \in 1..(Len(s) - 1) :
              RemoveAt(s, k)[j] = IF j < k THEN s[j] ELSE s[j + 1]
<1> DEFINE a == SubSeq(s, 1, k - 1)
           b == SubSeq(s, k + 1, Len(s))
<1>1. a \in Seq(S) /\ Len(a) = k - 1 /\ \A j \in 1..(k - 1) : a[j] = s[j]
  OBVIOUS
<1>2. b \in Seq(S) /\ Len(b) = Len(s) - k
      /\ \A j \in 1..(Len(s) - k) : b[j] = s[k + j]
  OBVIOUS
<1>3. RemoveAt(s, k) = a \o b
  BY DEF RemoveAt
<1> HIDE DEF a, b
<1>4. /\ (a \o b) \in Seq(S) /\ Len(a \o b) = Len(a) + Len(b)
      /\ \A j \in 1..Len(a) : (a \o b)[j] = a[j]
      /\ \A j \in (Len(a) + 1)..(Len(a) + Len(b)) : (a \o b)[j] = b[j - Len(a)]
  BY <1>1, <1>2, ConcatElements
<1>5. Len(a \o b) = Len(s) - 1 /\ \A j \in 1..(k - 1) : (a \o b)[j] = s[j]
  BY <1>1, <1>2, <1>4
<1>6. \A j \in k..(Len(s) - 1) : (a \o b)[j] = s[j + 1]
  <2>1. SUFFICES ASSUME NEW j \in k..(Len(s) - 1) PROVE (a \o b)[j] = s[j + 1]
    OBVIOUS
  <2>2. (a \o b)[j] = b[j - (k - 1)]
    BY <1>1, <1>2, <1>4
  <2>3. j - (k - 1) \in 1..(Len(s) - k) /\ k + (j - (k - 1)) = j + 1
    OBVIOUS
  <2> QED
    BY <1>2, <2>2, <2>3
<1> QED
  BY <1>3, <1>4, <1>5, <1>6

(* Every id in the STABLE list was given out: the next one is larger.      *)
IdsIssued(list, n) == \A k \in 1..Len(list) : list[k].id <= n

GoodList(list, n) ==
  /\ list \in Seq(Instance)
  /\ Sorted(list)
  /\ UniqueNames(list)
  /\ IdsIssued(list, n)

(* The inductive invariant: the types, the order of the list together with *)
(* the bound on its ids (which makes a new effect the most recent one),    *)
(* and that no command waits for a sleeping thread.                        *)
LedInv ==
  /\ TypeOK
  /\ GoodList(stable, calls)
  /\ PendingNeverSleeps

-----------------------------------------------------------------------------
(* Displaying an effect.                                                   *)

(* A fraction f/h of a channel is a channel.                               *)
LEMMA Fraction ==
  ASSUME NEW c \in 0..255, NEW h \in Nat \ {0}, NEW f \in 0..h
  PROVE  (c * f) \div h \in 0..255
<1> DEFINE q == (c * f) \div h
           r == (c * f) % h
<1>1. c * f \in Nat /\ c * f <= 255 * h
  <2>1. c * f >= 0 /\ c * f <= c * h
    OBVIOUS
  <2>2. c * h <= 255 * h
    OBVIOUS
  <2> QED
    BY <2>1, <2>2
<1>2. q \in Int /\ r \in 0..(h - 1) /\ c * f = h * q + r
  BY <1>1
<1> HIDE DEF q, r
<1>3. q >= 256 => h * q >= h * 256
  BY <1>2
<1>4. q <= -1 => h * q <= -h
  BY <1>2
<1>5. q < 256 /\ q > -1
  BY <1>1, <1>2, <1>3, <1>4
<1> QED
  BY <1>2, <1>5 DEF q

(* The triangle of a breath stays within half of its period.               *)
LEMMA FoldRange ==
  ASSUME NEW n \in Nat, n \div 2 # 0, NEW now \in 0..(n - 1)
  PROVE  Fold(now, n) \in 0..(n \div 2)
BY DEF Fold

(* Displaying an effect keeps its identity and the types.                  *)
LEMMA DisplayInstance ==
  ASSUME NEW i \in Instance, ~BreathUndefined(i.effect)
  PROVE  /\ Display(i) \in Instance
         /\ Display(i).id = i.id
         /\ Display(i).effect = i.effect
<1>1. i.effect \in EffectType /\ i.effect.period \in Int
  BY EffectsAssumption DEF Instance, EffectType
<1>2. \A j \in Instance, ms \in Int :
        j.effect = i.effect =>
          /\ AddTime(j, ms) \in Instance
          /\ AddTime(j, ms).id = j.id
          /\ AddTime(j, ms).effect = j.effect
  <2>1. SUFFICES ASSUME NEW j \in Instance, NEW ms \in Int, j.effect = i.effect
                 PROVE  /\ AddTime(j, ms) \in Instance
                        /\ AddTime(j, ms).id = j.id
                        /\ AddTime(j, ms).effect = j.effect
    OBVIOUS
  <2> DEFINE t == j.time + ms
             u == IF j.effect.timeout <= 0 \/ t < 0 THEN 0
                  ELSE IF t > j.effect.timeout THEN j.effect.timeout ELSE t
  <2>2. u \in Nat
    BY <1>1, <2>1 DEF EffectType, Instance
  <2>3. AddTime(j, ms) = [j EXCEPT !.time = u]
    BY DEF AddTime
  <2> HIDE DEF u
  <2> QED
    BY <2>2, <2>3 DEF Instance
<1>3. CASE i.effect.type = BLINK
  <2>1. led_effect_blink(i) \in Instance /\ led_effect_blink(i).id = i.id
        /\ led_effect_blink(i).effect = i.effect
    BY <1>1 DEF led_effect_blink, Instance, EffectType
  <2>2. Display(i) = AddTime(led_effect_blink(i), i.effect.period)
    BY <1>3 DEF Display, BLINK, BREATH
  <2> QED
    BY <1>1, <1>2, <2>1, <2>2
<1>4. CASE i.effect.type = BREATH
  <2> DEFINE n == timer_period_count(i.effect)
             now == i.count % n
             color == (i.effect.colors * Fold(now, n)) \div (n \div 2)
  <2>1. n \in Nat /\ n \div 2 # 0
    BY <1>1, <1>4, TimerAssumption DEF BreathUndefined, timer_period_count, EffectType
  <2>2. now \in 0..(n - 1)
    <3>1. i.count \in Nat /\ n \in Nat \ {0}
      BY <2>1 DEF Instance
    <3> HIDE DEF n
    <3> QED
      BY <3>1
  <2>3. i.effect.colors \in 0..255
    BY <1>1 DEF EffectType
  <2>4. led_effect_breath(i) = [i EXCEPT !.colors = color, !.count = now + 1]
    BY DEF led_effect_breath
  <2> HIDE DEF n, now
  <2>5. Fold(now, n) \in 0..(n \div 2) /\ n \div 2 \in Nat \ {0}
    BY <2>1, <2>2, FoldRange
  <2>6. color \in 0..255
    BY <2>3, <2>5, Fraction
  <2> HIDE DEF color
  <2> DEFINE next == now + 1
  <2>7. next \in Nat
    BY <2>1, <2>2
  <2> HIDE DEF next
  <2>8. led_effect_breath(i) = [i EXCEPT !.colors = color, !.count = next]
    BY <2>4 DEF next
  <2>9. led_effect_breath(i) \in Instance /\ led_effect_breath(i).id = i.id
        /\ led_effect_breath(i).effect = i.effect
    BY <2>6, <2>7, <2>8 DEF Instance
  <2>10. Display(i) = AddTime(led_effect_breath(i), TIMER_PERIOD)
    BY <1>4 DEF Display, BLINK, BREATH
  <2> QED
    BY <1>2, <2>9, <2>10, TimerAssumption
<1>5. CASE i.effect.type \notin {BLINK, BREATH}
  <2>1. Display(i) = AddTime(i, i.effect.period)
    BY <1>5 DEF Display
  <2> QED
    BY <1>1, <1>2, <2>1
<1> QED
  BY <1>3, <1>4, <1>5

-----------------------------------------------------------------------------
(* The STABLE list.                                                        *)

LEMMA InstanceFacts ==
  ASSUME NEW i \in Instance
  PROVE  i # NULL /\ i.id \in Nat /\ i.effect \in Effects
         /\ i.effect.priority \in Int
BY NullAssumption, EffectsAssumption DEF Instance, EffectType

(* Taking an element out of the list leaves it in order.                   *)
LEMMA RemoveAtGood ==
  ASSUME NEW n \in Nat, NEW s, GoodList(s, n), NEW k \in 1..Len(s)
  PROVE  GoodList(RemoveAt(s, k), n)
<1> DEFINE r == RemoveAt(s, k)
           old(j) == IF j < k THEN j ELSE j + 1
<1>1. s \in Seq(Instance)
  BY DEF GoodList
<1>2. r \in Seq(Instance) /\ Len(r) = Len(s) - 1
      /\ \A j \in 1..(Len(s) - 1) : r[j] = IF j < k THEN s[j] ELSE s[j + 1]
  BY <1>1, RemoveAtElements
<1>3. \A j \in 1..Len(r) : old(j) \in 1..Len(s) /\ r[j] = s[old(j)]
  BY <1>1, <1>2
<1>4. \A j, l \in 1..Len(r) : (j < l => old(j) < old(l)) /\ (old(j) = old(l) => j = l)
  BY <1>1, <1>2
<1> HIDE DEF old, r
<1>5. Sorted(r)
  BY <1>3, <1>4 DEF GoodList, Sorted
<1>6. UniqueNames(r)
  BY <1>3, <1>4 DEF GoodList, UniqueNames
<1>7. IdsIssued(r, n)
  BY <1>3 DEF GoodList, IdsIssued
<1> QED
  BY <1>2, <1>5, <1>6, <1>7 DEF GoodList, r

(* RemoveName takes the effect of that name out: none is left.             *)
LEMMA RemoveNameGood ==
  ASSUME NEW n \in Nat, NEW s, GoodList(s, n), NEW name
  PROVE  /\ GoodList(RemoveName(s, name), n)
         /\ \A j \in 1..Len(RemoveName(s, name)) :
              RemoveName(s, name)[j].effect.name # name
<1>1. CASE \E k \in 1..Len(s) : s[k].effect.name = name
  <2> DEFINE P(k) == /\ s[k].effect.name = name
                     /\ \A j \in 1..(k - 1) : s[j].effect.name # name
             c == CHOOSE k \in 1..Len(s) : P(k)
  <2>1. s \in Seq(Instance) /\ UniqueNames(s)
    BY DEF GoodList
  <2>2. PICK k \in 1..Len(s) : s[k].effect.name = name
    BY <1>1
  <2>3. P(k)
    BY <2>1, <2>2 DEF UniqueNames
  <2>4. c \in 1..Len(s) /\ P(c)
    BY <2>3
  <2>5. RemoveName(s, name) = RemoveAt(s, c)
    BY <1>1 DEF RemoveName
  <2> HIDE DEF c
  <2>6. Len(RemoveAt(s, c)) = Len(s) - 1
        /\ \A j \in 1..(Len(s) - 1) :
             RemoveAt(s, c)[j] = IF j < c THEN s[j] ELSE s[j + 1]
    BY <2>1, <2>4, RemoveAtElements
  <2>7. \A j \in 1..(Len(s) - 1) : RemoveAt(s, c)[j].effect.name # name
    BY <2>1, <2>4, <2>6 DEF UniqueNames
  <2> QED
    BY <2>4, <2>5, <2>6, <2>7, RemoveAtGood
<1>2. CASE ~\E k \in 1..Len(s) : s[k].effect.name = name
  BY <1>2 DEF RemoveName
<1> QED
  BY <1>1, <1>2

(* The loop of RK_set_led_effect that looks for the place finds one.       *)
LEMMA InsertPositionExists ==
  ASSUME NEW s \in Seq(Instance), NEW p \in Int
  PROVE  LET k == InsertPosition(s, p)
         IN  /\ k \in 1..(Len(s) + 1)
             /\ \A j \in 1..(k - 1) : s[j].effect.priority > p
             /\ k <= Len(s) => s[k].effect.priority <= p
<1> DEFINE T == {k \in 1..Len(s) : s[k].effect.priority <= p} \cup {Len(s) + 1}
           P(k) == /\ \A j \in 1..(k - 1) : s[j].effect.priority > p
                   /\ k <= Len(s) => s[k].effect.priority <= p
<1>1. T \in SUBSET Nat /\ T # {}
  OBVIOUS
<1>2. PICK m \in T : \A k \in T : m <= k
  <2> HIDE DEF T
  <2> QED
    BY <1>1, LeastNatural
<1>3. m \in 1..(Len(s) + 1) /\ (m <= Len(s) => s[m].effect.priority <= p)
  BY <1>2
<1>4. \A j \in 1..(m - 1) : s[j].effect.priority > p
  <2>1. SUFFICES ASSUME NEW j \in 1..(m - 1) PROVE s[j].effect.priority > p
    OBVIOUS
  <2>2. j \in 1..Len(s) /\ j \notin T
    BY <1>2, <1>3
  <2>3. s[j].effect.priority \in Int
    BY <2>2, InstanceFacts
  <2> QED
    BY <2>2, <2>3
<1>5. \E k \in 1..(Len(s) + 1) : P(k)
  BY <1>3, <1>4
<1>6. InsertPosition(s, p) = CHOOSE k \in 1..(Len(s) + 1) : P(k)
  BY DEF InsertPosition
<1> HIDE DEF P, T
<1>7. InsertPosition(s, p) \in 1..(Len(s) + 1) /\ P(InsertPosition(s, p))
  BY <1>5, <1>6
<1> QED
  BY <1>7 DEF P

(* A new effect, more recent than all others and of a new name, goes       *)
(* before the first effect that is not more important.                     *)
LEMMA InsertGood ==
  ASSUME NEW n \in Nat, NEW s, GoodList(s, n), NEW i \in Instance, i.id = n + 1,
         \A j \in 1..Len(s) : s[j].effect.name # i.effect.name
  PROVE  GoodList(InsertByPriority(s, i), n + 1)
<1> DEFINE k == InsertPosition(s, i.effect.priority)
           r == InsertAt(s, k, i)
           old(j) == IF j < k THEN j ELSE j - 1
<1>1. s \in Seq(Instance) /\ i.effect.priority \in Int
  BY InstanceFacts DEF GoodList
<1>2. /\ k \in 1..(Len(s) + 1)
      /\ \A j \in 1..(k - 1) : s[j].effect.priority > i.effect.priority
      /\ k <= Len(s) => s[k].effect.priority <= i.effect.priority
  BY <1>1, InsertPositionExists
<1>3. InsertByPriority(s, i) = r
  BY DEF InsertByPriority
<1> HIDE DEF k
<1>4. r \in Seq(Instance) /\ Len(r) = Len(s) + 1
      /\ \A j \in 1..(Len(s) + 1) :
           r[j] = IF j < k THEN s[j] ELSE IF j = k THEN i ELSE s[j - 1]
  BY <1>1, <1>2, InsertAtElements
<1> HIDE DEF r
<1>5. r[k] = i /\ k \in 1..Len(r)
  BY <1>2, <1>4
<1>6. \A j \in 1..Len(r) : j # k => old(j) \in 1..Len(s) /\ r[j] = s[old(j)]
  BY <1>1, <1>2, <1>4
<1>7. \A j, l \in 1..Len(r) :
        j # k /\ l # k => (j < l => old(j) < old(l)) /\ (old(j) = old(l) => j = l)
  BY <1>2, <1>4
<1>8. \A j \in 1..Len(s) : s[j].id \in Nat /\ s[j].effect.priority \in Int
                           /\ s[j].id <= n
  BY <1>1, InstanceFacts DEF GoodList, IdsIssued
<1>9. \A j \in 1..Len(s) : k <= j => s[j].effect.priority <= i.effect.priority
  <2>1. SUFFICES ASSUME NEW j \in 1..Len(s), k <= j
                 PROVE  s[j].effect.priority <= i.effect.priority
    OBVIOUS
  <2>2. CASE j = k
    BY <1>2, <2>1, <2>2
  <2>3. CASE k < j
    <3>1. k \in 1..Len(s) /\ s[k].effect.priority <= i.effect.priority
      BY <1>2, <2>1, <2>3
    <3>2. \/ s[k].effect.priority > s[j].effect.priority
          \/ s[k].effect.priority = s[j].effect.priority
      BY <2>3, <3>1 DEF GoodList, Sorted
    <3> QED
      BY <1>1, <1>8, <3>1, <3>2
  <2> QED
    BY <1>2, <2>1, <2>2, <2>3
<1>10. Sorted(r)
  <2>1. SUFFICES ASSUME NEW j \in 1..Len(r), NEW l \in 1..Len(r), j < l
                 PROVE  \/ r[j].effect.priority > r[l].effect.priority
                        \/ /\ r[j].effect.priority = r[l].effect.priority
                           /\ r[j].id > r[l].id
    BY DEF Sorted
  <2>2. CASE j # k /\ l # k
    <3>1. /\ old(j) \in 1..Len(s) /\ r[j] = s[old(j)]
          /\ old(l) \in 1..Len(s) /\ r[l] = s[old(l)]
          /\ old(j) < old(l)
      BY <1>6, <1>7, <2>1, <2>2
    <3> HIDE DEF old
    <3> QED
      BY <3>1 DEF GoodList, Sorted
  <2>3. CASE l = k
    <3>1. j < k /\ r[j] = s[j] /\ j \in 1..(k - 1)
      BY <1>2, <1>4, <2>1, <2>3
    <3> QED
      BY <1>2, <1>5, <2>3, <3>1
  <2>4. CASE j = k
    <3>1. r[l] = s[l - 1] /\ l - 1 \in 1..Len(s) /\ k <= l - 1
      BY <1>2, <1>4, <2>1, <2>4
    <3>2. s[l - 1].effect.priority <= i.effect.priority /\ s[l - 1].id <= n
          /\ s[l - 1].id \in Nat /\ s[l - 1].effect.priority \in Int
      BY <1>8, <1>9, <3>1
    <3>3. r[j] = i
      BY <1>5, <2>4
    <3> QED
      BY <1>1, <3>1, <3>2, <3>3
  <2> QED
    BY <2>2, <2>3, <2>4
<1> HIDE DEF old
<1>11. UniqueNames(r)
  <2>1. SUFFICES ASSUME NEW j \in 1..Len(r), NEW l \in 1..Len(r),
                        r[j].effect.name = r[l].effect.name
                 PROVE  j = l
    BY DEF UniqueNames
  <2>2. CASE j # k /\ l # k
    BY <1>6, <1>7, <2>1, <2>2 DEF GoodList, UniqueNames
  <2>3. CASE j = k \/ l = k
    BY <1>5, <1>6, <2>1, <2>3
  <2> QED
    BY <2>2, <2>3
<1>12. IdsIssued(r, n + 1)
  <2>1. SUFFICES ASSUME NEW j \in 1..Len(r) PROVE r[j].id <= n + 1
    BY DEF IdsIssued
  <2>2. CASE j = k
    BY <1>5, <2>2
  <2>3. CASE j # k
    BY <1>6, <1>8, <2>3
  <2> QED
    BY <2>2, <2>3
<1> QED
  BY <1>3, <1>4, <1>10, <1>11, <1>12 DEF GoodList

(* What led_effect_task does to the list: the expired head goes, the new   *)
(* head is displayed.                                                      *)
LEMMA TailGood ==
  ASSUME NEW n \in Nat, NEW s, GoodList(s, n), s # <<>>
  PROVE  GoodList(Tail(s), n)
<1>1. s \in Seq(Instance)
  BY DEF GoodList
<1>2. Tail(s) \in Seq(Instance) /\ Len(Tail(s)) = Len(s) - 1
      /\ \A j \in 1..(Len(s) - 1) : Tail(s)[j] = s[j + 1]
  BY <1>1
<1>3. \A j \in 1..Len(Tail(s)) : j + 1 \in 1..Len(s) /\ Tail(s)[j] = s[j + 1]
  BY <1>1, <1>2
<1>4. Sorted(Tail(s))
  BY <1>2, <1>3 DEF GoodList, Sorted
<1>5. UniqueNames(Tail(s))
  BY <1>2, <1>3 DEF GoodList, UniqueNames
<1>6. IdsIssued(Tail(s), n)
  BY <1>2, <1>3 DEF GoodList, IdsIssued
<1> QED
  BY <1>2, <1>4, <1>5, <1>6 DEF GoodList

LEMMA ReplaceHeadGood ==
  ASSUME NEW n \in Nat, NEW s, GoodList(s, n), s # <<>>,
         NEW i \in Instance, i.id = s[1].id, i.effect = s[1].effect
  PROVE  GoodList(ReplaceAt(s, 1, i), n)
<1> DEFINE r == ReplaceAt(s, 1, i)
<1>1. s \in Seq(Instance) /\ 1 \in 1..Len(s)
  BY DEF GoodList
<1>2. r \in Seq(Instance) /\ Len(r) = Len(s)
      /\ \A j \in 1..Len(s) : r[j] = IF j = 1 THEN i ELSE s[j]
  BY <1>1 DEF ReplaceAt
<1>3. \A j \in 1..Len(s) : r[j].id = s[j].id /\ r[j].effect = s[j].effect
  BY <1>1, <1>2
<1> HIDE DEF r
<1>4. Sorted(r)
  BY <1>2, <1>3 DEF GoodList, Sorted
<1>5. UniqueNames(r)
  BY <1>2, <1>3 DEF GoodList, UniqueNames
<1>6. IdsIssued(r, n)
  BY <1>2, <1>3 DEF GoodList, IdsIssued
<1> QED
  BY <1>2, <1>4, <1>5, <1>6 DEF GoodList, r
-----------------------------------------------------------------------------
(* The steps.                                                              *)

LEMMA WriteType ==
  ASSUME TypeOK, NEW color \in 0..255, RK_set_all_led_status(color)
  PROVE  status' \in {-1, 0, 1} /\ lit' \in 0..255
BY DEF TypeOK, RK_set_all_led_status

LEMMA OffType ==
  ASSUME TypeOK, RK_set_all_led_off
  PROVE  status' \in {-1, 0, 1} /\ lit' \in 0..255
<1>1. 0 \in 0..255 /\ RK_set_all_led_status(0)
  BY DEF RK_set_all_led_off
<1> QED
  BY <1>1, WriteType

(* RK_set_led_effect keeps the invariant: the new effect goes to its place *)
(* and the thread is awake to see it.                                      *)
LEMMA SetStep ==
  ASSUME LedInv, NEW e \in Effects, RK_set_led_effect(e)
  PROVE  LedInv'
<1> DEFINE ins == [id |-> calls + 1, effect |-> e, time |-> 0,
                   colors |-> e.colors, count |-> 0]
<1>1. calls \in Nat /\ calls' = calls + 1 /\ GoodList(stable, calls)
  BY DEF LedInv, TypeOK, RK_set_led_effect, Call
<1>2. ins \in Instance /\ ins.id = calls + 1 /\ ins.effect = e
  BY <1>1, EffectsAssumption DEF Instance, EffectType
<1>3. led_thread' \in ThreadStates \ Blocked
  BY DEF LedInv, TypeOK, RK_set_led_effect, check_moudle_init, signal,
         ThreadStates, Blocked
<1>4. e.layer \in Layers
  BY EffectsAssumption DEF EffectType
<1>5. /\ color_last' = color_last /\ status' = status
      /\ lit' = lit /\ shown' = shown
  BY DEF RK_set_led_effect
<1>6. \A list : GoodList(list, calls) => GoodList(list, calls + 1)
  <2>1. SUFFICES ASSUME NEW list, GoodList(list, calls)
                 PROVE  IdsIssued(list, calls + 1)
    BY DEF GoodList
  <2>2. \A k \in 1..Len(list) : list[k].id \in Nat /\ list[k].id <= calls
    BY <2>1, InstanceFacts DEF GoodList, IdsIssued
  <2> QED
    BY <1>1, <2>2 DEF IdsIssued
<1>7. CASE e.layer = STABLE
  <2> DEFINE rest == RemoveName(stable, e.name)
  <2>1. stable' = InsertByPriority(rest, ins) /\ new_command_reached' = 0
        /\ temp' = temp /\ realtime' = realtime
    BY <1>7 DEF RK_set_led_effect, STABLE, REALTIME, TEMP
  <2>2. GoodList(rest, calls) /\ \A j \in 1..Len(rest) : rest[j].effect.name # e.name
    BY <1>1, RemoveNameGood
  <2> HIDE DEF rest, ins
  <2>3. GoodList(stable', calls')
    BY <1>1, <1>2, <2>1, <2>2, InsertGood
  <2> QED
    BY <1>1, <1>3, <1>5, <2>1, <2>3 DEF LedInv, TypeOK, GoodList, PendingNeverSleeps
<1>8. CASE e.layer = REALTIME
  <2>1. stable' = stable /\ new_command_reached' = 1
        /\ temp' = temp /\ realtime' = ins
    BY <1>8 DEF RK_set_led_effect, STABLE, REALTIME, TEMP
  <2> HIDE DEF ins
  <2>2. GoodList(stable', calls')
    BY <1>1, <1>6, <2>1
  <2> QED
    BY <1>1, <1>2, <1>3, <1>5, <2>1, <2>2 DEF LedInv, TypeOK, GoodList, PendingNeverSleeps
<1>9. CASE e.layer = TEMP
  <2>1. stable' = stable /\ new_command_reached' = 2
        /\ temp' = ins /\ realtime' = realtime
    BY <1>9 DEF RK_set_led_effect, STABLE, REALTIME, TEMP
  <2> HIDE DEF ins
  <2>2. GoodList(stable', calls')
    BY <1>1, <1>6, <2>1
  <2> QED
    BY <1>1, <1>2, <1>3, <1>5, <2>1, <2>2 DEF LedInv, TypeOK, GoodList, PendingNeverSleeps
<1> QED
  BY <1>4, <1>7, <1>8, <1>9 DEF Layers

(* More calls never make the list worse.                                   *)
LEMMA GoodListLater ==
  ASSUME NEW n \in Nat, NEW list, GoodList(list, n)
  PROVE  GoodList(list, n + 1)
<1>1. \A k \in 1..Len(list) : list[k].id \in Nat /\ list[k].id <= n
  BY InstanceFacts DEF GoodList, IdsIssued
<1> QED
  BY <1>1 DEF GoodList, IdsIssued

(* The other calls keep it.                                                *)
LEMMA OffStep ==
  ASSUME LedInv, NEW layer \in Layers, NEW name \in Names,
         RK_set_led_effect_off(layer, name)
  PROVE  LedInv'
<1>1. calls \in Nat /\ calls' = calls + 1 /\ GoodList(stable, calls)
  BY DEF LedInv, TypeOK, RK_set_led_effect_off, Call
<1>2. GoodList(RemoveName(stable, name), calls)
  BY <1>1, RemoveNameGood
<1>3. GoodList(stable', calls')
  BY <1>1, <1>2, GoodListLater DEF RK_set_led_effect_off
<1>4. status' \in {-1, 0, 1} /\ lit' \in 0..255
  <2>1. CASE RK_set_all_led_off
    BY <2>1, OffType DEF LedInv
  <2>2. CASE UNCHANGED <<status, lit>>
    BY <2>2 DEF LedInv, TypeOK
  <2> QED
    BY <2>1, <2>2 DEF RK_set_led_effect_off
<1>5. temp' \in Instance \cup {NULL} /\ realtime' \in Instance \cup {NULL}
  BY DEF LedInv, TypeOK, RK_set_led_effect_off
<1>6. led_thread' \in ThreadStates /\ PendingNeverSleeps'
      /\ new_command_reached' = new_command_reached
      /\ color_last' = color_last /\ shown' = shown
  BY DEF LedInv, TypeOK, RK_set_led_effect_off, signal, ThreadStates, Blocked,
         PendingNeverSleeps
<1> QED
  BY <1>1, <1>3, <1>4, <1>5, <1>6 DEF LedInv, TypeOK, GoodList

LEMMA AllOffStep ==
  ASSUME LedInv, RK_set_all_led_effect_off
  PROVE  LedInv'
<1>1. calls' \in Nat
  BY DEF LedInv, TypeOK, RK_set_all_led_effect_off, Call
<1>2. stable' = <<>> /\ GoodList(<<>>, calls')
  BY DEF RK_set_all_led_effect_off, GoodList, Sorted, UniqueNames, IdsIssued
<1>3. led_thread' \in ThreadStates /\ PendingNeverSleeps'
  BY DEF LedInv, TypeOK, RK_set_all_led_effect_off, signal, ThreadStates, Blocked,
         PendingNeverSleeps
<1> QED
  BY <1>1, <1>2, <1>3 DEF LedInv, TypeOK, RK_set_all_led_effect_off, GoodList

LEMMA DeviceStep ==
  ASSUME LedInv,
         (\E color \in DirectColors : DirectWrite(color)) \/ RK_led_init \/ RK_led_exit
  PROVE  LedInv'
<1>1. calls \in Nat /\ calls' = calls + 1 /\ GoodList(stable, calls)
      /\ UNCHANGED <<temp, realtime, stable, new_command_reached, led_thread,
                     color_last, shown>>
  BY DEF LedInv, TypeOK, DirectWrite, RK_led_init, RK_led_exit, Call
<1>2. GoodList(stable', calls')
  BY <1>1, GoodListLater
<1>3. status' \in {-1, 0, 1} /\ lit' \in 0..255
  <2>1. CASE \E color \in DirectColors : DirectWrite(color)
    BY <2>1, ColorAssumption, WriteType DEF LedInv, DirectWrite
  <2>2. CASE RK_led_init \/ RK_led_exit
    BY <2>2 DEF LedInv, TypeOK, RK_led_init, RK_led_exit
  <2> QED
    BY <2>1, <2>2
<1> QED
  BY <1>1, <1>2, <1>3 DEF LedInv, TypeOK, PendingNeverSleeps, GoodList

(* led_effect_task drops expired effects and displays the topmost one.     *)
LEMMA TaskStep ==
  ASSUME LedInv, led_effect_task
  PROVE  LedInv'
<1> DEFINE t == Unexpired(temp)
           r == IF t = NULL THEN Unexpired(realtime) ELSE realtime
           s == IF t = NULL /\ r = NULL THEN UnexpiredList ELSE stable
           top == IF t # NULL THEN t ELSE IF r # NULL THEN r
                  ELSE IF s # <<>> THEN s[1] ELSE NULL
<1>1. t \in Instance \cup {NULL} /\ r \in Instance \cup {NULL}
  BY DEF LedInv, TypeOK, Unexpired
<1>2. GoodList(s, calls) /\ calls \in Nat
  BY TailGood DEF LedInv, TypeOK, UnexpiredList
<1>3. s # <<>> => s[1] \in Instance
  BY <1>2 DEF GoodList
<1>4. top \in Instance \cup {NULL}
  BY <1>1, <1>3
<1>5. CASE top # NULL /\ BreathUndefined(top.effect)
  <2>1. led_thread' = "undefined"
        /\ UNCHANGED <<temp, realtime, stable, new_command_reached, color_last,
                       status, lit, shown, calls>>
    BY <1>5 DEF led_effect_task
  <2> QED
    BY <2>1 DEF LedInv, TypeOK, ThreadStates, PendingNeverSleeps, Blocked, GoodList
<1>6. CASE ~(top # NULL /\ BreathUndefined(top.effect))
  <2>1. /\ temp' = IF t = NULL THEN NULL ELSE Display(t)
        /\ realtime' = IF t = NULL /\ r # NULL THEN Display(r) ELSE r
        /\ stable' = IF t = NULL /\ r = NULL /\ s # <<>>
                     THEN ReplaceAt(s, 1, Display(s[1])) ELSE s
        /\ shown' = IF top = NULL THEN 0 ELSE top.id
        /\ led_thread' = "wait"
        /\ new_command_reached' = new_command_reached
        /\ calls' = calls
    BY <1>6 DEF led_effect_task
  <2>2. IF top = NULL THEN RK_set_all_led_off /\ UNCHANGED color_last
                      ELSE led_write(Display(top).colors)
    BY <1>6 DEF led_effect_task
  <2> HIDE DEF t, s
  <2>3. temp' \in Instance \cup {NULL}
    BY <1>1, <1>6, <2>1, DisplayInstance
  <2>4. realtime' \in Instance \cup {NULL}
    BY <1>1, <1>6, <2>1, DisplayInstance
  <2> HIDE DEF r
  <2>5. GoodList(stable', calls')
    <3>1. CASE t = NULL /\ r = NULL /\ s # <<>>
      <4>1. s[1] \in Instance /\ ~BreathUndefined(s[1].effect)
        BY <1>3, <1>6, <3>1, InstanceFacts
      <4>2. Display(s[1]) \in Instance /\ Display(s[1]).id = s[1].id
            /\ Display(s[1]).effect = s[1].effect
        BY <4>1, DisplayInstance
      <4> QED
        BY <1>2, <2>1, <3>1, <4>2, ReplaceHeadGood
    <3>2. CASE ~(t = NULL /\ r = NULL /\ s # <<>>)
      BY <1>2, <2>1, <3>2
    <3> QED
      BY <3>1, <3>2
  <2> HIDE DEF top
  <2>6. status' \in {-1, 0, 1} /\ lit' \in 0..255 /\ color_last' \in -1..255
    <3>1. CASE top = NULL
      <4>1. RK_set_all_led_off /\ color_last' = color_last
        BY <2>2, <3>1
      <4>2. status' \in {-1, 0, 1} /\ lit' \in 0..255
        BY <4>1, OffType DEF LedInv
      <4> QED
        BY <4>1, <4>2 DEF LedInv, TypeOK
    <3>2. CASE top # NULL
      <4>1. Display(top).colors \in 0..255
        BY <1>4, <1>6, <3>2, DisplayInstance DEF Instance
      <4>2. led_write(Display(top).colors)
        BY <2>2, <3>2
      <4> DEFINE color == Display(top).colors
      <4> HIDE DEF color
      <4>3. color \in 0..255 /\ led_write(color)
        BY <4>1, <4>2 DEF color
      <4>4. color_last' \in -1..255
        BY <4>3 DEF led_write
      <4>5. CASE color = color_last
        BY <4>3, <4>4, <4>5 DEF LedInv, TypeOK, led_write
      <4>6. CASE color # color_last
        <5>1. RK_set_all_led_status(color)
          BY <4>3, <4>6 DEF led_write
        <5> QED
          BY <4>3, <4>4, <5>1, WriteType DEF LedInv
      <4> QED
        BY <4>5, <4>6
    <3> QED
      BY <3>1, <3>2
  <2>7. shown' \in Nat
    BY <1>4, <2>1, InstanceFacts
  <2> QED
    BY <1>2, <2>1, <2>3, <2>4, <2>5, <2>6, <2>7
       DEF LedInv, TypeOK, ThreadStates, PendingNeverSleeps, Blocked, GoodList
<1> QED
  BY <1>5, <1>6

-----------------------------------------------------------------------------
(* The theorems.                                                           *)

(* The inductive invariant.                                                *)
THEOREM LedInvariant == Spec => []LedInv
<1>1. Init => LedInv
  <2>1. <<>> \in Seq(Instance) /\ Len(<<>>) = 0
    OBVIOUS
  <2> QED
    BY <2>1 DEF Init, LedInv, TypeOK, GoodList, Sorted, UniqueNames, IdsIssued,
       PendingNeverSleeps, ThreadStates, Blocked
<1>2. LedInv /\ [Next]_vars => LedInv'
  <2>1. SUFFICES ASSUME LedInv, [Next]_vars PROVE LedInv'
    OBVIOUS
  <2>2. CASE Client
    BY <2>1, <2>2, SetStep, OffStep, AllOffStep, DeviceStep DEF Client
  <2>3. CASE led_wait_new_command
    BY <2>1, <2>3 DEF LedInv, TypeOK, led_wait_new_command, WaitKind, ThreadStates,
       Blocked, PendingNeverSleeps, GoodList
  <2>4. CASE WaitTimeout \/ SpuriousWakeup \/ WokenUp
    <3>1. /\ led_thread' \in {"woken", "handle", "task"}
          /\ UNCHANGED <<temp, realtime, stable, new_command_reached, color_last,
                         status, lit, shown, calls>>
      BY <2>4 DEF WaitTimeout, SpuriousWakeup, WokenUp
    <3>2. led_thread' \in ThreadStates \ Blocked
      BY <3>1 DEF ThreadStates, Blocked
    <3> QED
      BY <2>1, <3>1, <3>2 DEF LedInv, TypeOK, PendingNeverSleeps, GoodList
  <2>5. CASE led_handle_new_command
    BY <2>1, <2>5 DEF LedInv, TypeOK, led_handle_new_command, ThreadStates, Blocked,
       PendingNeverSleeps, GoodList
  <2>6. CASE led_effect_task
    BY <2>1, <2>6, TaskStep
  <2>7. CASE UNCHANGED vars
    BY <2>1, <2>7 DEF LedInv, TypeOK, vars, PendingNeverSleeps, GoodList
  <2> QED
    BY <2>1, <2>2, <2>3, <2>4, <2>5, <2>6, <2>7 DEF Next, Thread
<1> QED
  BY <1>1, <1>2, PTL DEF Spec

(* The types of Led hold: in particular no breathing colour ever leaves    *)
(* the range of its channel.                                               *)
THEOREM TypeCorrect == Spec => []TypeOK
<1>1. LedInv => TypeOK
  BY DEF LedInv
<1> QED
  BY <1>1, LedInvariant, PTL

(* The STABLE list is always in order of priority and recency.             *)
THEOREM AlwaysSorted == Spec => []StableSorted
<1>1. LedInv => StableSorted
  BY DEF LedInv, GoodList, StableSorted
<1> QED
  BY <1>1, LedInvariant, PTL

(* No name is twice in the STABLE list.                                    *)
THEOREM AlwaysUnique == Spec => []StableNamesUnique
<1>1. LedInv => StableNamesUnique
  BY DEF LedInv, GoodList, StableNamesUnique
<1> QED
  BY <1>1, LedInvariant, PTL

(* No command of RK_set_led_effect is ever slept over.                     *)
THEOREM NoCommandSleptOver == Spec => []PendingNeverSleeps
<1>1. LedInv => PendingNeverSleeps
  BY DEF LedInv
<1> QED
  BY <1>1, LedInvariant, PTL

-----------------------------------------------------------------------------
(* The topmost effect.                                                     *)

(* Every effect is in its layer and was set by a call that was counted.    *)
InPlace ==
  /\ temp # NULL => temp.effect.layer = TEMP /\ temp.id <= calls
  /\ realtime # NULL => realtime.effect.layer = REALTIME /\ realtime.id <= calls
  /\ \A k \in 1..Len(stable) : stable[k].effect.layer = STABLE
  /\ calls <= MaxCalls

(* While the newest effect is on top and not displayed, led_effect_task is *)
(* still to come, by the command or because the thread is there.           *)
NewestAwaited ==
  Top # NULL /\ Top.id = calls /\ shown # Top.id
    => new_command_reached >= 0 \/ led_thread \in {"task", "undefined"}

(* Everything in a list that was made of another one comes from there.     *)
LEMMA RemoveNameFrom ==
  ASSUME NEW n \in Nat, NEW s, GoodList(s, n), NEW name
  PROVE  \A j \in 1..Len(RemoveName(s, name)) :
           \E k \in 1..Len(s) : RemoveName(s, name)[j] = s[k]
<1>1. s \in Seq(Instance)
  BY DEF GoodList
<1>2. CASE \E k \in 1..Len(s) : s[k].effect.name = name
  <2> DEFINE P(k) == /\ s[k].effect.name = name
                     /\ \A j \in 1..(k - 1) : s[j].effect.name # name
             c == CHOOSE k \in 1..Len(s) : P(k)
  <2>1. PICK k \in 1..Len(s) : s[k].effect.name = name
    BY <1>2
  <2>2. P(k)
    BY <1>1, <2>1 DEF GoodList, UniqueNames
  <2>3. c \in 1..Len(s)
    BY <2>2
  <2>4. RemoveName(s, name) = RemoveAt(s, c)
    BY <1>2 DEF RemoveName
  <2> HIDE DEF c
  <2>5. Len(RemoveAt(s, c)) = Len(s) - 1
        /\ \A j \in 1..(Len(s) - 1) :
             RemoveAt(s, c)[j] = IF j < c THEN s[j] ELSE s[j + 1]
    BY <1>1, <2>3, RemoveAtElements
  <2>6. ASSUME NEW j \in 1..(Len(s) - 1)
        PROVE  \E l \in 1..Len(s) : RemoveAt(s, c)[j] = s[l]
    <3>1. j \in 1..Len(s) /\ j + 1 \in 1..Len(s)
      BY <1>1
    <3> QED
      BY <2>5, <3>1
  <2> QED
    BY <2>4, <2>5, <2>6
<1>3. CASE ~\E k \in 1..Len(s) : s[k].effect.name = name
  BY <1>3 DEF RemoveName
<1> QED
  BY <1>2, <1>3

LEMMA InsertFrom ==
  ASSUME NEW s \in Seq(Instance), NEW i \in Instance
  PROVE  /\ \A j \in 1..Len(InsertByPriority(s, i)) :
              \/ InsertByPriority(s, i)[j] = i
              \/ \E k \in 1..Len(s) : InsertByPriority(s, i)[j] = s[k]
         /\ \E j \in 1..Len(InsertByPriority(s, i)) : InsertByPriority(s, i)[j] = i
         /\ \A k \in 1..Len(s) :
              \E j \in 1..Len(InsertByPriority(s, i)) : InsertByPriority(s, i)[j] = s[k]
<1> DEFINE p == InsertPosition(s, i.effect.priority)
           r == InsertAt(s, p, i)
<1>1. p \in 1..(Len(s) + 1) /\ InsertByPriority(s, i) = r
  BY InstanceFacts, InsertPositionExists DEF InsertByPriority
<1> HIDE DEF p
<1>2. Len(r) = Len(s) + 1
      /\ \A j \in 1..(Len(s) + 1) :
           r[j] = IF j < p THEN s[j] ELSE IF j = p THEN i ELSE s[j - 1]
  BY <1>1, InsertAtElements
<1> HIDE DEF r
<1>3. ASSUME NEW j \in 1..Len(r) PROVE r[j] = i \/ \E k \in 1..Len(s) : r[j] = s[k]
  <2>1. j < p => j \in 1..Len(s)
    BY <1>1, <1>2
  <2>2. j > p => j - 1 \in 1..Len(s)
    BY <1>1, <1>2
  <2> QED
    BY <1>1, <1>2, <2>1, <2>2
<1>4. ASSUME NEW k \in 1..Len(s) PROVE \E j \in 1..Len(r) : r[j] = s[k]
  <2>1. k < p => k \in 1..Len(r) /\ r[k] = s[k]
    BY <1>1, <1>2
  <2>2. k >= p => k + 1 \in 1..Len(r) /\ r[k + 1] = s[k]
    BY <1>1, <1>2
  <2> QED
    BY <1>1, <2>1, <2>2
<1>5. p \in 1..Len(r) /\ r[p] = i
  BY <1>1, <1>2
<1> QED
  BY <1>1, <1>3, <1>4, <1>5

(* What led_effect_task leaves: the layers without what has expired, and   *)
(* the topmost of them, displayed.                                         *)
LeftTemp == Unexpired(temp)
LeftRealtime == IF LeftTemp = NULL THEN Unexpired(realtime) ELSE realtime
LeftStable == IF LeftTemp = NULL /\ LeftRealtime = NULL THEN UnexpiredList ELSE stable
LeftTop == IF LeftTemp # NULL THEN LeftTemp
           ELSE IF LeftRealtime # NULL THEN LeftRealtime
           ELSE IF LeftStable # <<>> THEN LeftStable[1] ELSE NULL

LEMMA LeftFacts ==
  ASSUME LedInv
  PROVE  /\ LeftTemp \in {temp, NULL} /\ LeftRealtime \in {realtime, NULL}
         /\ LeftTemp \in Instance \cup {NULL} /\ LeftRealtime \in Instance \cup {NULL}
         /\ GoodList(LeftStable, calls) /\ LeftStable \in Seq(Instance)
         /\ LeftStable # <<>> => LeftStable[1] \in Instance
         /\ LeftTop \in Instance \cup {NULL}
<1>1. /\ LeftTemp \in {temp, NULL} /\ LeftRealtime \in {realtime, NULL}
      /\ LeftTemp \in Instance \cup {NULL} /\ LeftRealtime \in Instance \cup {NULL}
  BY DEF LedInv, TypeOK, LeftTemp, LeftRealtime, Unexpired
<1>2. GoodList(LeftStable, calls)
  BY TailGood DEF LedInv, TypeOK, LeftStable, UnexpiredList
<1>3. LeftStable \in Seq(Instance)
  BY <1>2 DEF GoodList
<1>4. LeftStable # <<>> => LeftStable[1] \in Instance
  BY <1>3
<1> QED
  BY <1>1, <1>2, <1>3, <1>4 DEF LeftTop

LEMMA TaskLeaves ==
  ASSUME LedInv, led_effect_task
  PROVE  \/ /\ LeftTop # NULL /\ BreathUndefined(LeftTop.effect)
            /\ led_thread' = "undefined"
            /\ UNCHANGED <<temp, realtime, stable, shown, new_command_reached, calls>>
         \/ /\ LeftTop # NULL => ~BreathUndefined(LeftTop.effect)
            /\ temp' = IF LeftTemp = NULL THEN NULL ELSE Display(LeftTemp)
            /\ realtime' = IF LeftTemp = NULL /\ LeftRealtime # NULL
                           THEN Display(LeftRealtime) ELSE LeftRealtime
            /\ stable' = IF LeftTemp = NULL /\ LeftRealtime = NULL /\ LeftStable # <<>>
                         THEN ReplaceAt(LeftStable, 1, Display(LeftStable[1]))
                         ELSE LeftStable
            /\ shown' = IF LeftTop = NULL THEN 0 ELSE LeftTop.id
            /\ led_thread' = "wait"
            /\ UNCHANGED <<new_command_reached, calls>>
BY DEF led_effect_task, LeftTemp, LeftRealtime, LeftStable, LeftTop

LEMMA InPlaceStep ==
  ASSUME LedInv, InPlace, [Next]_vars
  PROVE  InPlace'
<1>0. /\ calls \in Nat /\ stable \in Seq(Instance) /\ GoodList(stable, calls)
      /\ temp \in Instance \cup {NULL} /\ realtime \in Instance \cup {NULL}
      /\ temp # NULL => temp.id \in Nat
      /\ realtime # NULL => realtime.id \in Nat
  BY InstanceFacts DEF LedInv, TypeOK
<1>1. ASSUME NEW e \in Effects, RK_set_led_effect(e) PROVE InPlace'
  <2> DEFINE ins == [id |-> calls + 1, effect |-> e, time |-> 0,
                     colors |-> e.colors, count |-> 0]
             rest == RemoveName(stable, e.name)
  <2>1. /\ e.layer \in {STABLE, REALTIME, TEMP} /\ ins \in Instance /\ ins.effect = e
        /\ ins.id = calls + 1
        /\ calls < MaxCalls /\ calls' = calls + 1 /\ calls' <= MaxCalls
    BY <1>0, <1>1, EffectsAssumption, CallsAssumption
       DEF RK_set_led_effect, Call, EffectType, Layers, Instance
  <2>2. /\ stable' = IF e.layer = STABLE THEN InsertByPriority(rest, ins) ELSE stable
        /\ realtime' = IF e.layer = REALTIME THEN ins ELSE realtime
        /\ temp' = IF e.layer = TEMP THEN ins ELSE temp
    BY <1>1, <2>1 DEF RK_set_led_effect, STABLE, REALTIME, TEMP
  <2>g. /\ GoodList(rest, calls)
        /\ \A j \in 1..Len(rest) : \E k \in 1..Len(stable) : rest[j] = stable[k]
    BY <1>0, RemoveNameGood, RemoveNameFrom
  <2> HIDE DEF ins, rest
  <2>3. rest \in Seq(Instance)
        /\ \A j \in 1..Len(rest) : \E k \in 1..Len(stable) : rest[j] = stable[k]
    BY <2>g DEF GoodList
  <2>4. CASE e.layer = STABLE
    <3>1. \A j \in 1..Len(stable') :
            stable'[j] = ins \/ \E k \in 1..Len(rest) : stable'[j] = rest[k]
      BY <2>1, <2>2, <2>3, <2>4, InsertFrom
    <3>2. \A j \in 1..Len(stable') : stable'[j].effect.layer = STABLE
      BY <2>1, <2>3, <2>4, <3>1 DEF InPlace
    <3> QED
      BY <1>0, <2>1, <2>2, <2>4, <3>2 DEF InPlace, STABLE, REALTIME, TEMP
  <2>5. CASE e.layer # STABLE
    BY <1>0, <2>1, <2>2, <2>5 DEF InPlace
  <2> QED
    BY <2>4, <2>5
<1>2. ASSUME NEW layer \in Layers, NEW name \in Names, RK_set_led_effect_off(layer, name)
      PROVE  InPlace'
  <2>1. /\ calls' = calls + 1 /\ calls' <= MaxCalls
        /\ temp' \in {temp, NULL} /\ realtime' \in {realtime, NULL}
        /\ stable' = RemoveName(stable, name) \/ stable' = stable
    BY <1>0, <1>2, CallsAssumption DEF RK_set_led_effect_off, Call
  <2>2. \A j \in 1..Len(stable') : \E k \in 1..Len(stable) : stable'[j] = stable[k]
    BY <1>0, <2>1, RemoveNameFrom
  <2> QED
    BY <1>0, <2>1, <2>2 DEF InPlace
<1>3. CASE RK_set_all_led_effect_off
  BY <1>0, <1>3, CallsAssumption DEF RK_set_all_led_effect_off, Call, InPlace
<1>4. CASE (\E color \in DirectColors : DirectWrite(color)) \/ RK_led_init \/ RK_led_exit
  <2>1. calls < MaxCalls /\ calls' = calls + 1 /\ UNCHANGED <<temp, realtime, stable>>
    BY <1>4 DEF DirectWrite, RK_led_init, RK_led_exit, Call
  <2>2. calls' <= MaxCalls /\ \A n \in Nat : n <= calls => n <= calls'
    BY <1>0, <2>1, CallsAssumption
  <2> QED
    BY <1>0, <2>1, <2>2 DEF InPlace
<1>5. CASE led_effect_task
  <2>1. CASE UNCHANGED <<temp, realtime, stable, calls>>
    BY <2>1 DEF InPlace
  <2>2. CASE /\ LeftTop # NULL => ~BreathUndefined(LeftTop.effect)
             /\ temp' = IF LeftTemp = NULL THEN NULL ELSE Display(LeftTemp)
             /\ realtime' = IF LeftTemp = NULL /\ LeftRealtime # NULL
                            THEN Display(LeftRealtime) ELSE LeftRealtime
             /\ stable' = IF LeftTemp = NULL /\ LeftRealtime = NULL /\ LeftStable # <<>>
                          THEN ReplaceAt(LeftStable, 1, Display(LeftStable[1]))
                          ELSE LeftStable
             /\ calls' = calls
    <3>1. temp' # NULL => temp # NULL /\ temp'.id = temp.id /\ temp'.effect = temp.effect
      BY <2>2, LeftFacts, DisplayInstance, InstanceFacts DEF LeftTop
    <3>2. realtime' # NULL => /\ realtime # NULL /\ realtime'.id = realtime.id
                              /\ realtime'.effect = realtime.effect
      BY <2>2, LeftFacts, DisplayInstance, InstanceFacts DEF LeftTop
    <3>3. \A j \in 1..Len(LeftStable) : \E k \in 1..Len(stable) : LeftStable[j] = stable[k]
      <4>1. LeftStable = stable \/ (stable # <<>> /\ LeftStable = Tail(stable))
        BY DEF LeftStable, UnexpiredList
      <4>2. ASSUME stable # <<>>, NEW j \in 1..Len(Tail(stable))
            PROVE  j + 1 \in 1..Len(stable) /\ Tail(stable)[j] = stable[j + 1]
        BY <1>0, <4>2
      <4> QED
        BY <4>1, <4>2
    <3>4. \A j \in 1..Len(stable') : stable'[j].effect.layer = STABLE
      <4>1. \A j \in 1..Len(LeftStable) : LeftStable[j].effect.layer = STABLE
        BY <3>3 DEF InPlace
      <4>2. CASE LeftTemp = NULL /\ LeftRealtime = NULL /\ LeftStable # <<>>
        <5>1. LeftStable[1] \in Instance /\ ~BreathUndefined(LeftStable[1].effect)
          BY <2>2, <4>2, LeftFacts, InstanceFacts DEF LeftTop
        <5>2. Display(LeftStable[1]).effect = LeftStable[1].effect
          BY <5>1, DisplayInstance
        <5>3. LeftStable \in Seq(Instance) /\ 1 \in 1..Len(LeftStable)
          BY <4>2, LeftFacts
        <5>4. /\ Len(stable') = Len(LeftStable)
              /\ \A j \in 1..Len(LeftStable) :
                   stable'[j] = IF j = 1 THEN Display(LeftStable[1]) ELSE LeftStable[j]
          BY <2>2, <4>2, <5>3 DEF ReplaceAt
        <5> QED
          BY <4>1, <5>2, <5>3, <5>4
      <4> QED
        BY <2>2, <4>1, <4>2
    <3> QED
      BY <2>2, <3>1, <3>2, <3>4 DEF InPlace
  <2> QED
    BY <1>5, <2>1, <2>2, TaskLeaves
<1>6. CASE led_wait_new_command \/ WaitTimeout \/ SpuriousWakeup \/ WokenUp
             \/ led_handle_new_command \/ UNCHANGED vars
  BY <1>6 DEF led_wait_new_command, WaitTimeout, SpuriousWakeup, WokenUp,
     led_handle_new_command, vars, InPlace
<1> QED
  BY <1>1, <1>2, <1>3, <1>4, <1>5, <1>6 DEF Next, Client, Thread

(* The topmost effect after a call or a step, unless it was just set.      *)
LEMMA TopIssued ==
  ASSUME LedInv, InPlace, Top # NULL
  PROVE  Top.id \in Nat /\ Top.id <= calls
<1>1. temp # NULL => temp.id \in Nat /\ temp.id <= calls
  BY InstanceFacts DEF LedInv, TypeOK, InPlace
<1>2. realtime # NULL => realtime.id \in Nat /\ realtime.id <= calls
  BY InstanceFacts DEF LedInv, TypeOK, InPlace
<1>3. stable # <<>> => stable[1].id \in Nat /\ stable[1].id <= calls
  <2>1. stable # <<>> => 1 \in 1..Len(stable) /\ stable[1] \in Instance
    BY DEF LedInv, TypeOK
  <2> QED
    BY <2>1, InstanceFacts DEF LedInv, GoodList, IdsIssued
<1> QED
  BY <1>1, <1>2, <1>3 DEF Top

(* Removing leaves a list whose head was issued, and no fewer calls.       *)
LEMMA OlderTop ==
  ASSUME LedInv, InPlace, calls' = calls + 1,
         temp' \in {temp, NULL}, realtime' \in {realtime, NULL},
         \A j \in 1..Len(stable') : \E k \in 1..Len(stable) : stable'[j] = stable[k],
         stable' \in Seq(Instance)
  PROVE  Top' # NULL => Top'.id # calls'
<1>1. calls \in Nat /\ \A n \in Nat : n <= calls => n # calls'
  BY DEF LedInv, TypeOK
<1>2. /\ temp # NULL => temp.id \in Nat /\ temp.id <= calls
      /\ realtime # NULL => realtime.id \in Nat /\ realtime.id <= calls
  BY InstanceFacts DEF LedInv, TypeOK, InPlace
<1>3. stable' # <<>> => stable'[1].id \in Nat /\ stable'[1].id <= calls
  <2>1. \A k \in 1..Len(stable) : stable[k].id \in Nat /\ stable[k].id <= calls
    BY InstanceFacts DEF LedInv, TypeOK, GoodList, IdsIssued
  <2>2. stable' # <<>> => 1 \in 1..Len(stable')
    OBVIOUS
  <2> QED
    BY <2>1, <2>2
<1> QED
  BY <1>1, <1>2, <1>3 DEF Top

(* What led_effect_task leaves on top is what it displays.                 *)
LEMMA TaskTop ==
  ASSUME LedInv, led_effect_task, led_thread' # "undefined"
  PROVE  Top' # NULL => shown' = Top'.id
<1>1. /\ LeftTop # NULL => ~BreathUndefined(LeftTop.effect)
      /\ temp' = IF LeftTemp = NULL THEN NULL ELSE Display(LeftTemp)
      /\ realtime' = IF LeftTemp = NULL /\ LeftRealtime # NULL
                     THEN Display(LeftRealtime) ELSE LeftRealtime
      /\ stable' = IF LeftTemp = NULL /\ LeftRealtime = NULL /\ LeftStable # <<>>
                   THEN ReplaceAt(LeftStable, 1, Display(LeftStable[1]))
                   ELSE LeftStable
      /\ shown' = IF LeftTop = NULL THEN 0 ELSE LeftTop.id
  BY TaskLeaves
<1>2. LeftTop # NULL => /\ Display(LeftTop) \in Instance /\ Display(LeftTop) # NULL
                        /\ Display(LeftTop).id = LeftTop.id
  BY <1>1, LeftFacts, DisplayInstance, InstanceFacts
<1>3. CASE LeftTemp # NULL
  BY <1>1, <1>2, <1>3 DEF Top, LeftTop
<1>4. CASE LeftTemp = NULL /\ LeftRealtime # NULL
  BY <1>1, <1>2, <1>4 DEF Top, LeftTop
<1>5. CASE LeftTemp = NULL /\ LeftRealtime = NULL /\ LeftStable # <<>>
  <2>1. LeftTop = LeftStable[1] /\ LeftStable[1] # NULL /\ LeftStable \in Seq(Instance)
    BY <1>5, LeftFacts, InstanceFacts DEF LeftTop
  <2>2. stable' = ReplaceAt(LeftStable, 1, Display(LeftTop)) /\ 1 \in 1..Len(LeftStable)
    BY <1>1, <1>5, <2>1
  <2>3. stable'[1] = Display(LeftTop) /\ Len(stable') = Len(LeftStable)
    BY <1>2, <2>1, <2>2 DEF ReplaceAt
  <2>4. stable' # <<>>
    BY <2>2, <2>3
  <2> QED
    BY <1>1, <1>2, <1>5, <2>1, <2>3, <2>4 DEF Top
<1>6. CASE LeftTemp = NULL /\ LeftRealtime = NULL /\ LeftStable = <<>>
  BY <1>1, <1>6 DEF Top
<1> QED
  BY <1>3, <1>4, <1>5, <1>6

LEMMA NewestStep ==
  ASSUME LedInv, InPlace, NewestAwaited, [Next]_vars
  PROVE  NewestAwaited'
<1>0. stable \in Seq(Instance) /\ GoodList(stable, calls) /\ calls \in Nat
  BY DEF LedInv, TypeOK
<1>1. ASSUME NEW e \in Effects, RK_set_led_effect(e) PROVE NewestAwaited'
  <2>1. e.layer \in {STABLE, REALTIME, TEMP}
    BY EffectsAssumption DEF EffectType, Layers
  <2>2. new_command_reached' >= 0
    <3>1. CASE e.layer = STABLE
      BY <1>1, <3>1 DEF RK_set_led_effect, STABLE, REALTIME, TEMP
    <3>2. CASE e.layer = REALTIME
      BY <1>1, <3>2 DEF RK_set_led_effect, STABLE, REALTIME, TEMP
    <3>3. CASE e.layer = TEMP
      BY <1>1, <3>3 DEF RK_set_led_effect, STABLE, REALTIME, TEMP
    <3> QED
      BY <2>1, <3>1, <3>2, <3>3
  <2> QED
    BY <2>2 DEF NewestAwaited
<1>2. ASSUME NEW layer \in Layers, NEW name \in Names, RK_set_led_effect_off(layer, name)
      PROVE  NewestAwaited'
  <2>1. /\ calls' = calls + 1
        /\ temp' \in {temp, NULL} /\ realtime' \in {realtime, NULL}
        /\ stable' = RemoveName(stable, name) \/ stable' = stable
    BY <1>2 DEF RK_set_led_effect_off, Call
  <2>2. \A j \in 1..Len(stable') : \E k \in 1..Len(stable) : stable'[j] = stable[k]
    BY <1>0, <2>1, RemoveNameFrom
  <2>3. GoodList(RemoveName(stable, name), calls)
    BY <1>0, RemoveNameGood
  <2>4. stable' \in Seq(Instance)
    BY <1>0, <2>1, <2>3 DEF GoodList
  <2> QED
    BY <2>1, <2>2, <2>4, OlderTop DEF NewestAwaited
<1>3. CASE RK_set_all_led_effect_off
  BY <1>3 DEF RK_set_all_led_effect_off, NewestAwaited, Top
<1>4. CASE (\E color \in DirectColors : DirectWrite(color)) \/ RK_led_init \/ RK_led_exit
  <2>1. calls' = calls + 1 /\ UNCHANGED <<temp, realtime, stable>>
    BY <1>4 DEF DirectWrite, RK_led_init, RK_led_exit, Call
  <2>2. Top' = Top
    BY <2>1 DEF Top
  <2>3. Top # NULL => Top.id # calls'
    <3>1. \A n \in Nat : n <= calls => n # calls'
      BY <1>0, <2>1
    <3> QED
      BY <3>1, TopIssued
  <2> QED
    BY <2>2, <2>3 DEF NewestAwaited
<1>5. CASE led_effect_task
  <2>1. CASE led_thread' = "undefined"
    BY <2>1 DEF NewestAwaited
  <2>2. CASE led_thread' # "undefined"
    BY <1>5, <2>2, TaskTop DEF NewestAwaited
  <2> QED
    BY <2>1, <2>2
<1>6. CASE led_handle_new_command
  <2>1. led_thread' = "task"
    BY <1>6 DEF led_handle_new_command
  <2> QED
    BY <2>1 DEF NewestAwaited
<1>7. CASE led_wait_new_command \/ WaitTimeout \/ SpuriousWakeup \/ WokenUp \/ UNCHANGED vars
  <2>1. /\ UNCHANGED <<temp, realtime, stable, shown, calls, new_command_reached>>
        /\ led_thread \in {"task", "undefined"} => led_thread' = led_thread
    BY <1>7 DEF led_wait_new_command, WaitTimeout, SpuriousWakeup, WokenUp, vars
  <2>2. Top' = Top
    BY <2>1 DEF Top
  <2> QED
    BY <2>1, <2>2 DEF NewestAwaited
<1> QED
  BY <1>1, <1>2, <1>3, <1>4, <1>5, <1>6, <1>7 DEF Next, Client, Thread

LEMMA InPlaceInit ==
  ASSUME Init
  PROVE  InPlace /\ NewestAwaited
BY CallsAssumption DEF Init, InPlace, NewestAwaited, Top

(* The effect that was set last is displayed when the thread sleeps, if it *)
(* is the topmost.                                                         *)
THEOREM SetAlwaysShown == Spec => []SetIsShown
<1>1. Init => InPlace /\ NewestAwaited
  BY InPlaceInit
<1>2. LedInv /\ LedInv' /\ InPlace /\ NewestAwaited /\ [Next]_vars
        => (InPlace /\ NewestAwaited)'
  BY InPlaceStep, NewestStep
<1>3. LedInv /\ NewestAwaited => SetIsShown
  BY DEF LedInv, PendingNeverSleeps, NewestAwaited, SetIsShown, Blocked
<1> QED
  BY <1>1, <1>2, <1>3, LedInvariant, PTL DEF Spec

-----------------------------------------------------------------------------
(* Led implements LedLayers.                                               *)

(* The effects of a layer and of a list, as LedLayers sees them.           *)
One(layer) == IF layer = NULL THEN {} ELSE {Abstract(layer)}
Listing(list) == {Abstract(list[k]) : k \in 1..Len(list)}

LEMMA ActiveLayers ==
  AbstractActive = One(temp) \cup One(realtime) \cup Listing(stable)
BY DEF AbstractActive, One, Listing

LEMMA AbstractFacts ==
  ASSUME NEW i
  PROVE  Abstract(i).id = i.id /\ Abstract(i).effect = i.effect
BY DEF Abstract

LEMMA ListingFacts ==
  ASSUME NEW s \in Seq(Instance)
  PROVE  \A a : a \in Listing(s) <=> \E k \in 1..Len(s) : a = Abstract(s[k])
BY DEF Listing

(* Off removes exactly the effect of that name.                            *)
LEMMA RemoveNameListing ==
  ASSUME NEW n \in Nat, NEW s, GoodList(s, n), NEW name
  PROVE  Listing(RemoveName(s, name)) = {a \in Listing(s) : a.effect.name # name}
<1> DEFINE r == RemoveName(s, name)
<1>1. s \in Seq(Instance) /\ UniqueNames(s)
  BY DEF GoodList
<1>2. /\ \A j \in 1..Len(r) : \E k \in 1..Len(s) : r[j] = s[k]
      /\ \A j \in 1..Len(r) : r[j].effect.name # name
  BY RemoveNameGood, RemoveNameFrom
<1>3. \A k \in 1..Len(s) : s[k].effect.name # name => \E j \in 1..Len(r) : r[j] = s[k]
  <2>1. CASE \E k \in 1..Len(s) : s[k].effect.name = name
    <3> DEFINE P(k) == /\ s[k].effect.name = name
                       /\ \A j \in 1..(k - 1) : s[j].effect.name # name
               c == CHOOSE k \in 1..Len(s) : P(k)
    <3>1. PICK k \in 1..Len(s) : s[k].effect.name = name
      BY <2>1
    <3>2. P(k)
      BY <1>1, <3>1 DEF UniqueNames
    <3>3. c \in 1..Len(s) /\ s[c].effect.name = name
      BY <3>2
    <3>4. r = RemoveAt(s, c)
      BY <2>1 DEF RemoveName
    <3> HIDE DEF c, r
    <3>5. Len(r) = Len(s) - 1
          /\ \A j \in 1..(Len(s) - 1) : r[j] = IF j < c THEN s[j] ELSE s[j + 1]
      BY <1>1, <3>3, <3>4, RemoveAtElements
    <3>6. ASSUME NEW l \in 1..Len(s), s[l].effect.name # name
          PROVE  \E j \in 1..Len(r) : r[j] = s[l]
      <4>1. l < c => l \in 1..Len(r) /\ r[l] = s[l]
        BY <1>1, <3>3, <3>5
      <4>2. l > c => l - 1 \in 1..Len(r) /\ r[l - 1] = s[l]
        BY <1>1, <3>3, <3>5
      <4>3. l # c
        BY <3>3, <3>6
      <4> QED
        BY <1>1, <3>3, <4>1, <4>2, <4>3
    <3> QED
      BY <3>6
  <2>2. CASE ~\E k \in 1..Len(s) : s[k].effect.name = name
    BY <2>2 DEF RemoveName
  <2> QED
    BY <2>1, <2>2
<1> HIDE DEF r
<1>4. ASSUME NEW a \in Listing(r) PROVE a \in Listing(s) /\ a.effect.name # name
  <2>1. PICK j \in 1..Len(r) : a = Abstract(r[j])
    BY DEF Listing
  <2>2. a.effect = r[j].effect
    BY <2>1, AbstractFacts
  <2> QED
    BY <1>2, <2>1, <2>2 DEF Listing
<1>5. ASSUME NEW a \in Listing(s), a.effect.name # name PROVE a \in Listing(r)
  <2>1. PICK k \in 1..Len(s) : a = Abstract(s[k])
    BY DEF Listing
  <2>2. s[k].effect.name # name
    BY <1>5, <2>1, AbstractFacts
  <2>3. PICK j \in 1..Len(r) : r[j] = s[k]
    BY <1>3, <2>2
  <2> QED
    BY <2>1, <2>3 DEF Listing
<1> QED
  BY <1>4, <1>5 DEF r

LEMMA InsertListing ==
  ASSUME NEW s \in Seq(Instance), NEW i \in Instance
  PROVE  Listing(InsertByPriority(s, i)) = Listing(s) \cup {Abstract(i)}
<1> DEFINE r == InsertByPriority(s, i)
<1>1. /\ \A j \in 1..Len(r) : r[j] = i \/ \E k \in 1..Len(s) : r[j] = s[k]
      /\ \E j \in 1..Len(r) : r[j] = i
      /\ \A k \in 1..Len(s) : \E j \in 1..Len(r) : r[j] = s[k]
  BY InsertFrom
<1> HIDE DEF r
<1>2. Listing(r) = Listing(s) \cup {Abstract(i)}
  BY <1>1 DEF Listing
<1> QED
  BY <1>2 DEF r

LEMMA HeadListing ==
  ASSUME NEW s \in Seq(Instance), s # <<>>
  PROVE  /\ Listing(s) = {Abstract(s[1])} \cup Listing(Tail(s))
         /\ \A a \in Listing(Tail(s)) : \E k \in 2..Len(s) : a = Abstract(s[k])
<1>1. Len(Tail(s)) = Len(s) - 1 /\ \A j \in 1..(Len(s) - 1) : Tail(s)[j] = s[j + 1]
  OBVIOUS
<1>2. ASSUME NEW a \in Listing(Tail(s)) PROVE \E k \in 2..Len(s) : a = Abstract(s[k])
  <2>1. PICK j \in 1..(Len(s) - 1) : a = Abstract(Tail(s)[j])
    BY <1>1 DEF Listing
  <2>2. j + 1 \in 2..Len(s) /\ a = Abstract(s[j + 1])
    BY <1>1, <2>1
  <2> QED
    BY <2>2
<1>3. ASSUME NEW k \in 1..Len(s) PROVE k = 1 \/ Abstract(s[k]) \in Listing(Tail(s))
  <2>1. ASSUME k # 1 PROVE k - 1 \in 1..Len(Tail(s)) /\ Tail(s)[k - 1] = s[k]
    BY <1>1, <2>1
  <2> QED
    BY <2>1 DEF Listing
<1>4. 1 \in 1..Len(s) /\ \A k \in 2..Len(s) : k \in 1..Len(s)
  OBVIOUS
<1> QED
  BY <1>2, <1>3, <1>4 DEF Listing

LEMMA ReplaceListing ==
  ASSUME NEW s \in Seq(Instance), s # <<>>,
         NEW i \in Instance, i.id = s[1].id, i.effect = s[1].effect
  PROVE  Listing(ReplaceAt(s, 1, i)) = Listing(s)
<1> DEFINE r == ReplaceAt(s, 1, i)
<1>1. 1 \in 1..Len(s) /\ Len(r) = Len(s)
      /\ \A j \in 1..Len(s) : r[j] = IF j = 1 THEN i ELSE s[j]
  BY DEF ReplaceAt
<1>2. Abstract(i) = Abstract(s[1])
  BY DEF Abstract
<1> HIDE DEF r
<1>3. \A j \in 1..Len(s) : Abstract(r[j]) = Abstract(s[j])
  BY <1>1, <1>2
<1>4. Listing(r) = Listing(s)
  BY <1>1, <1>3 DEF Listing
<1> QED
  BY <1>4 DEF r

(* Every active effect is in the place of its layer.                       *)
LEMMA Places ==
  ASSUME LedInv, InPlace
  PROVE  /\ \A a \in One(temp) : a.effect.layer = TEMP
         /\ \A a \in One(realtime) : a.effect.layer = REALTIME
         /\ \A a \in Listing(stable) : a.effect.layer = STABLE
<1>1. stable \in Seq(Instance)
  BY DEF LedInv, TypeOK
<1> QED
  BY <1>1, AbstractFacts, ListingFacts DEF InPlace, One

(* What is active beside what a call replaces or takes away.               *)
LEMMA Others ==
  ASSUME LedInv, InPlace, NEW layer \in Layers, NEW name
  PROVE  {a \in AbstractActive : ~Promise!SamePlace(a, layer, name)}
           = One(IF layer = TEMP THEN NULL ELSE temp)
               \cup One(IF layer = REALTIME THEN NULL ELSE realtime)
               \cup Listing(IF layer = STABLE THEN RemoveName(stable, name) ELSE stable)
<1>1. /\ \A a \in One(temp) : a.effect.layer = TEMP
      /\ \A a \in One(realtime) : a.effect.layer = REALTIME
      /\ \A a \in Listing(stable) : a.effect.layer = STABLE
  BY Places
<1>2. Listing(RemoveName(stable, name)) = {a \in Listing(stable) : a.effect.name # name}
  BY RemoveNameListing DEF LedInv, TypeOK
<1>3. \A a : Promise!SamePlace(a, layer, name)
               <=> a.effect.layer = layer /\ (layer = STABLE => a.effect.name = name)
  BY DEF Promise!SamePlace, STABLE
<1>4. One(NULL) = {}
  BY DEF One
<1>5. AbstractActive = One(temp) \cup One(realtime) \cup Listing(stable)
  BY ActiveLayers
<1>6. TEMP # REALTIME /\ TEMP # STABLE /\ REALTIME # STABLE
  BY DEF TEMP, REALTIME, STABLE
<1>7. CASE layer = TEMP
  BY <1>1, <1>3, <1>4, <1>5, <1>6, <1>7
<1>8. CASE layer = REALTIME
  BY <1>1, <1>3, <1>4, <1>5, <1>6, <1>8
<1>9. CASE layer = STABLE
  BY <1>1, <1>2, <1>3, <1>4, <1>5, <1>6, <1>9
<1> QED
  BY <1>7, <1>8, <1>9 DEF Layers

LEMMA SetImplements ==
  ASSUME LedInv, InPlace, NEW e \in Effects, RK_set_led_effect(e)
  PROVE  Promise!Set(e)
<1> DEFINE ins == [id |-> calls + 1, effect |-> e, time |-> 0,
                   colors |-> e.colors, count |-> 0]
           rest == RemoveName(stable, e.name)
           kept == {a \in AbstractActive : ~Promise!SamePlace(a, e.layer, e.name)}
<1>1. calls \in Nat /\ e.layer \in Layers
  BY EffectsAssumption DEF LedInv, TypeOK, EffectType
<1>2. ins \in Instance /\ ins # NULL /\ Abstract(ins) = [id |-> calls + 1, effect |-> e]
  BY <1>1, NullAssumption, EffectsAssumption DEF Instance, EffectType, Abstract
<1>3. /\ stable' = IF e.layer = STABLE THEN InsertByPriority(rest, ins) ELSE stable
      /\ realtime' = IF e.layer = REALTIME THEN ins ELSE realtime
      /\ temp' = IF e.layer = TEMP THEN ins ELSE temp
      /\ shown' = shown /\ Call
  BY <1>1 DEF RK_set_led_effect, Layers, STABLE, REALTIME, TEMP
<1>4. GoodList(rest, calls)
  BY <1>1, RemoveNameGood DEF LedInv
<1>5. rest \in Seq(Instance)
  BY <1>4 DEF GoodList
<1>6. kept = One(IF e.layer = TEMP THEN NULL ELSE temp)
               \cup One(IF e.layer = REALTIME THEN NULL ELSE realtime)
               \cup Listing(IF e.layer = STABLE THEN rest ELSE stable)
  BY <1>1, Others
<1> HIDE DEF ins, rest, kept
<1>7. One(NULL) = {} /\ One(ins) = {Abstract(ins)}
  BY <1>2 DEF One
<1>8. Listing(InsertByPriority(rest, ins)) = Listing(rest) \cup {Abstract(ins)}
  BY <1>2, <1>5, InsertListing
<1>9. TEMP # REALTIME /\ TEMP # STABLE /\ REALTIME # STABLE
  BY DEF TEMP, REALTIME, STABLE
<1>10. AbstractActive' = One(temp') \cup One(realtime') \cup Listing(stable')
  BY DEF AbstractActive, One, Listing
<1>11. AbstractActive' = kept \cup {Abstract(ins)}
  <2>1. CASE e.layer = TEMP
    BY <1>3, <1>6, <1>7, <1>9, <1>10, <2>1
  <2>2. CASE e.layer = REALTIME
    BY <1>3, <1>6, <1>7, <1>9, <1>10, <2>2
  <2>3. CASE e.layer = STABLE
    BY <1>3, <1>6, <1>7, <1>8, <1>9, <1>10, <2>3
  <2> QED
    BY <1>1, <2>1, <2>2, <2>3 DEF Layers
<1> QED
  BY <1>2, <1>3, <1>11 DEF Promise!Set, Promise!Issue, Call, kept

LEMMA OffImplements ==
  ASSUME LedInv, InPlace, NEW layer \in Layers, NEW name \in Names,
         RK_set_led_effect_off(layer, name)
  PROVE  Promise!Off(layer, name)
<1>1. /\ stable' = (IF layer = STABLE THEN RemoveName(stable, name) ELSE stable)
      /\ realtime' = (IF layer = REALTIME THEN NULL ELSE realtime)
      /\ temp' = (IF layer = TEMP THEN NULL ELSE temp)
      /\ shown' = shown /\ Call
  BY DEF RK_set_led_effect_off
<1>2. AbstractActive' = One(temp') \cup One(realtime') \cup Listing(stable')
  BY DEF AbstractActive, One, Listing
<1>3. AbstractActive' = {a \in AbstractActive : ~Promise!SamePlace(a, layer, name)}
  BY <1>1, <1>2, Others
<1> QED
  BY <1>1, <1>3 DEF Promise!Off, Promise!Issue, Call

LEMMA AllOffImplements ==
  ASSUME RK_set_all_led_effect_off
  PROVE  Promise!AllOff
<1>1. Listing(<<>>) = {} /\ One(NULL) = {}
  BY DEF Listing, One
<1>2. AbstractActive' = One(temp') \cup One(realtime') \cup Listing(stable')
  BY DEF AbstractActive, One, Listing
<1> QED
  BY <1>1, <1>2 DEF RK_set_all_led_effect_off, Call, Promise!AllOff, Promise!Issue

(* What led_effect_task leaves active.                                     *)
LEMMA LeftActive ==
  ASSUME LedInv, led_effect_task, led_thread' # "undefined"
  PROVE  AbstractActive' = One(LeftTemp) \cup One(LeftRealtime) \cup Listing(LeftStable)
<1>1. /\ LeftTop # NULL => ~BreathUndefined(LeftTop.effect)
      /\ temp' = IF LeftTemp = NULL THEN NULL ELSE Display(LeftTemp)
      /\ realtime' = IF LeftTemp = NULL /\ LeftRealtime # NULL
                     THEN Display(LeftRealtime) ELSE LeftRealtime
      /\ stable' = IF LeftTemp = NULL /\ LeftRealtime = NULL /\ LeftStable # <<>>
                   THEN ReplaceAt(LeftStable, 1, Display(LeftStable[1]))
                   ELSE LeftStable
  BY TaskLeaves
<1>2. /\ LeftTemp \in Instance \cup {NULL} /\ LeftRealtime \in Instance \cup {NULL}
      /\ LeftStable \in Seq(Instance) /\ LeftTop \in Instance \cup {NULL}
  BY LeftFacts
<1>3. ASSUME NEW i \in Instance, i = LeftTop
      PROVE  /\ Display(i) \in Instance /\ One(Display(i)) = One(i)
             /\ Display(i).id = i.id /\ Display(i).effect = i.effect
  <2>1. i # NULL /\ ~BreathUndefined(i.effect)
    BY <1>1, <1>3, InstanceFacts
  <2>2. /\ Display(i) \in Instance /\ Display(i).id = i.id
        /\ Display(i).effect = i.effect
    BY <2>1, DisplayInstance
  <2> QED
    BY <2>1, <2>2, InstanceFacts DEF One, Abstract
<1>4. One(temp') = One(LeftTemp)
  BY <1>1, <1>2, <1>3 DEF LeftTop
<1>5. One(realtime') = One(LeftRealtime)
  BY <1>1, <1>2, <1>3 DEF LeftTop
<1>6. Listing(stable') = Listing(LeftStable)
  <2>1. CASE LeftTemp = NULL /\ LeftRealtime = NULL /\ LeftStable # <<>>
    <3>1. LeftStable[1] \in Instance /\ LeftStable[1] = LeftTop
      BY <2>1, LeftFacts DEF LeftTop
    <3> QED
      BY <1>1, <1>2, <1>3, <2>1, <3>1, ReplaceListing
  <2> QED
    BY <1>1, <2>1
<1> QED
  BY <1>4, <1>5, <1>6 DEF AbstractActive, One, Listing

(* The head of a list covers what is behind it, and is not covered by it.  *)
LEMMA HeadCovers ==
  ASSUME NEW n \in Nat, NEW s, GoodList(s, n), s # <<>>,
         \A k \in 1..Len(s) : s[k].effect.layer = STABLE,
         NEW k \in 2..Len(s)
  PROVE  /\ Promise!Covers(Abstract(s[1]), Abstract(s[k]))
         /\ ~Promise!Covers(Abstract(s[k]), Abstract(s[1]))
<1>1. s \in Seq(Instance) /\ 1 \in 1..Len(s) /\ k \in 1..Len(s) /\ 1 < k
  BY DEF GoodList
<1>2. \/ s[1].effect.priority > s[k].effect.priority
      \/ /\ s[1].effect.priority = s[k].effect.priority
         /\ s[1].id > s[k].id
  BY <1>1 DEF GoodList, Sorted
<1>3. /\ s[1].effect.priority \in Int /\ s[k].effect.priority \in Int
      /\ s[1].id \in Nat /\ s[k].id \in Nat
  BY <1>1, InstanceFacts
<1>4. /\ s[1].effect.layer = s[k].effect.layer
      /\ Promise!LayerRank(s[1].effect.layer) = 0 /\ Promise!LayerRank(s[k].effect.layer) = 0
  BY <1>1 DEF Promise!LayerRank, STABLE
<1> QED
  BY <1>2, <1>3, <1>4, AbstractFacts DEF Promise!Covers

(* TEMP covers REALTIME, which covers STABLE, and never the other way.     *)
LEMMA LayersCover ==
  ASSUME NEW a, NEW b,
         \/ a.effect.layer = TEMP /\ b.effect.layer \in {REALTIME, STABLE}
         \/ a.effect.layer = REALTIME /\ b.effect.layer = STABLE
  PROVE  Promise!Covers(a, b) /\ ~Promise!Covers(b, a)
<1>1. /\ Promise!LayerRank(TEMP) = 2 /\ Promise!LayerRank(REALTIME) = 1
      /\ Promise!LayerRank(STABLE) = 0
  BY DEF Promise!LayerRank, TEMP, REALTIME, STABLE
<1>2. TEMP # REALTIME /\ TEMP # STABLE /\ REALTIME # STABLE
  BY DEF TEMP, REALTIME, STABLE
<1> QED
  BY <1>1, <1>2 DEF Promise!Covers

(* The displayed effect is the topmost of those that are left.             *)
LEMMA LeftTopmost ==
  ASSUME LedInv, InPlace
  PROVE  Promise!IsTopOf(IF LeftTop = NULL THEN 0 ELSE LeftTop.id,
                         One(LeftTemp) \cup One(LeftRealtime) \cup Listing(LeftStable))
<1> DEFINE T == One(LeftTemp)
           R == One(LeftRealtime)
           S == Listing(LeftStable)
<1>1. /\ LeftStable \in Seq(Instance) /\ GoodList(LeftStable, calls) /\ calls \in Nat
      /\ \A k \in 1..Len(LeftStable) : LeftStable[k].effect.layer = STABLE
  <2>1. LeftStable = stable \/ (stable # <<>> /\ LeftStable = Tail(stable))
    BY DEF LeftStable, UnexpiredList
  <2>2. ASSUME stable # <<>>, NEW j \in 1..Len(Tail(stable))
        PROVE  j + 1 \in 1..Len(stable) /\ Tail(stable)[j] = stable[j + 1]
    BY <2>2 DEF LedInv, TypeOK
  <2> QED
    BY <2>1, <2>2, LeftFacts DEF InPlace, LedInv, TypeOK
<1>2. /\ \A a \in T : a = Abstract(LeftTemp) /\ a.effect.layer = TEMP
      /\ \A a \in R : a = Abstract(LeftRealtime) /\ a.effect.layer = REALTIME
  BY LeftFacts, AbstractFacts DEF One, InPlace
<1>3. \A a \in S : a.effect.layer = STABLE
  BY <1>1, AbstractFacts, ListingFacts
<1>4. CASE LeftTemp # NULL
  <2>1. LeftTop = LeftTemp /\ Abstract(LeftTemp) \in T /\ Abstract(LeftTemp).id = LeftTop.id
    BY <1>4, AbstractFacts DEF LeftTop, One
  <2>2. \A b \in (T \cup R \cup S) \ {Abstract(LeftTemp)} : Promise!Covers(Abstract(LeftTemp), b)
    BY <1>2, <1>3, <2>1, LayersCover
  <2> QED
    BY <1>4, <2>1, <2>2 DEF Promise!IsTopOf
<1>5. CASE LeftTemp = NULL /\ LeftRealtime # NULL
  <2>1. /\ LeftTop = LeftRealtime /\ Abstract(LeftRealtime) \in R
        /\ Abstract(LeftRealtime).id = LeftTop.id /\ T = {}
    BY <1>5, AbstractFacts DEF LeftTop, One
  <2>2. \A b \in (T \cup R \cup S) \ {Abstract(LeftRealtime)} :
          Promise!Covers(Abstract(LeftRealtime), b)
    BY <1>2, <1>3, <2>1, LayersCover
  <2> QED
    BY <1>5, <2>1, <2>2 DEF Promise!IsTopOf
<1>6. CASE LeftTemp = NULL /\ LeftRealtime = NULL /\ LeftStable # <<>>
  <2>1. /\ LeftTop = LeftStable[1] /\ LeftTop # NULL /\ T = {} /\ R = {}
        /\ Abstract(LeftStable[1]).id = LeftTop.id
    BY <1>1, <1>6, AbstractFacts, InstanceFacts, LeftFacts DEF LeftTop, One
  <2>2. /\ S = {Abstract(LeftStable[1])} \cup Listing(Tail(LeftStable))
        /\ \A a \in Listing(Tail(LeftStable)) :
             \E k \in 2..Len(LeftStable) : a = Abstract(LeftStable[k])
    BY <1>1, <1>6, HeadListing
  <2>3. \A k \in 2..Len(LeftStable) :
          Promise!Covers(Abstract(LeftStable[1]), Abstract(LeftStable[k]))
    BY <1>1, <1>6, HeadCovers
  <2>4. \A b \in (T \cup R \cup S) \ {Abstract(LeftStable[1])} :
          Promise!Covers(Abstract(LeftStable[1]), b)
    BY <2>1, <2>2, <2>3
  <2> QED
    BY <2>1, <2>2, <2>4 DEF Promise!IsTopOf
<1>7. CASE LeftTemp = NULL /\ LeftRealtime = NULL /\ LeftStable = <<>>
  <2>1. LeftTop = NULL /\ T \cup R \cup S = {}
    BY <1>7 DEF LeftTop, One, Listing
  <2> QED
    BY <2>1 DEF Promise!IsTopOf
<1> QED
  BY <1>4, <1>5, <1>6, <1>7

(* led_effect_task drops from the top, and only what has a timeout.        *)
LEMMA TaskImplements ==
  ASSUME LedInv, InPlace, led_effect_task, led_thread' # "undefined"
  PROVE  Promise!Refresh
<1> DEFINE T == One(temp)
           R == One(realtime)
           S == Listing(stable)
           left == One(LeftTemp) \cup One(LeftRealtime) \cup Listing(LeftStable)
           gone == AbstractActive \ left
<1>1. AbstractActive' = left /\ AbstractActive = T \cup R \cup S
  BY LeftActive, ActiveLayers
<1>2. /\ \A a \in T : a = Abstract(temp) /\ a.effect.layer = TEMP
      /\ \A a \in R : a = Abstract(realtime) /\ a.effect.layer = REALTIME
      /\ \A a \in S : a.effect.layer = STABLE
  BY Places DEF One
<1>3. /\ One(LeftTemp) \in {T, {}}
      /\ One(LeftTemp) # T => LeftTemp = NULL /\ temp # NULL /\ led_handle_timeout(temp)
      /\ LeftTemp = NULL => One(LeftTemp) = {}
  BY DEF LeftTemp, Unexpired, One
<1>4. /\ One(LeftRealtime) \in {R, {}}
      /\ One(LeftRealtime) # R => /\ LeftTemp = NULL /\ LeftRealtime = NULL
                                  /\ realtime # NULL /\ led_handle_timeout(realtime)
      /\ LeftRealtime = NULL => One(LeftRealtime) = {}
  BY DEF LeftRealtime, Unexpired, One
<1>5. stable \in Seq(Instance) /\ GoodList(stable, calls) /\ calls \in Nat
  BY DEF LedInv, TypeOK
<1>6. \/ Listing(LeftStable) = S
      \/ /\ LeftTemp = NULL /\ LeftRealtime = NULL
         /\ stable # <<>> /\ led_handle_timeout(stable[1])
         /\ S = {Abstract(stable[1])} \cup Listing(LeftStable)
         /\ \A a \in Listing(LeftStable) : \E k \in 2..Len(stable) : a = Abstract(stable[k])
  <2>1. CASE LeftStable = stable
    BY <2>1
  <2>2. CASE LeftStable # stable
    <3>1. /\ LeftTemp = NULL /\ LeftRealtime = NULL /\ stable # <<>>
          /\ led_handle_timeout(stable[1]) /\ LeftStable = Tail(stable)
      BY <2>2 DEF LeftStable, UnexpiredList
    <3> QED
      BY <1>5, <3>1, HeadListing
  <2> QED
    BY <2>1, <2>2
<1>7. \A i : led_handle_timeout(i) => Abstract(i).effect.timeout > 0
  BY AbstractFacts DEF led_handle_timeout
<1>8. ASSUME NEW g \in gone
      PROVE  g.effect.timeout > 0 /\ \A a \in left : ~Promise!Covers(a, g)
  <2>1. CASE g \in T
    <3>1. /\ LeftTemp = NULL /\ One(LeftTemp) = {} /\ g.effect.timeout > 0
          /\ g.effect.layer = TEMP
      BY <1>2, <1>3, <1>7, <1>8, <2>1
    <3>2. \A a \in left : a.effect.layer \in {REALTIME, STABLE}
      BY <1>2, <1>4, <1>6, <3>1
    <3> QED
      BY <3>1, <3>2, LayersCover
  <2>2. CASE g \in R
    <3>1. /\ LeftTemp = NULL /\ One(LeftTemp) = {} /\ One(LeftRealtime) = {}
          /\ g.effect.timeout > 0 /\ g.effect.layer = REALTIME
      BY <1>2, <1>3, <1>4, <1>7, <1>8, <2>2
    <3>2. \A a \in left : a.effect.layer = STABLE
      BY <1>2, <1>6, <3>1
    <3> QED
      BY <3>1, <3>2, LayersCover
  <2>3. CASE g \in S
    <3>1. /\ LeftTemp = NULL /\ LeftRealtime = NULL /\ stable # <<>>
          /\ led_handle_timeout(stable[1]) /\ g = Abstract(stable[1])
          /\ \A a \in Listing(LeftStable) : \E k \in 2..Len(stable) : a = Abstract(stable[k])
      BY <1>6, <1>8, <2>3
    <3>2. \A k \in 2..Len(stable) : ~Promise!Covers(Abstract(stable[k]), Abstract(stable[1]))
      BY <1>5, <3>1, HeadCovers DEF InPlace
    <3>3. left = Listing(LeftStable)
      BY <1>3, <1>4, <3>1
    <3> QED
      BY <1>7, <3>1, <3>2, <3>3
  <2> QED
    BY <1>1, <1>8, <2>1, <2>2, <2>3
<1>9. left \subseteq AbstractActive
  BY <1>1, <1>3, <1>4, <1>6
<1>10. /\ shown' = IF LeftTop = NULL THEN 0 ELSE LeftTop.id
       /\ calls' = calls
  BY TaskLeaves
<1>11. Promise!IsTopOf(shown', left)
  BY <1>10, LeftTopmost
<1>12. shown' \in 0..MaxCalls
  <2>1. LeftTemp # NULL => LeftTemp.id \in Nat /\ LeftTemp.id <= calls
    BY LeftFacts, InstanceFacts DEF InPlace
  <2>2. LeftRealtime # NULL => LeftRealtime.id \in Nat /\ LeftRealtime.id <= calls
    BY LeftFacts, InstanceFacts DEF InPlace
  <2>3. LeftStable # <<>> => LeftStable[1].id \in Nat /\ LeftStable[1].id <= calls
    <3>1. LeftStable # <<>> => 1 \in 1..Len(LeftStable)
      BY LeftFacts
    <3> QED
      BY <3>1, LeftFacts, InstanceFacts DEF GoodList, IdsIssued
  <2>4. LeftTop # NULL => LeftTop.id \in Nat /\ LeftTop.id <= calls
    BY <2>1, <2>2, <2>3 DEF LeftTop
  <2>5. calls <= MaxCalls
    BY DEF InPlace
  <2> QED
    BY <1>5, <1>10, <2>4, <2>5, CallsAssumption
<1> HIDE DEF T, R, S, left
<1>13. \E lost \in SUBSET {a \in AbstractActive : a.effect.timeout > 0} :
         /\ \A g \in lost, a \in AbstractActive \ lost : ~Promise!Covers(a, g)
         /\ AbstractActive' = AbstractActive \ lost
  <2>1. gone \in SUBSET {a \in AbstractActive : a.effect.timeout > 0}
    BY <1>8
  <2>2. AbstractActive \ gone = left
    BY <1>9
  <2> HIDE DEF gone
  <2> QED
    BY <1>1, <1>8, <2>1, <2>2
<1>14. \E n \in 0..MaxCalls : Promise!IsTopOf(n, AbstractActive') /\ shown' = n
  BY <1>1, <1>11, <1>12
<1> QED
  BY <1>10, <1>13, <1>14 DEF Promise!Refresh

LEMMA LayersStep ==
  ASSUME LedInv, InPlace, [Next]_vars
  PROVE  [Promise!LayersNext]_(Promise!layersVars)
<1>1. ASSUME UNCHANGED <<temp, realtime, stable, shown, calls>>
      PROVE  UNCHANGED Promise!layersVars
  BY <1>1 DEF Promise!layersVars, AbstractActive
<1>2. ASSUME NEW e \in Effects, RK_set_led_effect(e) PROVE Promise!LayersNext
  BY <1>2, SetImplements DEF Promise!LayersNext
<1>3. ASSUME NEW layer \in Layers, NEW name \in Names, RK_set_led_effect_off(layer, name)
      PROVE  Promise!LayersNext
  <2>1. layer \in {"TEMP", "REALTIME", "STABLE"}
    BY DEF Layers, TEMP, REALTIME, STABLE
  <2> QED
    BY <1>3, <2>1, OffImplements DEF Promise!LayersNext
<1>4. CASE RK_set_all_led_effect_off
  BY <1>4, AllOffImplements DEF Promise!LayersNext
<1>5. CASE (\E color \in DirectColors : DirectWrite(color)) \/ RK_led_init \/ RK_led_exit
  <2>1. Call /\ UNCHANGED <<temp, realtime, stable, shown>>
    BY <1>5 DEF DirectWrite, RK_led_init, RK_led_exit
  <2>2. Promise!Other
    BY <2>1 DEF Promise!Other, Promise!Issue, Call, AbstractActive
  <2> QED
    BY <2>2 DEF Promise!LayersNext
<1>6. CASE led_effect_task
  <2>1. CASE led_thread' = "undefined"
    BY <1>1, <1>6, <2>1, TaskLeaves
  <2>2. CASE led_thread' # "undefined"
    BY <1>6, <2>2, TaskImplements DEF Promise!LayersNext
  <2> QED
    BY <2>1, <2>2
<1>7. CASE led_wait_new_command \/ WaitTimeout \/ SpuriousWakeup \/ WokenUp
             \/ led_handle_new_command \/ UNCHANGED vars
  BY <1>1, <1>7 DEF led_wait_new_command, WaitTimeout, SpuriousWakeup, WokenUp,
     led_handle_new_command, vars
<1> QED
  BY <1>2, <1>3, <1>4, <1>5, <1>6, <1>7 DEF Next, Client, Thread

(* Led implements LedLayers: for any effects and any number of calls, the  *)
(* lists and the thread are a set of effects whose topmost is displayed at *)
(* every refresh, and led_effect_task drops effects from the top only.     *)
THEOREM LayersImplemented == Spec => ImplementsLayers
<1>1. Init => InPlace /\ NewestAwaited /\ Promise!LayersInit
  BY InPlaceInit DEF Init, Promise!LayersInit, AbstractActive
<1>2. LedInv /\ LedInv' /\ InPlace /\ [Next]_vars => InPlace'
  BY InPlaceStep
<1>3. LedInv /\ InPlace /\ [Next]_vars => [Promise!LayersNext]_(Promise!layersVars)
  BY LayersStep
<1>4. Spec => Promise!LayersInit /\ [][Promise!LayersNext]_(Promise!layersVars)
  BY <1>1, <1>2, <1>3, LedInvariant, PTL DEF Spec
<1> QED
  BY <1>4 DEF ImplementsLayers, Promise!LayersSpec
=============================================================================
