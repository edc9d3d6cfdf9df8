-------------------------- MODULE KeyCompose_proofs --------------------------
(***************************************************************************)
(* Proofs about KeyCompose, for all keys, compositions and delays.         *)
(***************************************************************************)
EXTENDS KeyCompose, TLAPS, WellFoundedInduction

-----------------------------------------------------------------------------
(* Natural numbers and lists.                                              *)

(* A non-empty set of natural numbers has a least element.                 *)
LEMMA LeastNatural ==
  ASSUME NEW T \in SUBSET Nat, T # {}
  PROVE  \E m \in T : \A n \in T : m <= n
<1>1. PICK m \in T : \A n \in T : ~(<<n, m>> \in OpToRel(<, Nat))
  BY NatLessThanWellFounded, WFMin
<1>2. \A n \in T : m \in Nat /\ n \in Nat /\ ~(n < m)
  BY <1>1 DEF OpToRel
<1> QED
  BY <1>2

(* The elements of a concatenation.                                        *)
LEMMA ConcatElements ==
  ASSUME NEW S, NEW s \in Seq(S), NEW t \in Seq(S)
  PROVE  /\ s \o t \in Seq(S)
         /\ Len(s \o t) = Len(s) + Len(t)
         /\ \A j \in 1..Len(s) : (s \o t)[j] = s[j]
         /\ \A j \in (Len(s) + 1)..(Len(s) + Len(t)) : (s \o t)[j] = t[j - Len(s)]
  OBVIOUS

(* Removing moves the elements after position k by one.                    *)
LEMMA RemoveAtElements ==
  ASSUME NEW S, NEW s \in Seq(S), NEW k \in 1..Len(s)
  PROVE  /\ RemoveAt(s, k) \in Seq(S)
         /\ Len(RemoveAt(s, k)) = Len(s) - 1
         /\ \A j \in 1..(Len(s) - 1) :
              RemoveAt(s, k)[j] = IF j < k THEN s[j] ELSE s[j + 1]
<1> DEFINE a == SubSeq(s, 1, k - 1)
           b == SubSeq(s, k + 1, Len(s))
<1>1. a \in Seq(S) /\ Len(a) = k - 1 /\ \A j \in 1..(k - 1) : a[j] = s[j]
  OBVIOUS
<1>2. b \in Seq(S) /\ Len(b) = Len(s) - k
      /\ \A j \in 1..(Len(s) - k) : b[j] = s[k + j]
  OBVIOUS
<1>3. RemoveAt(s, k) = a \o b
  BY DEF RemoveAt
<1> HIDE DEF a, b
<1>4. /\ (a \o b) \in Seq(S) /\ Len(a \o b) = Len(a) + Len(b)
      /\ \A j \in 1..Len(a) : (a \o b)[j] = a[j]
      /\ \A j \in (Len(a) + 1)..(Len(a) + Len(b)) : (a \o b)[j] = b[j - Len(a)]
  BY <1>1, <1>2, ConcatElements
<1>5. Len(a \o b) = Len(s) - 1 /\ \A j \in 1..(k - 1) : (a \o b)[j] = s[j]
  BY <1>1, <1>2, <1>4
<1>6. \A j \in k..(Len(s) - 1) : (a \o b)[j] = s[j + 1]
  <2>1. SUFFICES ASSUME NEW j \in k..(Len(s) - 1) PROVE (a \o b)[j] = s[j + 1]
    OBVIOUS
  <2>2. (a \o b)[j] = b[j - (k - 1)]
    BY <1>1, <1>2, <1>4
  <2>3. j - (k - 1) \in 1..(Len(s) - k) /\ k + (j - (k - 1)) = j + 1
    OBVIOUS
  <2> QED
    BY <1>2, <2>2, <2>3
<1> QED
  BY <1>3, <1>4, <1>5, <1>6

-----------------------------------------------------------------------------
(* Choosing from a list.                                                   *)

(* f says where in s the elements of a come from, which are those in T.    *)
Picks(f, a, s, n, T) ==
  /\ f \in [1..Len(a) -> 1..n]
  /\ \A j \in 1..Len(a) : a[j] = s[f[j]] /\ a[j] \in T
  /\ \A j, k \in 1..Len(a) : j < k => f[j] < f[k]
  /\ \A i \in 1..n : s[i] \in T => \E j \in 1..Len(a) : f[j] = i

LEMMA PicksNext ==
  ASSUME NEW S, NEW s \in Seq(S), NEW T, NEW n \in 1..Len(s), NEW a \in Seq(S), NEW f,
         Picks(f, a, s, n - 1, T)
  PROVE  /\ s[n] \in T => \E g : Picks(g, Append(a, s[n]), s, n, T)
         /\ s[n] \notin T => Picks(f, a, s, n, T)
<1> DEFINE L == Len(a)
<1>0. L \in Nat /\ n \in Nat /\ n >= 1 /\ n <= Len(s) /\ s[n] \in S
  OBVIOUS
<1>a. \A j \in 1..L : f[j] \in 1..(n - 1) /\ a[j] = s[f[j]] /\ a[j] \in T
  BY DEF Picks
<1>b. \A j \in 1..L : f[j] \in 1..n /\ f[j] # n /\ f[j] < n
  BY <1>0, <1>a
<1>c. \A j, k \in 1..L : j < k => f[j] < f[k]
  BY DEF Picks
<1>d. \A i \in 1..(n - 1) : s[i] \in T => \E j \in 1..L : f[j] = i
  BY DEF Picks
<1>1. ASSUME s[n] \in T PROVE \E g : Picks(g, Append(a, s[n]), s, n, T)
  <2> DEFINE b == Append(a, s[n])
             m == L + 1
             g == [j \in 1..m |-> IF j = m THEN n ELSE f[j]]
  <2>1. /\ Len(b) = m /\ b[m] = s[n]
        /\ \A j \in 1..L : b[j] = a[j]
    BY <1>0
  <2>2. m \in 1..m /\ \A j \in 1..m : j = m \/ (j \in 1..L /\ j < m)
    BY <1>0
  <2>3. \A j \in 1..L : j \in 1..m /\ j # m /\ j < m
    BY <1>0
  <2> HIDE DEF m, b, L
  <2>4. /\ g[m] = n
        /\ \A j \in 1..L : g[j] = f[j]
    BY <2>2, <2>3
  <2>5. n \in 1..n
    BY <1>0
  <2>6. g \in [1..m -> 1..n]
    BY <1>b, <2>2, <2>5
  <2> HIDE DEF g
  <2>7. \A j \in 1..m : b[j] = s[g[j]] /\ b[j] \in T
    BY <1>1, <1>a, <2>1, <2>2, <2>4
  <2>8. \A j, k \in 1..m : j < k => g[j] < g[k]
    <3> TAKE j, k \in 1..m
    <3> HAVE j < k
    <3>1. j \in 1..L
      <4>1. m \in Nat /\ k <= m
        BY <1>0 DEF m
      <4> QED
        BY <2>2, <4>1
    <3>2. CASE k = m
      BY <1>b, <2>4, <3>1, <3>2
    <3>3. CASE k \in 1..L
      BY <1>c, <2>4, <3>1, <3>3
    <3> QED
      BY <2>2, <3>2, <3>3
  <2>9. \A i \in 1..n : s[i] \in T => \E j \in 1..m : g[j] = i
    <3> TAKE i \in 1..n
    <3> HAVE s[i] \in T
    <3>1. CASE i = n
      BY <2>2, <2>4, <3>1
    <3>2. CASE i \in 1..(n - 1)
      BY <1>d, <2>3, <2>4, <3>2
    <3>3. i = n \/ i \in 1..(n - 1)
      BY <1>0
    <3> QED
      BY <3>1, <3>2, <3>3
  <2>10. Picks(g, b, s, n, T)
    BY <2>1, <2>6, <2>7, <2>8, <2>9 DEF Picks
  <2> QED
    BY <2>10 DEF b
<1>2. ASSUME s[n] \notin T PROVE Picks(f, a, s, n, T)
  <2>1. f \in [1..L -> 1..n]
    <3>1. f = [j \in 1..L |-> f[j]]
      BY DEF Picks
    <3> HIDE DEF L
    <3> QED
      BY <1>b, <3>1
  <2>2. \A i \in 1..n : s[i] \in T => i \in 1..(n - 1)
    BY <1>0, <1>2
  <2> QED
    BY <1>a, <1>c, <1>d, <2>1, <2>2 DEF Picks
<1> QED
  BY <1>1, <1>2

LEMMA AmongFacts ==
  ASSUME NEW S, NEW s \in Seq(S), NEW T
  PROVE  /\ Among(s, T) \in Seq(S)
         /\ \E f : Picks(f, Among(s, T), s, Len(s), T)
<1> DEFINE Next1(g, i) == IF i = 0 THEN <<>>
                          ELSE IF s[i] \in T THEN Append(g[i - 1], s[i]) ELSE g[i - 1]
           Is(g, n) == g = [i \in 0..n |-> Next1(g, i)]
           first == CHOOSE g : Is(g, Len(s))
<1>1. \E g : Is(g, Len(s))
  <2> DEFINE Bad == {n \in 0..Len(s) : ~\E g : Is(g, n)}
  <2>0. Len(s) \in 0..Len(s)
    <3>1. Len(s) \in Nat
      OBVIOUS
    <3> QED
      BY <3>1
  <2> SUFFICES ASSUME Bad # {} PROVE FALSE
    BY <2>0, Zenon
  <2>1. PICK m \in Bad : \A n \in Bad : m <= n
    <3>1. Bad \in SUBSET Nat
      OBVIOUS
    <3> HIDE DEF Bad
    <3> QED
      BY <3>1, LeastNatural
  <2>a. m \in 0..Len(s) /\ m \in Nat /\ ~\E g : Is(g, m)
    <3>1. \A n \in Bad : n \in 0..Len(s) /\ ~\E g : Is(g, n)
      OBVIOUS
    <3> HIDE DEF Bad, Is
    <3>2. m \in 0..Len(s) /\ ~\E g : Is(g, m)
      BY <3>1
    <3> QED
      BY <3>2
  <2>b. \A n \in 0..Len(s) : n < m => \E g : Is(g, n)
    <3>1. \A n \in 0..Len(s) : n \in Bad \/ \E g : Is(g, n)
      OBVIOUS
    <3> HIDE DEF Bad, Is
    <3> QED
      BY <2>1, <2>a, <3>1
  <2> HIDE DEF Bad
  <2>2. CASE m = 0
    <3>1. Is([i \in 0..0 |-> <<>>], 0)
      <4>1. \A i \in 0..0 : i = 0
        OBVIOUS
      <4>2. [i \in 0..0 |-> <<>>] = [i \in 0..0 |-> Next1([j \in 0..0 |-> <<>>], i)]
        BY <4>1, Zenon
      <4> QED
        BY <4>2
    <3> QED
      BY <2>2, <2>a, <3>1
  <2>3. CASE m # 0
    <3>1. m - 1 \in 0..Len(s) /\ m - 1 < m
      BY <2>a, <2>3
    <3>2. PICK g : Is(g, m - 1)
      BY <2>b, <3>1
    <3> DEFINE h == [i \in 0..m |-> IF i = m THEN Next1(g, m) ELSE g[i]]
    <3>3. \A i \in 0..m : i = m \/ (i \in 0..(m - 1) /\ i # m)
      BY <2>a
    <3>4. \A i \in 0..m : i # 0 => i - 1 \in 0..(m - 1) /\ i - 1 \in 0..m /\ i - 1 # m
      BY <2>a
    <3>5. \A i \in 0..(m - 1) : g[i] = Next1(g, i)
      BY <3>2
    <3>6. \A i \in 0..m : h[i] = IF i = m THEN Next1(g, m) ELSE g[i]
      OBVIOUS
    <3>7. \A i \in 0..m : i # 0 => h[i - 1] = g[i - 1]
      BY <3>4, <3>6
    <3>8. \A i \in 0..m : Next1(h, i) = Next1(g, i)
      BY <3>7
    <3>9. \A i \in 0..m : h[i] = Next1(g, i)
      <4> HIDE DEF h, Next1
      <4> QED
        BY <3>3, <3>5, <3>6
    <3>10. h = [i \in 0..m |-> h[i]]
      OBVIOUS
    <3> HIDE DEF h, Next1
    <3>11. Is(h, m)
      BY <3>8, <3>9, <3>10
    <3> QED
      BY <2>a, <3>11
  <2> QED
    BY <2>2, <2>3
<1>2. Is(first, Len(s))
  BY <1>1
<1>3. Among(s, T) = first[Len(s)]
  BY DEF Among
<1>4. \A i \in 0..Len(s) : first[i] = Next1(first, i)
  BY <1>2
<1> HIDE DEF first
<1> DEFINE Good(n) == first[n] \in Seq(S) /\ \E f : Picks(f, first[n], s, n, T)
           Poor == {n \in 0..Len(s) : ~Good(n)}
<1>5. Good(0)
  <2>1. first[0] = <<>>
    BY <1>4
  <2>2. Picks(<<>>, <<>>, s, 0, T)
    BY DEF Picks
  <2> QED
    BY <2>1, <2>2
<1>6. ASSUME NEW m \in 1..Len(s), Good(m - 1) PROVE Good(m)
  <2>1. PICK f : Picks(f, first[m - 1], s, m - 1, T)
    BY <1>6
  <2>2. first[m] = IF s[m] \in T THEN Append(first[m - 1], s[m]) ELSE first[m - 1]
    BY <1>4
  <2> QED
    BY <1>6, <2>1, <2>2, PicksNext
<1>7. Poor = {}
  <2> SUFFICES ASSUME Poor # {} PROVE FALSE
    OBVIOUS
  <2>1. Poor \in SUBSET Nat
    OBVIOUS
  <2>2. \A n \in Poor : n \in 0..Len(s) /\ ~Good(n)
    OBVIOUS
  <2>3. \A n \in 0..Len(s) : n \notin Poor => Good(n)
    OBVIOUS
  <2> HIDE DEF Poor, Good
  <2>4. PICK m \in Poor : \A n \in Poor : m <= n
    BY <2>1, LeastNatural
  <2>5. m \in 1..Len(s)
    BY <1>5, <2>2
  <2>6. m - 1 \in 0..Len(s) /\ m - 1 \notin Poor
    BY <2>4, <2>5
  <2> QED
    BY <1>6, <2>2, <2>3, <2>5, <2>6
<1> QED
  BY <1>3, <1>7

(* The elements of a list that is turned round.                            *)
LEMMA ReverseElements ==
  ASSUME NEW S, NEW s \in Seq(S)
  PROVE  /\ Reverse(s) \in Seq(S)
         /\ Len(Reverse(s)) = Len(s)
         /\ \A j \in 1..Len(s) : Reverse(s)[j] = s[Len(s) - j + 1]
<1>1. \A j \in 1..Len(s) : Len(s) - j + 1 \in 1..Len(s) /\ s[Len(s) - j + 1] \in S
  OBVIOUS
<1>2. Len(s) \in Nat /\ Reverse(s) = [j \in 1..Len(s) |-> s[Len(s) - j + 1]]
  BY DEF Reverse
<1> QED
  BY <1>1, <1>2

-----------------------------------------------------------------------------
(* Keys and compositions.                                                  *)

(* A code ends with itself.                                                *)
LEMMA OwnEnd == ASSUME NEW code \in Keys PROVE Ends(code, code)
<1>1. code \in 1..999
  BY KeysAssumption
<1>2. 10 \div 10 = 1 /\ 100 \div 10 = 10 /\ 1000 \div 10 = 100
  OBVIOUS
<1>3. CASE code < 10
  BY <1>1, <1>2, <1>3 DEF Ends
<1>4. CASE code >= 10 /\ code < 100
  BY <1>1, <1>2, <1>4 DEF Ends
<1>5. CASE code >= 100
  BY <1>1, <1>2, <1>5 DEF Ends
<1> QED
  BY <1>1, <1>3, <1>4, <1>5

(* A composition that is complete stays so when a key goes up that it does *)
(* not mention.                                                            *)
LEMMA HeldWithout ==
  ASSUME NEW c \in Compose, NEW code \in Keys, NEW down,
         is_compose_press_event_ready(c, down), ~Mentions(c, code)
  PROVE  is_compose_press_event_ready(c, down \ {code})
<1>1. \A k \in 1..Len(c.keys) : c.keys[k] # code
  BY OwnEnd DEF Mentions
<1> QED
  BY <1>1 DEF is_compose_press_event_ready

(* Where no code ends like another, to mention a key is to have it.        *)
LEMMA MentionsIsHas ==
  ASSUME Unambiguous, NEW n \in 1..Len(m_compose_press_head), NEW code \in Keys,
         Mentions(m_compose_press_head[n], code)
  PROVE  \E k \in 1..Len(m_compose_press_head[n].keys) :
           m_compose_press_head[n].keys[k] = code
  BY DEF Unambiguous, Mentions

(* Registering can only make registrations ambiguous.                      *)
LEMMA RegisteringConfuses ==
  ASSUME m_compose_press_head \in Seq(Composes), NEW c \in Composes,
         RK_input_register_compose_press_callback(c), Unambiguous'
  PROVE  Unambiguous
<1> DEFINE s == m_compose_press_head
<1>1. /\ Len(s) \in Nat
      /\ Len(s') = Len(s) + 1
      /\ \A n \in 1..Len(s) : s'[n + 1] = s[n]
  BY DEF RK_input_register_compose_press_callback
<1>2. \A n \in 1..Len(s) : n + 1 \in 1..Len(s') /\ n \in Nat
  BY <1>1
<1> DEFINE t == s'
<1>3. /\ \A a, b \in 1..Len(t) : t[a].keys = t[b].keys => a = b
      /\ \A a \in 1..Len(t) : \A k \in 1..Len(t[a].keys), code \in Keys :
           Ends(t[a].keys[k], code) => t[a].keys[k] = code
  BY DEF Unambiguous
<1> HIDE DEF t
<1>4. \A a, b \in 1..Len(s) : s[a].keys = s[b].keys => a = b
  <2> TAKE a, b \in 1..Len(s)
  <2> HAVE s[a].keys = s[b].keys
  <2>1. a + 1 = b + 1
    BY <1>1, <1>2, <1>3 DEF t
  <2> QED
    BY <1>2, <2>1
<1>5. \A a \in 1..Len(s) : \A k \in 1..Len(s[a].keys), code \in Keys :
        Ends(s[a].keys[k], code) => s[a].keys[k] = code
  BY <1>1, <1>2, <1>3 DEF t
<1> QED
  BY <1>4, <1>5 DEF Unambiguous

(* Only registering changes whether the registrations are ambiguous.       *)
LEMMA UnambiguousBefore ==
  ASSUME m_compose_press_head \in Seq(Composes), [Next]_vars, Unambiguous'
  PROVE  Unambiguous
<1>1. CASE \E c \in Composes : RK_input_register_compose_press_callback(c)
  BY <1>1, RegisteringConfuses
<1>2. CASE UNCHANGED m_compose_press_head
  BY <1>2 DEF Unambiguous
<1> QED
  BY <1>1, <1>2 DEF Next, Press, Release, Signal, Thread, compose_wait_new_event,
     compose_handle_new_event, compose_check_has_event, WaitTimeout, WokenUp,
     Tick, vars

-----------------------------------------------------------------------------
(* What a press queues.                                                    *)

(* None of the compositions that are queued is already there.              *)
LEMMA FreshFacts ==
  ASSUME NEW found \in Seq(Composes)
  PROVE  \E n \in 0..Len(found) :
           Len(Fresh(found)) = n /\ \A k \in 1..n : ~Twice(found, k)
<1>1. CASE ~Leaks(found)
  BY <1>1 DEF Leaks, Fresh
<1>2. CASE Leaks(found)
  <2> DEFINE Is(k) == Twice(found, k) /\ \A j \in 1..(k - 1) : ~Twice(found, j)
             Bad == {k \in 1..Len(found) : Twice(found, k)}
             at == CHOOSE k \in 1..Len(found) : Is(k)
  <2>1. Bad \in SUBSET Nat /\ Bad # {}
    BY <1>2 DEF Leaks
  <2>2. PICK m \in Bad : \A k \in Bad : m <= k
    BY <2>1, LeastNatural
  <2>3. m \in 1..Len(found) /\ Twice(found, m)
    BY <2>2
  <2>4. \A j \in 1..(m - 1) : ~Twice(found, j)
    BY <2>2, <2>3
  <2>5. \E k \in 1..Len(found) : Is(k)
    BY <2>3, <2>4
  <2>6. at \in 1..Len(found) /\ Is(at)
    BY <2>5
  <2>7. Fresh(found) = SubSeq(found, 1, at - 1)
    BY <1>2 DEF Fresh
  <2> HIDE DEF at
  <2>8. Len(Fresh(found)) = at - 1
    BY <2>6, <2>7
  <2>9. at - 1 \in 0..Len(found)
    BY <2>6
  <2> QED
    BY <2>6, <2>8, <2>9
<1> QED
  BY <1>1, <1>2

(* The compositions found by a press: they are registrations, in their     *)
(* order, that are complete and mention the key, and some of the first of  *)
(* them are put in front of the queue.                                     *)
LEMMA Pressed ==
  ASSUME TypeOK, NEW code \in Keys, Press(code)
  PROVE  LET q == m_compose_long_press_head
             s == m_compose_press_head
             down == m_key_pressed_head \cup {code}
             found == Found(code, down)
         IN
         /\ found \in Seq(Composes)
         /\ \A k \in 1..Len(found) :
              is_compose_press_event_ready(found[k], down) /\ Mentions(found[k], code)
         /\ \E f : /\ f \in [1..Len(found) -> 1..Len(s)]
                   /\ \A k \in 1..Len(found) : found[k] = s[f[k]]
                   /\ \A j, k \in 1..Len(found) : j < k => f[j] < f[k]
         /\ q' \in Seq(Entry)
         /\ \E n \in 0..Len(found) :
              /\ \A k \in 1..n : ~Twice(found, k)
              /\ Len(q') = n + Len(q)
              /\ \A j \in 1..n : q'[j].of = found[n - j + 1]
              /\ \A j \in (n + 1)..(n + Len(q)) : q'[j] = q[j - n]
<1> DEFINE q == m_compose_long_press_head
           s == m_compose_press_head
           down == m_key_pressed_head \cup {code}
           found == Found(code, down)
           T == {c \in Composes : is_compose_press_event_ready(c, down) /\ Mentions(c, code)}
<1>1. s \in Seq(Composes) /\ q \in Seq(Entry)
  BY DEF TypeOK
<1>2. found = Among(s, T)
  BY DEF Found
<1>3. found \in Seq(Composes) /\ \E f : Picks(f, found, s, Len(s), T)
  BY <1>1, <1>2, AmongFacts
<1> DEFINE new == [k \in 1..Len(Fresh(found)) |-> [of |-> found[k], age |-> 0]]
<1>4. q' = Reverse(new) \o q
  BY DEF Press
<1> HIDE DEF found, T
<1>5. \A k \in 1..Len(found) : found[k] \in T
  BY <1>3 DEF Picks
<1>6. \A k \in 1..Len(found) :
        is_compose_press_event_ready(found[k], down) /\ Mentions(found[k], code)
  BY <1>5 DEF T
<1>7. \E f : /\ f \in [1..Len(found) -> 1..Len(s)]
             /\ \A k \in 1..Len(found) : found[k] = s[f[k]]
             /\ \A j, k \in 1..Len(found) : j < k => f[j] < f[k]
  BY <1>3 DEF Picks
<1>8. PICK n \in 0..Len(found) :
        Len(Fresh(found)) = n /\ \A k \in 1..n : ~Twice(found, k)
  BY <1>3, FreshFacts
<1>9. new \in Seq(Entry) /\ Len(new) = n /\ \A k \in 1..n : new[k].of = found[k]
  <2>1. \A k \in 1..n : found[k] \in Compose /\ 0 \in 0..MaxAge
    BY <1>3, ComposesAssumption, AgeAssumption
  <2>2. \A k \in 1..n : [of |-> found[k], age |-> 0] \in Entry
    BY <2>1 DEF Entry
  <2>3. n \in Nat /\ new = [k \in 1..n |-> [of |-> found[k], age |-> 0]]
    BY <1>8
  <2> HIDE DEF new
  <2> QED
    BY <2>2, <2>3
<1> HIDE DEF new
<1> DEFINE rev == Reverse(new)
<1>10. /\ rev \in Seq(Entry) /\ Len(rev) = n
       /\ \A j \in 1..n : rev[j] = new[n - j + 1]
  BY <1>9, ReverseElements
<1> HIDE DEF rev
<1>11. /\ (rev \o q) \in Seq(Entry) /\ Len(rev \o q) = Len(rev) + Len(q)
       /\ \A j \in 1..Len(rev) : (rev \o q)[j] = rev[j]
       /\ \A j \in (Len(rev) + 1)..(Len(rev) + Len(q)) : (rev \o q)[j] = q[j - Len(rev)]
  BY <1>1, <1>10, ConcatElements
<1>12. q' \in Seq(Entry) /\ Len(q') = n + Len(q)
  BY <1>4, <1>10, <1>11 DEF rev
<1>13. \A j \in 1..n : q'[j].of = found[n - j + 1]
  <2> TAKE j \in 1..n
  <2>1. n - j + 1 \in 1..n
    OBVIOUS
  <2>2. q'[j] = new[n - j + 1]
    BY <1>4, <1>10, <1>11 DEF rev
  <2> QED
    BY <1>9, <2>1, <2>2
<1>14. \A j \in (n + 1)..(n + Len(q)) : q'[j] = q[j - n]
  BY <1>4, <1>10, <1>11 DEF rev
<1> QED
  BY <1>3, <1>6, <1>7, <1>8, <1>12, <1>13, <1>14 DEF found

(* Where registrations are not ambiguous, a press finds only compositions  *)
(* that were not complete before, each once.                               *)
LEMMA FoundIsNew ==
  ASSUME TypeOK, Unambiguous, NEW code \in Keys, Press(code)
  PROVE  LET found == Found(code, m_key_pressed_head \cup {code}) IN
         /\ \A k \in 1..Len(found) :
              ~is_compose_press_event_ready(found[k], m_key_pressed_head)
         /\ \A j, k \in 1..Len(found) : j < k => found[j].keys # found[k].keys
<1> DEFINE s == m_compose_press_head
           found == Found(code, m_key_pressed_head \cup {code})
<1>1. \A k \in 1..Len(found) : Mentions(found[k], code)
  BY Pressed
<1>2. PICK f : /\ f \in [1..Len(found) -> 1..Len(s)]
               /\ \A k \in 1..Len(found) : found[k] = s[f[k]]
               /\ \A j, k \in 1..Len(found) : j < k => f[j] < f[k]
  BY Pressed
<1> HIDE DEF found
<1>3. \A k \in 1..Len(found) : f[k] \in 1..Len(s) /\ f[k] \in Nat
  BY <1>2
<1>4. ASSUME NEW k \in 1..Len(found)
      PROVE  ~is_compose_press_event_ready(found[k], m_key_pressed_head)
  <2>a. Mentions(s[f[k]], code) /\ f[k] \in 1..Len(s)
    <3>1. found[k] = s[f[k]] /\ Mentions(found[k], code)
      BY <1>1, <1>2
    <3> QED
      BY <1>3, <3>1, Zenon
  <2>b. \E i \in 1..Len(s[f[k]].keys) : s[f[k]].keys[i] = code
    BY <2>a, MentionsIsHas
  <2>1. PICK i \in 1..Len(found[k].keys) : found[k].keys[i] = code
    BY <1>2, <2>b
  <2>2. code \notin m_key_pressed_head
    BY DEF Press
  <2> QED
    BY <2>1, <2>2 DEF is_compose_press_event_ready
<1>5. ASSUME NEW j \in 1..Len(found), NEW k \in 1..Len(found), j < k
      PROVE  found[j].keys # found[k].keys
  <2>1. f[j] < f[k] /\ f[j] # f[k]
    BY <1>2, <1>3, <1>5
  <2>2. f[j] \in 1..Len(s) /\ f[k] \in 1..Len(s) /\ found[j] = s[f[j]] /\ found[k] = s[f[k]]
    BY <1>2, <1>3
  <2>3. s[f[j]].keys # s[f[k]].keys
    BY <2>1, <2>2 DEF Unambiguous
  <2> QED
    BY <2>2, <2>3
<1> QED
  BY <1>4, <1>5 DEF found

-----------------------------------------------------------------------------
(* What a release and a callback leave in the queue.                       *)

(* A queue that is part of the queue, in its order.                        *)
Part(r, q) ==
  \E f : /\ f \in [1..Len(r) -> 1..Len(q)]
         /\ \A j \in 1..Len(r) : r[j] = q[f[j]]
         /\ \A j, k \in 1..Len(r) : j < k => f[j] < f[k]

(* A release leaves exactly the entries that do not mention the key.       *)
LEMMA Released ==
  ASSUME TypeOK, NEW code \in Keys, Release(code)
  PROVE  LET q == m_compose_long_press_head IN
         /\ q' \in Seq(Entry)
         /\ Part(q', q)
         /\ \A j \in 1..Len(q') : ~Mentions(q'[j].of, code)
         /\ \A i \in 1..Len(q) : ~Mentions(q[i].of, code) =>
              \E j \in 1..Len(q') : q'[j] = q[i]
         /\ (\E i \in 1..Len(q) : Mentions(q[i].of, code)) =>
              compose' = signal(compose) /\ m_key_up' = code
<1> DEFINE q == m_compose_long_press_head
           T == {e \in ToSet(q) : ~Mentions(e.of, code)}
           kept == Among(q, T)
<1>1. q \in Seq(Entry)
  BY DEF TypeOK
<1>2. \A i \in 1..Len(q) : q[i] \in T <=> ~Mentions(q[i].of, code)
  <2>1. \A i \in 1..Len(q) : q[i] \in ToSet(q)
    BY <1>1 DEF ToSet
  <2> QED
    BY <2>1
<1>3. \A e \in T : ~Mentions(e.of, code)
  OBVIOUS
<1> HIDE DEF T
<1>4. kept \in Seq(Entry) /\ \E f : Picks(f, kept, q, Len(q), T)
  BY <1>1, AmongFacts
<1>5. q' = kept
  BY DEF Release, T
<1>6. Removes(kept) => compose' = signal(compose) /\ m_key_up' = code
  BY DEF Release, T
<1> HIDE DEF kept
<1>7. PICK f : Picks(f, kept, q, Len(q), T)
  BY <1>4
<1>8. Part(kept, q)
  BY <1>7 DEF Picks, Part
<1>9. \A j \in 1..Len(kept) : ~Mentions(kept[j].of, code)
  BY <1>3, <1>7 DEF Picks
<1>10. \A i \in 1..Len(q) : ~Mentions(q[i].of, code) => \E j \in 1..Len(kept) : kept[j] = q[i]
  BY <1>2, <1>7 DEF Picks
<1>11. (\E i \in 1..Len(q) : Mentions(q[i].of, code)) => kept # q
  BY <1>9
<1> QED
  BY <1>4, <1>5, <1>6, <1>8, <1>9, <1>10, <1>11 DEF Removes

(* A callback takes the composition out of the queue.                      *)
LEMMA CalledBack ==
  ASSUME TypeOK, QueueIsHeld, NEW c \in Compose, CallBack(c)
  PROVE  LET q == m_compose_long_press_head IN
         /\ q' \in Seq(Entry)
         /\ Part(q', q)
         /\ \A j \in 1..Len(q') : q'[j].of.keys # c.keys
<1> DEFINE q == m_compose_long_press_head
           same == {k \in 1..Len(q) : q[k].of.keys = c.keys}
<1>1. q \in Seq(Entry) /\ Len(q) \in Nat
  BY DEF TypeOK
<1>2. CASE same = {}
  <2>1. q' = q
    BY <1>2 DEF CallBack
  <2>2. Part(q, q)
    <3> DEFINE f == [j \in 1..Len(q) |-> j]
    <3>1. f \in [1..Len(q) -> 1..Len(q)] /\ \A j \in 1..Len(q) : f[j] = j
      OBVIOUS
    <3> HIDE DEF f
    <3> QED
      BY <3>1 DEF Part
  <2> QED
    BY <1>1, <1>2, <2>1, <2>2
<1>3. CASE same # {}
  <2> DEFINE i == CHOOSE k \in same : \A j \in same : k <= j
  <2>1. same \in SUBSET Nat
    OBVIOUS
  <2>2. \E k \in same : \A j \in same : k <= j
    BY <1>3, <2>1, LeastNatural
  <2>3. i \in same
    BY <2>2
  <2>4. q' = RemoveAt(q, i)
    BY <1>3 DEF CallBack
  <2>5. i \in 1..Len(q) /\ q[i].of.keys = c.keys
    BY <2>3
  <2> HIDE DEF i
  <2>6. /\ q' \in Seq(Entry)
        /\ Len(q') = Len(q) - 1
        /\ \A j \in 1..(Len(q) - 1) : q'[j] = IF j < i THEN q[j] ELSE q[j + 1]
    BY <1>1, <2>4, <2>5, RemoveAtElements
  <2> DEFINE f == [j \in 1..(Len(q) - 1) |-> IF j < i THEN j ELSE j + 1]
  <2>7. \A j \in 1..(Len(q) - 1) : j \in 1..Len(q) /\ j + 1 \in 1..Len(q)
    BY <1>1
  <2>8. f \in [1..(Len(q) - 1) -> 1..Len(q)]
    BY <2>7
  <2>9. \A j \in 1..(Len(q) - 1) : f[j] = IF j < i THEN j ELSE j + 1
    OBVIOUS
  <2> HIDE DEF f
  <2>10. \A j \in 1..(Len(q) - 1) : q'[j] = q[f[j]] /\ f[j] # i
    BY <1>1, <2>5, <2>6, <2>9
  <2>11. \A j, k \in 1..(Len(q) - 1) : j < k => f[j] < f[k]
    BY <1>1, <2>5, <2>9
  <2>12. Part(q', q)
    BY <2>6, <2>8, <2>10, <2>11 DEF Part
  <2>13. \A j \in 1..Len(q') : q'[j].of.keys # c.keys
    <3> TAKE j \in 1..Len(q')
    <3>1. f[j] \in 1..Len(q) /\ f[j] # i /\ q'[j] = q[f[j]]
      BY <2>6, <2>8, <2>10
    <3> QED
      BY <2>5, <3>1 DEF QueueIsHeld
  <2> QED
    BY <2>6, <2>12, <2>13
<1> QED
  BY <1>2, <1>3

(* The queue has an earliest entry unless it is empty.                     *)
LEMMA EarliestIsQueued ==
  ASSUME TypeOK, m_compose_long_press_head # <<>>
  PROVE  get_earliest_compose_long_event \in 1..Len(m_compose_long_press_head)
<1> DEFINE q == m_compose_long_press_head
           left(k) == q[k].of.time - q[k].age
           L == {left(k) + MaxAge : k \in 1..Len(q)}
           Is(k) == /\ \A j \in 1..Len(q) : left(k) <= left(j)
                    /\ \A j \in 1..(k - 1) : left(k) < left(j)
<1>1. q \in Seq(Entry) /\ Len(q) \in Nat /\ Len(q) # 0
  BY DEF TypeOK
<1>2. \A k \in 1..Len(q) : left(k) \in Int /\ left(k) + MaxAge \in Nat
  <2> TAKE k \in 1..Len(q)
  <2>1. q[k] \in Entry
    BY <1>1
  <2>2. q[k].of.time \in Nat /\ q[k].age \in 0..MaxAge
    BY <2>1 DEF Entry, Compose
  <2> QED
    BY <2>2, AgeAssumption
<1> HIDE DEF left
<1>3. L \in SUBSET Nat /\ L # {}
  <2>1. 1 \in 1..Len(q)
    BY <1>1
  <2> QED
    BY <1>2, <2>1
<1>4. PICK l \in L : \A m \in L : l <= m
  <2> HIDE DEF L
  <2> QED
    BY <1>3, LeastNatural
<1>5. \A m \in L : l <= m
  BY <1>4
<1> DEFINE B == {k \in 1..Len(q) : left(k) + MaxAge = l}
<1>6. B \in SUBSET Nat /\ B # {}
  BY <1>4
<1>7. PICK k \in B : \A j \in B : k <= j
  <2> HIDE DEF B
  <2> QED
    BY <1>6, LeastNatural
<1>8. k \in 1..Len(q) /\ left(k) + MaxAge = l
  BY <1>7
<1>9. \A j \in 1..Len(q) : l <= left(j) + MaxAge
  BY <1>5
<1>10. \A j \in 1..Len(q) : left(k) <= left(j)
  BY <1>2, <1>8, <1>9, AgeAssumption
<1>11. \A j \in 1..(k - 1) : left(k) < left(j)
  <2> TAKE j \in 1..(k - 1)
  <2>1. j \in 1..Len(q) /\ j \notin B
    BY <1>1, <1>7, <1>8
  <2>2. left(j) + MaxAge # l
    BY <2>1
  <2> QED
    BY <1>2, <1>8, <1>10, <2>1, <2>2, AgeAssumption
<1>12. \E i \in 1..Len(q) : Is(i)
  BY <1>8, <1>10, <1>11
<1>13. (CHOOSE i \in 1..Len(q) : Is(i)) \in 1..Len(q)
  BY <1>12
<1> QED
  BY <1>13 DEF get_earliest_compose_long_event, left

-----------------------------------------------------------------------------
(* The inductive invariant.                                                *)

(* What the thread waits for is in the queue until it is freed; that wakes *)
(* the thread, and the flag is set until another release comes.            *)
EventQueued ==
  /\ event # NULL <=> compose \in {"timed", "woken"}
  /\ event # NULL /\ freed = 0 =>
       \E k \in 1..Len(m_compose_long_press_head) : m_compose_long_press_head[k].of = event
  /\ freed > 0 => compose = "woken"
  /\ freed = 1 => m_key_up > 0

(* A composition was called back at most once, and then it is no longer    *)
(* queued; nor was what the thread waits for, freed or not.                *)
CalledIsGone ==
  \A c \in Composes :
    /\ called[c] <= 1
    /\ called[c] > 0 =>
         \A k \in 1..Len(m_compose_long_press_head) : m_compose_long_press_head[k].of # c
    /\ event = c => called[c] = 0

IInv ==
  /\ TypeOK
  /\ QueueIsHeld
  /\ EventQueued
  /\ MutexGivenBack
  /\ Unambiguous => CalledIsGone

(* Registering can only make registrations ambiguous: where they are not,  *)
(* the monitor had not kept the mutex, and a press finds nothing twice.    *)
LEMMA MutexStep ==
  ASSUME TypeOK, QueueIsHeld, MutexGivenBack, [Next]_vars
  PROVE  MutexGivenBack'
<1> SUFFICES ASSUME Unambiguous' PROVE ~leaked'
  BY DEF MutexGivenBack
<1>1. Unambiguous
  BY UnambiguousBefore DEF TypeOK
<1>2. ~leaked
  BY <1>1 DEF MutexGivenBack
<1>3. ASSUME NEW code \in Keys, Press(code) PROVE ~leaked'
  <2> DEFINE q == m_compose_long_press_head
             found == Found(code, m_key_pressed_head \cup {code})
  <2>1. /\ \A k \in 1..Len(found) :
             ~is_compose_press_event_ready(found[k], m_key_pressed_head)
        /\ \A j, k \in 1..Len(found) : j < k => found[j].keys # found[k].keys
    BY <1>1, <1>3, FoundIsNew
  <2>2. leaked' = Leaks(found)
    BY <1>3 DEF Press
  <2>3. found \in Seq(Composes)
    BY <1>3, Pressed
  <2> HIDE DEF found
  <2>4. ASSUME NEW k \in 1..Len(found) PROVE ~Twice(found, k)
    <3>1. \A i \in 1..Len(q) : q[i].of.keys # found[k].keys
      <4> SUFFICES ASSUME NEW i \in 1..Len(q), q[i].of.keys = found[k].keys PROVE FALSE
        OBVIOUS
      <4>1. is_compose_press_event_ready(q[i].of, m_key_pressed_head)
        BY DEF QueueIsHeld
      <4>2. is_compose_press_event_ready(found[k], m_key_pressed_head)
        BY <4>1 DEF is_compose_press_event_ready
      <4> QED
        BY <2>1, <4>2
    <3>2. \A j \in 1..(k - 1) : j \in 1..Len(found) /\ j < k
      BY <2>3
    <3>3. \A j \in 1..(k - 1) : found[j].keys # found[k].keys
      BY <2>1, <3>2
    <3> QED
      BY <3>1, <3>3 DEF Twice, Queued
  <2> QED
    BY <2>2, <2>4 DEF Leaks
<1>4. CASE UNCHANGED leaked
  BY <1>2, <1>4
<1> QED
  BY <1>3, <1>4 DEF Next, RK_input_register_compose_press_callback, Release, Signal,
     Thread, compose_wait_new_event, compose_handle_new_event,
     compose_check_has_event, WaitTimeout, WokenUp, Tick, vars

(* What the thread calls back is in the queue, or was freed two releases   *)
(* before.                                                                 *)
LEMMA OnlyQueuedCalled ==
  ASSUME TypeOK, QueueIsHeld, EventQueued, compose_check_has_event \/ WokenUp
  PROVE  \/ UNCHANGED <<m_compose_long_press_head, called>>
         \/ \E k \in 1..Len(m_compose_long_press_head) :
              CallBack(m_compose_long_press_head[k].of)
         \/ event \in Compose /\ freed = 2 /\ CallBack(event)
<1> DEFINE q == m_compose_long_press_head
<1>1. CASE compose_check_has_event
  <2>1. q # <<>> => get_earliest_compose_long_event \in 1..Len(q)
    BY EarliestIsQueued
  <2>2. CASE q = <<>>
    BY <1>1, <2>2 DEF compose_check_has_event
  <2>3. CASE q # <<>>
    <3> DEFINE k == get_earliest_compose_long_event
    <3>1. q[k] \in Entry
      BY <2>1, <2>3 DEF TypeOK
    <3>2. q[k].age \in Int /\ q[k].of.time \in Int
      BY <3>1, AgeAssumption DEF Entry, Compose
    <3>3. q[k].age >= q[k].of.time \/ q[k].age < q[k].of.time
      BY <3>2
    <3>4. CallBack(q[k].of) \/ UNCHANGED <<q, called>>
      BY <1>1, <2>3, <3>3 DEF compose_check_has_event
    <3> QED
      BY <2>1, <2>3, <3>4
  <2> QED
    BY <2>2, <2>3
<1>2. CASE WokenUp
  <2>1. event \in Compose /\ freed \in 0..2
    BY <1>2 DEF WokenUp, EventQueued, TypeOK
  <2>2. \/ UNCHANGED <<q, called>>
        \/ \E k \in 1..Len(q) : CallBack(q[k].of)
        \/ ~(m_key_up > 0) /\ CallBack(event)
    BY <1>2 DEF WokenUp
  <2>3. CASE ~(m_key_up > 0) /\ CallBack(event)
    <3>1. freed # 1
      BY <2>3 DEF EventQueued
    <3>2. CASE freed = 0
      BY <2>1, <2>3, <3>2, NullAssumption DEF EventQueued
    <3>3. CASE freed = 2
      BY <2>1, <2>3, <3>3
    <3> QED
      BY <2>1, <3>1, <3>2, <3>3
  <2> QED
    BY <2>2, <2>3
<1> QED
  BY <1>1, <1>2

(* A tick changes ages only.                                               *)
LEMMA Ticked ==
  ASSUME TypeOK, Tick
  PROVE  LET q == m_compose_long_press_head IN
         /\ Len(q') = Len(q)
         /\ \A k \in 1..Len(q) : q'[k].of = q[k].of
<1> DEFINE q == m_compose_long_press_head
           r == [k \in 1..Len(q) |-> [q[k] EXCEPT !.age = @ + 1]]
<1>1. q \in Seq(Entry) /\ Len(q) \in Nat
  BY DEF TypeOK
<1>2. Len(r) = Len(q)
  BY <1>1
<1>3. \A k \in 1..Len(q) : r[k].of = q[k].of
  <2> TAKE k \in 1..Len(q)
  <2>1. q[k] \in Entry
    BY <1>1
  <2> QED
    BY <2>1 DEF Entry
<1> QED
  BY <1>2, <1>3 DEF Tick

(* A step keeps what the thread waits for in the queue, or tells that it   *)
(* was freed.                                                              *)
LEMMA EventStep ==
  ASSUME TypeOK, EventQueued, [Next]_vars
  PROVE  EventQueued'
<1> DEFINE q == m_compose_long_press_head
<1>0. /\ event # NULL <=> compose \in {"timed", "woken"}
      /\ event # NULL /\ freed = 0 => \E k \in 1..Len(q) : q[k].of = event
      /\ freed > 0 => compose = "woken"
      /\ freed = 1 => m_key_up > 0
  BY DEF EventQueued
<1>t. freed \in 0..2
  BY DEF TypeOK
<1>1. ASSUME NEW code \in Keys, Press(code) PROVE EventQueued'
  <2>1. UNCHANGED <<compose, event, freed, m_key_up>>
    BY <1>1 DEF Press
  <2>2. ASSUME event # NULL, freed = 0 PROVE \E k \in 1..Len(q') : q'[k].of = event
    <3>1. PICK i \in 1..Len(q) : q[i].of = event
      BY <1>0, <2>2
    <3>2. PICK n \in 0..Len(Found(code, m_key_pressed_head \cup {code})) :
            /\ Len(q') = n + Len(q)
            /\ \A j \in (n + 1)..(n + Len(q)) : q'[j] = q[j - n]
      BY <1>1, Pressed
    <3>3. n \in Nat /\ Len(q) \in Nat
      BY <1>1, Pressed DEF TypeOK
    <3>4. n + i \in (n + 1)..(n + Len(q)) /\ n + i \in 1..Len(q') /\ (n + i) - n = i
      BY <3>2, <3>3
    <3>5. q'[n + i] = q[i]
      BY <3>2, <3>4
    <3> QED
      BY <3>1, <3>4, <3>5
  <2> QED
    BY <1>0, <2>1, <2>2 DEF EventQueued
<1>2. ASSUME NEW code \in Keys, Release(code) PROVE EventQueued'
  <2> DEFINE frees == event # NULL /\ freed = 0 /\ Mentions(event, code)
  <2>1. /\ event' = event
        /\ freed' = IF frees THEN 1 ELSE IF freed > 0 THEN 2 ELSE 0
        /\ compose' \in {compose, signal(compose)}
    BY <1>2 DEF Release
  <2>2. /\ compose \in {"timed", "woken"} <=> compose' \in {"timed", "woken"}
        /\ compose = "woken" => compose' = "woken"
    BY <2>1 DEF signal
  <2>3. frees => compose' = "woken" /\ m_key_up' > 0
    <3> SUFFICES ASSUME frees PROVE compose' = "woken" /\ m_key_up' > 0
      OBVIOUS
    <3>1. PICK i \in 1..Len(q) : q[i].of = event
      BY <1>0
    <3>2. compose' = signal(compose) /\ m_key_up' = code
      BY <1>2, <3>1, Released
    <3>3. compose \in {"timed", "woken"} /\ code > 0
      BY <1>0, KeysAssumption
    <3> QED
      BY <3>2, <3>3 DEF signal
  <2>4. ASSUME event # NULL, freed' = 0 PROVE \E k \in 1..Len(q') : q'[k].of = event
    <3>1. freed = 0 /\ ~Mentions(event, code)
      BY <1>t, <2>1, <2>4
    <3>2. PICK i \in 1..Len(q) : q[i].of = event
      BY <1>0, <2>4, <3>1
    <3>3. PICK k \in 1..Len(q') : q'[k] = q[i]
      BY <1>2, <3>1, <3>2, Released
    <3> QED
      BY <3>2, <3>3
  <2>5. freed' > 0 => compose' = "woken"
    BY <1>0, <1>t, <2>1, <2>2, <2>3
  <2>6. freed' = 1 => m_key_up' > 0
    BY <2>1, <2>3
  <2> HIDE DEF frees
  <2> QED
    BY <1>0, <2>1, <2>2, <2>4, <2>5, <2>6 DEF EventQueued
<1>3. CASE compose_check_has_event
  <2>1. event = NULL /\ freed = 0 /\ freed' = freed
    BY <1>0, <1>3, <1>t DEF compose_check_has_event
  <2>2. q # <<>> => get_earliest_compose_long_event \in 1..Len(q)
    BY EarliestIsQueued
  <2> DEFINE k == get_earliest_compose_long_event
  <2>3. CASE q = <<>>
    BY <1>3, <2>1, <2>3 DEF compose_check_has_event, EventQueued
  <2>4. CASE q # <<>>
    <3>1. q[k] \in Entry
      BY <2>2, <2>4 DEF TypeOK
    <3> HIDE DEF k
    <3>2. q[k].age \in Int /\ q[k].of.time \in Int /\ q[k].of # NULL
      BY <3>1, AgeAssumption, NullAssumption DEF Entry, Compose
    <3>3. q[k].age >= q[k].of.time \/ q[k].age < q[k].of.time
      BY <3>2
    <3>4. \/ compose' = "loop" /\ event' = event
          \/ compose' = "timed" /\ event' = q[k].of /\ q' = q
      BY <1>3, <2>4, <3>3 DEF compose_check_has_event, k
    <3>5. k \in 1..Len(q)
      BY <2>2, <2>4 DEF k
    <3> QED
      BY <2>1, <3>2, <3>4, <3>5 DEF EventQueued
  <2> QED
    BY <2>3, <2>4
<1>4. CASE WokenUp
  <2>1. event' = NULL /\ freed' = 0 /\ compose' \in {"loop", "undefined"}
    BY <1>4 DEF WokenUp
  <2> QED
    BY <2>1 DEF EventQueued
<1>5. CASE Tick
  <2>1. UNCHANGED <<compose, event, freed, m_key_up>>
    BY <1>5 DEF Tick
  <2>2. ASSUME event # NULL, freed = 0 PROVE \E k \in 1..Len(q') : q'[k].of = event
    <3>1. PICK k \in 1..Len(q) : q[k].of = event
      BY <1>0, <2>2
    <3> QED
      BY <1>5, <3>1, Ticked
  <2> QED
    BY <1>0, <2>1, <2>2 DEF EventQueued
<1>6. CASE Signal
  <2>1. UNCHANGED <<event, freed, m_key_up, q>> /\ compose' \in {compose, signal(compose)}
    BY <1>6 DEF Signal
  <2>2. /\ compose \in {"timed", "woken"} <=> compose' \in {"timed", "woken"}
        /\ compose = "woken" => compose' = "woken"
    BY <2>1 DEF signal
  <2> QED
    BY <1>0, <2>1, <2>2 DEF EventQueued
<1>w. CASE WaitTimeout
  <2>1. /\ UNCHANGED <<event, freed, m_key_up, q>>
        /\ compose = "timed" /\ compose' = "woken"
    BY <1>w DEF WaitTimeout
  <2> QED
    BY <1>0, <2>1 DEF EventQueued
<1>7. CASE compose_wait_new_event \/ compose_handle_new_event
  <2>1. /\ UNCHANGED <<event, freed, m_key_up, q>>
        /\ compose \in {"loop", "handle"} /\ compose' \in {"handle", "check"}
    BY <1>7 DEF compose_wait_new_event, compose_handle_new_event
  <2> QED
    BY <1>0, <1>t, <2>1 DEF EventQueued
<1>8. CASE UNCHANGED <<q, compose, event, freed, m_key_up>>
  BY <1>0, <1>8 DEF EventQueued
<1> QED
  BY <1>1, <1>2, <1>3, <1>4, <1>5, <1>6, <1>w, <1>7, <1>8
     DEF Next, Thread, RK_input_register_compose_press_callback, vars

(* A step keeps the types.                                                 *)
LEMMA TypeStep ==
  ASSUME TypeOK, QueueIsHeld, EventQueued, [Next]_vars
  PROVE  TypeOK'
<1> USE DEF TypeOK
<1>f. freed' \in 0..2
  <2>1. ASSUME NEW code \in Keys, Release(code) PROVE freed' \in 0..2
    <3>1. freed' \in {0, 1, 2}
      BY <2>1 DEF Release
    <3> QED
      BY <3>1
  <2>2. CASE WokenUp
    BY <2>2 DEF WokenUp
  <2>3. CASE UNCHANGED freed
    BY <2>3
  <2> QED
    BY <2>1, <2>2, <2>3
       DEF Next, Thread, RK_input_register_compose_press_callback, Press, Signal,
           compose_wait_new_event, compose_handle_new_event, compose_check_has_event,
           WaitTimeout, Tick, vars
<1>e. compose' = "timed" => event' # NULL /\ freed' = 0
  BY <1>f, EventStep DEF EventQueued
<1>1. ASSUME NEW c \in Composes, RK_input_register_compose_press_callback(c) PROVE TypeOK'
  BY <1>1 DEF RK_input_register_compose_press_callback
<1>2. ASSUME NEW code \in Keys, Press(code) PROVE TypeOK'
  <2>1. m_compose_long_press_head' \in Seq(Entry)
    BY <1>2, Pressed
  <2>2. compose_state' \in 0..2 /\ leaked' \in BOOLEAN /\ monitor' \in {"idle", "signal"}
        /\ m_key_pressed_head' \in SUBSET Keys
    BY <1>2 DEF Press, Leaks, Twice, Queued
  <2>3. called' \in [Composes -> 0..2]
    BY <1>2 DEF Press
  <2> QED
    BY <1>2, <2>1, <2>2, <2>3 DEF Press
<1>3. ASSUME NEW code \in Keys, Release(code) PROVE TypeOK'
  <2>1. m_compose_long_press_head' \in Seq(Entry)
    BY <1>3, Released
  <2>2. /\ m_key_pressed_head' \in SUBSET Keys
        /\ m_key_up' \in Keys \cup {0}
        /\ compose_state' \in 0..2
        /\ freed' \in 0..2
    BY <1>3 DEF Release
  <2>3. compose' \in ThreadStates
    BY <1>3 DEF Release, signal, ThreadStates
  <2> QED
    BY <1>3, <1>e, <2>1, <2>2, <2>3 DEF Release
<1>4. CASE Signal
  BY <1>4 DEF Signal, signal, ThreadStates
<1>5. CASE compose_wait_new_event
  BY <1>5 DEF compose_wait_new_event, ThreadStates
<1>6. CASE compose_handle_new_event
  BY <1>6 DEF compose_handle_new_event, ThreadStates
<1>a. ASSUME NEW c \in Compose, CallBack(c)
      PROVE  m_compose_long_press_head' \in Seq(Entry) /\ called' \in [Composes -> 0..2]
  <2>1. called' = [called EXCEPT ![c] = IF @ = 2 THEN 2 ELSE @ + 1]
    BY <1>a DEF CallBack
  <2>2. \A x \in 0..2 : (IF x = 2 THEN 2 ELSE x + 1) \in 0..2
    OBVIOUS
  <2>3. called' \in [Composes -> 0..2]
    BY <2>1, <2>2
  <2>4. m_compose_long_press_head' \in Seq(Entry)
    BY <1>a, CalledBack
  <2> QED
    BY <2>3, <2>4
<1>q. ASSUME NEW k \in 1..Len(m_compose_long_press_head)
      PROVE  m_compose_long_press_head[k].of \in Compose
  <2>1. m_compose_long_press_head[k] \in Entry
    OBVIOUS
  <2> QED
    BY <2>1 DEF Entry
<1>b. ASSUME compose_check_has_event \/ WokenUp
      PROVE  m_compose_long_press_head' \in Seq(Entry) /\ called' \in [Composes -> 0..2]
  BY <1>a, <1>b, <1>q, OnlyQueuedCalled
<1>7. CASE compose_check_has_event
  <2> DEFINE q == m_compose_long_press_head
             k == get_earliest_compose_long_event
  <2>1. CASE q = <<>>
    BY <1>7, <1>b, <2>1 DEF compose_check_has_event, ThreadStates
  <2>2. CASE q # <<>>
    <3>1. q[k] \in Entry
      BY <2>2, EarliestIsQueued
    <3> HIDE DEF k
    <3>2. q[k].age \in Int /\ q[k].of.time \in Int /\ q[k].of \in Compose
      BY <3>1, AgeAssumption DEF Entry, Compose
    <3>3. \/ compose' = "loop" /\ event' = event
          \/ compose' = "timed" /\ event' = q[k].of
      <4>1. q[k].age >= q[k].of.time \/ q[k].age < q[k].of.time
        BY <3>2
      <4> QED
        BY <1>7, <2>2, <4>1 DEF compose_check_has_event, k
    <3>4. event' \in Compose \cup {NULL}
      BY <3>2, <3>3
    <3> QED
      BY <1>7, <1>b, <1>e, <3>3, <3>4 DEF compose_check_has_event, ThreadStates
  <2> QED
    BY <2>1, <2>2
<1>8. CASE WaitTimeout
  BY <1>8 DEF WaitTimeout, ThreadStates
<1>9. CASE WokenUp
  BY <1>9, <1>b DEF WokenUp, ThreadStates
<1>10. CASE Tick
  <2> DEFINE q == m_compose_long_press_head
             r == [k \in 1..Len(q) |-> [q[k] EXCEPT !.age = @ + 1]]
  <2>1. ASSUME NEW k \in 1..Len(q) PROVE [q[k] EXCEPT !.age = @ + 1] \in Entry
    <3>1. q[k] \in Entry
      OBVIOUS
    <3>2. q[k].age < MaxAge
      BY <1>10 DEF Tick
    <3>3. q[k].age + 1 \in 0..MaxAge
      BY <3>1, <3>2, AgeAssumption DEF Entry
    <3> QED
      BY <3>1, <3>3 DEF Entry
  <2>2. Len(q) \in Nat
    OBVIOUS
  <2>3. r \in Seq(Entry)
    BY <2>1, <2>2
  <2>4. q' = r
    BY <1>10 DEF Tick
  <2> HIDE DEF r
  <2> QED
    BY <1>10, <2>3, <2>4 DEF Tick
<1>11. CASE UNCHANGED vars
  BY <1>11 DEF vars
<1> QED
  BY <1>1, <1>2, <1>3, <1>4, <1>5, <1>6, <1>7, <1>8, <1>9, <1>10, <1>11 DEF Next, Thread

(* What is part of a queue that is held is held.                           *)
LEMMA PartIsHeld ==
  ASSUME TypeOK, QueueIsHeld, Part(m_compose_long_press_head', m_compose_long_press_head),
         m_compose_long_press_head' \in Seq(Entry)
  PROVE  LET r == m_compose_long_press_head' IN
         /\ \A j \in 1..Len(r) : is_compose_press_event_ready(r[j].of, m_key_pressed_head)
         /\ \A j, k \in 1..Len(r) : r[j].of.keys = r[k].of.keys => j = k
         /\ \A j \in 1..Len(r) : \E i \in 1..Len(m_compose_long_press_head) :
              r[j] = m_compose_long_press_head[i]
<1> DEFINE q == m_compose_long_press_head
           r == m_compose_long_press_head'
<1>1. PICK f : /\ f \in [1..Len(r) -> 1..Len(q)]
               /\ \A j \in 1..Len(r) : r[j] = q[f[j]]
               /\ \A j, k \in 1..Len(r) : j < k => f[j] < f[k]
  BY DEF Part
<1>2. q \in Seq(Entry)
  BY DEF TypeOK
<1>3. /\ \A j \in 1..Len(q) : is_compose_press_event_ready(q[j].of, m_key_pressed_head)
      /\ \A j, k \in 1..Len(q) : q[j].of.keys = q[k].of.keys => j = k
  BY DEF QueueIsHeld
<1> HIDE DEF q, r
<1>4. \A j \in 1..Len(r) : f[j] \in 1..Len(q) /\ j \in Int
  BY <1>1
<1>5. \A j, k \in 1..Len(r) : f[j] = f[k] => j = k
  <2> TAKE j, k \in 1..Len(r)
  <2>1. j < k \/ k < j \/ j = k
    BY <1>4
  <2>2. f[j] \in Int /\ f[k] \in Int
    BY <1>4
  <2> QED
    BY <1>1, <2>1, <2>2
<1>6. \A j \in 1..Len(r) : is_compose_press_event_ready(r[j].of, m_key_pressed_head)
  BY <1>1, <1>3, <1>4
<1>7. \A j, k \in 1..Len(r) : r[j].of.keys = r[k].of.keys => j = k
  BY <1>1, <1>3, <1>4, <1>5
<1>8. \A j \in 1..Len(r) : \E i \in 1..Len(q) : r[j] = q[i]
  BY <1>1, <1>4
<1> QED
  BY <1>6, <1>7, <1>8 DEF q, r

(* A step keeps the queue held.                                            *)
LEMMA HeldStep ==
  ASSUME TypeOK, QueueIsHeld, EventQueued, [Next]_vars
  PROVE  QueueIsHeld'
<1> DEFINE q == m_compose_long_press_head
           down == m_key_pressed_head
<1>0. /\ \A j \in 1..Len(q) : is_compose_press_event_ready(q[j].of, down)
      /\ \A j, k \in 1..Len(q) : q[j].of.keys = q[k].of.keys => j = k
  BY DEF QueueIsHeld
<1>1. ASSUME NEW code \in Keys, Press(code) PROVE QueueIsHeld'
  <2> DEFINE found == Found(code, down \cup {code})
  <2>1. \A k \in 1..Len(found) : is_compose_press_event_ready(found[k], down \cup {code})
    BY <1>1, Pressed
  <2>2. down' = down \cup {code}
    BY <1>1 DEF Press
  <2>3. PICK n \in 0..Len(found) :
          /\ \A k \in 1..n : ~Twice(found, k)
          /\ Len(q') = n + Len(q)
          /\ \A j \in 1..n : q'[j].of = found[n - j + 1]
          /\ \A j \in (n + 1)..(n + Len(q)) : q'[j] = q[j - n]
    BY <1>1, Pressed
  <2>a. Len(found) \in Nat /\ Len(q) \in Nat
    BY <1>1, Pressed DEF TypeOK
  <2> HIDE DEF found
  <2>b. \A j \in 1..n : n - j + 1 \in 1..n /\ n - j + 1 \in 1..Len(found)
    BY <2>a
  <2>c. \A j \in (n + 1)..(n + Len(q)) : j - n \in 1..Len(q)
    BY <2>a
  <2>d. \A j \in 1..Len(q') : j \in 1..n \/ j \in (n + 1)..(n + Len(q))
    BY <2>3, <2>a
  <2>4. ASSUME NEW j \in 1..Len(q') PROVE is_compose_press_event_ready(q'[j].of, down')
    <3>1. CASE j \in 1..n
      <4>1. is_compose_press_event_ready(found[n - j + 1], down')
        BY <2>1, <2>2, <2>b, <3>1
      <4>2. q'[j].of = found[n - j + 1]
        BY <2>3, <3>1
      <4> QED
        BY <4>1, <4>2
    <3>2. CASE j \in (n + 1)..(n + Len(q))
      <4>1. is_compose_press_event_ready(q[j - n].of, down)
        BY <1>0, <2>c, <3>2
      <4>2. is_compose_press_event_ready(q[j - n].of, down')
        BY <2>2, <4>1 DEF is_compose_press_event_ready
      <4>3. q'[j] = q[j - n]
        BY <2>3, <3>2
      <4> QED
        BY <4>2, <4>3
    <3> QED
      BY <2>d, <3>1, <3>2
  <2>5. ASSUME NEW a \in 1..n, NEW b \in 1..n, found[a].keys = found[b].keys PROVE a = b
    <3>1. a < b \/ b < a \/ a = b
      OBVIOUS
    <3>2. CASE a < b
      <4>1. a \in 1..(b - 1)
        BY <3>2
      <4> QED
        BY <2>3, <2>5, <4>1 DEF Twice
    <3>3. CASE b < a
      <4>1. b \in 1..(a - 1)
        BY <3>3
      <4> QED
        BY <2>3, <2>5, <4>1 DEF Twice
    <3> QED
      BY <3>1, <3>2, <3>3
  <2>6. ASSUME NEW a \in 1..n, NEW i \in 1..Len(q) PROVE found[a].keys # q[i].of.keys
    BY <2>3 DEF Twice, Queued
  <2>7. ASSUME NEW j \in 1..Len(q'), NEW k \in 1..Len(q'), q'[j].of.keys = q'[k].of.keys
        PROVE  j = k
    <3>1. CASE j \in 1..n /\ k \in 1..n
      <4>1. n - j + 1 = n - k + 1
        BY <2>3, <2>5, <2>7, <2>b, <3>1
      <4> QED
        BY <3>1, <4>1
    <3>2. CASE j \in 1..n /\ k \in (n + 1)..(n + Len(q))
      BY <2>3, <2>6, <2>7, <2>b, <2>c, <3>2
    <3>3. CASE k \in 1..n /\ j \in (n + 1)..(n + Len(q))
      BY <2>3, <2>6, <2>7, <2>b, <2>c, <3>3
    <3>4. CASE j \in (n + 1)..(n + Len(q)) /\ k \in (n + 1)..(n + Len(q))
      <4>1. q[j - n].of.keys = q[k - n].of.keys
        BY <2>3, <2>7, <3>4
      <4>2. j - n = k - n
        BY <1>0, <2>c, <3>4, <4>1
      <4> QED
        BY <2>a, <3>4, <4>2
    <3> QED
      BY <2>d, <3>1, <3>2, <3>3, <3>4
  <2> QED
    BY <2>4, <2>7 DEF QueueIsHeld
<1>2. ASSUME NEW code \in Keys, Release(code) PROVE QueueIsHeld'
  <2>1. /\ Part(q', q) /\ q' \in Seq(Entry)
        /\ \A j \in 1..Len(q') : ~Mentions(q'[j].of, code)
    BY <1>2, Released
  <2>2. /\ \A j \in 1..Len(q') : is_compose_press_event_ready(q'[j].of, down)
        /\ \A j, k \in 1..Len(q') : q'[j].of.keys = q'[k].of.keys => j = k
    BY <2>1, PartIsHeld
  <2>3. down' = down \ {code}
    BY <1>2 DEF Release
  <2>4. ASSUME NEW j \in 1..Len(q') PROVE is_compose_press_event_ready(q'[j].of, down')
    <3>1. q'[j] \in Entry
      BY <2>1
    <3>2. q'[j].of \in Compose
      BY <3>1 DEF Entry
    <3> QED
      BY <2>1, <2>2, <2>3, <3>2, HeldWithout
  <2> QED
    BY <2>2, <2>4 DEF QueueIsHeld
<1>3. ASSUME NEW c \in Compose, CallBack(c), UNCHANGED down PROVE QueueIsHeld'
  <2>3. Part(q', q) /\ q' \in Seq(Entry)
    BY <1>3, CalledBack
  <2>4. /\ \A j \in 1..Len(q') : is_compose_press_event_ready(q'[j].of, down)
        /\ \A i, j \in 1..Len(q') : q'[i].of.keys = q'[j].of.keys => i = j
    BY <2>3, PartIsHeld
  <2> QED
    BY <1>3, <2>4 DEF QueueIsHeld
<1>4. CASE compose_check_has_event \/ WokenUp
  <2>1. UNCHANGED down
    BY <1>4 DEF compose_check_has_event, WokenUp
  <2>2. UNCHANGED q => QueueIsHeld'
    BY <1>0, <2>1 DEF QueueIsHeld
  <2>3. ASSUME NEW k \in 1..Len(q) PROVE q[k].of \in Compose
    <3>1. q[k] \in Entry
      BY DEF TypeOK
    <3> QED
      BY <3>1 DEF Entry
  <2> QED
    BY <1>3, <1>4, <2>1, <2>2, <2>3, OnlyQueuedCalled
<1>5. CASE Tick
  <2>1. UNCHANGED down
    BY <1>5 DEF Tick
  <2> QED
    BY <1>0, <1>5, <2>1, Ticked DEF QueueIsHeld
<1>6. CASE UNCHANGED <<q, down>>
  BY <1>0, <1>6 DEF QueueIsHeld
<1> QED
  BY <1>1, <1>2, <1>4, <1>5, <1>6
     DEF Next, Thread, RK_input_register_compose_press_callback, Signal,
         compose_wait_new_event, compose_handle_new_event, WaitTimeout, vars

(* What the thread begins to wait for is in the queue.                     *)
LEMMA WaitsForQueued ==
  ASSUME TypeOK, EventQueued, compose_check_has_event
  PROVE  LET q == m_compose_long_press_head IN
         \/ event' = NULL
         \/ /\ \E k \in 1..Len(q) : q[k].of = event'
            /\ UNCHANGED <<q, called>>
<1> DEFINE q == m_compose_long_press_head
           k == get_earliest_compose_long_event
<1>1. event = NULL
  BY DEF EventQueued, compose_check_has_event
<1>2. CASE q = <<>>
  BY <1>1, <1>2 DEF compose_check_has_event
<1>3. CASE q # <<>>
  <2>1. k \in 1..Len(q) /\ q[k] \in Entry
    BY <1>3, EarliestIsQueued DEF TypeOK
  <2> HIDE DEF k
  <2>2. q[k].age \in Int /\ q[k].of.time \in Int
    BY <2>1, AgeAssumption DEF Entry, Compose
  <2>3. q[k].age >= q[k].of.time \/ q[k].age < q[k].of.time
    BY <2>2
  <2>4. \/ event' = event
        \/ event' = q[k].of /\ UNCHANGED <<q, called>>
    BY <1>3, <2>3 DEF compose_check_has_event, k
  <2> QED
    BY <1>1, <2>1, <2>4
<1> QED
  BY <1>2, <1>3

(* A callback is of a composition that is down, or that was freed two      *)
(* releases before.                                                        *)
LEMMA CalledIsHeld ==
  ASSUME TypeOK, QueueIsHeld, EventQueued, [Next]_vars, NEW c \in Composes,
         called'[c] > called[c]
  PROVE  /\ compose_check_has_event \/ WokenUp
         /\ CallBack(c)
         /\ \/ /\ \E k \in 1..Len(m_compose_long_press_head) :
                    m_compose_long_press_head[k].of = c
               /\ is_compose_press_event_ready(c, m_key_pressed_head)
            \/ c = event /\ freed = 2
<1> DEFINE q == m_compose_long_press_head
<1>1. called[c] \in 0..2
  BY DEF TypeOK
<1>2. ~UNCHANGED called
  BY <1>1
<1>3. ASSUME NEW code \in Keys, Press(code) PROVE FALSE
  BY <1>1, <1>3 DEF Press
<1>4. compose_check_has_event \/ WokenUp
  BY <1>2, <1>3 DEF Next, Thread, RK_input_register_compose_press_callback, Release, Signal,
     compose_wait_new_event, compose_handle_new_event, WaitTimeout, Tick, vars
<1>5. ASSUME NEW d, CallBack(d) PROVE d = c
  <2> SUFFICES ASSUME d # c PROVE FALSE
    OBVIOUS
  <2>1. called' = [called EXCEPT ![d] = IF @ = 2 THEN 2 ELSE @ + 1]
    BY <1>5 DEF CallBack
  <2>2. called'[c] = called[c]
    BY <2>1 DEF TypeOK
  <2> QED
    BY <1>1, <2>2
<1>6. CASE \E k \in 1..Len(q) : CallBack(q[k].of)
  <2>1. PICK k \in 1..Len(q) : CallBack(q[k].of)
    BY <1>6
  <2>2. q[k].of = c
    BY <1>5, <2>1
  <2>3. is_compose_press_event_ready(c, m_key_pressed_head)
    BY <2>2 DEF QueueIsHeld
  <2> QED
    BY <1>4, <2>1, <2>2, <2>3
<1>7. CASE event \in Compose /\ freed = 2 /\ CallBack(event)
  BY <1>4, <1>5, <1>7
<1> QED
  BY <1>2, <1>4, <1>6, <1>7, OnlyQueuedCalled

(* Where registrations are not ambiguous, a step keeps what was called     *)
(* back out of the queue.                                                  *)
LEMMA CalledStep ==
  ASSUME TypeOK, QueueIsHeld, EventQueued, Unambiguous, CalledIsGone, [Next]_vars
  PROVE  CalledIsGone'
<1> DEFINE q == m_compose_long_press_head
           down == m_key_pressed_head
<1> SUFFICES ASSUME NEW c \in Composes
             PROVE  /\ called'[c] <= 1
                    /\ called'[c] > 0 => \A k \in 1..Len(q') : q'[k].of # c
                    /\ event' = c => called'[c] = 0
  BY DEF CalledIsGone
<1>0. /\ called[c] \in 0..2 /\ called[c] <= 1
      /\ called[c] > 0 => \A k \in 1..Len(q) : q[k].of # c
      /\ event = c => called[c] = 0
  BY DEF CalledIsGone, TypeOK
<1>c. c \in Compose /\ c # NULL
  BY ComposesAssumption, NullAssumption
<1> DEFINE Goal == /\ called'[c] <= 1
                   /\ called'[c] > 0 => \A k \in 1..Len(q') : q'[k].of # c
                   /\ event' = c => called'[c] = 0
<1>1. ASSUME NEW code \in Keys, Press(code) PROVE Goal
  <2> DEFINE found == Found(code, down \cup {code})
  <2>1. /\ called'[c] = IF is_compose_press_event_ready(c, down) THEN called[c] ELSE 0
        /\ event' = event
    BY <1>1 DEF Press
  <2> SUFFICES ASSUME called[c] > 0, is_compose_press_event_ready(c, down)
               PROVE  \A k \in 1..Len(q') : q'[k].of # c
    BY <1>0, <2>1
  <2>3. \A k \in 1..Len(found) : ~is_compose_press_event_ready(found[k], down)
    BY <1>1, FoundIsNew
  <2>4. PICK n \in 0..Len(found) :
          /\ Len(q') = n + Len(q)
          /\ \A j \in 1..n : q'[j].of = found[n - j + 1]
          /\ \A j \in (n + 1)..(n + Len(q)) : q'[j] = q[j - n]
    BY <1>1, Pressed
  <2>5. Len(found) \in Nat /\ Len(q) \in Nat
    BY <1>1, Pressed DEF TypeOK
  <2> HIDE DEF found
  <2>6. ASSUME NEW k \in 1..Len(q') PROVE q'[k].of # c
    <3>1. CASE k \in 1..n
      <4>1. n - k + 1 \in 1..Len(found)
        BY <2>5, <3>1
      <4>2. ~is_compose_press_event_ready(q'[k].of, down)
        BY <2>3, <2>4, <3>1, <4>1
      <4> QED
        BY <4>2
    <3>2. CASE k \in (n + 1)..(n + Len(q))
      <4>1. k - n \in 1..Len(q) /\ q'[k] = q[k - n]
        BY <2>4, <2>5, <3>2
      <4> QED
        BY <1>0, <4>1
    <3> QED
      BY <2>4, <2>5, <3>1, <3>2
  <2> QED
    BY <2>6
<1>2. ASSUME NEW code \in Keys, Release(code) PROVE Goal
  <2>1. called' = called /\ event' = event
    BY <1>2 DEF Release
  <2>2. Part(q', q) /\ q' \in Seq(Entry)
    BY <1>2, Released
  <2>3. \A j \in 1..Len(q') : \E i \in 1..Len(q) : q'[j] = q[i]
    BY <2>2, PartIsHeld
  <2> QED
    BY <1>0, <2>1, <2>3
<1>3. CASE called'[c] > called[c]
  <2>1. /\ compose_check_has_event \/ WokenUp
        /\ CallBack(c)
        /\ \/ \E k \in 1..Len(q) : q[k].of = c
           \/ c = event
    BY <1>3, CalledIsHeld
  <2>2. called[c] = 0
    BY <1>0, <2>1
  <2>3. called'[c] = 1
    BY <2>1, <2>2 DEF CallBack, TypeOK
  <2>4. \A j \in 1..Len(q') : q'[j].of.keys # c.keys
    BY <1>c, <2>1, CalledBack
  <2>5. \A j \in 1..Len(q') : q'[j].of # c
    BY <2>4
  <2>6. event' # c
    <3>1. CASE WokenUp
      BY <1>c, <3>1 DEF WokenUp
    <3>2. CASE compose_check_has_event
      BY <1>c, <2>2, <2>3, <3>2, WaitsForQueued
    <3> QED
      BY <2>1, <3>1, <3>2
  <2> QED
    BY <2>3, <2>5, <2>6
<1>4. ASSUME compose_check_has_event \/ WokenUp, ~(called'[c] > called[c]) PROVE Goal
  <2>2. \A j \in 1..Len(q') : \E i \in 1..Len(q) : q'[j] = q[i]
    <3>1. CASE UNCHANGED q
      BY <3>1
    <3>2. ASSUME NEW d \in Compose, CallBack(d)
          PROVE  \A j \in 1..Len(q') : \E i \in 1..Len(q) : q'[j] = q[i]
      <4>1. Part(q', q) /\ q' \in Seq(Entry)
        BY <3>2, CalledBack
      <4> QED
        BY <4>1, PartIsHeld
    <3>3. ASSUME NEW k \in 1..Len(q) PROVE q[k].of \in Compose
      <4>1. q[k] \in Entry
        BY DEF TypeOK
      <4> QED
        BY <4>1 DEF Entry
    <3> QED
      BY <1>4, <3>1, <3>2, <3>3, OnlyQueuedCalled
  <2>3. called'[c] \in 0..2
    BY TypeStep DEF TypeOK
  <2>4. called'[c] <= called[c]
    BY <1>0, <1>4, <2>3
  <2>5. event' = c => called'[c] = 0
    <3>1. CASE WokenUp
      BY <1>c, <3>1 DEF WokenUp
    <3>2. CASE compose_check_has_event
      <4>1. CASE event' = NULL
        BY <1>c, <4>1
      <4>2. CASE (\E k \in 1..Len(q) : q[k].of = event') /\ UNCHANGED <<q, called>>
        <5> SUFFICES ASSUME event' = c PROVE called'[c] = 0
          OBVIOUS
        <5>1. ~(called[c] > 0) /\ called'[c] = called[c]
          BY <1>0, <4>2
        <5> QED
          BY <1>0, <5>1
      <4> QED
        BY <3>2, <4>1, <4>2, WaitsForQueued
    <3> QED
      BY <1>4, <3>1, <3>2
  <2> QED
    BY <1>0, <2>2, <2>3, <2>4, <2>5
<1>5. CASE Tick
  <2>1. UNCHANGED <<called, event>>
    BY <1>5 DEF Tick
  <2> QED
    BY <1>0, <1>5, <2>1, Ticked
<1>6. CASE UNCHANGED <<q, called, event>>
  BY <1>0, <1>6
<1> QED
  BY <1>1, <1>2, <1>3, <1>4, <1>5, <1>6
     DEF Next, Thread, RK_input_register_compose_press_callback, Signal,
         compose_wait_new_event, compose_handle_new_event, WaitTimeout, vars

-----------------------------------------------------------------------------
(* The theorems.                                                           *)

LEMMA InitIInv == Init => IInv
<1> SUFFICES ASSUME Init PROVE IInv
  OBVIOUS
<1>1. TypeOK
  <2>1. m_compose_press_head \in Seq(Composes) /\ m_compose_long_press_head \in Seq(Entry)
    BY DEF Init
  <2>2. called \in [Composes -> 0..2]
    <3>1. 0 \in 0..2
      OBVIOUS
    <3> QED
      BY <3>1 DEF Init
  <2>3. compose_state \in 0..2 /\ m_key_up \in Keys \cup {0} /\ m_key_pressed_head \in SUBSET Keys
    BY DEF Init
  <2>4. compose \in ThreadStates /\ compose # "timed" /\ monitor \in {"idle", "signal"}
        /\ m_complete \in BOOLEAN /\ leaked \in BOOLEAN /\ event \in Compose \cup {NULL}
    BY DEF Init, ThreadStates
  <2>5. freed = 0 /\ freed \in 0..2
    BY DEF Init
  <2> QED
    BY <2>1, <2>2, <2>3, <2>4, <2>5 DEF TypeOK
<1>2. QueueIsHeld /\ EventQueued /\ MutexGivenBack
  BY DEF Init, QueueIsHeld, EventQueued, MutexGivenBack
<1>3. CalledIsGone
  BY DEF Init, CalledIsGone
<1> QED
  BY <1>1, <1>2, <1>3 DEF IInv

LEMMA NextIInv == IInv /\ [Next]_vars => IInv'
<1> SUFFICES ASSUME IInv, [Next]_vars PROVE IInv'
  OBVIOUS
<1>1. TypeOK'
  BY TypeStep DEF IInv
<1>2. QueueIsHeld'
  BY HeldStep DEF IInv
<1>3. EventQueued'
  BY EventStep DEF IInv
<1>4. MutexGivenBack'
  BY MutexStep DEF IInv
<1>5. Unambiguous' => CalledIsGone'
  <2>1. Unambiguous' => Unambiguous
    BY UnambiguousBefore DEF IInv, TypeOK
  <2> QED
    BY <2>1, CalledStep DEF IInv
<1> QED
  BY <1>1, <1>2, <1>3, <1>4, <1>5 DEF IInv

THEOREM InductiveInvariant == Spec => []IInv
  BY InitIInv, NextIInv, PTL DEF Spec

(* The types, and that the thread of compositions does not wait with a     *)
(* deadline for a composition that has been freed.                         *)
THEOREM TypeCorrect == Spec => []TypeOK
<1>1. IInv => TypeOK
  BY DEF IInv
<1> QED
  BY <1>1, InductiveInvariant, PTL

(* Every composition in the queue is held down completely, and none is     *)
(* queued twice.                                                           *)
THEOREM QueueHeld == Spec => []QueueIsHeld
<1>1. IInv => QueueIsHeld
  BY DEF IInv
<1> QED
  BY <1>1, InductiveInvariant, PTL

(* The monitor gives the mutex back after each press, unless the           *)
(* registrations are ambiguous.                                            *)
THEOREM MutexReturned == Spec => []MutexGivenBack
<1>1. IInv => MutexGivenBack
  BY DEF IInv
<1> QED
  BY <1>1, InductiveInvariant, PTL

(* The two branches of compose_check_has_event that call back, one of them *)
(* perhaps through a freed entry, never both call back one composition     *)
(* before its keys go down together again.                                 *)
THEOREM CalledAtMostOnce == Spec => []CalledOnce
<1>1. IInv => CalledOnce
  BY DEF IInv, CalledIsGone, CalledOnce
<1> QED
  BY <1>1, InductiveInvariant, PTL

(* A composition is only called back while all of its keys are down, or    *)
(* through an entry that was freed while the thread waited for it, and     *)
(* then only if a second release came before the thread ran.               *)
THEOREM CalledOnlyWhileHeld == Spec => CalledWhileHeld
<1>1. IInv /\ [Next]_vars =>
        [\A c \in Composes :
           called'[c] > called[c] =>
             \/ is_compose_press_event_ready(c, m_key_pressed_head)
             \/ c = event /\ freed = 2]_vars
  BY CalledIsHeld DEF IInv
<1> QED
  BY <1>1, InductiveInvariant, PTL DEF Spec, CalledWhileHeld
=============================================================================
