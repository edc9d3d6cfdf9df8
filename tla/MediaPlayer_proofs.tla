------------------------- MODULE MediaPlayer_proofs -------------------------
(***************************************************************************)
(* Proofs about MediaPlayer, for any number of tracks.                     *)
(*                                                                         *)
(* Nodes are numbered in the order of their allocation, so that a playlist *)
(* is an interval: the nodes after the last clear.  ListInv adds to        *)
(* ListIsLinked what the next insertion needs, that the last node is the   *)
(* one allocated last and that the links of the others are NULL.           *)
(*                                                                         *)
(* Undisturbed follows a track from its choice, under the mutex, through   *)
(* the calls of play until it plays: between, what the playbin has is of   *)
(* no use, and only the thread that plays knows the track.                 *)
(***************************************************************************)
EXTENDS MediaPlayer, TLAPS, WellFoundedInduction

-----------------------------------------------------------------------------
(* Natural numbers.                                                        *)

(* A non-empty set of natural numbers has a least element.                 *)
LEMMA LeastNatural ==
  ASSUME NEW T \in SUBSET Nat, T # {}
  PROVE  \E m \in T : \A n \in T : m <= n
<1>1. PICK m \in T : \A n \in T : ~(<<n, m>> \in OpToRel(<, Nat))
  BY NatLessThanWellFounded, WFMin
<1>2. \A n \in T : m \in Nat /\ n \in Nat /\ ~(n < m)
  BY <1>1 DEF OpToRel
<1> QED
  BY <1>2

ListTypes ==
  /\ playlist_start \in Pointer /\ playlist_end \in Pointer
  /\ playlist_current \in Pointer
  /\ next \in [Tracks -> Pointer] /\ prev \in [Tracks -> Pointer]
  /\ playlist_cnt \in Nat
  /\ playlist_mode \in Modes
  /\ added \in 0..MaxTracks
  /\ freed \in SUBSET (1..added)

Unused ==
  /\ playlist_start # NULL => playlist_end = added
  /\ \A n \in (added + 1)..MaxTracks : next[n] = NULL /\ prev[n] = NULL

ListInv == ListTypes /\ Unused /\ ListIsLinked

-----------------------------------------------------------------------------
(* The list as an interval.                                                *)

(* A list with a node has a first and a last one, and nodes between.       *)
LEMMA NodesAreInterval ==
  ASSUME ListInv, Nodes # {}
  PROVE  /\ playlist_start \in Tracks /\ playlist_end \in Tracks
         /\ playlist_start <= playlist_end
         /\ Nodes = playlist_start..playlist_end
         /\ Nodes \subseteq Tracks
         /\ playlist_cnt = playlist_end - playlist_start + 1
         /\ prev[playlist_start] = NULL /\ next[playlist_end] = NULL
         /\ \A n \in playlist_start..(playlist_end - 1) :
              next[n] = n + 1 /\ prev[n + 1] = n
<1>1. playlist_start # NULL
  BY DEF ListInv, ListIsLinked
<1>2. /\ Nodes = playlist_start..playlist_end
      /\ playlist_start <= playlist_end
      /\ playlist_cnt = playlist_end - playlist_start + 1
      /\ prev[playlist_start] = NULL /\ next[playlist_end] = NULL
      /\ \A n \in playlist_start..(playlist_end - 1) :
           next[n] = n + 1 /\ prev[n + 1] = n
  BY <1>1 DEF ListInv, ListIsLinked
<1>3. playlist_end = added /\ playlist_start \in Tracks /\ added \in 0..MaxTracks
  BY <1>1 DEF ListInv, ListTypes, Unused, Pointer
<1>4. Nodes \subseteq Tracks
  BY <1>3, BoundsAssumption DEF Nodes, Tracks
<1>5. playlist_end \in Tracks
  BY <1>2, <1>3 DEF Tracks
<1> QED
  BY <1>2, <1>3, <1>4, <1>5

(* Next and prev of a node.                                                *)
LEMMA NextOfNode ==
  ASSUME ListInv, NEW n \in Nodes
  PROVE  next[n] = IF n = playlist_end THEN NULL ELSE n + 1
<1>1. /\ playlist_start \in Nat /\ playlist_end \in Nat
      /\ n \in playlist_start..playlist_end
  BY NodesAreInterval, BoundsAssumption DEF Tracks
<1>2. CASE n = playlist_end
  BY <1>2, NodesAreInterval
<1>3. CASE n # playlist_end
  <2>1. n \in playlist_start..(playlist_end - 1)
    BY <1>1, <1>3
  <2> QED
    BY <1>3, <2>1, NodesAreInterval
<1> QED
  BY <1>2, <1>3

LEMMA PrevOfNode ==
  ASSUME ListInv, NEW n \in Nodes
  PROVE  prev[n] = IF n = playlist_start THEN NULL ELSE n - 1
<1>1. /\ playlist_start \in Nat /\ playlist_end \in Nat
      /\ n \in playlist_start..playlist_end
  BY NodesAreInterval, BoundsAssumption DEF Tracks
<1>2. CASE n = playlist_start
  BY <1>2, NodesAreInterval
<1>3. CASE n # playlist_start
  <2>1. n - 1 \in playlist_start..(playlist_end - 1) /\ (n - 1) + 1 = n
    BY <1>1, <1>3
  <2>2. prev[(n - 1) + 1] = n - 1
    BY <2>1, NodesAreInterval
  <2> QED
    BY <1>3, <2>1, <2>2
<1> QED
  BY <1>2, <1>3

(* NULL is not a node, and the ends of a list that has one are nodes.      *)
LEMMA NullIsNoNode ==
  ASSUME ListInv
  PROVE  NULL \notin Nodes
  BY NodesAreInterval, NullAssumption

LEMMA EndsAreNodes ==
  ASSUME ListInv, Nodes # {}
  PROVE  playlist_start \in Nodes /\ playlist_end \in Nodes
         /\ playlist_start # NULL /\ playlist_end # NULL
<1>1. playlist_start \in Nat /\ playlist_end \in Nat
  BY NodesAreInterval, BoundsAssumption DEF Tracks
<1> QED
  BY <1>1, NodesAreInterval, NullAssumption

(* An empty list has no ends.                                              *)
LEMMA NoNodeNoEnds ==
  ASSUME ListInv, Nodes = {}
  PROVE  playlist_start = NULL /\ playlist_end = NULL /\ playlist_cnt = 0
<1>1. CASE playlist_start = NULL
  BY <1>1 DEF ListInv, ListIsLinked
<1>2. CASE playlist_start # NULL
  <2>1. playlist_start \in Tracks /\ playlist_end = added /\ added \in Nat
    BY <1>2 DEF ListInv, ListTypes, Unused, Pointer
  <2>2. playlist_start \in Nat /\ playlist_start <= playlist_end
        /\ Nodes = playlist_start..playlist_end
    BY <1>2, <2>1, BoundsAssumption DEF ListInv, ListIsLinked, Tracks
  <2>3. playlist_start \in Nodes
    BY <2>1, <2>2
  <2> QED
    BY <2>3
<1> QED
  BY <1>1, <1>2

-----------------------------------------------------------------------------
(* Shuffling.                                                              *)

(* The node that i steps from n lead to in a loop of c nodes up to e.      *)
At(n, i, c, e) == IF n + i <= e THEN n + i ELSE n + i - c

(* One step of the walk.                                                   *)
LEMMA WrappedStep ==
  ASSUME ListInv, NEW n \in Nodes, NEW i \in 1..(playlist_cnt - 1)
  PROVE  /\ At(n, i, playlist_cnt, playlist_end) \in Nodes
         /\ At(n, i - 1, playlist_cnt, playlist_end) \in Nodes
         /\ At(n, i, playlist_cnt, playlist_end) =
              Wrapped[At(n, i - 1, playlist_cnt, playlist_end)]
         /\ At(n, i, playlist_cnt, playlist_end) # n
<1> DEFINE s == playlist_start
           e == playlist_end
           c == playlist_cnt
           a == At(n, i, c, e)
           b == At(n, i - 1, c, e)
<1>1. /\ s \in Nat /\ e \in Nat /\ Nodes = s..e /\ c = e - s + 1
      /\ n \in Nat /\ n >= s /\ n <= e
  BY NodesAreInterval, BoundsAssumption DEF Tracks
<1>2. i \in Nat /\ i >= 1 /\ i <= c - 1
  BY <1>1
<1> HIDE DEF s, e, c
<1>3. /\ a \in s..e /\ b \in s..e /\ a # n
      /\ a = IF b = e THEN s ELSE b + 1
  BY <1>1, <1>2 DEF At
<1> HIDE DEF a, b
<1>4. Wrapped[b] = Or(next[b], s)
  BY <1>1, <1>3, NodesAreInterval DEF Wrapped, s
<1>5. next[b] = IF b = e THEN NULL ELSE b + 1
  BY <1>1, <1>3, NextOfNode DEF e
<1>6. b # e => b + 1 # NULL
  BY <1>1, <1>3, NullIsNoNode
<1>7. a = Wrapped[b]
  BY <1>3, <1>4, <1>5, <1>6 DEF Or
<1> QED
  BY <1>1, <1>3, <1>7 DEF a, b, c, e

(* A walk goes where At says: at the first step at which it did not, the   *)
(* step before would have led elsewhere.                                   *)
LEMMA WalkGoes ==
  ASSUME ListInv, NEW n \in Nodes, NEW k \in 1..(playlist_cnt - 1),
         NEW w \in Walks(n, k)
  PROVE  w[k] = At(n, k, playlist_cnt, playlist_end)
<1> DEFINE p(i) == At(n, i, playlist_cnt, playlist_end)
           T == {i \in 0..k : w[i] # p(i)}
<1>1. /\ w[0] = n /\ \A i \in 1..k : w[i] = Wrapped[w[i - 1]]
  BY DEF Walks
<1>2. /\ n \in Nat /\ playlist_end \in Nat /\ n <= playlist_end
      /\ playlist_cnt \in Nat
  BY NodesAreInterval, BoundsAssumption DEF Tracks, ListInv, ListTypes
<1>3. p(0) = n
  BY <1>2 DEF At
<1>4. \A i \in 1..k : p(i) = Wrapped[p(i - 1)]
  <2>1. \A i \in 1..k : i \in 1..(playlist_cnt - 1)
    BY <1>2
  <2> QED
    BY <2>1, WrappedStep
<1> HIDE DEF p
<1>5. T = {}
  <2>1. SUFFICES ASSUME T # {} PROVE FALSE
    OBVIOUS
  <2>2. k \in Nat
    BY <1>2
  <2>3. T \in SUBSET Nat
    BY <2>2
  <2>4. PICK m \in T : \A i \in T : m <= i
    BY <2>1, <2>3, LeastNatural
  <2>5. m \in 0..k /\ m # 0 /\ w[m] # p(m)
    BY <1>1, <1>3, <2>4
  <2>6. m \in 1..k /\ m - 1 \in 0..k /\ m - 1 < m
    BY <2>2, <2>5
  <2>7. w[m - 1] = p(m - 1)
    BY <2>3, <2>4, <2>6
  <2> QED
    BY <1>1, <1>4, <2>5, <2>6, <2>7
<1>6. k \in 0..k
  BY <1>2
<1> QED
  BY <1>5, <1>6 DEF p

(* And there is one.                                                       *)
LEMMA WalkExists ==
  ASSUME ListInv, NEW n \in Nodes, NEW k \in 1..(playlist_cnt - 1)
  PROVE  Walks(n, k) # {}
<1> DEFINE p(i) == At(n, i, playlist_cnt, playlist_end)
           w == [i \in 0..k |-> p(i)]
<1>1. /\ n \in Nat /\ playlist_end \in Nat /\ n <= playlist_end
      /\ playlist_cnt \in Nat /\ k \in Nat
  BY NodesAreInterval, BoundsAssumption DEF Tracks, ListInv, ListTypes
<1>2. p(0) = n
  BY <1>1 DEF At
<1>3. \A i \in 1..k : p(i) \in Nodes /\ p(i) = Wrapped[p(i - 1)]
  <2>1. \A i \in 1..k : i \in 1..(playlist_cnt - 1)
    BY <1>1
  <2> QED
    BY <2>1, WrappedStep
<1> HIDE DEF p
<1>4. \A i \in 0..k : p(i) \in Tracks
  <2>1. \A i \in 0..k : i = 0 \/ i \in 1..k
    BY <1>1
  <2> QED
    BY <1>2, <1>3, <2>1, NodesAreInterval
<1>5. w \in [0..k -> Tracks] /\ w[0] = n
  BY <1>1, <1>2, <1>4
<1>6. \A i \in 1..k : w[i] = Wrapped[w[i - 1]]
  <2>1. \A i \in 1..k : i \in 0..k /\ i - 1 \in 0..k
    BY <1>1
  <2> QED
    BY <1>3, <2>1
<1>7. w \in Walks(n, k)
  BY <1>5, <1>6 DEF Walks
<1> QED
  BY <1>7

(* Shuffled, the tracks that may follow n are all others.                  *)
LEMMA RandomIsRest ==
  ASSUME ListInv, playlist_cnt > 1, NEW n \in Nodes
  PROVE  RandomTracks(n) = Nodes \ {n}
<1> DEFINE c == playlist_cnt
           s == playlist_start
           e == playlist_end
           R == 1..(c - 1)
           p(k) == At(n, k, c, e)
           q(k) == {w[k] : w \in Walks(n, k)}
<1>1. /\ s \in Nat /\ e \in Nat /\ Nodes = s..e /\ c = e - s + 1
      /\ n \in Nat /\ n >= s /\ n <= e /\ c > 1
  BY NodesAreInterval, BoundsAssumption DEF Tracks
<1>2. RandSteps = R
  <2>1. \A r \in 0..(c - 1) : (IF r = 0 THEN 1 ELSE r) \in R
    BY <1>1
  <2>2. \A r \in R : r \in 0..(c - 1) /\ r = (IF r = 0 THEN 1 ELSE r)
    BY <1>1
  <2> HIDE DEF R
  <2> QED
    BY <2>1, <2>2 DEF RandSteps
<1>3. \A k \in R : q(k) = {p(k)}
  BY WalkGoes, WalkExists
<1>4. RandomTracks(n) = {p(k) : k \in R}
  <2>1. RandomTracks(n) = UNION {q(k) : k \in R}
    BY <1>1, <1>2 DEF RandomTracks
  <2> HIDE DEF R, p, q
  <2>2. \A x : x \in UNION {q(k) : k \in R} <=> x \in {p(k) : k \in R}
    BY <1>3
  <2> QED
    BY <2>1, <2>2
<1>5. \A k \in R : p(k) \in Nodes /\ p(k) # n
  BY WrappedStep
<1>6. \A m \in Nodes \ {n} : \E k \in R : p(k) = m
  <2>1. SUFFICES ASSUME NEW m \in Nodes, m # n PROVE \E k \in R : p(k) = m
    OBVIOUS
  <2>2. m \in Nat /\ m >= s /\ m <= e
    BY <1>1
  <2> HIDE DEF s, e, c
  <2>3. CASE m > n
    <3>1. m - n \in R /\ p(m - n) = m
      BY <1>1, <2>2, <2>3 DEF At
    <3> QED
      BY <3>1
  <2>4. CASE m < n
    <3>1. m - n + c \in R /\ p(m - n + c) = m
      BY <1>1, <2>2, <2>4 DEF At
    <3> QED
      BY <3>1
  <2> QED
    BY <1>1, <2>1, <2>2, <2>3, <2>4
<1> HIDE DEF R, p
<1> QED
  BY <1>4, <1>5, <1>6

-----------------------------------------------------------------------------
(* The inductive invariant.                                                *)

(* What RK_mediaplayer_next and RK_mediaplayer_prev choose is on the list, *)
(* or the end of it.                                                       *)
LEMMA NextIsListed ==
  ASSUME ListInv, NEW n \in Nodes
  PROVE  NextTracks(n) \subseteq Nodes \cup {NULL}
<1>1. next[n] \in Nodes \cup {NULL}
  <2>1. n # playlist_end => n + 1 \in Nodes
    BY NodesAreInterval, BoundsAssumption DEF Tracks
  <2> QED
    BY <2>1, NextOfNode
<1>2. playlist_start \in Nodes
  BY EndsAreNodes
<1>3. RandomTracks(n) \subseteq Nodes
  BY RandomIsRest DEF RandomTracks, ListInv, ListTypes
<1> QED
  BY <1>1, <1>2, <1>3 DEF NextTracks, Or, ListInv, ListTypes, Modes

LEMMA PrevIsListed ==
  ASSUME ListInv, NEW n \in Nodes
  PROVE  PrevTracks(n) \subseteq Nodes \cup {NULL}
<1>1. prev[n] \in Nodes \cup {NULL}
  <2>1. n # playlist_start => n - 1 \in Nodes
    BY NodesAreInterval, BoundsAssumption DEF Tracks
  <2> QED
    BY <2>1, PrevOfNode
<1>2. playlist_end \in Nodes
  BY EndsAreNodes
<1>3. RandomTracks(n) \subseteq Nodes
  BY RandomIsRest DEF RandomTracks, ListInv, ListTypes
<1> QED
  BY <1>1, <1>2, <1>3 DEF PrevTracks, Or, ListInv, ListTypes, Modes

ListStays ==
  /\ playlist_start' = playlist_start /\ playlist_end' = playlist_end
  /\ next' = next /\ prev' = prev /\ playlist_cnt' = playlist_cnt
  /\ added' = added /\ freed' = freed /\ playlist_mode' = playlist_mode

(* Only the current track moves: the list stays.                           *)
LEMMA MovingKeepsList ==
  ASSUME ListInv, playlist_current' \in Nodes \cup {NULL},
         ListStays
  PROVE  ListInv'
<1>1. Nodes' = Nodes
  BY DEF ListStays, Nodes
<1>2. playlist_current' \in Pointer
  BY NodesAreInterval DEF Pointer
<1>3. ListTypes'
  BY <1>2 DEF ListStays, ListInv, ListTypes
<1>4. Unused'
  BY DEF ListStays, ListInv, Unused
<1>5. ListIsLinked'
  BY <1>1 DEF ListStays, ListInv, ListIsLinked
<1> QED
  BY <1>3, <1>4, <1>5 DEF ListInv

(* The current track, an end of the list, or what next or prev choose.     *)
LEMMA NextKeepsList ==
  ASSUME ListInv, NEW p, RK_mediaplayer_next(p)
  PROVE  ListInv'
<1>1. playlist_current \in Nodes \cup {NULL}
  BY DEF ListInv, ListIsLinked
<1>2. playlist_start \in Nodes \cup {NULL}
  BY EndsAreNodes, NoNodeNoEnds
<1>3. playlist_current' \in Nodes \cup {NULL}
  BY <1>1, <1>2, NextIsListed DEF RK_mediaplayer_next
<1>4. ListStays
  BY DEF RK_mediaplayer_next, ListStays
<1> QED
  BY <1>3, <1>4, MovingKeepsList

LEMMA PrevKeepsList ==
  ASSUME ListInv, NEW p, RK_mediaplayer_prev(p)
  PROVE  ListInv'
<1>1. playlist_current \in Nodes \cup {NULL}
  BY DEF ListInv, ListIsLinked
<1>2. playlist_end \in Nodes \cup {NULL}
  BY EndsAreNodes, NoNodeNoEnds
<1>3. playlist_current' \in Nodes \cup {NULL}
  BY <1>1, <1>2, PrevIsListed DEF RK_mediaplayer_prev
<1>4. ListStays
  BY DEF RK_mediaplayer_prev, ListStays
<1> QED
  BY <1>3, <1>4, MovingKeepsList

LEMMA StartKeepsList ==
  ASSUME ListInv, NEW p, RK_mediaplayer_start_playlist(p)
  PROVE  ListInv'
<1>1. playlist_end \in Nodes \cup {NULL}
  BY EndsAreNodes, NoNodeNoEnds
<1>2. ListStays
  BY DEF RK_mediaplayer_start_playlist, ListStays
<1>3. playlist_current' \in Nodes \cup {NULL}
  BY <1>1 DEF RK_mediaplayer_start_playlist
<1> QED
  BY <1>2, <1>3, MovingKeepsList

(* The new node goes behind the last one, or is the only one.              *)
LEMMA AddKeepsList ==
  ASSUME ListInv, RK_mediaplayer_add_music
  PROVE  ListInv'
<1> DEFINE m == added + 1
<1>1. /\ added \in Nat /\ m \in Tracks /\ m \in Nat /\ added' = m
      /\ added <= MaxTracks /\ MaxTracks \in Nat
  BY BoundsAssumption DEF RK_mediaplayer_add_music, ListInv, ListTypes, Tracks
<1>2. m \notin freed /\ freed' = freed /\ m # NULL /\ m \in Pointer
  BY <1>1, NullAssumption
     DEF RK_mediaplayer_add_music, ListInv, ListTypes, Pointer
<1>3. Nodes' = Nodes \cup {m}
  BY <1>1, <1>2 DEF Nodes
<1>4. next[m] = NULL /\ prev[m] = NULL
  BY <1>1 DEF ListInv, Unused, Tracks
<1>5. playlist_cnt' = playlist_cnt + 1 /\ playlist_end' = m
      /\ playlist_current' = playlist_current /\ playlist_mode' = playlist_mode
  BY DEF RK_mediaplayer_add_music, Insert
<1>6. playlist_current' \in Nodes' \cup {NULL}
  BY <1>3, <1>5 DEF ListInv, ListIsLinked
<1>7. CASE playlist_end = NULL
  <2>1. Nodes = {} /\ playlist_cnt = 0
    BY <1>7, EndsAreNodes, NoNodeNoEnds
  <2>2. playlist_start' = m /\ next' = next /\ prev' = prev
    BY <1>7 DEF RK_mediaplayer_add_music, Insert
  <2>3. ListTypes'
    BY <1>1, <1>2, <1>5, <2>1, <2>2 DEF ListInv, ListTypes, RK_mediaplayer_add_music, Tracks
  <2>4. Unused'
    BY <1>1, <1>5, <2>2 DEF ListInv, Unused, Tracks
  <2>5. Nodes' = m..m /\ m..(m - 1) = {}
    BY <1>1, <1>3, <2>1
  <2>6. ListIsLinked'
    <3>1. playlist_start' # NULL /\ playlist_start' <= playlist_end'
      BY <1>1, <1>2, <1>5, <2>2
    <3>2. playlist_cnt' = playlist_end' - playlist_start' + 1
      BY <1>1, <1>5, <2>1, <2>2
    <3>3. prev'[playlist_start'] = NULL /\ next'[playlist_end'] = NULL
      BY <1>4, <1>5, <2>2
    <3>4. /\ Nodes' = playlist_start'..playlist_end'
          /\ playlist_start'..(playlist_end' - 1) = {}
      BY <1>5, <2>2, <2>5
    <3> QED
      BY <1>6, <3>1, <3>2, <3>3, <3>4 DEF ListIsLinked
  <2> QED
    BY <2>3, <2>4, <2>6 DEF ListInv
<1>8. CASE playlist_end # NULL
  <2>1. Nodes # {}
    BY <1>8, NoNodeNoEnds
  <2>2. /\ playlist_start \in Nat /\ playlist_start <= added
        /\ playlist_start # NULL /\ playlist_start \in Tracks
        /\ playlist_end = added /\ added \in Tracks
        /\ Nodes = playlist_start..added
        /\ playlist_cnt = added - playlist_start + 1
        /\ prev[playlist_start] = NULL
        /\ \A n \in playlist_start..(added - 1) :
             next[n] = n + 1 /\ prev[n + 1] = n
    BY <2>1, NodesAreInterval, EndsAreNodes, BoundsAssumption
       DEF Tracks, ListInv, Unused
  <2>3. /\ playlist_start' = playlist_start
        /\ next' = [next EXCEPT ![added] = m]
        /\ prev' = [prev EXCEPT ![m] = added]
    BY <1>8, <2>2 DEF RK_mediaplayer_add_music, Insert
  <2>4. ListTypes'
    BY <1>1, <1>2, <1>5, <2>2, <2>3
       DEF ListInv, ListTypes, RK_mediaplayer_add_music, Tracks, Pointer
  <2>5. Unused'
    BY <1>1, <1>5, <2>3 DEF ListInv, ListTypes, Unused, Tracks
  <2>6. Nodes' = playlist_start..m
    BY <1>1, <1>3, <2>2
  <2>7. prev'[playlist_start] = NULL /\ next'[m] = NULL
    BY <1>1, <1>4, <2>2, <2>3 DEF ListInv, ListTypes
  <2>8. \A n \in playlist_start..(m - 1) : next'[n] = n + 1 /\ prev'[n + 1] = n
    <3>1. SUFFICES ASSUME NEW n \in playlist_start..(m - 1)
                   PROVE  next'[n] = n + 1 /\ prev'[n + 1] = n
      OBVIOUS
    <3>2. n \in Tracks /\ n + 1 \in Tracks /\ n \in Nat
      BY <1>1, <2>2, <3>1 DEF Tracks
    <3>3. CASE n = added
      BY <1>1, <2>3, <3>2, <3>3 DEF ListInv, ListTypes
    <3>4. CASE n # added
      <4>1. n \in playlist_start..(added - 1) /\ n + 1 # m
        BY <1>1, <2>2, <3>1, <3>4
      <4> QED
        BY <2>2, <2>3, <3>2, <3>4, <4>1 DEF ListInv, ListTypes
    <3> QED
      BY <3>3, <3>4
  <2>9. ListIsLinked'
    <3>1. playlist_start' # NULL /\ playlist_start' <= playlist_end'
      BY <1>1, <1>5, <2>2, <2>3
    <3>2. playlist_cnt' = playlist_end' - playlist_start' + 1
      BY <1>1, <1>5, <2>2, <2>3
    <3>3. prev'[playlist_start'] = NULL /\ next'[playlist_end'] = NULL
      BY <1>5, <2>3, <2>7
    <3>4. /\ Nodes' = playlist_start'..playlist_end'
          /\ \A n \in playlist_start'..(playlist_end' - 1) :
               next'[n] = n + 1 /\ prev'[n + 1] = n
      BY <1>5, <2>3, <2>6, <2>8
    <3> QED
      BY <1>6, <3>1, <3>2, <3>3, <3>4 DEF ListIsLinked
  <2> QED
    BY <2>4, <2>5, <2>9 DEF ListInv
<1> QED
  BY <1>7, <1>8

LEMMA ClearKeepsList ==
  ASSUME ListInv, Clear
  PROVE  ListInv'
<1>1. /\ playlist_start' = NULL /\ playlist_end' = NULL
      /\ playlist_current' = NULL /\ playlist_cnt' = 0 /\ freed' = 1..added
      /\ UNCHANGED <<next, prev, added, playlist_mode>>
  BY DEF Clear
<1>2. Nodes' = {}
  BY <1>1 DEF Nodes
<1>3. ListTypes'
  BY <1>1 DEF ListInv, ListTypes, Pointer
<1> QED
  BY <1>1, <1>2, <1>3 DEF ListInv, Unused, ListIsLinked

(* Every other step leaves the list and the mode alone, or sets the mode.  *)
LEMMA ListUnchanged ==
  ASSUME ListInv, UNCHANGED list, playlist_mode' \in Modes
  PROVE  ListInv'
  BY DEF ListInv, ListTypes, Unused, ListIsLinked, Nodes, list

LEMMA PlayKeepsList ==
  ASSUME NEW p, Play(p)
  PROVE  UNCHANGED list /\ UNCHANGED playlist_mode
  BY DEF Play, ReadFreed, GetState, ResetPlaybin, SetUri, Start, list

THEOREM ListInvariant == Spec => []ListInv
<1>1. Init => ListInv
  <2>1. SUFFICES ASSUME Init PROVE ListInv
    OBVIOUS
  <2>2. Nodes = {}
    BY <2>1 DEF Init, Nodes
  <2> QED
    BY <2>1, <2>2, BoundsAssumption
       DEF Init, ListInv, ListTypes, Unused, ListIsLinked, Pointer, Modes, Tracks
<1>2. ASSUME ListInv, [Next]_vars PROVE ListInv'
  <2>1. playlist_mode \in Modes
    BY <1>2 DEF ListInv, ListTypes
  <2>2. CASE App
    <3>1. CASE Idle /\ RK_mediaplayer_next("app")
      BY <1>2, <3>1, NextKeepsList
    <3>2. CASE Idle /\ RK_mediaplayer_prev("app")
      BY <1>2, <3>2, PrevKeepsList
    <3>3. CASE Idle /\ RK_mediaplayer_start_playlist("app")
      BY <1>2, <3>3, StartKeepsList
    <3>4. CASE Idle /\ RK_mediaplayer_add_music
      BY <1>2, <3>4, AddKeepsList
    <3>5. CASE Idle /\ \E mode \in Modes : RK_mediaplayer_set_mode(mode)
      BY <1>2, <3>5, ListUnchanged DEF RK_mediaplayer_set_mode, list
    <3>6. CASE Idle /\ RK_mediaplayer_play
      BY <1>2, <2>1, <3>6, ListUnchanged DEF RK_mediaplayer_play, list
    <3>7. CASE Idle /\ \E then \in {"idle", "clear"} : RK_mediaplayer_stop(then)
      BY <1>2, <2>1, <3>7, ListUnchanged DEF RK_mediaplayer_stop, list
    <3>8. CASE Idle /\ RK_mediaplayer_pause
      BY <1>2, <2>1, <3>8, ListUnchanged DEF RK_mediaplayer_pause, list
    <3>9. CASE Idle /\ RK_mediaplayer_resume
      BY <1>2, <2>1, <3>9, ListUnchanged DEF RK_mediaplayer_resume, list
    <3>10. CASE Idle /\ RK_mediaplayer_destroy
      BY <1>2, <2>1, <3>10, ListUnchanged DEF RK_mediaplayer_destroy, list
    <3> QED
      BY <2>2, <3>1, <3>2, <3>3, <3>4, <3>5, <3>6, <3>7, <3>8, <3>9, <3>10 DEF App
  <2>3. CASE \E p \in Threads : Play(p)
    BY <1>2, <2>1, <2>3, PlayKeepsList, ListUnchanged
  <2>4. CASE Clear
    BY <1>2, <2>4, ClearKeepsList
  <2>5. CASE SetState \/ Joined \/ Pop \/ Check \/ TrackEnds
    BY <1>2, <2>1, <2>5, ListUnchanged
       DEF SetState, Joined, Pop, Check, TrackEnds, list
  <2>6. CASE Eos
    BY <1>2, <2>6, NextKeepsList DEF Eos
  <2>7. CASE UNCHANGED vars
    BY <1>2, <2>1, <2>7, ListUnchanged DEF vars, list
  <2> QED
    BY <1>2, <2>2, <2>3, <2>4, <2>5, <2>6, <2>7
       DEF Next, AppReturns, Listener, Threads
<1> QED
  BY <1>1, <1>2, PTL DEF Spec

(* Whatever is added, cleared, chosen and played: the playlist is linked   *)
(* both ways in the order of addition and holds the current track.         *)
THEOREM AlwaysLinked == Spec => []ListIsLinked
  BY ListInvariant, PTL DEF ListInv

(* Prev leads back where next came from, and a loop visits the whole list. *)
THEOREM PrevAlwaysUndoesNext == Spec => []PrevUndoesNext
<1>1. ASSUME ListInv PROVE PrevUndoesNext
  <2>1. ASSUME playlist_mode \in {"SEQ", "LOOP"}, NEW n \in Nodes,
               NEW m \in NextTracks(n) \ {NULL}
        PROVE  PrevTracks(m) = {n}
    <3>1. /\ playlist_start \in Nat /\ playlist_end \in Nat
          /\ Nodes = playlist_start..playlist_end /\ n \in Nat
          /\ playlist_start \in Nodes /\ playlist_end \in Nodes
          /\ NULL \notin Nodes
      BY <1>1, NodesAreInterval, EndsAreNodes, NullIsNoNode, BoundsAssumption DEF Tracks
    <3>2. m \in Nodes
      BY <1>1, <2>1, NextIsListed
    <3>3. next[n] = IF n = playlist_end THEN NULL ELSE n + 1
      BY <1>1, NextOfNode
    <3>4. prev[m] = IF m = playlist_start THEN NULL ELSE m - 1
      BY <1>1, <3>2, PrevOfNode
    <3>5. CASE n # playlist_end
      <4>1. n + 1 \in Nodes /\ n + 1 # playlist_start /\ n + 1 - 1 = n
        BY <3>1, <3>5
      <4>2. m = n + 1
        BY <2>1, <3>1, <3>3, <3>5, <4>1 DEF NextTracks, Or
      <4>3. prev[m] = n
        BY <3>1, <3>4, <4>1, <4>2
      <4> QED
        BY <2>1, <3>1, <4>3 DEF PrevTracks, Or
    <3>6. CASE n = playlist_end
      <4>1. playlist_mode = "LOOP" /\ m = playlist_start
        BY <2>1, <3>3, <3>6 DEF NextTracks, Or
      <4> QED
        BY <3>4, <3>6, <4>1 DEF PrevTracks, Or
    <3> QED
      BY <3>5, <3>6
  <2>2. ASSUME playlist_mode = "LOOP"
        PROVE  UNION {NextTracks(n) : n \in Nodes} = Nodes
    <3>1. \A n \in Nodes : NextTracks(n) = {Or(next[n], playlist_start)}
      BY <2>2 DEF NextTracks
    <3>2. \A n \in Nodes : NextTracks(n) \subseteq Nodes
      BY <1>1, <3>1, NextIsListed, EndsAreNodes DEF Or
    <3>3. \A m \in Nodes : \E n \in Nodes : m \in NextTracks(n)
      <4>1. SUFFICES ASSUME NEW m \in Nodes PROVE \E n \in Nodes : m \in NextTracks(n)
        OBVIOUS
      <4>2. /\ playlist_start \in Nat /\ playlist_end \in Nat
            /\ Nodes = playlist_start..playlist_end /\ m \in Nat
            /\ playlist_end \in Nodes /\ NULL \notin Nodes
        BY <1>1, NodesAreInterval, EndsAreNodes, NullIsNoNode, BoundsAssumption DEF Tracks
      <4>3. CASE m = playlist_start
        BY <1>1, <3>1, <4>2, <4>3, NextOfNode DEF Or
      <4>4. CASE m # playlist_start
        <5>1. m - 1 \in Nodes /\ m - 1 # playlist_end /\ m - 1 + 1 = m
          BY <4>2, <4>4
        <5>2. next[m - 1] = m
          BY <1>1, <5>1, NextOfNode
        <5> QED
          BY <3>1, <4>2, <5>1, <5>2 DEF Or
      <4> QED
        BY <4>3, <4>4
    <3> QED
      BY <3>2, <3>3
  <2> QED
    BY <2>1, <2>2 DEF PrevUndoesNext
<1> QED
  BY <1>1, ListInvariant, PTL

(* Shuffled, every track but the current one may follow.                   *)
THEOREM RandomAlwaysOther == Spec => []RandomIsOther
<1>1. ASSUME ListInv PROVE RandomIsOther
  BY <1>1, RandomIsRest DEF RandomIsOther, NextTracks
<1> QED
  BY <1>1, ListInvariant, PTL

-----------------------------------------------------------------------------
(* The player.                                                             *)

PlayerTypes ==
  /\ playbin \in Playbin
  /\ bus \in 0..MaxEos
  /\ terminate \in BOOLEAN /\ disturbed \in BOOLEAN
  /\ pc["app"] \in AppStates /\ pc["listener"] \in ListenerStates
  /\ DOMAIN pc = Threads
  /\ cur_music \in [Threads -> Pointer \cup {URL}]
  /\ \A p \in Threads : pc[p] \in Playing => cur_music[p] # NULL

LEMMA TypesSplit == ListInv /\ PlayerTypes => TypeOK
<1> SUFFICES ASSUME ListInv, PlayerTypes PROVE TypeOK
  OBVIOUS
<1>1. playlist_cnt \in 0..MaxTracks
  <2>1. CASE Nodes = {}
    <3>1. playlist_cnt = 0
      BY <2>1, NoNodeNoEnds
    <3> QED
      BY <3>1, BoundsAssumption
  <2>2. CASE Nodes # {}
    <3>1. /\ playlist_start \in Tracks /\ playlist_end \in Tracks
          /\ playlist_start <= playlist_end
          /\ playlist_cnt = playlist_end - playlist_start + 1
      BY <2>2, NodesAreInterval
    <3> QED
      BY <3>1, BoundsAssumption DEF Tracks
  <2> QED
    BY <2>1, <2>2
<1>2. freed \in SUBSET Tracks
  BY BoundsAssumption DEF ListInv, ListTypes, Tracks
<1> QED
  BY <1>1, <1>2 DEF ListInv, ListTypes, PlayerTypes, TypeOK

(* Choosing a track, or a url.                                             *)
LEMMA ChooseTypes ==
  ASSUME PlayerTypes, NEW p \in Threads, NEW n \in Tracks \cup {URL}, Choose(p, n),
         UNCHANGED <<playbin, bus, terminate>>
  PROVE  PlayerTypes'
<1>1. n # NULL /\ n \in Pointer \cup {URL}
  BY NullAssumption DEF Pointer
<1>2. /\ cur_music' = [cur_music EXCEPT ![p] = n]
      /\ pc' = [pc EXCEPT ![p] = "get_state"]
  BY DEF Choose, Goto
<1>3. disturbed' \in BOOLEAN
  BY DEF Choose, Busy
<1>4. \A q \in Threads : pc'[q] \in Playing => cur_music'[q] # NULL
  BY <1>1, <1>2 DEF PlayerTypes
<1>5. pc'["app"] \in AppStates /\ pc'["listener"] \in ListenerStates /\ DOMAIN pc' = Threads
  BY <1>2 DEF PlayerTypes, AppStates, ListenerStates, Playing, Threads
<1>6. cur_music' \in [Threads -> Pointer \cup {URL}]
  BY <1>1, <1>2 DEF PlayerTypes
<1> QED
  BY <1>3, <1>4, <1>5, <1>6 DEF PlayerTypes

(* A thread that goes somewhere and does not choose.                       *)
LEMMA GotoTypes ==
  ASSUME PlayerTypes, NEW p \in Threads, NEW place,
         place \in Playing => pc[p] \in Playing,
         p = "app" => place \in AppStates,
         p = "listener" => place \in ListenerStates,
         Goto(p, place),
         cur_music' = cur_music
           \/ (place \notin Playing /\ cur_music' = [cur_music EXCEPT ![p] = NULL])
  PROVE  /\ pc'["app"] \in AppStates /\ pc'["listener"] \in ListenerStates
         /\ DOMAIN pc' = Threads
         /\ cur_music' \in [Threads -> Pointer \cup {URL}]
         /\ \A q \in Threads : pc'[q] \in Playing => cur_music'[q] # NULL
<1>1. pc' = [pc EXCEPT ![p] = place]
  BY DEF Goto
<1>2. pc'["app"] \in AppStates /\ pc'["listener"] \in ListenerStates /\ DOMAIN pc' = Threads
  BY <1>1 DEF PlayerTypes, Threads
<1>3. cur_music' \in [Threads -> Pointer \cup {URL}]
  BY DEF PlayerTypes, Pointer
<1>4. \A q \in Threads : pc'[q] \in Playing => cur_music'[q] # NULL
  BY <1>1 DEF PlayerTypes
<1> QED
  BY <1>2, <1>3, <1>4

(* What the playbin becomes.                                               *)
LEMMA PlaybinTypes ==
  ASSUME PlayerTypes
  PROVE  /\ \A state \in {"NULL", "READY", "PAUSED", "PLAYING"} :
              Reset(state) \/ Started(state) => playbin' \in Playbin
         /\ StopPlaybin => playbin' \in Playbin /\ bus' \in 0..MaxEos
         /\ StartFails => playbin' \in Playbin
         /\ \A p \in Threads : Disturb(p) => disturbed' \in BOOLEAN
<1>1. ASSUME NEW state \in {"NULL", "READY", "PAUSED", "PLAYING"}
      PROVE  Reset(state) \/ Started(state) => playbin' \in Playbin
  <2> DEFINE Values == {"NULL", "READY", "PAUSED", "PLAYING"}
             Urls == Pointer \cup {URL}
  <2>0. /\ playbin \in [state : Values, uri : Urls, playing : Urls,
                        ended : BOOLEAN, failed : BOOLEAN]
        /\ NULL \in Urls /\ state \in Values
    BY DEF PlayerTypes, Playbin, Pointer
  <2> HIDE DEF Values, Urls
  <2>1. [playbin EXCEPT !.state = state, !.playing = NULL, !.ended = FALSE, !.failed = FALSE]
          \in [state : Values, uri : Urls, playing : Urls, ended : BOOLEAN, failed : BOOLEAN]
    BY <2>0
  <2>2. [playbin EXCEPT !.state = state, !.playing = playbin.uri,
                        !.ended = FALSE, !.failed = FALSE]
          \in [state : Values, uri : Urls, playing : Urls, ended : BOOLEAN, failed : BOOLEAN]
    BY <2>0
  <2>3. [playbin EXCEPT !.state = state, !.failed = FALSE]
          \in [state : Values, uri : Urls, playing : Urls, ended : BOOLEAN, failed : BOOLEAN]
    BY <2>0
  <2> QED
    BY <2>1, <2>2, <2>3 DEF Reset, Started, Playbin, Values, Urls
<1>2. StopPlaybin => playbin' \in Playbin /\ bus' \in 0..MaxEos
  BY <1>1, BoundsAssumption DEF StopPlaybin
<1>3. StartFails => playbin' \in Playbin
  BY DEF PlayerTypes, Playbin, StartFails
<1>4. \A p \in Threads : Disturb(p) => disturbed' \in BOOLEAN
  BY DEF Disturb, Busy
<1> QED
  BY <1>1, <1>2, <1>3, <1>4

LEMMA HomeTyped ==
  /\ Home("app") \in AppStates \ Playing
  /\ \A p \in Threads : p # "app" => p = "listener" /\ Home(p) \in ListenerStates \ Playing
BY DEF Home, AppStates, ListenerStates, Playing, Threads

LEMMA PlayTypes ==
  ASSUME PlayerTypes, NEW p \in Threads, Play(p)
  PROVE  PlayerTypes'
<1>0. /\ p = "app" \/ p = "listener"
      /\ Playing \subseteq AppStates /\ Playing \subseteq ListenerStates
      /\ {"get_state", "ready", "null", "set_uri", "start"} = Playing
  BY DEF Threads, AppStates, ListenerStates, Playing
<1>1. CASE ReadFreed(p)
  <2>1. /\ pc' = [q \in Threads |-> "crashed"] /\ cur_music' = [q \in Threads |-> NULL]
        /\ UNCHANGED <<playbin, bus, terminate, disturbed>>
    BY <1>1 DEF ReadFreed
  <2> QED
    BY <2>1 DEF PlayerTypes, Threads, AppStates, ListenerStates, Playing, Pointer
<1>2. CASE GetState(p)
  <2>1. UNCHANGED <<playbin, bus, terminate>> /\ disturbed' \in BOOLEAN
    BY <1>2 DEF GetState, PlayerTypes
  <2>2. PICK place \in {Home(p), "ready", "null"} :
          /\ Goto(p, place)
          /\ \/ cur_music' = cur_music
             \/ place = Home(p) /\ cur_music' = [cur_music EXCEPT ![p] = NULL]
    BY <1>2 DEF GetState
  <2>3. pc[p] \in Playing
    BY <1>2 DEF GetState, Playing
  <2>4. /\ pc'["app"] \in AppStates /\ pc'["listener"] \in ListenerStates
        /\ DOMAIN pc' = Threads
        /\ cur_music' \in [Threads -> Pointer \cup {URL}]
        /\ \A q \in Threads : pc'[q] \in Playing => cur_music'[q] # NULL
    BY <1>0, <2>2, <2>3, HomeTyped, GotoTypes
  <2> QED
    BY <2>1, <2>4 DEF PlayerTypes
<1>3. CASE ResetPlaybin(p)
  <2>1. /\ playbin' \in Playbin /\ bus' \in 0..MaxEos /\ disturbed' \in BOOLEAN
        /\ terminate' = terminate
    BY <1>3, PlaybinTypes DEF ResetPlaybin, PlayerTypes
  <2>2. pc[p] \in Playing /\ Goto(p, "set_uri") /\ cur_music' = cur_music
    BY <1>3 DEF ResetPlaybin, Playing
  <2>3. /\ pc'["app"] \in AppStates /\ pc'["listener"] \in ListenerStates
        /\ DOMAIN pc' = Threads
        /\ cur_music' \in [Threads -> Pointer \cup {URL}]
        /\ \A q \in Threads : pc'[q] \in Playing => cur_music'[q] # NULL
    BY <1>0, <2>2, GotoTypes
  <2> QED
    BY <2>1, <2>3 DEF PlayerTypes
<1>4. CASE SetUri(p)
  <2>1. bus' = bus /\ terminate' = terminate /\ disturbed' \in BOOLEAN
    BY <1>4, PlaybinTypes DEF SetUri
  <2>2. playbin' = [playbin EXCEPT !.uri = cur_music[p]] /\ cur_music[p] \in Pointer \cup {URL}
    BY <1>4 DEF SetUri, PlayerTypes
  <2>3. playbin' \in Playbin
    BY <2>2 DEF PlayerTypes, Playbin
  <2>4. pc[p] \in Playing /\ Goto(p, "start") /\ cur_music' = cur_music
    BY <1>4 DEF SetUri, Playing
  <2>5. /\ pc'["app"] \in AppStates /\ pc'["listener"] \in ListenerStates
        /\ DOMAIN pc' = Threads
        /\ cur_music' \in [Threads -> Pointer \cup {URL}]
        /\ \A q \in Threads : pc'[q] \in Playing => cur_music'[q] # NULL
    BY <1>0, <2>4, GotoTypes
  <2> QED
    BY <2>1, <2>3, <2>5 DEF PlayerTypes
<1>5. CASE Start(p)
  <2>1. /\ bus' = bus /\ terminate' = terminate /\ disturbed' \in BOOLEAN
        /\ playbin' \in Playbin
    BY <1>5, PlaybinTypes DEF Start
  <2>2. /\ cur_music' = [cur_music EXCEPT ![p] = NULL]
        /\ \/ pc' = [pc EXCEPT ![p] = Home(p)]
           \/ pc["listener"] = "none" /\ pc' = [pc EXCEPT ![p] = Home(p), !["listener"] = "pop"]
    BY <1>5 DEF Start, Goto
  <2>3. cur_music' \in [Threads -> Pointer \cup {URL}]
    BY <2>2 DEF PlayerTypes, Pointer
  <2>4. CASE pc' = [pc EXCEPT ![p] = Home(p)]
    <3>1. /\ pc'["app"] \in AppStates /\ pc'["listener"] \in ListenerStates
          /\ DOMAIN pc' = Threads
          /\ \A q \in Threads : pc'[q] \in Playing => cur_music'[q] # NULL
      BY <1>0, <2>2, <2>4, HomeTyped DEF PlayerTypes, Threads
    <3> QED
      BY <2>1, <2>3, <3>1 DEF PlayerTypes
  <2>5. CASE pc["listener"] = "none" /\ pc' = [pc EXCEPT ![p] = Home(p), !["listener"] = "pop"]
    <3>1. pc'["listener"] = "pop" /\ "pop" \in ListenerStates /\ "pop" \notin Playing
      BY <2>5 DEF PlayerTypes, Threads, ListenerStates, Playing
    <3>2. pc'["app"] \in AppStates /\ DOMAIN pc' = Threads
      BY <1>0, <2>5, HomeTyped DEF PlayerTypes, Threads
    <3>3. p = "app"
      BY <1>0, <1>5, <2>5 DEF Start
    <3>4. pc'["app"] \notin Playing
      BY <2>5, <3>3, HomeTyped DEF PlayerTypes, Threads
    <3> QED
      BY <2>1, <2>3, <3>1, <3>2, <3>4 DEF PlayerTypes, Threads
  <2> QED
    BY <2>2, <2>4, <2>5
<1> QED
  BY <1>1, <1>2, <1>3, <1>4, <1>5 DEF Play

(* What next, prev and the start of the playlist choose.                   *)
LEMMA Chosen ==
  ASSUME ListInv, NEW p \in Threads
  PROVE  /\ RK_mediaplayer_next(p) =>
              \/ /\ playlist_current' \in Nodes /\ Choose(p, playlist_current')
              \/ /\ playlist_current' = NULL /\ Goto(p, Home(p))
                 /\ UNCHANGED <<cur_music, disturbed>>
         /\ RK_mediaplayer_prev(p) =>
              \/ /\ playlist_current' \in Nodes /\ Choose(p, playlist_current')
              \/ playlist_current' = NULL /\ UNCHANGED <<pc, cur_music, disturbed>>
         /\ RK_mediaplayer_start_playlist(p) =>
              playlist_current' \in Nodes /\ Choose(p, playlist_current')
<1>1. /\ playlist_current \in Nodes \cup {NULL}
      /\ playlist_start \in Nodes \cup {NULL} /\ playlist_end \in Nodes \cup {NULL}
      /\ NULL \notin Nodes
  BY EndsAreNodes, NoNodeNoEnds, NullIsNoNode DEF ListInv, ListIsLinked
<1>2. RK_mediaplayer_next(p) =>
        /\ playlist_current' \in Nodes \cup {NULL}
        /\ IF Nothing(playlist_current')
           THEN Goto(p, Home(p)) /\ UNCHANGED <<cur_music, disturbed>>
           ELSE Choose(p, playlist_current')
  BY <1>1, NextIsListed DEF RK_mediaplayer_next
<1>3. RK_mediaplayer_prev(p) =>
        /\ playlist_current' \in Nodes \cup {NULL}
        /\ IF Nothing(playlist_current') THEN UNCHANGED <<pc, cur_music, disturbed>>
           ELSE Choose(p, playlist_current')
  BY <1>1, PrevIsListed DEF RK_mediaplayer_prev
<1>4. RK_mediaplayer_start_playlist(p) =>
        playlist_current' \in Nodes /\ Choose(p, playlist_current')
  BY <1>1 DEF RK_mediaplayer_start_playlist
<1> QED
  BY <1>1, <1>2, <1>3, <1>4 DEF Nothing

LEMMA NodesTracks == ListInv => Nodes \subseteq Tracks
BY NodesAreInterval

LEMMA PlayerTypesStep ==
  ASSUME ListInv, PlayerTypes, [Next]_vars
  PROVE  PlayerTypes'
<1>0. "app" \in Threads /\ "listener" \in Threads
  BY DEF Threads
<1>1. ASSUME NEW p \in Threads, pc[p] \notin Playing,
             \/ RK_mediaplayer_next(p) \/ RK_mediaplayer_prev(p)
             \/ RK_mediaplayer_start_playlist(p)
      PROVE  PlayerTypes'
  <2>1. UNCHANGED <<playbin, bus, terminate>>
    BY <1>1 DEF RK_mediaplayer_next, RK_mediaplayer_prev, RK_mediaplayer_start_playlist
  <2>2. CASE playlist_current' \in Nodes /\ Choose(p, playlist_current')
    BY <2>1, <2>2, NodesTracks, ChooseTypes
  <2>3. CASE Goto(p, Home(p)) /\ UNCHANGED <<cur_music, disturbed>>
    <3>1. /\ pc'["app"] \in AppStates /\ pc'["listener"] \in ListenerStates
          /\ DOMAIN pc' = Threads
          /\ cur_music' \in [Threads -> Pointer \cup {URL}]
          /\ \A q \in Threads : pc'[q] \in Playing => cur_music'[q] # NULL
      BY <2>3, HomeTyped, GotoTypes
    <3> QED
      BY <2>1, <2>3, <3>1 DEF PlayerTypes
  <2>4. CASE UNCHANGED <<pc, cur_music, disturbed>>
    BY <2>1, <2>4 DEF PlayerTypes
  <2> QED
    BY <1>1, <2>2, <2>3, <2>4, Chosen
<1>2. ASSUME NEW p \in Threads, NEW place, Goto(p, place), place \notin Playing,
             p = "app" => place \in AppStates, p = "listener" => place \in ListenerStates,
             cur_music' = cur_music,
             playbin' \in Playbin, bus' \in 0..MaxEos, terminate' \in BOOLEAN,
             disturbed' \in BOOLEAN
      PROVE  PlayerTypes'
  <2>1. /\ pc'["app"] \in AppStates /\ pc'["listener"] \in ListenerStates
        /\ DOMAIN pc' = Threads
        /\ cur_music' \in [Threads -> Pointer \cup {URL}]
        /\ \A q \in Threads : pc'[q] \in Playing => cur_music'[q] # NULL
    BY <1>2, GotoTypes
  <2> QED
    BY <1>2, <2>1 DEF PlayerTypes
<1>a. /\ {"idle", "pause", "resume", "clear", "join", "destroyed"} \subseteq AppStates \ Playing
      /\ {"pop", "eos", "check", "exited"} \subseteq ListenerStates \ Playing
  BY DEF AppStates, ListenerStates, Playing
<1>3. CASE App
  <2>1. CASE Idle /\ (RK_mediaplayer_add_music
                       \/ \E mode \in Modes : RK_mediaplayer_set_mode(mode))
    BY <2>1 DEF RK_mediaplayer_add_music, RK_mediaplayer_set_mode, PlayerTypes
  <2>2. CASE Idle /\ RK_mediaplayer_play
    BY <1>0, <2>2, ChooseTypes DEF RK_mediaplayer_play
  <2>3. ASSUME NEW then \in {"idle", "clear"}, RK_mediaplayer_stop(then)
        PROVE  PlayerTypes'
    BY <1>0, <1>2, <1>a, <2>3, PlaybinTypes DEF RK_mediaplayer_stop, PlayerTypes
  <2>4. CASE RK_mediaplayer_pause \/ RK_mediaplayer_resume
    BY <1>0, <1>2, <1>a, <2>4 DEF RK_mediaplayer_pause, RK_mediaplayer_resume, PlayerTypes
  <2>5. CASE RK_mediaplayer_destroy
    BY <1>0, <1>2, <1>a, <2>5 DEF RK_mediaplayer_destroy, PlayerTypes
  <2>6. Idle => pc["app"] \notin Playing
    BY DEF Idle, Playing
  <2> QED
    BY <1>0, <1>1, <1>3, <2>1, <2>2, <2>3, <2>4, <2>5, <2>6 DEF App
<1>4. CASE Clear
  BY <1>0, <1>2, <1>a, <1>4 DEF Clear, PlayerTypes
<1>5. CASE SetState
  <2>1. playbin' \in Playbin /\ disturbed' \in BOOLEAN
    BY <1>0, <1>5, PlaybinTypes DEF SetState
  <2> QED
    BY <1>0, <1>2, <1>a, <1>5, <2>1 DEF SetState, PlayerTypes
<1>6. CASE Joined
  BY <1>0, <1>2, <1>a, <1>6, PlaybinTypes DEF Joined, PlayerTypes
<1>7. CASE Pop
  <2>1. bus' \in 0..MaxEos
    BY <1>7, BoundsAssumption DEF Pop, PlayerTypes
  <2>2. PICK place \in {"eos", "check"} : Goto("listener", place)
    BY <1>7 DEF Pop
  <2> QED
    BY <1>0, <1>2, <1>a, <1>7, <2>1, <2>2 DEF Pop, PlayerTypes
<1>8. CASE Eos
  <2>1. pc["listener"] \notin Playing
    BY <1>8 DEF Eos, Playing
  <2> QED
    BY <1>0, <1>1, <1>8, <2>1 DEF Eos
<1>9. CASE Check
  <2>1. playbin' \in Playbin /\ bus' \in 0..MaxEos
    BY <1>9, PlaybinTypes DEF Check, PlayerTypes
  <2>2. PICK place \in {"exited", "pop"} : Goto("listener", place)
    BY <1>9 DEF Check
  <2> QED
    BY <1>0, <1>2, <1>a, <1>9, <2>1, <2>2 DEF Check, PlayerTypes
<1>10. CASE TrackEnds
  <2>1. playbin' \in Playbin
    BY <1>10 DEF TrackEnds, PlayerTypes, Playbin
  <2>2. bus' \in 0..MaxEos
    BY <1>10, BoundsAssumption DEF TrackEnds, PlayerTypes
  <2> QED
    BY <1>10, <2>1, <2>2 DEF TrackEnds, PlayerTypes
<1>11. CASE UNCHANGED vars
  BY <1>11 DEF vars, PlayerTypes
<1> QED
  BY <1>0, <1>3, <1>4, <1>5, <1>6, <1>7, <1>8, <1>9, <1>10, <1>11, PlayTypes
     DEF Next, AppReturns, Listener

LEMMA PlayerTypesInit ==
  ASSUME Init
  PROVE  PlayerTypes
<1>1. playbin \in Playbin /\ bus \in 0..MaxEos
  BY BoundsAssumption DEF Init, Playbin, Pointer
<1>2. /\ pc["app"] = "idle" /\ pc["listener"] = "none" /\ DOMAIN pc = Threads
      /\ \A p \in Threads : pc[p] \in {"idle", "none"}
  BY DEF Init, Threads
<1>3. "idle" \in AppStates \ Playing /\ "none" \in ListenerStates \ Playing
  BY DEF AppStates, ListenerStates, Playing
<1>4. cur_music \in [Threads -> Pointer \cup {URL}]
  BY DEF Init, Pointer
<1>5. terminate \in BOOLEAN /\ disturbed \in BOOLEAN
  BY DEF Init
<1>6. \A p \in Threads : pc[p] \notin Playing
  BY <1>2, <1>3
<1> QED
  BY <1>1, <1>2, <1>3, <1>4, <1>5, <1>6 DEF PlayerTypes

(* Every variable keeps its type: the links stay within the tracks, and no *)
(* thread plays nothing.                                                   *)
THEOREM TypeCorrect == Spec => []TypeOK
<1>1. Init => PlayerTypes
  BY PlayerTypesInit
<1>2. ListInv /\ PlayerTypes /\ [Next]_vars => PlayerTypes'
  BY PlayerTypesStep
<1> QED
  BY <1>1, <1>2, ListInvariant, TypesSplit, PTL DEF Spec

-----------------------------------------------------------------------------
(* What plays is the current track.                                        *)

(* A track of the list is the current one, if there is one; what was freed *)
(* is no track of the list any more, and no node is allocated twice.       *)
IsCurrent(x) == x \in Nodes /\ playlist_current # NULL => x = playlist_current
Known(x) == x \in Tracks => x \in 1..added
AllKnown ==
  /\ Known(playbin.uri) /\ Known(playbin.playing)
  /\ \A p \in Threads : Known(cur_music[p])

(* Until the threads disturb each other, one of them at most plays, what   *)
(* it plays is the current track, and otherwise what the playbin has is.   *)
Crashed == pc["app"] = "crashed"
Begun(p) == pc[p] \in {"set_uri", "start"}
Silent == playbin.state \in {"NULL", "READY"} /\ playbin.playing = NULL
Undisturbed ==
  ~disturbed /\ ~Crashed =>
    /\ ~(Busy("app") /\ Busy("listener"))
    /\ \A p \in Threads :
         /\ Busy(p) => IsCurrent(cur_music[p])
         /\ Begun(p) => Silent
         /\ pc[p] = "start" => playbin.uri = cur_music[p]
    /\ ~Busy("app") /\ ~Busy("listener")
         => IsCurrent(playbin.uri) /\ IsCurrent(playbin.playing)

PlayerInv == PlayerTypes /\ AllKnown /\ Undisturbed

LEMMA NamesDiffer ==
  /\ "crashed" \notin Playing /\ {"set_uri", "start"} \subseteq Playing
  /\ "get_state" \in Playing /\ "get_state" \notin {"set_uri", "start", "crashed"}
  /\ Threads = {"app", "listener"} /\ Other("app") = "listener" /\ Other("listener") = "app"
  /\ \A p \in Threads : Home(p) \notin Playing /\ Home(p) # "crashed"
BY DEF Playing, Threads, Other, Home

(* A thread that does not play chooses the current track, or a url.        *)
LEMMA ChoosePlays ==
  ASSUME ListInv, PlayerInv, NEW p \in Threads, ~Busy(p), pc[p] # "crashed",
         NEW n, Choose(p, n), playbin' = playbin, added' = added, freed' = freed,
         \/ n \in Nodes /\ playlist_current' = n
         \/ n = URL
  PROVE  AllKnown' /\ Undisturbed'
<1>1. /\ pc' = [pc EXCEPT ![p] = "get_state"]
      /\ cur_music' = [cur_music EXCEPT ![p] = n]
      /\ DOMAIN pc = Threads /\ DOMAIN cur_music = Threads
  BY DEF Choose, Goto, PlayerInv, PlayerTypes
<1>2. disturbed' = Busy(Other(p))
  BY DEF Choose
<1>3. Nodes' = Nodes
  BY DEF Nodes
<1>4. URL \notin Tracks /\ Nodes \subseteq Tracks /\ Nodes \subseteq 1..added
  BY NullAssumption, NodesTracks DEF Nodes
<1>5. AllKnown'
  BY <1>1, <1>4 DEF AllKnown, Known, PlayerInv
<1>6. IsCurrent(n)'
  BY <1>3, <1>4 DEF IsCurrent
<1>7. ASSUME ~disturbed', ~Crashed'
      PROVE  /\ ~(Busy("app") /\ Busy("listener"))'
             /\ \A q \in Threads : pc'[q] \in Playing => q = p
             /\ pc'[p] = "get_state" /\ cur_music'[p] = n
  <2>1. ~Busy(Other(p))
    BY <1>2, <1>7
  <2>2. pc[Other(p)] \notin Playing /\ p # Other(p) /\ \A q \in Threads : q = p \/ q = Other(p)
    BY <2>1, NamesDiffer DEF Busy
  <2>3. \A q \in Threads : pc'[q] \in Playing => q = p
    BY <1>1, <2>2
  <2> QED
    BY <1>1, <2>3, NamesDiffer DEF Busy
<1>8. Busy(p)'
  BY <1>1, NamesDiffer DEF Busy
<1>9. ASSUME ~disturbed', ~Crashed', NEW q \in Threads
      PROVE  /\ (Busy(q) => IsCurrent(cur_music[q]))'
             /\ (Begun(q) => Silent)'
             /\ pc'[q] = "start" => playbin'.uri = cur_music'[q]
  BY <1>6, <1>7, <1>9, NamesDiffer DEF Busy, Begun, IsCurrent
<1>10. p = "app" \/ p = "listener"
  BY NamesDiffer
<1> QED
  BY <1>5, <1>7, <1>8, <1>9, <1>10 DEF Undisturbed

(* Steps that move no thread into or out of RK_mediaplayer_play.           *)
LEMMA QuietPlays ==
  ASSUME PlayerInv, cur_music' = cur_music, disturbed => disturbed',
         playbin'.uri = playbin.uri,
         \/ playbin'.playing = playbin.playing /\ playbin'.state = playbin.state
         \/ playbin'.playing = NULL /\ playbin'.state \in {"NULL", "READY"},
         Known(playbin.playing)', \A x : Known(x) => Known(x)',
         \A x : Known(x) /\ IsCurrent(x) => IsCurrent(x)', IsCurrent(NULL)',
         \A p \in Threads :
           \/ pc'[p] = pc[p]
           \/ pc[p] \notin Playing /\ pc'[p] \notin Playing
              /\ pc[p] # "crashed" /\ pc'[p] # "crashed"
  PROVE  AllKnown' /\ Undisturbed'
<1>1. AllKnown'
  BY DEF AllKnown, Known, PlayerInv
<1>2. \A p \in Threads : /\ Busy(p)' <=> Busy(p)
                         /\ Begun(p)' <=> Begun(p)
                         /\ pc'[p] = "start" <=> pc[p] = "start"
                         /\ pc'[p] = "crashed" <=> pc[p] = "crashed"
  BY NamesDiffer DEF Busy, Begun
<1>3. Crashed' <=> Crashed
  BY <1>2, NamesDiffer DEF Crashed
<1>4. Silent => Silent'
  BY DEF Silent
<1>5. ASSUME ~disturbed', ~Crashed'
      PROVE  /\ ~(Busy("app") /\ Busy("listener"))'
             /\ \A p \in Threads :
                  /\ (Busy(p) => IsCurrent(cur_music[p]))'
                  /\ (Begun(p) => Silent)'
                  /\ pc'[p] = "start" => playbin'.uri = cur_music'[p]
             /\ (~Busy("app") /\ ~Busy("listener"))'
                  => IsCurrent(playbin.uri)' /\ IsCurrent(playbin.playing)'
  <2>1. /\ ~(Busy("app") /\ Busy("listener"))
        /\ \A p \in Threads :
             /\ Busy(p) => IsCurrent(cur_music[p])
             /\ Begun(p) => Silent
             /\ pc[p] = "start" => playbin.uri = cur_music[p]
        /\ ~Busy("app") /\ ~Busy("listener")
             => IsCurrent(playbin.uri) /\ IsCurrent(playbin.playing)
    BY <1>3, <1>5 DEF PlayerInv, Undisturbed
  <2>2. ~(Busy("app") /\ Busy("listener"))'
    BY <1>2, <2>1, NamesDiffer
  <2>3. ASSUME NEW p \in Threads
        PROVE  /\ (Busy(p) => IsCurrent(cur_music[p]))'
               /\ (Begun(p) => Silent)'
               /\ pc'[p] = "start" => playbin'.uri = cur_music'[p]
    BY <1>2, <1>4, <2>1 DEF PlayerInv, AllKnown, IsCurrent
  <2>4. ASSUME (~Busy("app") /\ ~Busy("listener"))'
        PROVE  IsCurrent(playbin.uri)' /\ IsCurrent(playbin.playing)'
    <3>1. IsCurrent(playbin.uri) /\ IsCurrent(playbin.playing)
      BY <1>2, <2>1, <2>4, NamesDiffer
    <3> QED
      BY <3>1 DEF PlayerInv, AllKnown, IsCurrent
  <2> QED
    BY <2>2, <2>3, <2>4
<1> QED
  BY <1>1, <1>5 DEF Undisturbed

(* Undisturbed, the thread that plays is the only one.                     *)
LEMMA OneBusy ==
  ASSUME PlayerInv, ~disturbed, ~Crashed, NEW p \in Threads, pc[p] \in Playing
  PROVE  /\ \A q \in Threads : q # p => pc[q] \notin Playing
         /\ IsCurrent(cur_music[p]) /\ (Begun(p) => Silent)
         /\ pc[p] = "start" => playbin.uri = cur_music[p]
BY NamesDiffer DEF PlayerInv, Undisturbed, Busy

(* One that plays goes on.                                                 *)
LEMMA GoesOn ==
  ASSUME PlayerInv, NEW p \in Threads, pc[p] \in Playing, ~disturbed, ~Crashed,
         NEW place, place \in Playing, Goto(p, place), cur_music' = cur_music,
         UNCHANGED list,
         place \in {"set_uri", "start"} => Silent',
         place = "start" => playbin'.uri = cur_music[p]
  PROVE  Undisturbed'
<1>1. pc' = [pc EXCEPT ![p] = place] /\ DOMAIN pc = Threads
  BY DEF Goto, PlayerInv, PlayerTypes
<1>2. /\ \A q \in Threads : q # p => pc[q] \notin Playing
      /\ IsCurrent(cur_music[p])
  BY OneBusy
<1>3. pc'[p] = place /\ \A q \in Threads : q # p => pc'[q] \notin Playing
  BY <1>1, <1>2
<1>4. IsCurrent(cur_music[p])'
  BY <1>2 DEF IsCurrent, list, Nodes
<1>5. ~(Busy("app") /\ Busy("listener"))' /\ ~(~Busy("app") /\ ~Busy("listener"))'
  BY <1>3, NamesDiffer DEF Busy
<1>6. ASSUME NEW q \in Threads
      PROVE  /\ (Busy(q) => IsCurrent(cur_music[q]))'
             /\ (Begun(q) => Silent)'
             /\ pc'[q] = "start" => playbin'.uri = cur_music'[q]
  <2>1. CASE q = p
    BY <1>3, <1>4, <2>1 DEF Busy, Begun
  <2>2. CASE q # p
    BY <1>3, <2>2, NamesDiffer DEF Busy, Begun
  <2> QED
    BY <2>1, <2>2
<1> QED
  BY <1>5, <1>6 DEF Undisturbed

LEMMA PlayPlays ==
  ASSUME ListInv, PlayerInv, NEW p \in Threads, Play(p)
  PROVE  AllKnown' /\ Undisturbed'
<1>0. UNCHANGED list /\ DOMAIN pc = Threads /\ DOMAIN cur_music = Threads
      /\ (\A x : Known(x)' <=> Known(x)) /\ Known(NULL)
      /\ disturbed \in BOOLEAN
  BY PlayKeepsList, NullAssumption DEF list, Known, PlayerInv, PlayerTypes
<1>1. CASE ReadFreed(p)
  <2>1. /\ pc' = [q \in Threads |-> "crashed"] /\ cur_music' = [q \in Threads |-> NULL]
        /\ playbin' = playbin
    BY <1>1 DEF ReadFreed
  <2>2. Crashed' /\ \A q \in Threads : cur_music'[q] = NULL
    BY <2>1, NamesDiffer DEF Crashed
  <2>3. AllKnown'
    BY <1>0, <2>1, <2>2 DEF AllKnown, Known, PlayerInv
  <2> QED
    BY <2>2, <2>3 DEF Undisturbed
<1>a. ASSUME NEW place, Goto(p, place), Crashed PROVE Crashed' \/ p = "app"
  BY <1>0, <1>a, NamesDiffer DEF Crashed, Goto
<1>b. pc[p] \in Playing => (p = "app" => ~Crashed)
  BY NamesDiffer DEF Crashed
<1>c. ASSUME playbin'.uri = playbin.uri \/ Known(playbin'.uri),
             playbin'.playing \in {playbin.playing, playbin.uri, NULL},
             cur_music' = cur_music \/ cur_music' = [cur_music EXCEPT ![p] = NULL]
      PROVE  AllKnown'
  <2>1. Known(playbin'.uri) /\ Known(playbin'.playing)
    BY <1>0, <1>c DEF AllKnown, PlayerInv
  <2>2. \A q \in Threads : Known(cur_music'[q])
    BY <1>0, <1>c DEF AllKnown, PlayerInv
  <2> QED
    BY <1>0, <2>1, <2>2 DEF AllKnown, Known, list
<1>2. CASE GetState(p)
  <2>1. playbin' = playbin /\ pc[p] \in Playing
    BY <1>2 DEF GetState, Playing
  <2>2. CASE playbin.failed
    <3>1. disturbed' /\ cur_music' = [cur_music EXCEPT ![p] = NULL]
      BY <1>2, <2>2 DEF GetState
    <3> QED
      BY <1>c, <2>1, <3>1 DEF Undisturbed
  <2>3. CASE ~playbin.failed
    <3>1. PICK place \in {"ready", "null"} :
            Goto(p, place) /\ cur_music' = cur_music /\ disturbed' = disturbed
      BY <1>2, <2>3 DEF GetState
    <3>2. place \in Playing /\ place \notin {"set_uri", "start"}
      BY DEF Playing
    <3>3. ~disturbed' /\ ~Crashed' => ~disturbed /\ ~Crashed
      BY <1>a, <1>b, <2>1, <3>1
    <3>4. ~disturbed /\ ~Crashed => Undisturbed'
      BY <1>0, <2>1, <3>1, <3>2, GoesOn
    <3>5. AllKnown'
      BY <1>c, <2>1, <3>1
    <3> QED
      BY <3>3, <3>4, <3>5 DEF Undisturbed
  <2> QED
    BY <2>2, <2>3
<1>3. CASE ResetPlaybin(p)
  <2>1. /\ playbin'.uri = playbin.uri /\ playbin'.playing = NULL
        /\ playbin'.state \in {"NULL", "READY"}
    <3>1. DOMAIN playbin = {"state", "uri", "playing", "ended", "failed"}
      BY DEF PlayerInv, PlayerTypes, Playbin
    <3>2. Reset("READY") \/ Reset("NULL")
      BY <1>3 DEF ResetPlaybin, StopPlaybin
    <3> QED
      BY <3>1, <3>2 DEF Reset
  <2>2. pc[p] \in Playing /\ Goto(p, "set_uri") /\ cur_music' = cur_music
    BY <1>3 DEF ResetPlaybin, Playing
  <2>3. disturbed' = (disturbed \/ Busy(Other(p)))
    BY <1>3 DEF ResetPlaybin, Disturb
  <2>4. ~disturbed' /\ ~Crashed' => ~disturbed /\ ~Crashed
    BY <1>a, <1>b, <2>2, <2>3
  <2>5. ~disturbed /\ ~Crashed => Undisturbed'
    BY <1>0, <2>1, <2>2, NamesDiffer, GoesOn DEF Silent
  <2>6. AllKnown'
    BY <1>c, <2>1, <2>2
  <2> QED
    BY <2>4, <2>5, <2>6 DEF Undisturbed
<1>4. CASE SetUri(p)
  <2>1. /\ playbin'.uri = cur_music[p] /\ playbin'.playing = playbin.playing
        /\ playbin'.state = playbin.state
    <3>1. DOMAIN playbin = {"state", "uri", "playing", "ended", "failed"}
      BY DEF PlayerInv, PlayerTypes, Playbin
    <3> QED
      BY <1>4, <3>1 DEF SetUri
  <2>2. pc[p] \in Playing /\ Begun(p) /\ Goto(p, "start") /\ cur_music' = cur_music
    BY <1>4 DEF SetUri, Playing, Begun
  <2>3. disturbed' = (disturbed \/ Busy(Other(p)))
    BY <1>4 DEF SetUri, Disturb
  <2>4. ~disturbed' /\ ~Crashed' => ~disturbed /\ ~Crashed
    BY <1>a, <1>b, <2>2, <2>3
  <2>5. ASSUME ~disturbed, ~Crashed PROVE Undisturbed'
    <3>1. Silent'
      BY <2>1, <2>2, <2>5, OneBusy DEF Silent
    <3> QED
      BY <1>0, <2>1, <2>2, <2>5, <3>1, NamesDiffer, GoesOn
  <2>6. AllKnown'
    BY <1>c, <2>1, <2>2 DEF PlayerInv, AllKnown
  <2> QED
    BY <2>4, <2>5, <2>6 DEF Undisturbed
<1>5. CASE Start(p)
  <2>1. /\ playbin'.uri = playbin.uri
        /\ playbin'.playing \in {playbin.playing, playbin.uri}
    <3>1. DOMAIN playbin = {"state", "uri", "playing", "ended", "failed"}
      BY DEF PlayerInv, PlayerTypes, Playbin
    <3>2. Started("PLAYING") \/ StartFails
      BY <1>5 DEF Start
    <3> QED
      BY <3>1, <3>2 DEF Started, StartFails
  <2>2. /\ pc[p] = "start" /\ pc[p] \in Playing /\ Begun(p)
        /\ cur_music' = [cur_music EXCEPT ![p] = NULL]
        /\ \/ pc' = [pc EXCEPT ![p] = Home(p)]
           \/ pc["listener"] = "none" /\ pc' = [pc EXCEPT ![p] = Home(p), !["listener"] = "pop"]
    BY <1>5 DEF Start, Goto, Playing, Begun
  <2>3. disturbed' = (disturbed \/ Busy(Other(p)))
    BY <1>5 DEF Start, Disturb
  <2>4. AllKnown'
    BY <1>c, <2>1, <2>2
  <2>5. ASSUME ~disturbed', ~Crashed' PROVE ~disturbed /\ ~Crashed
    <3>1. p # "app" => pc'["app"] = pc["app"]
      BY <1>0, <2>2, NamesDiffer
    <3> QED
      BY <1>b, <2>2, <2>3, <2>5, <3>1 DEF Crashed
  <2>6. ASSUME ~disturbed, ~Crashed PROVE Undisturbed'
    <3>1. /\ \A q \in Threads : q # p => pc[q] \notin Playing
          /\ IsCurrent(cur_music[p]) /\ Silent /\ playbin.uri = cur_music[p]
      BY <2>2, <2>6, OneBusy
    <3>2. "pop" \notin Playing
      BY DEF Playing
    <3>3. \A q \in Threads : pc'[q] \notin Playing
      BY <1>0, <2>2, <3>1, <3>2, NamesDiffer
    <3>4. IsCurrent(playbin.uri) /\ IsCurrent(NULL)
      BY <3>1, NullIsNoNode DEF IsCurrent
    <3>5. playbin'.playing \in {NULL, playbin.uri}
      BY <2>1, <3>1 DEF Silent
    <3>6. IsCurrent(playbin.uri)' /\ IsCurrent(playbin.playing)'
      BY <1>0, <2>1, <3>4, <3>5 DEF IsCurrent, list, Nodes
    <3>7. \A q \in Threads : ~Busy(q)' /\ ~Begun(q)' /\ pc'[q] # "start"
      BY <3>3, NamesDiffer DEF Busy, Begun
    <3> QED
      BY <3>6, <3>7, NamesDiffer DEF Undisturbed
  <2> QED
    BY <2>4, <2>5, <2>6 DEF Undisturbed
<1> QED
  BY <1>1, <1>2, <1>3, <1>4, <1>5 DEF Play

(* A step of the thread p that leaves the list alone and does not play.    *)
LEMMA QuietStep ==
  ASSUME ListInv, PlayerInv, UNCHANGED list, cur_music' = cur_music,
         disturbed => disturbed',
         \/ playbin'.playing = playbin.playing /\ playbin'.state = playbin.state
            /\ playbin'.uri = playbin.uri
         \/ StopPlaybin,
         NEW p \in Threads, NEW place, place \notin Playing, place # "crashed",
         (Goto(p, place) /\ pc[p] \notin Playing /\ pc[p] # "crashed") \/ pc' = pc
  PROVE  AllKnown' /\ Undisturbed'
<1>1. /\ playbin'.uri = playbin.uri
      /\ \/ playbin'.playing = playbin.playing /\ playbin'.state = playbin.state
         \/ playbin'.playing = NULL /\ playbin'.state \in {"NULL", "READY"}
  <2>1. DOMAIN playbin = {"state", "uri", "playing", "ended", "failed"}
    BY DEF PlayerInv, PlayerTypes, Playbin
  <2> QED
    BY <2>1 DEF StopPlaybin, Reset
<1>2. /\ \A x : Known(x) => Known(x)'
      /\ \A x : IsCurrent(x) => IsCurrent(x)'
      /\ IsCurrent(NULL)'
  BY NullIsNoNode DEF list, Known, IsCurrent, Nodes
<1>3. Known(playbin.playing)'
  BY <1>1, <1>2, NullAssumption DEF PlayerInv, AllKnown, Known, list
<1>4. DOMAIN pc = Threads
  BY DEF PlayerInv, PlayerTypes
<1>5. ASSUME NEW q \in Threads
      PROVE  \/ pc'[q] = pc[q]
             \/ pc[q] \notin Playing /\ pc'[q] \notin Playing
                /\ pc[q] # "crashed" /\ pc'[q] # "crashed"
  BY <1>4 DEF Goto
<1> QED
  BY <1>1, <1>2, <1>3, <1>5, QuietPlays

(* Choosing the next track, or none at the end of the list.                *)
LEMMA ChoiceIsPlayed ==
  ASSUME ListInv, PlayerInv, NEW p \in Threads, ~Busy(p), pc[p] # "crashed",
         \/ RK_mediaplayer_next(p)
         \/ RK_mediaplayer_prev(p)
         \/ RK_mediaplayer_start_playlist(p)
  PROVE  AllKnown' /\ Undisturbed'
<1>1. playbin' = playbin /\ added' = added /\ freed' = freed
  BY DEF RK_mediaplayer_next, RK_mediaplayer_prev, RK_mediaplayer_start_playlist
<1>2. CASE playlist_current' \in Nodes /\ Choose(p, playlist_current')
  BY <1>1, <1>2, ChoosePlays
<1>3. CASE /\ playlist_current' = NULL /\ UNCHANGED <<cur_music, disturbed>>
           /\ Goto(p, Home(p)) \/ pc' = pc
  <2>1. /\ \A x : Known(x) => Known(x)'
        /\ \A x : IsCurrent(x)'
    BY <1>1, <1>3 DEF Known, IsCurrent
  <2>2. Known(playbin.playing)'
    BY <1>1, <2>1 DEF PlayerInv, AllKnown
  <2>3. ASSUME NEW q \in Threads
        PROVE  \/ pc'[q] = pc[q]
               \/ pc[q] \notin Playing /\ pc'[q] \notin Playing
                  /\ pc[q] # "crashed" /\ pc'[q] # "crashed"
    <3>1. DOMAIN pc = Threads
      BY DEF PlayerInv, PlayerTypes
    <3> QED
      BY <1>3, <3>1, NamesDiffer DEF Goto, Busy
  <2> QED
    BY <1>1, <1>3, <2>1, <2>2, <2>3, QuietPlays
<1> QED
  BY <1>2, <1>3, Chosen

LEMMA AddPlays ==
  ASSUME ListInv, PlayerInv, RK_mediaplayer_add_music
  PROVE  AllKnown' /\ Undisturbed'
<1>1. /\ added \in 0..MaxTracks /\ added < MaxTracks /\ added' = added + 1
      /\ UNCHANGED <<playlist_current, freed, playbin, pc, cur_music, disturbed>>
  BY DEF RK_mediaplayer_add_music, ListInv, ListTypes
<1>2. added \in Nat /\ added + 1 \in Tracks
  BY <1>1, BoundsAssumption DEF Tracks
<1>3. \A x : Known(x) => Known(x)'
  BY <1>1, <1>2 DEF Known
<1>4. \A x : Known(x) /\ x \in Nodes' => x \in Nodes
  BY <1>1, <1>2, BoundsAssumption DEF Known, Nodes, Tracks
<1>5. NULL \notin Nodes'
  BY <1>1, <1>2, BoundsAssumption, NullAssumption DEF Nodes, Tracks
<1>6. /\ \A x : Known(x) /\ IsCurrent(x) => IsCurrent(x)'
      /\ IsCurrent(NULL)'
  BY <1>1, <1>4, <1>5 DEF IsCurrent
<1>7. Known(playbin.playing)'
  BY <1>1, <1>3 DEF PlayerInv, AllKnown
<1> QED
  BY <1>1, <1>3, <1>6, <1>7, QuietPlays

LEMMA ClearPlays ==
  ASSUME PlayerInv, Clear
  PROVE  AllKnown' /\ Undisturbed'
<1>1. /\ playlist_current' = NULL /\ pc["app"] = "clear" /\ Goto("app", "idle")
      /\ UNCHANGED <<added, playbin, cur_music, disturbed>>
  BY DEF Clear
<1>2. /\ \A x : Known(x) => Known(x)'
      /\ \A x : IsCurrent(x)'
  BY <1>1 DEF Known, IsCurrent
<1>3. Known(playbin.playing)'
  BY <1>1, <1>2 DEF PlayerInv, AllKnown
<1>4. ASSUME NEW q \in Threads
      PROVE  \/ pc'[q] = pc[q]
             \/ pc[q] \notin Playing /\ pc'[q] \notin Playing
                /\ pc[q] # "crashed" /\ pc'[q] # "crashed"
  <2>1. DOMAIN pc = Threads
    BY DEF PlayerInv, PlayerTypes
  <2>2. "clear" \notin Playing /\ "idle" \notin Playing
    BY DEF Playing
  <2> QED
    BY <1>1, <2>1, <2>2 DEF Goto
<1> QED
  BY <1>1, <1>2, <1>3, <1>4, QuietPlays

(* Pause and resume may start what the uri names.                          *)
LEMMA SetStatePlays ==
  ASSUME PlayerInv, SetState
  PROVE  AllKnown' /\ Undisturbed'
<1>1. /\ pc["app"] \in {"pause", "resume"} /\ Goto("app", "idle")
      /\ disturbed' = (disturbed \/ Busy("listener"))
      /\ UNCHANGED list /\ cur_music' = cur_music
      /\ Started("PAUSED") \/ Started("PLAYING") \/ StartFails
  BY NamesDiffer DEF SetState, Disturb
<1>2. /\ playbin'.uri = playbin.uri
      /\ playbin'.playing \in {playbin.playing, playbin.uri}
  <2>1. DOMAIN playbin = {"state", "uri", "playing", "ended", "failed"}
    BY DEF PlayerInv, PlayerTypes, Playbin
  <2> QED
    BY <1>1, <2>1 DEF Started, StartFails
<1>3. AllKnown'
  BY <1>1, <1>2 DEF PlayerInv, AllKnown, Known, list
<1>4. ASSUME ~disturbed' PROVE Undisturbed'
  <2>1. /\ DOMAIN pc = Threads /\ disturbed \in BOOLEAN
        /\ pc["app"] \notin Playing /\ ~Crashed /\ "idle" \notin Playing
    BY <1>1 DEF PlayerInv, PlayerTypes, Playing, Crashed
  <2>2. ~disturbed /\ pc["listener"] \notin Playing
    BY <1>1, <1>4, <2>1 DEF Busy
  <2>3. IsCurrent(playbin.uri) /\ IsCurrent(playbin.playing)
    BY <2>1, <2>2 DEF PlayerInv, Undisturbed, Busy
  <2>4. IsCurrent(playbin.uri)' /\ IsCurrent(playbin.playing)'
    BY <1>1, <1>2, <2>3 DEF IsCurrent, list, Nodes
  <2>5. \A q \in Threads : pc'[q] \notin Playing
    BY <1>1, <2>1, <2>2, NamesDiffer DEF Goto
  <2>6. \A q \in Threads : ~Busy(q)' /\ ~Begun(q)' /\ pc'[q] # "start"
    BY <2>5, NamesDiffer DEF Busy, Begun
  <2> QED
    BY <2>4, <2>6, NamesDiffer DEF Undisturbed
<1> QED
  BY <1>3, <1>4 DEF Undisturbed

LEMMA PlayerStep ==
  ASSUME ListInv, PlayerInv, [Next]_vars
  PROVE  AllKnown' /\ Undisturbed'
<1>0. /\ \A place \in {"idle", "clear", "pause", "resume", "join", "destroyed",
                       "pop", "eos", "check", "exited"} :
           place \notin Playing /\ place # "crashed"
      /\ "app" \in Threads /\ "listener" \in Threads
  BY DEF Playing, Threads
<1>1. CASE App
  <2>0. Idle /\ ~Busy("app") /\ pc["app"] = "idle" /\ pc["app"] # "crashed"
    BY <1>0, <1>1 DEF App, Idle, Busy
  <2>1. CASE \/ RK_mediaplayer_next("app")
             \/ RK_mediaplayer_prev("app")
             \/ RK_mediaplayer_start_playlist("app")
    BY <1>0, <2>0, <2>1, ChoiceIsPlayed
  <2>2. CASE RK_mediaplayer_add_music
    BY <2>2, AddPlays
  <2>3. CASE RK_mediaplayer_play
    <3>1. /\ Choose("app", URL) /\ playbin' = playbin
          /\ added' = added /\ freed' = freed
      BY <2>3 DEF RK_mediaplayer_play, list
    <3> QED
      BY <1>0, <2>0, <3>1, ChoosePlays
  <2>4. CASE \E mode \in Modes : RK_mediaplayer_set_mode(mode)
    <3>1. /\ UNCHANGED list /\ cur_music' = cur_music /\ disturbed' = disturbed
          /\ playbin' = playbin /\ pc' = pc
      BY <2>4 DEF RK_mediaplayer_set_mode
    <3> QED
      BY <1>0, <3>1, QuietStep
  <2>5. ASSUME NEW then \in {"idle", "clear"}, RK_mediaplayer_stop(then)
        PROVE  AllKnown' /\ Undisturbed'
    <3>1. /\ UNCHANGED list /\ cur_music' = cur_music /\ (disturbed => disturbed')
          /\ StopPlaybin /\ Goto("app", then)
      BY <2>5 DEF RK_mediaplayer_stop, Disturb
    <3>2. then \notin Playing /\ then # "crashed"
      BY <1>0
    <3> QED
      BY <1>0, <2>0, <3>1, <3>2, QuietStep
  <2>6. CASE RK_mediaplayer_pause \/ RK_mediaplayer_resume \/ RK_mediaplayer_destroy
    <3>1. /\ UNCHANGED list /\ cur_music' = cur_music /\ disturbed' = disturbed
          /\ playbin' = playbin
      BY <2>6 DEF RK_mediaplayer_pause, RK_mediaplayer_resume, RK_mediaplayer_destroy
    <3>2. PICK place \in {"pause", "resume", "join"} : Goto("app", place)
      BY <2>6 DEF RK_mediaplayer_pause, RK_mediaplayer_resume, RK_mediaplayer_destroy
    <3>3. place \notin Playing /\ place # "crashed"
      BY <1>0
    <3> QED
      BY <1>0, <2>0, <3>1, <3>2, <3>3, QuietStep
  <2> QED
    BY <1>1, <2>1, <2>2, <2>3, <2>4, <2>5, <2>6 DEF App
<1>2. CASE Clear
  BY <1>2, ClearPlays
<1>3. CASE SetState
  BY <1>3, SetStatePlays
<1>4. CASE Joined
  <2>1. /\ UNCHANGED list /\ cur_music' = cur_music /\ disturbed' = disturbed
        /\ StopPlaybin /\ Goto("app", "destroyed") /\ pc["app"] = "join"
    BY <1>4 DEF Joined
  <2> QED
    BY <1>0, <2>1, QuietStep
<1>5. CASE Pop
  <2>1. /\ UNCHANGED list /\ cur_music' = cur_music /\ disturbed' = disturbed
        /\ playbin' = playbin /\ pc["listener"] = "pop"
    BY <1>5 DEF Pop
  <2>2. PICK place \in {"eos", "check"} : Goto("listener", place)
    BY <1>5 DEF Pop
  <2>3. place \notin Playing /\ place # "crashed"
    BY <1>0
  <2> QED
    BY <1>0, <2>1, <2>2, <2>3, QuietStep
<1>6. CASE Eos
  <2>1. pc["listener"] = "eos" /\ RK_mediaplayer_next("listener")
    BY <1>6 DEF Eos
  <2>2. ~Busy("listener") /\ pc["listener"] # "crashed"
    BY <1>0, <2>1 DEF Busy
  <2> QED
    BY <1>0, <2>1, <2>2, ChoiceIsPlayed
<1>7. CASE Check
  <2>1. /\ UNCHANGED list /\ cur_music' = cur_music /\ disturbed' = disturbed
        /\ playbin' = playbin \/ StopPlaybin
        /\ pc["listener"] = "check"
    BY <1>7 DEF Check
  <2>2. PICK place \in {"exited", "pop"} : Goto("listener", place)
    BY <1>7 DEF Check
  <2>3. place \notin Playing /\ place # "crashed"
    BY <1>0
  <2> QED
    BY <1>0, <2>1, <2>2, <2>3, QuietStep
<1>8. CASE TrackEnds
  <2>1. /\ UNCHANGED list /\ cur_music' = cur_music /\ disturbed' = disturbed
        /\ pc' = pc /\ playbin' = [playbin EXCEPT !.ended = TRUE]
    BY <1>8 DEF TrackEnds
  <2>2. playbin'.playing = playbin.playing /\ playbin'.state = playbin.state
        /\ playbin'.uri = playbin.uri
    BY <2>1 DEF PlayerInv, PlayerTypes, Playbin
  <2> QED
    BY <1>0, <2>1, <2>2, QuietStep
<1>9. CASE UNCHANGED vars
  <2>1. /\ UNCHANGED list /\ cur_music' = cur_music /\ disturbed' = disturbed
        /\ playbin' = playbin /\ pc' = pc
    BY <1>9 DEF vars
  <2> QED
    BY <1>0, <2>1, QuietStep
<1>10. CASE \E p \in Threads : Play(p)
  BY <1>10, PlayPlays
<1> QED
  BY <1>0, <1>1, <1>2, <1>3, <1>4, <1>5, <1>6, <1>7, <1>8, <1>9, <1>10
     DEF Next, AppReturns, Listener

(* When no thread is playing anything and they have not disturbed each     *)
(* other, the track that plays is the current one.                         *)
THEOREM PlaysAlwaysCurrent == Spec => []PlaysCurrent
<1>1. Init => PlayerInv
  <2>1. SUFFICES ASSUME Init PROVE PlayerInv
    OBVIOUS
  <2>2. /\ playbin.uri = NULL /\ playbin.playing = NULL /\ playlist_current = NULL
        /\ \A p \in Threads : cur_music[p] = NULL /\ pc[p] \in {"idle", "none"}
    BY <2>1 DEF Init, Threads
  <2>3. AllKnown
    BY <2>2, NullAssumption DEF AllKnown, Known
  <2>4. \A p \in Threads : ~Busy(p) /\ ~Begun(p) /\ pc[p] # "start"
    BY <2>2 DEF Busy, Begun, Playing
  <2>5. Undisturbed
    BY <2>2, <2>4, NamesDiffer DEF Undisturbed, IsCurrent
  <2> QED
    BY <2>1, <2>3, <2>5, PlayerTypesInit DEF PlayerInv
<1>2. ListInv /\ PlayerInv /\ [Next]_vars => PlayerInv'
  BY PlayerStep, PlayerTypesStep DEF PlayerInv
<1>3. PlayerInv => PlaysCurrent
  <2>1. SUFFICES ASSUME PlayerInv, ~disturbed,
                        ~\E p \in Threads : Busy(p) \/ pc[p] = "crashed",
                        playbin.playing \in Nodes, playlist_current # NULL
                 PROVE  playbin.playing = playlist_current
    BY DEF PlaysCurrent
  <2>2. ~Busy("app") /\ ~Busy("listener") /\ ~Crashed
    BY <2>1, NamesDiffer DEF Crashed
  <2> QED
    BY <2>1, <2>2 DEF PlayerInv, Undisturbed, IsCurrent
<1> QED
  BY <1>1, <1>2, <1>3, ListInvariant, PTL DEF Spec
=============================================================================
