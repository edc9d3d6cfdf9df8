--------------------------- MODULE KeyPress_proofs ---------------------------
(***************************************************************************)
(* Proofs about KeyPress, for any keys, times and numbers of clicks.       *)
(*                                                                         *)
(* The reports are judged by the history of the user's keys, of which the  *)
(* code sees little: it has the age of the one timer and of the last click *)
(* that it counted.  Places says what is set together; Clicked and Counted *)
(* compare the count and the age that thread_key_multiple keeps with those *)
(* of the key; Alone and ForKey compare the age of the timer with the time *)
(* for which its key is down, while one key is used at a time.             *)
(***************************************************************************)
EXTENDS KeyPress, TLAPS, WellFoundedInduction

-----------------------------------------------------------------------------
(* What is chosen from registrations.                                      *)

(* A non-empty set of natural numbers has a least element.                 *)
LEMMA LeastNatural ==
  ASSUME NEW T \in SUBSET Nat, T # {}
  PROVE  \E m \in T : \A n \in T : m <= n
<1>1. PICK m \in T : \A n \in T : ~(<<n, m>> \in OpToRel(<, Nat))
  BY NatLessThanWellFounded, WFMin
<1>2. \A n \in T : m \in Nat /\ n \in Nat /\ ~(n < m)
  BY <1>1 DEF OpToRel
<1> QED
  BY <1>2

(* The greatest of bounded numbers.                                        *)
LEMMA GreatestIs ==
  ASSUME NEW S \in SUBSET Nat, S # {}, NEW b \in Nat, \A x \in S : x <= b
  PROVE  Greatest(S) \in S /\ \A x \in S : x <= Greatest(S)
<1> DEFINE T == {b - x : x \in S}
<1>0. \A x \in S : b - x \in Nat
  OBVIOUS
<1>1. T \in SUBSET Nat /\ T # {}
  BY <1>0
<1>2. PICK m \in T : \A n \in T : m <= n
  <2> HIDE DEF T
  <2> QED
    BY <1>1, LeastNatural
<1>3. PICK x \in S : m = b - x
  BY <1>2
<1>4. \A y \in S : m <= b - y
  BY <1>2
<1>5. \A y \in S : y <= x
  BY <1>3, <1>4
<1> QED
  BY <1>3, <1>5 DEF Greatest

(* Clicks are bounded, and so are the times.                               *)
LEMMA GreatestClicks ==
  ASSUME NEW S \in SUBSET Clicks, NEW n \in Nat, S \cup {n} # {}
  PROVE  /\ S # {} => Greatest(S) \in S /\ \A x \in S : x <= Greatest(S)
         /\ Greatest(S \cup {n}) \in S \cup {n}
         /\ \A x \in S \cup {n} : x <= Greatest(S \cup {n})
<1>1. S \in SUBSET Nat /\ S \cup {n} \in SUBSET Nat
  BY TimesAssumption
<1>2. PICK b \in Clicks \cup {0} : \A x \in Clicks : x <= b
  BY ClicksAssumption
<1>3. b \in Nat /\ b + n \in Nat /\ \A x \in S \cup {n} : x <= b + n
  BY <1>1, <1>2, TimesAssumption
<1>4. S # {} => Greatest(S) \in S /\ \A x \in S : x <= Greatest(S)
  BY <1>1, <1>3, GreatestIs
<1>5. S \cup {n} # {}
  OBVIOUS
<1> HIDE <1>2
<1>6. Greatest(S \cup {n}) \in S \cup {n} /\ \A x \in S \cup {n} : x <= Greatest(S \cup {n})
  BY <1>1, <1>3, <1>5, GreatestIs
<1> QED
  BY <1>4, <1>6

(* No number of clicks that is registered is beyond the most there may be. *)
LEMMA MostClicksIs ==
  /\ MostClicks \in Nat /\ MostClicks >= 1 /\ \A n \in Clicks : n <= MostClicks
  /\ Greatest(Clicks \cup {2}) \in Nat /\ Greatest(Clicks \cup {2}) >= 2
  /\ MostClicks <= Greatest(Clicks \cup {2})
  /\ \A n \in Clicks : n <= Greatest(Clicks \cup {2})
<1>1. /\ Greatest(Clicks \cup {1}) \in Clicks \cup {1}
      /\ \A x \in Clicks \cup {1} : x <= Greatest(Clicks \cup {1})
  BY GreatestClicks
<1>2. /\ Greatest(Clicks \cup {2}) \in Clicks \cup {2}
      /\ \A x \in Clicks \cup {2} : x <= Greatest(Clicks \cup {2})
  BY GreatestClicks
<1>3. \A x \in Clicks \cup {1, 2} : x \in Nat
  BY TimesAssumption
<1> QED
  BY <1>1, <1>2, <1>3 DEF MostClicks

(* The longest of the long presses is one of them.                         *)
LEMMA LongestIs ==
  ASSUME TypeOK, NEW k \in Keys, HasLong(k)
  PROVE  get_max_input_long_press_key(k) \in Presses
<1> DEFINE list == m_long_press_head[k]
           S == {list[i].time : i \in 1..Len(list)}
<1>1. list \in Seq(Presses) /\ list # <<>>
  BY DEF TypeOK, HasLong
<1>2. Len(list) \in Nat /\ 1 \in 1..Len(list) /\ \A i \in 1..Len(list) : list[i] \in Presses
  <2> HIDE DEF list
  <2> QED
    BY <1>1
<1>3. ToSet(list) = {list[i] : i \in 1..Len(list)}
  <2> HIDE DEF list
  <2> QED
    BY <1>1, <1>2 DEF ToSet
<1>4. \A i \in 1..Len(list) : list[i].time \in Nat /\ list[i].time <= MaxAge
  BY <1>2, TimesAssumption DEF Presses
<1>5. S \in SUBSET Nat /\ S # {} /\ \A x \in S : x <= MaxAge
  <2> HIDE DEF list
  <2> QED
    BY <1>2, <1>4
<1>6. Greatest(S) \in S /\ \A x \in S : x <= Greatest(S)
  <2> HIDE DEF S
  <2> QED
    BY <1>5, GreatestIs, TimesAssumption
<1>7. PICK i \in 1..Len(list) : list[i].time = Greatest(S)
  <2> HIDE DEF list
  <2> QED
    BY <1>6
<1>8. \A j \in 1..Len(list) : list[j].time <= list[i].time
  <2> HIDE DEF list
  <2> QED
    BY <1>6, <1>7
<1> HIDE DEF S
<1>9. \E p \in ToSet(list) : \A q \in ToSet(list) : q.time <= p.time
  <2> HIDE DEF list
  <2> QED
    BY <1>3, <1>8
<1>10. get_max_input_long_press_key(k) \in ToSet(list)
  BY <1>9 DEF get_max_input_long_press_key
<1> HIDE DEF list
<1> QED
  BY <1>2, <1>3, <1>10

(* A long press that is found is registered and its time reached.          *)
LEMMA ReachedIs ==
  ASSUME TypeOK, NEW k \in Keys, NEW time \in Nat, get_input_long_press_key(k, time) # NULL
  PROVE  /\ get_input_long_press_key(k, time) \in Presses
         /\ get_input_long_press_key(k, time).time <= time
<1> DEFINE list == m_long_press_head[k]
<1>1. list \in Seq(Presses) /\ Len(list) \in Nat
  BY DEF TypeOK
<1>2. Reached(k, time) # {}
  BY DEF get_input_long_press_key
<1>3. Reached(k, time) = {i \in 1..Len(list) : list[i].time <= time}
  BY DEF Reached
<1> HIDE DEF list
<1>4. Reached(k, time) \in SUBSET Nat /\ \A i \in Reached(k, time) : i <= Len(list)
  BY <1>1, <1>3
<1>5. Greatest(Reached(k, time)) \in Reached(k, time)
  BY <1>1, <1>2, <1>4, GreatestIs
<1>6. get_input_long_press_key(k, time) = list[Greatest(Reached(k, time))]
  BY <1>2 DEF get_input_long_press_key, list
<1> QED
  BY <1>1, <1>3, <1>5, <1>6

(* A number of clicks that is found is not more than there were.           *)
LEMMA EnoughIs ==
  ASSUME TypeOK, NEW k \in Keys, NEW times \in Nat, get_multiple_press(k, times) # NULL
  PROVE  get_multiple_press(k, times) \in Clicks /\ get_multiple_press(k, times) <= times
<1>1. Enough(k, times) \in SUBSET Clicks /\ \A n \in Enough(k, times) : n <= times
  BY DEF Enough, TypeOK
<1>2. Enough(k, times) # {}
  BY DEF get_multiple_press
<1>3. Greatest(Enough(k, times)) \in Enough(k, times)
  BY <1>1, <1>2, GreatestClicks
<1> QED
  BY <1>1, <1>2, <1>3 DEF get_multiple_press

-----------------------------------------------------------------------------
(* The types, and where the threads are.                                   *)

(* The monitor has a key, with what it is about to do registered for it.   *)
(* The pointers of m_input_timer are set and reset together, and a timer   *)
(* is for one callback or for a heartbeat.                                 *)
Places ==
  /\ monitor.pc # "idle" => monitor.code \in Keys
  /\ monitor.pc = "arm" => HasLong(monitor.code)
  /\ monitor.pc = "click" => HasMultiple(monitor.code)
  /\ m_input_timer.timer <=> m_input_timer.key_code # NULL
  /\ m_input_timer.timer => HasLong(m_input_timer.key_code)
  /\ handle.time = 0 \/ handle.repeat = 0

(* The parts of TypeOK.                                                    *)
HandleType == [time : Times \cup {0}, repeat : Times \cup {0},
               start : Ages, last : Ages, listed : BOOLEAN]
PointersType == [timer : BOOLEAN, cb : BOOLEAN, hb : BOOLEAN, key_code : Keys \cup {NULL}]
Counts == 0..Greatest(Clicks \cup {2}) - 1
EventType ==
  [event : Keys \cup {NULL}, code : Keys \cup {NULL}, age : Ages,
   times : Counts, max : Clicks \cup {0},
   clicked : BOOLEAN, responded : BOOLEAN]
MonitorType ==
  [pc : {"idle", "arm", "click", "press", "time", "stop", "answer", "clear"},
   code : Keys \cup {NULL}, time : Ages]
TimerType == [pc : {"walk", "called", "key", "call", "reset", "return"}, once : BOOLEAN]
KeyType == [down : BOOLEAN, changed : BOOLEAN, held : Ages, last : Ages,
            count : 0..MostClicks]

TypeLists ==
  /\ m_long_press_head \in [Keys -> Seq(Presses)]
  /\ m_multiple_press_head \in [Keys -> SUBSET Clicks]
TypeThreads ==
  /\ handle \in HandleType /\ m_input_timer \in PointersType
  /\ m_input_multiple_event \in EventType
  /\ monitor \in MonitorType /\ timer \in TimerType
TypeHistory ==
  /\ owed \subseteq Keys
  /\ undue \subseteq {"long", "multiple"}
  /\ excuse \in {"none", "late", "overlap", "crash"}

LEMMA Types ==
  /\ TypeOK <=> TypeLists /\ TypeThreads /\ key \in [Keys -> KeyType] /\ TypeHistory
  /\ TypeOK' <=> TypeLists' /\ TypeThreads' /\ key' \in [Keys -> KeyType] /\ TypeHistory'
<1>1. TypeOK <=> TypeLists /\ TypeThreads /\ key \in [Keys -> KeyType] /\ TypeHistory
  BY DEF TypeOK, TypeLists, TypeThreads, TypeHistory, HandleType, PointersType, Counts,
     EventType, MonitorType, TimerType, KeyType, MostClicks
<1>2. TypeOK' <=> TypeLists' /\ TypeThreads' /\ key' \in [Keys -> KeyType] /\ TypeHistory'
  BY DEF TypeOK, TypeLists, TypeThreads, TypeHistory, HandleType, PointersType, Counts,
     EventType, MonitorType, TimerType, KeyType, MostClicks
<1> QED
  BY <1>1, <1>2

(* Time makes nothing younger.                                             *)
LEMMA OlderIs ==
  ASSUME NEW a \in Ages
  PROVE  Older(a) \in Ages /\ Older(a) >= a
BY TimesAssumption DEF Older, Ages

(* A report leaves the types alone.                                        *)
LEMMA ReportTypes ==
  ASSUME TypeHistory,
         \/ \E kind \in {"long", "multiple"}, k \in Keys \cup {NULL} : \E due : Report(kind, k, due)
         \/ \E k \in Keys \cup {NULL} : ReportPress(k)
         \/ Crash
         \/ UNCHANGED history
  PROVE  TypeHistory'
BY DEF TypeHistory, Report, ReportPress, Crash, history

(* Each step keeps the types and the places.                               *)
LEMMA RegisterTypes ==
  ASSUME TypeOK, Places
  PROVE  /\ \A k \in Keys, p \in Presses : RK_input_register_long_press(k, p) => TypeOK' /\ Places'
         /\ \A k \in Keys, n \in Clicks :
              RK_input_register_multiple_press_callback(k, n) => TypeOK' /\ Places'
<1>0. TypeLists /\ TypeThreads /\ key \in [Keys -> KeyType] /\ TypeHistory
  BY Types
<1>a. ASSUME UNCHANGED NotUsed
      PROVE  TypeThreads' /\ key' \in [Keys -> KeyType] /\ TypeHistory'
  BY <1>0, <1>a DEF NotUsed, history, TypeThreads, TypeHistory
<1>1. ASSUME NEW k \in Keys, NEW p \in Presses, RK_input_register_long_press(k, p)
      PROVE  TypeOK' /\ Places'
  <2> DEFINE list == m_long_press_head[k]
             same == IF list # <<>> /\ list[1].kind # p.kind THEN <<>> ELSE list
  <2>1. /\ m_long_press_head' = [m_long_press_head EXCEPT ![k] = <<p>> \o same]
        /\ UNCHANGED <<NotUsed, m_multiple_press_head>>
    BY <1>1 DEF RK_input_register_long_press
  <2>2. list \in Seq(Presses) /\ same \in Seq(Presses)
    BY <1>0 DEF TypeLists
  <2> HIDE DEF list, same
  <2>3. <<p>> \o same \in Seq(Presses) /\ <<p>> \o same # <<>>
    BY <2>2
  <2>4. \A j \in Keys : HasLong(j) => HasLong(j)'
    BY <1>0, <2>1, <2>3 DEF HasLong, TypeLists
  <2>5. TypeLists'
    BY <1>0, <2>1, <2>3 DEF TypeLists
  <2>6. m_input_timer.timer => m_input_timer.key_code \in Keys
    BY <1>0 DEF Places, TypeThreads, PointersType
  <2> QED
    BY <1>a, <2>1, <2>4, <2>5, <2>6, Types DEF Places, HasMultiple, NotUsed
<1>2. ASSUME NEW k \in Keys, NEW n \in Clicks, RK_input_register_multiple_press_callback(k, n)
      PROVE  TypeOK' /\ Places'
  <2>1. /\ m_multiple_press_head' = [m_multiple_press_head EXCEPT ![k] = @ \cup {n}]
        /\ UNCHANGED <<NotUsed, m_long_press_head>>
    BY <1>2 DEF RK_input_register_multiple_press_callback
  <2>2. \A j \in Keys : HasMultiple(j) => HasMultiple(j)'
    BY <1>0, <2>1 DEF HasMultiple, TypeLists
  <2>3. TypeLists'
    BY <1>0, <2>1 DEF TypeLists
  <2> QED
    BY <1>a, <2>1, <2>2, <2>3, Types DEF Places, HasLong, NotUsed
<1> QED
  BY <1>1, <1>2

LEMMA MonitorTypes ==
  ASSUME TypeOK, Places, Monitor \/ \E k \in Keys : Press(k) \/ Release(k)
  PROVE  TypeOK' /\ Places'
<1>0. TypeLists /\ TypeThreads /\ key \in [Keys -> KeyType] /\ TypeHistory
  BY Types
<1>a. 0 \in Ages
  BY TimesAssumption DEF Ages
<1>b. ASSUME UNCHANGED lists, TypeThreads', key' \in [Keys -> KeyType], TypeHistory'
      PROVE  TypeOK'
  BY <1>0, <1>b, Types DEF lists, TypeLists
<1>c. ASSUME UNCHANGED history PROVE TypeHistory'
  BY <1>0, <1>c DEF history, TypeHistory
<1>1. ASSUME NEW k \in Keys, Press(k) PROVE TypeOK' /\ Places'
  <2> DEFINE max == get_max_input_long_press_key(k)
  <2>1. HasLong(k) => max.time \in Times /\ max.kind \in {"cb", "hb"}
    BY LongestIs DEF Presses
  <2>2. key' \in [Keys -> KeyType] /\ TypeHistory'
    <3>1. \A j \in Keys : key[j] \in KeyType
      BY <1>0
    <3> DEFINE c == IF key[k].count < MostClicks THEN key[k].count + 1 ELSE MostClicks
               new == [down |-> TRUE, changed |-> TRUE, held |-> 0, last |-> 0, count |-> c]
    <3>2. c \in 0..MostClicks
      BY <3>1, MostClicksIs DEF KeyType
    <3>3. new \in KeyType
      BY <1>a, <3>2 DEF KeyType
    <3>4. key' = [key EXCEPT ![k] = new]
      BY <1>0, <1>1 DEF Press, UserPresses
    <3> HIDE DEF new
    <3>5. key' \in [Keys -> KeyType]
      BY <1>0, <3>3, <3>4
    <3>6. TypeHistory'
      BY <1>0, <1>1 DEF Press, UserPresses, TypeHistory, Late
    <3> QED
      BY <3>5, <3>6
  <2>3. /\ handle' \in HandleType /\ m_input_timer' \in PointersType
        /\ m_input_timer'.timer = m_input_timer.timer
        /\ m_input_timer'.key_code = m_input_timer.key_code
        /\ handle'.time = 0 \/ handle'.repeat = 0
    <3> HIDE DEF max
    <3>1. CASE HasLong(k)
      <4> DEFINE t == IF max.kind = "cb" THEN max.time ELSE 0
                 r == IF max.kind = "hb" THEN max.time ELSE 0
      <4>1. /\ handle' = [handle EXCEPT !.time = t, !.repeat = r]
            /\ m_input_timer' = [m_input_timer EXCEPT !.cb = max.kind = "cb",
                                                      !.hb = max.kind = "hb"]
        BY <1>1, <3>1 DEF Press, max
      <4>2. t \in Times \cup {0} /\ r \in Times \cup {0} /\ (t = 0 \/ r = 0)
        BY <2>1, <3>1
      <4> HIDE DEF t, r
      <4> QED
        BY <1>0, <4>1, <4>2 DEF TypeThreads, HandleType, PointersType
    <3>2. CASE ~HasLong(k)
      BY <1>0, <1>1, <3>2 DEF Press, Places, TypeThreads
    <3> QED
      BY <3>1, <3>2
  <2>4. /\ monitor' = [code |-> k, time |-> 0,
                       pc |-> IF HasLong(k) THEN "arm"
                              ELSE IF HasMultiple(k) THEN "click" ELSE "press"]
        /\ UNCHANGED lists /\ UNCHANGED m_input_multiple_event /\ UNCHANGED timer
    BY <1>1 DEF Press
  <2>5. TypeThreads'
    BY <1>0, <1>a, <2>3, <2>4 DEF TypeThreads, MonitorType
  <2>6. Places'
    BY <2>3, <2>4 DEF Places, HasLong, HasMultiple, lists
  <2> QED
    BY <1>b, <2>2, <2>4, <2>5, <2>6
<1>2. ASSUME NEW k \in Keys, Release(k) PROVE TypeOK' /\ Places'
  <2> DEFINE new == [key[k] EXCEPT !.down = FALSE, !.changed = TRUE]
  <2>1. key' = [key EXCEPT ![k] = new]
    BY <1>0, <1>2 DEF Release
  <2>2. new \in KeyType
    BY <1>0 DEF KeyType
  <2> HIDE DEF new
  <2>3. key' \in [Keys -> KeyType]
    BY <1>0, <2>1, <2>2
  <2>4. TypeThreads' /\ TypeHistory'
    BY <1>0, <1>a, <1>2 DEF Release, TypeThreads, MonitorType, TypeHistory, Late
  <2>5. Places'
    BY <1>2 DEF Release, Places, HasLong, HasMultiple, lists
  <2> QED
    BY <1>2, <1>b, <2>3, <2>4, <2>5 DEF Release
<1>3. CASE Arm
  <2>a. monitor.code \in Keys
    BY <1>3 DEF Arm, Places
  <2>b. handle' \in HandleType
    BY <1>0, <1>a, <1>3 DEF Arm, RK_timer_start, TypeThreads, HandleType
  <2>c. m_input_timer' \in PointersType
    BY <1>0, <1>3, <2>a DEF Arm, TypeThreads, PointersType
  <2>d. monitor' \in MonitorType
    BY <1>0, <1>a, <1>3 DEF Arm, TypeThreads, MonitorType, MonitorGoes, Done, Idle
  <2>1. TypeThreads'
    BY <1>0, <1>3, <2>b, <2>c, <2>d DEF Arm, TypeThreads
  <2>2. Places'
    BY <1>0, <1>3, KeysAssumption DEF Arm, RK_timer_start, TypeThreads, HandleType, PointersType,
       MonitorType, MonitorGoes, Done, Idle, Places, HasLong, HasMultiple, lists
  <2> QED
    BY <1>0, <1>3, <1>b, <1>c, <2>1, <2>2 DEF Arm
<1>4. CASE Click
  <2>1. monitor.code \in Keys /\ m_multiple_press_head[monitor.code] \subseteq Clicks
    BY <1>0, <1>4 DEF Click, Places, TypeLists
  <2>2. m_multiple_press_head[monitor.code] # {}
    BY <1>4 DEF Click, Places, HasMultiple
  <2>3. Greatest(m_multiple_press_head[monitor.code]) \in Clicks
    BY <2>1, <2>2, GreatestClicks
  <2>4. TypeThreads'
    BY <1>0, <1>a, <1>4, <2>1, <2>3 DEF Click, TypeThreads, EventType, MonitorType, Done, Idle
  <2>5. Places'
    BY <1>4 DEF Click, Places, HasLong, HasMultiple, Done, Idle, lists
  <2> QED
    BY <1>0, <1>4, <1>b, <1>c, <2>4, <2>5 DEF Click
<1>5. CASE PlainPress
  <2>1. monitor.code \in Keys /\ TypeHistory'
    BY <1>0, <1>5, ReportTypes DEF PlainPress, Places
  <2>2. TypeThreads' /\ Places'
    BY <1>0, <1>a, <1>5 DEF PlainPress, TypeThreads, MonitorType, Places, HasLong, HasMultiple,
       Done, Idle, lists
  <2> QED
    BY <1>0, <1>5, <1>b, <2>1, <2>2 DEF PlainPress
<1>6. CASE ReadTime
  <2>1. TypeHistory'
    BY <1>0, <1>6, ReportTypes DEF ReadTime
  <2>2. TypeThreads' /\ Places'
    BY <1>0, <1>6 DEF ReadTime, TypeThreads, HandleType, MonitorType, Places, HasLong,
       HasMultiple, lists
  <2> QED
    BY <1>0, <1>6, <1>b, <2>1, <2>2 DEF ReadTime
<1>7. CASE Stop
  <2>1. TypeThreads' /\ Places'
    BY <1>0, <1>7 DEF Stop, RK_timer_stop, input_timer_reset, TypeThreads, HandleType,
       PointersType, MonitorType, MonitorGoes, Places, HasLong, HasMultiple, lists
  <2> QED
    BY <1>0, <1>7, <1>b, <1>c, <2>1 DEF Stop
<1>8. CASE Answer
  <2>1. monitor.code \in Keys
    BY <1>8 DEF Answer, Places
  <2>2. \/ \E due : Report("long", monitor.code, due)
        \/ ReportPress(monitor.code)
        \/ UNCHANGED history
    BY <1>8 DEF Answer, ReportLong
  <2>3. TypeHistory'
    BY <1>0, <2>1, <2>2, ReportTypes
  <2>4. TypeThreads' /\ Places'
    BY <1>0, <1>8 DEF Answer, TypeThreads, MonitorType, MonitorGoes, Places, HasLong,
       HasMultiple, lists
  <2> QED
    BY <1>0, <1>8, <1>b, <2>3, <2>4 DEF Answer
<1>9. CASE Clear
  <2>1. TypeThreads' /\ Places'
    BY <1>0, <1>a, <1>9 DEF Clear, TypeThreads, EventType, MonitorType, Done, Idle, Places,
       HasLong, HasMultiple, lists
  <2> QED
    BY <1>0, <1>9, <1>b, <1>c, <2>1 DEF Clear
<1> QED
  BY <1>1, <1>2, <1>3, <1>4, <1>5, <1>6, <1>7, <1>8, <1>9 DEF Monitor

LEMMA TimerTypes ==
  ASSUME TypeOK, Places, Timer
  PROVE  TypeOK' /\ Places'
<1>0. TypeLists /\ TypeThreads /\ key \in [Keys -> KeyType] /\ TypeHistory
  BY Types
<1>a. 0 \in Ages
  BY TimesAssumption DEF Ages
<1>b. UNCHANGED <<lists, m_input_multiple_event, monitor, key>>
  BY DEF Timer, Due, Called, TestKey, CallLong, ResetTimer, Return
<1>c. handle' \in HandleType /\ m_input_timer' \in PointersType /\ timer' \in TimerType
  <2>1. handle \in HandleType /\ m_input_timer \in PointersType /\ timer \in TimerType
    BY <1>0 DEF TypeThreads
  <2>2. \/ handle' = handle
        \/ handle' = [handle EXCEPT !.last = 0]
        \/ handle' = [handle EXCEPT !.listed = FALSE]
    BY DEF Timer, Due, Called, TestKey, CallLong, ResetTimer, Return, RK_timer_stop
  <2>3. handle' \in HandleType
    BY <1>a, <2>1, <2>2 DEF HandleType
  <2>4. \/ m_input_timer' = m_input_timer
        \/ m_input_timer' = [m_input_timer EXCEPT !.timer = FALSE, !.cb = FALSE, !.key_code = NULL]
    BY DEF Timer, Due, Called, TestKey, CallLong, ResetTimer, Return, input_timer_reset
  <2>5. m_input_timer' \in PointersType
    BY <2>1, <2>4 DEF PointersType
  <2>a. (handle.repeat = 0) \in BOOLEAN
    OBVIOUS
  <2>6. \/ \E o \in BOOLEAN : timer' = [pc |-> "called", once |-> o]
        \/ timer' = [pc |-> "walk", once |-> FALSE]
        \/ \E p \in {"key", "return", "call", "reset"} : timer' = [timer EXCEPT !.pc = p]
    BY <2>a DEF Timer, Due, Called, TestKey, CallLong, ResetTimer, Return, TimerGoes
  <2>7. timer' \in TimerType
    <3>1. ASSUME NEW o \in BOOLEAN
          PROVE  [pc |-> "called", once |-> o] \in TimerType /\ [pc |-> "walk", once |-> o] \in TimerType
      BY DEF TimerType
    <3>2. ASSUME NEW p \in {"key", "return", "call", "reset"} PROVE [timer EXCEPT !.pc = p] \in TimerType
      BY <2>1 DEF TimerType
    <3> QED
      BY <2>6, <3>1, <3>2
  <2> QED
    BY <2>3, <2>5, <2>7
<1>d. TypeThreads'
  BY <1>0, <1>b, <1>c DEF TypeThreads
<1>e. m_input_timer.key_code \in Keys \cup {NULL}
  BY <1>0 DEF TypeThreads, PointersType
<1>f. \/ \E due : Report("long", m_input_timer.key_code, due)
      \/ Crash
      \/ UNCHANGED history
  BY DEF Timer, Due, Called, TestKey, CallLong, ResetTimer, Return, ReportLong
<1>g. TypeHistory'
  BY <1>0, <1>e, <1>f, ReportTypes
<1>1. TypeOK'
  BY <1>0, <1>b, <1>d, <1>g, Types DEF TypeLists, lists
<1>h. /\ handle'.time = handle.time /\ handle'.repeat = handle.repeat
      /\ \/ m_input_timer' = m_input_timer
         \/ m_input_timer'.timer = FALSE /\ m_input_timer'.key_code = NULL
  BY <1>0 DEF Timer, Due, Called, TestKey, CallLong, ResetTimer, Return, RK_timer_stop,
     input_timer_reset, TypeThreads, HandleType, PointersType
<1>2. Places'
  BY <1>b, <1>h DEF Places, HasLong, HasMultiple, lists
<1> QED
  BY <1>1, <1>2

LEMMA MultipleTypes ==
  ASSUME TypeOK, Places, Multiple
  PROVE  TypeOK' /\ Places'
<1>0. TypeLists /\ TypeThreads /\ key \in [Keys -> KeyType] /\ TypeHistory
  BY Types
<1>a. 0 \in Ages
  BY TimesAssumption DEF Ages
<1>b. UNCHANGED <<lists, handle, m_input_timer, monitor, timer, key>>
  BY DEF Multiple, multiple_handle_new_event, Expire
<1> DEFINE e == m_input_multiple_event
<1>c. /\ e \in EventType
      /\ e.event \in Keys \cup {NULL} /\ e.code \in Keys \cup {NULL}
      /\ e.times \in Counts /\ e.max \in Clicks \cup {0} /\ e.responded \in BOOLEAN
  BY <1>0 DEF TypeThreads, EventType
<1>i. 0 \in Counts /\ 1 \in Counts /\ (~Completes(e) => e.times + 1 \in Counts)
  <2>1. \A n \in Clicks \cup {0} : n \in Nat
    BY TimesAssumption
  <2> QED
    BY <1>c, <2>1, MostClicksIs DEF Counts, Completes
<1>d. e' \in EventType
  <2> DEFINE new == [e EXCEPT !.clicked = FALSE, !.age = 0]
             next == [new EXCEPT !.times = @ + 1]
  <2>1. new \in EventType /\ new.times = e.times
    BY <1>a, <1>c DEF EventType
  <2>2. \/ \E r \in BOOLEAN : e' = [new EXCEPT !.times = 1, !.event = e.code, !.responded = r]
        \/ e' = [new EXCEPT !.times = 1, !.event = e.code]
        \/ e' = [next EXCEPT !.event = NULL, !.times = 0, !.max = 0, !.code = NULL, !.age = 0,
                             !.responded = TRUE]
        \/ ~Completes(e) /\ e' = next
        \/ \E r \in BOOLEAN : e' = [e EXCEPT !.event = NULL, !.times = 0, !.max = 0,
                                           !.code = NULL, !.age = 0, !.responded = r]
    <3>2. CASE multiple_handle_new_event
      BY <1>c, <3>2 DEF multiple_handle_new_event, multiple_press_event_reset
    <3>3. CASE Expire
      BY <1>c, <3>3 DEF Expire, multiple_press_event_reset
    <3> QED
      BY <3>2, <3>3 DEF Multiple
  <2>a. 0 \in Clicks \cup {0} /\ NULL \in Keys \cup {NULL}
    OBVIOUS
  <2> HIDE DEF new, e
  <2>3. ~Completes(e) => next \in EventType
    BY <1>c, <1>i, <2>1 DEF EventType
  <2>4. [next EXCEPT !.event = NULL, !.times = 0, !.max = 0, !.code = NULL, !.age = 0,
                     !.responded = TRUE] \in EventType
    BY <1>a, <1>i, <2>1, <2>a DEF EventType
  <2>5. \A r \in BOOLEAN : [new EXCEPT !.times = 1, !.event = e.code, !.responded = r] \in EventType
    BY <1>c, <1>i, <2>1 DEF EventType
  <2>6. [new EXCEPT !.times = 1, !.event = e.code] \in EventType
    BY <1>c, <1>i, <2>1 DEF EventType
  <2>7. \A r \in BOOLEAN : [e EXCEPT !.event = NULL, !.times = 0, !.max = 0,
                                     !.code = NULL, !.age = 0, !.responded = r] \in EventType
    BY <1>a, <1>c, <1>i, <2>a DEF EventType
  <2> HIDE DEF next
  <2> QED
    BY <2>2, <2>3, <2>4, <2>5, <2>6, <2>7
<1>e. TypeThreads'
  BY <1>0, <1>b, <1>d DEF TypeThreads
<1>g. \/ \E k \in {e.event, e.code} : \E due : Report("multiple", k, due)
      \/ ReportPress(e.code)
      \/ Crash
      \/ UNCHANGED history
  BY DEF Multiple, multiple_handle_new_event, Expire, ReportMultiple
<1>h. TypeHistory'
  BY <1>0, <1>c, <1>g, ReportTypes
<1>1. TypeOK'
  BY <1>0, <1>b, <1>e, <1>h, Types DEF TypeLists, lists
<1>2. Places'
  BY <1>b DEF Places, HasLong, HasMultiple, lists
<1> QED
  BY <1>1, <1>2

LEMMA TickTypes ==
  ASSUME TypeOK, Places, Tick
  PROVE  TypeOK' /\ Places'
<1>0. TypeLists /\ TypeThreads /\ key \in [Keys -> KeyType] /\ TypeHistory
  BY Types
<1>a. 0 \in Ages /\ MostClicks \in Nat
  BY TimesAssumption, MostClicksIs DEF Ages
<1>b. UNCHANGED <<lists, m_input_timer, monitor, timer, history>>
  BY DEF Tick
<1>1. key' \in [Keys -> KeyType]
  <2> DEFINE older(k) == [down |-> key[k].down, changed |-> FALSE, last |-> Older(key[k].last),
               held |-> IF key[k].down THEN Older(key[k].held) ELSE 0,
               count |-> IF key[k].last < TIME_MULTIPLE THEN key[k].count ELSE 0]
  <2>1. key' = [k \in Keys |-> IF ~Used(k) THEN key[k] ELSE older(k)]
    BY DEF Tick
  <2>2. ASSUME NEW k \in Keys PROVE key[k] \in KeyType /\ older(k) \in KeyType
    <3>1. key[k] \in KeyType
      BY <1>0
    <3>2. Older(key[k].last) \in Ages /\ Older(key[k].held) \in Ages
      BY <3>1, OlderIs DEF KeyType
    <3> QED
      BY <1>a, <3>1, <3>2 DEF KeyType
  <2> HIDE DEF older
  <2> QED
    BY <2>1, <2>2
<1>2. handle' \in HandleType /\ (handle'.time = 0 \/ handle'.repeat = 0)
  <2>1. Older(handle.start) \in Ages /\ Older(handle.last) \in Ages
    BY <1>0, OlderIs DEF TypeThreads, HandleType
  <2> QED
    BY <1>0, <1>a, <2>1 DEF Tick, TypeThreads, HandleType, Unlisted, Places
<1>3. m_input_multiple_event' \in EventType
  <2>1. Older(m_input_multiple_event.age) \in Ages
    BY <1>0, OlderIs DEF TypeThreads, EventType
  <2> QED
    BY <1>0, <2>1 DEF Tick, TypeThreads, EventType
<1>4. TypeThreads'
  BY <1>0, <1>b, <1>2, <1>3 DEF TypeThreads
<1>5. TypeOK'
  BY <1>0, <1>b, <1>1, <1>4, Types DEF TypeLists, lists, TypeHistory, history
<1>6. Places'
  BY <1>b, <1>2 DEF Places, HasLong, HasMultiple, lists
<1> QED
  BY <1>5, <1>6

LEMMA TypeInit == Init => TypeOK /\ Places
<1> SUFFICES ASSUME Init PROVE TypeOK /\ Places
  OBVIOUS
<1>1. 0 \in Ages /\ 0 \in Counts /\ 0 \in 0..MostClicks
  BY TimesAssumption, MostClicksIs DEF Ages, Counts
<1>2. TypeLists
  BY DEF Init, TypeLists
<1>3. handle \in HandleType
  BY <1>1 DEF Init, Unlisted, HandleType
<1>4. m_input_timer \in PointersType
  BY DEF Init, NoTimer, PointersType
<1>5. m_input_multiple_event \in EventType
  BY <1>1 DEF Init, NoEvent, EventType
<1>6. monitor \in MonitorType /\ timer \in TimerType
  BY <1>1 DEF Init, Idle, MonitorType, TimerType
<1>7. key \in [Keys -> KeyType]
  BY <1>1 DEF Init, KeyType
<1>8. TypeHistory
  BY DEF Init, TypeHistory
<1>9. TypeOK
  BY <1>2, <1>3, <1>4, <1>5, <1>6, <1>7, <1>8, Types DEF TypeThreads
<1>10. Places
  BY DEF Init, Idle, NoTimer, Unlisted, Places
<1> QED
  BY <1>9, <1>10

LEMMA TypeStep ==
  ASSUME TypeOK, Places, [Next]_vars
  PROVE  TypeOK' /\ Places'
<1>1. CASE UNCHANGED vars
  <2>1. /\ UNCHANGED <<lists, handle, m_input_timer, m_input_multiple_event, monitor>>
        /\ UNCHANGED <<timer, key, history>>
    BY <1>1 DEF vars
  <2>2. TypeLists' = TypeLists /\ TypeThreads' = TypeThreads /\ TypeHistory' = TypeHistory
    BY <2>1 DEF lists, history, TypeLists, TypeThreads, TypeHistory
  <2>3. Places'
    BY <2>1 DEF lists, Places, HasLong, HasMultiple
  <2> QED
    BY <2>1, <2>2, <2>3, Types
<1>2. CASE Next
  BY <1>2, RegisterTypes, MonitorTypes, TimerTypes, MultipleTypes, TickTypes DEF Next
<1> QED
  BY <1>1, <1>2

-----------------------------------------------------------------------------
(* Multiple presses.                                                       *)

(* A press of k is on its way to thread_key_multiple.                      *)
Pending(k) ==
  \/ monitor.pc \in {"arm", "click"} /\ monitor.code = k
  \/ m_input_multiple_event.clicked /\ m_input_multiple_event.code = k

(* The presses of a key that thread_key_multiple has counted, and the one  *)
(* on its way to it, came within TIME_MULTIPLE of each other; and what it  *)
(* counts is not older than it thinks.                                     *)
Clicked ==
  LET e == m_input_multiple_event IN
  /\ e.clicked => e.code \in Keys
  /\ ~e.clicked => e.code = e.event
  /\ monitor.pc \in {"arm", "click"} => ~(e.clicked /\ e.code = monitor.code)
  /\ \A k \in Keys : Pending(k) => key[k].changed /\ key[k].last = 0 /\ key[k].count >= 1
Counted ==
  LET e == m_input_multiple_event IN
  e.event # NULL =>
    /\ key[e.event].last <= e.age
    /\ key[e.event].count >= e.times
    /\ Pending(e.event) => key[e.event].count > e.times \/ key[e.event].count = MostClicks

ClickInv == Clicked /\ Counted /\ MultipleIsCounted

(* The types of what the proofs look at.                                   *)
LEMMA Fields ==
  ASSUME TypeOK
  PROVE  /\ \A k \in Keys : /\ key[k] \in KeyType
                            /\ key[k].last \in Ages /\ key[k].held \in Ages
                            /\ key[k].count \in 0..MostClicks
                            /\ key[k].down \in BOOLEAN /\ key[k].changed \in BOOLEAN
         /\ m_input_multiple_event \in EventType
         /\ m_input_multiple_event.event \in Keys \cup {NULL}
         /\ m_input_multiple_event.code \in Keys \cup {NULL}
         /\ m_input_multiple_event.age \in Ages
         /\ m_input_multiple_event.times \in Counts
         /\ m_input_multiple_event.max \in Clicks \cup {0}
         /\ m_input_multiple_event.clicked \in BOOLEAN
         /\ handle \in HandleType
         /\ handle.start \in Ages /\ handle.last \in Ages
         /\ handle.time \in Times \cup {0} /\ handle.repeat \in Times \cup {0}
         /\ m_input_timer \in PointersType
         /\ m_input_timer.key_code \in Keys \cup {NULL}
         /\ monitor \in MonitorType /\ monitor.time \in Ages
         /\ timer \in TimerType
         /\ key \in [Keys -> KeyType]
<1>0. TypeThreads /\ key \in [Keys -> KeyType]
  BY Types
<1>1. \A k \in Keys : key[k] \in KeyType
  BY <1>0
<1>2. \A k \in Keys : /\ key[k].last \in Ages /\ key[k].held \in Ages
                      /\ key[k].count \in 0..MostClicks
                      /\ key[k].down \in BOOLEAN /\ key[k].changed \in BOOLEAN
  BY <1>1 DEF KeyType
<1>3. /\ m_input_multiple_event \in EventType /\ handle \in HandleType
      /\ m_input_timer \in PointersType /\ monitor \in MonitorType /\ timer \in TimerType
  BY <1>0 DEF TypeThreads
<1>4. /\ m_input_multiple_event.event \in Keys \cup {NULL}
      /\ m_input_multiple_event.code \in Keys \cup {NULL}
      /\ m_input_multiple_event.age \in Ages
      /\ m_input_multiple_event.times \in Counts
      /\ m_input_multiple_event.max \in Clicks \cup {0}
      /\ m_input_multiple_event.clicked \in BOOLEAN
  BY <1>3 DEF EventType
<1>5. /\ handle.start \in Ages /\ handle.last \in Ages
      /\ handle.time \in Times \cup {0} /\ handle.repeat \in Times \cup {0}
  BY <1>3 DEF HandleType
<1>6. m_input_timer.key_code \in Keys \cup {NULL}
  BY <1>3 DEF PointersType
<1>7. monitor.time \in Ages
  BY <1>3 DEF MonitorType
<1> QED
  BY <1>0, <1>1, <1>2, <1>3, <1>4, <1>5, <1>6, <1>7

(* A step that leaves the counts alone and brings no new press.            *)
LEMMA CountsKept ==
  ASSUME TypeOK, Clicked, Counted,
         \/ UNCHANGED m_input_multiple_event
         \/ m_input_multiple_event' = [m_input_multiple_event EXCEPT !.responded = FALSE],
         \A k \in Keys : /\ key'[k].last = key[k].last /\ key'[k].count = key[k].count
                         /\ key[k].changed => key'[k].changed,
         monitor'.pc \in {"arm", "click"} =>
           monitor.pc \in {"arm", "click"} /\ monitor'.code = monitor.code
  PROVE  Clicked' /\ Counted'
<1> DEFINE e == m_input_multiple_event
<1>1. /\ e'.clicked = e.clicked /\ e'.code = e.code /\ e'.event = e.event
      /\ e'.age = e.age /\ e'.times = e.times
  BY Fields DEF EventType
<1>2. \A k \in Keys : Pending(k)' => Pending(k)
  BY <1>1 DEF Pending
<1>3. e.event \in Keys \cup {NULL}
  BY Fields
<1> QED
  BY <1>1, <1>2, <1>3 DEF Clicked, Counted

(* Only thread_key_multiple reports a multiple press.                      *)
LEMMA OthersCount ==
  ASSUME TypeOK, Places, ClickInv,
         \/ \E k \in Keys, p \in Presses : RK_input_register_long_press(k, p)
         \/ \E k \in Keys, n \in Clicks : RK_input_register_multiple_press_callback(k, n)
         \/ \E k \in Keys : Release(k)
         \/ Arm \/ PlainPress \/ ReadTime \/ Stop \/ Answer \/ Clear \/ Timer
         \/ UNCHANGED vars
  PROVE  ClickInv'
<1>1. \/ UNCHANGED m_input_multiple_event
      \/ m_input_multiple_event' = [m_input_multiple_event EXCEPT !.responded = FALSE]
  BY DEF RK_input_register_long_press, RK_input_register_multiple_press_callback, NotUsed,
     Release, Arm, PlainPress, ReadTime, Stop, Answer, Clear, Timer, Due, Called, TestKey,
     CallLong, ResetTimer, Return, vars
<1>2. \/ UNCHANGED key
      \/ \E k \in Keys : key' = [key EXCEPT ![k].down = FALSE, ![k].changed = TRUE]
  BY DEF RK_input_register_long_press, RK_input_register_multiple_press_callback, NotUsed,
     Release, Arm, PlainPress, ReadTime, Stop, Answer, Clear, Timer, Due, Called, TestKey,
     CallLong, ResetTimer, Return, vars
<1>3. \A k \in Keys : /\ key'[k].last = key[k].last /\ key'[k].count = key[k].count
                      /\ key[k].changed => key'[k].changed
  <2>1. CASE UNCHANGED key
    BY <2>1
  <2>2. ASSUME NEW j \in Keys, key' = [key EXCEPT ![j].down = FALSE, ![j].changed = TRUE]
        PROVE  \A k \in Keys : /\ key'[k].last = key[k].last /\ key'[k].count = key[k].count
                               /\ key[k].changed => key'[k].changed
    BY <2>2, Fields DEF KeyType
  <2> QED
    BY <1>2, <2>1, <2>2
<1>4. monitor'.pc \in {"arm", "click"} =>
        monitor.pc \in {"arm", "click"} /\ monitor'.code = monitor.code
  <2>1. \/ UNCHANGED monitor
        \/ monitor'.pc \notin {"arm", "click"}
        \/ monitor.pc = "arm" /\ monitor' = [monitor EXCEPT !.pc = "click"]
    <3>1. monitor \in MonitorType
      BY Fields
    <3>2. CASE Arm
      BY <3>1, <3>2 DEF Arm, MonitorGoes, Done, Idle
    <3>5. CASE \/ PlainPress \/ Stop \/ Answer \/ Clear \/ ReadTime
               \/ \E k \in Keys : Release(k)
      <4>1. monitor'.pc \notin {"arm", "click"}
        <5>1. CASE PlainPress \/ Clear
          BY <5>1 DEF PlainPress, Clear, Done, Idle
        <5>2. CASE Stop \/ Answer
          BY <3>1, <5>2 DEF Stop, Answer, MonitorGoes, MonitorType
        <5>3. CASE ReadTime
          BY <3>1, <5>3 DEF ReadTime, MonitorType
        <5>4. CASE \E k \in Keys : Release(k)
          BY <5>4 DEF Release
        <5> QED
          BY <3>5, <5>1, <5>2, <5>3, <5>4
      <4> QED
        BY <4>1
    <3>3. CASE Timer
      BY <3>3 DEF Timer, Due, Called, TestKey, CallLong, ResetTimer, Return
    <3>4. CASE UNCHANGED monitor
      BY <3>4
    <3> QED
      BY <3>2, <3>3, <3>4, <3>5 DEF RK_input_register_long_press,
         RK_input_register_multiple_press_callback, NotUsed, vars
  <2> QED
    BY <2>1, Fields DEF MonitorType
<1>5. undue' \subseteq undue \cup {"long"}
  BY DEF RK_input_register_long_press, RK_input_register_multiple_press_callback, NotUsed,
     Release, Arm, PlainPress, ReadTime, Stop, Answer, Clear, Timer, Due, Called, TestKey,
     CallLong, ResetTimer, Return, vars, history, Crash, ReportPress, ReportLong, Report
<1> QED
  BY <1>1, <1>3, <1>4, <1>5, CountsKept DEF ClickInv, MultipleIsCounted

(* A press comes only with nothing of its key on its way, and adds one.    *)
LEMMA PressCounts ==
  ASSUME TypeOK, Places, ClickInv, NEW k \in Keys, Press(k)
  PROVE  ClickInv'
<1> DEFINE e == m_input_multiple_event
<1>1. /\ monitor.pc = "idle" /\ ~key[k].changed /\ UNCHANGED e /\ UNCHANGED undue
      /\ monitor'.code = k
  BY DEF Press, UserPresses
<1>2. ~Pending(k)
  BY <1>1 DEF ClickInv, Clicked
<1>3. /\ \A j \in Keys : j # k => key'[j] = key[j]
      /\ key'[k].changed /\ key'[k].last = 0
      /\ key'[k].count = IF key[k].count < MostClicks THEN key[k].count + 1 ELSE MostClicks
  BY Fields DEF Press, UserPresses
<1>4. /\ key[k].count \in 0..MostClicks /\ MostClicks \in Nat /\ MostClicks >= 1
      /\ e.age \in Nat /\ e.times \in Nat /\ e.event \in Keys \cup {NULL}
  BY Fields, MostClicksIs DEF Ages, Counts
<1>5. \A j \in Keys : j # k => (Pending(j)' => Pending(j))
  BY <1>1 DEF Pending
<1>6. Clicked'
  BY <1>1, <1>2, <1>3, <1>4, <1>5 DEF ClickInv, Clicked, Pending
<1>7. CASE e.event = k
  <2>1. key'[k].count > e.times \/ key'[k].count = MostClicks
    BY <1>3, <1>4, <1>7, KeysAssumption DEF ClickInv, Counted
  <2>2. key'[k].count >= e.times
    BY <1>3, <1>4, <1>7, KeysAssumption DEF ClickInv, Counted
  <2> QED
    BY <1>1, <1>3, <1>4, <1>6, <1>7, <2>1, <2>2 DEF ClickInv, Counted, MultipleIsCounted
<1>8. CASE e.event # k
  BY <1>1, <1>3, <1>4, <1>5, <1>6, <1>8 DEF ClickInv, Counted, MultipleIsCounted
<1> QED
  BY <1>7, <1>8

(* A click hands the press over.                                           *)
LEMMA ClickCounts ==
  ASSUME TypeOK, Places, ClickInv, Click
  PROVE  ClickInv'
<1> DEFINE e == m_input_multiple_event
           k == monitor.code
<1>1. /\ monitor.pc = "click" /\ k \in Keys /\ monitor'.pc = "idle"
      /\ UNCHANGED key /\ UNCHANGED undue
  BY DEF Click, Places, Done, Idle, history
<1>2. /\ e'.clicked /\ e'.code = k
      /\ e'.event = e.event /\ e'.age = e.age /\ e'.times = e.times
  BY Fields DEF Click, EventType
<1>3. \A j \in Keys : Pending(j)' => Pending(j)
  BY <1>1, <1>2 DEF Pending
<1>4. e.event \in Keys \cup {NULL}
  BY Fields
<1> QED
  BY <1>1, <1>2, <1>3, <1>4 DEF ClickInv, Clicked, Counted, MultipleIsCounted

(* What was counted suffices for what is reported.                         *)
LEMMA MultipleCounts ==
  ASSUME TypeOK, Places, ClickInv, Multiple
  PROVE  ClickInv'
<1> DEFINE e == m_input_multiple_event
<1>1. UNCHANGED <<monitor, key>>
  BY DEF Multiple, multiple_handle_new_event, Expire
<1>2. /\ e \in EventType /\ e.event \in Keys \cup {NULL} /\ e.code \in Keys \cup {NULL}
      /\ e.age \in Nat /\ e.times \in Nat /\ e.max \in Clicks \cup {0} /\ e.max \in Nat
      /\ e.max <= MostClicks /\ MostClicks \in Nat /\ MostClicks >= 1
  <2>1. /\ e \in EventType /\ e.event \in Keys \cup {NULL} /\ e.code \in Keys \cup {NULL}
        /\ e.age \in Ages /\ e.times \in Counts /\ e.max \in Clicks \cup {0}
    BY Fields
  <2>2. \A n \in Clicks : n \in Nat
    BY TimesAssumption
  <2>3. e.age \in Nat
    BY <2>1 DEF Ages
  <2>4. e.times \in Nat
    BY <2>1 DEF Counts
  <2> HIDE DEF e
  <2> QED
    BY <2>1, <2>2, <2>3, <2>4, MostClicksIs
<1>3. \A k \in Keys : key[k].count \in Nat /\ key[k].last \in Nat
  BY Fields, MostClicksIs DEF Ages
<1>a. ClickInv => "multiple" \notin undue
  BY DEF ClickInv, MultipleIsCounted
<1>b. ASSUME ~e'.clicked, e'.event = NULL, e'.code = NULL, "multiple" \notin undue'
      PROVE  ClickInv'
  <2>1. \A k \in Keys : Pending(k)' => Pending(k)
    BY <1>1, <1>b, KeysAssumption DEF Pending
  <2> QED
    BY <1>1, <1>b, <2>1 DEF ClickInv, Clicked, Counted, MultipleIsCounted
<1>c. ASSUME e.clicked, ~e'.clicked, e'.event = e.code, e'.code = e.code, e'.age = 0,
             e'.times \in Nat,
             e'.times = 1 \/ (e'.times <= MostClicks /\ e.event = e.code /\ e'.times = e.times + 1),
             "multiple" \notin undue'
      PROVE  ClickInv'
  <2>1. \A k \in Keys : Pending(k)' => Pending(k)
    BY <1>1, <1>c DEF Pending
  <2>2. e.code \in Keys /\ Pending(e.code)
    BY <1>c DEF ClickInv, Clicked, Pending
  <2>3. key[e.code].last = 0 /\ key[e.code].count >= 1
    BY <2>2 DEF ClickInv, Clicked
  <2>4. ~Pending(e.code)'
    BY <1>1, <1>c DEF ClickInv, Clicked, Pending
  <2>5. key[e.code].count >= e'.times
    BY <1>2, <1>3, <1>c, <2>2, <2>3, KeysAssumption DEF ClickInv, Counted
  <2>6. Clicked'
    BY <1>1, <1>c, <2>1 DEF ClickInv, Clicked
  <2>7. Counted'
    BY <1>1, <1>c, <2>3, <2>4, <2>5 DEF Counted
  <2> QED
    BY <1>c, <2>6, <2>7 DEF ClickInv, MultipleIsCounted
<1>4. CASE multiple_handle_new_event
  <2> DEFINE new == [e EXCEPT !.clicked = FALSE, !.age = 0]
             next == [new EXCEPT !.times = @ + 1]
             report == get_multiple_press(e.event, e.times)
  <2>1. e.clicked
    BY <1>4 DEF multiple_handle_new_event
  <2>2. new \in EventType /\ new.event = e.event /\ new.code = e.code /\ new.times = e.times
        /\ new.clicked = FALSE /\ new.age = 0
    <3>1. e \in EventType /\ 0 \in Ages
      BY <1>2, TimesAssumption DEF Ages
    <3> HIDE DEF e
    <3> QED
      BY <3>1 DEF EventType
  <2> HIDE DEF new
  <2>3. CASE e.event = NULL /\ e' = [new EXCEPT !.times = 1, !.event = e.code]
             /\ UNCHANGED history
    <3>1. ~e'.clicked /\ e'.event = e.code /\ e'.code = e.code /\ e'.age = 0 /\ e'.times = 1
      BY <2>2, <2>3 DEF EventType
    <3> QED
      BY <1>a, <1>c, <2>1, <2>3, <3>1 DEF history
  <2>4. CASE /\ e.event # NULL /\ e.event # e.code
             /\ e' = [new EXCEPT !.times = 1, !.event = e.code,
                                 !.responded = @ \/ report # NULL]
             /\ IF report # NULL THEN ReportMultiple(e.event, report) ELSE Crash
    <3>1. ~e'.clicked /\ e'.event = e.code /\ e'.code = e.code /\ e'.age = 0 /\ e'.times = 1
      BY <2>2, <2>4 DEF EventType
    <3>2. report # NULL => key[e.event].count >= report
      <4>1. e.event \in Keys
        BY <1>2, <2>4
      <4>2. report # NULL => report \in Clicks /\ report <= e.times
        BY <1>2, <4>1, EnoughIs
      <4>3. key[e.event].count >= e.times
        BY <2>4 DEF ClickInv, Counted
      <4>4. report # NULL => report \in Nat
        BY <4>2, TimesAssumption
      <4> QED
        BY <1>2, <1>3, <4>1, <4>2, <4>3, <4>4
    <3>3. "multiple" \notin undue'
      <4> HIDE DEF report
      <4> QED
        BY <1>a, <2>4, <3>2 DEF ReportMultiple, Report, Crash
    <3> QED
      BY <1>c, <2>1, <3>1, <3>3
  <2>5. CASE /\ e.event = e.code /\ Completes(e)
             /\ e' = [multiple_press_event_reset(next) EXCEPT !.responded = TRUE]
             /\ ReportMultiple(e.code, e.max)
    <3>1. ~e'.clicked /\ e'.event = NULL /\ e'.code = NULL
      BY <2>2, <2>5 DEF multiple_press_event_reset, EventType
    <3>2. e.code \in Keys /\ Pending(e.code)
      BY <2>1 DEF ClickInv, Clicked, Pending
    <3>3. key[e.code].count > e.times \/ key[e.code].count = MostClicks
      BY <2>5, <3>2, KeysAssumption DEF ClickInv, Counted
    <3>4. key[e.code].count >= e.max
      BY <1>2, <1>3, <2>5, <3>2, <3>3 DEF Completes
    <3>5. "multiple" \notin undue'
      BY <1>a, <2>5, <3>4 DEF ReportMultiple, Report
    <3> QED
      BY <1>b, <3>1, <3>5
  <2>6. CASE e.event = e.code /\ ~Completes(e) /\ e' = next /\ UNCHANGED history
    <3>1. /\ ~e'.clicked /\ e'.event = e.code /\ e'.code = e.code /\ e'.age = 0
          /\ e'.times = e.times + 1
      BY <2>2, <2>6 DEF EventType
    <3>2. e.times + 1 <= MostClicks
      BY <1>2, <2>6 DEF Completes
    <3> QED
      BY <1>2, <1>a, <1>c, <2>1, <2>6, <3>1, <3>2 DEF history
  <2> QED
    BY <1>4, <2>3, <2>4, <2>5, <2>6 DEF multiple_handle_new_event, new
<1>5. CASE Expire
  <2> DEFINE report == get_multiple_press(e.code, e.times)
  <2>1. e.event # NULL /\ ~e.clicked
    BY <1>5 DEF Expire, Expired, MultipleWaits
  <2>2. e.code = e.event /\ e.code \in Keys
    BY <1>2, <2>1 DEF ClickInv, Clicked
  <2>3. ~e'.clicked /\ e'.event = NULL /\ e'.code = NULL
    BY <1>2, <1>5, <2>1 DEF Expire, multiple_press_event_reset, EventType
  <2>4. report # NULL => key[e.code].count >= report
    <3>1. report # NULL => report \in Clicks /\ report <= e.times
      BY <1>2, <2>2, EnoughIs
    <3>2. key[e.code].count >= e.times
      BY <2>1, <2>2 DEF ClickInv, Counted
    <3>3. report # NULL => report \in Nat
      BY <3>1, TimesAssumption
    <3> QED
      BY <1>2, <1>3, <2>2, <3>1, <3>2, <3>3
  <2>5. \/ report # NULL /\ ReportMultiple(e.code, report)
        \/ ReportPress(e.code)
        \/ UNCHANGED history
    BY <1>5 DEF Expire
  <2>6. "multiple" \notin undue'
    <3> HIDE DEF report
    <3> QED
      BY <1>a, <2>4, <2>5 DEF ReportMultiple, ReportPress, Report, history
  <2> QED
    BY <1>b, <2>3, <2>6
<1> QED
  BY <1>4, <1>5 DEF Multiple

(* Time does not pass beyond TIME_MULTIPLE while clicks are to be decided. *)
LEMMA TickCounts ==
  ASSUME TypeOK, Places, ClickInv, Tick
  PROVE  ClickInv'
<1> DEFINE e == m_input_multiple_event
<1>1. /\ monitor.pc = "idle" /\ ~e.clicked /\ ~Expired /\ UNCHANGED monitor /\ UNCHANGED undue
  BY DEF Tick, Quiet, history
<1>2. /\ e \in EventType /\ e.event \in Keys \cup {NULL} /\ e.age \in Nat /\ e.age \in Ages
      /\ TIME_MULTIPLE \in Nat /\ MaxAge \in Nat
  BY Fields, TimesAssumption DEF Ages
<1>3. /\ ~e'.clicked /\ e'.event = e.event /\ e'.code = e.code /\ e'.times = e.times
      /\ e.event # NULL => e'.age = Older(e.age)
  BY <1>1, <1>2 DEF Tick, MultipleWaits, EventType
<1>4. \A k \in Keys : ~Pending(k)'
  BY <1>1, <1>3 DEF Pending
<1>5. Clicked'
  BY <1>1, <1>3, <1>4 DEF ClickInv, Clicked
<1>6. Counted'
  <2> SUFFICES ASSUME e.event # NULL
               PROVE  key'[e.event].last <= e'.age /\ key'[e.event].count >= e.times
    BY <1>2, <1>3, <1>4 DEF Counted
  <2> DEFINE k == e.event
  <2>1. k \in Keys /\ e.age < TIME_MULTIPLE /\ key[k].last <= e.age /\ key[k].count >= e.times
    BY <1>1, <1>2 DEF Expired, MultipleWaits, ClickInv, Counted
  <2>2. key[k].last \in Ages /\ key[k].last < TIME_MULTIPLE
    BY <1>2, <2>1, Fields DEF Ages
  <2>3. /\ key'[k].last = IF Used(k) THEN Older(key[k].last) ELSE key[k].last
        /\ key'[k].count = key[k].count
    BY <2>1, <2>2 DEF Tick
  <2>4. Older(key[k].last) <= Older(e.age) /\ key[k].last <= Older(e.age)
    BY <1>2, <2>1, <2>2 DEF Older, Ages
  <2> QED
    BY <1>3, <2>1, <2>3, <2>4
<1> QED
  BY <1>1, <1>5, <1>6 DEF ClickInv, MultipleIsCounted

LEMMA ClickInit == Init => ClickInv
<1> SUFFICES ASSUME Init PROVE ClickInv
  OBVIOUS
<1>1. \A k \in Keys : ~Pending(k)
  BY DEF Init, Idle, NoEvent, Pending
<1>2. Clicked
  BY <1>1 DEF Init, Idle, NoEvent, Clicked
<1>3. Counted /\ MultipleIsCounted
  BY DEF Init, NoEvent, Counted, MultipleIsCounted
<1> QED
  BY <1>2, <1>3 DEF ClickInv

LEMMA ClickStep ==
  ASSUME TypeOK, Places, ClickInv, [Next]_vars
  PROVE  ClickInv'
<1>1. CASE UNCHANGED vars
  BY <1>1, OthersCount
<1>2. CASE \/ \E k \in Keys, p \in Presses : RK_input_register_long_press(k, p)
           \/ \E k \in Keys, n \in Clicks : RK_input_register_multiple_press_callback(k, n)
  BY <1>2, OthersCount
<1>3. CASE \E k \in Keys : Press(k) \/ Release(k)
  BY <1>3, OthersCount, PressCounts
<1>4. CASE Monitor
  BY <1>4, OthersCount, ClickCounts DEF Monitor
<1>5. CASE Timer
  BY <1>5, OthersCount
<1>6. CASE Multiple \/ Tick
  BY <1>6, MultipleCounts, TickCounts
<1> QED
  BY <1>1, <1>2, <1>3, <1>4, <1>5, <1>6 DEF Next

-----------------------------------------------------------------------------
(* Long presses.                                                           *)

(* No two keys are or were used at once, and no pointer was followed that  *)
(* is NULL.                                                                *)
Single == excuse \notin {"overlap", "crash"}

Active(k) == key[k].down \/ key[k].changed

(* What goes on is about the one key that is down or went up in this tick; *)
(* and the timer rests when it is set up.                                  *)
Alone ==
  /\ \A j, k \in Keys : Active(j) /\ Active(k) => j = k
  /\ monitor.pc # "idle" => Active(monitor.code)
  /\ monitor.pc = "arm" =>
       key[monitor.code].down /\ m_input_timer.key_code = NULL /\ timer.pc = "walk"
  /\ timer.pc # "walk" => \E k \in Keys : Active(k)

(* The timer has run no longer than the key is down: the release takes the *)
(* key from m_input_timer before the key can be pressed again, and a timer *)
(* that is listed has its key.  So what a report is about to compare with, *)
(* the time of the timer or that which thread_key_monitor has read, has    *)
(* been reached.                                                           *)
RunsFor(k) ==
  /\ Active(k)
  /\ key[k].down \/ monitor.pc \in {"time", "stop"}
  /\ handle.last <= handle.start /\ handle.start <= key[k].held
  /\ timer.pc \in {"called", "key", "call"} =>
       handle.time <= key[k].held /\ handle.repeat <= key[k].held
ForKey ==
  /\ handle.listed => m_input_timer.key_code # NULL
  /\ m_input_timer.key_code # NULL => RunsFor(m_input_timer.key_code)
  /\ timer.pc \in {"key", "call", "reset"} => ~handle.listed
  /\ monitor.pc \in {"stop", "answer"} => monitor.time <= key[monitor.code].held

LongInv == Single => Alone /\ ForKey /\ "long" \notin undue

(* What has no excuse had none before.                                     *)
LEMMA SingleBefore ==
  ASSUME TypeOK, [Next]_vars, Single'
  PROVE  Single
BY DEF Next, vars, history, Single, TypeOK, NotUsed, RK_input_register_long_press,
   RK_input_register_multiple_press_callback, Press, UserPresses, Running, Late, Release,
   Monitor, Arm, Click, PlainPress, ReadTime, Stop, Answer, Clear, Timer, Due, Called, TestKey,
   CallLong, ResetTimer, Return, Multiple, multiple_handle_new_event, Expire, Tick, Crash,
   Report, ReportPress, ReportLong, ReportMultiple

(* The key that the timer is for is the only one.                          *)
LEMMA TheKey ==
  ASSUME TypeOK, Alone, ForKey, NEW k \in Keys, Active(k)
  PROVE  m_input_timer.key_code = NULL \/ m_input_timer.key_code = k
BY Fields DEF Alone, ForKey, RunsFor

LEMMA RegisterLong ==
  ASSUME LongInv,
         \/ \E k \in Keys, p \in Presses : RK_input_register_long_press(k, p)
         \/ \E k \in Keys, n \in Clicks : RK_input_register_multiple_press_callback(k, n)
         \/ UNCHANGED vars
  PROVE  LongInv'
<1>1. UNCHANGED NotUsed
  BY DEF RK_input_register_long_press, RK_input_register_multiple_press_callback, NotUsed, vars
<1>2. UNCHANGED <<handle, m_input_timer, monitor, timer, key, undue, excuse>>
  BY <1>1 DEF NotUsed, history
<1> QED
  BY <1>2 DEF LongInv, Single, Alone, ForKey, RunsFor, Active

(* A press alone finds everything at rest.                                 *)
LEMMA PressLong ==
  ASSUME TypeOK, Places, LongInv, NEW k \in Keys, Press(k), Single, Single'
  PROVE  Alone' /\ ForKey' /\ "long" \notin undue'
<1>0. Alone /\ ForKey /\ "long" \notin undue
  BY DEF LongInv
<1>1. /\ monitor.pc = "idle" /\ ~Active(k) /\ UNCHANGED timer /\ UNCHANGED undue
      /\ \A other \in Keys \ {k} : Decided(other)
      /\ monitor'.code = k /\ monitor'.pc \in {"arm", "click", "press"}
  BY DEF Press, UserPresses, Active, Single
<1>2. \A j \in Keys : ~Active(j)
  BY <1>1 DEF Decided, Active
<1>3. m_input_timer.key_code = NULL /\ ~handle.listed /\ timer.pc = "walk"
  BY <1>0, <1>2, Fields DEF Alone, ForKey, RunsFor
<1>4. m_input_timer'.key_code = NULL /\ handle'.listed = handle.listed
  BY <1>3, Fields DEF Press, HandleType, PointersType
<1>5. key'[k].down /\ \A j \in Keys \ {k} : key'[j] = key[j]
  BY Fields DEF Press, UserPresses
<1>6. Active(k)' /\ \A j \in Keys \ {k} : ~Active(j)'
  BY <1>2, <1>5 DEF Active
<1>7. Alone'
  BY <1>1, <1>3, <1>4, <1>5, <1>6 DEF Alone
<1>8. ForKey'
  BY <1>1, <1>3, <1>4 DEF ForKey
<1> QED
  BY <1>0, <1>1, <1>7, <1>8

(* A release finds the timer, while it is listed, and stops it.            *)
LEMMA ReleaseLong ==
  ASSUME TypeOK, Places, LongInv, NEW k \in Keys, Release(k), Single, Single'
  PROVE  Alone' /\ ForKey' /\ "long" \notin undue'
<1>0. Alone /\ ForKey /\ "long" \notin undue
  BY DEF LongInv
<1>1. /\ monitor.pc = "idle" /\ Active(k)
      /\ UNCHANGED <<handle, m_input_timer, timer, undue>>
      /\ monitor'.code = k /\ monitor'.pc \in {"time", "clear"}
  BY DEF Release, Active
<1>2. key' = [key EXCEPT ![k] = [key[k] EXCEPT !.down = FALSE, !.changed = TRUE]]
  BY Fields DEF Release
<1>3. /\ key'[k].changed /\ key'[k].held = key[k].held
      /\ \A j \in Keys \ {k} : key'[j] = key[j]
  BY <1>2, Fields DEF KeyType
<1>4. \A j \in Keys : Active(j)' <=> Active(j)
  BY <1>1, <1>3 DEF Active
<1>5. m_input_timer.key_code # NULL => m_input_timer.key_code = k /\ monitor'.pc = "time"
  BY <1>0, <1>1, TheKey DEF Release, Places
<1>6. Alone'
  BY <1>0, <1>1, <1>4 DEF Alone
<1>7. ForKey'
  BY <1>0, <1>1, <1>3, <1>4, <1>5 DEF ForKey, RunsFor
<1> QED
  BY <1>0, <1>1, <1>6, <1>7

(* The monitor's other steps, of the key it was woken for.                 *)
LEMMA MonitorLong ==
  ASSUME TypeOK, Places, LongInv, Monitor, Single, Single'
  PROVE  Alone' /\ ForKey' /\ "long" \notin undue'
<1> DEFINE c == monitor.code
<1>0. Alone /\ ForKey /\ "long" \notin undue
  BY DEF LongInv
<1>a. /\ monitor.pc # "idle" /\ c \in Keys /\ Active(c) /\ UNCHANGED key /\ UNCHANGED timer
  BY <1>0 DEF Monitor, Arm, Click, PlainPress, ReadTime, Stop, Answer, Clear, Places, Alone
<1>b. \A j \in Keys : Active(j)' <=> Active(j)
  BY <1>a DEF Active
<1>c. /\ monitor \in MonitorType /\ monitor.time \in Ages /\ handle \in HandleType
      /\ m_input_timer \in PointersType
  BY Fields
<1>1. CASE Arm
  <2>1. /\ m_input_timer.key_code = NULL /\ timer.pc = "walk" /\ key[c].down /\ ~handle.listed
    BY <1>0, <1>1 DEF Arm, Alone, ForKey
  <2>2. m_input_timer'.key_code = c
    BY <1>1, <1>c DEF Arm, PointersType
  <2>3. handle'.start = 0 /\ handle'.last = 0 /\ handle'.listed
    BY <1>1, <1>c, <2>1 DEF Arm, RK_timer_start, HandleType
  <2>4. monitor'.pc = "idle" \/ (monitor'.pc = "click" /\ monitor'.code = c)
    BY <1>1, <1>c DEF Arm, MonitorGoes, Done, Idle, MonitorType
  <2>5. Alone'
    BY <1>0, <1>a, <1>b, <2>1, <2>4 DEF Alone
  <2>6. key[c].held \in Nat
    BY <1>a, Fields DEF Ages
  <2>7. /\ Active(c) /\ handle'.last <= handle'.start /\ handle'.start <= key[c].held
        /\ timer'.pc = "walk"
    BY <1>a, <2>1, <2>3, <2>6
  <2>8. ForKey'
    <3> DEFINE d == m_input_timer'.key_code
    <3>1. /\ key'[d].down /\ handle'.last <= handle'.start /\ handle'.start <= key'[d].held
          /\ timer'.pc = "walk"
      BY <1>a, <2>1, <2>2, <2>7
    <3>2. RunsFor(m_input_timer.key_code)'
      BY <3>1 DEF RunsFor, Active
    <3>3. monitor'.pc \notin {"stop", "answer"} /\ d # NULL
      BY <1>a, <2>2, <2>4, KeysAssumption
    <3> QED
      BY <2>7, <3>2, <3>3 DEF ForKey
  <2> QED
    BY <1>0, <1>1, <2>5, <2>8 DEF Arm, history
<1>2. CASE Click \/ PlainPress \/ Clear
  <2>1. /\ UNCHANGED <<handle, m_input_timer>> /\ monitor'.pc = "idle"
        /\ monitor.pc \in {"click", "press", "clear"} /\ undue' = undue
    BY <1>2 DEF Click, PlainPress, Clear, Done, Idle, history, ReportPress, Report
  <2>2. Alone'
    BY <1>0, <1>a, <1>b, <2>1 DEF Alone
  <2>3. ForKey'
    BY <1>0, <1>a, <1>b, <2>1, Fields DEF ForKey, RunsFor
  <2> QED
    BY <1>0, <2>1, <2>2, <2>3
<1>3. CASE ReadTime
  <2>1. m_input_timer.timer /\ UNCHANGED history
    BY <1>3 DEF ReadTime, Crash, Single
  <2>2. m_input_timer.key_code = c
    BY <1>0, <1>a, <2>1, TheKey DEF Places
  <2>3. /\ UNCHANGED <<handle, m_input_timer>> /\ monitor.pc = "time"
        /\ monitor'.pc = "stop" /\ monitor'.code = c /\ monitor'.time = handle.start
    BY <1>3, <1>c DEF ReadTime, MonitorType
  <2>4. c # NULL
    BY <1>a, KeysAssumption
  <2>5. Alone'
    BY <1>0, <1>a, <1>b, <2>3 DEF Alone
  <2>6. ForKey'
    BY <1>0, <1>a, <1>b, <2>2, <2>3, <2>4 DEF ForKey, RunsFor
  <2> QED
    BY <1>0, <2>1, <2>5, <2>6 DEF history
<1>4. CASE Stop
  <2>1. m_input_timer'.key_code = NULL
    BY <1>4, <1>c DEF Stop, input_timer_reset, PointersType
  <2>2. ~handle'.listed
    BY <1>0, <1>4, <1>c DEF Stop, RK_timer_stop, HandleType, Places, ForKey
  <2>3. /\ monitor.pc = "stop"
        /\ monitor'.pc = "answer" /\ monitor'.code = c /\ monitor'.time = monitor.time
    BY <1>4, <1>c DEF Stop, MonitorGoes, MonitorType
  <2>4. Alone'
    BY <1>0, <1>a, <1>b, <2>3 DEF Alone
  <2>5. ForKey'
    BY <1>0, <1>a, <2>1, <2>2, <2>3 DEF ForKey
  <2> QED
    BY <1>0, <1>4, <2>4, <2>5 DEF Stop, history
<1>5. CASE Answer
  <2> DEFINE long == get_input_long_press_key(c, monitor.time)
  <2>1. /\ UNCHANGED <<handle, m_input_timer>> /\ monitor.pc = "answer"
        /\ monitor'.pc = "clear" /\ monitor'.code = c
    BY <1>5, <1>c DEF Answer, MonitorGoes, MonitorType
  <2>2. monitor.time <= key[c].held /\ monitor.time \in Nat /\ key[c].held \in Nat
    BY <1>0, <1>a, <1>c, <2>1, Fields DEF ForKey, Ages
  <2>3. long # NULL => long.time \in Nat /\ long.time <= monitor.time
    BY <1>a, <2>2, ReachedIs, TimesAssumption DEF Presses
  <2>4. long # NULL => key[c].held >= long.time
    <3> HIDE DEF long
    <3> QED
      BY <2>2, <2>3
  <2>5. \/ long # NULL /\ ReportLong(c, long.time)
        \/ ReportPress(c)
        \/ UNCHANGED history
    BY <1>5 DEF Answer
  <2>6. "long" \notin undue'
    <3> HIDE DEF long
    <3> QED
      BY <1>0, <2>4, <2>5 DEF ReportLong, ReportPress, Report, history
  <2>7. Alone'
    BY <1>0, <1>a, <1>b, <2>1 DEF Alone
  <2>8. ForKey'
    BY <1>0, <1>a, <1>b, <2>1, Fields DEF ForKey, RunsFor
  <2> QED
    BY <2>6, <2>7, <2>8
<1> QED
  BY <1>1, <1>2, <1>3, <1>4, <1>5 DEF Monitor

(* The timer's steps.                                                      *)
LEMMA TimerLong ==
  ASSUME TypeOK, Places, LongInv, Timer, Single, Single'
  PROVE  Alone' /\ ForKey' /\ "long" \notin undue'
<1> DEFINE c == m_input_timer.key_code
<1>0. Alone /\ ForKey /\ "long" \notin undue
  BY DEF LongInv
<1>a. UNCHANGED <<monitor, key>>
  BY DEF Timer, Due, Called, TestKey, CallLong, ResetTimer, Return
<1>b. \A j \in Keys : Active(j)' <=> Active(j)
  BY <1>a DEF Active
<1>c. /\ timer \in TimerType /\ handle \in HandleType /\ m_input_timer \in PointersType
      /\ c \in Keys \cup {NULL}
  BY Fields
<1>d. ASSUME c # NULL
      PROVE  /\ c \in Keys /\ Active(c) /\ key[c].held \in Nat
             /\ handle.last <= handle.start /\ handle.start <= key[c].held
  BY <1>0, <1>c, <1>d, Fields DEF ForKey, RunsFor, Ages
<1>e. /\ handle.start \in Nat /\ handle.last \in Nat
      /\ handle.time \in Nat /\ handle.repeat \in Nat
  <2>1. /\ handle.start \in Ages /\ handle.last \in Ages
        /\ handle.time \in Times \cup {0} /\ handle.repeat \in Times \cup {0}
    BY Fields
  <2>2. \A t \in Times \cup {0} : t \in Nat
    BY TimesAssumption
  <2> QED
    BY <2>1, <2>2 DEF Ages
<1>1. CASE Due
  <2>1. /\ timer.pc = "walk" /\ handle.listed /\ c # NULL /\ UNCHANGED <<m_input_timer, undue>>
    BY <1>0, <1>1 DEF Due, IsDue, ForKey, history
  <2>2. timer'.pc = "called" /\ monitor.pc # "arm"
    BY <1>0, <1>1, <2>1 DEF Due, Alone
  <2>3. /\ handle'.listed = handle.listed /\ handle'.start = handle.start
        /\ handle'.time = handle.time /\ handle'.repeat = handle.repeat
        /\ handle'.last \in {0, handle.last}
    BY <1>1, <1>c DEF Due, HandleType
  <2>4. handle.time <= key[c].held /\ handle.repeat <= key[c].held
    BY <1>1, <1>d, <1>e, <2>1 DEF Due, IsDue, Places
  <2>5. Alone'
    BY <1>0, <1>a, <1>b, <1>d, <2>1, <2>2 DEF Alone, Active
  <2>6. RunsFor(c)'
    BY <1>0, <1>a, <1>b, <1>d, <1>e, <2>1, <2>3, <2>4 DEF ForKey, RunsFor
  <2>7. ForKey'
    BY <1>0, <1>a, <2>1, <2>2, <2>6 DEF ForKey
  <2> QED
    BY <1>0, <2>1, <2>5, <2>7
<1>2. CASE Called
  <2>1. /\ timer.pc = "called" /\ monitor.pc # "arm" /\ UNCHANGED m_input_timer
        /\ timer'.pc \in {"key", "return"}
    BY <1>0, <1>2, <1>c DEF Called, Alone, TimerGoes, TimerType
  <2>2. /\ handle'.start = handle.start /\ handle'.last = handle.last
        /\ handle'.time = handle.time /\ handle'.repeat = handle.repeat
        /\ handle'.listed => handle.listed
    BY <1>2, <1>c DEF Called, RK_timer_stop, HandleType
  <2>3. timer'.pc = "key" => ~handle'.listed
    BY <1>0, <1>2, <1>c DEF Called, RK_timer_stop, TimerGoes, TimerType, HandleType, Places, ForKey
  <2>4. c # NULL => key[c].held >= handle.repeat
    BY <1>0, <1>d, <1>e, <2>1 DEF ForKey, RunsFor
  <2>5. "long" \notin undue'
    BY <1>0, <1>2, <2>4 DEF Called, ReportLong, Report, history
  <2>6. Alone'
    BY <1>0, <1>a, <1>b, <2>1 DEF Alone, Active
  <2>7. c # NULL => RunsFor(c)'
    BY <1>0, <1>a, <1>b, <1>d, <2>1, <2>2 DEF ForKey, RunsFor
  <2>8. ForKey'
    BY <1>0, <1>a, <2>1, <2>2, <2>3, <2>7 DEF ForKey
  <2> QED
    BY <2>5, <2>6, <2>8
<1>3. CASE TestKey
  <2>1. /\ timer.pc = "key" /\ monitor.pc # "arm" /\ UNCHANGED <<handle, m_input_timer, undue>>
        /\ timer'.pc \in {"call", "reset"}
    BY <1>0, <1>3, <1>c DEF TestKey, Alone, TimerGoes, TimerType, history
  <2>2. Alone'
    BY <1>0, <1>a, <1>b, <2>1 DEF Alone, Active
  <2>3. c # NULL => RunsFor(c)'
    BY <1>0, <1>a, <1>b, <1>d, <2>1 DEF ForKey, RunsFor
  <2>4. ForKey'
    BY <1>0, <1>a, <2>1, <2>3 DEF ForKey
  <2> QED
    BY <1>0, <2>1, <2>2, <2>4
<1>4. CASE CallLong
  <2>1. /\ timer.pc = "call" /\ monitor.pc # "arm" /\ UNCHANGED <<handle, m_input_timer>>
        /\ timer'.pc = "reset"
    BY <1>0, <1>4, <1>c DEF CallLong, Alone, TimerGoes, TimerType
  <2>2. m_input_timer.timer /\ ReportLong(c, handle.time)
    BY <1>4 DEF CallLong, Crash, Single
  <2>3. c # NULL /\ key[c].held >= handle.time
    BY <1>0, <1>d, <1>e, <2>1, <2>2 DEF Places, ForKey, RunsFor
  <2>4. "long" \notin undue'
    BY <1>0, <2>2, <2>3 DEF ReportLong, Report
  <2>5. Alone'
    BY <1>0, <1>a, <1>b, <2>1 DEF Alone, Active
  <2>6. RunsFor(c)'
    BY <1>0, <1>a, <1>b, <1>d, <2>1, <2>3 DEF ForKey, RunsFor
  <2>7. ForKey'
    BY <1>0, <1>a, <2>1, <2>6 DEF ForKey
  <2> QED
    BY <2>4, <2>5, <2>7
<1>5. CASE ResetTimer
  <2>1. /\ timer.pc = "reset" /\ monitor.pc # "arm" /\ UNCHANGED <<handle, undue>>
        /\ timer'.pc = "return"
    BY <1>0, <1>5, <1>c DEF ResetTimer, Alone, TimerGoes, TimerType, history
  <2>2. m_input_timer'.key_code = NULL /\ ~handle.listed
    BY <1>0, <1>5, <1>c, <2>1 DEF ResetTimer, input_timer_reset, PointersType, ForKey
  <2>3. Alone'
    BY <1>0, <1>a, <1>b, <2>1 DEF Alone, Active
  <2>4. ForKey'
    BY <1>0, <1>a, <2>1, <2>2 DEF ForKey
  <2> QED
    BY <1>0, <2>1, <2>3, <2>4
<1>6. CASE Return
  <2>1. /\ monitor.pc # "arm" /\ UNCHANGED <<m_input_timer, undue>> /\ timer'.pc = "walk"
    BY <1>0, <1>6, <1>c DEF Return, Alone, history
  <2>2. /\ handle'.start = handle.start /\ handle'.last = handle.last
        /\ handle'.listed => handle.listed
    BY <1>6, <1>c DEF Return, RK_timer_stop, HandleType
  <2>3. Alone'
    BY <1>0, <1>a, <1>b, <2>1 DEF Alone, Active
  <2>4. c # NULL => RunsFor(c)'
    BY <1>0, <1>a, <1>b, <1>d, <2>1, <2>2 DEF ForKey, RunsFor
  <2>5. ForKey'
    BY <1>0, <1>a, <2>1, <2>2, <2>4 DEF ForKey
  <2> QED
    BY <1>0, <2>1, <2>3, <2>5
<1> QED
  BY <1>1, <1>2, <1>3, <1>4, <1>5, <1>6 DEF Timer

LEMMA MultipleLong ==
  ASSUME LongInv, Multiple, Single, Single'
  PROVE  Alone' /\ ForKey' /\ "long" \notin undue'
<1>1. UNCHANGED <<handle, m_input_timer, monitor, timer, key>>
  BY DEF Multiple, multiple_handle_new_event, Expire
<1>2. undue' \subseteq undue \cup {"multiple"}
  BY DEF Multiple, multiple_handle_new_event, Expire, ReportMultiple, ReportPress, Report,
     Crash, history
<1> QED
  BY <1>1, <1>2 DEF LongInv, Alone, ForKey, RunsFor, Active

(* While the timer has a key, the key is down when time passes.            *)
LEMMA TickLong ==
  ASSUME TypeOK, Places, LongInv, Tick, Single, Single'
  PROVE  Alone' /\ ForKey' /\ "long" \notin undue'
<1> DEFINE c == m_input_timer.key_code
<1>0. Alone /\ ForKey /\ "long" \notin undue
  BY DEF LongInv
<1>1. /\ monitor.pc = "idle" /\ timer.pc = "walk" /\ UNCHANGED <<m_input_timer, monitor, timer, undue>>
  BY DEF Tick, Quiet, history
<1>2. ASSUME NEW k \in Keys
      PROVE  /\ key'[k].down = key[k].down
             /\ key'[k].changed => key[k].changed
             /\ key[k].down => key'[k].held = Older(key[k].held)
  <2>1. key'[k] = IF ~Used(k) THEN key[k]
       ELSE [down |-> key[k].down, changed |-> FALSE, last |-> Older(key[k].last),
             held |-> IF key[k].down THEN Older(key[k].held) ELSE 0,
             count |-> IF key[k].last < TIME_MULTIPLE THEN key[k].count ELSE 0]
    BY DEF Tick
  <2> QED
    BY <2>1 DEF Used
<1>3. \A k \in Keys : Active(k)' => Active(k)
  BY <1>2 DEF Active
<1>4. Alone'
  BY <1>0, <1>1, <1>3 DEF Alone
<1>5. /\ handle'.listed = handle.listed
      /\ \/ handle'.start = Older(handle.start) /\ handle'.last = Older(handle.last)
         \/ handle'.start = 0 /\ handle'.last = 0
  BY Fields DEF Tick, Unlisted, HandleType
<1>6. c # NULL => RunsFor(c)'
  <2> SUFFICES ASSUME c # NULL PROVE RunsFor(c)'
    OBVIOUS
  <2>1. /\ c \in Keys /\ key[c].down /\ handle.last <= handle.start /\ handle.start <= key[c].held
    BY <1>0, <1>1, Fields DEF ForKey, RunsFor
  <2>2. handle.last \in Nat /\ handle.start \in Nat /\ key[c].held \in Nat /\ MaxAge \in Nat
    BY <2>1, Fields, TimesAssumption DEF Ages
  <2>3. /\ Older(handle.last) <= Older(handle.start)
        /\ Older(handle.start) <= Older(key[c].held) /\ 0 <= Older(key[c].held)
    BY <2>1, <2>2 DEF Older
  <2>4. key'[c].down /\ key'[c].held = Older(key[c].held)
    BY <1>2, <2>1
  <2>5. handle'.last <= handle'.start /\ handle'.start <= key'[c].held
    BY <1>5, <2>3, <2>4
  <2> QED
    BY <1>1, <2>4, <2>5 DEF RunsFor, Active
<1>7. ForKey'
  BY <1>0, <1>1, <1>5, <1>6 DEF ForKey
<1> QED
  BY <1>0, <1>1, <1>4, <1>7

LEMMA LongInit == Init => LongInv
<1> SUFFICES ASSUME Init PROVE LongInv
  OBVIOUS
<1>1. Alone
  BY DEF Init, Idle, Alone, Active
<1>2. ForKey
  BY DEF Init, Idle, NoTimer, Unlisted, ForKey
<1> QED
  BY <1>1, <1>2 DEF Init, LongInv

LEMMA LongStep ==
  ASSUME TypeOK, Places, LongInv, [Next]_vars
  PROVE  LongInv'
<1>1. CASE UNCHANGED vars
  BY <1>1, RegisterLong
<1>2. CASE \/ \E k \in Keys, p \in Presses : RK_input_register_long_press(k, p)
           \/ \E k \in Keys, n \in Clicks : RK_input_register_multiple_press_callback(k, n)
  BY <1>2, RegisterLong
<1>3. CASE \E k \in Keys : Press(k) \/ Release(k)
  BY <1>3, SingleBefore, PressLong, ReleaseLong DEF LongInv
<1>4. CASE Monitor \/ Timer
  BY <1>4, SingleBefore, MonitorLong, TimerLong DEF LongInv
<1>5. CASE Multiple \/ Tick
  BY <1>5, SingleBefore, MultipleLong, TickLong DEF LongInv
<1> QED
  BY <1>1, <1>2, <1>3, <1>4, <1>5 DEF Next

-----------------------------------------------------------------------------
(* The inductive invariant, and what follows from it.                      *)
IInv == TypeOK /\ Places /\ ClickInv /\ LongInv

LEMMA Invariance == Spec => []IInv
<1>1. Init => IInv
  BY TypeInit, ClickInit, LongInit DEF IInv
<1>2. IInv /\ [Next]_vars => IInv'
  BY TypeStep, ClickStep, LongStep DEF IInv
<1> QED
  BY <1>1, <1>2, PTL DEF Spec

(* Every variable has its type; and the clicks that are counted stay below *)
(* the most there may be: multiple_handle_new_event reports the last.      *)
THEOREM TypeCorrect == Spec => []TypeOK
<1>1. IInv => TypeOK
  BY DEF IInv
<1> QED
  BY <1>1, Invariance, PTL

(* What thread_key_multiple reports as a multiple press is that many       *)
(* presses of that key, none more than TIME_MULTIPLE after the one before, *)
(* in whatever order the threads run and whichever keys are used at once.  *)
THEOREM MultipleAlwaysCounted == Spec => []MultipleIsCounted
<1>1. IInv => MultipleIsCounted
  BY DEF IInv, ClickInv
<1> QED
  BY <1>1, Invariance, PTL

(* While one key is used at a time, a key is reported as held for long, by *)
(* the timer's callback, its heartbeat or at the release, only when it was.*)
THEOREM LongAlwaysHeld == Spec => []LongIsHeld
<1>1. IInv => LongIsHeld
  BY DEF IInv, LongInv, Single, LongIsHeld, TypeOK
<1> QED
  BY <1>1, Invariance, PTL
=============================================================================
