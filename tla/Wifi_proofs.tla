---------------------------- MODULE Wifi_proofs ----------------------------
(***************************************************************************)
(* Proofs about Wifi, for any number of clients, networks and threads.     *)
(*                                                                         *)
(* That no network gets two entries rests on what patient clients do to    *)
(* each other: only one of them is in a call, and no thread checks a       *)
(* connection meanwhile.  So nobody adds a network between the search of   *)
(* one client and its set_network, and no id is counted anew.              *)
(*                                                                         *)
(* That the component makes single attempts rests on the same: whoever is  *)
(* at work alone, a client or a thread, owns the globals, which name its   *)
(* network and its id.  What WifiAttempt sees of the client, of the thread *)
(* and of the globals then changes as one of its steps does.               *)
(***************************************************************************)
EXTENDS Wifi, FiniteSetTheorems, TLAPS

CallPc == {"idle", "lock", "find", "disable", "search", "add", "set",
           "select", "enable"}
CallRecord ==
  [pc : CallPc, kind : {"connect", "connect1", "ssid", "bssid", NULL},
   ssid : Ssids \cup {NULL}, id : Ids \cup {NULL}]
CheckPc == {"none", "created", "status", "flags", "connected", "failed",
            "cancelled", "report"}
CheckState == {"-1", "DHCP_OK", "CONNECTFAILED"}
CheckRecord ==
  [pc : CheckPc, id : Ids \cup {-1}, round : 0..WIFI_CONNECT_RETRY - 1,
   state : CheckState]
ToldState == {"IDLE", "CONNECTING", "CONNECTFAILED", "WRONG_KEY", "DHCP_OK", "-1"}

(* The parts of TypeOK.                                                    *)
TypeCall == call \in [Clients -> CallRecord]
TypeCheck == check \in [Threads -> CheckRecord]
TypeSupplicant ==
  /\ networks \in Networks /\ conf \in [Ids -> Ssids \cup {NULL}]
  /\ enabled \in SUBSET Ids /\ station \in Ids \cup {NULL}
TypeTold == told \in [state : ToldState, ssid : Ssids \cup {NULL}]
TypeGlobals ==
  /\ connecting_id \in Ids \cup {-1} /\ connect_info \in Ssids \cup {NULL}
  /\ gstate \in {"OFF", "OPEN"}
  /\ wifi_wrong_key \in BOOLEAN /\ wifi_cancel \in BOOLEAN
  /\ wifi_connect_lock \in BOOLEAN /\ wifi_is_exist \in BOOLEAN
  /\ goal \in Ssids \cup {NULL} /\ budget \in 0..MaxCalls \cup {NULL}

Busy(c) == call[c].pc # "idle"

(* A call names its network, and its id once it has set one up.            *)
Named ==
  \A c \in Clients :
    /\ Busy(c) => call[c].ssid \in Ssids
    /\ call[c].pc \in {"set", "select", "enable"} => call[c].id \in Ids

Alone ==
  /\ \A c, d \in Clients : Busy(c) /\ Busy(d) => c = d
  /\ \A c \in Clients : Busy(c) => \A t \in Threads : ~Running(t)

(* The entry that a client is about to name is the only one for its name.  *)
Found ==
  \A c \in Clients :
    /\ call[c].pc = "add" => Search(call[c].ssid) = {}
    /\ call[c].pc = "set" =>
         \A j \in Ids : networks[j] = call[c].ssid => j = call[c].id

IInv == TypeOK /\ Named /\ (patient => Alone /\ Found) /\ OneEntryPerNetwork

-----------------------------------------------------------------------------
LEMMA CompactKeeps ==
  ASSUME NEW n \in Networks
  PROVE  /\ Compact(n) \in Networks
         /\ n \in [Ids -> Ssids \cup {NULL}] =>
              Compact(n) \in [Ids -> Ssids \cup {NULL}]
         /\ Unique(n) => Unique(Compact(n))
<1> DEFINE From(i) == CHOOSE j \in Ids : Takes(n, j, i)
           Some(i) == \E j \in Ids : Takes(n, j, i)
<1>1. \A i \in Ids : Some(i) => From(i) \in Ids /\ Takes(n, From(i), i)
  OBVIOUS
<1>2. \A i \in Ids : Compact(n)[i] = IF Some(i) THEN n[From(i)] ELSE NULL
  BY DEF Compact
<1>3. Compact(n) = [i \in Ids |-> Compact(n)[i]]
  BY DEF Compact
<1> HIDE DEF From, Some
<1>4. Compact(n) \in Networks
  <2>1. \A i \in Ids : Compact(n)[i] \in Ssids \cup {BLANK, NULL}
    BY <1>1, <1>2 DEF Networks
  <2> QED
    BY <1>3, <2>1 DEF Networks
<1>5. ASSUME n \in [Ids -> Ssids \cup {NULL}]
      PROVE  Compact(n) \in [Ids -> Ssids \cup {NULL}]
  <2>1. \A i \in Ids : Compact(n)[i] \in Ssids \cup {NULL}
    BY <1>1, <1>2, <1>5
  <2> QED
    BY <1>3, <2>1
<1>6. ASSUME Unique(n), NEW i \in Ids, NEW k \in Ids,
             Compact(n)[i] \in Ssids, Compact(n)[i] = Compact(n)[k]
      PROVE  i = k
  <2>1. Some(i) /\ Some(k)
    BY <1>2, <1>6, NullAssumption
  <2>2. n[From(i)] = n[From(k)] /\ n[From(i)] \in Ssids
    BY <1>2, <1>6, <2>1
  <2>3. From(i) = From(k)
    BY <1>1, <1>6, <2>1, <2>2 DEF Unique
  <2>4. Takes(n, From(i), i) /\ Takes(n, From(i), k)
    BY <1>1, <2>1, <2>3
  <2> QED
    BY <2>4 DEF Takes
<1> QED
  BY <1>4, <1>5, <1>6 DEF Unique

LEMMA TypeParts ==
  /\ TypeOK <=> TypeCall /\ TypeCheck /\ TypeSupplicant /\ TypeTold /\ TypeGlobals
  /\ TypeCall' /\ TypeCheck' /\ TypeSupplicant' /\ TypeTold' /\ TypeGlobals' => TypeOK'
BY DEF TypeOK, TypeCall, TypeCheck, TypeSupplicant, TypeTold, TypeGlobals,
       CallRecord, CallPc, CheckRecord, CheckPc, CheckState, ToldState

LEMMA CallSet ==
  ASSUME TypeCall, Named, NEW c \in Clients, NEW r \in CallRecord,
         call' = [call EXCEPT ![c] = r],
         r.pc # "idle" => r.ssid \in Ssids,
         r.pc \in {"set", "select", "enable"} => r.id \in Ids
  PROVE  /\ TypeCall' /\ Named'
         /\ call'[c] = r
         /\ \A d \in Clients : d # c => call'[d] = call[d]
BY DEF TypeCall, Named, Busy

(* A call goes on with the same network, and perhaps the same id.          *)
LEMMA CallTo ==
  ASSUME TypeCall, Named, NEW c \in Clients, NEW pc \in CallPc, To(c, pc), Busy(c),
         pc \in {"set", "select", "enable"} => call[c].id \in Ids
  PROVE  /\ TypeCall' /\ Named'
         /\ call'[c].pc = pc
         /\ call'[c].ssid = call[c].ssid /\ call'[c].id = call[c].id
         /\ call'[c].kind = call[c].kind
         /\ \A d \in Clients : d # c => call'[d] = call[d]
<1> DEFINE r == [call[c] EXCEPT !.pc = pc]
<1>1. call[c] \in CallRecord
  BY DEF TypeCall
<1>2. /\ r \in CallRecord /\ r.pc = pc
      /\ r.ssid = call[c].ssid /\ r.id = call[c].id /\ r.kind = call[c].kind
  BY <1>1 DEF CallRecord
<1>3. call' = [call EXCEPT ![c] = r]
  BY DEF To
<1>4. r.ssid \in Ssids
  BY <1>2 DEF Named, Busy
<1> HIDE DEF r
<1> QED
  BY <1>2, <1>3, <1>4, CallSet

LEMMA CallToId ==
  ASSUME TypeCall, Named, NEW c \in Clients, NEW pc \in CallPc, NEW i \in Ids,
         call' = [call EXCEPT ![c].pc = pc, ![c].id = i], Busy(c)
  PROVE  /\ TypeCall' /\ Named'
         /\ call'[c].pc = pc
         /\ call'[c].ssid = call[c].ssid /\ call'[c].id = i
         /\ call'[c].kind = call[c].kind
         /\ \A d \in Clients : d # c => call'[d] = call[d]
<1> DEFINE r == [call[c] EXCEPT !.pc = pc, !.id = i]
<1>1. call[c] \in CallRecord
  BY DEF TypeCall
<1>2. /\ r \in CallRecord /\ r.pc = pc
      /\ r.ssid = call[c].ssid /\ r.id = i /\ r.kind = call[c].kind
  BY <1>1 DEF CallRecord
<1>3. call' = [call EXCEPT ![c] = r]
  BY DEF TypeCall
<1>4. r.ssid \in Ssids
  BY <1>2 DEF Named, Busy
<1> HIDE DEF r
<1> QED
  BY <1>2, <1>3, <1>4, CallSet

LEMMA CallReturns ==
  ASSUME TypeCall, Named, NEW c \in Clients, Return(c)
  PROVE  /\ TypeCall' /\ Named'
         /\ call'[c].pc = "idle"
         /\ \A d \in Clients : d # c => call'[d] = call[d]
<1>1. /\ Idle \in CallRecord /\ Idle.pc = "idle"
  BY DEF Idle, CallRecord, CallPc
<1> QED
  BY <1>1, CallSet DEF Return

LEMMA CallBegins ==
  ASSUME TypeCall, Named, NEW c \in Clients, NEW s \in Ssids,
         NEW pc \in {"lock", "disable", "find"},
         NEW kind \in {"connect", "connect1", "ssid", "bssid"},
         Begin(c, pc, kind, s)
  PROVE  /\ TypeCall' /\ Named'
         /\ call'[c].pc = pc /\ call'[c].kind = kind
         /\ call'[c].ssid = s /\ call'[c].id = NULL
         /\ \A d \in Clients : d # c => call'[d] = call[d]
<1> DEFINE r == [pc |-> pc, kind |-> kind, ssid |-> s, id |-> NULL]
<1>1. /\ r \in CallRecord /\ r.pc = pc /\ r.ssid = s
      /\ r.kind = kind /\ r.id = NULL
  BY DEF CallRecord, CallPc
<1>2. call' = [call EXCEPT ![c] = r]
  BY DEF Begin
<1> HIDE DEF r
<1> QED
  BY <1>1, <1>2, CallSet

LEMMA CheckTos ==
  ASSUME TypeCheck, NEW t \in Threads, NEW pc \in CheckPc, CheckTo(t, pc)
  PROVE  /\ TypeCheck'
         /\ \A u \in Threads : u # t => check'[u] = check[u]
BY DEF TypeCheck, CheckTo, CheckRecord

-----------------------------------------------------------------------------
(* The types are kept, part by part; an action that does not name the      *)
(* variables of a part leaves them as they are.                            *)

LEMMA TypeCallStep ==
  ASSUME TypeOK, Named, Next
  PROVE  TypeCall' /\ Named'
<1>1. TypeCall
  BY TypeParts
<1>2. ASSUME UNCHANGED call PROVE TypeCall' /\ Named'
  BY <1>1, <1>2 DEF TypeCall, Named, Busy
<1>3. ASSUME NEW c \in Clients, NEW s \in Ssids,
             \/ RK_wifi_connect(c, s) \/ RK_wifi_connect1(c, s)
             \/ RK_wifi_connect_with_ssid(c, s) \/ RK_wifi_connect_with_bssid(c, s)
      PROVE  TypeCall' /\ Named'
  BY <1>1, <1>3, CallBegins
     DEF RK_wifi_connect, RK_wifi_connect1, RK_wifi_connect_with_ssid,
         RK_wifi_connect_with_bssid
<1>4. ASSUME NEW c \in Clients,
             \/ \E s \in Ssids : RK_wifi_forget_with_ssid(c, s)
             \/ RK_wifi_disconnect_network(c) \/ RK_wifi_enable(c)
             \/ RK_wifi_reset(c) \/ RK_wifi_recovery(c)
      PROVE  UNCHANGED call
  BY <1>4 DEF RK_wifi_forget_with_ssid, RK_wifi_disconnect_network, RK_wifi_enable,
         RK_wifi_reset, RK_wifi_recovery
<1>5. ASSUME NEW c \in Clients, SetsUp(c)
      PROVE  TypeCall' /\ Named'
  <2>1. CASE Lock(c)
    <3>1. To(c, "disable") /\ Busy(c)
      BY <2>1 DEF Lock, Busy
    <3> QED
      BY <1>1, <3>1, CallTo DEF CallPc
  <2>2. CASE Find(c)
    <3>1. Busy(c)
      BY <2>2 DEF Find, Busy
    <3>2. CASE Return(c)
      BY <1>1, <3>2, CallReturns
    <3>3. CASE \E i \in Search(call[c].ssid) :
                 call' = [call EXCEPT ![c].pc = "disable", ![c].id = i]
      BY <1>1, <3>1, <3>3, CallToId DEF CallPc, Search
    <3> QED
      BY <2>2, <3>2, <3>3 DEF Find, Fail
  <2>3. CASE Disable(c)
    <3>1. Busy(c)
      BY <2>3 DEF Disable, Busy
    <3>2. call[c].id \in Ids \cup {NULL}
      BY <1>1 DEF TypeCall, CallRecord
    <3>3. \/ To(c, "search")
          \/ To(c, "select") /\ call[c].id \in Ids
      BY <2>3, <3>2 DEF Disable
    <3> QED
      BY <1>1, <3>1, <3>3, CallTo DEF CallPc
  <2>4. CASE SearchSsid(c) \/ AddNetwork(c)
    <3>1. Busy(c)
      BY <2>4 DEF SearchSsid, AddNetwork, Busy
    <3>2. CASE Return(c)
      BY <1>1, <3>2, CallReturns
    <3>3. CASE \E i \in Ids : call' = [call EXCEPT ![c].pc = "set", ![c].id = i]
      BY <1>1, <3>1, <3>3, CallToId DEF CallPc
    <3>4. CASE To(c, "add")
      BY <1>1, <3>1, <3>4, CallTo DEF CallPc
    <3> QED
      BY <2>4, <3>2, <3>3, <3>4 DEF SearchSsid, AddNetwork, Search, Fail
  <2>5. CASE SetNetwork(c)
    <3>1. Busy(c) /\ call[c].id \in Ids
      BY <2>5 DEF SetNetwork, Busy, Named
    <3>2. Return(c) \/ To(c, "select")
      BY <2>5 DEF SetNetwork, Fail
    <3> QED
      BY <1>1, <3>1, <3>2, CallTo, CallReturns DEF CallPc
  <2>6. CASE SelectNetwork(c)
    <3>1. Busy(c) /\ call[c].id \in Ids
      BY <2>6 DEF SelectNetwork, Busy, Named
    <3>2. Return(c) \/ To(c, "enable")
      BY <2>6 DEF SelectNetwork, Fail
    <3> QED
      BY <1>1, <3>1, <3>2, CallTo, CallReturns DEF CallPc
  <2>7. CASE EnableNetwork(c)
    <3>1. Return(c)
      BY <2>7 DEF EnableNetwork, Fail
    <3> QED
      BY <1>1, <3>1, CallReturns
  <2> QED
    BY <1>5, <2>1, <2>2, <2>3, <2>4, <2>5, <2>6, <2>7 DEF SetsUp
<1>6. ASSUME NEW t \in Threads, Checks(t)
      PROVE  UNCHANGED call
  BY <1>6 DEF Checks, Starts, ReadsStatus, TakesCancel, ReadsFlags, save_configuration,
         wifi_connectfail_process, Reports
<1>7. ASSUME RK_wifi_cancel \/ WrongKey \/ Station
      PROVE  UNCHANGED call
  BY <1>7 DEF RK_wifi_cancel, WrongKey, Station, Associate, Lose
<1> QED
  BY <1>2, <1>3, <1>4, <1>5, <1>6, <1>7 DEF Next, Calls

LEMMA TypeCheckStep ==
  ASSUME TypeOK, Next
  PROVE  TypeCheck'
<1>1. TypeCheck /\ TypeGlobals
  BY TypeParts
<1>2. ASSUME UNCHANGED check PROVE TypeCheck'
  BY <1>1, <1>2 DEF TypeCheck
<1>3. ASSUME NEW c \in Clients, Calls(c)
      PROVE  UNCHANGED check
  BY <1>3 DEF Calls, RK_wifi_connect, RK_wifi_connect1, RK_wifi_connect_with_ssid,
         RK_wifi_connect_with_bssid, RK_wifi_forget_with_ssid,
         RK_wifi_disconnect_network, RK_wifi_enable, RK_wifi_reset, RK_wifi_recovery
<1>4. ASSUME NEW c \in Clients, SetsUp(c)
      PROVE  TypeCheck'
  <2>1. CASE EnableNetwork(c)
    <3>1. CASE UNCHANGED check
      BY <1>2, <3>1
    <3>2. CASE \E t \in Threads : CheckTo(t, "created")
      BY <1>1, <3>2, CheckTos DEF CheckPc
    <3> QED
      BY <2>1, <3>1, <3>2 DEF EnableNetwork, Fail, CheckTo
  <2>2. CASE ~EnableNetwork(c)
    BY <1>2, <1>4, <2>2 DEF SetsUp, Lock, Find, Disable, SearchSsid, AddNetwork,
         SetNetwork, SelectNetwork, Fail
  <2> QED
    BY <2>1, <2>2
<1>5. ASSUME NEW t \in Threads, Checks(t)
      PROVE  TypeCheck'
  <2>1. check[t] \in CheckRecord
    BY <1>1 DEF TypeCheck
  <2>2. ASSUME NEW r \in CheckRecord, check' = [check EXCEPT ![t] = r]
        PROVE  TypeCheck'
    BY <1>1, <2>2 DEF TypeCheck
  <2>3. CASE Starts(t)
    <3> DEFINE r == [check[t] EXCEPT !.pc = "status", !.id = connecting_id]
    <3>1. r \in CheckRecord
      BY <1>1, <2>1 DEF CheckRecord, CheckPc, TypeGlobals
    <3>2. check' = [check EXCEPT ![t] = r]
      BY <1>1, <2>3 DEF Starts, TypeCheck
    <3> QED
      BY <2>2, <3>1, <3>2
  <2>4. CASE ReadsStatus(t)
    BY <1>1, <2>4, CheckTos DEF ReadsStatus, CheckPc
  <2>5. CASE TakesCancel(t)
    BY <1>1, <2>5, CheckTos DEF TakesCancel, CheckPc
  <2>6. CASE ReadsFlags(t)
    <3>1. CASE wifi_wrong_key \/ LastRound(t)
      BY <1>1, <2>6, <3>1, CheckTos DEF ReadsFlags, CheckPc
    <3>2. CASE ~(wifi_wrong_key \/ LastRound(t))
      <4> DEFINE r == [check[t] EXCEPT !.pc = "status", !.round = NextRound(check[t].round)]
      <4>1. NextRound(check[t].round) \in 0..WIFI_CONNECT_RETRY - 1
        BY <2>1, <3>2, BoundsAssumption DEF CheckRecord, LastRound, NextRound
      <4>2. r \in CheckRecord
        BY <2>1, <4>1 DEF CheckRecord, CheckPc
      <4>3. check' = [check EXCEPT ![t] = r]
        BY <1>1, <2>6, <3>2 DEF ReadsFlags, TypeCheck
      <4> QED
        BY <2>2, <4>2, <4>3
    <3> QED
      BY <3>1, <3>2
  <2>7. ASSUME NEW state \in CheckState,
               check' = [check EXCEPT ![t].pc = "report", ![t].state = state]
        PROVE  TypeCheck'
    <3> DEFINE r == [check[t] EXCEPT !.pc = "report", !.state = state]
    <3>1. r \in CheckRecord
      BY <2>1 DEF CheckRecord, CheckPc
    <3>2. check' = [check EXCEPT ![t] = r]
      BY <1>1, <2>7 DEF TypeCheck
    <3> QED
      BY <2>2, <3>1, <3>2
  <2>8. CASE save_configuration(t)
    BY <2>7, <2>8 DEF save_configuration, CheckState
  <2>9. CASE wifi_connectfail_process(t)
    BY <2>7, <2>9 DEF wifi_connectfail_process, CheckState
  <2>10. CASE Reports(t)
    <3>1. NoCheck \in CheckRecord
      BY BoundsAssumption DEF NoCheck, CheckRecord, CheckPc, CheckState
    <3> QED
      BY <2>2, <2>10, <3>1 DEF Reports
  <2> QED
    BY <1>5, <2>3, <2>4, <2>5, <2>6, <2>8, <2>9, <2>10 DEF Checks
<1>6. ASSUME RK_wifi_cancel \/ WrongKey \/ Station
      PROVE  UNCHANGED check
  BY <1>6 DEF RK_wifi_cancel, WrongKey, Station, Associate, Lose
<1> QED
  BY <1>2, <1>3, <1>4, <1>5, <1>6 DEF Next

LEMMA Told ==
  ASSUME TypeTold, NEW state \in ToldState, NEW info \in Ssids \cup {NULL},
         wifi_state_send(state, info)
  PROVE  TypeTold'
BY DEF TypeTold, wifi_state_send

LEMMA TypeToldStep ==
  ASSUME TypeOK, Named, Next
  PROVE  TypeTold'
<1>1. TypeCall /\ TypeCheck /\ TypeTold /\ TypeGlobals
  BY TypeParts
<1>2. ASSUME UNCHANGED told PROVE TypeTold'
  BY <1>1, <1>2 DEF TypeTold
<1>3. ASSUME NEW s \in Ssids \cup {NULL}, save_connect_info(s) PROVE TypeTold'
  BY <1>1, <1>3, Told DEF save_connect_info, ToldState
<1>4. ASSUME NEW c \in Clients, Fail(c) PROVE TypeTold'
  BY <1>1, <1>4, Told DEF Fail, ToldState, TypeGlobals
<1>5. ASSUME NEW c \in Clients, Calls(c)
      PROVE  TypeTold'
  BY <1>2, <1>3, <1>5
     DEF Calls, RK_wifi_connect, RK_wifi_connect1, RK_wifi_connect_with_ssid,
         RK_wifi_connect_with_bssid, RK_wifi_forget_with_ssid,
         RK_wifi_disconnect_network, RK_wifi_enable, RK_wifi_reset, RK_wifi_recovery
<1>6. ASSUME NEW c \in Clients, SetsUp(c)
      PROVE  TypeTold'
  <2>1. Busy(c) => call[c].ssid \in Ssids
    BY DEF Named
  <2>2. CASE Lock(c) \/ Find(c)
    BY <1>2, <1>3, <1>4, <2>1, <2>2 DEF Lock, Find, Busy
  <2>3. CASE ~Lock(c) /\ ~Find(c)
    BY <1>2, <1>4, <1>6, <2>3 DEF SetsUp, Disable, SearchSsid, AddNetwork, SetNetwork,
         SelectNetwork, EnableNetwork
  <2> QED
    BY <2>2, <2>3
<1>7. ASSUME NEW t \in Threads, Checks(t)
      PROVE  TypeTold'
  <2>1. CASE Reports(t)
    <3>1. check[t].state \in ToldState
      BY <1>1 DEF TypeCheck, CheckRecord, CheckState, ToldState
    <3> QED
      BY <1>1, <1>2, <2>1, <3>1, Told DEF Reports, TypeGlobals
  <2>2. CASE ~Reports(t)
    BY <1>2, <1>7, <2>2 DEF Checks, Starts, ReadsStatus, TakesCancel, ReadsFlags,
         save_configuration, wifi_connectfail_process
  <2> QED
    BY <2>1, <2>2
<1>8. ASSUME RK_wifi_cancel \/ WrongKey \/ Station
      PROVE  TypeTold'
  <2>1. CASE WrongKey
    BY <1>1, <2>1, Told DEF WrongKey, TypeGlobals, ToldState
  <2>2. CASE ~WrongKey
    BY <1>2, <1>8, <2>2 DEF RK_wifi_cancel, Station, Associate, Lose
  <2> QED
    BY <2>1, <2>2
<1> QED
  BY <1>5, <1>6, <1>7, <1>8 DEF Next

LEMMA ReloadTypes ==
  ASSUME TypeSupplicant, NEW enable \in BOOLEAN, Reload(enable)
  PROVE  TypeSupplicant'
<1>1. networks' \in Networks
  BY CompactKeeps DEF TypeSupplicant, Reload, Networks
<1>2. enabled' \in SUBSET Ids
  BY DEF Reload, Used
<1> QED
  BY <1>1, <1>2 DEF TypeSupplicant, Reload, Leave

LEMMA RemoveTypes ==
  ASSUME TypeSupplicant, NEW i, Remove(i)
  PROVE  /\ networks' \in Networks /\ enabled' \in SUBSET Ids
         /\ station' \in Ids \cup {NULL}
BY DEF TypeSupplicant, Remove, Leave, Networks

LEMMA TypeSupplicantStep ==
  ASSUME TypeOK, Named, Next
  PROVE  TypeSupplicant'
<1>1. TypeCall /\ TypeCheck /\ TypeSupplicant
  BY TypeParts
<1>2. ASSUME UNCHANGED supplicant PROVE TypeSupplicant'
  BY <1>1, <1>2 DEF TypeSupplicant, supplicant
<1>3. ASSUME NEW c \in Clients, Calls(c)
      PROVE  TypeSupplicant'
  <2>1. CASE \E s \in Ssids : RK_wifi_forget_with_ssid(c, s)
    BY <1>1, <2>1, RemoveTypes DEF RK_wifi_forget_with_ssid, TypeSupplicant
  <2>2. CASE RK_wifi_disconnect_network(c)
    BY <1>1, <2>2 DEF RK_wifi_disconnect_network, TypeSupplicant, Leave
  <2>3. CASE RK_wifi_enable(c)
    <3>1. networks' \in Networks
      BY <1>1, <2>3, CompactKeeps DEF RK_wifi_enable, TypeSupplicant, NoNetworks, Networks
    <3> QED
      BY <1>1, <2>3, <3>1 DEF RK_wifi_enable, TypeSupplicant, Used
  <2>4. CASE RK_wifi_reset(c)
    BY <1>1, <2>4 DEF RK_wifi_reset, TypeSupplicant, NoNetworks, Networks, Leave
  <2>5. CASE RK_wifi_recovery(c)
    BY <1>1, <2>5, ReloadTypes DEF RK_wifi_recovery
  <2>6. CASE \E s \in Ssids :
               \/ RK_wifi_connect(c, s) \/ RK_wifi_connect1(c, s)
               \/ RK_wifi_connect_with_ssid(c, s) \/ RK_wifi_connect_with_bssid(c, s)
    BY <1>2, <2>6 DEF RK_wifi_connect, RK_wifi_connect1, RK_wifi_connect_with_ssid,
         RK_wifi_connect_with_bssid
  <2> QED
    BY <1>3, <2>1, <2>2, <2>3, <2>4, <2>5, <2>6 DEF Calls
<1>4. ASSUME NEW c \in Clients, SetsUp(c)
      PROVE  TypeSupplicant'
  <2>1. CASE Lock(c) \/ Find(c) \/ SearchSsid(c)
    BY <1>2, <2>1 DEF Lock, Find, SearchSsid
  <2>2. CASE Disable(c)
    BY <1>1, <2>2 DEF Disable, DisableAll, TypeSupplicant, Leave
  <2>3. CASE AddNetwork(c)
    <3>1. networks' \in Networks
      BY <1>1, <2>3 DEF AddNetwork, TypeSupplicant, Networks
    <3> QED
      BY <1>1, <2>3, <3>1 DEF AddNetwork, TypeSupplicant
  <2>4. CASE SetNetwork(c)
    <3>1. call[c].ssid \in Ssids
      BY <2>4 DEF SetNetwork, Named, Busy
    <3>2. networks' \in Networks
      BY <1>1, <2>4, <3>1 DEF SetNetwork, TypeSupplicant, Networks
    <3> QED
      BY <1>1, <2>4, <3>2 DEF SetNetwork, TypeSupplicant
  <2>5. CASE SelectNetwork(c)
    <3>1. call[c].id \in Ids
      BY <2>5 DEF SelectNetwork, Named
    <3> QED
      BY <1>1, <2>5, <3>1 DEF SelectNetwork, TypeSupplicant, Leave
  <2>6. CASE EnableNetwork(c)
    <3>1. call[c].id \in Ids
      BY <2>6 DEF EnableNetwork, Named
    <3> QED
      BY <1>1, <2>6, <3>1 DEF EnableNetwork, TypeSupplicant
  <2> QED
    BY <1>4, <2>1, <2>2, <2>3, <2>4, <2>5, <2>6 DEF SetsUp
<1>5. ASSUME NEW t \in Threads, Checks(t)
      PROVE  TypeSupplicant'
  <2>1. CASE TakesCancel(t)
    BY <1>1, <2>1, ReloadTypes DEF TakesCancel
  <2>2. CASE save_configuration(t)
    BY <1>1, <2>2 DEF save_configuration, TypeSupplicant, Used
  <2>3. CASE wifi_connectfail_process(t)
    <3>1. CASE Remove(check[t].id)
      BY <1>1, <2>3, <3>1, RemoveTypes DEF wifi_connectfail_process, TypeSupplicant
    <3>2. CASE ~Remove(check[t].id)
      BY <1>1, <2>3, <3>2 DEF wifi_connectfail_process, TypeSupplicant, Leave
    <3> QED
      BY <3>1, <3>2
  <2>4. CASE Starts(t) \/ ReadsStatus(t) \/ ReadsFlags(t) \/ Reports(t)
    BY <1>2, <2>4 DEF Starts, ReadsStatus, ReadsFlags, Reports
  <2> QED
    BY <1>5, <2>1, <2>2, <2>3, <2>4 DEF Checks
<1>6. ASSUME RK_wifi_cancel \/ WrongKey \/ Station
      PROVE  TypeSupplicant'
  BY <1>1, <1>6 DEF RK_wifi_cancel, WrongKey, Station, Associate, Lose, Leave,
       TypeSupplicant, supplicant
<1> QED
  BY <1>3, <1>4, <1>5, <1>6 DEF Next

LEMMA TypeGlobalsStep ==
  ASSUME TypeOK, Named, Next
  PROVE  TypeGlobals'
<1>1. TypeCall /\ TypeGlobals
  BY TypeParts
<1>2. ASSUME NEW c \in Clients, Makes(c) PROVE budget' \in 0..MaxCalls \cup {NULL}
  BY <1>1, <1>2, BoundsAssumption, NullAssumption DEF Makes, patient, TypeGlobals
<1>3. ASSUME NEW c \in Clients, NEW s \in Ssids,
             \/ RK_wifi_connect(c, s) \/ RK_wifi_connect1(c, s)
             \/ RK_wifi_connect_with_ssid(c, s) \/ RK_wifi_connect_with_bssid(c, s)
             \/ RK_wifi_forget_with_ssid(c, s)
      PROVE  TypeGlobals'
  BY <1>1, <1>2, <1>3
     DEF RK_wifi_connect, RK_wifi_connect1, RK_wifi_connect_with_ssid, Begin,
         RK_wifi_connect_with_bssid, RK_wifi_forget_with_ssid, save_connect_info,
         TypeGlobals, flags
<1>4. ASSUME NEW c \in Clients,
             \/ RK_wifi_disconnect_network(c) \/ RK_wifi_enable(c)
             \/ RK_wifi_reset(c) \/ RK_wifi_recovery(c)
      PROVE  TypeGlobals'
  BY <1>1, <1>2, <1>4
     DEF RK_wifi_disconnect_network, RK_wifi_enable, RK_wifi_reset, RK_wifi_recovery,
         TypeGlobals, flags
<1>5. ASSUME NEW c \in Clients, SetsUp(c)
      PROVE  TypeGlobals'
  <2>1. Busy(c) => call[c].ssid \in Ssids
    BY DEF Named
  <2>2. CASE Lock(c)
    BY <1>1, <2>1, <2>2 DEF Lock, Busy, save_connect_info, TypeGlobals
  <2>3. CASE Find(c)
    BY <1>1, <2>1, <2>3 DEF Find, Fail, Busy, Search, save_connect_info, TypeGlobals, flags
  <2>4. CASE Disable(c)
    BY <1>1, <2>4 DEF Disable, TypeGlobals
  <2>5. CASE SearchSsid(c) \/ AddNetwork(c) \/ SetNetwork(c)
    BY <1>1, <2>5 DEF SearchSsid, AddNetwork, SetNetwork, Search, Fail, TypeGlobals, flags
  <2>6. CASE SelectNetwork(c) \/ EnableNetwork(c)
    BY <1>1, <2>6 DEF SelectNetwork, EnableNetwork, Fail, TypeGlobals, flags
  <2> QED
    BY <1>5, <2>2, <2>3, <2>4, <2>5, <2>6 DEF SetsUp
<1>6. ASSUME NEW t \in Threads, Checks(t)
      PROVE  TypeGlobals'
  BY <1>1, <1>6
     DEF Checks, Starts, ReadsStatus, TakesCancel, ReadsFlags, save_configuration,
         wifi_connectfail_process, Reports, TypeGlobals, flags
<1>7. ASSUME RK_wifi_cancel \/ WrongKey \/ Station
      PROVE  TypeGlobals'
  BY <1>1, <1>7 DEF RK_wifi_cancel, WrongKey, Station, Associate, Lose, TypeGlobals, flags
<1> QED
  BY <1>3, <1>4, <1>5, <1>6, <1>7 DEF Next, Calls

LEMMA InitTypes == Init => TypeOK /\ Named
<1> SUFFICES ASSUME Init PROVE TypeOK /\ Named
  OBVIOUS
<1>1. TypeCall /\ Named
  BY DEF Init, TypeCall, Named, Busy, Idle, CallRecord, CallPc
<1>2. TypeCheck
  <2>1. NoCheck \in CheckRecord
    BY BoundsAssumption DEF NoCheck, CheckRecord, CheckPc, CheckState
  <2> QED
    BY <2>1 DEF Init, TypeCheck
<1>3. TypeSupplicant
  BY ConfigurationsAssumption DEF Init, TypeSupplicant, NoNetworks, Networks
<1>4. TypeTold
  BY DEF Init, TypeTold, ToldState
<1>5. TypeGlobals
  <2>1. MaxCalls \in 0..MaxCalls
    BY BoundsAssumption
  <2> QED
    BY <2>1 DEF Init, TypeGlobals
<1> QED
  BY <1>1, <1>2, <1>3, <1>4, <1>5, TypeParts

LEMMA TypeStep == TypeOK /\ Named /\ [Next]_vars => TypeOK' /\ Named'
<1> SUFFICES ASSUME TypeOK, Named, [Next]_vars PROVE TypeOK' /\ Named'
  OBVIOUS
<1>1. CASE Next
  BY <1>1, TypeCallStep, TypeCheckStep, TypeSupplicantStep, TypeToldStep,
     TypeGlobalsStep, TypeParts
<1>2. CASE UNCHANGED vars
  BY <1>2 DEF vars, flags, supplicant, TypeOK, Named, Busy
<1> QED
  BY <1>1, <1>2

(* Whatever clients, threads and events do to the globals they share, each *)
(* variable keeps its type.                                                *)
THEOREM TypeCorrect == Spec => []TypeOK
<1>1. TypeOK /\ Named => TypeOK
  OBVIOUS
<1> QED
  BY InitTypes, TypeStep, <1>1, PTL DEF Spec

-----------------------------------------------------------------------------
(* One entry per network.                                                  *)

LEMMA PatientStays ==
  ASSUME TypeOK, Next, patient'
  PROVE  patient
<1>1. CASE UNCHANGED budget
  BY <1>1 DEF patient
<1>2. ASSUME NEW c \in Clients, Makes(c) PROVE patient
  <2>1. budget \in 0..MaxCalls \cup {NULL}
    BY DEF TypeOK
  <2> QED
    BY <1>2, <2>1, NullAssumption, BoundsAssumption DEF Makes, patient
<1>3. UNCHANGED budget \/ \E c \in Clients : Makes(c)
  BY DEF Next, Calls, SetsUp, Checks, Station, RK_wifi_connect, RK_wifi_connect1, Begin,
     RK_wifi_connect_with_ssid, RK_wifi_connect_with_bssid, RK_wifi_forget_with_ssid,
     RK_wifi_disconnect_network, RK_wifi_enable, RK_wifi_reset, RK_wifi_recovery,
     Lock, Find, Disable, SearchSsid, AddNetwork, SetNetwork, SelectNetwork, EnableNetwork,
     Starts, ReadsStatus, TakesCancel, ReadsFlags, save_configuration,
     wifi_connectfail_process, Reports, RK_wifi_cancel, WrongKey, Associate, Lose
<1> QED
  BY <1>1, <1>2, <1>3

(* What a step of one actor does to the calls and checks of the others.    *)
LEMMA CallsFacts ==
  ASSUME TypeOK, Named, patient, NEW c \in Clients, Calls(c)
  PROVE  /\ \A d \in Clients : ~Busy(d)
         /\ UNCHANGED check
         /\ \A d \in Clients : d # c => call'[d] = call[d]
         /\ call'[c].pc \notin {"add", "set"}
<1>1. TypeCall
  BY TypeParts
<1>2. Free(c) /\ UNCHANGED check
  BY DEF Calls, RK_wifi_connect, RK_wifi_connect1, RK_wifi_connect_with_ssid, Begin,
     RK_wifi_connect_with_bssid, RK_wifi_forget_with_ssid, Makes,
     RK_wifi_disconnect_network, RK_wifi_enable, RK_wifi_reset, RK_wifi_recovery
<1>3. \A d \in Clients : ~Busy(d)
  BY <1>2 DEF Free, Quiet, Busy, Idle
<1>4. CASE UNCHANGED call
  BY <1>2, <1>3, <1>4 DEF Busy
<1>5. ASSUME NEW s \in Ssids, NEW pc \in {"lock", "disable", "find"},
             NEW kind \in {"connect", "connect1", "ssid", "bssid"}, Begin(c, pc, kind, s)
      PROVE  /\ \A d \in Clients : d # c => call'[d] = call[d]
             /\ call'[c].pc \notin {"add", "set"}
  BY <1>1, <1>5, CallBegins
<1>6. \/ UNCHANGED call
      \/ \E s \in Ssids, pc \in {"lock", "disable", "find"},
            kind \in {"connect", "connect1", "ssid", "bssid"} : Begin(c, pc, kind, s)
  BY DEF Calls, RK_wifi_connect, RK_wifi_connect1, RK_wifi_connect_with_ssid,
     RK_wifi_connect_with_bssid, RK_wifi_forget_with_ssid,
     RK_wifi_disconnect_network, RK_wifi_enable, RK_wifi_reset, RK_wifi_recovery
<1> QED
  BY <1>2, <1>3, <1>4, <1>5, <1>6

LEMMA SetsUpFacts ==
  ASSUME TypeOK, NEW c \in Clients, SetsUp(c)
  PROVE  /\ Busy(c)
         /\ \A d \in Clients : d # c => call'[d] = call[d]
         /\ EnableNetwork(c) \/ UNCHANGED check
<1>1. TypeCall
  BY TypeParts
<1>2. Busy(c)
  BY DEF SetsUp, Busy, Lock, Find, Disable, SearchSsid, AddNetwork, SetNetwork,
     SelectNetwork, EnableNetwork
<1>3. EnableNetwork(c) \/ UNCHANGED check
  BY DEF SetsUp, Lock, Find, Disable, SearchSsid, AddNetwork, SetNetwork, SelectNetwork,
     Fail
<1>4. \/ Return(c) \/ \E pc \in CallPc : To(c, pc)
      \/ \E pc \in CallPc, i \in Ids : call' = [call EXCEPT ![c].pc = pc, ![c].id = i]
  BY DEF SetsUp, Lock, Find, Disable, SearchSsid, AddNetwork, SetNetwork, SelectNetwork,
     EnableNetwork, Fail, CallPc, Search
<1>5. \A d \in Clients : d # c => call'[d] = call[d]
  BY <1>1, <1>4 DEF Return, To, TypeCall
<1> QED
  BY <1>2, <1>3, <1>5

LEMMA ChecksFacts ==
  ASSUME TypeOK, NEW t \in Threads, Checks(t)
  PROVE  Running(t) /\ UNCHANGED call
BY DEF Checks, Running, Starts, ReadsStatus, TakesCancel, ReadsFlags, save_configuration,
   wifi_connectfail_process, Reports

LEMMA OtherFacts ==
  ASSUME RK_wifi_cancel \/ WrongKey \/ Station
  PROVE  UNCHANGED <<call, check, networks, conf>>
BY DEF RK_wifi_cancel, WrongKey, Station, Associate, Lose, supplicant

(* One client at a time, and no thread that checks meanwhile.              *)
LEMMA AloneStep ==
  ASSUME TypeOK, Named, patient, Alone, Next
  PROVE  Alone'
<1>1. ASSUME NEW c \in Clients, Calls(c) PROVE Alone'
  <2>1. \A t \in Threads : ~Running(t)
    <3>1. Free(c)
      BY <1>1 DEF Calls, RK_wifi_connect, RK_wifi_connect1, RK_wifi_connect_with_ssid,
         Begin, RK_wifi_connect_with_bssid, RK_wifi_forget_with_ssid, Makes,
         RK_wifi_disconnect_network, RK_wifi_enable, RK_wifi_reset, RK_wifi_recovery
    <3> QED
      BY <3>1 DEF Free, Quiet
  <2> QED
    BY <1>1, <2>1, CallsFacts DEF Alone, Busy, Running
<1>2. ASSUME NEW c \in Clients, SetsUp(c) PROVE Alone'
  <2>1. \A d \in Clients : Busy(d)' => d = c
    BY <1>2, SetsUpFacts DEF Alone, Busy
  <2>2. CASE UNCHANGED check
    BY <1>2, <2>1, <2>2, SetsUpFacts DEF Alone, Running
  <2>3. CASE EnableNetwork(c)
    <3>1. TypeCall /\ Return(c)
      BY <2>3, TypeParts DEF EnableNetwork, Fail
    <3>2. ~Busy(c)'
      BY <3>1, CallReturns DEF Busy
    <3> QED
      BY <2>1, <3>2 DEF Alone
  <2> QED
    BY <1>2, <2>2, <2>3, SetsUpFacts
<1>3. ASSUME NEW t \in Threads, Checks(t) PROVE Alone'
  BY <1>3, ChecksFacts DEF Alone, Busy
<1>4. ASSUME RK_wifi_cancel \/ WrongKey \/ Station PROVE Alone'
  BY <1>4, OtherFacts DEF Alone, Busy, Running
<1> QED
  BY <1>1, <1>2, <1>3, <1>4 DEF Next

LEMMA FoundStep ==
  ASSUME TypeOK, Named, patient, Alone, Found, Unique(networks), Next
  PROVE  Found'
<1>1. ASSUME NEW c \in Clients, Calls(c) PROVE Found'
  BY <1>1, CallsFacts DEF Found, Busy
<1>2. ASSUME NEW c \in Clients, SetsUp(c) PROVE Found'
  <2>1. \A d \in Clients : d # c => call'[d].pc \notin {"add", "set"}
    BY <1>2, SetsUpFacts DEF Alone, Busy
  <2>2. TypeCall /\ TypeSupplicant
    BY TypeParts
  <2>3. CASE SearchSsid(c)
    <3> DEFINE s == call[c].ssid
    <3>1. Busy(c) /\ s \in Ssids /\ UNCHANGED networks
      BY <2>3 DEF SearchSsid, Named, Busy, supplicant
    <3>2. CASE \E i \in Search(s) : call' = [call EXCEPT ![c].pc = "set", ![c].id = i]
      <4>1. PICK i \in Ids :
              networks[i] = s /\ call' = [call EXCEPT ![c].pc = "set", ![c].id = i]
        BY <3>2 DEF Search
      <4>2. call'[c].pc = "set" /\ call'[c].ssid = s /\ call'[c].id = i
        BY <2>2, <3>1, <4>1, CallToId DEF CallPc
      <4>3. \A j \in Ids : networks[j] = s => j = i
        BY <3>1, <4>1 DEF Unique
      <4> QED
        BY <2>1, <3>1, <4>2, <4>3 DEF Found
    <3>3. CASE Search(s) = {} /\ To(c, "add")
      <4>1. call'[c].pc = "add" /\ call'[c].ssid = s
        BY <2>2, <3>1, <3>3, CallTo DEF CallPc
      <4>2. Search(s)' = {}
        BY <3>1, <3>3, <4>1 DEF Search
      <4> QED
        BY <2>1, <4>1, <4>2 DEF Found, Search
    <3> QED
      BY <2>3, <3>2, <3>3 DEF SearchSsid
  <2>4. CASE AddNetwork(c)
    <3> DEFINE s == call[c].ssid
    <3>1. CASE Return(c)
      BY <2>1, <2>2, <3>1, CallReturns DEF Found
    <3>2. CASE ~Return(c)
      <4>1. PICK i \in Ids :
              /\ UNCHANGED networks \/ networks' = [networks EXCEPT ![i] = BLANK]
              /\ call' = [call EXCEPT ![c].pc = "set", ![c].id = i]
        BY <2>4, <3>2 DEF AddNetwork, Fail
      <4>2. /\ call'[c].pc = "set" /\ call'[c].ssid = s /\ call'[c].id = i
        BY <2>2, <2>4, <4>1, CallToId DEF AddNetwork, CallPc, Busy
      <4>3. \A j \in Ids : networks[j] # s
        BY <2>4 DEF AddNetwork, Found, Search
      <4>4. \A j \in Ids : j # i => networks'[j] = networks[j]
        BY <2>2, <4>1 DEF TypeSupplicant, Networks
      <4> QED
        BY <2>1, <4>2, <4>3, <4>4 DEF Found
    <3> QED
      BY <3>1, <3>2
  <2>5. CASE ~SearchSsid(c) /\ ~AddNetwork(c)
    <3>1. \/ Return(c) \/ \E pc \in CallPc \ {"add", "set"} : To(c, pc)
          \/ \E i \in Ids : call' = [call EXCEPT ![c].pc = "disable", ![c].id = i]
      BY <1>2, <2>5 DEF SetsUp, Lock, Find, Disable, SetNetwork, SelectNetwork,
         EnableNetwork, Fail, CallPc, Search
    <3>2. call'[c].pc \notin {"add", "set"}
      <4>1. CASE Return(c)
        BY <2>2, <4>1, CallReturns
      <4>2. CASE \E pc \in CallPc \ {"add", "set"} : To(c, pc)
        BY <2>2, <4>2 DEF To, TypeCall, CallRecord
      <4>3. CASE \E i \in Ids : call' = [call EXCEPT ![c].pc = "disable", ![c].id = i]
        BY <1>2, <2>2, <4>3, CallToId, SetsUpFacts DEF CallPc
      <4> QED
        BY <3>1, <4>1, <4>2, <4>3
    <3> QED
      BY <2>1, <3>2 DEF Found
  <2> QED
    BY <2>3, <2>4, <2>5
<1>3. ASSUME NEW t \in Threads, Checks(t) PROVE Found'
  BY <1>3, ChecksFacts DEF Found, Alone, Busy
<1>4. ASSUME RK_wifi_cancel \/ WrongKey \/ Station PROVE Found'
  BY <1>4, OtherFacts DEF Found, Search
<1> QED
  BY <1>1, <1>2, <1>3, <1>4 DEF Next

LEMMA UniqueStep ==
  ASSUME TypeOK, Named, patient, Found, Unique(networks), Unique(conf), Next
  PROVE  Unique(networks)' /\ Unique(conf)'
<1>1. TypeSupplicant
  BY TypeParts
<1>2. CASE UNCHANGED <<networks, conf>>
  BY <1>2 DEF Unique
<1>3. Unique(NoNetworks)
  BY NullAssumption DEF Unique, NoNetworks
<1>4. Unique(Compact(conf))
  BY <1>1, CompactKeeps DEF TypeSupplicant, Networks
<1>5. ASSUME NEW enable \in BOOLEAN, Reload(enable)
      PROVE  Unique(networks)' /\ Unique(conf)'
  BY <1>4, <1>5 DEF Reload, Unique
<1>6. ASSUME NEW i, Remove(i) PROVE Unique(networks)'
  <2>1. \A j \in Ids : networks'[j] \in Ssids => networks'[j] = networks[j]
    BY <1>1, <1>6, NullAssumption DEF Remove, TypeSupplicant, Networks
  <2> QED
    BY <2>1 DEF Unique
<1>7. ASSUME NEW n \in Networks, Unique(n),
             conf' = [j \in Ids |-> IF n[j] \in Ssids THEN n[j] ELSE NULL]
      PROVE  Unique(conf)'
  BY <1>7, NullAssumption DEF Unique
<1>8. ASSUME NEW c \in Clients, Calls(c)
      PROVE  Unique(networks)' /\ Unique(conf)'
  <2>1. CASE \E s \in Ssids : RK_wifi_forget_with_ssid(c, s)
    <3>1. PICK i \in Ids :
            /\ Remove(i)
            /\ conf' = [j \in Ids |-> IF networks'[j] \in Ssids THEN networks'[j] ELSE NULL]
      BY <2>1 DEF RK_wifi_forget_with_ssid, Search
    <3>2. networks' \in Networks /\ Unique(networks)'
      BY <1>1, <1>6, <3>1, RemoveTypes
    <3>3. Unique(networks')
      BY <3>2 DEF Unique
    <3> QED
      BY <1>7, <3>1, <3>2, <3>3
  <2>2. CASE RK_wifi_enable(c)
    BY <1>3, <1>4, <2>2 DEF RK_wifi_enable, Unique
  <2>3. CASE RK_wifi_reset(c)
    BY <1>3, <2>3 DEF RK_wifi_reset, Unique
  <2>4. CASE RK_wifi_recovery(c)
    BY <1>5, <2>4 DEF RK_wifi_recovery
  <2>5. CASE ~(\/ \E s \in Ssids : RK_wifi_forget_with_ssid(c, s)
               \/ RK_wifi_enable(c) \/ RK_wifi_reset(c) \/ RK_wifi_recovery(c))
    BY <1>2, <1>8, <2>5 DEF Calls, RK_wifi_connect, RK_wifi_connect1,
       RK_wifi_connect_with_ssid, RK_wifi_connect_with_bssid,
       RK_wifi_disconnect_network, supplicant
  <2> QED
    BY <2>1, <2>2, <2>3, <2>4, <2>5
<1>9. ASSUME NEW c \in Clients, SetsUp(c)
      PROVE  Unique(networks)' /\ Unique(conf)'
  <2>1. UNCHANGED conf
    BY <1>9 DEF SetsUp, Lock, Find, Disable, DisableAll, SearchSsid, AddNetwork,
       SetNetwork, SelectNetwork, EnableNetwork, supplicant
  <2>2. CASE AddNetwork(c)
    <3>1. \A j \in Ids : networks'[j] \in Ssids => networks'[j] = networks[j]
      BY <1>1, <2>2, NullAssumption DEF AddNetwork, TypeSupplicant, Networks
    <3> QED
      BY <2>1, <3>1 DEF Unique
  <2>3. CASE SetNetwork(c)
    <3>1. \A j \in Ids : networks[j] = call[c].ssid => j = call[c].id
      BY <2>3 DEF SetNetwork, Found
    <3>2. \/ UNCHANGED networks
          \/ networks' = [networks EXCEPT ![call[c].id] = call[c].ssid]
      BY <2>3 DEF SetNetwork
    <3> QED
      BY <1>1, <2>1, <3>1, <3>2 DEF Unique, TypeSupplicant, Networks
  <2>4. CASE ~AddNetwork(c) /\ ~SetNetwork(c)
    <3>1. UNCHANGED networks
      BY <1>9, <2>4 DEF SetsUp, Lock, Find, Disable, DisableAll, SearchSsid,
         SelectNetwork, EnableNetwork, supplicant
    <3> QED
      BY <1>2, <2>1, <3>1
  <2> QED
    BY <2>2, <2>3, <2>4
<1>10. ASSUME NEW t \in Threads, Checks(t)
       PROVE  Unique(networks)' /\ Unique(conf)'
  <2>1. CASE TakesCancel(t)
    BY <1>5, <2>1 DEF TakesCancel
  <2>2. CASE save_configuration(t)
    <3>1. UNCHANGED networks
      BY <2>2 DEF save_configuration
    <3>2. \/ UNCHANGED conf
          \/ conf' = [j \in Ids |-> IF networks[j] \in Ssids THEN networks[j] ELSE NULL]
      BY <2>2 DEF save_configuration
    <3> QED
      BY <1>1, <1>2, <1>7, <3>1, <3>2 DEF TypeSupplicant, Unique
  <2>3. CASE wifi_connectfail_process(t)
    BY <1>2, <1>6, <2>3 DEF wifi_connectfail_process, Unique
  <2>4. CASE ~TakesCancel(t) /\ ~save_configuration(t) /\ ~wifi_connectfail_process(t)
    BY <1>2, <1>10, <2>4 DEF Checks, Starts, ReadsStatus, ReadsFlags, Reports, supplicant
  <2> QED
    BY <2>1, <2>2, <2>3, <2>4
<1>11. ASSUME RK_wifi_cancel \/ WrongKey \/ Station
       PROVE  Unique(networks)' /\ Unique(conf)'
  BY <1>2, <1>11, OtherFacts
<1> QED
  BY <1>8, <1>9, <1>10, <1>11 DEF Next

LEMMA InitIInv == Init => IInv
<1> SUFFICES ASSUME Init PROVE IInv
  OBVIOUS
<1>1. \A c \in Clients : call[c].pc = "idle"
  BY DEF Init, Idle
<1>2. Unique(networks) /\ Unique(conf)
  BY NullAssumption, ConfigurationsAssumption DEF Init, NoNetworks, Unique
<1> QED
  BY <1>1, <1>2, InitTypes DEF IInv, Alone, Found, Busy, OneEntryPerNetwork

LEMMA StepIInv == IInv /\ [Next]_vars => IInv'
<1> SUFFICES ASSUME IInv, [Next]_vars PROVE IInv'
  OBVIOUS
<1>1. TypeOK' /\ Named'
  BY TypeStep DEF IInv
<1>2. CASE Next
  <2> SUFFICES ASSUME patient'
               PROVE  Alone' /\ Found' /\ Unique(networks)' /\ Unique(conf)'
    BY <1>1 DEF IInv, OneEntryPerNetwork
  <2>1. patient
    BY <1>2, PatientStays DEF IInv
  <2> QED
    BY <1>2, <2>1, AloneStep, FoundStep, UniqueStep DEF IInv, OneEntryPerNetwork
<1>3. CASE UNCHANGED vars
  BY <1>1, <1>3 DEF vars, supplicant, IInv, patient, Alone, Found, Search, Busy,
     Running, OneEntryPerNetwork, Unique
<1> QED
  BY <1>2, <1>3

(* Clients that wait for each other's connections never leave two entries  *)
(* for one network, however many clients, networks, threads and ids there  *)
(* are, and however wpa_supplicant numbers what it reads from its file.    *)
THEOREM EntriesUnique == Spec => []OneEntryPerNetwork
<1>1. IInv => OneEntryPerNetwork
  BY DEF IInv
<1> QED
  BY InitIInv, StepIInv, <1>1, PTL DEF Spec

-----------------------------------------------------------------------------
(* Single attempts.  While clients are patient, one of them or one thread  *)
(* is at work at a time, and the globals belong to it.                     *)

SettingUp(c) == call[c].pc \notin {"idle", "lock", "find"}
Has(c) ==
  \/ call[c].pc \in {"set", "select", "enable"}
  \/ call[c].pc = "disable" /\ call[c].id # NULL
Attempting(t) == check[t].pc \in {"created", "status", "flags", "connected", "failed"}
Target(t) == IF check[t].pc = "created" THEN connecting_id ELSE check[t].id

(* Only the network x may be joined.                                       *)
OnlyOne(x) == enabled \subseteq {x} /\ station \in {x, NULL}

(* The globals are those of the network that is being set up ...           *)
OwnCall(c) ==
  /\ call[c].pc = "lock" => call[c].kind = "connect" /\ call[c].id = NULL
  /\ Busy(c) => goal = call[c].ssid
  /\ SettingUp(c) => connect_info \in {goal, NULL}
  /\ Has(c) => connecting_id = call[c].id /\ call[c].id \in Ids
  /\ Has(c) /\ call[c].pc # "set" => networks[call[c].id] = call[c].ssid
  /\ call[c].pc \in {"search", "add", "set", "select"} => enabled = {} /\ station = NULL
  /\ call[c].pc = "enable" => OnlyOne(call[c].id)

(* ... and then of the one whose connection is checked.                    *)
OwnCheck(t) ==
  /\ Running(t) => goal \in Ssids /\ connect_info \in {goal, NULL}
  /\ Attempting(t) => /\ Target(t) \in Ids /\ networks[Target(t)] = goal
                      /\ OnlyOne(Target(t))
  /\ check[t].pc = "cancelled" => check[t].id \in Ids
  /\ At(t, "report", "-1") => wifi_wrong_key

OneCheck == \A t, u \in Threads : Running(t) /\ Running(u) => t = u

(* A known network is being connected to, or else the flag is not set.     *)
Existing ==
  wifi_is_exist => \/ \E c \in Clients : Busy(c) /\ call[c].kind = "ssid"
                   \/ \E t \in Threads : Running(t)

(* Only a client that sets a network up holds the lock.                    *)
LockHeld ==
  wifi_connect_lock => \E c \in Clients : SettingUp(c) /\ call[c].kind = "connect"

(* Off, wpa_supplicant knows nothing.                                      *)
NothingOff == gstate = "OFF" => networks = NoNetworks

Single ==
  /\ NothingOff /\ OneCheck /\ Existing /\ LockHeld
  /\ \A c \in Clients : OwnCall(c)
  /\ \A t \in Threads : OwnCheck(t)

(* What WifiAttempt sees.                                                  *)
Goal == IF Connecting THEN goal ELSE NULL
Name == IF Connecting THEN connect_info ELSE NULL
Kept == Connecting /\ wifi_is_exist
Denied == patient /\ \E c \in Clients : call[c].pc = "set" /\ Strange(c)
KnownNames == IF patient THEN Names(networks) ELSE {}
SavedNames == IF patient THEN Names(conf) ELSE {}
Online == IF patient /\ station # NULL THEN networks[station] ELSE NULL
Seen == patient /\ \E t \in Threads :
          check[t].pc = "connected" \/ At(t, "report", "DHCP_OK")
Asked == patient /\ wifi_cancel
Cancelled == patient /\ \E t \in Threads : check[t].pc = "cancelled"
Wrong == patient /\ wifi_wrong_key /\ Listening
View ==
  <<Goal, Name, Kept, Denied, KnownNames, SavedNames, Online, Seen, Asked, Cancelled,
    Wrong, told>>
Refines == Attempt!Next \/ UNCHANGED View

(* Who is at work.                                                         *)
AtRest == (\A c \in Clients : ~Busy(c)) /\ (\A t \in Threads : ~Running(t))
ClientWorks(c) ==
  /\ \A d \in Clients : d # c => ~Busy(d)
  /\ \A t \in Threads : ~Running(t)
CheckWorks(t) ==
  /\ Running(t)
  /\ \A u \in Threads : u # t => ~Running(u)
  /\ \A c \in Clients : ~Busy(c)

WorkersSeen ==
  /\ patient /\ AtRest => /\ Goal = NULL /\ Name = NULL
                         /\ ~Kept /\ ~Denied /\ ~Seen /\ ~Cancelled /\ ~Wrong
  /\ \A c \in Clients : patient /\ ClientWorks(c) =>
       /\ ~Seen /\ ~Cancelled
       /\ Goal = IF SettingUp(c) THEN goal ELSE NULL
       /\ Name = IF SettingUp(c) THEN connect_info ELSE NULL
       /\ Kept <=> SettingUp(c) /\ wifi_is_exist
       /\ Denied <=> call[c].pc = "set" /\ Strange(c)
       /\ Wrong <=> wifi_wrong_key /\ Listens(c)
  /\ \A t \in Threads : patient /\ CheckWorks(t) =>
       /\ Goal = goal /\ Name = connect_info /\ ~Denied
       /\ Kept <=> wifi_is_exist
       /\ Seen <=> check[t].pc = "connected" \/ At(t, "report", "DHCP_OK")
       /\ Cancelled <=> check[t].pc = "cancelled"
       /\ Wrong <=> wifi_wrong_key
SuppliedSeen ==
  /\ patient => /\ KnownNames = Names(networks) /\ SavedNames = Names(conf)
                /\ Online = IF station # NULL THEN networks[station] ELSE NULL
                /\ Asked <=> wifi_cancel
  /\ ~patient => /\ Goal = NULL /\ Name = NULL /\ ~Kept /\ ~Denied /\ ~Seen
                 /\ ~Asked /\ ~Cancelled /\ ~Wrong
                 /\ KnownNames = {} /\ SavedNames = {} /\ Online = NULL
  /\ {Kept, Denied, Seen, Asked, Cancelled, Wrong} \subseteq BOOLEAN

(* The same before a step and after it.                                    *)
LEMMA Views == WorkersSeen /\ SuppliedSeen
<1>1. SuppliedSeen
  BY DEF SuppliedSeen, Goal, Name, Kept, Denied, KnownNames, SavedNames, Online, Seen,
     Asked, Cancelled, Wrong, Connecting
<1>2. \A c \in Clients : ~Busy(c) => ~SettingUp(c) /\ ~Listens(c) /\ call[c].pc # "set"
  BY DEF Busy, SettingUp, Listens
<1>3. \A t \in Threads : /\ check[t].pc = "connected" => Running(t)
                         /\ At(t, "report", "DHCP_OK") => Running(t)
                         /\ check[t].pc = "cancelled" => Running(t)
  BY DEF Running, At
<1>4. Connecting <=> /\ patient
                     /\ \/ \E c \in Clients : SettingUp(c)
                        \/ \E t \in Threads : Running(t)
  BY DEF Connecting, SettingUp
<1>5. patient /\ AtRest => /\ Goal = NULL /\ Name = NULL
                          /\ ~Kept /\ ~Denied /\ ~Seen /\ ~Cancelled /\ ~Wrong
  BY <1>2, <1>3, <1>4 DEF AtRest, Goal, Name, Kept, Denied, Seen, Cancelled, Wrong, Listening
<1>6. ASSUME NEW c \in Clients, patient, ClientWorks(c)
      PROVE  /\ ~Seen /\ ~Cancelled
             /\ Goal = IF SettingUp(c) THEN goal ELSE NULL
             /\ Name = IF SettingUp(c) THEN connect_info ELSE NULL
             /\ Kept <=> SettingUp(c) /\ wifi_is_exist
             /\ Denied <=> call[c].pc = "set" /\ Strange(c)
             /\ Wrong <=> wifi_wrong_key /\ Listens(c)
  <2>1. Connecting <=> SettingUp(c)
    BY <1>2, <1>4, <1>6 DEF ClientWorks
  <2>2. Denied <=> call[c].pc = "set" /\ Strange(c)
    BY <1>2, <1>6 DEF ClientWorks, Denied
  <2>3. Listening <=> Listens(c)
    BY <1>2, <1>6 DEF ClientWorks, Listening
  <2> QED
    BY <1>3, <1>6, <2>1, <2>2, <2>3 DEF ClientWorks, Goal, Name, Kept, Seen, Cancelled, Wrong
<1>7. ASSUME NEW t \in Threads, patient, CheckWorks(t)
      PROVE  /\ Goal = goal /\ Name = connect_info /\ ~Denied
             /\ Kept <=> wifi_is_exist
             /\ Seen <=> check[t].pc = "connected" \/ At(t, "report", "DHCP_OK")
             /\ Cancelled <=> check[t].pc = "cancelled"
             /\ Wrong <=> wifi_wrong_key
  <2>1. Connecting /\ Listening
    BY <1>4, <1>7 DEF CheckWorks, Listening
  <2>2. ~Denied
    BY <1>2, <1>7 DEF CheckWorks, Denied
  <2> QED
    BY <1>3, <1>7, <2>1, <2>2 DEF CheckWorks, Goal, Name, Kept, Seen, Cancelled, Wrong
<1> QED
  BY <1>1, <1>5, <1>6, <1>7 DEF WorkersSeen

LEMMA ViewsAfter == (WorkersSeen /\ SuppliedSeen)'
BY Views, PTL

-----------------------------------------------------------------------------
(* The steps of WifiAttempt, as far as its variables are seen here.        *)

LEMMA Attempts ==
  ASSUME NEW s \in Ssids, Goal = NULL, Goal' = s,
         Name' = s \/ (Name' = NULL /\ s \in KnownNames), Kept' => s \in KnownNames,
         told' = [state |-> "CONNECTING", ssid |-> Name'],
         UNCHANGED <<Denied, KnownNames, SavedNames, Online, Seen, Asked,
                     Cancelled, Wrong>>
  PROVE  Refines
<1>1. Kept' \in BOOLEAN
  BY ViewsAfter DEF SuppliedSeen
<1> QED
  BY <1>1 DEF Refines, Attempt!Next, Attempt!Attempt, Attempt!Answer, Attempt!attempt,
     Attempt!excuses, Goal, Name, Kept, Denied, KnownNames, SavedNames, Online, Seen,
     Asked, Cancelled, Wrong

LEMMA Refuses ==
  ASSUME NEW s \in Ssids \cup {NULL}, Goal = NULL, ~Wrong',
         told' = [state |-> "CONNECTFAILED", ssid |-> s],
         UNCHANGED <<Goal, Name, Kept, Denied, KnownNames, SavedNames, Online,
                     Seen, Asked, Cancelled>>
  PROVE  Refines
<1>1. Wrong' = FALSE
  BY ViewsAfter DEF SuppliedSeen
<1> QED
  BY <1>1 DEF Refines, Attempt!Next, Attempt!Refuse, Attempt!Answer, Attempt!attempt,
     Attempt!excuses, Goal, Name, Kept, Denied, KnownNames, SavedNames, Online, Seen,
     Asked, Cancelled, Wrong

LEMMA Ignores ==
  ASSUME Goal = NULL, ~Wrong',
         UNCHANGED <<Goal, Name, Kept, Denied, KnownNames, SavedNames, Online,
                     Seen, Asked, Cancelled, told>>
  PROVE  Refines
<1>1. Wrong' = FALSE
  BY ViewsAfter DEF SuppliedSeen
<1> QED
  BY <1>1 DEF Refines, Attempt!Next, Attempt!Ignore, Attempt!attempt, Attempt!excuses,
     Goal, Name, Kept, Denied, KnownNames, SavedNames, Online, Seen, Asked, Cancelled,
     Wrong

LEMMA Learns ==
  ASSUME Goal # NULL, KnownNames' = KnownNames \cup {Goal},
         UNCHANGED <<Goal, Name, Kept, Denied, SavedNames, Online, Seen, Asked,
                     Cancelled, Wrong, told>>
  PROVE  Refines
BY DEF Refines, Attempt!Next, Attempt!Learn, Attempt!attempt, Attempt!excuses, Goal,
   Name, Kept, Denied, KnownNames, SavedNames, Online, Seen, Asked, Cancelled, Wrong

LEMMA Denies ==
  ASSUME Goal \notin KnownNames \cup {NULL}, ~Seen, Denied',
         UNCHANGED <<Goal, Name, Kept, KnownNames, SavedNames, Online, Seen,
                     Asked, Cancelled, Wrong, told>>
  PROVE  Refines
<1>1. Denied' = TRUE
  BY ViewsAfter DEF SuppliedSeen
<1> QED
  BY <1>1 DEF Refines, Attempt!Next, Attempt!Deny, Attempt!attempt, Attempt!excuses,
     Goal, Name, Kept, Denied, KnownNames, SavedNames, Online, Seen, Asked, Cancelled,
     Wrong

LEMMA Overwrites ==
  ASSUME NEW s \in Ssids, Denied, ~Denied',
         KnownNames' = (KnownNames \ {s}) \cup {Goal},
         UNCHANGED <<Goal, Name, Kept, SavedNames, Online, Seen, Asked, Cancelled,
                     Wrong, told>>
  PROVE  Refines
<1>1. Denied' = FALSE
  BY ViewsAfter DEF SuppliedSeen
<1> QED
  BY <1>1 DEF Refines, Attempt!Next, Attempt!Overwrite, Attempt!attempt,
     Attempt!excuses, Goal, Name, Kept, Denied, KnownNames, SavedNames, Online, Seen,
     Asked, Cancelled, Wrong

LEMMA Drops ==
  ASSUME NEW s \in Ssids, Goal # NULL, ~Seen, s = Goal \/ Cancelled,
         KnownNames' = KnownNames \/ (~Kept /\ KnownNames' = KnownNames \ {s}),
         ~Cancelled', Online' \in {Online, NULL},
         UNCHANGED <<Goal, Name, Kept, Denied, SavedNames, Seen, Asked, Wrong,
                     told>>
  PROVE  Refines
<1>1. Cancelled' = FALSE
  BY ViewsAfter DEF SuppliedSeen
<1> QED
  BY <1>1 DEF Refines, Attempt!Next, Attempt!Drop, Attempt!attempt, Attempt!excuses,
     Goal, Name, Kept, Denied, KnownNames, SavedNames, Online, Seen, Asked, Cancelled,
     Wrong

LEMMA Sees ==
  ASSUME Goal # NULL, Online = Goal, Seen',
         UNCHANGED <<Goal, Name, Kept, Denied, KnownNames, SavedNames, Online,
                     Asked, Cancelled, Wrong, told>>
  PROVE  Refines
<1>1. Seen' = TRUE
  BY ViewsAfter DEF SuppliedSeen
<1> QED
  BY <1>1 DEF Refines, Attempt!Next, Attempt!See, Attempt!attempt, Attempt!excuses,
     Goal, Name, Kept, Denied, KnownNames, SavedNames, Online, Seen, Asked, Cancelled,
     Wrong

LEMMA Asks ==
  ASSUME Goal # NULL, Asked',
         UNCHANGED <<Goal, Name, Kept, Denied, KnownNames, SavedNames, Online,
                     Seen, Cancelled, Wrong, told>>
  PROVE  Refines
<1>1. Asked' = TRUE
  BY ViewsAfter DEF SuppliedSeen
<1> QED
  BY <1>1 DEF Refines, Attempt!Next, Attempt!Ask, Attempt!attempt, Attempt!excuses,
     Goal, Name, Kept, Denied, KnownNames, SavedNames, Online, Seen, Asked, Cancelled,
     Wrong

LEMMA Cancels ==
  ASSUME Goal # NULL, ~Seen, Asked, ~Asked', Cancelled', KnownNames' = SavedNames,
         Online' = NULL,
         UNCHANGED <<Goal, Name, Kept, Denied, SavedNames, Seen, Wrong, told>>
  PROVE  Refines
<1>1. Asked' = FALSE /\ Cancelled' = TRUE
  BY ViewsAfter DEF SuppliedSeen
<1> QED
  BY <1>1 DEF Refines, Attempt!Next, Attempt!Cancel, Attempt!attempt, Attempt!excuses,
     Goal, Name, Kept, Denied, KnownNames, SavedNames, Online, Seen, Asked, Cancelled,
     Wrong

LEMMA Saves ==
  ASSUME Seen, SavedNames' = KnownNames,
         UNCHANGED <<Goal, Name, Kept, Denied, KnownNames, Online, Seen, Asked,
                     Cancelled, Wrong, told>>
  PROVE  Refines
BY DEF Refines, Attempt!Next, Attempt!Save, Attempt!attempt, Attempt!excuses, Goal,
   Name, Kept, Denied, KnownNames, SavedNames, Online, Seen, Asked, Cancelled, Wrong

LEMMA Ends ==
  ASSUME Goal' = NULL, Name' = NULL, ~Kept', ~Denied', ~Seen', ~Wrong',
         \/ Seen /\ told' = [state |-> "DHCP_OK", ssid |-> NULL]
         \/ /\ Goal # NULL /\ ~Seen /\ ~Cancelled
            /\ \/ told' = [state |-> "CONNECTFAILED", ssid |-> Name]
               \/ Wrong /\ (UNCHANGED told \/ told' = [state |-> "-1", ssid |-> NULL]),
         UNCHANGED <<KnownNames, SavedNames, Online, Asked, Cancelled>>
  PROVE  Refines
<1>1. Kept' = FALSE /\ Denied' = FALSE /\ Seen' = FALSE /\ Wrong' = FALSE
  BY ViewsAfter DEF SuppliedSeen
<1> QED
  BY <1>1 DEF Refines, Attempt!Next, Attempt!Succeed, Attempt!Fail, Attempt!End,
     Attempt!Answer, Attempt!attempt, Attempt!excuses, Goal, Name, Kept, Denied,
     KnownNames, SavedNames, Online, Seen, Asked, Cancelled, Wrong

LEMMA Accuses ==
  ASSUME Wrong => Wrong', told' = [state |-> "WRONG_KEY", ssid |-> NULL],
         UNCHANGED <<Goal, Name, Kept, Denied, KnownNames, SavedNames, Online,
                     Seen, Asked, Cancelled>>
  PROVE  Refines
<1>1. (Wrong' = TRUE \/ Wrong' = FALSE) /\ (Wrong = TRUE \/ Wrong = FALSE)
  BY Views, ViewsAfter DEF SuppliedSeen
<1>2. Wrong' \in {Wrong, TRUE}
  BY <1>1
<1> QED
  BY <1>2 DEF Refines, Attempt!Next, Attempt!WrongKey, Attempt!Answer,
     Attempt!attempt, Attempt!excuses, Goal, Name, Kept, Denied, KnownNames,
     SavedNames, Online, Seen, Asked, Cancelled, Wrong

LEMMA Forgets ==
  ASSUME NEW s \in Ssids, Goal = NULL, KnownNames' = KnownNames \ {s},
         SavedNames' = KnownNames', Online' \in {Online, NULL},
         UNCHANGED <<Goal, Name, Kept, Denied, Seen, Asked, Cancelled, Wrong,
                     told>>
  PROVE  Refines
BY DEF Refines, Attempt!Next, Attempt!Forget, Attempt!attempt, Attempt!excuses, Goal,
   Name, Kept, Denied, KnownNames, SavedNames, Online, Seen, Asked, Cancelled, Wrong

LEMMA Switches ==
  ASSUME Goal = NULL, Online' = NULL,
         \/ KnownNames' \in {{}, SavedNames} /\ SavedNames' = SavedNames
         \/ KnownNames' = {} /\ SavedNames' = {},
         UNCHANGED <<Goal, Name, Kept, Denied, Seen, Asked, Cancelled, Wrong,
                     told>>
  PROVE  Refines
BY DEF Refines, Attempt!Next, Attempt!Switch, Attempt!attempt, Attempt!excuses, Goal,
   Name, Kept, Denied, KnownNames, SavedNames, Online, Seen, Asked, Cancelled, Wrong

LEMMA Roams ==
  ASSUME Online' \in KnownNames \cup {NULL},
         UNCHANGED <<Goal, Name, Kept, Denied, KnownNames, SavedNames, Seen,
                     Asked, Cancelled, Wrong, told>>
  PROVE  Refines
BY DEF Refines, Attempt!Next, Attempt!Roam, Attempt!attempt, Attempt!excuses, Goal,
   Name, Kept, Denied, KnownNames, SavedNames, Online, Seen, Asked, Cancelled, Wrong

-----------------------------------------------------------------------------
(* The names of the networks.                                              *)

(* What names there are, apart from that of one network.                   *)
LEMMA NamesApart ==
  ASSUME NEW n, NEW i \in Ids
  PROVE  \A s : s \in Names(n) <=>
           s \in Ssids /\ (s = n[i] \/ \E j \in Ids : j # i /\ n[j] = s)
BY DEF Names

LEMMA NamesAdd ==
  ASSUME NEW n \in Networks, NEW m \in Networks, NEW i \in Ids,
         \A j \in Ids : j # i => m[j] = n[j],
         n[i] \notin Ssids, m[i] \in Ssids
  PROVE  Names(m) = Names(n) \cup {m[i]}
<1>1. \A s : s \in Names(m) <=>
         s \in Ssids /\ (s = m[i] \/ \E j \in Ids : j # i /\ n[j] = s)
  BY NamesApart
<1>2. \A s : s \in Names(m) <=> s \in Names(n) \/ s = m[i]
  BY <1>1, NamesApart
<1> QED
  BY <1>2

LEMMA NamesRemove ==
  ASSUME NEW n \in Networks, NEW m \in Networks, NEW i \in Ids,
         \A j \in Ids : j # i => m[j] = n[j],
         Unique(n), n[i] \in Ssids, m[i] \notin Ssids
  PROVE  Names(m) = Names(n) \ {n[i]}
<1>1. \A s : s \in Names(m) <=>
         s \in Ssids /\ (s = m[i] \/ \E j \in Ids : j # i /\ n[j] = s)
  BY NamesApart
<1>2. \A j \in Ids : n[j] = n[i] => j = i
  BY DEF Unique
<1>3. \A s : s \in Names(m) <=> s \in Names(n) /\ s # n[i]
  BY <1>1, <1>2, NamesApart
<1> QED
  BY <1>3

LEMMA NamesReplace ==
  ASSUME NEW n \in Networks, NEW m \in Networks, NEW i \in Ids,
         \A j \in Ids : j # i => m[j] = n[j],
         Unique(n), n[i] \in Ssids, m[i] \in Ssids
  PROVE  Names(m) = (Names(n) \ {n[i]}) \cup {m[i]}
<1>1. \A s : s \in Names(m) <=>
         s \in Ssids /\ (s = m[i] \/ \E j \in Ids : j # i /\ n[j] = s)
  BY NamesApart
<1>2. \A j \in Ids : n[j] = n[i] => j = i
  BY DEF Unique
<1>3. \A s : s \in Names(m) <=> (s \in Names(n) /\ s # n[i]) \/ s = m[i]
  BY <1>1, <1>2, NamesApart
<1> QED
  BY <1>3

LEMMA NamesKeep ==
  ASSUME NEW n \in Networks, NEW m \in Networks, NEW i \in Ids,
         \A j \in Ids : j # i => m[j] = n[j],
         n[i] \notin Ssids, m[i] \notin Ssids
  PROVE  Names(m) = Names(n)
<1>1. \A s : s \in Names(m) <=>
         s \in Ssids /\ (s = m[i] \/ \E j \in Ids : j # i /\ n[j] = s)
  BY NamesApart
<1>2. \A s : s \in Names(m) <=> s \in Names(n)
  BY <1>1, NamesApart
<1> QED
  BY <1>2

LEMMA NamesSet ==
  ASSUME NEW n \in Networks, NEW i \in Ids, NEW v \in Ssids \cup {BLANK, NULL},
         NEW m, m = [n EXCEPT ![i] = v]
  PROVE  /\ n[i] \notin Ssids /\ v \notin Ssids => Names(m) = Names(n)
         /\ n[i] = v => Names(m) = Names(n)
         /\ Unique(n) /\ n[i] \in Ssids /\ v \notin Ssids => Names(m) = Names(n) \ {n[i]}
<1>1. m \in Networks /\ m[i] = v /\ \A j \in Ids : j # i => m[j] = n[j]
  BY DEF Networks
<1>2. ASSUME NEW k \in Networks, k[i] = v, \A j \in Ids : j # i => k[j] = n[j]
      PROVE  /\ n[i] \notin Ssids /\ v \notin Ssids => Names(k) = Names(n)
             /\ Unique(n) /\ n[i] \in Ssids /\ v \notin Ssids =>
                  Names(k) = Names(n) \ {n[i]}
  BY <1>2, NamesKeep, NamesRemove
<1>3. n[i] = v => m = n
  BY DEF Networks
<1> QED
  BY <1>1, <1>2, <1>3

LEMMA NamesSaved ==
  ASSUME NEW n \in Networks
  PROVE  Names([j \in Ids |-> IF n[j] \in Ssids THEN n[j] ELSE NULL]) = Names(n)
<1> DEFINE m == [j \in Ids |-> IF n[j] \in Ssids THEN n[j] ELSE NULL]
<1>1. \A s : s \in Names(n) <=> s \in Ssids /\ \E j \in Ids : n[j] = s
  BY DEF Names
<1>2. \A s : s \in Names(m) <=> s \in Ssids /\ \E j \in Ids : m[j] = s
  BY DEF Names
<1>3. \A j \in Ids : m[j] = IF n[j] \in Ssids THEN n[j] ELSE NULL
  OBVIOUS
<1> HIDE DEF m
<1>4. Names(m) = Names(n)
  BY <1>1, <1>2, <1>3, NullAssumption
<1> QED
  BY <1>4 DEF m

LEMMA NamesNone == Names(NoNetworks) = {}
BY NullAssumption DEF Names, NoNetworks

(* Counting the networks anew loses none: each used id has a rank of its   *)
(* own.                                                                    *)
LEMMA NamesCompact ==
  ASSUME NEW n \in Networks
  PROVE  Names(Compact(n)) = Names(n)
<1> DEFINE Below(j) == {k \in Used(n) : k < j}
           Rank(j) == Cardinality(Below(j))
<1>1. \A j \in Ids : IsFiniteSet(Below(j)) /\ Rank(j) \in Nat /\ Rank(j) <= j
  <2> SUFFICES ASSUME NEW j \in Ids
               PROVE  IsFiniteSet(Below(j)) /\ Rank(j) \in Nat /\ Rank(j) <= j
    OBVIOUS
  <2>1. j \in Nat /\ Below(j) \subseteq 0..(j - 1)
    BY BoundsAssumption DEF Ids, Used
  <2>2. IsFiniteSet(0..(j - 1)) /\ Cardinality(0..(j - 1)) = j
    <3>1. IsFiniteSet(0..(j - 1))
          /\ Cardinality(0..(j - 1)) = IF 0 > j - 1 THEN 0 ELSE (j - 1) - 0 + 1
      BY <2>1, FS_Interval
    <3> QED
      BY <2>1, <3>1
  <2> HIDE DEF Below
  <2>3. IsFiniteSet(Below(j)) /\ Rank(j) <= j
    BY <2>1, <2>2, FS_Subset
  <2> QED
    BY <2>3, FS_CardinalityType
<1>2. \A j, k \in Used(n) : j < k => Rank(j) # Rank(k)
  <2> SUFFICES ASSUME NEW j \in Used(n), NEW k \in Used(n), j < k, Rank(j) = Rank(k)
               PROVE  FALSE
    OBVIOUS
  <2>1. j \in Ids /\ k \in Ids /\ j \in Nat /\ k \in Nat
    BY BoundsAssumption DEF Used, Ids
  <2>2. Below(j) \subseteq Below(k) /\ j \in Below(k) /\ j \notin Below(j)
    BY <2>1 DEF Used, Ids
  <2>3. IsFiniteSet(Below(k))
    BY <1>1, <2>1
  <2> HIDE DEF Below
  <2> QED
    BY <2>2, <2>3, FS_Subset
<1> HIDE DEF Below
<1>3. \A j \in Ids, i \in Ids : Takes(n, j, i) <=> j \in Used(n) /\ Rank(j) = i
  BY DEF Takes, Used, Below
<1>4. \A j \in Used(n) : j \in Ids /\ Rank(j) \in Ids
  BY <1>1, BoundsAssumption DEF Used, Ids
<1>5. \A j, k \in Used(n) : Rank(j) = Rank(k) => j = k
  BY <1>2, BoundsAssumption DEF Used, Ids
<1> HIDE DEF Rank
<1>6. ASSUME NEW j \in Used(n) PROVE Compact(n)[Rank(j)] = n[j]
  <2>1. \A k \in Ids : Takes(n, k, Rank(j)) <=> k = j
    BY <1>3, <1>4, <1>5
  <2>2. (CHOOSE k \in Ids : Takes(n, k, Rank(j))) = j
    BY <1>4, <2>1
  <2> QED
    BY <1>4, <2>1, <2>2 DEF Compact
<1>7. ASSUME NEW i \in Ids, Compact(n)[i] # NULL PROVE \E j \in Ids : Compact(n)[i] = n[j]
  BY <1>7 DEF Compact
<1>8. \A s \in Ssids : (\E i \in Ids : Compact(n)[i] = s) <=> \E j \in Ids : n[j] = s
  <2>1. \A s \in Ssids, j \in Ids : n[j] = s => j \in Used(n)
    BY NullAssumption DEF Used
  <2> QED
    BY <1>4, <1>6, <1>7, <2>1, NullAssumption
<1> QED
  BY <1>8 DEF Names

-----------------------------------------------------------------------------
(* Each step of a client or a thread that is alone keeps Single and is a   *)
(* step of WifiAttempt, or none.                                           *)

LEMMA SingleClient ==
  ASSUME NEW c \in Clients, ClientWorks(c)', OwnCall(c)', NothingOff', LockHeld',
         wifi_is_exist' => Busy(c)' /\ call'[c].kind = "ssid"
  PROVE  Single'
<1>1. \A d \in Clients : d # c => OwnCall(d)'
  BY DEF ClientWorks, Busy, OwnCall, SettingUp, Has
<1>2. \A t \in Threads : OwnCheck(t)'
  BY DEF ClientWorks, Running, OwnCheck, Attempting, At
<1>3. OneCheck' /\ Existing'
  BY DEF ClientWorks, OneCheck, Existing
<1> QED
  BY <1>1, <1>2, <1>3 DEF Single

LEMMA SingleCheck ==
  ASSUME NEW t \in Threads, CheckWorks(t)', OwnCheck(t)', NothingOff', LockHeld'
  PROVE  Single'
<1>1. \A c \in Clients : OwnCall(c)'
  BY DEF CheckWorks, Busy, OwnCall, SettingUp, Has
<1>2. \A u \in Threads : u # t => OwnCheck(u)'
  BY DEF CheckWorks, Running, OwnCheck, Attempting, At
<1>3. OneCheck' /\ Existing'
  BY DEF CheckWorks, OneCheck, Existing
<1> QED
  BY <1>1, <1>2, <1>3 DEF Single

LEMMA SingleRest ==
  ASSUME AtRest', NothingOff', ~wifi_is_exist', LockHeld'
  PROVE  Single'
<1>1. \A c \in Clients : OwnCall(c)'
  BY DEF AtRest, Busy, OwnCall, SettingUp, Has
<1>2. \A u \in Threads : OwnCheck(u)'
  BY DEF AtRest, Running, OwnCheck, Attempting, At
<1>3. OneCheck' /\ Existing'
  BY DEF AtRest, OneCheck, Existing
<1> QED
  BY <1>1, <1>2, <1>3 DEF Single

(* Who holds the lock, in a step that does not take it.                    *)
LEMMA LockRest ==
  ASSUME LockHeld, \A c \in Clients : ~SettingUp(c), UNCHANGED wifi_connect_lock
  PROVE  LockHeld'
BY DEF LockHeld

LEMMA LockClient ==
  ASSUME LockHeld, NEW c \in Clients, ClientWorks(c), SettingUp(c)',
         call'[c].kind = call[c].kind, UNCHANGED wifi_connect_lock
  PROVE  LockHeld'
<1>1. wifi_connect_lock => call[c].kind = "connect"
  BY DEF LockHeld, ClientWorks, SettingUp, Busy
<1> QED
  BY <1>1 DEF LockHeld

LEMMA LockReturned ==
  ASSUME LockHeld, NEW c \in Clients, ClientWorks(c),
         wifi_connect_lock' = IF Locks(c) THEN FALSE ELSE wifi_connect_lock
  PROVE  LockHeld'
<1>1. wifi_connect_lock => call[c].kind = "connect"
  BY DEF LockHeld, ClientWorks, SettingUp, Busy
<1> QED
  BY <1>1 DEF LockHeld, Locks

(* What is not touched is seen as before.                                  *)
LEMMA Untouched ==
  ASSUME patient, patient'
  PROVE  /\ UNCHANGED networks => UNCHANGED KnownNames
         /\ UNCHANGED conf => UNCHANGED SavedNames
         /\ UNCHANGED <<networks, station>> => UNCHANGED Online
         /\ UNCHANGED wifi_cancel => UNCHANGED Asked
         /\ station' = NULL => Online' = NULL
BY DEF KnownNames, SavedNames, Online, Asked

LEMMA Seeing == WorkersSeen /\ SuppliedSeen /\ WorkersSeen' /\ SuppliedSeen'
BY Views, ViewsAfter

(* A client that begins a call.                                            *)
LEMMA Begins ==
  ASSUME TypeCall, Named, patient, AtRest, NEW c \in Clients, NEW s \in Ssids,
         NEW pc \in {"lock", "disable", "find"},
         NEW kind \in {"connect", "connect1", "ssid", "bssid"},
         Begin(c, pc, kind, s), UNCHANGED check
  PROVE  /\ ClientWorks(c)' /\ Busy(c)' /\ goal' = s
         /\ call'[c].pc = pc /\ call'[c].kind = kind
         /\ call'[c].ssid = s /\ call'[c].id = NULL
<1>1. goal' = s
  BY DEF Begin
<1> QED
  BY <1>1, CallBegins DEF AtRest, ClientWorks, Busy, Running

LEMMA RestSingle ==
  ASSUME Single, AtRest
  PROVE  ~wifi_is_exist /\ LockHeld /\ \A c \in Clients : ~SettingUp(c)
BY DEF Single, AtRest, Existing, SettingUp, Busy

(* At rest nothing of an attempt is seen.                                  *)
LEMMA RestSeen ==
  ASSUME patient, AtRest
  PROVE  Goal = NULL /\ Name = NULL /\ ~Kept /\ ~Denied /\ ~Seen /\ ~Cancelled /\ ~Wrong
BY Seeing DEF WorkersSeen

LEMMA RestSeenAfter ==
  ASSUME patient', AtRest'
  PROVE  /\ Goal' = NULL /\ Name' = NULL
         /\ ~Kept' /\ ~Denied' /\ ~Seen' /\ ~Cancelled' /\ ~Wrong'
BY Seeing DEF WorkersSeen

LEMMA CallsBegin ==
  ASSUME TypeOK, Named, patient, patient', Single, AtRest, NEW c \in Clients,
         NEW s \in Ssids,
         \/ RK_wifi_connect(c, s) \/ RK_wifi_connect1(c, s)
         \/ RK_wifi_connect_with_ssid(c, s) \/ RK_wifi_connect_with_bssid(c, s)
  PROVE  Single' /\ Refines
<1>0. TypeCall /\ ~wifi_is_exist /\ LockHeld /\ \A d \in Clients : ~SettingUp(d)
  BY TypeParts, RestSingle
<1>1. Goal = NULL /\ Name = NULL /\ ~Kept /\ ~Denied /\ ~Seen /\ ~Cancelled /\ ~Wrong
  BY RestSeen
<1>2. ASSUME NEW pc \in {"lock", "find"},
             NEW kind \in {"connect", "ssid", "bssid"}, pc = "lock" => kind = "connect",
             Begin(c, pc, kind, s), wifi_is_exist' => kind = "ssid",
             pc = "find" => ~wifi_wrong_key',
             UNCHANGED <<wifi_cancel, wifi_connect_lock, check, told, supplicant, gstate>>
      PROVE  Single' /\ Refines
  <2>1. /\ ClientWorks(c)' /\ Busy(c)' /\ call'[c].pc = pc /\ goal' = s
        /\ call'[c].kind = kind /\ call'[c].id = NULL /\ call'[c].ssid = s
    BY <1>0, <1>2, Begins
  <2>2. LockHeld'
    BY <1>0, <1>2, LockRest
  <2>3. Single'
    BY <1>2, <2>1, <2>2, SingleClient
       DEF OwnCall, SettingUp, Has, supplicant, Single, NothingOff
  <2>4. /\ Goal' = NULL /\ Name' = NULL
        /\ ~Kept' /\ ~Denied' /\ ~Seen' /\ ~Cancelled' /\ ~Wrong'
    BY <1>2, <2>1, Seeing DEF WorkersSeen, SettingUp, Listens
  <2>5. UNCHANGED View
    BY <1>1, <1>2, <2>4, Untouched, Seeing DEF View, supplicant, SuppliedSeen
  <2> QED
    BY <2>3, <2>5 DEF Refines
<1>3. CASE RK_wifi_connect(c, s)
  BY <1>0, <1>2, <1>3 DEF RK_wifi_connect, flags
<1>4. CASE RK_wifi_connect_with_ssid(c, s)
  BY <1>2, <1>4 DEF RK_wifi_connect_with_ssid
<1>5. CASE RK_wifi_connect_with_bssid(c, s)
  BY <1>0, <1>2, <1>5 DEF RK_wifi_connect_with_bssid
<1>6. CASE RK_wifi_connect1(c, s)
  <2>1. /\ Begin(c, "disable", "connect1", s)
        /\ connect_info' = s /\ told' = [state |-> "CONNECTING", ssid |-> s]
        /\ UNCHANGED <<flags, check, supplicant, gstate>>
    BY <1>6 DEF RK_wifi_connect1, save_connect_info, wifi_state_send
  <2>2. /\ ClientWorks(c)' /\ Busy(c)' /\ call'[c].pc = "disable" /\ goal' = s
        /\ call'[c].ssid = s /\ call'[c].id = NULL
    BY <1>0, <2>1, Begins
  <2>3. LockHeld'
    BY <1>0, <2>1, LockRest DEF flags
  <2>4. Single'
    BY <1>0, <2>1, <2>2, <2>3, SingleClient
       DEF OwnCall, SettingUp, Has, flags, supplicant, Single, NothingOff
  <2>5. /\ Goal' = s /\ Name' = s
        /\ ~Kept' /\ ~Denied' /\ ~Seen' /\ ~Cancelled' /\ ~Wrong'
    BY <1>0, <2>1, <2>2, Seeing DEF WorkersSeen, SettingUp, Listens, flags
  <2>6. UNCHANGED <<Denied, KnownNames, SavedNames, Online, Seen, Asked, Cancelled, Wrong>>
    BY <1>1, <2>1, <2>5, Untouched, Seeing DEF flags, supplicant, SuppliedSeen
  <2> QED
    BY <1>1, <2>1, <2>4, <2>5, <2>6, Attempts
<1> QED
  BY <1>3, <1>4, <1>5, <1>6

LEMMA CallsOther ==
  ASSUME TypeOK, patient, patient', Single, AtRest, Unique(networks), NEW c \in Clients,
         \/ \E s \in Ssids : RK_wifi_forget_with_ssid(c, s)
         \/ RK_wifi_disconnect_network(c) \/ RK_wifi_enable(c)
         \/ RK_wifi_reset(c) \/ RK_wifi_recovery(c)
  PROVE  Single' /\ Refines
<1>0. TypeSupplicant /\ ~wifi_is_exist /\ LockHeld /\ \A d \in Clients : ~SettingUp(d)
  BY TypeParts, RestSingle
<1>1. UNCHANGED <<call, check, told, wifi_is_exist, wifi_cancel, wifi_connect_lock>>
  BY DEF RK_wifi_forget_with_ssid, RK_wifi_disconnect_network, RK_wifi_enable,
     RK_wifi_reset, RK_wifi_recovery, flags
<1>2. AtRest'
  BY <1>1 DEF AtRest, Busy, Running
<1>3. Goal = NULL
  BY RestSeen
<1>4. UNCHANGED <<Goal, Name, Kept, Denied, Seen, Asked, Cancelled, Wrong, told>>
  BY <1>1, <1>2, RestSeen, RestSeenAfter, Untouched, Seeing DEF SuppliedSeen
<1>5. NothingOff' => Single'
  <2>1. LockHeld'
    BY <1>0, <1>1, LockRest
  <2> QED
    BY <1>0, <1>1, <1>2, <2>1, SingleRest
<1>6. NothingOff
  BY DEF Single
<1>7. Names(Compact(conf)) = Names(conf) /\ Names(NoNetworks) = {}
  <2>1. conf \in Networks
    BY <1>0 DEF TypeSupplicant, Networks
  <2> QED
    BY <2>1, NamesCompact, NamesNone
<1>8. CASE \E s \in Ssids : RK_wifi_forget_with_ssid(c, s)
  <2>1. PICK s \in Ssids, i \in Ids :
          /\ networks[i] = s /\ Remove(i) /\ UNCHANGED gstate
          /\ conf' = [j \in Ids |-> IF networks'[j] \in Ssids THEN networks'[j] ELSE NULL]
    BY <1>8 DEF RK_wifi_forget_with_ssid, Search
  <2>2. /\ networks' = [networks EXCEPT ![i] = NULL]
        /\ station' = IF station = i THEN NULL ELSE station
    BY <2>1 DEF Remove, Leave
  <2>3. networks \in Networks /\ networks' \in Networks
    BY <1>0, <2>1, RemoveTypes DEF TypeSupplicant
  <2>4. Names(networks') = Names(networks) \ {s}
    BY <2>1, <2>2, <2>3, NamesSet, NullAssumption
  <2>5. Names(conf') = Names(networks')
    BY <2>1, <2>3, NamesSaved
  <2>6. /\ KnownNames' = KnownNames \ {s} /\ SavedNames' = KnownNames'
    BY <2>4, <2>5 DEF KnownNames, SavedNames, Names
  <2>7. Online' \in {Online, NULL}
    BY <1>0, <2>2, <2>3 DEF Online, Networks, TypeSupplicant
  <2>8. NothingOff'
    BY <1>6, <2>1, <2>2, NullAssumption DEF NothingOff, NoNetworks
  <2> QED
    BY <1>3, <1>4, <1>5, <2>6, <2>7, <2>8, Forgets
<1>9. CASE RK_wifi_disconnect_network(c)
  <2>1. station' = NULL /\ UNCHANGED <<networks, conf, gstate>>
    BY <1>9 DEF RK_wifi_disconnect_network, Leave
  <2>2. Online' \in KnownNames \cup {NULL} /\ UNCHANGED <<KnownNames, SavedNames>>
    BY <2>1, Untouched
  <2> QED
    BY <1>4, <1>5, <1>6, <2>1, <2>2, Roams DEF NothingOff
<1>10. CASE RK_wifi_enable(c)
  <2>1. /\ gstate' = IF gstate = "OPEN" THEN "OFF" ELSE "OPEN"
        /\ networks' = IF gstate' = "OPEN" THEN Compact(conf) ELSE NoNetworks
        /\ station' = NULL /\ conf' = conf
    BY <1>10 DEF RK_wifi_enable
  <2>2. KnownNames' \in {{}, SavedNames} /\ SavedNames' = SavedNames
    <3>1. Names(networks)' = Names(networks')
      BY DEF Names
    <3>2. KnownNames' = Names(networks') /\ SavedNames = Names(conf)
      BY <3>1, Seeing DEF SuppliedSeen
    <3> QED
      BY <1>7, <2>1, <3>2, Untouched
  <2>3. NothingOff' /\ Online' = NULL
    BY <2>1, Untouched DEF NothingOff
  <2> QED
    BY <1>3, <1>4, <1>5, <2>2, <2>3, Switches
<1>11. CASE RK_wifi_reset(c)
  <2>1. /\ networks' = NoNetworks /\ conf' = NoNetworks /\ station' = NULL
    BY <1>11 DEF RK_wifi_reset, Leave
  <2>2. KnownNames' = {} /\ SavedNames' = {}
    BY <1>7, <2>1 DEF KnownNames, SavedNames, Names
  <2>3. NothingOff' /\ Online' = NULL
    BY <2>1, Untouched DEF NothingOff
  <2> QED
    BY <1>3, <1>4, <1>5, <2>2, <2>3, Switches
<1>12. CASE RK_wifi_recovery(c)
  <2>1. /\ gstate = "OPEN" /\ gstate' = gstate
        /\ networks' = Compact(conf) /\ station' = NULL /\ conf' = conf
    BY <1>12 DEF RK_wifi_recovery, Reload, Leave
  <2>2. KnownNames' = SavedNames /\ SavedNames' = SavedNames
    <3>1. Names(networks)' = Names(networks')
      BY DEF Names
    <3> QED
      BY <1>7, <2>1, <3>1, Untouched, Seeing DEF SuppliedSeen
  <2>3. NothingOff' /\ Online' = NULL
    BY <2>1, Untouched DEF NothingOff
  <2> QED
    BY <1>3, <1>4, <1>5, <2>2, <2>3, Switches
<1> QED
  BY <1>8, <1>9, <1>10, <1>11, <1>12

LEMMA CallsSingle ==
  ASSUME IInv, patient, patient', Single, NEW c \in Clients, Calls(c)
  PROVE  Single' /\ Refines
<1>1. AtRest
  <2>1. Free(c)
    BY DEF Calls, RK_wifi_connect, RK_wifi_connect1, RK_wifi_connect_with_ssid,
       Begin, RK_wifi_connect_with_bssid, RK_wifi_forget_with_ssid, Makes,
       RK_wifi_disconnect_network, RK_wifi_enable, RK_wifi_reset, RK_wifi_recovery
  <2> QED
    BY <2>1 DEF Free, Quiet, AtRest, Busy, Idle
<1>2. TypeOK /\ Named /\ Unique(networks)
  BY DEF IInv, OneEntryPerNetwork
<1> QED
  BY <1>1, <1>2, CallsBegin, CallsOther DEF Calls

(* While a client is at it, its network is the goal.                       *)
LEMMA ClientGoal ==
  ASSUME Named, patient, Single, NEW c \in Clients, ClientWorks(c), SettingUp(c)
  PROVE  /\ Goal = goal /\ goal = call[c].ssid /\ goal \in Ssids /\ goal # NULL
         /\ Name = connect_info /\ ~Seen /\ ~Cancelled /\ Busy(c) /\ OwnCall(c)
         /\ Denied <=> call[c].pc = "set" /\ Strange(c)
         /\ wifi_is_exist => call[c].kind = "ssid"
<1>1. /\ Goal = goal /\ Name = connect_info /\ ~Seen /\ ~Cancelled
      /\ Denied <=> call[c].pc = "set" /\ Strange(c)
  BY Seeing DEF WorkersSeen
<1>2. Busy(c) /\ OwnCall(c) /\ goal = call[c].ssid
  BY DEF Single, OwnCall, SettingUp, Busy
<1>3. call[c].ssid \in Ssids
  BY <1>2 DEF Named
<1>4. wifi_is_exist => call[c].kind = "ssid"
  BY DEF Single, Existing, ClientWorks
<1> QED
  BY <1>1, <1>2, <1>3, <1>4, NullAssumption

LEMMA GoalKept ==
  ASSUME patient, patient', NEW c \in Clients, ClientWorks(c), ClientWorks(c)',
         SettingUp(c), SettingUp(c)', Listens(c), Listens(c)',
         UNCHANGED <<goal, connect_info, wifi_is_exist, wifi_wrong_key, wifi_cancel>>
  PROVE  UNCHANGED <<Goal, Name, Kept, Seen, Asked, Cancelled, Wrong>>
BY Seeing DEF WorkersSeen, SuppliedSeen

(* A client that gives up.                                                 *)
LEMMA FailSingle ==
  ASSUME TypeOK, Named, patient, patient', Single, NEW c \in Clients, ClientWorks(c),
         SettingUp(c), Fail(c), UNCHANGED <<gstate, networks, conf, station>>
  PROVE  Single' /\ Refines
<1>0. TypeCall /\ ~Busy(c)' /\ \A d \in Clients : d # c => call'[d] = call[d]
  BY TypeParts, CallReturns DEF Fail, Busy
<1>1. AtRest'
  BY <1>0 DEF Fail, AtRest, ClientWorks, Busy, Running
<1>2. ~wifi_is_exist'
  <2>1. wifi_is_exist => call[c].kind = "ssid"
    BY DEF Single, Existing, ClientWorks
  <2>2. wifi_is_exist \in BOOLEAN
    BY DEF TypeOK
  <2> QED
    BY <2>1, <2>2 DEF Fail, Saved
<1>3. Single'
  <2>1. LockHeld'
    BY LockReturned DEF Fail, Single
  <2> QED
    BY <1>1, <1>2, <2>1, SingleRest DEF Single, NothingOff
<1>4. Goal # NULL /\ Name = connect_info /\ ~Seen /\ ~Cancelled
  BY ClientGoal
<1>5. /\ Goal' = NULL /\ Name' = NULL
      /\ ~Kept' /\ ~Denied' /\ ~Seen' /\ ~Cancelled' /\ ~Wrong'
  BY <1>1, RestSeenAfter
<1>6. told' = [state |-> "CONNECTFAILED", ssid |-> Name]
  BY <1>4 DEF Fail, wifi_state_send
<1>7. UNCHANGED <<KnownNames, SavedNames, Online, Asked, Cancelled>>
  BY <1>4, <1>5, Untouched, Seeing DEF Fail, SuppliedSeen
<1> QED
  BY <1>3, <1>4, <1>5, <1>6, <1>7, Ends

(* A client that begins an attempt, the network being known to it or not.  *)
LEMMA AttemptBegins ==
  ASSUME TypeOK, Named, patient, patient', Single, NEW c \in Clients, ClientWorks(c),
         ~SettingUp(c), NEW s \in Ssids, goal' = s,
         NEW info \in {s, NULL}, save_connect_info(info),
         info = NULL => s \in Names(networks),
         ClientWorks(c)', SettingUp(c)', call'[c].pc # "set", Listens(c) <=> Listens(c)',
         UNCHANGED <<supplicant, wifi_wrong_key, wifi_cancel, wifi_is_exist>>,
         wifi_is_exist => s \in Names(networks)
  PROVE  Refines
<1>1. /\ Goal = NULL /\ Name = NULL /\ ~Kept /\ ~Denied /\ ~Seen /\ ~Cancelled
      /\ Wrong <=> wifi_wrong_key /\ Listens(c)
  BY Seeing DEF WorkersSeen, SettingUp
<1>2. /\ Goal' = s /\ Name' = info /\ (Kept' => wifi_is_exist)
      /\ ~Denied' /\ ~Seen' /\ ~Cancelled'
      /\ Wrong' <=> wifi_wrong_key /\ Listens(c)
  BY Seeing DEF WorkersSeen, save_connect_info
<1>3. told' = [state |-> "CONNECTING", ssid |-> Name']
  BY <1>2 DEF save_connect_info, wifi_state_send
<1>4. UNCHANGED <<Denied, KnownNames, SavedNames, Online, Seen, Asked, Cancelled, Wrong>>
  BY <1>1, <1>2, Untouched, Seeing DEF supplicant, SuppliedSeen
<1>5. KnownNames = Names(networks)
  BY Seeing DEF SuppliedSeen
<1> QED
  BY <1>1, <1>2, <1>3, <1>4, <1>5, Attempts

(* The client c goes on with its call, perhaps with an id.                 *)
LEMMA GoesOn ==
  ASSUME TypeOK, Named, NEW c \in Clients, ClientWorks(c), Busy(c), UNCHANGED check,
         NEW pc \in CallPc, pc # "idle", To(c, pc),
         pc \in {"set", "select", "enable"} => call[c].id \in Ids
  PROVE  /\ ClientWorks(c)' /\ Busy(c)'
         /\ call'[c].pc = pc /\ call'[c].id = call[c].id
         /\ call'[c].ssid = call[c].ssid /\ call'[c].kind = call[c].kind
BY TypeParts, CallTo DEF ClientWorks, Busy, Running

LEMMA GoesOnId ==
  ASSUME TypeOK, Named, NEW c \in Clients, ClientWorks(c), Busy(c), UNCHANGED check,
         NEW pc \in CallPc, pc # "idle", NEW i \in Ids,
         call' = [call EXCEPT ![c].pc = pc, ![c].id = i]
  PROVE  /\ ClientWorks(c)' /\ Busy(c)'
         /\ call'[c].pc = pc /\ call'[c].id = i
         /\ call'[c].ssid = call[c].ssid /\ call'[c].kind = call[c].kind
BY TypeParts, CallToId DEF ClientWorks, Busy, Running

LEMMA LockSingle ==
  ASSUME TypeOK, Named, patient, patient', Single, NEW c \in Clients, ClientWorks(c),
         Busy(c), Lock(c)
  PROVE  Single' /\ Refines
<1>1. /\ call[c].pc = "lock" /\ To(c, "disable") /\ UNCHANGED <<check, supplicant, gstate>>
      /\ save_connect_info(call[c].ssid)
      /\ UNCHANGED <<goal, wifi_is_exist, wifi_wrong_key, wifi_cancel>>
  BY DEF Lock
<1>2. /\ call[c].kind = "connect" /\ call[c].id = NULL
      /\ call[c].ssid \in Ssids /\ goal = call[c].ssid
  BY <1>1 DEF Single, OwnCall, Named
<1>3. ~wifi_is_exist
  BY <1>2 DEF Single, Existing, ClientWorks
<1>4. /\ ClientWorks(c)' /\ Busy(c)' /\ call'[c].pc = "disable" /\ call'[c].id = NULL
      /\ call'[c].ssid = call[c].ssid /\ call'[c].kind = "connect"
  BY <1>1, <1>2, GoesOn DEF CallPc
<1>5. connect_info' = call[c].ssid
  BY <1>1 DEF save_connect_info
<1>6. Single'
  <2>1. LockHeld'
    BY <1>4 DEF LockHeld, SettingUp
  <2> QED
    BY <1>1, <1>2, <1>3, <1>4, <1>5, <2>1, SingleClient
       DEF OwnCall, SettingUp, Has, supplicant, Single, NothingOff
<1>7. ~SettingUp(c) /\ SettingUp(c)' /\ ~Listens(c) /\ ~Listens(c)'
  BY <1>1, <1>4 DEF SettingUp, Listens
<1>8. Refines
  BY <1>1, <1>2, <1>3, <1>4, <1>7, NullAssumption, AttemptBegins
<1> QED
  BY <1>6, <1>8

LEMMA FindSingle ==
  ASSUME TypeOK, Named, patient, patient', Single, NEW c \in Clients, ClientWorks(c),
         Busy(c), Find(c)
  PROVE  Single' /\ Refines
<1>1. call[c].pc = "find" /\ UNCHANGED <<gstate, supplicant, goal>> /\ ~SettingUp(c)
  BY DEF Find, SettingUp
<1>2. call[c].ssid \in Ssids /\ goal = call[c].ssid /\ LockHeld
  BY DEF Named, Single, OwnCall
<1>3. wifi_is_exist => call[c].kind = "ssid"
  BY DEF Single, Existing, ClientWorks
<1>4. Goal = NULL /\ Name = NULL /\ ~Kept /\ ~Denied /\ ~Seen /\ ~Cancelled
  BY <1>1, Seeing DEF WorkersSeen
<1>5. CASE \E i \in Search(call[c].ssid) :
             /\ connecting_id' = i
             /\ call' = [call EXCEPT ![c].pc = "disable", ![c].id = i]
             /\ save_connect_info(NULL)
             /\ UNCHANGED <<flags, check>>
  <2>1. PICK i \in Ids :
          /\ networks[i] = call[c].ssid /\ connecting_id' = i
          /\ call' = [call EXCEPT ![c].pc = "disable", ![c].id = i]
          /\ save_connect_info(NULL)
          /\ UNCHANGED <<flags, check>>
    BY <1>5 DEF Search
  <2>2. /\ ClientWorks(c)' /\ Busy(c)' /\ call'[c].pc = "disable" /\ call'[c].id = i
        /\ call'[c].ssid = call[c].ssid /\ call'[c].kind = call[c].kind
    BY <2>1, GoesOnId DEF CallPc
  <2>3. connect_info' = NULL
    BY <2>1 DEF save_connect_info
  <2>4. SettingUp(c)' /\ call[c].ssid \in Names(networks)
    BY <1>2, <2>1, <2>2 DEF SettingUp, Names
  <2>5. Single'
    <3>1. LockHeld'
      BY <1>2, <2>1, <2>2, <2>4, LockClient DEF flags
    <3> QED
      BY <1>1, <1>2, <1>3, <2>1, <2>2, <2>3, <3>1, SingleClient
         DEF OwnCall, SettingUp, Has, supplicant, flags, Single, NothingOff
  <2>6. Listens(c) /\ Listens(c)'
    BY <1>1, <2>2, NullAssumption, BoundsAssumption DEF Listens, Ids
  <2> QED
    BY <1>1, <1>2, <2>1, <2>2, <2>4, <2>5, <2>6, AttemptBegins DEF flags
<1>6. CASE Return(c) /\ UNCHANGED check
  <2>1. AtRest'
    <3>1. TypeCall
      BY TypeParts
    <3> QED
      BY <1>6, <3>1, CallReturns DEF AtRest, ClientWorks, Busy, Running
  <2>2. /\ Goal' = NULL /\ Name' = NULL
        /\ ~Kept' /\ ~Denied' /\ ~Seen' /\ ~Cancelled' /\ ~Wrong'
    BY <2>1, RestSeenAfter
  <2>3. ASSUME UNCHANGED wifi_cancel
        PROVE  UNCHANGED <<Goal, Name, Kept, Denied, KnownNames, SavedNames, Online, Seen,
                           Asked, Cancelled>>
    BY <1>1, <1>4, <2>2, <2>3, Untouched, Seeing DEF supplicant, SuppliedSeen
  <2>4. CASE Fail(c)
    <3>1. ~wifi_is_exist' /\ LockHeld'
      BY <1>2, <1>3, <2>4, LockReturned DEF Fail, Saved, TypeOK
    <3>2. Single'
      BY <1>1, <2>1, <3>1, SingleRest DEF Single, NothingOff, supplicant
    <3>3. told' = [state |-> "CONNECTFAILED", ssid |-> connect_info]
          /\ connect_info \in Ssids \cup {NULL} /\ wifi_cancel' = wifi_cancel
      BY <2>4 DEF Fail, wifi_state_send, TypeOK
    <3> QED
      BY <1>4, <2>2, <2>3, <3>2, <3>3, Refuses
  <2>5. CASE ~Saved(c) /\ UNCHANGED <<flags, told>>
    <3>1. ~wifi_is_exist' /\ LockHeld'
      <4>1. \A d \in Clients : ~SettingUp(d)
        BY <1>1 DEF ClientWorks, SettingUp, Busy
      <4> QED
        BY <1>2, <1>3, <2>5, <4>1, LockRest DEF flags, Saved
    <3>2. Single'
      BY <1>1, <2>1, <3>1, SingleRest DEF Single, NothingOff, supplicant
    <3> QED
      BY <1>4, <2>2, <2>3, <2>5, <3>2, Ignores DEF flags
  <2> QED
    BY <1>6, <2>4, <2>5, <1>5 DEF Find
<1> QED
  BY <1>5, <1>6 DEF Find, Fail

LEMMA DisableSingle ==
  ASSUME TypeOK, Named, patient, patient', Single, NEW c \in Clients, ClientWorks(c),
         Busy(c), Disable(c)
  PROVE  Single' /\ Refines
<1>1. /\ call[c].pc = "disable" /\ SettingUp(c) /\ enabled' = {} /\ station' = NULL
      /\ UNCHANGED <<networks, conf, connecting_id, connect_info, goal, gstate, check,
                     told, wifi_is_exist, wifi_cancel, wifi_connect_lock>>
  BY DEF Disable, DisableAll, Leave, SettingUp
<1>2. OwnCall(c) /\ NothingOff /\ LockHeld /\ (wifi_is_exist => call[c].kind = "ssid")
  BY DEF Single, Existing, ClientWorks
<1>3. ASSUME NEW pc \in {"search", "select"}, To(c, pc),
             call[c].id = NULL <=> pc = "search",
             wifi_wrong_key' = IF pc = "search" THEN FALSE ELSE wifi_wrong_key
      PROVE  Single' /\ Refines
  <2>1. call[c].id \in Ids \cup {NULL} /\ (pc = "select" => call[c].id \in Ids)
    <3>1. call[c] \in CallRecord
      BY TypeParts DEF TypeCall
    <3> QED
      BY <1>3, <3>1 DEF CallRecord
  <2>2. /\ ClientWorks(c)' /\ Busy(c)' /\ call'[c].pc = pc /\ call'[c].id = call[c].id
        /\ call'[c].ssid = call[c].ssid /\ call'[c].kind = call[c].kind
    BY <1>1, <1>3, <2>1, GoesOn DEF CallPc
  <2>3. SettingUp(c)'
    BY <1>3, <2>2 DEF SettingUp
  <2>4. Single'
    <3>1. LockHeld'
      BY <1>1, <1>2, <2>2, <2>3, LockClient
    <3> QED
      BY <1>1, <1>2, <1>3, <2>1, <2>2, <3>1, SingleClient
         DEF OwnCall, SettingUp, Has, NothingOff
  <2>5. /\ UNCHANGED <<Goal, Name, Kept, Denied, Seen, Cancelled>>
        /\ Wrong <=> wifi_wrong_key /\ pc = "select"
        /\ Wrong' <=> wifi_wrong_key /\ pc = "select"
    BY <1>1, <1>3, <2>2, <2>3, Seeing DEF WorkersSeen, SuppliedSeen, Listens
  <2>6. UNCHANGED <<KnownNames, SavedNames, Asked, Wrong>> /\ Online' = NULL
    BY <1>1, <2>5, Untouched, Seeing DEF SuppliedSeen
  <2> QED
    BY <1>1, <2>4, <2>5, <2>6, Roams
<1>4. CASE call[c].id = NULL
  BY <1>3, <1>4 DEF Disable
<1>5. CASE call[c].id # NULL
  BY <1>3, <1>5 DEF Disable
<1> QED
  BY <1>4, <1>5

LEMMA SearchSsidSingle ==
  ASSUME TypeOK, Named, patient, patient', Single, NEW c \in Clients, ClientWorks(c),
         Busy(c), SearchSsid(c)
  PROVE  Single' /\ Refines
<1> DEFINE s == call[c].ssid
<1>1. /\ call[c].pc = "search" /\ SettingUp(c) /\ Listens(c)
      /\ UNCHANGED <<connect_info, gstate, flags, check, goal, told, supplicant>>
  BY DEF SearchSsid, SettingUp, Listens
<1>2. /\ OwnCall(c) /\ (wifi_is_exist => call[c].kind = "ssid") /\ s \in Ssids
      /\ goal = s /\ NothingOff /\ LockHeld /\ ~Denied
  BY <1>1, ClientGoal DEF Single
<1>3. ASSUME NEW pc \in {"set", "add"}, ClientWorks(c)', Busy(c)', call'[c].pc = pc,
             call'[c].ssid = s, call'[c].kind = call[c].kind,
             pc = "set" => /\ connecting_id' = call'[c].id /\ call'[c].id \in Ids
                           /\ networks[call'[c].id] = s
      PROVE  Single' /\ Refines
  <2>1. SettingUp(c)' /\ Listens(c)'
    BY <1>3 DEF SettingUp, Listens
  <2>2. LockHeld'
    BY <1>1, <1>2, <1>3, <2>1, LockClient DEF flags
  <2>3. OwnCall(c)'
    BY <1>1, <1>2, <1>3 DEF OwnCall, SettingUp, Has, supplicant
  <2>4. Single'
    BY <1>1, <1>2, <1>3, <2>2, <2>3, SingleClient DEF flags, supplicant, NothingOff
  <2>5. UNCHANGED <<Goal, Name, Kept, Seen, Asked, Cancelled, Wrong>>
    BY <1>1, <1>3, <2>1, GoalKept DEF flags
  <2>6. ~Denied'
    BY <1>1, <1>3, Seeing DEF WorkersSeen, Strange, supplicant
  <2>7. UNCHANGED <<Denied, KnownNames, SavedNames, Online>>
    BY <1>1, <1>2, <2>6, Untouched, Seeing DEF SuppliedSeen, supplicant
  <2> QED
    BY <1>1, <2>4, <2>5, <2>7 DEF Refines, View
<1>4. CASE \E i \in Search(s) :
             connecting_id' = i /\ call' = [call EXCEPT ![c].pc = "set", ![c].id = i]
  <2>1. PICK i \in Ids :
          /\ networks[i] = s /\ connecting_id' = i
          /\ call' = [call EXCEPT ![c].pc = "set", ![c].id = i]
    BY <1>4 DEF Search
  <2>2. /\ ClientWorks(c)' /\ Busy(c)' /\ call'[c].pc = "set" /\ call'[c].id = i
        /\ call'[c].ssid = s /\ call'[c].kind = call[c].kind
    BY <1>1, <2>1, GoesOnId DEF CallPc
  <2> QED
    BY <1>3, <2>1, <2>2
<1>5. CASE To(c, "add")
  <2>1. /\ ClientWorks(c)' /\ Busy(c)' /\ call'[c].pc = "add"
        /\ call'[c].ssid = s /\ call'[c].kind = call[c].kind
    BY <1>1, <1>5, GoesOn DEF CallPc
  <2> QED
    BY <1>3, <2>1
<1> QED
  BY <1>4, <1>5 DEF SearchSsid

(* A client that is denied an entry goes on with network 0, be it another's *)
(* or none at all.                                                         *)
LEMMA AddNetworkSingle ==
  ASSUME TypeOK, Named, patient, patient', Single, Found, NEW c \in Clients,
         ClientWorks(c), Busy(c), AddNetwork(c)
  PROVE  Single' /\ Refines
<1> DEFINE s == call[c].ssid
<1>1. /\ call[c].pc = "add" /\ SettingUp(c) /\ Listens(c)
      /\ UNCHANGED <<gstate, goal, conf, enabled, station>>
  BY DEF AddNetwork, SettingUp, Listens
<1>2. /\ OwnCall(c) /\ (wifi_is_exist => call[c].kind = "ssid") /\ s \in Ssids
      /\ goal = s /\ Goal = s /\ ~Seen /\ enabled = {} /\ station = NULL /\ LockHeld /\ ~Denied
  BY <1>1, ClientGoal DEF OwnCall, Single
<1>3. networks \in Networks /\ Search(s) = {}
  BY <1>1 DEF TypeOK, Found
<1>4. CASE Fail(c) /\ UNCHANGED networks
  BY <1>1, <1>4, FailSingle
<1>5. ASSUME NEW i \in Ids, gstate = "OPEN",
             connecting_id' = i, call' = [call EXCEPT ![c].pc = "set", ![c].id = i],
             UNCHANGED <<connect_info, flags, told, check>>,
             Names(networks') = Names(networks)
      PROVE  /\ Single' /\ (Denied' <=> networks'[i] \notin {BLANK, s})
             /\ UNCHANGED <<Goal, Name, Kept, KnownNames, SavedNames, Online, Seen,
                            Asked, Cancelled, Wrong, told>>
  <2>1. /\ ClientWorks(c)' /\ Busy(c)' /\ call'[c].pc = "set" /\ call'[c].id = i
        /\ call'[c].ssid = s /\ call'[c].kind = call[c].kind
    BY <1>5, GoesOnId DEF CallPc
  <2>2. SettingUp(c)' /\ Listens(c)'
    BY <2>1 DEF SettingUp, Listens
  <2>3. LockHeld'
    BY <1>2, <1>5, <2>1, <2>2, LockClient DEF flags
  <2>4. OwnCall(c)'
    BY <1>1, <1>2, <1>5, <2>1 DEF OwnCall, SettingUp, Has
  <2>5. NothingOff'
    BY <1>1, <1>5 DEF NothingOff
  <2>6. Single'
    BY <1>2, <1>5, <2>1, <2>3, <2>4, <2>5, SingleClient DEF flags
  <2>7. UNCHANGED <<Goal, Name, Kept, Seen, Asked, Cancelled, Wrong>>
    BY <1>1, <1>5, <2>1, <2>2, GoalKept DEF flags
  <2>8. Denied' <=> networks'[i] \notin {BLANK, s}
    BY <2>1, Seeing DEF WorkersSeen, Strange
  <2>9. UNCHANGED <<KnownNames, SavedNames, Online>>
    <3>1. Names(networks)' = Names(networks')
      BY DEF Names
    <3>2. KnownNames' = KnownNames
      BY <1>5, <3>1, Seeing DEF SuppliedSeen
    <3>3. Online' = NULL /\ Online = NULL
      BY <1>1, <1>2 DEF Online
    <3> QED
      BY <1>1, <3>2, <3>3, Untouched
  <2> QED
    BY <1>5, <2>6, <2>7, <2>8, <2>9
<1>6. ASSUME NEW i \in Ids, gstate = "OPEN", IsNext(i),
             networks' = [networks EXCEPT ![i] = BLANK],
             connecting_id' = i, call' = [call EXCEPT ![c].pc = "set", ![c].id = i],
             UNCHANGED <<connect_info, flags, told, check>>
      PROVE  Single' /\ Refines
  <2>1. networks[i] = NULL
    BY <1>6, BoundsAssumption DEF IsNext, Ids
  <2>2. Names(networks') = Names(networks) /\ networks'[i] = BLANK
    <3>1. networks[i] \notin Ssids /\ BLANK \notin Ssids
          /\ BLANK \in Ssids \cup {BLANK, NULL}
      BY <2>1, NullAssumption
    <3>2. Names(networks') = Names(networks)
      BY <1>3, <1>6, <3>1, NamesSet
    <3> QED
      BY <1>3, <1>6, <3>2 DEF Networks
  <2>3. /\ Single' /\ ~Denied'
        /\ UNCHANGED <<Goal, Name, Kept, KnownNames, SavedNames, Online, Seen,
                       Asked, Cancelled, Wrong, told>>
    BY <1>5, <1>6, <2>2
  <2>4. UNCHANGED Denied
    BY <1>2, <2>3, Seeing DEF SuppliedSeen
  <2> QED
    BY <2>3, <2>4 DEF Refines, View
<1>7. ASSUME NEW i \in Ids, gstate = "OPEN", UNCHANGED networks,
             connecting_id' = i, call' = [call EXCEPT ![c].pc = "set", ![c].id = i],
             UNCHANGED <<connect_info, flags, told, check>>
      PROVE  Single' /\ Refines
  <2>1. /\ Single' /\ (Denied' <=> networks[i] \notin {BLANK, s})
        /\ UNCHANGED <<Goal, Name, Kept, KnownNames, SavedNames, Online, Seen,
                       Asked, Cancelled, Wrong, told>>
    BY <1>5, <1>7
  <2>2. CASE Denied'
    <3>1. s \notin Names(networks)
      BY <1>3 DEF Search, Names
    <3>2. Goal \notin KnownNames \cup {NULL}
      BY <1>2, <3>1, Seeing, NullAssumption DEF SuppliedSeen
    <3> QED
      BY <1>2, <2>1, <2>2, <3>2, Denies
  <2>3. CASE ~Denied'
    <3>1. UNCHANGED Denied
      BY <1>2, <2>3, Seeing DEF SuppliedSeen
    <3> QED
      BY <2>1, <3>1 DEF Refines, View
  <2> QED
    BY <2>2, <2>3
<1> QED
  BY <1>4, <1>6, <1>7 DEF AddNetwork

LEMMA SetNetworkSingle ==
  ASSUME TypeOK, Named, patient, patient', Single, Unique(networks), NEW c \in Clients,
         ClientWorks(c), Busy(c), SetNetwork(c)
  PROVE  Single' /\ Refines
<1> DEFINE i == call[c].id
           s == call[c].ssid
<1>1. /\ call[c].pc = "set" /\ SettingUp(c) /\ Has(c) /\ Listens(c)
      /\ UNCHANGED <<gstate, conf, enabled, station, goal>>
  BY DEF SetNetwork, SettingUp, Has, Listens
<1>2. /\ OwnCall(c) /\ (wifi_is_exist => call[c].kind = "ssid") /\ s \in Ssids
      /\ goal = s /\ connecting_id = i /\ i \in Ids
      /\ enabled = {} /\ station = NULL /\ NothingOff /\ Goal = s /\ LockHeld
      /\ (Denied <=> networks[i] \notin {BLANK, s})
  BY <1>1, ClientGoal DEF OwnCall, Single, Strange
<1>3. networks \in Networks
  BY DEF TypeOK
<1>4. CASE Fail(c) /\ UNCHANGED networks
  BY <1>1, <1>4, FailSingle
<1>5. ASSUME networks[i] # NULL, networks' = [networks EXCEPT ![i] = s], To(c, "select"),
             UNCHANGED <<connecting_id, connect_info, flags, told, check>>
      PROVE  Single' /\ Refines
  <2>1. /\ ClientWorks(c)' /\ Busy(c)' /\ call'[c].pc = "select" /\ call'[c].id = i
        /\ call'[c].ssid = s /\ call'[c].kind = call[c].kind
    BY <1>2, <1>5, GoesOn DEF CallPc
  <2>2. SettingUp(c)' /\ Listens(c)'
    BY <2>1 DEF SettingUp, Listens
  <2>3. /\ networks' \in Networks /\ networks'[i] = s
        /\ \A j \in Ids : j # i => networks'[j] = networks[j]
    <3>1. i \in Ids /\ s \in Ssids /\ networks' = [networks EXCEPT ![i] = s]
      BY <1>2, <1>5
    <3> HIDE DEF i, s
    <3> QED
      BY <1>3, <3>1 DEF Networks
  <2>4. NothingOff'
    <3>1. gstate = "OPEN"
      BY <1>2, <1>3, <1>5 DEF NothingOff, NoNetworks, TypeOK
    <3> QED
      BY <1>1, <3>1 DEF NothingOff
  <2>5. Single'
    <3>1. OwnCall(c)'
      BY <1>1, <1>2, <1>5, <2>1, <2>3 DEF OwnCall, SettingUp, Has
    <3>2. LockHeld'
      BY <1>2, <1>5, <2>1, <2>2, LockClient DEF flags
    <3> QED
      BY <1>2, <1>5, <2>1, <2>4, <3>1, <3>2, SingleClient DEF flags
  <2>6. UNCHANGED <<Goal, Name, Kept, Seen, Asked, Cancelled, Wrong>>
    BY <1>1, <1>5, <2>1, <2>2, GoalKept DEF flags
  <2>7. UNCHANGED <<SavedNames, Online>>
    <3>1. Online' = NULL /\ Online = NULL
      BY <1>1, <1>2 DEF Online
    <3> QED
      BY <1>1, <3>1, Untouched
  <2>8. ~Denied' /\ Goal # NULL
    BY <1>2, <2>1, Seeing, NullAssumption DEF WorkersSeen
  <2>9. KnownNames = Names(networks) /\ KnownNames' = Names(networks')
    <3>1. Names(networks)' = Names(networks')
      BY DEF Names
    <3> QED
      BY <3>1, Seeing DEF SuppliedSeen
  <2>10. CASE networks[i] \in {BLANK, s}
    <3>1. KnownNames' = KnownNames \cup {Goal}
      <4>1. CASE networks[i] = s
        <5>1. \A j \in Ids : networks'[j] = networks[j]
          BY <2>3, <4>1
        <5>2. Names(networks') = Names(networks) /\ s \in Names(networks)
          BY <1>2, <4>1, <5>1 DEF Names
        <5> QED
          BY <1>2, <2>9, <5>2
      <4>2. CASE networks[i] = BLANK
        <5>1. networks[i] \notin Ssids
          BY <4>2, NullAssumption
        <5>2. Names(networks') = Names(networks) \cup {networks'[i]}
          BY <1>2, <1>3, <2>3, <5>1, NamesAdd
        <5> QED
          BY <1>2, <2>3, <2>9, <5>2
      <4> QED
        BY <2>10, <4>1, <4>2
    <3>2. UNCHANGED Denied
      BY <1>2, <2>8, <2>10, Seeing DEF SuppliedSeen
    <3> QED
      BY <1>5, <2>5, <2>6, <2>7, <2>8, <3>1, <3>2, Learns
  <2>11. CASE networks[i] \notin {BLANK, s}
    <3>1. networks[i] \in Ssids /\ Denied
      BY <1>2, <1>3, <1>5, <2>11 DEF Networks
    <3>2. Names(networks') = (Names(networks) \ {networks[i]}) \cup {networks'[i]}
      BY <1>2, <1>3, <2>3, <3>1, NamesReplace
    <3>3. KnownNames' = (KnownNames \ {networks[i]}) \cup {Goal}
      BY <1>2, <2>3, <2>9, <3>2
    <3> QED
      BY <1>5, <2>5, <2>6, <2>7, <2>8, <3>1, <3>3, Overwrites
  <2> QED
    BY <2>10, <2>11
<1> QED
  BY <1>4, <1>5 DEF SetNetwork

LEMMA SelectNetworkSingle ==
  ASSUME TypeOK, Named, patient, patient', Single, NEW c \in Clients, ClientWorks(c),
         Busy(c), SelectNetwork(c)
  PROVE  Single' /\ Refines
<1> DEFINE i == call[c].id
<1>1. /\ call[c].pc = "select" /\ SettingUp(c) /\ Has(c) /\ Listens(c)
      /\ UNCHANGED <<gstate, networks, conf, goal>>
  BY BoundsAssumption, NullAssumption DEF SelectNetwork, SettingUp, Has, Listens
<1>2. /\ OwnCall(c) /\ (wifi_is_exist => call[c].kind = "ssid")
      /\ i \in Ids /\ station = NULL /\ NothingOff /\ LockHeld /\ ~Denied
  BY <1>1, ClientGoal DEF OwnCall, Single
<1>3. CASE Fail(c) /\ UNCHANGED station
  BY <1>1, <1>3, FailSingle
<1>4. ASSUME enabled' = {i}, Leave(station # i), To(c, "enable"),
             UNCHANGED <<connecting_id, connect_info, flags, told, check>>
      PROVE  Single' /\ Refines
  <2>1. /\ ClientWorks(c)' /\ Busy(c)' /\ call'[c].pc = "enable" /\ call'[c].id = i
        /\ call'[c].ssid = call[c].ssid /\ call'[c].kind = call[c].kind
    BY <1>2, <1>4, GoesOn DEF CallPc
  <2>2. station' = NULL /\ SettingUp(c)' /\ Listens(c)'
    BY <1>2, <1>4, <2>1 DEF Leave, SettingUp, Listens
  <2>3. Single'
    <3>1. OwnCall(c)'
      BY <1>1, <1>2, <1>4, <2>1, <2>2 DEF OwnCall, OnlyOne, SettingUp, Has
    <3>2. LockHeld'
      BY <1>2, <1>4, <2>1, <2>2, LockClient DEF flags
    <3> QED
      BY <1>1, <1>2, <1>4, <2>1, <3>1, <3>2, SingleClient DEF flags, NothingOff
  <2>4. UNCHANGED <<Goal, Name, Kept, Seen, Asked, Cancelled, Wrong>>
    BY <1>1, <1>4, <2>1, <2>2, GoalKept DEF flags
  <2>5. ~Denied'
    BY <2>1, Seeing DEF WorkersSeen
  <2>6. UNCHANGED <<Denied, KnownNames, SavedNames, Online>>
    BY <1>1, <1>2, <2>2, <2>5, Untouched, Seeing DEF SuppliedSeen
  <2> QED
    BY <1>4, <2>3, <2>4, <2>6 DEF Refines, View
<1> QED
  BY <1>3, <1>4 DEF SelectNetwork

(* The client hands its attempt over to the thread that checks it.         *)
LEMMA EnableNetworkSingle ==
  ASSUME TypeOK, Named, patient, patient', Single, NEW c \in Clients, ClientWorks(c),
         Busy(c), EnableNetwork(c)
  PROVE  Single' /\ Refines
<1> DEFINE i == call[c].id
<1>1. /\ call[c].pc = "enable" /\ SettingUp(c) /\ Has(c) /\ Listens(c)
      /\ UNCHANGED <<gstate, networks, conf, station, goal>>
  BY DEF EnableNetwork, SettingUp, Has, Listens
<1>2. /\ OwnCall(c) /\ goal = call[c].ssid /\ goal \in Ssids
      /\ connect_info \in {goal, NULL}
      /\ connecting_id = i /\ i \in Ids /\ networks[i] = goal
      /\ OnlyOne(i) /\ NothingOff /\ Goal = goal /\ Name = connect_info
      /\ ~Seen /\ ~Cancelled /\ ~Denied /\ LockHeld
  BY <1>1, ClientGoal DEF OwnCall, Single
<1>3. CASE Fail(c)
  BY <1>1, <1>3, FailSingle
<1>4. ASSUME NEW t \in Threads, enabled' = enabled \cup {i},
             check' = [check EXCEPT ![t].pc = "created"], Return(c),
             wifi_connect_lock' = IF Locks(c) THEN FALSE ELSE wifi_connect_lock,
             UNCHANGED <<connecting_id, connect_info, wifi_wrong_key, wifi_cancel,
                         wifi_is_exist, told>>
      PROVE  Single' /\ Refines
  <2>1. /\ check'[t].pc = "created"
        /\ \A u \in Threads : u # t => check'[u] = check[u]
    BY <1>4 DEF TypeOK
  <2>2. \A d \in Clients : ~Busy(d)'
    BY <1>4, TypeParts, CallReturns DEF ClientWorks, Busy
  <2>3. CheckWorks(t)'
    BY <2>1, <2>2 DEF CheckWorks, ClientWorks, Running
  <2>4. OwnCheck(t)'
    BY <1>1, <1>2, <1>4, <2>1 DEF OwnCheck, Attempting, Target, At, OnlyOne
  <2>5. Single'
    <3>1. LockHeld'
      BY <1>2, <1>4, LockReturned
    <3> QED
      BY <1>1, <1>2, <2>3, <2>4, <3>1, SingleCheck DEF NothingOff
  <2>6. /\ Goal' = goal' /\ Name' = connect_info' /\ (Kept' <=> wifi_is_exist')
        /\ ~Seen' /\ ~Cancelled' /\ ~Denied' /\ (Wrong' <=> wifi_wrong_key')
    BY <2>1, <2>3, Seeing DEF WorkersSeen, At
  <2>7. (Kept <=> wifi_is_exist) /\ (Wrong <=> wifi_wrong_key)
    BY <1>1, Seeing DEF WorkersSeen
  <2>8. UNCHANGED <<Kept, Denied, Seen, Cancelled, Wrong>>
    BY <1>2, <1>4, <2>6, <2>7, Seeing DEF SuppliedSeen
  <2>9. UNCHANGED <<KnownNames, SavedNames, Online, Asked>>
    BY <1>1, <1>4, Untouched
  <2>10. UNCHANGED View
    BY <1>1, <1>2, <1>4, <2>6, <2>8, <2>9 DEF View
  <2> QED
    BY <2>5, <2>10 DEF Refines
<1> QED
  BY <1>3, <1>4 DEF EnableNetwork

LEMMA SetsUpSingle ==
  ASSUME IInv, patient, patient', Single, NEW c \in Clients, SetsUp(c)
  PROVE  Single' /\ Refines
<1>1. Busy(c)
  BY SetsUpFacts DEF IInv
<1>2. TypeOK /\ Named /\ ClientWorks(c) /\ Found /\ Unique(networks)
  BY <1>1 DEF IInv, Alone, ClientWorks, OneEntryPerNetwork
<1> QED
  BY <1>1, <1>2, LockSingle, FindSingle, DisableSingle, SearchSsidSingle,
     AddNetworkSingle, SetNetworkSingle, SelectNetworkSingle, EnableNetworkSingle
     DEF SetsUp

(* The thread t, at work, and the step it takes.                           *)
LEMMA ThreadGoal ==
  ASSUME patient, Single, NEW t \in Threads, CheckWorks(t)
  PROVE  /\ Goal = goal /\ goal \in Ssids /\ goal # NULL
         /\ Name = connect_info /\ ~Denied
         /\ Wrong <=> wifi_wrong_key
         /\ Seen <=> check[t].pc = "connected" \/ At(t, "report", "DHCP_OK")
         /\ Cancelled <=> check[t].pc = "cancelled"
         /\ OwnCheck(t) /\ NothingOff /\ LockHeld
<1>1. /\ Goal = goal /\ Name = connect_info /\ ~Denied
      /\ Wrong <=> wifi_wrong_key
      /\ Seen <=> check[t].pc = "connected" \/ At(t, "report", "DHCP_OK")
      /\ Cancelled <=> check[t].pc = "cancelled"
  BY Seeing DEF WorkersSeen
<1>2. OwnCheck(t) /\ NothingOff /\ LockHeld
  BY DEF Single
<1>3. goal \in Ssids
  BY <1>2 DEF OwnCheck, CheckWorks
<1> QED
  BY <1>1, <1>2, <1>3, NullAssumption

LEMMA ThreadLock ==
  ASSUME LockHeld, NEW t \in Threads, CheckWorks(t), UNCHANGED wifi_connect_lock
  PROVE  LockHeld'
<1>1. \A c \in Clients : ~SettingUp(c)
  BY DEF CheckWorks, SettingUp, Busy
<1> QED
  BY <1>1, LockRest

LEMMA ThreadOn ==
  ASSUME TypeOK, NEW t \in Threads, CheckWorks(t), UNCHANGED call, NEW r,
         r.pc # "none", check' = [check EXCEPT ![t] = r]
  PROVE  CheckWorks(t)' /\ check'[t] = r
BY TypeParts DEF TypeCheck, CheckWorks, Running, Busy

LEMMA ThreadTo ==
  ASSUME TypeOK, NEW t \in Threads, CheckWorks(t), UNCHANGED call, NEW pc,
         pc # "none", CheckTo(t, pc)
  PROVE  /\ CheckWorks(t)'
         /\ check'[t].pc = pc /\ check'[t].id = check[t].id
         /\ check'[t].state = check[t].state
<1> DEFINE r == [check[t] EXCEPT !.pc = pc]
<1>1. check \in [Threads -> CheckRecord] /\ check[t] \in CheckRecord
  BY TypeParts DEF TypeCheck
<1>2. r.pc = pc /\ r.id = check[t].id /\ r.state = check[t].state
  BY <1>1 DEF CheckRecord
<1>3. check' = [check EXCEPT ![t] = r]
  BY DEF CheckTo
<1> HIDE DEF r
<1>4. CheckWorks(t)' /\ check'[t] = r
  BY <1>2, <1>3, ThreadOn
<1> QED
  BY <1>2, <1>4

LEMMA ThreadKept ==
  ASSUME patient, patient', NEW t \in Threads, CheckWorks(t), CheckWorks(t)',
         UNCHANGED <<goal, connect_info, wifi_is_exist, wifi_wrong_key>>
  PROVE  UNCHANGED <<Goal, Name, Kept, Denied, Wrong>>
BY Seeing DEF WorkersSeen, SuppliedSeen

LEMMA StartsSingle ==
  ASSUME TypeOK, patient, patient', Single, NEW t \in Threads, CheckWorks(t), Starts(t)
  PROVE  Single' /\ Refines
<1> DEFINE r == [check[t] EXCEPT !.pc = "status", !.id = connecting_id]
<1>1. check[t].pc = "created"
      /\ UNCHANGED <<connecting_id, connect_info, gstate, flags, call, goal, told,
                   supplicant>>
  BY DEF Starts
<1>2. check \in [Threads -> CheckRecord] /\ check[t] \in CheckRecord
  BY TypeParts DEF TypeCheck
<1>3. r.pc = "status" /\ r.id = connecting_id /\ r.state = check[t].state
  BY <1>2 DEF CheckRecord
<1>4. check' = [check EXCEPT ![t] = r]
  BY <1>2 DEF Starts
<1> HIDE DEF r
<1>5. CheckWorks(t)' /\ check'[t].pc = "status" /\ check'[t].id = connecting_id
  <2>1. r.pc # "none"
    BY <1>3
  <2> QED
    BY <1>1, <1>3, <1>4, <2>1, ThreadOn
<1>6. OwnCheck(t) /\ NothingOff /\ LockHeld /\ ~Seen /\ ~Cancelled
  BY <1>1, ThreadGoal DEF At
<1>7. Single'
  <2>1. OwnCheck(t)'
    BY <1>1, <1>5, <1>6
       DEF OwnCheck, CheckWorks, Attempting, Target, OnlyOne, At, flags, supplicant
  <2>2. LockHeld'
    BY <1>1, <1>6, ThreadLock DEF flags
  <2> QED
    BY <1>1, <1>5, <1>6, <2>1, <2>2, SingleCheck DEF NothingOff, supplicant
<1>8. ~Seen' /\ ~Cancelled'
  BY <1>5, Seeing DEF WorkersSeen, At
<1>9. UNCHANGED View
  BY <1>1, <1>5, <1>6, <1>8, ThreadKept, Untouched, Seeing
     DEF View, SuppliedSeen, flags, supplicant
<1> QED
  BY <1>7, <1>9 DEF Refines

LEMMA ReadsStatusSingle ==
  ASSUME TypeOK, patient, patient', Single, NEW t \in Threads, CheckWorks(t),
         ReadsStatus(t)
  PROVE  Single' /\ Refines
<1>1. check[t].pc = "status"
      /\ UNCHANGED <<connecting_id, connect_info, gstate, flags, call, goal, told,
                   supplicant>>
  BY DEF ReadsStatus
<1>2. /\ OwnCheck(t) /\ NothingOff /\ LockHeld /\ ~Seen /\ ~Cancelled
      /\ Goal = goal /\ Goal # NULL
  BY <1>1, ThreadGoal DEF At
<1>3. ASSUME NEW pc \in {"connected", "flags"}, CheckTo(t, pc)
      PROVE  /\ Single' /\ CheckWorks(t)' /\ check'[t].pc = pc
             /\ UNCHANGED <<Goal, Name, Kept, Denied, KnownNames, SavedNames, Online,
                            Asked, Cancelled, Wrong>>
  <2>1. /\ CheckWorks(t)' /\ check'[t].pc = pc /\ check'[t].id = check[t].id
    BY <1>1, <1>3, ThreadTo
  <2>2. OwnCheck(t)'
    BY <1>1, <1>2, <2>1
       DEF OwnCheck, CheckWorks, Attempting, Target, OnlyOne, At, flags, supplicant
  <2>3. Single'
    <3>1. LockHeld'
      BY <1>1, <1>2, ThreadLock DEF flags
    <3> QED
      BY <1>1, <1>2, <2>1, <2>2, <3>1, SingleCheck DEF NothingOff, supplicant
  <2>4. ~Cancelled'
    BY <2>1, Seeing DEF WorkersSeen
  <2> QED
    BY <1>1, <1>2, <2>1, <2>3, <2>4, ThreadKept, Untouched, Seeing
       DEF SuppliedSeen, flags, supplicant
<1>4. CASE IsConnected(t) /\ CheckTo(t, "connected")
  <2>1. Single' /\ CheckWorks(t)' /\ check'[t].pc = "connected"
        /\ UNCHANGED <<Goal, Name, Kept, Denied, KnownNames, SavedNames, Online,
                            Asked, Cancelled, Wrong>>
    BY <1>3, <1>4
  <2>2. Seen'
    BY <2>1, Seeing DEF WorkersSeen
  <2>3. Online = Goal
    <3>1. station = check[t].id /\ networks[check[t].id] = goal /\ station # NULL
      BY <1>1, <1>2, <1>4 DEF OwnCheck, Attempting, Target, OnlyOne, IsConnected
    <3> QED
      BY <1>2, <3>1 DEF Online
  <2> QED
    BY <1>1, <1>2, <2>1, <2>2, <2>3, Sees
<1>5. CASE CheckTo(t, "flags")
  <2>1. Single' /\ CheckWorks(t)' /\ check'[t].pc = "flags"
        /\ UNCHANGED <<Goal, Name, Kept, Denied, KnownNames, SavedNames, Online,
                            Asked, Cancelled, Wrong>>
    BY <1>3, <1>5
  <2>2. ~Seen'
    BY <2>1, Seeing DEF WorkersSeen, At
  <2>3. UNCHANGED View
    BY <1>1, <1>2, <2>1, <2>2, Seeing DEF View, SuppliedSeen
  <2> QED
    BY <2>1, <2>3 DEF Refines
<1> QED
  BY <1>4, <1>5 DEF ReadsStatus

LEMMA TakesCancelSingle ==
  ASSUME TypeOK, patient, patient', Single, NEW t \in Threads, CheckWorks(t),
         TakesCancel(t)
  PROVE  Single' /\ Refines
<1>1. /\ check[t].pc = "flags" /\ Reload(FALSE) /\ CheckTo(t, "cancelled")
      /\ wifi_cancel /\ wifi_cancel' = FALSE
      /\ UNCHANGED <<connect_info, goal, gstate, wifi_wrong_key, wifi_is_exist,
                     wifi_connect_lock, call, told>>
  BY DEF TakesCancel
<1>2. /\ OwnCheck(t) /\ NothingOff /\ LockHeld /\ ~Seen /\ Goal = goal
      /\ goal \in Ssids /\ goal # NULL
  BY <1>1, ThreadGoal DEF At
<1>3. check[t].id \in Ids /\ networks[check[t].id] = goal
  BY <1>1, <1>2 DEF OwnCheck, Attempting, Target
<1>4. gstate = "OPEN"
  BY <1>2, <1>3, NullAssumption DEF NothingOff, NoNetworks, TypeOK
<1>5. networks' = Compact(conf) /\ station' = NULL /\ conf' = conf
  BY <1>1, <1>4 DEF Reload, Leave
<1>6. CheckWorks(t)' /\ check'[t].pc = "cancelled" /\ check'[t].id = check[t].id
  BY <1>1, ThreadTo
<1>7. Single'
  <2>1. OwnCheck(t)'
    BY <1>1, <1>2, <1>3, <1>6 DEF OwnCheck, Attempting, At, CheckWorks
  <2>2. LockHeld'
    BY <1>1, <1>2, ThreadLock
  <2> QED
    BY <1>1, <1>4, <1>6, <2>1, <2>2, SingleCheck DEF NothingOff
<1>8. KnownNames' = SavedNames
  <2>1. conf \in Networks
    BY DEF TypeOK, Networks
  <2>2. Names(networks') = Names(conf)
    BY <1>5, <2>1, NamesCompact
  <2> QED
    BY <2>2 DEF KnownNames, SavedNames, Names
<1>9. Cancelled' /\ ~Seen'
  BY <1>6, Seeing DEF WorkersSeen, At
<1>10. UNCHANGED <<Goal, Name, Kept, Denied, SavedNames, Seen, Wrong, told>>
       /\ Online' = NULL
  BY <1>1, <1>2, <1>5, <1>6, <1>9, ThreadKept, Untouched, Seeing DEF SuppliedSeen
<1>11. Asked /\ ~Asked'
  BY <1>1, Seeing DEF SuppliedSeen
<1> QED
  BY <1>2, <1>7, <1>8, <1>9, <1>10, <1>11, Cancels

LEMMA ReadsFlagsSingle ==
  ASSUME TypeOK, patient, patient', Single, NEW t \in Threads, CheckWorks(t),
         ReadsFlags(t)
  PROVE  Single' /\ Refines
<1>1. check[t].pc = "flags"
      /\ UNCHANGED <<connecting_id, connect_info, gstate, flags, call, goal, told,
                   supplicant>>
  BY DEF ReadsFlags
<1>2. OwnCheck(t) /\ NothingOff /\ LockHeld /\ ~Seen /\ ~Cancelled
  BY <1>1, ThreadGoal DEF At
<1>3. CheckWorks(t)' /\ check'[t].pc \in {"failed", "status"}
      /\ check'[t].id = check[t].id
  <2>1. CASE wifi_wrong_key \/ LastRound(t)
    BY <1>1, <2>1, ThreadTo DEF ReadsFlags
  <2>2. CASE ~(wifi_wrong_key \/ LastRound(t))
    <3> DEFINE r == [check[t] EXCEPT !.pc = "status", !.round = NextRound(check[t].round)]
    <3>1. check \in [Threads -> CheckRecord] /\ check[t] \in CheckRecord
      BY TypeParts DEF TypeCheck
    <3>2. r.pc = "status" /\ r.id = check[t].id
      BY <3>1 DEF CheckRecord
    <3>3. check' = [check EXCEPT ![t] = r]
      BY <2>2, <3>1 DEF ReadsFlags
    <3> HIDE DEF r
    <3>4. r.pc # "none"
      BY <3>2
    <3> QED
      BY <1>1, <3>2, <3>3, <3>4, ThreadOn
  <2> QED
    BY <2>1, <2>2
<1>4. Single'
  <2>1. OwnCheck(t)'
    BY <1>1, <1>2, <1>3
       DEF OwnCheck, CheckWorks, Attempting, Target, OnlyOne, At, flags, supplicant
  <2>2. LockHeld'
    BY <1>1, <1>2, ThreadLock DEF flags
  <2> QED
    BY <1>1, <1>2, <1>3, <2>1, <2>2, SingleCheck DEF NothingOff, supplicant
<1>5. ~Seen' /\ ~Cancelled'
  BY <1>3, Seeing DEF WorkersSeen, At
<1>6. UNCHANGED View
  BY <1>1, <1>2, <1>3, <1>5, ThreadKept, Untouched, Seeing
     DEF View, SuppliedSeen, flags, supplicant
<1> QED
  BY <1>4, <1>6 DEF Refines

LEMMA SavesSingle ==
  ASSUME TypeOK, patient, patient', Single, NEW t \in Threads, CheckWorks(t),
         save_configuration(t)
  PROVE  Single' /\ Refines
<1> DEFINE r == [check[t] EXCEPT !.pc = "report", !.state = "DHCP_OK"]
<1>1. check[t].pc = "connected"
      /\ UNCHANGED <<connect_info, goal, gstate, flags, call, told, networks, station>>
  BY DEF save_configuration
<1>2. OwnCheck(t) /\ NothingOff /\ LockHeld /\ Seen /\ ~Cancelled /\ goal \in Ssids
  BY <1>1, ThreadGoal
<1>3. check[t].id \in Ids /\ networks[check[t].id] = goal
  BY <1>1, <1>2 DEF OwnCheck, Attempting, Target
<1>4. gstate = "OPEN"
  BY <1>2, <1>3, NullAssumption DEF NothingOff, NoNetworks, TypeOK
<1>5. check \in [Threads -> CheckRecord] /\ check[t] \in CheckRecord
  BY TypeParts DEF TypeCheck
<1>6. r.pc = "report" /\ r.state = "DHCP_OK"
  BY <1>5 DEF CheckRecord
<1>7. check' = [check EXCEPT ![t] = r]
  BY <1>5 DEF save_configuration
<1> HIDE DEF r
<1>8. CheckWorks(t)' /\ check'[t].pc = "report" /\ check'[t].state = "DHCP_OK"
  <2>1. r.pc # "none"
    BY <1>6
  <2> QED
    BY <1>1, <1>6, <1>7, <2>1, ThreadOn
<1>9. Single'
  <2>1. OwnCheck(t)'
    BY <1>1, <1>2, <1>8 DEF OwnCheck, Attempting, At, CheckWorks
  <2>2. LockHeld'
    BY <1>1, <1>2, ThreadLock DEF flags
  <2> QED
    BY <1>1, <1>4, <1>8, <2>1, <2>2, SingleCheck DEF NothingOff
<1>10. SavedNames' = KnownNames
  <2>1. conf' = [j \in Ids |-> IF networks[j] \in Ssids THEN networks[j] ELSE NULL]
    BY <1>4 DEF save_configuration
  <2>2. Names(conf') = Names(networks)
    BY <2>1, NamesSaved DEF TypeOK
  <2> QED
    BY <2>2 DEF KnownNames, SavedNames, Names
<1>11. Seen' /\ ~Cancelled'
  BY <1>8, Seeing DEF WorkersSeen, At
<1>12. UNCHANGED <<Goal, Name, Kept, Denied, KnownNames, Online, Seen, Asked,
                   Cancelled, Wrong, told>>
  BY <1>1, <1>2, <1>8, <1>11, ThreadKept, Untouched, Seeing DEF SuppliedSeen, flags
<1> QED
  BY <1>2, <1>9, <1>10, <1>12, Saves

(* What failed is dropped, unless it was known before.                     *)
LEMMA DropsSingle ==
  ASSUME TypeOK, patient, patient', Single, Unique(networks), NEW t \in Threads,
         CheckWorks(t), wifi_connectfail_process(t)
  PROVE  Single' /\ Refines
<1> DEFINE i == check[t].id
           state == IF wifi_wrong_key THEN "-1" ELSE "CONNECTFAILED"
           r == [check[t] EXCEPT !.pc = "report", !.state = state]
<1>1. check[t].pc \in {"failed", "cancelled"}
      /\ UNCHANGED <<connect_info, goal, gstate, flags, call, told, conf>>
  BY DEF wifi_connectfail_process
<1>2. /\ OwnCheck(t) /\ NothingOff /\ LockHeld /\ ~Seen /\ Goal = goal
      /\ Goal \in Ssids /\ Goal # NULL /\ (Cancelled <=> check[t].pc = "cancelled")
  BY <1>1, ThreadGoal DEF At
<1>3. i \in Ids /\ (check[t].pc = "failed" => networks[i] = Goal)
  BY <1>1, <1>2 DEF OwnCheck, Attempting, Target
<1>4. check \in [Threads -> CheckRecord] /\ check[t] \in CheckRecord
  BY TypeParts DEF TypeCheck
<1>5. r.pc = "report" /\ r.state = state
  BY <1>4 DEF CheckRecord
<1>6. check' = [check EXCEPT ![t] = r]
  BY <1>4 DEF wifi_connectfail_process
<1> HIDE DEF r
<1>7. CheckWorks(t)' /\ check'[t].pc = "report" /\ check'[t].state = state
  <2>1. r.pc # "none"
    BY <1>5
  <2> QED
    BY <1>1, <1>5, <1>6, <2>1, ThreadOn
<1>8. /\ station' = IF station = i THEN NULL ELSE station
      /\ \/ wifi_is_exist /\ UNCHANGED networks
         \/ ~wifi_is_exist /\ networks' = [networks EXCEPT ![i] = NULL]
  BY DEF wifi_connectfail_process, Keeps, Remove, Leave
<1>9. networks \in Networks /\ station \in Ids \cup {NULL}
  BY DEF TypeOK
<1>10. Single'
  <2>1. OwnCheck(t)'
    BY <1>1, <1>2, <1>7 DEF OwnCheck, Attempting, At, CheckWorks, flags
  <2>2. NothingOff'
    BY <1>1, <1>2, <1>3, <1>8 DEF NothingOff, NoNetworks
  <2>3. LockHeld'
    BY <1>1, <1>2, ThreadLock DEF flags
  <2> QED
    BY <1>7, <2>1, <2>2, <2>3, SingleCheck
<1>11. ~Seen' /\ ~Cancelled'
  BY <1>7, Seeing DEF WorkersSeen, At
<1>12. Online' \in {Online, NULL}
  BY <1>3, <1>8, <1>9 DEF Online, Networks
<1>13. UNCHANGED <<Goal, Name, Kept, Denied, SavedNames, Seen, Asked, Wrong, told>>
  BY <1>1, <1>2, <1>7, <1>11, ThreadKept, Untouched, Seeing DEF SuppliedSeen, flags
<1>14. CASE wifi_is_exist
  <2>1. KnownNames' = KnownNames
    BY <1>8, <1>14, Untouched
  <2> QED
    BY <1>2, <1>10, <1>11, <1>12, <1>13, <2>1, Drops
<1>15. CASE ~wifi_is_exist
  <2>1. networks' = [networks EXCEPT ![i] = NULL]
    BY <1>8, <1>15
  <2>2. ~Kept
    BY <1>15 DEF Kept
  <2>3. NULL \notin Ssids
    BY NullAssumption
  <2>4. CASE networks[i] \in Ssids
    <3>1. Names(networks') = Names(networks) \ {networks[i]}
      BY <1>3, <1>9, <2>1, <2>3, <2>4, NamesSet
    <3>2. KnownNames' = KnownNames \ {networks[i]}
      BY <3>1 DEF KnownNames, Names
    <3>3. networks[i] = Goal \/ Cancelled
      BY <1>1, <1>2, <1>3
    <3> QED
      BY <1>2, <1>10, <1>11, <1>12, <1>13, <2>2, <2>4, <3>2, <3>3, Drops
  <2>5. CASE networks[i] \notin Ssids
    <3>1. Names(networks') = Names(networks)
      BY <1>3, <1>9, <2>1, <2>3, <2>5, NamesSet
    <3>2. KnownNames' = KnownNames
      BY <3>1 DEF KnownNames, Names
    <3> QED
      BY <1>2, <1>10, <1>11, <1>12, <1>13, <3>2, Drops
  <2> QED
    BY <2>4, <2>5
<1> QED
  BY <1>14, <1>15

LEMMA ReportsSingle ==
  ASSUME TypeOK, patient, patient', Single, NEW t \in Threads, CheckWorks(t), Reports(t)
  PROVE  Single' /\ Refines
<1>1. /\ check[t].pc = "report" /\ check' = [check EXCEPT ![t] = NoCheck]
      /\ wifi_is_exist' = FALSE
      /\ UNCHANGED <<connect_info, goal, gstate, wifi_wrong_key, wifi_cancel,
                     wifi_connect_lock, call, supplicant>>
  BY DEF Reports
<1>2. /\ OwnCheck(t) /\ NothingOff /\ LockHeld /\ Name = connect_info /\ Goal # NULL
      /\ (Seen <=> check[t].state = "DHCP_OK") /\ ~Cancelled
      /\ (Wrong <=> wifi_wrong_key)
  BY <1>1, ThreadGoal DEF At
<1>3. check \in [Threads -> CheckRecord]
  BY TypeParts DEF TypeCheck
<1>4. AtRest'
  BY <1>1, <1>3 DEF CheckWorks, AtRest, Busy, Running, NoCheck
<1>5. Single'
  <2>1. LockHeld'
    BY <1>1, <1>2, ThreadLock
  <2> QED
    BY <1>1, <1>2, <1>4, <2>1, SingleRest DEF NothingOff, supplicant
<1>6. /\ Goal' = NULL /\ Name' = NULL
      /\ ~Kept' /\ ~Denied' /\ ~Seen' /\ ~Cancelled' /\ ~Wrong'
  BY <1>4, RestSeenAfter
<1>7. UNCHANGED <<KnownNames, SavedNames, Online, Asked, Cancelled>>
  BY <1>1, <1>2, <1>6, Untouched, Seeing DEF SuppliedSeen, supplicant
<1>8. check[t].state = "-1" => Wrong
  BY <1>1, <1>2 DEF OwnCheck, At
<1>9. check[t].state \in CheckState
  BY <1>3 DEF CheckRecord
<1>10. \/ /\ check[t].state = "DHCP_OK" /\ told' = [state |-> "DHCP_OK", ssid |-> NULL]
       \/ /\ check[t].state = "CONNECTFAILED"
          /\ told' = [state |-> "CONNECTFAILED", ssid |-> Name]
       \/ /\ check[t].state = "-1"
          /\ UNCHANGED told \/ told' = [state |-> "-1", ssid |-> NULL]
  BY <1>2, <1>9 DEF Reports, wifi_state_send, CheckState
<1>11. CASE Seen
  BY <1>2, <1>5, <1>6, <1>7, <1>10, <1>11, Ends
<1>12. CASE ~Seen
  <2>1. \/ told' = [state |-> "CONNECTFAILED", ssid |-> Name]
        \/ Wrong /\ (UNCHANGED told \/ told' = [state |-> "-1", ssid |-> NULL])
    BY <1>2, <1>8, <1>10, <1>12
  <2> QED
    BY <1>2, <1>5, <1>6, <1>7, <1>12, <2>1, Ends
<1> QED
  BY <1>11, <1>12

LEMMA ChecksSingle ==
  ASSUME IInv, patient, patient', Single, NEW t \in Threads, Checks(t)
  PROVE  Single' /\ Refines
<1>1. Running(t)
  BY ChecksFacts DEF IInv
<1>2. TypeOK /\ Unique(networks) /\ CheckWorks(t)
  BY <1>1 DEF IInv, OneEntryPerNetwork, Alone, CheckWorks, Single, OneCheck
<1> QED
  BY <1>2, StartsSingle, ReadsStatusSingle, TakesCancelSingle, ReadsFlagsSingle,
     SavesSingle, DropsSingle, ReportsSingle DEF Checks

(* Steps that no client and no thread takes.                               *)
LEMMA OthersSingle ==
  ASSUME IInv, patient, patient', Single, RK_wifi_cancel \/ WrongKey \/ Station
  PROVE  Single' /\ Refines
<1>1. UNCHANGED <<connecting_id, connect_info, goal, gstate, wifi_is_exist,
                  wifi_connect_lock, call, check, networks, conf, enabled>>
  BY DEF RK_wifi_cancel, WrongKey, Station, Associate, Lose, Leave, flags, supplicant
<1>2. UNCHANGED <<Goal, Name, Kept, Denied, KnownNames, SavedNames, Seen, Cancelled,
                  Listening>>
  BY <1>1 DEF patient, Goal, Name, Kept, Denied, Strange, Connecting, KnownNames,
              SavedNames, Seen, Cancelled, Listening, Listens, Running, At, Names
<1>3. ASSUME wifi_wrong_key => wifi_wrong_key', station' \in enabled \cup {station, NULL}
      PROVE  Single'
  <2>1. \A c \in Clients : OwnCall(c)'
    BY <1>1, <1>3 DEF Single, OwnCall, SettingUp, Has, OnlyOne, Busy
  <2>2. \A t \in Threads : OwnCheck(t)'
    BY <1>1, <1>3 DEF Single, OwnCheck, Running, Attempting, Target, At, OnlyOne
  <2>3. NothingOff' /\ OneCheck' /\ Existing' /\ LockHeld'
    BY <1>1 DEF Single, NothingOff, OneCheck, Existing, LockHeld, SettingUp, Running, Busy
  <2> QED
    BY <2>1, <2>2, <2>3 DEF Single
<1>4. CASE RK_wifi_cancel
  <2>1. /\ UNCHANGED <<wifi_wrong_key, station, told>>
        /\ wifi_connect_lock = TRUE /\ wifi_cancel' = TRUE
    BY <1>4 DEF RK_wifi_cancel, supplicant
  <2>2. PICK c \in Clients : SettingUp(c)
    BY <2>1 DEF Single, LockHeld
  <2>3. Goal # NULL
    <3>1. Busy(c)
      BY <2>2 DEF SettingUp, Busy
    <3>2. Named /\ ClientWorks(c)
      BY <3>1 DEF IInv, Alone, ClientWorks
    <3> QED
      BY <2>2, <3>2, ClientGoal
  <2>4. Asked'
    BY <2>1 DEF Asked
  <2>5. UNCHANGED <<Wrong, Online>>
    BY <1>1, <1>2, <2>1, Untouched DEF Wrong
  <2> QED
    BY <1>2, <1>3, <2>1, <2>3, <2>4, <2>5, Asks
<1>5. CASE WrongKey
  <2>1. /\ wifi_wrong_key' = TRUE /\ UNCHANGED <<wifi_cancel, station>>
        /\ told' = [state |-> "WRONG_KEY", ssid |-> NULL]
    BY <1>5 DEF WrongKey, wifi_state_send
  <2>2. (Wrong => Wrong') /\ UNCHANGED <<Asked, Online>>
    BY <1>1, <1>2, <2>1, Untouched DEF Wrong
  <2> QED
    BY <1>2, <1>3, <2>1, <2>2, Accuses
<1>6. CASE Station
  <2>1. /\ UNCHANGED <<wifi_wrong_key, wifi_cancel, told>>
        /\ \/ station' \in enabled /\ networks[station'] \in Ssids
           \/ station' = NULL
    BY <1>6 DEF Station, Associate, Lose, Leave, flags
  <2>2. Online' \in KnownNames \cup {NULL}
    BY <1>1, <2>1 DEF IInv, TypeOK, Online, KnownNames, Names
  <2>3. UNCHANGED <<Asked, Wrong>>
    BY <1>2, <2>1, Untouched DEF Wrong
  <2> QED
    BY <1>1, <1>2, <1>3, <2>1, <2>2, <2>3, Roams
<1> QED
  BY <1>4, <1>5, <1>6

(* For clients that do not wait nothing is seen.                           *)
LEMMA HastySingle ==
  ASSUME TypeOK, ~patient, ~patient', Next
  PROVE  UNCHANGED View
<1>1. ASSUME NEW state, NEW info, wifi_state_send(state, info) PROVE UNCHANGED told
  BY <1>1 DEF wifi_state_send
<1>2. UNCHANGED told
  BY <1>1 DEF Next, Calls, SetsUp, Checks, Station, RK_wifi_connect, RK_wifi_connect1,
     RK_wifi_connect_with_ssid, RK_wifi_connect_with_bssid, RK_wifi_forget_with_ssid,
     RK_wifi_disconnect_network, RK_wifi_enable, RK_wifi_reset, RK_wifi_recovery,
     save_connect_info, Lock, Find, Disable, SearchSsid, AddNetwork, SetNetwork,
     SelectNetwork, EnableNetwork, Fail, Starts, ReadsStatus, TakesCancel, ReadsFlags,
     save_configuration, wifi_connectfail_process, Reports, RK_wifi_cancel, WrongKey,
     Associate, Lose
<1> QED
  BY <1>2, Seeing DEF View, SuppliedSeen

LEMMA PatientLasts ==
  ASSUME Next, patient
  PROVE  patient'
BY DEF patient, Makes, Begin, Next, Calls, SetsUp, Checks, Station, RK_wifi_connect,
   RK_wifi_connect1, RK_wifi_connect_with_ssid, RK_wifi_connect_with_bssid,
   RK_wifi_forget_with_ssid, RK_wifi_disconnect_network, RK_wifi_enable, RK_wifi_reset,
   RK_wifi_recovery, Lock, Find, Disable, SearchSsid, AddNetwork, SetNetwork,
   SelectNetwork, EnableNetwork, Starts, ReadsStatus, TakesCancel, ReadsFlags, save_configuration,
   wifi_connectfail_process, Reports, RK_wifi_cancel, WrongKey, Associate, Lose

AttemptInv == IInv /\ (patient => Single)

LEMMA InitAttempt == Init => AttemptInv /\ Attempt!Init
<1> SUFFICES ASSUME Init PROVE AttemptInv /\ Attempt!Init
  OBVIOUS
<1>1. AtRest /\ ~wifi_is_exist /\ ~wifi_cancel /\ ~wifi_connect_lock
      /\ networks = NoNetworks
      /\ station = NULL /\ told = [state |-> "IDLE", ssid |-> NULL]
  BY DEF Init, AtRest, Busy, Running, Idle, NoCheck
<1>2. Single
  BY <1>1 DEF AtRest, Single, NothingOff, OneCheck, Existing, LockHeld, OwnCall,
     OwnCheck, Busy, Running, SettingUp, Has, Attempting, At
<1>3. /\ Goal = NULL /\ Name = NULL /\ ~Kept /\ ~Denied /\ ~Seen /\ ~Asked
      /\ ~Cancelled /\ ~Wrong /\ KnownNames = {} /\ Online = NULL
  BY <1>1, NamesNone, Seeing DEF WorkersSeen, SuppliedSeen
<1>4. SavedNames \in SUBSET Ssids
  BY DEF SavedNames, Names
<1>5. {Kept, Denied, Seen, Asked, Cancelled, Wrong} \subseteq BOOLEAN
  BY Seeing DEF SuppliedSeen
<1>6. Attempt!Init
  BY <1>1, <1>3, <1>4, <1>5 DEF Attempt!Init, Goal, Name, Kept, Denied, KnownNames,
     SavedNames, Online, Seen, Asked, Cancelled, Wrong
<1> QED
  BY <1>2, <1>6, InitIInv DEF AttemptInv

LEMMA StepAttempt == AttemptInv /\ [Next]_vars => AttemptInv' /\ Refines
<1> SUFFICES ASSUME AttemptInv, [Next]_vars PROVE AttemptInv' /\ Refines
  OBVIOUS
<1>1. IInv /\ IInv' /\ TypeOK
  BY StepIInv DEF AttemptInv, IInv
<1>2. CASE UNCHANGED vars
  <2>1. UNCHANGED <<connecting_id, connect_info, gstate, wifi_wrong_key, wifi_cancel,
                    wifi_connect_lock, wifi_is_exist, call, check, goal, told, networks,
                    conf, enabled, station, budget>>
    BY <1>2 DEF vars, flags, supplicant
  <2>2. UNCHANGED View
    BY <2>1 DEF patient, View, Goal, Name, Kept, Denied, Strange, Connecting, KnownNames,
       SavedNames, Online, Seen, Asked, Cancelled, Wrong, Listening, Listens, Running, At,
       Names
  <2>3. patient => Single'
    <3>1. ASSUME patient PROVE (\A c \in Clients : OwnCall(c)') /\ NothingOff'
      BY <2>1, <3>1 DEF AttemptInv, Single, OwnCall, SettingUp, Has, OnlyOne, NothingOff,
         Busy
    <3>2. ASSUME patient PROVE \A t \in Threads : OwnCheck(t)'
      BY <2>1, <3>2 DEF AttemptInv, Single, OwnCheck, Running, Attempting, Target, At, OnlyOne
    <3>3. ASSUME patient PROVE OneCheck' /\ Existing' /\ LockHeld'
      BY <2>1, <3>3 DEF AttemptInv, Single, OneCheck, Existing, LockHeld, SettingUp,
         Running, Busy
    <3> QED
      BY <3>1, <3>2, <3>3 DEF Single
  <2> QED
    BY <1>1, <2>1, <2>2, <2>3 DEF AttemptInv, Refines, patient
<1>3. CASE Next /\ patient
  <2>1. patient' /\ Single
    BY <1>3, PatientLasts DEF AttemptInv
  <2>2. Single' /\ Refines
    BY <1>1, <1>3, <2>1, CallsSingle, SetsUpSingle, ChecksSingle, OthersSingle DEF Next
  <2> QED
    BY <1>1, <2>2 DEF AttemptInv
<1>4. CASE Next /\ ~patient
  <2>1. ~patient'
    BY <1>1, <1>4, PatientStays
  <2> QED
    BY <1>1, <1>4, <2>1, HastySingle DEF AttemptInv, Refines
<1> QED
  BY <1>2, <1>3, <1>4

(* To clients that wait for each other's connections every step of the     *)
(* component is one of WifiAttempt, or none, for any number of clients,    *)
(* networks and threads: an attempt ends with an answer, which names its   *)
(* network unless that was known, but for the excuses of WifiAttempt: a    *)
(* refused key told while it listens, be it the key of an attempt before,  *)
(* leaves it unanswered; an entry denied by wpa_supplicant costs another   *)
(* network its own; and a cancel that comes late cancels the next attempt. *)
(* What is saved changes only when an attempt has succeeded or the client  *)
(* says so.  It is ImplementsAttempt without its fairness.                 *)
THEOREM AttemptsAreSteps == Spec => Attempt!Init /\ [][Attempt!Next]_(Attempt!vars)
<1>1. Refines => [Attempt!Next]_(Attempt!vars)
  BY DEF Refines, View, Attempt!vars, Attempt!attempt, Attempt!excuses, Goal, Name, Kept,
     Denied, KnownNames, SavedNames, Online, Seen, Asked, Cancelled, Wrong
<1>2. AttemptInv /\ [Next]_vars => [Attempt!Next]_(Attempt!vars)
  BY <1>1, StepAttempt
<1>3. AttemptInv /\ [Next]_vars => AttemptInv'
  BY StepAttempt
<1> QED
  BY InitAttempt, <1>2, <1>3, PTL DEF Spec
=============================================================================
