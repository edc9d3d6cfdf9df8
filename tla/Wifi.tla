-------------------------------- MODULE Wifi --------------------------------
(***************************************************************************)
(* The Wi-Fi station, DeviceIO/src/linux/wifi/Rk_wifi.cpp.                 *)
(*                                                                         *)
(* Clients set a network up by commands to wpa_supplicant, one process per *)
(* command, and leave the rest to a thread that polls until the network is *)
(* connected, its key is refused, the client cancels or the rounds are up. *)
(* A monitor thread reads wpa_supplicant's events.  They share a handful   *)
(* of globals without a lock: which id is being connected to, whether the  *)
(* network was known, whether the key was wrong, whether to cancel.        *)
(*                                                                         *)
(* wpa_supplicant is modelled as its commands are used: it numbers its     *)
(* networks, a new one above all others, and numbers them anew from its    *)
(* configuration file, which holds what was last saved.                    *)
(***************************************************************************)
EXTENDS Integers, FiniteSets

CONSTANTS
  Clients, Ssids, NULL,
  BLANK,              \* a network that has no ssid yet
  WIFI_CONNECT_RETRY, \* rounds of the thread that checks a connection
  MaxChecks,          \* bound on the connections checked at a time
  MaxCalls,           \* bound on the calls of clients that do not wait
  MaxId,              \* bound on the ids of wpa_supplicant
  Configurations      \* the configuration files to begin with

Ids == 0..MaxId
Threads == 1..MaxChecks
Networks == [Ids -> Ssids \cup {BLANK, NULL}]

(* No ssid has two entries.                                                *)
Unique(n) ==
  \A i, j \in Ids : n[i] \in Ssids /\ n[i] = n[j] => i = j

(* RK_wifi_getSavedInfo, which a successful check calls, copies the list   *)
(* of wpa_supplicant into an array of ten entries and does not look where  *)
(* the array ends: nothing is said of an eleventh network.                 *)
RK_WIFI_SAVED_INFO_MAX == 10
Used(n) == {i \in Ids : n[i] # NULL}

ASSUME NullAssumption == NULL \notin Ssids \cup {BLANK} \cup Nat /\ BLANK \notin Ssids
ASSUME BoundsAssumption ==
  /\ WIFI_CONNECT_RETRY \in Nat \ {0} /\ MaxId \in Nat
  /\ MaxChecks \in Nat /\ MaxCalls \in Nat
ASSUME ConfigurationsAssumption ==
  \A n \in Configurations :
    /\ n \in [Ids -> Ssids \cup {NULL}] /\ Unique(n)
    /\ Cardinality(Used(n)) <= RK_WIFI_SAVED_INFO_MAX

VARIABLES
  connecting_id, connect_info, gstate,
  wifi_wrong_key, wifi_cancel, wifi_connect_lock, wifi_is_exist,
  call,       \* the call each client is in: [pc, kind, ssid, id]
  check,      \* the threads wifi_connect_state_check: [pc, id, round, state]
  goal,       \* the network of the last call to connect, and
  told,       \* the last state that was reported of a connection: neither of
              \* Wi-Fi itself, OPEN and OFF, nor of the station; both are
              \* kept for patient clients only
  networks,   \* wpa_supplicant: its networks,
  conf,       \* its configuration file,
  enabled,    \* the ids it may associate with,
  station,    \* and the one it is associated with, NULL if none
  budget      \* NULL if the clients are patient: they wait for the end of one
              \* connection before they touch Wi-Fi again; else how many
              \* calls they may still make

flags == <<wifi_wrong_key, wifi_cancel, wifi_connect_lock, wifi_is_exist>>
supplicant == <<networks, conf, enabled, station>>
vars == <<connecting_id, connect_info, gstate, flags, call, check, goal, told,
          supplicant, budget>>

(***************************************************************************)
(* wpa_supplicant.                                                         *)
(***************************************************************************)
NoNetworks == [i \in Ids |-> NULL]

(* The networks of a file get the ids 0, 1, ... in their order.            *)
Takes(n, j, i) == n[j] # NULL /\ Cardinality({k \in Used(n) : k < j}) = i
Compact(n) ==
  [i \in Ids |-> IF \E j \in Ids : Takes(n, j, i)
                 THEN n[CHOOSE j \in Ids : Takes(n, j, i)] ELSE NULL]

(* The id of a new network is one above the greatest.                      *)
IsNext(i) ==
  /\ \A j \in Ids : j >= i => networks[j] = NULL
  /\ i > 0 => networks[i - 1] # NULL

Leave(left) ==
  station' = IF left THEN NULL ELSE station

(* flush and reconfigure                                                   *)
Reload(enable) ==
  /\ networks' = IF gstate = "OPEN" THEN Compact(conf) ELSE networks
  /\ enabled' = IF enable THEN Used(networks') ELSE {}
  /\ Leave(TRUE)
  /\ UNCHANGED conf

DisableAll ==
  /\ enabled' = {}
  /\ Leave(TRUE)
  /\ UNCHANGED <<networks, conf>>

Remove(i) ==
  /\ networks' = [networks EXCEPT ![i] = NULL]
  /\ enabled' = enabled \ {i}
  /\ Leave(station = i)

Associate(i) ==
  /\ gstate = "OPEN" /\ station = NULL /\ i \in enabled /\ networks[i] \in Ssids
  /\ station' = i
  /\ UNCHANGED <<connecting_id, connect_info, gstate, flags, call, check,
                 told, networks, conf, enabled, budget, goal>>

Lose ==
  /\ station # NULL
  /\ Leave(TRUE)
  /\ UNCHANGED <<connecting_id, connect_info, gstate, flags, call, check,
                 told, networks, conf, enabled, budget, goal>>

(***************************************************************************)
(* Setting a network up.  A client may wait for the end of what was begun  *)
(* before, or not: nothing in the code makes it.                           *)
(***************************************************************************)
Idle == [pc |-> "idle", kind |-> NULL, ssid |-> NULL, id |-> NULL]
NoCheck == [pc |-> "none", id |-> -1, round |-> 0, state |-> "-1"]
Running(t) == check[t].pc # "none"
Quiet ==
  (\A t \in Threads : ~Running(t)) /\ (\A c \in Clients : call[c] = Idle)
patient == budget = NULL
Free(c) == call[c] = Idle /\ (patient => Quiet)

(* A client that does not wait has one call less to make.                  *)
Makes(c) ==
  /\ Free(c) /\ budget # 0
  /\ budget' = IF patient THEN budget ELSE budget - 1

(* Two of the states are reported with the network they are about.         *)
wifi_state_send(state, info) ==
  told' = IF patient
          THEN [state |-> state,
                ssid |-> IF state \in {"CONNECTING", "CONNECTFAILED"}
                         THEN info ELSE NULL]
          ELSE told

To(c, pc) == call' = [call EXCEPT ![c].pc = pc]
Begin(c, pc, kind, s) ==
  /\ Makes(c)
  /\ call' = [call EXCEPT ![c] = [pc |-> pc, kind |-> kind, ssid |-> s,
                                  id |-> NULL]]
  /\ goal' = IF patient THEN s ELSE goal

(* The CONNECTING that is reported of it names the network only if ssid    *)
(* does: NULL is the empty name.                                           *)
save_connect_info(ssid) ==
  /\ connect_info' = ssid
  /\ wifi_state_send("CONNECTING", ssid)

(* A client that finds the lock taken returns without a change.            *)
RK_wifi_connect(c, s) ==
  /\ wifi_connect_lock = FALSE
  /\ Begin(c, "lock", "connect", s)
  /\ UNCHANGED <<connecting_id, connect_info, gstate, flags, check, told, supplicant>>

Lock(c) ==
  /\ call[c].pc = "lock"
  /\ wifi_connect_lock' = TRUE
  /\ To(c, "disable") /\ save_connect_info(call[c].ssid)
  /\ UNCHANGED <<connecting_id, gstate, wifi_wrong_key, wifi_cancel,
                 wifi_is_exist, check, supplicant, budget, goal>>

RK_wifi_connect1(c, s) ==
  /\ Begin(c, "disable", "connect1", s)
  /\ save_connect_info(s)
  /\ UNCHANGED <<connecting_id, gstate, flags, check, supplicant>>

RK_wifi_connect_with_ssid(c, s) ==
  /\ Begin(c, "find", "ssid", s)
  /\ wifi_wrong_key' = FALSE /\ wifi_is_exist' = TRUE
  /\ UNCHANGED <<connecting_id, connect_info, gstate, wifi_cancel,
                 wifi_connect_lock, check, told, supplicant>>

RK_wifi_connect_with_bssid(c, s) ==
  /\ Begin(c, "find", "bssid", s)
  /\ wifi_wrong_key' = FALSE
  /\ UNCHANGED <<connecting_id, connect_info, gstate, wifi_cancel,
                 wifi_connect_lock, wifi_is_exist, check, told,
                 supplicant>>

Search_Enabled(s) == {i \in enabled : networks[i] = s}
Search(s) == {i \in Ids : networks[i] = s}
Locks(c) == call[c].kind = "connect"
Saved(c) == call[c].kind = "ssid"

Return(c) == call' = [call EXCEPT ![c] = Idle]

(* The label fail.                                                         *)
Fail(c) ==
  /\ Return(c)
  /\ wifi_state_send("CONNECTFAILED", connect_info)
  /\ wifi_is_exist' = IF Saved(c) THEN FALSE ELSE wifi_is_exist
  /\ wifi_connect_lock' = IF Locks(c) THEN FALSE ELSE wifi_connect_lock
  /\ UNCHANGED <<connecting_id, connect_info, wifi_wrong_key, wifi_cancel,
                 check>>

(* The search of a client that connects to a network that is known, whose  *)
(* name is then saved where the bssid belongs.                             *)
Find(c) ==
  /\ call[c].pc = "find"
  /\ \/ \E i \in Search(call[c].ssid) :
          /\ connecting_id' = i
          /\ call' = [call EXCEPT ![c].pc = "disable", ![c].id = i]
          /\ save_connect_info(NULL)
          /\ UNCHANGED <<flags, check>>
     \/ Search(call[c].ssid) = {} /\ Saved(c) /\ Fail(c)
     \/ /\ Search(call[c].ssid) = {} /\ ~Saved(c) /\ Return(c)
        /\ UNCHANGED <<connecting_id, connect_info, flags, told, check>>
  /\ UNCHANGED <<gstate, supplicant, budget, goal>>

Disable(c) ==
  /\ call[c].pc = "disable"
  /\ DisableAll
  /\ IF call[c].id = NULL
     THEN To(c, "search") /\ wifi_wrong_key' = FALSE
     ELSE To(c, "select") /\ UNCHANGED wifi_wrong_key
  /\ UNCHANGED <<connecting_id, connect_info, gstate, wifi_cancel,
                 wifi_connect_lock, wifi_is_exist, check, told,
                 budget, goal>>

(* RK_wifi_search_with_ssid.                                               *)
SearchSsid(c) ==
  /\ call[c].pc = "search"
  /\ \/ \E i \in Search(call[c].ssid) :
          /\ connecting_id' = i
          /\ call' = [call EXCEPT ![c].pc = "set", ![c].id = i]
     \/ Search(call[c].ssid) = {} /\ To(c, "add") /\ UNCHANGED connecting_id
  /\ UNCHANGED <<connect_info, gstate, flags, check, goal, told, supplicant, budget>>

(* add_network: a new network, or the answer FAIL, which atoi makes the id *)
(* 0 of, or none.                                                          *)
AddNetwork(c) ==
  /\ call[c].pc = "add"
  /\ \/ \E i \in Ids :
          /\ gstate = "OPEN"
          /\ \/ /\ IsNext(i)
                /\ Cardinality(Used(networks)) < RK_WIFI_SAVED_INFO_MAX
                /\ networks' = [networks EXCEPT ![i] = BLANK]
             \/ i = 0 /\ UNCHANGED networks
          /\ connecting_id' = i
          /\ call' = [call EXCEPT ![c].pc = "set", ![c].id = i]
          /\ UNCHANGED <<connect_info, flags, told, check>>
     \/ Fail(c) /\ UNCHANGED networks
  /\ UNCHANGED <<gstate, goal, conf, enabled, station, budget>>

(* set_network fails for an id that is gone, and may fail anyway.          *)
SetNetwork(c) ==
  LET i == call[c].id IN
  /\ call[c].pc = "set"
  /\ \/ /\ networks[i] # NULL
        /\ networks' = [networks EXCEPT ![i] = call[c].ssid]
        /\ To(c, "select")
        /\ UNCHANGED <<connecting_id, connect_info, flags, told, check>>
     \/ Fail(c) /\ UNCHANGED networks
  /\ UNCHANGED <<gstate, conf, enabled, station, budget, goal>>

(* set_hide_network and select_network.                                    *)
SelectNetwork(c) ==
  LET i == call[c].id IN
  /\ call[c].pc = "select"
  /\ \/ /\ networks[i] # NULL
        /\ enabled' = {i} /\ Leave(station # i)
        /\ To(c, "enable")
        /\ UNCHANGED <<connecting_id, connect_info, flags, told, check>>
     \/ Fail(c) /\ UNCHANGED <<enabled, station>>
  /\ UNCHANGED <<gstate, networks, conf, budget, goal>>

(* enable_network, and the thread that checks the connection.              *)
EnableNetwork(c) ==
  LET i == call[c].id IN
  /\ call[c].pc = "enable"
  /\ \/ /\ networks[i] # NULL
        /\ enabled' = enabled \cup {i}
        /\ \E t \in Threads :
             /\ ~Running(t) /\ \A u \in Threads : u < t => Running(u)
             /\ check' = [check EXCEPT ![t].pc = "created"]
        /\ Return(c)
        /\ wifi_connect_lock' = IF Locks(c) THEN FALSE ELSE wifi_connect_lock
        /\ UNCHANGED <<connecting_id, connect_info, wifi_wrong_key,
                       wifi_cancel, wifi_is_exist, told>>
     \/ Fail(c) /\ UNCHANGED enabled
  /\ UNCHANGED <<gstate, networks, conf, station, budget, goal>>

(***************************************************************************)
(* The other calls of a client.  Turning Wi-Fi on and off is not bounded.  *)
(***************************************************************************)
RK_wifi_forget_with_ssid(c, s) ==
  /\ Makes(c)
  /\ \E i \in Search(s) :
       Remove(i) /\ conf' = [j \in Ids |-> IF networks'[j] \in Ssids
                                           THEN networks'[j] ELSE NULL]
  /\ UNCHANGED <<connecting_id, connect_info, gstate, flags, call, check,
                 told, goal>>

RK_wifi_disconnect_network(c) ==
  /\ Makes(c) /\ gstate = "OPEN"
  /\ station # NULL /\ Leave(TRUE)
  /\ UNCHANGED <<connecting_id, connect_info, gstate, flags, call, check,
                 told, networks, conf, enabled, goal>>

RK_wifi_enable(c) ==
  /\ Free(c)
  /\ gstate' = IF gstate = "OPEN" THEN "OFF" ELSE "OPEN"
  /\ networks' = IF gstate' = "OPEN" THEN Compact(conf) ELSE NoNetworks
  /\ enabled' = Used(networks')
  /\ station' = NULL
  /\ UNCHANGED <<connecting_id, connect_info, flags, call, check, told, conf,
                 budget, goal>>

RK_wifi_reset(c) ==
  /\ Makes(c)
  /\ networks' = NoNetworks /\ conf' = NoNetworks /\ enabled' = {}
  /\ Leave(TRUE)
  /\ UNCHANGED <<connecting_id, connect_info, gstate, flags, call, check,
                 told, goal>>

RK_wifi_recovery(c) ==
  /\ Makes(c) /\ gstate = "OPEN"
  /\ Reload(TRUE)
  /\ UNCHANGED <<connecting_id, connect_info, gstate, flags, call, check,
                 told, goal>>

(* RK_wifi_cancel, called by a thread of its own, then waits for the flag  *)
(* to be cleared and gives up after a while without taking it back.        *)
RK_wifi_cancel ==
  /\ wifi_connect_lock = TRUE
  /\ wifi_cancel' = TRUE
  /\ UNCHANGED <<connecting_id, connect_info, gstate, wifi_wrong_key,
                 wifi_connect_lock, wifi_is_exist, call, check, told,
                 supplicant, budget, goal>>

(***************************************************************************)
(* The thread that checks a connection.                                    *)
(***************************************************************************)
CheckTo(t, pc) == check' = [check EXCEPT ![t].pc = pc]

(* Its argument is the address of the global.                              *)
Starts(t) ==
  /\ check[t].pc = "created"
  /\ check' = [check EXCEPT ![t].pc = "status", ![t].id = connecting_id]
  /\ UNCHANGED <<connecting_id, connect_info, gstate, flags, call, goal, told,
                 supplicant, budget>>

(* It is connected when the station is associated and wlan0 has an         *)
(* address, which dhcpcd may have set by now; an address of the network    *)
(* before, which the monitor has not flushed yet, will do.                 *)
IsConnected(t) == station # NULL

ReadsStatus(t) ==
  /\ check[t].pc = "status"
  /\ \/ IsConnected(t) /\ CheckTo(t, "connected")
     \/ CheckTo(t, "flags")
  /\ UNCHANGED <<connecting_id, connect_info, gstate, flags, call, goal, told,
                 supplicant, budget>>

TakesCancel(t) ==
  /\ check[t].pc = "flags" /\ ~wifi_wrong_key /\ wifi_cancel
  /\ Reload(FALSE) 
  /\ wifi_cancel' = FALSE
  /\ CheckTo(t, "cancelled")
  /\ UNCHANGED <<connecting_id, connect_info, gstate, wifi_wrong_key,
                 wifi_connect_lock, wifi_is_exist, call, told,
                 budget, goal>>

LastRound_Late(t) == check[t].round + 1 > WIFI_CONNECT_RETRY
LastRound(t) == check[t].round + 1 >= WIFI_CONNECT_RETRY
NextRound_Same(n) == n
NextRound(n) == n + 1
ReadsFlags(t) ==
  /\ check[t].pc = "flags" /\ (wifi_wrong_key \/ ~wifi_cancel)
  /\ IF wifi_wrong_key \/ LastRound(t)
     THEN CheckTo(t, "failed")
     ELSE check' = [check EXCEPT ![t].pc = "status", ![t].round = NextRound(@)]
  /\ UNCHANGED <<connecting_id, connect_info, gstate, flags, call, goal, told,
                 supplicant, budget>>

save_configuration(t) ==
  /\ check[t].pc = "connected"
  /\ enabled' = Used(networks)
  /\ conf' = IF gstate = "OPEN"
             THEN [i \in Ids |-> IF networks[i] \in Ssids THEN networks[i]
                                 ELSE NULL]
             ELSE conf
  /\ check' = [check EXCEPT ![t].pc = "report", ![t].state = "DHCP_OK"]
  /\ UNCHANGED <<connecting_id, connect_info, gstate, flags, call, goal, told,
                 networks, station, budget>>

Keeps_Never == FALSE
Keeps == wifi_is_exist
wifi_connectfail_process(t) ==
  LET i == check[t].id IN
  /\ check[t].pc \in {"failed", "cancelled"}
  /\ IF Keeps
     THEN /\ enabled' = enabled \ {i} /\ Leave(station = i)
          /\ UNCHANGED networks
     ELSE Remove(i)
  /\ check' = [check EXCEPT ![t].pc = "report",
                 ![t].state = IF wifi_wrong_key THEN "-1" ELSE "CONNECTFAILED"]
  /\ UNCHANGED <<connecting_id, connect_info, gstate, flags, call, goal, told, conf,
                 budget>>

(* A state of -1 is not below 0 where the type of the enum is unsigned.    *)
Reports(t) ==
  /\ check[t].pc = "report"
  /\ wifi_is_exist' = FALSE
  /\ \/ wifi_state_send(check[t].state, connect_info)
     \/ check[t].state = "-1" /\ UNCHANGED told
  /\ check' = [check EXCEPT ![t] = NoCheck]
  /\ UNCHANGED <<connecting_id, connect_info, gstate, wifi_wrong_key, wifi_cancel,
                 wifi_connect_lock, call, supplicant, budget, goal>>

(***************************************************************************)
(* dispatch_event in the monitor thread.  What it does when the station is *)
(* disconnected - it flushes wlan0's address and tells wpa_supplicant to   *)
(* reconnect, even if the client has disconnected it - leaves the station  *)
(* free to associate again, as it is here after Lose.  A refused key may   *)
(* be read long after it was refused.                                      *)
(***************************************************************************)
WrongKey ==
  /\ gstate = "OPEN"
  /\ wifi_wrong_key' = TRUE
  /\ wifi_state_send("WRONG_KEY", connect_info)
  /\ UNCHANGED <<connecting_id, connect_info, gstate, wifi_cancel, wifi_connect_lock,
                 wifi_is_exist, call, check, networks, conf,
                 enabled, station, budget, goal>>

(***************************************************************************)
Init ==
  /\ connecting_id = -1 /\ connect_info = NULL /\ gstate = "OFF"
  /\ wifi_wrong_key = FALSE /\ wifi_cancel = FALSE
  /\ wifi_connect_lock = FALSE /\ wifi_is_exist = FALSE
  /\ call = [c \in Clients |-> Idle]
  /\ check = [t \in Threads |-> NoCheck]
  /\ goal = NULL /\ told = [state |-> "IDLE", ssid |-> NULL]
  /\ networks = NoNetworks /\ conf \in Configurations
  /\ enabled = {} /\ station = NULL
  /\ budget \in {NULL, MaxCalls}

Calls(c) ==
  \/ \E s \in Ssids :
       \/ RK_wifi_connect(c, s) \/ RK_wifi_connect1(c, s)
       \/ RK_wifi_connect_with_ssid(c, s) \/ RK_wifi_connect_with_bssid(c, s)
       \/ RK_wifi_forget_with_ssid(c, s)
  \/ RK_wifi_disconnect_network(c) \/ RK_wifi_enable(c)
  \/ RK_wifi_reset(c) \/ RK_wifi_recovery(c)
SetsUp(c) ==
  \/ Lock(c) \/ Find(c) \/ Disable(c) \/ SearchSsid(c) \/ AddNetwork(c)
  \/ SetNetwork(c) \/ SelectNetwork(c) \/ EnableNetwork(c)
Checks(t) ==
  \/ Starts(t) \/ ReadsStatus(t) \/ TakesCancel(t) \/ ReadsFlags(t)
  \/ save_configuration(t) \/ wifi_connectfail_process(t) \/ Reports(t)
Station == (\E i \in Ids : Associate(i)) \/ Lose

Next ==
  \/ \E c \in Clients : Calls(c) \/ SetsUp(c)
  \/ \E t \in Threads : Checks(t)
  \/ RK_wifi_cancel \/ WrongKey \/ Station

(* A call that was begun goes on, and so does each thread; no client need  *)
(* call, no event need come.                                               *)
Fairness ==
  /\ \A c \in Clients : WF_vars(SetsUp(c))
  /\ \A t \in Threads : WF_vars(Checks(t))

Spec == Init /\ [][Next]_vars /\ Fairness

(***************************************************************************)
(* Properties.                                                             *)
(***************************************************************************)
(* Every variable has its type, whatever the threads do to each other.     *)
TypeOK ==
  /\ connecting_id \in Ids \cup {-1} /\ connect_info \in Ssids \cup {NULL}
  /\ gstate \in {"OFF", "OPEN"}
  /\ wifi_wrong_key \in BOOLEAN /\ wifi_cancel \in BOOLEAN
  /\ wifi_connect_lock \in BOOLEAN /\ wifi_is_exist \in BOOLEAN
  /\ call \in [Clients ->
       [pc : {"idle", "lock", "find", "disable", "search", "add", "set",
              "select", "enable"},
        kind : {"connect", "connect1", "ssid", "bssid", NULL},
        ssid : Ssids \cup {NULL}, id : Ids \cup {NULL}]]
  /\ check \in [Threads ->
       [pc : {"none", "created", "status", "flags", "connected", "failed",
              "cancelled", "report"},
        id : Ids \cup {-1}, round : 0..WIFI_CONNECT_RETRY - 1,
        state : {"-1", "DHCP_OK", "CONNECTFAILED"}]]
  /\ goal \in Ssids \cup {NULL}
  /\ told \in [state : {"IDLE", "CONNECTING", "CONNECTFAILED", "WRONG_KEY",
                       "DHCP_OK", "-1"},
              ssid : Ssids \cup {NULL}]
  /\ networks \in Networks /\ conf \in [Ids -> Ssids \cup {NULL}]
  /\ enabled \in SUBSET Ids /\ station \in Ids \cup {NULL}
  /\ budget \in 0..MaxCalls \cup {NULL}

(* Clients that wait for each other's connections never leave two entries  *)
(* for one network in wpa_supplicant, nor in its file: the search before   *)
(* add_network, the ids counted anew after a cancel and the removal of     *)
(* what failed do not come in between each other.                          *)
OneEntryPerNetwork == patient => Unique(networks) /\ Unique(conf)

(* Whatever the threads do to each other's flags, each thread that checks  *)
(* a connection ends.                                                      *)
EveryCheckEnds ==
  \A t \in Threads : check[t].pc = "created" ~> check[t].pc = "none"

Connecting ==
  /\ patient
  /\ \/ \E c \in Clients : call[c].pc \notin {"idle", "lock", "find"}
     \/ \E t \in Threads : Running(t)

(* From the reset of wifi_wrong_key on.                                    *)
Listens(c) ==
  /\ call[c].pc \notin {"idle", "lock"}
  /\ call[c].pc = "disable" => call[c].id # NULL
Listening == (\E c \in Clients : Listens(c)) \/ (\E t \in Threads : Running(t))

Names(n) == {n[i] : i \in Ids} \cap Ssids
At(t, pc, state) == check[t].pc = pc /\ check[t].state = state

(* The entry that is about to be set up is not the call's.                 *)
Strange(c) == networks[call[c].id] \notin {BLANK, call[c].ssid}

Attempt == INSTANCE WifiAttempt WITH
  goal <- IF Connecting THEN goal ELSE NULL,
  name <- IF Connecting THEN connect_info ELSE NULL,
  kept <- Connecting /\ wifi_is_exist,
  denied <- patient /\ \E c \in Clients : call[c].pc = "set" /\ Strange(c),
  known <- IF patient THEN Names(networks) ELSE {},
  saved <- IF patient THEN Names(conf) ELSE {},
  online <- IF patient /\ station # NULL THEN networks[station] ELSE NULL,
  seen <- patient /\ \E t \in Threads :
            check[t].pc = "connected" \/ At(t, "report", "DHCP_OK"),
  asked <- patient /\ wifi_cancel,
  cancelled <- patient /\ \E t \in Threads : check[t].pc = "cancelled",
  wrong <- patient /\ wifi_wrong_key /\ Listening,
  told <- told

(* To clients that wait for each other's connections the component is one  *)
(* that makes single attempts as WifiAttempt tells: the globals that the   *)
(* threads share are those of the attempt under way, but for a refused key *)
(* that is read late, an entry that is denied and a cancel that comes late.*)
(* For clients that do not wait nothing is claimed.                        *)
ImplementsAttempt == Attempt!Spec
=============================================================================
