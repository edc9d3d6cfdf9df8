----------------------------- MODULE Bluetooth -----------------------------
(***************************************************************************)
(* Bluetooth's profiles on bluez: DeviceIO/bluetooth/bluez/bt_hal.cpp and  *)
(* bluez_ctrl.cpp, with the serial port server and the threads that listen *)
(* to bluez-alsa.                                                          *)
(*                                                                         *)
(* A profile is a flag of bt_control; what serves it are processes that    *)
(* the library starts and kills: bluetoothd, which all need, one bluealsa  *)
(* with the audio profiles it was started for, and bluealsa-aplay.  The    *)
(* library does not watch them.  A flag counts while bluetoothd runs.      *)
(*                                                                         *)
(* One thread of the application makes one call after the other; a call is *)
(* a list todo of the functions it has still to go through, each of which  *)
(* is one action.  In between the other threads run, a phone comes and     *)
(* goes, and bluetoothd may die.  Connections and what D-Bus says of them  *)
(* are left out; a process that is killed ends.                            *)
(***************************************************************************)
EXTENDS SppServer, BtListener, Naturals, Sequences

CONSTANT
  MaxCalls   \* bound on the number of calls that are begun

ASSUME ListenersAssumption == Listeners = {"rfcomm", "underrun"}
ASSUME MaxCallsAssumption == MaxCalls \in Nat

Audio == {"source", "sink", "hfp"}
Flags == Audio \cup {"bt", "ble", "client"}

(* "stale": bluetoothd has died since.  "displaced": HFP or the sink, when *)
(* an open of another profile restarted bluealsa without closing it.       *)
(* "unopened": the sink, when rk_bt_control set its flag after the open    *)
(* had failed.  "taken": the source, when a close of an HFP that was       *)
(* displaced itself, or had outlived bluetoothd, killed bluealsa.          *)
Excuses == {"none", "stale", "displaced", "unopened", "taken"}

VARIABLES
  bt_control,  \* the flags is_..._open
  bluetoothd,  \* whether it runs
  bluealsa,    \* the profiles it was started for, {} when it does not run
  aplay,       \* whether bluealsa-aplay runs
  todo,        \* what is left of the application's call
  calls,       \* the number of calls begun
  off,         \* history: rk_bt_deinit is done and no call was begun since
  excuse       \* history: why nothing may serve the profile of a flag that
               \* is set (below)

processes == <<bluetoothd, bluealsa, aplay>>
state == <<bt_control, processes, excuse>>
client == <<todo, calls, off>>
vars == <<sppVars, listener, state, client>>

Functions ==
  {"_bt_close_server", "_bt_open_server", "bt_open",
   "sink_close", "source_close", "start_source", "start_sink", "control_sink",
   "start_hfp", "start_hfp_sink", "hfp_close", "hfp_closed", "underrun_join",
   "rfcomm_join", "spp_close", "spp_close_server", "spp_join",
   "ble_open", "ble_stop", "client_open", "client_close", "kill_all"}

(* Type invariant, and: tid is set exactly while a thread is not joined,   *)
(* so that no thread is created beside another.                            *)
TypeOK ==
  /\ SppTypeOK /\ ListenerTypeOK
  /\ bt_control \in [Flags -> BOOLEAN]
  /\ {bluetoothd, aplay, off} \subseteq BOOLEAN
  /\ bluealsa \subseteq Audio
  /\ todo \in Seq(Functions) /\ calls \in 0..MaxCalls
  /\ excuse \in [Flags -> Excuses]

Init ==
  /\ SppInit /\ ListenerInit
  /\ bt_control = [f \in Flags |-> FALSE]
  /\ bluetoothd = FALSE /\ bluealsa = {} /\ aplay = FALSE
  /\ todo = <<>> /\ calls = 0 /\ off = FALSE
  /\ excuse = [f \in Flags |-> "none"]

(* bt_is_open, bt_sink_is_open and the others.                             *)
IsOpen(f) == bt_control[f] /\ bluetoothd

-----------------------------------------------------------------------------
(* The calls, when they are not refused and have something to do.          *)

Begin(guard, functions) ==
  /\ todo = <<>> /\ guard /\ calls < MaxCalls
  /\ todo' = functions /\ calls' = calls + 1 /\ off' = FALSE
  /\ UNCHANGED <<sppVars, listener, state>>

CloseIf(f, close) == IF IsOpen(f) THEN <<close>> ELSE <<>>

rk_bt_init ==
  Begin(~IsOpen("bt"), <<"_bt_close_server", "_bt_open_server", "bt_open">>)
rk_bt_source_open ==
  Begin(IsOpen("bt") /\ ~IsOpen("source"), CloseIf("sink", "sink_close") \o <<"start_source">>)
rk_bt_sink_open ==
  Begin(IsOpen("bt") /\ ~IsOpen("sink"), CloseIf("source", "source_close") \o <<"start_sink">>)
BT_SINK_OPEN ==
  Begin(IsOpen("bt") /\ ~IsOpen("sink"), CloseIf("source", "source_close") \o <<"control_sink">>)
rk_bt_hfp_open ==
  Begin(IsOpen("bt") /\ ~IsOpen("hfp"), CloseIf("source", "source_close") \o <<"start_hfp">>)
rk_bt_hfp_sink_open ==
  Begin(IsOpen("bt") /\ ~IsOpen("sink") /\ ~IsOpen("hfp"),
        CloseIf("source", "source_close") \o <<"start_hfp_sink">>)
rk_bt_source_close == Begin(IsOpen("source"), <<"source_close">>)
rk_bt_sink_close == Begin(IsOpen("sink"), <<"sink_close">>)
rk_bt_hfp_close == Begin(IsOpen("hfp") \/ listener["rfcomm"].tid, <<"hfp_close">>)
rk_ble_start ==
  Begin(IsOpen("bt") /\ ~IsOpen("ble"), CloseIf("client", "client_close") \o <<"ble_open">>)
rk_ble_client_open ==
  Begin(IsOpen("bt") /\ ~IsOpen("client"), CloseIf("ble", "ble_stop") \o <<"client_open">>)
rk_ble_stop == Begin(IsOpen("ble"), <<"ble_stop">>)
rk_ble_client_close == Begin(IsOpen("client"), <<"client_close">>)
rk_bt_spp_close == Begin(spp.tid, <<"spp_close">>)

(* It leaves the serial port server alone.                                 *)
rk_bt_deinit_Unserved ==
  Begin(IsOpen("bt"),
        <<"hfp_close", "sink_close", "source_close", "ble_stop",
          "client_close", "kill_all">>)
rk_bt_deinit ==
  Begin(IsOpen("bt"),
        <<"hfp_close", "sink_close", "source_close", "spp_close", "ble_stop",
          "client_close", "kill_all">>)

rk_bt_spp_open ==
  /\ todo = <<>> /\ IsOpen("bt") /\ calls < MaxCalls
  /\ calls' = calls + 1 /\ off' = FALSE
  /\ bt_spp_server_open
  /\ UNCHANGED <<listener, state, todo>>

rk_bt_sink_register_underurn_callback ==
  /\ todo = <<>> /\ calls < MaxCalls
  /\ calls' = calls + 1 /\ off' = FALSE
  /\ listener' = Listening(listener, "underrun")
  /\ UNCHANGED <<sppVars, state, todo>>

Call ==
  \/ rk_bt_init \/ rk_bt_deinit
  \/ rk_bt_source_open \/ rk_bt_source_close
  \/ rk_bt_sink_open \/ BT_SINK_OPEN \/ rk_bt_sink_close
  \/ rk_bt_hfp_open \/ rk_bt_hfp_sink_open \/ rk_bt_hfp_close
  \/ rk_ble_start \/ rk_ble_stop \/ rk_ble_client_open \/ rk_ble_client_close
  \/ rk_bt_spp_open \/ rk_bt_spp_close
  \/ rk_bt_sink_register_underurn_callback

-----------------------------------------------------------------------------
(* What the calls go through.                                              *)

Does(function) == todo # <<>> /\ Head(todo) = function /\ UNCHANGED <<calls, off>>
Done == todo' = Tail(todo)
Goes(functions) == todo' = functions \o Tail(todo)
Fails == todo' = <<>>

(* To set and clear flags.  The first excuse of a flag, which why gives,   *)
(* lasts while it is set.                                                  *)
SetFlags(set, clear, why) ==
  /\ bt_control' = [f \in Flags |-> (bt_control[f] \/ f \in set) /\ f \notin clear]
  /\ excuse' = [f \in Flags |->
                  IF ~bt_control'[f] THEN "none"
                  ELSE IF excuse[f] = "none" THEN why[f]
                  ELSE excuse[f]]
Excuse(profiles, as) == [f \in Flags |-> IF f \in profiles THEN as ELSE "none"]
Unexcused == Excuse({}, "none")
Displaced(profile) == Excuse({profile}, "displaced")
Unopened == [Displaced("hfp") EXCEPT !["sink"] = "unopened"]
Taken == Excuse({"source"}, "taken")
Stale == excuse' = [f \in Flags |-> IF bt_control[f] THEN "stale" ELSE "none"]

(* bluealsa and bluealsa-aplay are killed and started anew for profiles:   *)
(* started is whether bluealsa was found, played whether bluealsa-aplay.   *)
Restart(profiles, started, played) ==
  /\ bluealsa' = IF started THEN profiles ELSE {}
  /\ aplay' = (started /\ played)
  /\ UNCHANGED bluetoothd

(* HFP is left open.                                                       *)
start_source ==
  /\ Does("start_source")
  /\ \/ Restart({"source"}, TRUE, FALSE) /\ SetFlags({"source"}, {}, Displaced("hfp")) /\ Done
     \/ Restart({}, FALSE, FALSE) /\ SetFlags({}, {"source"}, Displaced("hfp")) /\ Fails
  /\ UNCHANGED <<sppVars, listener>>

start_sink ==
  /\ Does("start_sink")
  /\ \/ Restart({"sink"}, TRUE, TRUE) /\ SetFlags({"sink"}, {}, Displaced("hfp")) /\ Done
     \/ /\ \E started \in BOOLEAN : Restart({"sink"}, started, FALSE)
        /\ SetFlags({}, {"sink"}, Displaced("hfp")) /\ Fails
  /\ UNCHANGED <<sppVars, listener>>

(* The same by rk_bt_control, which sets the flag in any case.             *)
control_sink ==
  /\ Does("control_sink") /\ Done
  /\ \/ Restart({"sink"}, TRUE, TRUE) /\ SetFlags({"sink"}, {}, Displaced("hfp"))
     \/ /\ \E started \in BOOLEAN : Restart({"sink"}, started, FALSE)
        /\ SetFlags({"sink"}, {}, Unopened)
  /\ UNCHANGED <<sppVars, listener>>

(* The sink is left open.  When the client of bluealsa cannot be opened,   *)
(* bluealsa is left running.                                               *)
start_hfp ==
  /\ Does("start_hfp")
  /\ \/ /\ Restart({"hfp"}, TRUE, FALSE) /\ SetFlags({"hfp"}, {}, Displaced("sink"))
        /\ listener' = Listening(listener, "rfcomm") /\ Done
     \/ /\ \E started \in BOOLEAN : Restart({"hfp"}, started, FALSE)
        /\ SetFlags({}, {"hfp"}, Displaced("sink")) /\ UNCHANGED listener /\ Fails
  /\ UNCHANGED sppVars

start_hfp_sink ==
  LET both == {"hfp", "sink"} IN
  /\ Does("start_hfp_sink")
  /\ \/ /\ Restart(both, TRUE, TRUE) /\ SetFlags(both, {}, Unexcused)
        /\ listener' = Listening(listener, "rfcomm") /\ Done
     \/ /\ \E started, played \in BOOLEAN : Restart(both, started, played)
        /\ SetFlags({}, both, Unexcused) /\ UNCHANGED listener /\ Fails
  /\ UNCHANGED sppVars

(* bt_hal_sink_close: with HFP open bluealsa is left to it.                *)
SharesWithHfp_Not == FALSE
SharesWithHfp == IsOpen("hfp")

bt_hal_sink_close ==
  /\ Does("sink_close")
  /\ UNCHANGED sppVars
  /\ \/ ~IsOpen("sink") /\ Done /\ UNCHANGED <<listener, state>>
     \/ /\ IsOpen("sink")
        /\ aplay' = FALSE
        /\ bluealsa' = IF SharesWithHfp THEN bluealsa ELSE {}
        /\ SetFlags({}, {"sink"}, Unexcused)
        /\ listener' = Stopped(listener, "underrun")
        /\ Goes(<<"underrun_join">>)
        /\ UNCHANGED bluetoothd

bt_hal_source_close ==
  /\ Does("source_close") /\ Done
  /\ UNCHANGED <<sppVars, listener>>
  /\ \/ ~IsOpen("source") /\ UNCHANGED state
     \/ /\ IsOpen("source")
        /\ bluealsa' = {} /\ SetFlags({}, {"source"}, Unexcused)
        /\ UNCHANGED <<bluetoothd, aplay>>

(* bt_hal_hfp_close stops the listener first, whether HFP is open or not.  *)
(* With the sink open bluealsa is left to it; when HFP has lost bluealsa   *)
(* to the source before, this takes it from the source.                    *)
bt_hal_hfp_close ==
  /\ Does("hfp_close")
  /\ listener' = Stopped(listener, "rfcomm")
  /\ Goes(<<"rfcomm_join", "hfp_closed">>)
  /\ UNCHANGED <<sppVars, state>>

HfpClosed ==
  /\ Does("hfp_closed") /\ Done
  /\ \/ ~IsOpen("hfp") /\ UNCHANGED state
     \/ /\ IsOpen("hfp") /\ IsOpen("sink")
        /\ SetFlags({}, {"hfp"}, Unexcused)
        /\ UNCHANGED processes
     \/ /\ IsOpen("hfp") /\ ~IsOpen("sink")
        /\ SetFlags({}, {"hfp"}, IF excuse["hfp"] = "none" THEN Unexcused ELSE Taken)
        /\ bluealsa' = {} /\ aplay' = FALSE
        /\ UNCHANGED bluetoothd
  /\ UNCHANGED <<sppVars, listener>>

Joins == [rfcomm |-> "rfcomm_join", underrun |-> "underrun_join"]
ListenerJoined(l) ==
  /\ Does(Joins[l]) /\ Done
  /\ Join(l)
  /\ UNCHANGED <<sppVars, state>>

(* bt_spp_server_close.                                                    *)
spp_close ==
  /\ Does("spp_close")
  /\ \/ CloseReturns /\ Done
     \/ CloseClient /\ Goes(<<"spp_close_server", "spp_join">>)
  /\ UNCHANGED <<listener, state>>

spp_close_server ==
  Does("spp_close_server") /\ CloseServer /\ Done /\ UNCHANGED <<listener, state>>
spp_join == Does("spp_join") /\ Joined /\ Done /\ UNCHANGED <<listener, state>>

(* bt_close_ble, gatt_client_close and the two opens.                      *)
Change(function, set, clear) ==
  /\ Does(function) /\ Done
  /\ SetFlags(set, clear, Unexcused)
  /\ UNCHANGED <<sppVars, listener, processes>>

ble ==
  \/ Change("ble_open", {"ble"}, {})
  \/ Change("ble_open", {}, {"ble"})
  \/ Change("client_open", {"client"}, {})
  \/ \E close \in {<<"ble_stop", "ble">>, <<"client_close", "client">>} :
       Change(close[1], {}, IF IsOpen(close[2]) THEN {close[2]} ELSE {})

(* rk_bt_control(BT_OPEN).  The flags of profiles that were open when      *)
(* bluetoothd died are set still.                                          *)
_bt_close_server ==
  /\ Does("_bt_close_server") /\ Done
  /\ bluetoothd' = FALSE /\ bluealsa' = {} /\ aplay' = FALSE
  /\ Stale
  /\ UNCHANGED <<sppVars, listener, bt_control>>

_bt_open_server ==
  /\ Does("_bt_open_server")
  /\ \/ bluetoothd' = TRUE /\ Done
     \/ bluetoothd' = FALSE /\ Fails
  /\ UNCHANGED <<sppVars, listener, bt_control, bluealsa, aplay, excuse>>

bt_open ==
  /\ Does("bt_open")
  /\ \/ SetFlags({"bt"}, {}, Unexcused) /\ Done
     \/ UNCHANGED <<bt_control, excuse>> /\ Fails
  /\ UNCHANGED <<sppVars, listener, processes>>

(* The end of rk_bt_deinit.                                                *)
kill_all ==
  /\ todo # <<>> /\ Head(todo) = "kill_all" /\ Done
  /\ bluetoothd' = FALSE /\ bluealsa' = {} /\ aplay' = FALSE
  /\ SetFlags({}, {"bt"}, Unexcused)
  /\ off' = TRUE
  /\ UNCHANGED <<sppVars, listener, calls>>

Step ==
  \/ start_source \/ start_sink \/ control_sink \/ start_hfp \/ start_hfp_sink
  \/ bt_hal_sink_close \/ bt_hal_source_close \/ bt_hal_hfp_close \/ HfpClosed
  \/ \E l \in Listeners : ListenerJoined(l)
  \/ spp_close \/ spp_close_server \/ spp_join \/ ble
  \/ _bt_close_server \/ _bt_open_server \/ bt_open \/ kill_all

-----------------------------------------------------------------------------
(* The others.                                                             *)

SppThread == spp_server_thread /\ UNCHANGED <<listener, state, client>>
Phone == (PeerConnects \/ PeerLeaves) /\ UNCHANGED <<listener, state, client>>
ListenerThread(l) == Listen(l) /\ UNCHANGED <<sppVars, state, client>>

(* A message of bluez-alsa: the thread of the underrun ends when it finds  *)
(* the sink closed, the other stays.                                       *)
UnderrunMessage ==
  /\ listener["underrun"].pc = "recv" /\ ~IsOpen("sink")
  /\ listener' = [listener EXCEPT !["underrun"].pc = "ended"]
  /\ UNCHANGED <<sppVars, state, client>>

BluetoothdDies ==
  /\ bluetoothd /\ bluetoothd' = FALSE
  /\ Stale
  /\ UNCHANGED <<sppVars, listener, bt_control, bluealsa, aplay, client>>

Next ==
  \/ Call \/ Step \/ SppThread \/ Phone \/ UnderrunMessage \/ BluetoothdDies
  \/ \E l \in Listeners : ListenerThread(l)

(* The threads run on; the application goes through with a call it began.  *)
(* Every step of each changes the variable named with it.                  *)
Fairness ==
  /\ WF_todo(Step) /\ WF_spp(SppThread)
  /\ \A l \in Listeners : WF_listener(ListenerThread(l))

Spec == Init /\ [][Next]_vars /\ Fairness

-----------------------------------------------------------------------------
(* Between calls a profile that is open is served: bluealsa runs with it,  *)
(* and for the sink bluealsa-aplay too.  The sink and HFP share one        *)
(* bluealsa, and closing one of them must leave it to the other; a close   *)
(* that comes with the opening of another profile must come first.         *)
(* Excused, each in its own case only, are four things the code does:      *)
(* flags outlive bluetoothd; an open, done or failed, of the source or the *)
(* sink takes bluealsa from HFP, and one of HFP from the sink, and leaves  *)
(* the flag; rk_bt_control sets the flag of a sink that failed to open;    *)
(* and a close of HFP kills the bluealsa of the source when HFP had lost   *)
(* its own.  Nothing excuses a source that lost bluealsa to an open, or    *)
(* the sink to a close.                                                    *)
OpenIsServed ==
  todo = <<>> =>
    \A p \in Audio : bt_control[p] /\ excuse[p] = "none" =>
      p \in bluealsa /\ (p = "sink" => aplay)

(* The document of rk_bt_hfp_open: it excludes the sink, whose service it  *)
(* ends before it starts HFP's.  From a sink that is open alone no step    *)
(* leads to both; rk_bt_hfp_sink_open, which is for both, is refused then. *)
HfpExcludesSink ==
  [][IsOpen("sink") /\ ~IsOpen("hfp") => ~(IsOpen("sink") /\ IsOpen("hfp"))']_vars

(* When rk_bt_deinit has returned nothing is open, and no process and no   *)
(* thread is left of HFP and, but for one that failed to start and is on   *)
(* its way out, of the serial port server; nothing is said of the listener *)
(* for the underrun, which the close of a sink that is not open leaves.    *)
(* Excused are flags that had outlived bluetoothd once, and a server that  *)
(* was told to close before its thread had set server_running: the close   *)
(* does nothing then, and the server runs on without Bluetooth.            *)
OffIsOff ==
  off =>
    /\ \A f \in Flags : bt_control[f] => excuse[f] = "stale"
    /\ ~bluetoothd /\ bluealsa = {} /\ ~aplay
    /\ ~listener["rfcomm"].tid
    /\ spp.pc \in {"none", "out", "ended"} \/ missed

(* A call returns, although it joins threads that wait on sockets.  Not    *)
(* when a phone was accepted after the close had shut down the client of   *)
(* the serial port server, until that phone leaves;  nor when the listener *)
(* created its socket after the stop had looked for one.                   *)
Held ==
  \/ Head(todo) = "spp_join" /\ late /\ spp.pc \in {"connect", "read"}
  \/ \E l \in Listeners : Head(todo) = Joins[l] /\ Deaf(l)
CallEnds == (todo # <<>>) ~> (todo = <<>> \/ Held)
=============================================================================
