----------------------------- MODULE SppServer -----------------------------
(***************************************************************************)
(* The serial port server, DeviceIO/bluetooth/bluez/spp_server/spp_server. *)
(* cpp: a thread that accepts one phone after the other and reads from it, *)
(* and the open and close of the application.  Both write the file         *)
(* descriptors, server_running and tid of g_spp_handler without a lock;    *)
(* every action here is a run of statements that touches them once.        *)
(*                                                                         *)
(* A descriptor is represented by whether it is set: it is never set while *)
(* another is, and setting it to -1 is always preceded by its shutdown.    *)
(* The data read and written is left out, as are the callbacks.            *)
(***************************************************************************)
VARIABLES
  spp,    \* g_spp_handler [tid, running, server_fd, client_fd, state] and the
          \* place pc of spp_server_thread
  peer,   \* the phone: "none", "waiting" to be accepted or "connected"
  missed, \* history: a close returned at once because the thread created
          \* before had not yet set server_running
  late    \* history: the phone was accepted after the close began

sppVars == <<spp, peer, missed, late>>

SppTypeOK ==
  /\ spp \in [tid : BOOLEAN, running : BOOLEAN, server_fd : BOOLEAN,
              client_fd : BOOLEAN, state : {"IDLE", "CONNECT", "DISCONNECT"},
              pc : {"none", "start", "loop", "select", "accept", "connect",
                    "read", "out", "ended"}]
  /\ peer \in {"none", "waiting", "connected"}
  /\ {missed, late} \subseteq BOOLEAN
  /\ spp.tid <=> spp.pc # "none"

SppInit ==
  /\ spp = [tid |-> FALSE, running |-> FALSE, server_fd |-> FALSE,
            client_fd |-> FALSE, state |-> "IDLE", pc |-> "none"]
  /\ peer = "none" /\ missed = FALSE /\ late = FALSE

(* What the phone sees of the shutdown of a descriptor.                    *)
ClientShut == IF spp.client_fd /\ peer = "connected" THEN "none" ELSE peer
ServerShut(p) == IF p = "waiting" THEN "none" ELSE p

-----------------------------------------------------------------------------
(* spp_server_thread.                                                      *)

(* socket, bind and listen; server_running is set last.                    *)
Start ==
  /\ spp.pc = "start"
  /\ \/ spp' = [spp EXCEPT !.server_fd = TRUE, !.running = TRUE, !.pc = "loop"]
     \/ spp' = [spp EXCEPT !.pc = "out"]
  /\ UNCHANGED <<peer, missed, late>>

Loop ==
  /\ spp.pc = "loop"
  /\ spp' = [spp EXCEPT !.pc = IF spp.running THEN "select" ELSE "out"]
  /\ UNCHANGED <<peer, missed, late>>

(* select waits for 100 ms the first time and not at all later.  It may be *)
(* interrupted, which ends the thread.  With a descriptor taken away by    *)
(* bt_spp_server_close, FD_SET and FD_ISSET of -1 are undefined: anything  *)
(* may come of them.                                                       *)
Select ==
  /\ spp.pc = "select"
  /\ \/ spp' = [spp EXCEPT !.pc = "out"]
     \/ (spp.server_fd => peer # "waiting") /\ spp' = [spp EXCEPT !.pc = "loop"]
     \/ (spp.server_fd => peer = "waiting") /\ spp' = [spp EXCEPT !.pc = "accept"]
  /\ UNCHANGED <<peer, missed, late>>

Accept ==
  /\ spp.pc = "accept"
  /\ \/ /\ spp.server_fd /\ peer = "waiting"
        /\ spp' = [spp EXCEPT !.client_fd = TRUE, !.pc = "connect"]
        /\ peer' = "connected"
        /\ late' = ~spp.running
     \/ /\ spp' = [spp EXCEPT !.client_fd = FALSE, !.pc = "out"]
        /\ UNCHANGED <<peer, late>>
  /\ UNCHANGED missed

Announce ==
  /\ spp.pc = "connect"
  /\ spp' = [spp EXCEPT !.state = "CONNECT", !.pc = "read"]
  /\ UNCHANGED <<peer, missed, late>>

(* The end of the connection, or of the descriptor.                        *)
Read ==
  /\ spp.pc = "read" /\ ~(spp.client_fd /\ peer = "connected")
  /\ spp' = [spp EXCEPT !.client_fd = FALSE, !.state = "DISCONNECT", !.pc = "loop"]
  /\ UNCHANGED <<peer, missed, late>>

(* OUT: tid and server_running are left as they are.                       *)
Out ==
  /\ spp.pc = "out"
  /\ spp' = [spp EXCEPT !.client_fd = FALSE, !.server_fd = FALSE,
                        !.state = "IDLE", !.pc = "ended"]
  /\ peer' = ServerShut(ClientShut)
  /\ UNCHANGED <<missed, late>>

spp_server_thread ==
  Start \/ Loop \/ Select \/ Accept \/ Announce \/ Read \/ Out

PeerConnects ==
  /\ spp.server_fd /\ peer = "none"
  /\ peer' = "waiting"
  /\ UNCHANGED <<spp, missed, late>>

PeerLeaves ==
  /\ peer = "connected"
  /\ peer' = "none"
  /\ UNCHANGED <<spp, missed, late>>

-----------------------------------------------------------------------------
(* The application's calls.                                                *)

bt_spp_server_open ==
  /\ ~spp.tid
  /\ spp' = [spp EXCEPT !.tid = TRUE, !.pc = "start"]
  /\ UNCHANGED <<peer, missed, late>>

(* The first half of bt_spp_server_close, before it sleeps: nothing, when  *)
(* the server is not running.                                              *)
CloseReturns ==
  /\ ~spp.running
  /\ missed' = (missed \/ spp.pc = "start")
  /\ UNCHANGED <<spp, peer, late>>

CloseClient ==
  /\ spp.running
  /\ spp' = [spp EXCEPT !.running = FALSE, !.client_fd = FALSE]
  /\ peer' = ClientShut
  /\ UNCHANGED <<missed, late>>

(* The second, after 100 ms: close_server_fd, then pthread_join.           *)
CloseServer ==
  /\ spp' = [spp EXCEPT !.server_fd = FALSE]
  /\ peer' = ServerShut(peer)
  /\ UNCHANGED <<missed, late>>

(* It forgets to clear tid.                                                *)
Joined_Kept ==
  /\ spp.pc = "ended"
  /\ spp' = [spp EXCEPT !.state = "IDLE", !.pc = "none"]
  /\ missed' = FALSE /\ late' = FALSE
  /\ UNCHANGED peer

Joined ==
  /\ spp.pc = "ended"
  /\ spp' = [spp EXCEPT !.tid = FALSE, !.state = "IDLE", !.pc = "none"]
  /\ missed' = FALSE /\ late' = FALSE
  /\ UNCHANGED peer
=============================================================================
