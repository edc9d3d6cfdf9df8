----------------------------- MODULE BtListener -----------------------------
(***************************************************************************)
(* The threads that listen to bluez-alsa on a datagram socket, one for the *)
(* status of a telephone (rfcomm_listen, DeviceIO/bluetooth/bluez/         *)
(* bluez_alsa_client/rfcomm_msg.cpp) and one for the underrun of music     *)
(* (underrun_listen, DeviceIO/bluetooth/bluez/bt_hal.cpp).  They are       *)
(* written alike: the thread stores its socket in a global variable, the   *)
(* stop shuts down the socket it finds there, and joins the thread.        *)
(***************************************************************************)
CONSTANT Listeners

VARIABLE listener
  \* of each: tid, whether the global variable sockfd is set, whether the
  \* socket the thread waits on has been shut down, and the thread's place pc

ListenerTypeOK ==
  /\ listener \in [Listeners -> [tid : BOOLEAN, sockfd : BOOLEAN, shut : BOOLEAN,
                                 pc : {"none", "socket", "bind", "recv", "ended"}]]
  /\ \A l \in Listeners : listener[l].tid <=> listener[l].pc # "none"

ListenerInit ==
  listener = [l \in Listeners |->
                [tid |-> FALSE, sockfd |-> FALSE, shut |-> FALSE, pc |-> "none"]]

-----------------------------------------------------------------------------
(* The thread.                                                             *)

Socket(l) ==
  /\ listener[l].pc = "socket"
  /\ \/ listener' = [listener EXCEPT ![l].sockfd = TRUE, ![l].shut = FALSE,
                                     ![l].pc = "bind"]
     \/ listener' = [listener EXCEPT ![l].pc = "ended"]

(* bind and recvfrom of the global variable, which the stop may have set   *)
(* to -1.                                                                  *)
Bind(l) ==
  /\ listener[l].pc = "bind"
  /\ \/ listener[l].sockfd /\ listener' = [listener EXCEPT ![l].pc = "recv"]
     \/ listener' = [listener EXCEPT ![l].pc = "ended"]

(* recvfrom returns nothing once the socket is shut down.  The messages    *)
(* are in Bluetooth.                                                       *)
Shut(l) ==
  /\ listener[l].pc = "recv" /\ listener[l].shut
  /\ listener' = [listener EXCEPT ![l].pc = "ended"]

Listen(l) == Socket(l) \/ Bind(l) \/ Shut(l)

-----------------------------------------------------------------------------
(* The calls: nothing is created while tid is set.                         *)

Listening(L, l) ==
  IF L[l].tid THEN L ELSE [L EXCEPT ![l].tid = TRUE, ![l].pc = "socket"]

Stopped_Unshut(L, l) == [L EXCEPT ![l].sockfd = FALSE]

Stopped(L, l) ==
  [L EXCEPT ![l].shut = (@ \/ L[l].sockfd), ![l].sockfd = FALSE]

Join(l) ==
  /\ listener[l].tid => listener[l].pc = "ended"
  /\ listener' = [listener EXCEPT ![l].tid = FALSE, ![l].pc = "none"]

(* A thread that has made its socket after the stop has looked for one is  *)
(* joined while it listens.                                                *)
Deaf(l) == listener[l].pc \in {"bind", "recv"} /\ listener[l].sockfd
=============================================================================
