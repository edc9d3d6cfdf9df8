---------------------------- MODULE MCBluetooth ----------------------------
(* Five calls: enough to initialize, open two things, close or lose one    *)
(* and deinitialize.                                                       *)
EXTENDS Bluetooth
=============================================================================
