----------------------------- MODULE MCRkTimer -----------------------------
(* Instances of RkTimer for TLC.                                           *)
EXTENDS RkTimer

(* A one-shot timer, one called back at every walk and a slower one.       *)
MCSettings ==
  { [time |-> 1, repeat |-> 0], [time |-> 0, repeat |-> 1], [time |-> 0, repeat |-> 2] }
=============================================================================
