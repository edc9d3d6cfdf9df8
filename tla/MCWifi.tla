------------------------------- MODULE MCWifi -------------------------------
(* Instances of Wifi for TLC.                                              *)
EXTENDS Wifi

CONSTANT s1

(* A file with one network.                                                *)
MCConfigurations == { [i \in Ids |-> IF i = 0 THEN s1 ELSE NULL] }
=============================================================================
