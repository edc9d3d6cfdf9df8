-------------------------- MODULE MCKeyTransaction --------------------------
(* Instances of KeyTransaction for TLC.                                    *)
EXTENDS KeyTransaction

(* Sequences with and without repeated and shared first keys, one that     *)
(* continues with the first key of another, and one of a single key.       *)
MCTransactions ==
  { [keys |-> <<1, 2>>, time |-> 1],
    [keys |-> <<3, 2, 2>>, time |-> 1],
    [keys |-> <<2, 1, 3>>, time |-> 0],
    [keys |-> <<1, 1, 2>>, time |-> 1],
    [keys |-> <<3>>, time |-> 1] }
=============================================================================
