---------------------------- MODULE MCKeyCompose ----------------------------
(* Instances of KeyCompose for TLC.                                        *)
EXTENDS KeyCompose

(* Two that overlap, one with the keys of the first, and one with a key    *)
(* that ends like another.                                                 *)
MCComposes ==
  { [keys |-> <<1, 2>>, time |-> 2],
    [keys |-> <<2, 3>>, time |-> 1],
    [keys |-> <<1, 2>>, time |-> 1],
    [keys |-> <<12, 3>>, time |-> 1] }

(* Two that share a key.                                                  *)
MCPair == { [keys |-> <<1, 2>>, time |-> 2], [keys |-> <<1, 3>>, time |-> 2] }
=============================================================================
