---------------------------- MODULE MCKVServer ----------------------------
(* Small services for TLC.                                                 *)
EXTENDS KVServer, TLC

CONSTANTS c1, c2, k1, k2

Clients == Permutations(Client)
Keys    == Permutations(Key)
=============================================================================
