---------------------------- MODULE MCKVHarness ----------------------------
(* Instance of KVHarness: three servers, of which one or all are shut down. *)
EXTENDS KVHarness

Shuffled == [i \in 0..2 |-> (3 - i) % 3]
Downs == {{1}, {0, 1, 2}}
Cuts == {{0}}
=============================================================================
