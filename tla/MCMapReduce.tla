---------------------------- MODULE MCMapReduce ----------------------------
(* Jobs for TLC: which buckets the keys of each input file fall into.      *)
EXTENDS MapReduce, TLC

CONSTANTS f1, f2, w1, w2, w3

\* Every file has keys for every bucket.
AllToAll == [f \in File |-> Bucket]

\* The first file has keys for every bucket, the others for the first only.
Uneven == [f \in File |-> IF f = f1 THEN Bucket ELSE {1}]

Workers == Permutations(Worker)
=============================================================================
