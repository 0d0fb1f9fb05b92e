------------------------------- MODULE MCRaft -------------------------------
(* Raft for TLC: the elections each run allows, and a symmetry set.        *)
EXTENDS Raft, TLC

CONSTANTS s1, s2, s3, s4, s5

TwoRivals   == {s1, s2} \X {1}
Overtaken   == {<<s1, 1>>, <<s2, 1>>, <<s2, 2>>}

\* Peers that never start an election, are never faulty, and whose services neither
\* compact nor start commands, may be exchanged.
Passive ==
    Permutations({s \in Server \ (Compacting \cup Serving \cup Faulty) :
                    \A r \in Rounds : r[1] # s})
=============================================================================
