------------------------------- MODULE Clerk -------------------------------
(***************************************************************************)
(* The retry loops of kvraft/client.go: one operation of one clerk.  The   *)
(* calls go through module Network; module KVHarness composes the two with *)
(* servers that crash and change their leader.  What the servers store is  *)
(* in module KVServer.                                                     *)
(***************************************************************************)
EXTENDS Integers

CONSTANT nServers  \* servers are 0 .. nServers-1

ASSUME ClerkAssumption == nServers \in Nat \ {0}

NoCall == 0

VARIABLES
    method,       \* "Get" or "PutAppend"
    leaderIndex,  \* the server the clerk asks
    asking,       \* the call it waits for, or NoCall
    answered      \* the method has returned

clerk == <<method, leaderIndex, asking, answered>>

ClerkInit ==
    /\ method \in {"Get", "PutAppend"}
    /\ leaderIndex \in 0..(nServers - 1)
    /\ asking = NoCall /\ answered = FALSE

-----------------------------------------------------------------------------

\* Mutant: it never goes back to the first server.
changeLeaderUpwards ==
    leaderIndex' = IF leaderIndex = nServers - 1 THEN leaderIndex ELSE leaderIndex + 1

\* Mutant: % len(ck.servers) is left out.
changeLeaderOutside == leaderIndex' = leaderIndex + 1

changeLeader == leaderIndex' = (leaderIndex + 1) % nServers

\* sendGetWithTimeOut, sendPutAppendWithTimeOut: the goroutine that makes the call.
Ask(c) ==
    /\ ~answered /\ asking = NoCall
    /\ asking' = c
    /\ UNCHANGED <<method, leaderIndex, answered>>

\* Call returns within 3 s: OK (or ErrNoKey, for Get) ends the loop, ErrWrongLeader
\* changes the server, and so does a failed call, in PutAppend.
Told(c, ok, err) ==
    /\ asking = c
    /\ asking' = NoCall
    /\ \/ ok /\ err = "OK" /\ answered' = TRUE /\ UNCHANGED leaderIndex
       \/ /\ (ok /\ err = "ErrWrongLeader") \/ (~ok /\ method = "PutAppend")
          /\ changeLeader /\ UNCHANGED answered
       \/ ~ok /\ method = "Get" /\ UNCHANGED <<leaderIndex, answered>>
    /\ UNCHANGED method

\* It does not: the goroutine is left to itself.
TimeOut ==
    /\ asking # NoCall
    /\ asking' = NoCall
    /\ UNCHANGED <<method, leaderIndex, answered>>
=============================================================================
