----------------------------- MODULE KVHarness -----------------------------
(***************************************************************************)
(* A clerk, the network and the servers as kvraft/config.go runs them: a   *)
(* tester partitions the servers, reconnects them, shuts some of them down *)
(* and starts them again, as GenericTest does, while the clerk goes on     *)
(* asking.  Of a server, only this is modelled: whether its instance runs, *)
(* which Persister it writes to, and whether it can commit.                *)
(***************************************************************************)
EXTENDS Clerk, Network, FiniteSets

CONSTANTS
    Handles,  \* [Host -> Host], the clerk's shuffled handles (config.go:36-45)
    Victims,  \* bound: the sets of servers that the tester may shut down
    Sides     \* bound: the sets of servers that it may cut off from the others

VARIABLES
    instance,  \* [Host -> the number of the latest instance of the server]
    live,      \* the servers whose latest instance is not killed
    attached,  \* the servers whose latest instance writes to saved[i]
    saved,     \* the servers whose saved[i] holds the clerk's operation
    leader,    \* the Raft leader, or NoLeader
    victims,   \* the servers that the tester will shut down
    tester,    \* the step it is at
    todo       \* and the servers it has still to stop or to start

servant == <<instance, live, attached, saved, leader>>
driver == <<victims, tester, todo>>
vars == <<clerk, enabled, servers, net, servant, driver>>

NoLeader == -1
Ck == nServers  \* the owner of the clerk's ends

ASSUME HarnessAssumption ==
    /\ Host = 0..(nServers - 1) /\ Owner = 0..nServers
    /\ Handles \in [Host -> Host] /\ Host = {Handles[i] : i \in Host}
    /\ NoCall \notin Call
    /\ Reply = {"OK", "ErrWrongLeader"}
    /\ Victims \subseteq (SUBSET Host) \ {{}} /\ Sides \subseteq SUBSET Host

Majority(Q) == 2 * Cardinality(Q) > nServers

\* The servers that a server reaches through its ends, and itself.
Reached(s) == {s} \cup {q \in Host : <<s, q>> \in enabled /\ servers[q] # 0}

-----------------------------------------------------------------------------
(* The servers.                                                            *)

\* A leader is elected where there is none that can commit.
ElectLeader(s) ==
    /\ s \in live /\ Majority(Reached(s))
    /\ leader = NoLeader \/ ~Majority(Reached(leader))
    /\ leader' = s
    /\ UNCHANGED <<clerk, enabled, servers, net, instance, live, attached, saved, driver>>

\* The handler of the leader returns OK: the operation is in the logs of a majority,
\* each in the Persister of its instance.
Commit(c) ==
    /\ net[c].running
    /\ LET s == connections(net[c].end) IN
       /\ s = leader /\ s \in live /\ net[c].server = instance[s]
       /\ \E Q \in SUBSET Reached(s) :
             /\ s \in Q /\ Majority(Q)
             /\ saved' = saved \cup (Q \cap attached)
    /\ HandlerReturns(c, "OK")
    /\ UNCHANGED <<clerk, instance, live, attached, leader, driver>>

\* It, or any other one, returns ErrWrongLeader, after 2 s at the latest.
Refuse(c) ==
    /\ HandlerReturns(c, "ErrWrongLeader")
    /\ UNCHANGED <<clerk, servant, driver>>

-----------------------------------------------------------------------------
(* The clerk and the network.                                              *)

AskServer(c) ==
    /\ Ask(c)
    /\ Send(c, <<Ck, Handles[leaderIndex]>>)
    /\ UNCHANGED <<servant, driver>>

HearServer(c) ==
    /\ Told(c, net[c].ok, net[c].reply)
    /\ Return(c)
    /\ UNCHANGED <<servant, driver>>

GiveUp == TimeOut /\ UNCHANGED <<enabled, servers, net, servant, driver>>

\* The goroutine of a call that timed out: taskDone <- ok.
ReturnLate(c) ==
    /\ asking # c /\ Return(c)
    /\ UNCHANGED <<clerk, servant, driver>>

Transport(c) ==
    /\ LoseRequest(c) \/ Deliver(c) \/ Poll(c) \/ Finish(c) \/ LoseReply(c) \/ Forget(c)
    /\ UNCHANGED <<clerk, servant, driver>>

-----------------------------------------------------------------------------
(* The tester.                                                             *)

Links(p, q) == (p \X q) \cup (q \X p)

\* partition: enabled within the two sides, disabled between them.
Partition(side) ==
    /\ tester = "run" /\ tester' = "parted"
    /\ enabled' = (enabled \cup Links(side, side) \cup Links(Host \ side, Host \ side))
                    \ Links(side, Host \ side)
    /\ UNCHANGED <<clerk, servers, net, servant, victims, todo>>

\* ConnectAll, before the first server is shut down and after the last has started.
ConnectAll ==
    /\ tester \in {"run", "parted", "connect"}
    /\ tester' = IF tester = "connect" THEN "end" ELSE "stop"
    /\ enabled' = enabled \cup Links(Host, Host)
    /\ UNCHANGED <<clerk, servers, net, servant, victims, todo>>

\* The loops over the servers, first to last.
Turn(i) == i \in todo /\ \A j \in todo : i <= j

Done(i, loop, then) ==
    /\ tester' = IF todo = {i} THEN then ELSE loop
    /\ todo' = IF todo = {i} THEN victims ELSE todo \ {i}

\* Mutant: the Persister is superseded while the server can be reached.
IsolateLater(i) ==
    /\ tester = "stop" /\ Turn(i)
    /\ tester' = "copy"
    /\ attached' = attached \ {i}
    /\ UNCHANGED <<clerk, enabled, servers, net, instance, live, saved, leader,
                   victims, todo>>

\* ShutdownServer, first part: the server's ends are disabled and it is deleted.
Isolate(i) ==
    /\ tester = "stop" /\ Turn(i)
    /\ tester' = "copy"
    /\ enabled' = enabled \ Links({i}, Host)
    /\ DeleteServer(i)
    /\ UNCHANGED <<clerk, net, servant, victims, todo>>

\* Second part: saved[i] is a copy; the old instance keeps the old Persister.
CopyPersister(i) ==
    /\ tester = "copy" /\ Turn(i)
    /\ tester' = "kill"
    /\ attached' = attached \ {i}
    /\ UNCHANGED <<clerk, enabled, servers, net, instance, live, saved, leader,
                   victims, todo>>

\* Third part: Kill.
KillServer(i) ==
    /\ tester = "kill" /\ Turn(i)
    /\ Done(i, "stop", "start")
    /\ live' = live \ {i}
    /\ leader' = IF leader = i THEN NoLeader ELSE leader
    /\ UNCHANGED <<clerk, enabled, servers, net, instance, attached, saved, victims>>

\* StartServer: fresh ends, disabled; a fresh copy of the Persister; StartKVServer.
StartServer(i) ==
    /\ tester = "start" /\ Turn(i)
    /\ tester' = "add"
    /\ enabled' = enabled \ ({i} \X Host)
    /\ instance' = [instance EXCEPT ![i] = @ + 1]
    /\ live' = live \cup {i} /\ attached' = attached \cup {i}
    /\ UNCHANGED <<clerk, servers, net, saved, leader, victims, todo>>

\* It ends with AddServer.
Register(i) ==
    /\ tester = "add" /\ Turn(i)
    /\ Done(i, "start", "connect")
    /\ AddServer(i, instance[i])
    /\ UNCHANGED <<clerk, enabled, net, servant, victims>>

-----------------------------------------------------------------------------

\* make_config and makeClient(All()) have returned.
Init ==
    /\ ClerkInit
    /\ enabled = End
    /\ servers = [h \in Host |-> 1] /\ net = [c \in Call |-> Idle]
    /\ instance = [h \in Host |-> 1] /\ live = Host /\ attached = Host /\ saved = {}
    /\ leader = NoLeader
    /\ victims \in Victims /\ tester = "run" /\ todo = victims

Tester ==
    \/ ConnectAll
    \/ \E side \in Sides : Partition(side)
    \/ \E i \in Host :
          Isolate(i) \/ CopyPersister(i) \/ KillServer(i) \/ StartServer(i) \/ Register(i)

Next ==
    \/ \E c \in Call :
          \/ AskServer(c) \/ HearServer(c) \/ ReturnLate(c) \/ Transport(c)
          \/ Commit(c) \/ Refuse(c)
    \/ GiveUp
    \/ \E s \in Host : ElectLeader(s)
    \/ Tester

DeliverTo(c, h) ==
    Deliver(c) /\ connections(net[c].end) = h /\ UNCHANGED <<clerk, servant, driver>>
FinishWith(c, r) == Finish(c) /\ net[c].reply = r /\ UNCHANGED <<clerk, servant, driver>>
Current(c) ==
    LET s == connections(net[c].end) IN s \in live /\ net[c].server = instance[s]

\* The tester goes on, except that it may leave servers down while a majority
\* runs and is connected.
\* A leader is elected where one can be.  processReq goes on, and so does a handler
\* as long as its instance runs: of a killed one, nothing is assumed (module
\* ServerLocks).  Requests and replies are not always lost, and a leader that is
\* asked time and again answers OK.  A handler waits 2 s at most and a dead server is
\* noticed within 100 ms, so that in the end no call takes more than 3 s.
Fairness ==
    /\ WF_vars(Tester /\ ~(/\ tester \in {"start", "connect"}
                           /\ \E s \in live : Majority(Reached(s))))
    /\ WF_vars(\E s \in Host : ElectLeader(s))
    /\ WF_vars(\E c \in Call : AskServer(c))
    /\ \A c \in Call :
          /\ WF_vars(Transport(c)) /\ WF_vars(HearServer(c)) /\ WF_vars(ReturnLate(c))
          /\ WF_vars(Refuse(c) /\ Current(c))
          /\ SF_vars(Commit(c))
          /\ \A h \in Host : SF_vars(DeliverTo(c, h))
          /\ \A r \in Reply : SF_vars(FinishWith(c, r))
    /\ <>[][~GiveUp]_vars

Spec == Init /\ [][Next]_vars /\ Fairness

-----------------------------------------------------------------------------

\* The states of clerk, network, servers and tester.
TypeOK ==
    /\ method \in {"Get", "PutAppend"} /\ leaderIndex \in Host
    /\ asking \in Call \cup {NoCall} /\ answered \in BOOLEAN
    /\ TypeOKNetwork
    /\ instance \in [Host -> Nat]
    /\ \A V \in {live, attached, saved, victims, todo} : V \subseteq Host
    /\ leader \in Host \cup {NoLeader}
    /\ tester \in {"run", "parted", "stop", "copy", "kill", "start", "add",
                   "connect", "end"}

\* Once the clerk has its answer, the saved Persisters of a majority hold the
\* operation, also of servers that are shut down meanwhile ("to avoid the possibility
\* of the server returning a positive reply to an Append but persisting the result in
\* the superseded Persister", config.go:264-269 and labrpc.go:264-269).
ReplyPersisted == answered => Majority(saved)

\* labrpc keeps its promises: at most one execution, true only after one.
RPCPromise == Promise!Spec

\* A call returns, although the handlers of a killed server need not ("Call() is
\* guaranteed to return ... *except* if the handler function on the server side does
\* not return", labrpc.go:37-38).
CallReturns ==
    \A c \in Call :
        net[c].stage \in {"sent", "wait"} ~> net[c].stage \notin {"sent", "wait"}

\* While a majority of the servers runs, an operation is answered, wherever the
\* clerk starts and whichever servers are down ("只要大多数服务器处于活动状态并且可以
\* 通信 ... 您的 kv 服务都应该继续处理客户端请求", docs/lab3.md:15); except a Get that
\* asks a server which stays down: after a failed call it asks the same one again
\* (client.go:88-104).
Answered == <>answered \/ (method = "Get" /\ <>[](servers[Handles[leaderIndex]] = 0))
=============================================================================
