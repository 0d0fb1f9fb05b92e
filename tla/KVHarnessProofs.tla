-------------------------- MODULE KVHarnessProofs --------------------------
(***************************************************************************)
(* Proofs about the clerk, the network and the tester together, for any    *)
(* number of servers and calls and whichever servers are shut down and cut *)
(* off: labrpc keeps the promises of module RPC, and an answered operation *)
(* is in the saved Persisters of a majority.                               *)
(***************************************************************************)
EXTENDS KVHarness, FiniteSetTheorems, TLAPS

-----------------------------------------------------------------------------
(* Types.                                                                  *)

\* changeLeader stays within the servers.
LEMMA LeaderIndexWraps ==
    ASSUME leaderIndex \in 0..(nServers - 1), changeLeader
    PROVE  leaderIndex' \in 0..(nServers - 1)
  BY ClerkAssumption DEF changeLeader

\* A clerk's step keeps its types.
LEMMA ClerkSteps ==
    ASSUME TypeOK, NEW c \in Call, NEW ok \in BOOLEAN, NEW err,
           Ask(c) \/ Told(c, ok, err) \/ TimeOut
    PROVE  /\ method' \in {"Get", "PutAppend"} /\ leaderIndex' \in Host
           /\ asking' \in Call \cup {NoCall} /\ answered' \in BOOLEAN
  <1>1. CASE Ask(c)
    BY <1>1 DEF TypeOK, Ask
  <1>2. CASE Told(c, ok, err)
    BY <1>2, LeaderIndexWraps, HarnessAssumption, Zenon DEF TypeOK, Told
  <1>3. CASE TimeOut
    BY <1>3 DEF TypeOK, TimeOut
  <1> QED
    BY <1>1, <1>2, <1>3

\* What is known of a call.
Known ==
    [stage : {"free", "sent", "wait", "reply", "left"}, end : End \cup {<<>>},
     server : Nat, running : BOOLEAN, reply : Reply \cup {NoReply}, ok : BOOLEAN]

\* Nothing is known of a call that was not made.
LEMMA IdleFields ==
    /\ Idle.stage = "free" /\ Idle.reply = NoReply /\ ~Idle.ok /\ ~Idle.running
    /\ "free" # "wait" /\ "free" # "reply"
  BY DEF Idle

\* The clerk calls through its own ends.
LEMMA ClerksEnd ==
    ASSUME TypeOK
    PROVE  <<Ck, Handles[leaderIndex]>> \in End
  <1>0. leaderIndex \in Host
    BY Zenon DEF TypeOK
  <1>1. Handles[leaderIndex] \in Host
    BY <1>0, HarnessAssumption
  <1>2. Ck \in Owner
    BY ClerkAssumption, HarnessAssumption DEF Ck
  <1> QED
    BY <1>1, <1>2 DEF End

\* Only call c changes.
LEMMA OthersUnchanged ==
    ASSUME TypeOK, NEW c \in Call, NEW n, Becomes(c, n)
    PROVE  /\ net'[c] = n
           /\ \A d \in Call : d # c => net'[d] = net[d]
  <1>1. net \in [Call -> Known]
    BY Zenon DEF TypeOK, TypeOKNetwork, Known
  <1> QED
    BY <1>1 DEF Becomes

\* The network keeps its types when a call becomes something that a call can be.
LEMMA BecomesKnown ==
    ASSUME TypeOK, NEW c \in Call, NEW n \in Known, Becomes(c, n),
           UNCHANGED <<enabled, servers>>
    PROVE  TypeOKNetwork'
  <1>1. enabled \subseteq End /\ servers \in [Host -> Nat] /\ net \in [Call -> Known]
    BY Zenon DEF TypeOK, TypeOKNetwork, Known
  <1>2. net' \in [Call -> Known]
    BY <1>1 DEF Becomes
  <1>3. enabled' \subseteq End /\ servers' \in [Host -> Nat]
    BY <1>1
  <1> QED
    BY <1>2, <1>3, Zenon DEF TypeOKNetwork, Known

\* A step of processReq or of a handler keeps the types of the network.
LEMMA NetworkSteps ==
    ASSUME TypeOK, NEW c \in Call, NEW e \in End, NEW r \in Reply,
           \/ Send(c, e) \/ LoseRequest(c) \/ Deliver(c) \/ HandlerReturns(c, r)
           \/ Poll(c) \/ Finish(c) \/ LoseReply(c) \/ Return(c) \/ Forget(c)
    PROVE  TypeOKNetwork'
  <1>k. net[c] \in Known
    BY Zenon DEF TypeOK, TypeOKNetwork, Known
  <1>i. Idle \in Known
    BY DEF Idle, Known
  <1>r. ASSUME NEW ok \in BOOLEAN
        PROVE  [net[c] EXCEPT !.stage = "reply", !.ok = ok] \in Known
    BY <1>k, Zenon DEF Known
  <1>1. CASE Send(c, e)
    <2>1. [Idle EXCEPT !.stage = "sent", !.end = e] \in Known
      BY <1>i, Zenon DEF Known
    <2> QED
      BY <1>1, <2>1, BecomesKnown, Zenon DEF Send
  <1>2. CASE LoseRequest(c)
    BY <1>2, <1>r, BecomesKnown, Zenon DEF LoseRequest, Replied
  <1>3. CASE Deliver(c)
    <2>1. Server(c) \in Nat
      <3>1. net[c].end \in End /\ servers \in [Host -> Nat]
        BY <1>3, Zenon DEF Deliver, Reachable, TypeOK, TypeOKNetwork
      <3> QED
        BY <3>1 DEF Server, connections, End
    <2>2. [net[c] EXCEPT !.stage = "wait", !.server = Server(c), !.running = TRUE]
              \in Known
      BY <1>k, <2>1, Zenon DEF Known
    <2> QED
      BY <1>3, <2>2, BecomesKnown, Zenon DEF Deliver
  <1>4. CASE HandlerReturns(c, r)
    <2>1. [net[c] EXCEPT !.running = FALSE, !.reply = r] \in Known
      BY <1>k, Zenon DEF Known
    <2> QED
      BY <1>4, <2>1, BecomesKnown, Zenon DEF HandlerReturns
  <1>5. CASE Poll(c)
    BY <1>5, <1>r, BecomesKnown, Zenon DEF Poll, Replied
  <1>6. CASE Finish(c)
    BY <1>6, <1>r, BecomesKnown, Zenon DEF Finish, Replied
  <1>7. CASE LoseReply(c)
    BY <1>7, <1>r, BecomesKnown, Zenon DEF LoseReply, Replied
  <1>8. CASE Return(c)
    <2>1. [net[c] EXCEPT !.stage = "left"] \in Known
      BY <1>k DEF Known
    <2> QED
      BY <1>8, <2>1, BecomesKnown, Zenon DEF Return
  <1>9. CASE Forget(c)
    BY <1>9, <1>i, BecomesKnown, Zenon DEF Forget
  <1> QED
    BY <1>1, <1>2, <1>3, <1>4, <1>5, <1>6, <1>7, <1>8, <1>9

\* Servers' ends are ends.
LEMMA LinksAreEnds ==
    ASSUME NEW p \in SUBSET Host, NEW q \in SUBSET Host
    PROVE  Links(p, q) \subseteq End
  <1>1. Host \subseteq Owner
    BY ClerkAssumption, HarnessAssumption
  <1> QED
    BY <1>1 DEF Links, End

\* A step of the tester keeps the types.
LEMMA TesterSteps ==
    ASSUME TypeOK, Tester
    PROVE  TypeOK'
  <1> USE DEF TypeOK, TypeOKNetwork
  <1>1. CASE ConnectAll
    BY <1>1, LinksAreEnds DEF ConnectAll, clerk, servant
  <1>2. ASSUME NEW side \in Sides, Partition(side) PROVE TypeOK'
    <2>1. side \in SUBSET Host /\ Host \ side \in SUBSET Host
      BY HarnessAssumption
    <2>2. enabled' \subseteq End
      BY <1>2, <2>1, LinksAreEnds, Zenon DEF Partition
    <2> QED
      BY <1>2, <2>2, Zenon DEF Partition, clerk, servant
  <1>3. ASSUME NEW i \in Host, Isolate(i) PROVE TypeOK'
    BY <1>3 DEF Isolate, DeleteServer, clerk, servant
  <1>4. ASSUME NEW i \in Host, CopyPersister(i) PROVE TypeOK'
    BY <1>4 DEF CopyPersister, clerk
  <1>5. ASSUME NEW i \in Host, KillServer(i) PROVE TypeOK'
    BY <1>5 DEF KillServer, Done, clerk
  <1>6. ASSUME NEW i \in Host, StartServer(i) PROVE TypeOK'
    BY <1>6 DEF StartServer, clerk
  <1>7. ASSUME NEW i \in Host, Register(i) PROVE TypeOK'
    BY <1>7 DEF Register, Done, AddServer, clerk, servant
  <1> QED
    BY <1>1, <1>2, <1>3, <1>4, <1>5, <1>6, <1>7, Zenon DEF Tester

\* The network and the clerk take their steps one at a time; a handler's answer is
\* one of the replies.
LEMMA CallSteps ==
    ASSUME TypeOK, NEW c \in Call,
           \/ AskServer(c) \/ HearServer(c) \/ ReturnLate(c) \/ Transport(c)
           \/ Commit(c) \/ Refuse(c)
    PROVE  TypeOK'
  <1>a. <<Ck, Handles[leaderIndex]>> \in End
    BY ClerksEnd
  <1>b. "OK" \in Reply /\ "ErrWrongLeader" \in Reply
    BY HarnessAssumption
  <1>1. CASE AskServer(c)
    <2>1. TypeOKNetwork'
      BY <1>1, <1>a, <1>b, NetworkSteps DEF AskServer
    <2> QED
      BY <1>1, <2>1, ClerkSteps DEF AskServer, TypeOK, servant, driver
  <1>2. CASE HearServer(c)
    <2>1. TypeOKNetwork' /\ net[c].ok \in BOOLEAN
      BY <1>2, <1>a, <1>b, NetworkSteps DEF HearServer, TypeOK, TypeOKNetwork
    <2> QED
      BY <1>2, <2>1, ClerkSteps DEF HearServer, TypeOK, servant, driver
  <1>3. CASE ReturnLate(c)
    <2>1. TypeOKNetwork'
      BY <1>3, <1>a, <1>b, NetworkSteps DEF ReturnLate
    <2> QED
      BY <1>3, <2>1 DEF ReturnLate, TypeOK, clerk, servant, driver
  <1>4. CASE Transport(c)
    <2>1. TypeOKNetwork'
      BY <1>4, <1>a, <1>b, NetworkSteps DEF Transport
    <2> QED
      BY <1>4, <2>1 DEF Transport, TypeOK, clerk, servant, driver
  <1>5. CASE Commit(c)
    <2>1. TypeOKNetwork'
      BY <1>5, <1>a, <1>b, NetworkSteps DEF Commit
    <2>2. saved' \subseteq Host
      BY <1>5 DEF Commit, TypeOK
    <2> QED
      BY <1>5, <2>1, <2>2 DEF Commit, TypeOK, clerk, driver
  <1>6. CASE Refuse(c)
    <2>1. TypeOKNetwork'
      BY <1>6, <1>a, <1>b, NetworkSteps DEF Refuse
    <2> QED
      BY <1>6, <2>1 DEF Refuse, TypeOK, clerk, servant, driver
  <1> QED
    BY <1>1, <1>2, <1>3, <1>4, <1>5, <1>6

\* The types hold at the start.
LEMMA InitTyped == Init => TypeOK
  <1> SUFFICES ASSUME Init PROVE TypeOK
    OBVIOUS
  <1>1. TypeOKNetwork
    BY DEF Init, TypeOKNetwork, Idle
  <1>2. victims \subseteq Host /\ todo \subseteq Host
    BY HarnessAssumption DEF Init
  <1>3. instance \in [Host -> Nat]
    BY DEF Init
  <1>4. live \subseteq Host /\ attached \subseteq Host /\ saved \subseteq Host
    BY DEF Init
  <1>5. /\ method \in {"Get", "PutAppend"} /\ leaderIndex \in Host
        /\ asking \in Call \cup {NoCall} /\ answered \in BOOLEAN
    BY HarnessAssumption, Zenon DEF Init, ClerkInit
  <1> QED
    BY <1>1, <1>2, <1>3, <1>4, <1>5 DEF Init, TypeOK

\* The variables of clerk, network, servers and tester keep their types, for any
\* number of servers and calls: among others changeLeader stays within the servers.
THEOREM TypeCorrect == Spec => []TypeOK
  <1>1. Init => TypeOK
    BY InitTyped
  <1>2. TypeOK /\ [Next]_vars => TypeOK'
    <2> SUFFICES ASSUME TypeOK, [Next]_vars PROVE TypeOK'
      OBVIOUS
    <2>1. CASE GiveUp
      BY <2>1, ClerkSteps DEF GiveUp, TimeOut, TypeOK, TypeOKNetwork, servant, driver
    <2>2. CASE \E s \in Host : ElectLeader(s)
      BY <2>2 DEF ElectLeader, TypeOK, TypeOKNetwork, clerk, driver
    <2>3. CASE UNCHANGED vars
      BY <2>3 DEF vars, clerk, servant, driver, TypeOK, TypeOKNetwork
    <2> QED
      BY <2>1, <2>2, <2>3, CallSteps, TesterSteps DEF Next
  <1> QED
    BY <1>1, <1>2, PTL DEF Spec

-----------------------------------------------------------------------------
(* The inductive invariant.                                                *)

\* What is known of a call: a handler that runs has not answered, one that has been
\* waited for to its end has, and Call returns true only then.
CallConsistent(n) ==
    /\ n.stage = "free" => n = Idle
    /\ n.stage = "sent" => n.server = 0 /\ n.reply = NoReply /\ ~n.running
    /\ n.running => n.reply = NoReply
    /\ (n.stage = "wait" /\ ~n.running) => n.reply # NoReply
    /\ n.stage \in {"free", "sent", "wait"} => ~n.ok
    /\ n.ok => n.reply # NoReply

\* Where the tester is, and which servers are registered: those it has stopped are
\* not, until they have started again; a registered one is the latest instance and
\* writes to the Persister that the tester keeps.
TesterConsistent ==
    /\ todo \subseteq victims
    /\ tester \in {"run", "parted"} => todo = victims
    /\ \A h \in Host : servers[h] # 0 => h \in attached /\ servers[h] = instance[h]
    /\ tester \in {"copy", "kill"} => \A i \in Host : Turn(i) => servers[i] = 0
    /\ tester \in {"stop", "copy", "kill"} =>
          \A i \in victims \ todo : servers[i] = 0
    /\ tester \in {"start", "add"} => \A i \in todo : servers[i] = 0
    /\ tester = "add" => \A i \in Host : Turn(i) => i \in attached

\* The instance that executes the call is not the registered one and never will be.
Cut(n) == instance[connections(n.end)] > n.server \/ connections(n.end) \notin attached

\* An answer OK that can still reach the clerk stands for a saved operation.
AnswerSaved(n) ==
    /\ n.stage # "free" => n.end \in End
    /\ n.stage = "wait" => n.server # 0
    /\ n.stage = "wait" => n.server <= instance[connections(n.end)]
    /\ (n.stage = "wait" /\ n.reply = "OK") => Majority(saved) \/ Cut(n)
    /\ (n.stage = "reply" /\ n.ok /\ n.reply = "OK") => Majority(saved)

HarnessInv ==
    /\ TypeOK
    /\ \A c \in Call : CallConsistent(net[c])
    /\ TesterConsistent
    /\ \A c \in Call : AnswerSaved(net[c])
    /\ ReplyPersisted

-----------------------------------------------------------------------------
(* Calls.                                                                  *)

\* A call that takes no step stays consistent.
LEMMA UntouchedStays ==
    ASSUME NEW d, CallConsistent(net[d]), net'[d] = net[d]
    PROVE  CallConsistent(net[d])'
  BY DEF CallConsistent

\* The steps of a call keep it consistent.
LEMMA CallStaysConsistent ==
    ASSUME TypeOK, NEW c \in Call, CallConsistent(net[c]), NEW e \in End, NEW r \in Reply,
           \/ Send(c, e) \/ LoseRequest(c) \/ Deliver(c) \/ HandlerReturns(c, r)
           \/ Poll(c) \/ Finish(c) \/ LoseReply(c) \/ Return(c) \/ Forget(c)
    PROVE  CallConsistent(net'[c])
  <1>t. net[c] \in Known
    BY DEF TypeOK, TypeOKNetwork, Known
  <1>r. r # NoReply
    BY HarnessAssumption DEF NoReply
  <1>1. CASE Send(c, e)
    <2>1. net'[c] = [Idle EXCEPT !.stage = "sent", !.end = e]
      BY <1>1, OthersUnchanged DEF Send
    <2> QED
      BY <2>1 DEF CallConsistent, Idle
  <1>2. CASE LoseRequest(c) \/ Poll(c) \/ LoseReply(c)
    <2>1. net'[c] = [net[c] EXCEPT !.stage = "reply", !.ok = FALSE]
      BY <1>2, OthersUnchanged DEF LoseRequest, Poll, LoseReply, Replied
    <2>2. /\ net'[c].stage = "reply" /\ net'[c].ok = FALSE
          /\ net'[c].running = net[c].running /\ net'[c].reply = net[c].reply
      BY <1>t, <2>1 DEF Known
    <2> QED
      BY <2>2 DEF CallConsistent
  <1>3. CASE Deliver(c)
    <2>1. net'[c] = [net[c] EXCEPT !.stage = "wait", !.server = Server(c),
                                   !.running = TRUE]
      BY <1>3, OthersUnchanged DEF Deliver
    <2>2. /\ net'[c].stage = "wait" /\ net'[c].running = TRUE
          /\ net'[c].reply = net[c].reply /\ net'[c].ok = net[c].ok
      BY <1>t, <2>1 DEF Known
    <2> QED
      BY <1>3, <2>2 DEF CallConsistent, Deliver
  <1>4. CASE HandlerReturns(c, r)
    <2>1. net'[c] = [net[c] EXCEPT !.running = FALSE, !.reply = r]
      BY <1>4, OthersUnchanged DEF HandlerReturns
    <2>2. /\ net'[c].running = FALSE /\ net'[c].reply = r
          /\ net'[c].stage = net[c].stage /\ net'[c].ok = net[c].ok
      BY <1>t, <2>1 DEF Known
    <2>3. net[c].stage \notin {"free", "sent"}
      BY <1>4 DEF HandlerReturns, CallConsistent, Idle
    <2> QED
      BY <1>r, <2>2, <2>3 DEF CallConsistent
  <1>5. CASE Finish(c)
    <2>1. net'[c] = [net[c] EXCEPT !.stage = "reply", !.ok = TRUE]
      BY <1>5, OthersUnchanged DEF Finish, Replied
    <2>2. /\ net'[c].stage = "reply" /\ net'[c].ok = TRUE
          /\ net'[c].running = net[c].running /\ net'[c].reply = net[c].reply
      BY <1>t, <2>1 DEF Known
    <2> QED
      BY <1>5, <2>2, Zenon DEF CallConsistent, Finish
  <1>6. CASE Return(c)
    <2>1. net'[c] = [net[c] EXCEPT !.stage = "left"]
      BY <1>6, OthersUnchanged DEF Return
    <2>2. /\ net'[c].stage = "left" /\ net'[c].running = net[c].running
          /\ net'[c].reply = net[c].reply /\ net'[c].ok = net[c].ok
      BY <1>t, <2>1 DEF Known
    <2> QED
      BY <2>2, Zenon DEF CallConsistent
  <1>7. CASE Forget(c)
    <2>1. net'[c] = Idle
      BY <1>7, OthersUnchanged, Zenon DEF Forget
    <2> QED
      BY <2>1 DEF CallConsistent, Idle
  <1> QED
    BY <1>1, <1>2, <1>3, <1>4, <1>5, <1>6, <1>7

-----------------------------------------------------------------------------
(* The tester.                                                             *)

\* Its loops take one server at a time.
LEMMA OneTurn ==
    ASSUME TypeOK, NEW i \in Host, NEW j \in Host, Turn(i), Turn(j)
    PROVE  i = j
  BY HarnessAssumption, ClerkAssumption DEF Turn, TypeOK

\* The other steps do not concern the tester.
LEMMA TesterUnconcerned ==
    ASSUME TesterConsistent, UNCHANGED <<servers, attached, instance, victims, tester, todo>>
    PROVE  TesterConsistent'
  BY DEF TesterConsistent, Turn

\* Its own steps keep what is known of it.
LEMMA TesterStaysConsistent ==
    ASSUME TypeOK, TesterConsistent, Tester
    PROVE  TesterConsistent'
  <1>t. /\ servers \in [Host -> Nat] /\ instance \in [Host -> Nat]
        /\ todo \subseteq Host /\ victims \subseteq Host
    BY DEF TypeOK, TypeOKNetwork
  <1>1. CASE ConnectAll
    BY <1>1 DEF ConnectAll, TesterConsistent, Turn, servant
  <1>2. CASE \E side \in Sides : Partition(side)
    BY <1>2 DEF Partition, TesterConsistent, Turn, servant
  <1>3. ASSUME NEW i \in Host, Isolate(i) PROVE TesterConsistent'
    <2>1. \A j \in Host : Turn(j) => j = i
      BY <1>3, OneTurn DEF Isolate
    <2> QED
      BY <1>3, <1>t, <2>1 DEF Isolate, DeleteServer, TesterConsistent, Turn, servant
  <1>4. ASSUME NEW i \in Host, CopyPersister(i) PROVE TesterConsistent'
    BY <1>4, <1>t DEF CopyPersister, TesterConsistent, Turn
  <1>5. ASSUME NEW i \in Host, KillServer(i) PROVE TesterConsistent'
    BY <1>5, <1>t DEF KillServer, Done, TesterConsistent, Turn
  <1>6. ASSUME NEW i \in Host, StartServer(i) PROVE TesterConsistent'
    <2>1. \A j \in Host : Turn(j) => j = i
      BY <1>6, OneTurn DEF StartServer
    <2>2. servers[i] = 0
      BY <1>6 DEF StartServer, TesterConsistent, Turn
    <2> QED
      BY <1>6, <1>t, <2>1, <2>2 DEF StartServer, TesterConsistent, Turn
  <1>7. ASSUME NEW i \in Host, Register(i) PROVE TesterConsistent'
    <2>1. i \in attached
      BY <1>7 DEF Register, TesterConsistent
    <2> QED
      BY <1>7, <1>t, <2>1 DEF Register, Done, AddServer, TesterConsistent, Turn, servant
  <1> QED
    BY <1>1, <1>2, <1>3, <1>4, <1>5, <1>6, <1>7 DEF Tester

-----------------------------------------------------------------------------
(* Answers.                                                                *)

\* With one more server that has saved the operation, a majority stays one.
LEMMA MajorityGrows ==
    ASSUME NEW P \in SUBSET Host, NEW Q \in SUBSET Host, P \subseteq Q, Majority(P)
    PROVE  Majority(Q)
  <1>1. IsFiniteSet(Host)
    BY ClerkAssumption, HarnessAssumption, FS_Interval
  <1>2. IsFiniteSet(Q) /\ IsFiniteSet(P)
    BY <1>1, FS_Subset
  <1>3. Cardinality(P) <= Cardinality(Q)
    BY <1>2, FS_Subset
  <1> QED
    BY <1>2, <1>3, FS_CardinalityType, ClerkAssumption DEF Majority

\* The answer of a call that takes no step stays saved while the servers go on saving.
LEMMA SavedStaysSaved ==
    ASSUME TypeOK, TypeOK', NEW d \in Call, AnswerSaved(net[d]), net'[d] = net[d],
           saved \subseteq saved', UNCHANGED <<instance, attached>>
    PROVE  AnswerSaved(net[d])'
  <1>1. Majority(saved) => Majority(saved')
    BY MajorityGrows DEF TypeOK
  <1> QED
    BY <1>1 DEF AnswerSaved, Cut

\* The latest instance is no older one.
LEMMA LatestIsLatest ==
    ASSUME NEW h \in Host, instance \in [Host -> Nat], NEW k, k = instance[h]
    PROVE  ~(instance[h] > k)
  OBVIOUS

\* The steps of processReq: a request goes to the registered instance, and Call returns
\* true only while that is still the one that has executed it.
LEMMA TransportKeepsAnswers ==
    ASSUME TypeOK, NEW c \in Call, CallConsistent(net[c]), TesterConsistent,
           AnswerSaved(net[c]), UNCHANGED servant, NEW e \in End,
           \/ Send(c, e) \/ LoseRequest(c) \/ Deliver(c) \/ Poll(c) \/ Finish(c)
           \/ LoseReply(c) \/ Return(c) \/ Forget(c) \/ HandlerReturns(c, "ErrWrongLeader")
    PROVE  AnswerSaved(net[c])'
  <1>t. net[c] \in Known /\ saved' = saved /\ instance' = instance /\ attached' = attached
    BY DEF TypeOK, TypeOKNetwork, Known, servant
  <1>1. CASE Send(c, e)
    <2>1. net'[c] = [Idle EXCEPT !.stage = "sent", !.end = e]
      BY <1>1, OthersUnchanged DEF Send
    <2> QED
      BY <2>1 DEF AnswerSaved, Idle
  <1>2. CASE LoseRequest(c) \/ Poll(c) \/ LoseReply(c)
    <2>1. net'[c] = [net[c] EXCEPT !.stage = "reply", !.ok = FALSE]
      BY <1>2, OthersUnchanged DEF LoseRequest, Poll, LoseReply, Replied
    <2>2. /\ net'[c].stage = "reply" /\ net'[c].ok = FALSE /\ net'[c].end = net[c].end
          /\ net[c].stage # "free"
      BY <1>2, <1>t, <2>1, Zenon DEF Known, LoseRequest, Poll, LoseReply
    <2> QED
      BY <2>2, Zenon DEF AnswerSaved
  <1>3. CASE Deliver(c)
    <2>1. net'[c] = [net[c] EXCEPT !.stage = "wait", !.server = Server(c),
                                   !.running = TRUE]
      BY <1>3, OthersUnchanged DEF Deliver
    <2>2. /\ net'[c].stage = "wait" /\ net'[c].server = Server(c)
          /\ net'[c].end = net[c].end /\ net'[c].reply = net[c].reply
      BY <1>t, <2>1 DEF Known
    <2>a. net'[c].stage # "free" /\ net'[c].stage # "reply"
      BY <2>2, Zenon
    <2>3. net[c].end \in End /\ Server(c) # 0 /\ net[c].reply = NoReply
      BY <1>3 DEF Deliver, Reachable, AnswerSaved, CallConsistent
    <2>4. Server(c) = instance[connections(net[c].end)] /\ Server(c) \in Nat
      <3>1. servers \in [Host -> Nat]
        BY Zenon DEF TypeOK, TypeOKNetwork
      <3>2. connections(net[c].end) \in Host
        BY <2>3 DEF connections, End
      <3>3. Server(c) = instance[connections(net[c].end)]
        BY <2>3, <3>2, Zenon DEF Server, TesterConsistent
      <3> QED
        BY <3>1, <3>2, <3>3 DEF Server
    <2>5. net'[c].server <= instance'[connections(net'[c].end)]
      BY <1>t, <2>2, <2>4
    <2>6. net'[c].reply # "OK"
      BY <2>2, <2>3 DEF NoReply
    <2> QED
      BY <2>a, <2>2, <2>3, <2>5, <2>6, Zenon DEF AnswerSaved
  <1>4. CASE Finish(c)
    <2>1. net'[c] = [net[c] EXCEPT !.stage = "reply", !.ok = TRUE]
      BY <1>4, OthersUnchanged DEF Finish, Replied
    <2>2. /\ net'[c].stage = "reply" /\ net'[c].end = net[c].end
          /\ net'[c].reply = net[c].reply /\ net[c].stage = "wait"
      BY <1>4, <1>t, <2>1 DEF Known, Finish
    <2>3. net[c].end \in End /\ net[c].server # 0 /\ Server(c) = net[c].server
      BY <1>4, <2>2, Zenon DEF Finish, isServerDead, AnswerSaved
    <2>4. ~Cut(net[c])
      <3>1. connections(net[c].end) \in Host
        BY <2>3 DEF connections, End
      <3>2. /\ connections(net[c].end) \in attached
            /\ net[c].server = instance[connections(net[c].end)]
        BY <2>3, <3>1, Zenon DEF Server, TesterConsistent
      <3>3. instance \in [Host -> Nat]
        BY Zenon DEF TypeOK
      <3> QED
        BY <3>1, <3>2, <3>3, LatestIsLatest, Zenon DEF Cut
    <2> QED
      BY <1>t, <2>2, <2>3, <2>4, Zenon DEF AnswerSaved
  <1>5. CASE Return(c)
    <2>1. net'[c] = [net[c] EXCEPT !.stage = "left"]
      BY <1>5, OthersUnchanged DEF Return
    <2>2. net'[c].stage = "left" /\ net'[c].end = net[c].end /\ net[c].stage # "free"
      BY <1>5, <1>t, <2>1 DEF Known, Return
    <2> QED
      BY <2>2, Zenon DEF AnswerSaved
  <1>6. CASE Forget(c)
    <2>1. net'[c] = Idle
      BY <1>6, OthersUnchanged, Zenon DEF Forget
    <2>2. net'[c].stage = "free" /\ "free" # "wait" /\ "free" # "reply"
      BY <2>1, IdleFields, Zenon
    <2> QED
      BY <2>2, Zenon DEF AnswerSaved
  <1>7. CASE HandlerReturns(c, "ErrWrongLeader")
    <2>1. net'[c] = [net[c] EXCEPT !.running = FALSE, !.reply = "ErrWrongLeader"]
      BY <1>7, OthersUnchanged DEF HandlerReturns
    <2>2. /\ net'[c].reply = "ErrWrongLeader" /\ net'[c].stage = net[c].stage
          /\ net'[c].end = net[c].end /\ net'[c].server = net[c].server
      BY <1>t, <2>1 DEF Known
    <2> QED
      BY <1>t, <2>2, Zenon DEF AnswerSaved
  <1> QED
    BY <1>1, <1>2, <1>3, <1>4, <1>5, <1>6, <1>7, Zenon

\* A handler answers OK after a majority has saved the operation, unless the tester has
\* superseded the Persister of its server: then its answer is thrown away.
LEMMA CommitKeepsAnswers ==
    ASSUME TypeOK, TypeOK', NEW c \in Call, CallConsistent(net[c]), TesterConsistent,
           AnswerSaved(net[c]), Commit(c)
    PROVE  AnswerSaved(net[c])'
  <1>t. net[c] \in Known /\ instance' = instance /\ attached' = attached
    BY DEF Commit, TypeOK, TypeOKNetwork, Known
  <1>1. net'[c] = [net[c] EXCEPT !.running = FALSE, !.reply = "OK"]
    BY OthersUnchanged DEF Commit, HandlerReturns
  <1>2. /\ net'[c].stage = net[c].stage /\ net'[c].end = net[c].end
        /\ net'[c].server = net[c].server /\ net'[c].ok = net[c].ok
    BY <1>t, <1>1 DEF Known
  <1>3. ~net[c].ok /\ net[c].stage # "free"
    <2>1. net[c].running
      BY Zenon DEF Commit
    <2> QED
      BY <2>1, IdleFields, Zenon DEF CallConsistent
  <1>4. connections(net[c].end) \in attached => Majority(saved')
    <2> SUFFICES ASSUME connections(net[c].end) \in attached PROVE Majority(saved')
      OBVIOUS
    <2>1. connections(net[c].end) \in Host
      BY <1>3 DEF AnswerSaved, connections, End
    <2>2. Reached(connections(net[c].end)) \subseteq attached
      BY <2>1 DEF Reached, TesterConsistent
    <2>3. PICK Q \in SUBSET Reached(connections(net[c].end)) :
              Majority(Q) /\ saved' = saved \cup (Q \cap attached)
      BY DEF Commit
    <2>4. Q \subseteq Host /\ Q \subseteq saved'
      BY <2>1, <2>2, <2>3 DEF TypeOK
    <2> QED
      BY <2>3, <2>4, MajorityGrows DEF TypeOK
  <1> QED
    BY <1>t, <1>2, <1>3, <1>4 DEF AnswerSaved, Cut

\* The tester may supersede a Persister and start an instance; what an older instance
\* has answered does not become current again.
LEMMA TesterKeepsAnswers ==
    ASSUME TypeOK, NEW d \in Call, AnswerSaved(net[d]), Tester
    PROVE  AnswerSaved(net[d])'
  <1>t. /\ net[d] \in Known /\ instance \in [Host -> Nat]
        /\ net[d].stage # "free" => connections(net[d].end) \in Host
    BY DEF TypeOK, TypeOKNetwork, Known, AnswerSaved, connections, End
  <1>1. CASE net' = net /\ UNCHANGED servant
    BY <1>1 DEF AnswerSaved, Cut, servant
  <1>2. ASSUME NEW i \in Host, CopyPersister(i) PROVE AnswerSaved(net[d])'
    BY <1>2 DEF CopyPersister, AnswerSaved, Cut
  <1>3. ASSUME NEW i \in Host, KillServer(i) PROVE AnswerSaved(net[d])'
    BY <1>3, Zenon DEF KillServer, AnswerSaved, Cut
  <1>4. ASSUME NEW i \in Host, StartServer(i) PROVE AnswerSaved(net[d])'
    <2>1. /\ net' = net /\ saved' = saved /\ attached' = attached \cup {i}
          /\ instance' = [instance EXCEPT ![i] = instance[i] + 1]
      BY <1>4 DEF StartServer
    <2>2. \A h \in Host : instance'[h] = IF h = i THEN instance[h] + 1 ELSE instance[h]
      BY <1>t, <2>1
    <2>3. net[d].server \in Nat /\ \A h \in Host : instance[h] \in Nat
      BY <1>t DEF Known
    <2>4. CASE net[d].stage = "wait"
      <3>1. connections(net[d].end) \in Host
        BY <1>t, <2>4
      <3>2. Cut(net[d]) => Cut(net[d])'
        BY <2>1, <2>2, <2>3, <2>4, <3>1 DEF Cut, AnswerSaved
      <3>3. net[d].server <= instance'[connections(net[d].end)]
        BY <2>2, <2>3, <2>4, <3>1 DEF AnswerSaved
      <3> QED
        BY <2>1, <2>4, <3>2, <3>3 DEF AnswerSaved
    <2>5. CASE net[d].stage # "wait"
      BY <2>1, <2>5 DEF AnswerSaved
    <2> QED
      BY <2>4, <2>5
  <1>5. (\E i \in Host : Isolate(i) \/ Register(i)) \/ ConnectAll
          \/ (\E side \in Sides : Partition(side)) => net' = net /\ UNCHANGED servant
    BY Zenon DEF Isolate, Register, ConnectAll, Partition
  <1> QED
    BY <1>1, <1>2, <1>3, <1>4, <1>5 DEF Tester

-----------------------------------------------------------------------------
(* All steps.                                                              *)

\* A step of one call, with what it changes beside the network.
LEMMA CallStep ==
    ASSUME TypeOK, NEW c \in Call,
           \/ AskServer(c) \/ HearServer(c) \/ ReturnLate(c) \/ Transport(c)
           \/ Commit(c) \/ Refuse(c)
    PROVE  /\ \E e \in End, r \in Reply :
                 \/ Send(c, e) \/ LoseRequest(c) \/ Deliver(c) \/ HandlerReturns(c, r)
                 \/ Poll(c) \/ Finish(c) \/ LoseReply(c) \/ Return(c) \/ Forget(c)
           /\ \A d \in Call : d # c => net'[d] = net[d]
           /\ UNCHANGED <<servers, instance, attached, driver>>
           /\ saved \subseteq saved'
  <1>1. <<Ck, Handles[leaderIndex]>> \in End /\ "OK" \in Reply /\ "ErrWrongLeader" \in Reply
    BY HarnessAssumption, ClerksEnd
  <1>2. PICK e \in End, r \in Reply :
            \/ Send(c, e) \/ LoseRequest(c) \/ Deliver(c) \/ HandlerReturns(c, r)
            \/ Poll(c) \/ Finish(c) \/ LoseReply(c) \/ Return(c) \/ Forget(c)
    BY <1>1, Zenon DEF AskServer, HearServer, ReturnLate, Transport, Commit, Refuse
  <1>3. \E n : Becomes(c, n)
    BY <1>2 DEF Send, LoseRequest, Deliver, HandlerReturns, Poll, Finish, LoseReply,
                Return, Forget, Replied
  <1>4. \A d \in Call : d # c => net'[d] = net[d]
    BY <1>3, OthersUnchanged, Zenon
  <1>5. UNCHANGED servers
    BY <1>2, Zenon DEF Send, LoseRequest, Deliver, HandlerReturns, Poll, Finish, LoseReply,
                Return, Forget
  <1>6. UNCHANGED <<instance, attached, driver>> /\ saved \subseteq saved'
    BY Zenon DEF AskServer, HearServer, ReturnLate, Transport, Commit, Refuse, servant
  <1> QED
    BY <1>2, <1>4, <1>5, <1>6, Zenon

\* A step of a call keeps the invariant.
LEMMA CallKeepsInv ==
    ASSUME HarnessInv, TypeOK', NEW c \in Call,
           \/ AskServer(c) \/ HearServer(c) \/ ReturnLate(c) \/ Transport(c)
           \/ Commit(c) \/ Refuse(c)
    PROVE  HarnessInv'
  <1>i. /\ TypeOK /\ TesterConsistent
        /\ \A d \in Call : CallConsistent(net[d]) /\ AnswerSaved(net[d])
    BY DEF HarnessInv
  <1>s. /\ \A d \in Call : d # c => net'[d] = net[d]
        /\ UNCHANGED <<servers, instance, attached, driver>>
        /\ saved \subseteq saved'
    BY <1>i, CallStep, Zenon
  <1>1. ASSUME NEW d \in Call PROVE CallConsistent(net[d])'
    <2>1. CASE d = c
      <3>1. PICK e \in End, r \in Reply :
                \/ Send(c, e) \/ LoseRequest(c) \/ Deliver(c) \/ HandlerReturns(c, r)
                \/ Poll(c) \/ Finish(c) \/ LoseReply(c) \/ Return(c) \/ Forget(c)
        BY <1>i, CallStep, Zenon
      <3>2. CallConsistent(net'[c])
        BY <1>i, <3>1, CallStaysConsistent, Zenon
      <3> QED
        BY <2>1, <3>2, Zenon DEF CallConsistent
    <2>2. CASE d # c
      <3>1. net'[d] = net[d] /\ CallConsistent(net[d])
        BY <1>i, <1>s, <2>2, Zenon
      <3> QED
        BY <3>1, UntouchedStays
    <2> QED
      BY <2>1, <2>2
  <1>2. TesterConsistent'
    BY <1>i, <1>s, TesterUnconcerned, Zenon DEF driver
  <1>3. ASSUME NEW d \in Call PROVE AnswerSaved(net[d])'
    <2>1. CASE d # c
      BY <1>i, <1>s, <2>1, SavedStaysSaved
    <2>2. CASE d = c /\ Commit(c)
      BY <1>i, <2>2, CommitKeepsAnswers
    <2>3. CASE d = c /\ ~Commit(c)
      <3>1. PICK e \in End :
                \/ Send(c, e) \/ LoseRequest(c) \/ Deliver(c) \/ Poll(c) \/ Finish(c)
                \/ LoseReply(c) \/ Return(c) \/ Forget(c)
                \/ HandlerReturns(c, "ErrWrongLeader")
        <4>1. <<Ck, Handles[leaderIndex]>> \in End
          BY <1>i, ClerksEnd, Zenon
        <4> QED
          BY <2>3, <4>1 DEF AskServer, HearServer, ReturnLate, Transport, Refuse
      <3>2. UNCHANGED servant
        BY <2>3 DEF AskServer, HearServer, ReturnLate, Transport, Refuse
      <3> QED
        BY <1>i, <2>3, <3>1, <3>2, TransportKeepsAnswers, Zenon
    <2> QED
      BY <2>1, <2>2, <2>3
  <1>4. ReplyPersisted'
    <2>1. Majority(saved) => Majority(saved')
      BY <1>i, <1>s, MajorityGrows, Zenon DEF TypeOK
    <2>2. CASE answered' = answered
      BY <2>1, <2>2 DEF HarnessInv, ReplyPersisted
    <2>3. CASE answered' # answered
      <3>1. HearServer(c)
        BY <2>3, Zenon DEF AskServer, Ask, ReturnLate, Transport, Commit, Refuse, clerk
      <3>2. net[c].ok /\ net[c].reply = "OK" /\ net[c].stage = "reply"
        BY <2>3, <3>1 DEF HearServer, Told, Return
      <3> QED
        BY <1>i, <2>1, <3>2, Zenon DEF AnswerSaved, ReplyPersisted
    <2> QED
      BY <2>2, <2>3
  <1> QED
    BY <1>1, <1>2, <1>3, <1>4 DEF HarnessInv

\* The invariant is inductive.
THEOREM Invariance == Spec => []HarnessInv
  <1>1. Init => HarnessInv
    <2> SUFFICES ASSUME Init PROVE HarnessInv
      OBVIOUS
    <2>1. TypeOK
      BY InitTyped
    <2>2. \A c \in Call : net[c] = Idle
      BY DEF Init
    <2>3. \A c \in Call : CallConsistent(net[c]) /\ AnswerSaved(net[c])
      <3>1. CallConsistent(Idle) /\ AnswerSaved(Idle)
        BY DEF CallConsistent, AnswerSaved, Idle
      <3> QED
        BY <2>2, <3>1
    <2>4. TesterConsistent
      BY <2>1 DEF Init, TesterConsistent, TypeOK
    <2>5. ReplyPersisted
      BY DEF Init, ClerkInit, ReplyPersisted
    <2> QED
      BY <2>1, <2>3, <2>4, <2>5 DEF HarnessInv
  <1>2. HarnessInv /\ TypeOK' /\ [Next]_vars => HarnessInv'
    <2> SUFFICES ASSUME HarnessInv, TypeOK', [Next]_vars PROVE HarnessInv'
      OBVIOUS
    <2>1. CASE Tester
      <3>1. net' = net /\ saved' = saved /\ answered' = answered
        BY <2>1, Zenon DEF Tester, ConnectAll, Partition, Isolate, CopyPersister, KillServer,
                    StartServer, Register, servant, clerk
      <3>2. \A c \in Call : CallConsistent(net[c])'
        BY <3>1 DEF HarnessInv, CallConsistent
      <3>3. TesterConsistent' /\ \A c \in Call : AnswerSaved(net[c])'
        BY <2>1, TesterStaysConsistent, TesterKeepsAnswers DEF HarnessInv
      <3> QED
        BY <3>1, <3>2, <3>3 DEF HarnessInv, ReplyPersisted
    <2>2. CASE \/ GiveUp \/ (\E s \in Host : ElectLeader(s)) \/ UNCHANGED vars
      <3>1. /\ UNCHANGED <<servers, net, instance, attached, saved, victims, tester, todo>>
            /\ answered' = answered
        BY <2>2 DEF GiveUp, TimeOut, ElectLeader, vars, clerk, servant, driver
      <3>2. TesterConsistent'
        BY <3>1, TesterUnconcerned DEF HarnessInv
      <3>3. \A c \in Call : CallConsistent(net[c])' /\ AnswerSaved(net[c])'
        BY <3>1, Zenon DEF HarnessInv, CallConsistent, AnswerSaved, Cut
      <3> QED
        BY <3>1, <3>2, <3>3 DEF HarnessInv, ReplyPersisted
    <2> QED
      BY <2>1, <2>2, CallKeepsInv DEF Next
  <1> QED
    BY <1>1, <1>2, TypeCorrect, PTL DEF Spec

\* For any number of servers, calls and shutdowns: when the clerk has its answer, the
\* Persisters that a restart will read hold the operation on a majority of the servers
\* (ShutdownServer isolates a server before it supersedes its Persister).
THEOREM AnswersPersist == Spec => []ReplyPersisted
  <1>1. HarnessInv => ReplyPersisted
    BY DEF HarnessInv
  <1> QED
    BY <1>1, Invariance, PTL

-----------------------------------------------------------------------------
(* labrpc implements module RPC.                                           *)

\* Only call c is seen to change.
LEMMA SeenStep ==
    ASSUME NEW c \in Call, \A d \in Call : d # c => net'[d] = net[d]
    PROVE  calls' = [calls EXCEPT ![c] = Seen(net'[c])] /\ calls[c] = Seen(net[c])
  BY Zenon DEF calls, Seen

\* What is seen of a call.
LEMMA SeenIs ==
    ASSUME NEW n, NEW executed \in BOOLEAN, NEW ok \in BOOLEAN,
           (n.reply # NoReply) <=> executed,
           (n.ok /\ State(n.stage) # "pending") <=> ok
    PROVE  Seen(n) = Promise!Known(State(n.stage), executed, ok)
  <1>1. (n.reply # NoReply) = executed
    OBVIOUS
  <1>2. (n.ok /\ State(n.stage) # "pending") = ok
    OBVIOUS
  <1> QED
    BY <1>1, <1>2, Zenon DEF Seen, Promise!Known

\* The fields of what is seen.
LEMMA SeenFields ==
    ASSUME NEW n
    PROVE  /\ Seen(n).state = State(n.stage)
           /\ Seen(n).executed \in BOOLEAN /\ Seen(n).ok \in BOOLEAN
           /\ Seen(n).executed <=> n.reply # NoReply
           /\ Seen(n).ok <=> n.ok /\ State(n.stage) # "pending"
  BY Zenon DEF Seen

\* A step of a call is a step of RPC, or nothing that RPC sees.
LEMMA CallKeepsPromise ==
    ASSUME TypeOK, NEW c \in Call, CallConsistent(net[c]), NEW e \in End, NEW r \in Reply,
           \/ Send(c, e) \/ LoseRequest(c) \/ Deliver(c) \/ HandlerReturns(c, r)
           \/ Poll(c) \/ Finish(c) \/ LoseReply(c) \/ Return(c) \/ Forget(c),
           \A d \in Call : d # c => net'[d] = net[d]
    PROVE  Promise!Next \/ calls' = calls
  <1>t. net[c] \in Known
    BY Zenon DEF TypeOK, TypeOKNetwork, Known
  <1>r. r # NoReply
    BY HarnessAssumption, Zenon DEF NoReply
  <1>s. calls' = [calls EXCEPT ![c] = Seen(net'[c])] /\ calls[c] = Seen(net[c])
    BY SeenStep, Zenon
  <1>1. CASE Send(c, e)
    <2>1. net'[c] = [Idle EXCEPT !.stage = "sent", !.end = e] /\ net[c] = Idle
      BY <1>1, OthersUnchanged DEF Send, CallConsistent
    <2>a. /\ net[c].stage = "free" /\ net[c].reply = NoReply /\ ~net[c].ok
          /\ net'[c].stage = "sent" /\ net'[c].reply = NoReply /\ ~net'[c].ok
      BY <2>1 DEF Idle
    <2>b. State("free") = "idle" /\ State("sent") = "pending"
      BY DEF State
    <2>2. Seen(net[c]) = Promise!Known("idle", FALSE, FALSE)
      BY <2>a, <2>b, SeenIs, Zenon
    <2>3. Seen(net'[c]) = Promise!Known("pending", FALSE, FALSE)
      BY <2>a, <2>b, SeenIs, Zenon
    <2>c. Seen(net[c]).state = "idle"
      BY <2>a, <2>b, SeenFields, Zenon
    <2>d. calls[c].state = "idle"
      BY <1>s, <2>c, Zenon
    <2>e. calls' = [calls EXCEPT ![c] = Promise!Known("pending", FALSE, FALSE)]
      BY <1>s, <2>3, Zenon
    <2>4. Promise!Invoke(c)
      BY <2>d, <2>e, Zenon DEF Promise!Invoke
    <2> QED
      BY <2>4, Zenon DEF Promise!Next
  <1>2. CASE LoseRequest(c) \/ Poll(c) \/ LoseReply(c) \/ Finish(c)
    <2>1. PICK ok \in BOOLEAN : net'[c] = [net[c] EXCEPT !.stage = "reply", !.ok = ok]
      BY <1>2, OthersUnchanged, Zenon DEF LoseRequest, Poll, LoseReply, Finish, Replied
    <2>2. net'[c].stage = "reply" /\ net'[c].reply = net[c].reply
      BY <1>t, <2>1 DEF Known
    <2>3. net[c].stage \in {"sent", "wait"}
      BY <1>2, Zenon DEF LoseRequest, Poll, LoseReply, Finish
    <2>4. State(net[c].stage) = "pending" /\ State(net'[c].stage) = "pending"
      BY <2>2, <2>3 DEF State
    <2>5. Seen(net'[c]) = Seen(net[c])
      BY <2>2, <2>4, Zenon DEF Seen
    <2> QED
      BY <1>s, <2>5, Zenon DEF calls
  <1>3. CASE Deliver(c)
    <2>1. net'[c] = [net[c] EXCEPT !.stage = "wait", !.server = Server(c),
                                   !.running = TRUE]
      BY <1>3, OthersUnchanged DEF Deliver
    <2>2. net'[c].stage = "wait" /\ net'[c].reply = net[c].reply
      BY <1>t, <2>1 DEF Known
    <2>3. State(net[c].stage) = "pending" /\ State(net'[c].stage) = "pending"
      BY <1>3, <2>2 DEF State, Deliver
    <2>4. Seen(net'[c]) = Seen(net[c])
      BY <2>2, <2>3, Zenon DEF Seen
    <2> QED
      BY <1>s, <2>4, Zenon DEF calls
  <1>4. CASE HandlerReturns(c, r)
    <2>1. net'[c] = [net[c] EXCEPT !.running = FALSE, !.reply = r]
      BY <1>4, OthersUnchanged DEF HandlerReturns
    <2>2. /\ net'[c].stage = net[c].stage /\ net'[c].reply = r /\ net'[c].ok = net[c].ok
          /\ net[c].reply = NoReply /\ net[c].stage \in {"wait", "reply", "left"}
      BY <1>4, <1>t, <2>1 DEF Known, CallConsistent, HandlerReturns, Idle
    <2>a. /\ Seen(net[c]).state = State(net[c].stage) /\ ~Seen(net[c]).executed
          /\ Seen(net[c]).ok \in BOOLEAN
          /\ Seen(net[c]).ok <=> net[c].ok /\ State(net[c].stage) # "pending"
      BY <2>2, SeenFields, Zenon
    <2>b. State(net[c].stage) \in {"pending", "returned"}
      BY <2>2 DEF State
    <2>c. /\ (net'[c].reply # NoReply) <=> TRUE
          /\ (net'[c].ok /\ State(net'[c].stage) # "pending") <=> Seen(net[c]).ok
      BY <1>r, <2>2, <2>a, Zenon
    <2>d. Seen(net'[c]) = Promise!Known(State(net'[c].stage), TRUE, Seen(net[c]).ok)
      BY <2>a, <2>c, SeenIs, Zenon
    <2>3. Seen(net'[c]) = Promise!Known(Seen(net[c]).state, TRUE, Seen(net[c]).ok)
      BY <2>2, <2>a, <2>d, Zenon
    <2>4. Promise!Execute(c)
      BY <1>s, <2>3, <2>a, <2>b, Zenon DEF Promise!Execute
    <2> QED
      BY <2>4, Zenon DEF Promise!Next
  <1>5. CASE Return(c)
    <2>1. net'[c] = [net[c] EXCEPT !.stage = "left"]
      BY <1>5, OthersUnchanged DEF Return
    <2>2. /\ net'[c].stage = "left" /\ net'[c].reply = net[c].reply
          /\ net'[c].ok = net[c].ok /\ net[c].ok \in BOOLEAN /\ net[c].stage = "reply"
      BY <1>5, <1>t, <2>1 DEF Known, Return
    <2>3. net[c].ok => net[c].reply # NoReply
      BY Zenon DEF CallConsistent
    <2>b. State("reply") = "pending" /\ State("left") = "returned"
      BY DEF State
    <2>a. /\ Seen(net[c]).state = "pending" /\ Seen(net[c]).executed \in BOOLEAN
          /\ Seen(net[c]).executed <=> net[c].reply # NoReply
      BY <2>2, <2>b, SeenFields, Zenon
    <2>c. /\ State(net'[c].stage) = "returned"
          /\ (net'[c].reply # NoReply) <=> Seen(net[c]).executed
      BY <2>2, <2>a, <2>b, Zenon
    <2>d. (net'[c].ok /\ State(net'[c].stage) # "pending") <=> net[c].ok
      BY <2>2, <2>c, Zenon
    <2>e. Seen(net'[c])
              = Promise!Known(State(net'[c].stage), Seen(net[c]).executed, net[c].ok)
      BY <2>2, <2>a, <2>c, <2>d, SeenIs, Zenon
    <2>4. Seen(net'[c]) = Promise!Known("returned", Seen(net[c]).executed, net[c].ok)
      BY <2>c, <2>e, Zenon
    <2>5. Promise!Return(c, net[c].ok)
      BY <1>s, <2>3, <2>4, <2>a, Zenon DEF Promise!Return
    <2> QED
      BY <2>2, <2>5, Zenon DEF Promise!Next
  <1>6. CASE Forget(c)
    <2>1. net'[c] = Idle /\ net[c].stage = "left"
      BY <1>6, OthersUnchanged, Zenon DEF Forget
    <2>a. Seen(net[c]).state = "returned"
      <3>1. State("left") = "returned"
        BY DEF State
      <3> QED
        BY <2>1, <3>1, SeenFields, Zenon
    <2>b. net'[c].stage = "free" /\ net'[c].reply = NoReply /\ ~net'[c].ok
      BY <2>1, IdleFields, Zenon
    <2>c. State("free") = "idle"
      BY DEF State
    <2>2. Seen(net[c]).state = "returned" /\ Seen(net'[c]) = Promise!Known("idle", FALSE, FALSE)
      BY <2>a, <2>b, <2>c, SeenIs, Zenon
    <2>3. Promise!Forget(c)
      BY <1>s, <2>2, Zenon DEF Promise!Forget
    <2> QED
      BY <2>3, Zenon DEF Promise!Next
  <1> QED
    BY <1>1, <1>2, <1>3, <1>4, <1>5, <1>6, Zenon

\* labrpc keeps its promise, whatever the clerk, the servers and the tester do: it
\* implements module RPC, so that a call is executed at most once, and has been when
\* Call returns true (labrpc.go:29-38).
THEOREM NetworkImplementsRPC == Spec => RPCPromise
  <1>1. Init => Promise!Init
    <2> SUFFICES ASSUME Init PROVE Promise!Init
      OBVIOUS
    <2>1. Seen(Idle) = Promise!Known("idle", FALSE, FALSE)
      BY Zenon DEF Seen, State, Idle, Promise!Known
    <2> QED
      BY <2>1, Zenon DEF Init, Promise!Init, calls
  <1>2. HarnessInv /\ [Next]_vars => [Promise!Next]_calls
    <2> SUFFICES ASSUME HarnessInv, [Next]_vars PROVE Promise!Next \/ calls' = calls
      OBVIOUS
    <2>1. ASSUME NEW c \in Call,
                 \/ AskServer(c) \/ HearServer(c) \/ ReturnLate(c) \/ Transport(c)
                 \/ Commit(c) \/ Refuse(c)
          PROVE  Promise!Next \/ calls' = calls
      BY <2>1, CallStep, CallKeepsPromise, Zenon DEF HarnessInv
    <2>2. CASE Tester \/ GiveUp \/ (\E s \in Host : ElectLeader(s)) \/ UNCHANGED vars
      <3>1. net' = net
        BY <2>2, Zenon DEF Tester, ConnectAll, Partition, Isolate, CopyPersister, KillServer,
                    StartServer, Register, GiveUp, ElectLeader, vars
      <3> QED
        BY <3>1 DEF calls
    <2> QED
      BY <2>1, <2>2 DEF Next
  <1> QED
    BY <1>1, <1>2, Invariance, PTL DEF Spec, RPCPromise, Promise!Spec
=============================================================================
