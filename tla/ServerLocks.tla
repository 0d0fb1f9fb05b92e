---------------------------- MODULE ServerLocks ----------------------------
(***************************************************************************)
(* The goroutines of one KVServer and its Raft peer, and what they wait    *)
(* for: the locks rf.mu and kv.mu, the unbuffered applyCh, heartBeatCh,    *)
(* quitElection and the commitedChan of each request.  Terms, logs and     *)
(* operations are left out (modules Raft and KVServer): where the code     *)
(* compares them, either outcome is possible here.                         *)
(*                                                                         *)
(* A critical section in which nothing can block is one step that finds    *)
(* the lock free.  The others are cut where they may block, and the lock   *)
(* is held as long as the goroutine is at one of these places.             *)
(***************************************************************************)
EXTENDS Integers, FiniteSets

CONSTANTS
    Handler,       \* bound: Get and PutAppend handlers at work
    Peer,          \* bound: goroutines at work on a Raft call or its reply
    MaxBatch,      \* bound: commands applied in one critical section
    MaxTimers,     \* bound: TimeOutToElection goroutines
    MaxElections,  \* bound: StartElection goroutines
    ChanCap,       \* capacity of heartBeatCh (8 in Make)
    None           \* no request waits for the command

ASSUME LocksAssumption ==
    /\ {MaxBatch, MaxTimers, MaxElections, ChanCap} \subseteq Nat \ {0}
    /\ None \notin Handler

VARIABLES
    main,         \* StartKVServer
    apply,        \* applyMsgLoop
    waiter,       \* the request whose command applyMsgLoop applies, or None
    snap,         \* snapshotLoop
    handler,      \* [Handler -> stage]
    cmdMap,       \* the handlers with an open commitedChan in cmdMap
    peer,         \* [Peer -> stage]
    batch,        \* [Peer -> messages still to be sent on applyCh]
    role,
    timers,       \* TimeOutToElection goroutines
    elections,    \* [1..MaxElections -> stage of a StartElection goroutine]
    heartBeatCh,  \* values buffered in heartBeatCh
    heartBeatCnt, \* heartBeatCnt > 0
    dead          \* Kill was called

service == <<apply, waiter, snap, handler, cmdMap>>
elector == <<role, timers, elections, heartBeatCh, heartBeatCnt>>
vars == <<main, service, peer, batch, elector, dead>>

\* Where rf.mu is held: at heartBeatCh <- true and at applyChan <- msg.
RfFree == \A p \in Peer : peer[p] \notin {"signal", "send"}

\* Mutant: TakeSnapshot is called under kv.mu.
SnapHoldsToEnd == {"take"}

\* Where snapshotLoop waits while it holds kv.mu: nowhere.
SnapHolds == {}

\* Where kv.mu is held: at commitedChan, and there.
KvFree == apply # "notify" /\ snap \notin SnapHolds

-----------------------------------------------------------------------------
(* StartKVServer and Kill.                                                 *)

\* Mutant: Make is called first.
GoApplyLater ==
    /\ main = "new" /\ main' = "make"
    /\ UNCHANGED <<service, peer, batch, elector, dead>>

\* go kv.applyMsgLoop().
GoApply ==
    /\ main = "new" /\ main' = "make"
    /\ apply' = "recv"
    /\ UNCHANGED <<waiter, snap, handler, cmdMap, peer, batch, elector, dead>>

\* Make hands the saved snapshot to applyMsgLoop.
InstallSnapshotToApplication ==
    /\ main = "make" /\ main' = "made"
    /\ apply = "recv" /\ apply' = "lock"
    /\ UNCHANGED <<waiter, snap, handler, cmdMap, peer, batch, elector, dead>>

\* It starts the first timer and returns; go kv.snapshotLoop().
GoSnapshots ==
    /\ main = "made" /\ main' = "done"
    /\ timers' = 1
    /\ snap' = "check"
    /\ UNCHANGED <<apply, waiter, handler, cmdMap, peer, batch, role, elections,
                   heartBeatCh, heartBeatCnt, dead>>

Kill ==
    /\ main = "done" /\ ~dead
    /\ dead' = TRUE
    /\ UNCHANGED <<main, service, peer, batch, elector>>

-----------------------------------------------------------------------------
(* applyMsgLoop and snapshotLoop.                                          *)

\* The lock, and the context of the command's index; or the message is a snapshot,
\* an old message, or nobody waits.
ApplyMsg ==
    /\ apply = "lock" /\ KvFree
    /\ apply' = "notify"
    /\ waiter' \in {None} \cup cmdMap
    /\ UNCHANGED <<main, snap, handler, cmdMap, peer, batch, elector, dead>>

\* Mutant: commitedChan <- 1, which waits for a receiver.
NotifyBySend ==
    /\ apply = "notify"
    /\ waiter # None => handler[waiter] = "wait"
    /\ apply' = IF dead THEN "end" ELSE "recv"
    /\ cmdMap' = cmdMap \ {waiter}
    /\ waiter' = None
    /\ UNCHANGED <<main, snap, handler, peer, batch, elector, dead>>

\* close(commitedChan), which never waits; unlock.
Notify ==
    /\ apply = "notify"
    /\ apply' = IF dead THEN "end" ELSE "recv"
    /\ cmdMap' = cmdMap \ {waiter}
    /\ waiter' = None
    /\ UNCHANGED <<main, snap, handler, peer, batch, elector, dead>>

SnapStep(from, to) ==
    /\ snap = from /\ snap' = to
    /\ UNCHANGED <<main, apply, waiter, handler, cmdMap, peer, batch, elector, dead>>

LoopHead == IF dead THEN "end" ELSE "check"

\* ExceedLogSize takes rf.mu.
ExceedLogSize == RfFree /\ (SnapStep("check", "dump") \/ SnapStep("check", LoopHead))

\* The maps are encoded under kv.mu,
Encode == KvFree /\ SnapStep("dump", "take")

\* which is free again when TakeSnapshot takes rf.mu.
TakeSnapshot == RfFree /\ SnapStep("take", LoopHead)

-----------------------------------------------------------------------------
(* Get and PutAppend.                                                      *)

HandlerStep(h, from, to) ==
    /\ handler[h] = from /\ handler' = [handler EXCEPT ![h] = to]
    /\ UNCHANGED <<main, apply, waiter, snap, peer, batch, elector, dead>>

\* The server is registered when StartKVServer has returned.
Request(h) ==
    /\ main = "done"
    /\ HandlerStep(h, "idle", "start")
    /\ UNCHANGED cmdMap

\* rf.Start: a killed peer says that it leads.
Start(h) ==
    /\ RfFree
    /\ HandlerStep(h, "start", IF dead \/ role = "LEADER" THEN "register" ELSE "idle")
    /\ UNCHANGED cmdMap

\* The context may replace another one of the same index.
Register(h) ==
    /\ KvFree
    /\ HandlerStep(h, "register", "wait")
    /\ \E old \in {cmdMap} \cup {cmdMap \ {o} : o \in cmdMap} : cmdMap' = old \cup {h}

\* commitedChan is closed, or the ticker fires.
Wake(h) ==
    /\ HandlerStep(h, "wait", "clean")
    /\ UNCHANGED cmdMap

\* The deferred clean-up.
Clean(h) ==
    /\ KvFree
    /\ HandlerStep(h, "clean", "idle")
    /\ cmdMap' = cmdMap \ {h}

-----------------------------------------------------------------------------
(* Raft calls and replies.                                                 *)

\* becomeFollower: a peer that was no follower gets a timer.
becomeFollower ==
    /\ role' = "FOLLOWER"
    /\ \/ role = "FOLLOWER" /\ UNCHANGED <<timers, heartBeatCnt>>
       \/ /\ role # "FOLLOWER" /\ timers < MaxTimers
          /\ timers' = timers + 1 /\ heartBeatCnt' = FALSE

\* Mutant: the loop sends one message too many.
SendOneMore(p, n) ==
    /\ peer' = [peer EXCEPT ![p] = IF n < 0 THEN "idle" ELSE "send"]
    /\ batch' = [batch EXCEPT ![p] = n]

\* Goroutine p leaves its critical section, or goes on to send n messages.
SendOrReturn(p, n) ==
    /\ peer' = [peer EXCEPT ![p] = IF n = 0 THEN "idle" ELSE "send"]
    /\ batch' = [batch EXCEPT ![p] = n]

Arrives(p) ==
    /\ peer[p] = "idle" /\ main = "done" /\ RfFree
    /\ UNCHANGED <<main, service, elections, heartBeatCh, dead>>

\* AppendEntries from a leader that is not behind: a follower or candidate signals
\* its timer or election before it applies what the call commits.
AppendEntries(p, n) ==
    /\ Arrives(p)
    /\ becomeFollower
    /\ \/ /\ role # "LEADER"
          /\ peer' = [peer EXCEPT ![p] = "signal"]
          /\ batch' = [batch EXCEPT ![p] = n]
       \/ role = "LEADER" /\ SendOrReturn(p, n)

\* RequestVote's first critical section, in a new term or not, found a follower.
\* (A call that is refused is HigherTermReply, or changes nothing.)
RequestVote(p) ==
    /\ Arrives(p)
    /\ becomeFollower \/ UNCHANGED <<role, timers, heartBeatCnt>>
    /\ role' = "FOLLOWER"
    /\ peer' = [peer EXCEPT ![p] = "vote"]
    /\ UNCHANGED batch

\* Its second one: the vote is given, with a signal, or was already given.
RequestVoteGrant(p) ==
    /\ peer[p] = "vote" /\ RfFree
    /\ \E to \in {"signal", "idle"} : peer' = [peer EXCEPT ![p] = to]
    /\ UNCHANGED <<main, service, batch, elector, dead>>

\* InstallSnapshot, in a new term or not, of a newer snapshot or not.
InstallSnapshot(p, n) ==
    /\ Arrives(p) /\ n <= 1
    /\ becomeFollower \/ UNCHANGED <<role, timers, heartBeatCnt>>
    /\ SendOrReturn(p, n)

\* A leader's goroutine gets a reply: it applies what is now committed,
ReplyCommits(p, n) ==
    /\ Arrives(p) /\ role = "LEADER"
    /\ SendOrReturn(p, n)
    /\ UNCHANGED <<role, timers, heartBeatCnt>>

\* or learns of a higher term, as does a handler that then refuses the call.
HigherTermReply(p) ==
    /\ Arrives(p)
    /\ becomeFollower
    /\ UNCHANGED <<peer, batch>>

\* heartBeatCh <- true, which blocks while the channel is full.
Signal(p) ==
    /\ peer[p] = "signal"
    /\ heartBeatCh < ChanCap
    /\ heartBeatCh' = heartBeatCh + 1
    /\ SendOrReturn(p, batch[p])
    /\ UNCHANGED <<main, service, role, timers, elections, heartBeatCnt, dead>>

\* applyChan <- msg meets applyMsgLoop.
Send(p) ==
    /\ peer[p] = "send"
    /\ apply = "recv" /\ apply' = "lock"
    /\ SendOrReturn(p, batch[p] - 1)
    /\ UNCHANGED <<main, waiter, snap, handler, cmdMap, elector, dead>>

-----------------------------------------------------------------------------
(* TimeOutToElection and StartElection.                                    *)

\* Mutant: killed() is not asked.
TimerTickForEver ==
    /\ timers > 0
    /\ \/ heartBeatCnt /\ heartBeatCnt' = FALSE /\ UNCHANGED <<timers, elections>>
       \/ /\ ~heartBeatCnt
          /\ \E i \in 1..MaxElections :
                elections[i] = "none" /\ elections' = [elections EXCEPT ![i] = "quit"]
          /\ UNCHANGED <<timers, heartBeatCnt>>
    /\ UNCHANGED <<main, service, peer, batch, role, heartBeatCh, dead>>

\* The ticker: the goroutine ends, clears the count, or starts an election.
TimerTick ==
    /\ timers > 0
    /\ \/ dead /\ timers' = timers - 1 /\ UNCHANGED <<elections, heartBeatCnt>>
       \/ /\ ~dead /\ heartBeatCnt /\ heartBeatCnt' = FALSE
          /\ UNCHANGED <<timers, elections>>
       \/ /\ ~dead /\ ~heartBeatCnt
          /\ \E i \in 1..MaxElections :
                elections[i] = "none" /\ elections' = [elections EXCEPT ![i] = "quit"]
          /\ UNCHANGED <<timers, heartBeatCnt>>
    /\ UNCHANGED <<main, service, peer, batch, role, heartBeatCh, dead>>

\* <-rf.heartBeatCh in the timer.
TimerHeartBeat ==
    /\ timers > 0 /\ heartBeatCh > 0
    /\ heartBeatCh' = heartBeatCh - 1 /\ heartBeatCnt' = TRUE
    /\ UNCHANGED <<main, service, peer, batch, role, timers, elections, dead>>

ElectionStep(i, from, to) ==
    /\ elections[i] = from /\ elections' = [elections EXCEPT ![i] = to]
    /\ UNCHANGED <<main, service, peer, batch, dead>>

\* quitElection <- true meets a timer, which ends.
QuitElection(i) ==
    /\ timers > 0 /\ timers' = timers - 1
    /\ ElectionStep(i, "quit", "lock")
    /\ UNCHANGED <<role, heartBeatCh, heartBeatCnt>>

\* A round begins, unless the peer leads.
Round(i) ==
    /\ RfFree
    /\ \/ role = "LEADER" /\ ElectionStep(i, "lock", "none") /\ UNCHANGED role
       \/ role # "LEADER" /\ ElectionStep(i, "lock", "poll") /\ role' = "CANDICATE"
    /\ UNCHANGED <<timers, heartBeatCh, heartBeatCnt>>

\* The select: its ticker, a reply that decides the election, or a heartbeat.
ElectionTicker(i) ==
    /\ ElectionStep(i, "poll", IF dead THEN "none" ELSE "lock")
    /\ UNCHANGED <<role, timers, heartBeatCh, heartBeatCnt>>

VoteReply(i) ==
    /\ ElectionStep(i, "poll", "decided")
    /\ UNCHANGED <<role, timers, heartBeatCh, heartBeatCnt>>

ElectionHeartBeat(i) ==
    /\ heartBeatCh > 0 /\ heartBeatCh' = heartBeatCh - 1
    /\ ElectionStep(i, "poll", "none")
    /\ UNCHANGED <<role, timers, heartBeatCnt>>

\* It was the decisive vote: becomeLeader, whatever has happened since;
WinElection(i) ==
    /\ RfFree
    /\ ElectionStep(i, "decided", "none")
    /\ role' = "LEADER"
    /\ UNCHANGED <<timers, heartBeatCh, heartBeatCnt>>

\* or it showed a higher term.
LoseElection(i) ==
    /\ RfFree
    /\ ElectionStep(i, "decided", "none")
    /\ becomeFollower
    /\ UNCHANGED heartBeatCh

-----------------------------------------------------------------------------

Init ==
    /\ main = "new" /\ apply = "none" /\ snap = "none" /\ waiter = None
    /\ handler = [h \in Handler |-> "idle"] /\ cmdMap = {}
    /\ peer = [p \in Peer |-> "idle"] /\ batch = [p \in Peer |-> 0]
    /\ role = "FOLLOWER" /\ timers = 0
    /\ elections = [i \in 1..MaxElections |-> "none"]
    /\ heartBeatCh = 0 /\ heartBeatCnt = FALSE /\ dead = FALSE

Next ==
    \/ GoApply \/ InstallSnapshotToApplication \/ GoSnapshots \/ Kill
    \/ ApplyMsg \/ Notify
    \/ ExceedLogSize \/ Encode \/ TakeSnapshot
    \/ \E h \in Handler : Request(h) \/ Start(h) \/ Register(h) \/ Wake(h) \/ Clean(h)
    \/ \E p \in Peer :
          \/ RequestVote(p) \/ RequestVoteGrant(p) \/ HigherTermReply(p)
          \/ Signal(p) \/ Send(p)
          \/ \E n \in 0..MaxBatch :
                AppendEntries(p, n) \/ InstallSnapshot(p, n) \/ ReplyCommits(p, n)
    \/ TimerTick \/ TimerHeartBeat
    \/ \E i \in 1..MaxElections :
          \/ QuitElection(i) \/ Round(i) \/ ElectionTicker(i) \/ VoteReply(i)
          \/ ElectionHeartBeat(i) \/ WinElection(i) \/ LoseElection(i)

\* Goroutines that can run do run, tickers fire, and a ready channel operation is
\* carried out.  A sync.Mutex hands itself over to one that has waited 1 ms, so a
\* lock that is free time and again is obtained (strong fairness); this is needed
\* where others take the lock again and again.  Calls need not arrive.
Fairness ==
    /\ WF_vars(GoApply \/ InstallSnapshotToApplication \/ GoSnapshots)
    /\ WF_vars(ApplyMsg) /\ WF_vars(Notify)
    /\ \A h \in Handler : SF_vars(Start(h)) /\ WF_vars(Wake(h)) /\ SF_vars(Clean(h))
    /\ \A p \in Peer : WF_vars(Signal(p)) /\ WF_vars(Send(p))
    /\ WF_vars(TimerTick) /\ WF_vars(TimerHeartBeat)
    /\ \A i \in 1..MaxElections :
          WF_vars(ElectionTicker(i)) /\ WF_vars(ElectionHeartBeat(i))

Spec == Init /\ [][Next]_vars /\ Fairness

-----------------------------------------------------------------------------

\* The places where each goroutine may be, and the contents of the channels.
TypeOK ==
    /\ main \in {"new", "make", "made", "done"}
    /\ apply \in {"none", "recv", "lock", "notify", "end"}
    /\ waiter \in Handler \cup {None}
    /\ snap \in {"none", "check", "dump", "take", "end"}
    /\ handler \in [Handler -> {"idle", "start", "register", "wait", "clean"}]
    /\ cmdMap \subseteq Handler
    /\ peer \in [Peer -> {"idle", "vote", "signal", "send"}]
    /\ batch \in [Peer -> 0..MaxBatch]
    /\ role \in {"FOLLOWER", "CANDICATE", "LEADER"}
    /\ timers \in 0..MaxTimers
    /\ elections \in [1..MaxElections -> {"none", "quit", "lock", "poll", "decided"}]
    /\ heartBeatCh \in 0..ChanCap
    /\ heartBeatCnt \in BOOLEAN /\ dead \in BOOLEAN

\* StartKVServer returns: Make's message finds a reader (server.go:395-401).
MakeReturns == <>[](main = "done")

\* heartBeatCh is full, its writer holds rf.mu, and no goroutine reads it: the timer
\* was stopped by an election that waits for rf.mu, or the peer leads.
Stuck ==
    /\ \E p \in Peer : peer[p] = "signal"
    /\ heartBeatCh = ChanCap
    /\ timers = 0 /\ \A i \in 1..MaxElections : elections[i] # "poll"

\* As long as the server is not killed, a handler gets through rf.Start, although
\* rf.mu is held while messages are handed to applyMsgLoop, which takes kv.mu, and
\* snapshotLoop takes both locks; a full heartBeatCh is the only thing that can stop
\* the server (raft.go:351, 472, 546, 843, 1215; server.go:219-345).
StartReturns ==
    \A h \in Handler : handler[h] = "start" ~> (handler[h] # "start" \/ dead \/ Stuck)

\* A request that waits for its command is answered, also by a server that was
\* killed or is stuck: its ticker or applyMsgLoop wakes it up and kv.mu is never kept
\* (server.go:105-134, 280-287).
HandlerReturns == \A h \in Handler : handler[h] = "wait" ~> handler[h] = "idle"

\* The timers of a killed peer end, also those that late calls start
\* ("any goroutine with a long-running loop should call killed()", raft.go:1027-1028).
KilledTimersEnd == <>[](dead => timers = 0)
=============================================================================
