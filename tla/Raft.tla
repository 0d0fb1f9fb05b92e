-------------------------------- MODULE Raft --------------------------------
(***************************************************************************)
(* The Raft peer of raft/raft.go, one copy per element of Server, over a   *)
(* network that loses, delays and reorders calls (labrpc).                 *)
(*                                                                         *)
(* Grain of atomicity.  One action is one critical section of rf.mu, with  *)
(* the thread-local code next to it.  RequestVote takes the lock twice, so *)
(* it is two actions; so are HeartBeatToServer and the do...RPC function   *)
(* it calls, and the handling of a refused vote, which reads currentTerm   *)
(* before it takes the lock.  Goroutines are part of the state: the        *)
(* TimeOutToElection timers, the StartElection goroutines at quitElection, *)
(* at the lock and in their loops, the goroutines that request votes, the  *)
(* HeartBeatToServer loops, and every call in flight.                      *)
(*                                                                         *)
(* A step that would panic (a nil leaderPtr, an index outside logs) ends   *)
(* the program: the guards exclude it, and what is reached without it is   *)
(* all that is reached.                                                    *)
(***************************************************************************)
EXTENDS Integers, Sequences, FiniteSets, FiniteSetsExt

CONSTANTS
    Server,        \* the peers
    Command,       \* commands the service passes to Start
    Nil,           \* votedFor = -1, a nil pointer, a nil Command
    Compacting,    \* the peers whose service has maxraftstate # -1
    Serving,       \* bound: the peers whose service calls Start
    Faulty,        \* bound: the peers that crash, or whose timer fires while they
                   \* lead or while another tick is being acted upon
    Rounds,        \* bound: the <<peer, term>> pairs an election may start for
    MaxIndex,      \* bound: no log entry beyond this LogIndex
    MaxCalls,      \* bound: calls in flight
    MaxElections,  \* bound: StartElection goroutines per peer
    MaxLinger,     \* bound: StartElection goroutines waiting behind another one
    MaxGap,        \* bound: HeartBeatToServer goroutines between their two locks
    MaxRestarts,   \* bound: crashes, over all peers
    ChanCap        \* capacity of heartBeatCh (8 in Make)

ASSUME ConstantsAssumption ==
    /\ IsFiniteSet(Server) /\ Server # {}
    /\ Nil \notin Server /\ Nil \notin Command
    /\ Compacting \subseteq Server /\ Serving \subseteq Server
    /\ Rounds \subseteq Server \X Nat
    /\ {MaxIndex, MaxCalls, MaxElections, MaxLinger, MaxGap,
        MaxRestarts, ChanCap} \subseteq Nat

VARIABLES
    rf,           \* the fields of Raft that persist() saves
    disk,         \* Persister.raftstate
    snapshot,     \* Persister.snapshot, as the log index it covers
    role,
    leaderPtr,    \* nextIndexs and matchIndexs, or Nil
    commitIndex,  \* and lastApplied, which every assignment keeps equal to it
    timers,       \* live TimeOutToElection goroutines
    linger,       \* StartElection goroutines at quitElection <- true
    starting,     \* StartElection goroutines past it that wait for rf.mu
    heartBeatCh,  \* values buffered in heartBeatCh
    elections,    \* StartElection goroutines inside their loop
    requests,     \* vote-requesting goroutines whose round was left
    beats,        \* HeartBeatToServer goroutines not waiting for a reply
    calls,        \* RPCs in flight, each at one of its stages
    lastAppliedIndex, \* KVServer.lastAppliedIndex of the service above
    dump,         \* index of a snapshot the service took but has not handed over
    cfgLogs,      \* config.logs: <<CommandIndex, Command>> pairs delivered
    restarts,     \* crashes so far
    ballots,      \* history: <<voter, candidate, CandicateTerm>> granted
    acked         \* history: highest index a leader committed by counting

persistent == <<rf, disk, snapshot>>
pending    == <<linger, starting, requests>>
elector    == <<timers, pending, heartBeatCh, elections>>
service    == <<lastAppliedIndex, dump, cfgLogs>>
history    == <<ballots, acked>>
vars == <<persistent, role, leaderPtr, commitIndex, elector, beats, calls,
          service, restarts, history>>

-----------------------------------------------------------------------------
(* Data.                                                                   *)

FOLLOWER  == "FOLLOWER"
CANDICATE == "CANDICATE"
LEADER    == "LEADER"

LogEntry == [LogTerm: Nat, LogIndex: Nat, Command: Command \cup {Nil},
             CommandIndex: Nat, IsInternalLog: BOOLEAN]

\* What encodeRaftState writes and readPersist reads.
RaftState == [currentTerm: Nat, votedFor: Server \cup {Nil},
              logs: Seq(LogEntry), lastIncludedIndex: Nat,
              lastIncludedTerm: Nat, lastIncludedCmdIndex: Nat]

Leader == [nextIndexs: [Server -> Nat], matchIndexs: [Server -> Nat]]

ASSUME NilAssumption == Nil \notin Leader

\* The entry that stands for the snapshot at position 0 of logs.
Sentinel(index, term, cmdIndex) ==
    [LogTerm |-> term, LogIndex |-> index, Command |-> Nil,
     CommandIndex |-> cmdIndex, IsInternalLog |-> TRUE]

\* logIndex2LogPos, for sequences that start at 1.
logIndex2LogPos(st, index) == index - st.lastIncludedIndex + 1

getLastLog(st) == st.logs[Len(st.logs)]

Holds(st, index) == logIndex2LogPos(st, index) \in DOMAIN st.logs

EntryAt(st, index) == st.logs[logIndex2LogPos(st, index)]

\* Mutant: half of the servers, rounded down.
HalfOfServers == Cardinality(Server) \div 2

\* The number of servers the code takes for a majority.
Majority == (Cardinality(Server) + 1) \div 2

\* Make after readPersist: an empty log gets its sentinel back.
Restored(st) ==
    IF st.logs = <<>>
    THEN [st EXCEPT !.logs = <<Sentinel(st.lastIncludedIndex,
                                        st.lastIncludedTerm,
                                        st.lastIncludedCmdIndex)>>]
    ELSE st

\* What readPersist leaves in place when the persister is empty.
NoState == [currentTerm |-> 0, votedFor |-> Nil, logs |-> <<>>,
            lastIncludedIndex |-> 0, lastIncludedTerm |-> 0,
            lastIncludedCmdIndex |-> 0]

-----------------------------------------------------------------------------
(* Operations shared by the handlers.                                      *)

\* persist(): the fields in memory go to the persister.
persist(s, st) ==
    /\ rf' = [rf EXCEPT ![s] = st]
    /\ disk' = [disk EXCEPT ![s] = st]

\* becomeFollower: what it does to the saved fields ...
FollowerState(st, newTerm) ==
    [st EXCEPT !.currentTerm = newTerm, !.votedFor = Nil]

\* Mutant: only a leader that steps down starts a timer.
becomeFollowerFromLeader(s) ==
    /\ role' = [role EXCEPT ![s] = FOLLOWER]
    /\ leaderPtr' = [leaderPtr EXCEPT ![s] = Nil]
    /\ timers' = [timers EXCEPT ![s] = IF role[s] = LEADER THEN @ + 1 ELSE @]

\* ... and to the rest.  Leaving another role starts an election timer.
becomeFollower(s) ==
    /\ role' = [role EXCEPT ![s] = FOLLOWER]
    /\ leaderPtr' = [leaderPtr EXCEPT ![s] = Nil]
    /\ timers' = [timers EXCEPT ![s] = IF role[s] = FOLLOWER THEN @ ELSE @ + 1]

\* becomeLeader appends a no-op to the log ...
LeaderState(st) ==
    [st EXCEPT !.logs = Append(@,
        [LogTerm |-> st.currentTerm, LogIndex |-> getLastLog(st).LogIndex + 1,
         Command |-> Nil, CommandIndex |-> getLastLog(st).CommandIndex,
         IsInternalLog |-> TRUE])]

\* One HeartBeatToServer goroutine of s more for each peer.
Spawned(s) ==
    [p \in Server |-> IF p = s THEN beats[s][p]
                      ELSE [beats[s][p] EXCEPT !.top = @ + 1]]

\* ... after nextIndexs was set from the log as it was, and starts the
\* HeartBeatToServer goroutines.  Neither role nor term is checked.
becomeLeader(s) ==
    /\ getLastLog(rf[s]).LogIndex < MaxIndex
    /\ persist(s, LeaderState(rf[s]))
    /\ role' = [role EXCEPT ![s] = LEADER]
    /\ leaderPtr' = [leaderPtr EXCEPT ![s] =
          [nextIndexs  |-> [p \in Server |-> getLastLog(rf[s]).LogIndex + 1],
           matchIndexs |-> [p \in Server |-> 0]]]
    /\ beats' = [beats EXCEPT ![s] = Spawned(s)]

\* heartBeatCh <- true, which blocks while the channel is full.
Signal(s) ==
    /\ heartBeatCh[s] < ChanCap
    /\ heartBeatCh' = [heartBeatCh EXCEPT ![s] = @ + 1]

\* The service receives the entries from..to of st on applyChan, in order.
Apply(s, st, from, to) ==
    LET sent == {EntryAt(st, i) : i \in
                   {j \in from..to : ~EntryAt(st, j).IsInternalLog}}
    IN /\ cfgLogs' = [cfgLogs EXCEPT ![s] =
             @ \cup {<<e.CommandIndex, e.Command>> : e \in sent}]
       /\ lastAppliedIndex' = [lastAppliedIndex EXCEPT ![s] =
             Max({@} \cup {e.LogIndex : e \in sent})]

\* The caller of m no longer waits for it; the call itself goes on.
Orphan(m) == [m EXCEPT !.waiting = FALSE, !.id = 0]

\* The handler of m returns r, which travels back if the caller still waits.
Reply(m, r) ==
    calls' = (calls \ {m}) \cup (IF m.waiting THEN {r} ELSE {})

Send(m) ==
    /\ Cardinality(calls) < MaxCalls
    /\ calls' = calls \cup {m}

VoteStages == {"RequestVote", "voting", "RequestVoteReply"}

\* The calls that have reached s, and the ones whose result has come back to it.
Arrived(s, stage) == {m \in calls : m.dst = s /\ m.stage = stage}
Returned(s, stage) == {m \in calls : m.src = s /\ m.stage = stage}

\* The StartElection goroutines of s.
Loops(s) == {e \in elections : e.cand = s}

\* StartElection goroutine id of s leaves its round: voteCh has no reader now.
Abandon(s, id) ==
    LET own == {m \in calls : m.stage \in VoteStages /\ m.src = s /\ m.id = id}
    IN calls' = (calls \ own) \cup
                {Orphan(m) : m \in {c \in own : c.stage # "RequestVoteReply"}}

\* Its vote-requesting goroutines are not told.
Leave(e) ==
    requests' = requests \cup
        {[cand |-> e.cand, term |-> e.term, LastLogIndex |-> e.LastLogIndex,
          LastLogTerm |-> e.LastLogTerm, answered |-> e.answered]}

Others(s, id) == {e \in elections : ~(e.cand = s /\ e.id = id)}

\* A HeartBeatToServer goroutine goes from one point of its loop to another.
Moved(b, top, append, snap) ==
    [top |-> b.top + top, append |-> b.append + append, snap |-> b.snap + snap]

\* It comes back to the top of its loop after a call.
Return(s, p) == beats' = [beats EXCEPT ![s][p] = Moved(@, 1, 0, 0)]

\* Mutant: the goroutine ends when its call fails.
ResumeNothing(m) == UNCHANGED beats

\* The goroutine that waits for m gets timeOut or ok = false and loops.
Resume(m) ==
    IF m.waiting /\ m.stage \notin VoteStages
    THEN Return(m.src, m.dst)
    ELSE UNCHANGED beats

-----------------------------------------------------------------------------
(* Elections.                                                              *)

\* One iteration of StartElection's loop, up to the spawning of the requests.
\* A leader leaves the loop instead.
Round(s, id) ==
    LET st == [rf[s] EXCEPT !.currentTerm = @ + 1, !.votedFor = s]
    IN \/ /\ role[s] = LEADER
          /\ elections' = Others(s, id)
          /\ UNCHANGED <<rf, disk, role>>
       \/ /\ role[s] # LEADER
          /\ <<s, st.currentTerm>> \in Rounds
          /\ rf[s].logs # <<>>
          /\ persist(s, st)
          /\ role' = [role EXCEPT ![s] = CANDICATE]
          /\ elections' = Others(s, id) \cup
                {[cand |-> s, id |-> id, term |-> st.currentTerm,
                  LastLogIndex |-> getLastLog(st).LogIndex,
                  LastLogTerm |-> getLastLog(st).LogTerm,
                  answered |-> {}, granted |-> {}, higher |-> 0]}

FreeIds(s) ==
    {i \in 1..MaxElections : \A e \in elections : e.cand = s => e.id # i}

\* Bound: where a timer may fire.  On a leader the StartElection goroutine will
\* only end a timer; elsewhere its election is one of Rounds.
MayStand(s) ==
    \/ <<s, rf[s].currentTerm + 1>> \in Rounds
    \/ role[s] = LEADER /\ s \in Faulty

\* The ticker of TimeOutToElection fires with no heartbeat counted: go
\* StartElection().  The timer goes on and may fire again.  A tick that finds
\* heartBeatCnt > 0 only clears it, so the next one may fire: the counter is not
\* part of the state.
TimeOutToElection(s) ==
    /\ timers[s] > 0
    /\ MayStand(s)
    /\ linger[s] > 0 => s \in Faulty /\ linger[s] <= MaxLinger
    /\ linger' = [linger EXCEPT ![s] = @ + 1]
    /\ UNCHANGED <<persistent, role, leaderPtr, commitIndex, timers, starting,
                   heartBeatCh, elections, requests, beats, calls, service,
                   restarts, history>>

\* quitElection <- true meets a timer, not always the one that fired, which ends.
\* The goroutine has neither rf.mu nor another role yet.
QuitElection(s) ==
    /\ linger[s] > 0
    /\ timers[s] > 0
    /\ linger' = [linger EXCEPT ![s] = @ - 1]
    /\ timers' = [timers EXCEPT ![s] = @ - 1]
    /\ starting' = [starting EXCEPT ![s] = @ + 1]
    /\ UNCHANGED <<persistent, role, leaderPtr, commitIndex, heartBeatCh, elections,
                   requests, beats, calls, service, restarts, history>>

\* It gets rf.mu and enters its loop.
StartElection(s) ==
    /\ starting[s] > 0
    /\ FreeIds(s) # {}
    /\ starting' = [starting EXCEPT ![s] = @ - 1]
    /\ Round(s, Min(FreeIds(s)))
    /\ UNCHANGED <<snapshot, leaderPtr, commitIndex, timers, linger, heartBeatCh,
                   requests, beats, calls, service, restarts, history>>

\* TimeOutToElection receives a heartbeat.
TimerHeartBeat(s) ==
    /\ timers[s] > 0
    /\ heartBeatCh[s] > 0
    /\ heartBeatCh' = [heartBeatCh EXCEPT ![s] = @ - 1]
    /\ UNCHANGED <<persistent, role, leaderPtr, commitIndex, timers, pending,
                   elections, beats, calls, service, restarts, history>>

\* StartElection's 400 ms ticker: the round is over, another one begins.
ElectionTicker(s) == \E e \in Loops(s) :
    /\ e.higher = 0
    /\ Round(s, e.id)
    /\ Abandon(s, e.id)
    /\ Leave(e)
    /\ UNCHANGED <<snapshot, leaderPtr, commitIndex, timers, linger, starting,
                   heartBeatCh, beats, service, restarts, history>>

\* StartElection receives a heartbeat: it gives up, whatever its role is.
ElectionHeartBeat(s) == \E e \in Loops(s) :
    /\ e.higher = 0
    /\ heartBeatCh[s] > 0
    /\ heartBeatCh' = [heartBeatCh EXCEPT ![s] = @ - 1]
    /\ elections' = elections \ {e}
    /\ Abandon(s, e.id)
    /\ Leave(e)
    /\ UNCHANGED <<persistent, role, leaderPtr, commitIndex, timers, linger,
                   starting, beats, service, restarts, history>>

\* A vote-requesting goroutine of round e sends, or sends again, to p.
sendRequestVote(s, p) == \E e \in Loops(s) :
    /\ p \in Server \ ({s} \cup e.answered)
    /\ role[s] = CANDICATE
    /\ rf[s].currentTerm = e.term
    /\ \A m \in calls : ~(/\ m.stage \in VoteStages /\ m.waiting
                          /\ m.src = s /\ m.id = e.id /\ m.dst = p)
    /\ Send([stage |-> "RequestVote", src |-> s, dst |-> p, id |-> e.id,
             waiting |-> TRUE, CandicateTerm |-> e.term,
             LastLogIndex |-> e.LastLogIndex, LastLogTerm |-> e.LastLogTerm])
    /\ UNCHANGED <<persistent, role, leaderPtr, commitIndex, elector, beats,
                   service, restarts, history>>

\* One whose round was left goes on while nothing but the loop has changed.  It
\* ends with the answer; a call sent again after that one is like one sent before
\* and delayed.
resendRequestVote(s, p) == \E q \in requests :
    /\ q.cand = s
    /\ p \in Server \ ({s} \cup q.answered)
    /\ role[s] = CANDICATE
    /\ rf[s].currentTerm = q.term
    /\ Send([stage |-> "RequestVote", src |-> s, dst |-> p, id |-> 0,
             waiting |-> FALSE, CandicateTerm |-> q.term,
             LastLogIndex |-> q.LastLogIndex, LastLogTerm |-> q.LastLogTerm])
    /\ UNCHANGED <<persistent, role, leaderPtr, commitIndex, elector, beats,
                   service, restarts, history>>

VoteReply(m, granted, followerTerm) ==
    [stage |-> "RequestVoteReply", src |-> m.src, dst |-> m.dst, id |-> m.id,
     waiting |-> TRUE, CandicateTerm |-> m.CandicateTerm,
     VoteGranted |-> granted, FollowerTerm |-> followerTerm]

\* The candidate's log is behind the voter's.
LogIsBehind(m, st) ==
    \/ m.LastLogTerm < getLastLog(st).LogTerm
    \/ /\ m.LastLogTerm = getLastLog(st).LogTerm
       /\ m.LastLogIndex < getLastLog(st).LogIndex

\* RequestVote, first critical section and the checks on the values read there.
RequestVote(s) == \E m \in Arrived(s, "RequestVote") :
    LET newer   == m.CandicateTerm > rf[s].currentTerm
        st      == IF newer THEN FollowerState(rf[s], m.CandicateTerm) ELSE rf[s]
        curRole == IF newer THEN FOLLOWER ELSE role[s]
        refuse  == \/ m.CandicateTerm < st.currentTerm
                   \/ LogIsBehind(m, st)
                   \/ curRole # FOLLOWER
    IN /\ rf[s].logs # <<>>
       /\ \/ newer /\ persist(s, st) /\ becomeFollower(s)
          \/ ~newer /\ UNCHANGED <<rf, disk, role, leaderPtr, timers>>
       /\ \/ refuse /\ Reply(m, VoteReply(m, FALSE, st.currentTerm))
          \/ /\ ~refuse
             /\ calls' = (calls \ {m}) \cup
                   {[stage |-> "voting", src |-> m.src, dst |-> s, id |-> m.id,
                     waiting |-> m.waiting, CandicateTerm |-> m.CandicateTerm,
                     FollowerTerm |-> st.currentTerm]}
       /\ UNCHANGED <<snapshot, commitIndex, pending, heartBeatCh, elections, beats,
                      service, restarts, history>>

\* Mutant: the term of the candidate for its id.
GrantedTerm(st, m) == [st EXCEPT !.votedFor = m.CandicateTerm]

\* The vote is m's.
Granted(st, m) == [st EXCEPT !.votedFor = m.src]

\* RequestVote, second critical section: votedFor decides, nothing else is
\* looked at again.
RequestVoteGrant(s) == \E m \in Arrived(s, "voting") :
    /\ \/ /\ rf[s].votedFor \in {Nil, m.src}
          /\ Signal(s)
          /\ persist(s, Granted(rf[s], m))
          /\ ballots' = ballots \cup {<<s, m.src, m.CandicateTerm>>}
          /\ Reply(m, VoteReply(m, TRUE, m.FollowerTerm))
       \/ /\ rf[s].votedFor \notin {Nil, m.src}
          /\ Reply(m, VoteReply(m, FALSE, m.FollowerTerm))
          /\ UNCHANGED <<rf, disk, heartBeatCh, ballots>>
    /\ UNCHANGED <<snapshot, role, leaderPtr, commitIndex, timers, pending,
                   elections, beats, service, restarts, acked>>

\* m answers a request of round e, whose loop can still read voteCh.
Answers(m, e) == m.id = e.id /\ e.higher = 0

\* A granted vote that is not yet enough.
CountVote(s) == \E e \in Loops(s), m \in Returned(s, "RequestVoteReply") :
    /\ Answers(m, e)
    /\ m.VoteGranted
    /\ Cardinality(e.granted) + 2 < Majority
    /\ elections' = (elections \ {e}) \cup
          {[e EXCEPT !.answered = @ \cup {m.dst}, !.granted = @ \cup {m.dst}]}
    /\ calls' = calls \ {m}
    /\ UNCHANGED <<persistent, role, leaderPtr, commitIndex, timers, pending,
                   heartBeatCh, beats, service, restarts, history>>

\* The vote that makes getVote reach the majority: becomeLeader, at once.
WinElection(s) == \E e \in Loops(s), m \in Returned(s, "RequestVoteReply") :
    /\ Answers(m, e)
    /\ m.VoteGranted
    /\ Cardinality(e.granted) + 2 >= Majority
    /\ rf[s].logs # <<>>
    /\ becomeLeader(s)
    /\ elections' = elections \ {e}
    /\ Abandon(s, e.id)
    /\ Leave(e)
    /\ UNCHANGED <<snapshot, commitIndex, timers, linger, starting, heartBeatCh,
                   service, restarts, history>>

\* A refused vote.  currentTerm is read without the lock.
VoteRefused(s) == \E e \in Loops(s), m \in Returned(s, "RequestVoteReply") :
    /\ Answers(m, e)
    /\ ~m.VoteGranted
    /\ elections' = (elections \ {e}) \cup
          {[e EXCEPT !.answered = @ \cup {m.dst},
                     !.higher = IF m.FollowerTerm > rf[s].currentTerm
                                THEN m.FollowerTerm ELSE 0]}
    /\ calls' = calls \ {m}
    /\ UNCHANGED <<persistent, role, leaderPtr, commitIndex, timers, pending,
                   heartBeatCh, beats, service, restarts, history>>

\* ... and acted upon with it, later.
LoseElection(s) == \E e \in Loops(s) :
    /\ e.higher > 0
    /\ persist(s, FollowerState(rf[s], e.higher))
    /\ becomeFollower(s)
    /\ elections' = elections \ {e}
    /\ Abandon(s, e.id)
    /\ Leave(e)
    /\ UNCHANGED <<snapshot, commitIndex, linger, starting, heartBeatCh, beats,
                   service, restarts, history>>

-----------------------------------------------------------------------------
(* Replication.                                                            *)

\* The top of HeartBeatToServer's loop.
HeartBeatToServer(s, p) ==
    /\ beats[s][p].top > 0
    /\ Cardinality({q \in Server : beats[s][q].append + beats[s][q].snap > 0})
         < MaxGap
    /\ \/ /\ role[s] # LEADER
          /\ beats' = [beats EXCEPT ![s][p] = Moved(@, -1, 0, 0)]
       \/ /\ role[s] = LEADER
          /\ leaderPtr[s].nextIndexs[p] <= rf[s].lastIncludedIndex
          /\ beats' = [beats EXCEPT ![s][p] = Moved(@, -1, 0, 1)]
       \/ /\ role[s] = LEADER
          /\ leaderPtr[s].nextIndexs[p] > rf[s].lastIncludedIndex
          /\ beats' = [beats EXCEPT ![s][p] = Moved(@, -1, 1, 0)]
    /\ UNCHANGED <<persistent, role, leaderPtr, commitIndex, elector, calls,
                   service, restarts, history>>

\* The arguments doAppendEntriesRPC sends to p: the log from nextIndexs[p] on,
\* or a heartbeat without entries.
AppendEntriesArgs(s, p) ==
    LET st    == rf[s]
        next  == leaderPtr[s].nextIndexs[p]
        pos   == logIndex2LogPos(st, next)
        fresh == getLastLog(st).LogIndex >= next
    IN [stage |-> "AppendEntries", src |-> s, dst |-> p, id |-> 0,
        waiting |-> TRUE, LeaderTerm |-> st.currentTerm,
        PrevLogIndex |-> IF fresh THEN st.logs[pos - 1].LogIndex ELSE -1,
        PrevLogTerm |-> IF fresh THEN st.logs[pos - 1].LogTerm ELSE -1,
        Entries |-> IF fresh THEN SubSeq(st.logs, pos, Len(st.logs)) ELSE <<>>,
        LeaderCommit |-> commitIndex[s]]

\* doAppendEntriesRPC up to the call.  leaderPtr is dereferenced although the
\* lock was free since HeartBeatToServer looked at the role.
doAppendEntriesRPC(s, p) ==
    /\ beats[s][p].append > 0
    /\ rf[s].logs # <<>>
    /\ leaderPtr[s] # Nil
    /\ \/ /\ leaderPtr[s].nextIndexs[p] <= rf[s].lastIncludedIndex
          /\ getLastLog(rf[s]).LogIndex >= leaderPtr[s].nextIndexs[p]
          /\ beats' = [beats EXCEPT ![s][p] = Moved(@, 1, -1, 0)]
          /\ UNCHANGED calls
       \/ /\ \/ leaderPtr[s].nextIndexs[p] > rf[s].lastIncludedIndex
             \/ getLastLog(rf[s]).LogIndex < leaderPtr[s].nextIndexs[p]
          /\ beats' = [beats EXCEPT ![s][p] = Moved(@, 0, -1, 0)]
          /\ Send(AppendEntriesArgs(s, p))
    /\ UNCHANGED <<persistent, role, leaderPtr, commitIndex, elector, service,
                   restarts, history>>

\* Mutant: the entries are appended to whatever is there.
AppendWithoutCut(logs, pos, entries) == logs \o entries

\* The log keeps its first pos entries and goes on with the ones sent.
CutAndAppend(logs, pos, entries) == SubSeq(logs, 1, pos) \o entries

\* What AppendEntries does to the log, and what it answers.  The log is cut
\* after PrevLogIndex whether or not the entries sent are already there.
AppendResult(st, m) ==
    LET pos  == logIndex2LogPos(st, m.PrevLogIndex)
        fail == [logs |-> st.logs, Success |-> FALSE, Xterm |-> -1,
                 Xindex |-> 0, Xlen |-> 0]
    IN CASE m.Entries = <<>> -> [fail EXCEPT !.Success = TRUE, !.Xterm = 0]
         [] m.Entries # <<>> /\ m.PrevLogIndex < st.lastIncludedIndex -> fail
         [] m.Entries # <<>> /\ m.PrevLogIndex > getLastLog(st).LogIndex ->
              [fail EXCEPT !.Xlen = getLastLog(st).LogIndex]
         [] OTHER ->
              IF st.logs[pos].LogTerm = m.PrevLogTerm
              THEN [fail EXCEPT !.logs = CutAndAppend(@, pos, m.Entries),
                                !.Success = TRUE, !.Xterm = 0]
              ELSE LET same == {i \in 2..pos : st.logs[i].LogTerm =
                                               st.logs[pos].LogTerm}
                   IN [fail EXCEPT
                         !.logs = SubSeq(@, 1, pos - 1),
                         !.Xterm = st.logs[pos].LogTerm,
                         !.Xindex = IF same = {} THEN 0
                                    ELSE st.logs[Min(same)].LogIndex]

AppendReply(m, r, followerTerm) ==
    [stage |-> "AppendEntriesReply", src |-> m.src, dst |-> m.dst, id |-> 0,
     waiting |-> TRUE, LeaderTerm |-> m.LeaderTerm,
     lastEntry |-> IF m.Entries = <<>> THEN 0
                   ELSE m.Entries[Len(m.Entries)].LogIndex,
     Success |-> r.Success, FollowerTerm |-> followerTerm,
     Xterm |-> r.Xterm, Xindex |-> r.Xindex, Xlen |-> r.Xlen]

\* AppendEntries refuses the call of a leader with a smaller term.
RejectEntries(s) == \E m \in Arrived(s, "AppendEntries") :
    /\ m.LeaderTerm < rf[s].currentTerm
    /\ Reply(m, AppendReply(m, [Success |-> FALSE, Xterm |-> 0, Xindex |-> 0,
                                Xlen |-> 0], rf[s].currentTerm))
    /\ UNCHANGED <<persistent, role, leaderPtr, commitIndex, elector, beats,
                   service, restarts, history>>

\* Mutant: a follower commits all that it has stored.
FollowToEnd(r, m) ==
    IF r.Success /\ r.logs # <<>> THEN r.logs[Len(r.logs)].LogIndex ELSE 0

\* The index up to which AppendEntries commits: none if the log did not match.
FollowTo(r, m) ==
    IF r.Success /\ r.logs # <<>>
    THEN Min({m.LeaderCommit, r.logs[Len(r.logs)].LogIndex}) ELSE 0

\* AppendEntries from a leader whose term is not smaller: become a follower of
\* that term (forgetting the vote, even in an equal term), signal heartBeatCh,
\* update the log, then follow LeaderCommit as far as the log goes.  A peer whose
\* log was emptied survives only a heartbeat that commits nothing.
AppendEntries(s) == \E m \in Arrived(s, "AppendEntries") :
    LET fs == FollowerState(rf[s], m.LeaderTerm)
        r  == AppendResult(fs, m)
        st == [fs EXCEPT !.logs = r.logs]
        to == FollowTo(r, m)
    IN /\ m.LeaderTerm >= rf[s].currentTerm
       /\ rf[s].logs = <<>> => m.Entries = <<>> /\ m.LeaderCommit <= commitIndex[s]
       /\ persist(s, st)
       /\ becomeFollower(s)
       /\ \/ role[s] = LEADER /\ UNCHANGED heartBeatCh
          \/ role[s] # LEADER /\ Signal(s)
       /\ \/ /\ to <= commitIndex[s]
             /\ UNCHANGED <<commitIndex, lastAppliedIndex, cfgLogs>>
          \/ /\ to > commitIndex[s]
             /\ commitIndex[s] + 1 >= st.lastIncludedIndex
             /\ commitIndex' = [commitIndex EXCEPT ![s] = to]
             /\ Apply(s, st, commitIndex[s] + 1, to)
       /\ Reply(m, AppendReply(m, r, m.LeaderTerm))
       /\ UNCHANGED <<snapshot, pending, elections, beats, dump, restarts, history>>

\* doAppendEntriesRPC after the call: the follower has a higher term.  The own
\* term is not compared with it.
HigherTermReply(s) == \E m \in Returned(s, "AppendEntriesReply") :
    /\ ~m.Success
    /\ m.LeaderTerm < m.FollowerTerm
    /\ persist(s, FollowerState(rf[s], m.FollowerTerm))
    /\ becomeFollower(s)
    /\ calls' = calls \ {m}
    /\ Return(s, m.dst)
    /\ UNCHANGED <<snapshot, commitIndex, pending, heartBeatCh, elections, service,
                   restarts, history>>

\* The reply concerns the term the server is in now, or it is dropped.
IsCurrent(m) == rf[m.src].currentTerm = m.LeaderTerm

StaleReply(s) == \E m \in Returned(s, "AppendEntriesReply") :
    /\ m.Success \/ m.LeaderTerm >= m.FollowerTerm
    /\ ~IsCurrent(m)
    /\ calls' = calls \ {m}
    /\ Return(s, m.dst)
    /\ UNCHANGED <<persistent, role, leaderPtr, commitIndex, elector, service,
                   restarts, history>>

\* The indexes up to i, above commitIndex, that the commit loop accepts: it
\* walks down from i through entries of the current term, counting the peers
\* whose matchIndexs reach, besides the leader and the peer p that answered.
Committable(s, p, i) ==
    {k \in Max({commitIndex[s] + 1, rf[s].lastIncludedIndex})..i :
        /\ \A j \in k..i : EntryAt(rf[s], j).LogTerm = rf[s].currentTerm
        /\ 2 + Cardinality({q \in Server \ {s, p} :
                              leaderPtr[s].matchIndexs[q] >= k}) >= Majority}

\* Without success the loop stops at an entry of another term, at commitIndex, or
\* (a panic) below the first entry of logs.
StopsInLog(s, i) ==
    \/ i <= commitIndex[s]
    \/ commitIndex[s] + 1 >= rf[s].lastIncludedIndex
    \/ \E j \in rf[s].lastIncludedIndex..i :
          EntryAt(rf[s], j).LogTerm # rf[s].currentTerm

\* The leader's record of peer p: where to go on sending, and how far it matches.
SendFrom(l, p, next) ==
    [nextIndexs  |-> [l.nextIndexs EXCEPT ![p] = next],
     matchIndexs |-> l.matchIndexs]

Matched(l, p, index) ==
    [nextIndexs  |-> [l.nextIndexs EXCEPT ![p] = index + 1],
     matchIndexs |-> [l.matchIndexs EXCEPT ![p] = index]]

\* The follower has stored the entries up to lastEntry.
EntriesStored(s) == \E m \in Returned(s, "AppendEntriesReply") :
    LET c == Committable(s, m.dst, m.lastEntry)
    IN /\ m.Success /\ m.lastEntry > 0 /\ IsCurrent(m)
       /\ leaderPtr[s] # Nil
       /\ m.lastEntry > commitIndex[s] => Holds(rf[s], m.lastEntry)
       /\ leaderPtr' = [leaderPtr EXCEPT ![s] = Matched(@, m.dst, m.lastEntry)]
       /\ \/ /\ c = {}
             /\ StopsInLog(s, m.lastEntry)
             /\ UNCHANGED <<commitIndex, lastAppliedIndex, cfgLogs, acked>>
          \/ /\ c # {}
             /\ commitIndex[s] + 1 >= rf[s].lastIncludedIndex
             /\ commitIndex' = [commitIndex EXCEPT ![s] = Max(c)]
             /\ Apply(s, rf[s], commitIndex[s] + 1, Max(c))
             /\ acked' = Max({acked, Max(c)})
       /\ calls' = calls \ {m}
       /\ Return(s, m.dst)
       /\ UNCHANGED <<persistent, role, elector, dump, restarts, ballots>>

\* The follower has accepted a heartbeat: nothing to record.
HeartBeatReply(s) == \E m \in Returned(s, "AppendEntriesReply") :
    /\ m.Success /\ m.lastEntry = 0 /\ IsCurrent(m)
    /\ leaderPtr[s] # Nil
    /\ calls' = calls \ {m}
    /\ Return(s, m.dst)
    /\ UNCHANGED <<persistent, role, leaderPtr, commitIndex, elector, service,
                   restarts, history>>

\* Where the leader goes back to after a refusal: the last entry of the
\* conflicting term if it has one, the follower's first entry of that term if it
\* has not, the end of the follower's log if PrevLogIndex is missing there.
BackTo(st, next, m) ==
    LET low == {i \in st.lastIncludedIndex..getLastLog(st).LogIndex :
                  EntryAt(st, i).LogTerm <= m.Xterm}
    IN CASE m.Xterm = -1 -> m.Xlen + 1
         [] m.Xterm # -1 /\ low = {} -> next
         [] OTHER -> IF EntryAt(st, Max(low)).LogTerm = m.Xterm
                     THEN Max(low) + 1 ELSE m.Xindex

LogConflict(s) == \E m \in Returned(s, "AppendEntriesReply") :
    /\ ~m.Success /\ m.LeaderTerm >= m.FollowerTerm /\ IsCurrent(m)
    /\ leaderPtr[s] # Nil
    /\ rf[s].logs # <<>>
    /\ leaderPtr' = [leaderPtr EXCEPT ![s] =
          SendFrom(@, m.dst, BackTo(rf[s], @.nextIndexs[m.dst], m))]
    /\ calls' = calls \ {m}
    /\ Return(s, m.dst)
    /\ UNCHANGED <<persistent, role, commitIndex, elector, service, restarts, history>>

-----------------------------------------------------------------------------
(* Snapshots.                                                              *)

\* doInstallSnapshotRPC up to the call.
doInstallSnapshotRPC(s, p) ==
    /\ beats[s][p].snap > 0
    /\ beats' = [beats EXCEPT ![s][p] = Moved(@, 0, 0, -1)]
    /\ Send([stage |-> "InstallSnapshot", src |-> s, dst |-> p, id |-> 0,
             waiting |-> TRUE, Term |-> rf[s].currentTerm,
             LastIncludedIndex |-> rf[s].lastIncludedIndex,
             LastIncludedTerm |-> rf[s].lastIncludedTerm,
             LastIncludedCmdIndex |-> rf[s].lastIncludedCmdIndex,
             Data |-> snapshot[s]])
    /\ UNCHANGED <<persistent, role, leaderPtr, commitIndex, elector, service,
                   restarts, history>>

\* An entry that stands for a snapshot from here on, as TakeSnapshot and as
\* InstallSnapshot leave it.
Emptied(e)  == [e EXCEPT !.Command = Nil]
Internal(e) == [e EXCEPT !.Command = Nil, !.IsInternalLog = TRUE]

\* The log that InstallSnapshot keeps: what follows the snapshot if the entry at
\* its end agrees with it, else only the sentinel.
KeptLog(st, m) ==
    IF /\ m.LastIncludedIndex < getLastLog(st).LogIndex
       /\ EntryAt(st, m.LastIncludedIndex).LogTerm = m.LastIncludedTerm
    THEN [SubSeq(st.logs, logIndex2LogPos(st, m.LastIncludedIndex), Len(st.logs))
            EXCEPT ![1] = Internal(@)]
    ELSE <<Sentinel(m.LastIncludedIndex, m.LastIncludedTerm,
                    m.LastIncludedCmdIndex)>>

SnapshotReply(m) ==
    [stage |-> "InstallSnapshotReply", src |-> m.src, dst |-> m.dst, id |-> 0,
     waiting |-> TRUE, Term |-> m.Term,
     LastIncludedIndex |-> m.LastIncludedIndex,
     FollowerTerm |-> rf[m.dst].currentTerm]

\* InstallSnapshot refuses a smaller term.
RejectSnapshot(s) == \E m \in Arrived(s, "InstallSnapshot") :
    /\ m.Term < rf[s].currentTerm
    /\ Reply(m, SnapshotReply(m))
    /\ UNCHANGED <<persistent, role, leaderPtr, commitIndex, elector, beats,
                   service, restarts, history>>

\* InstallSnapshot: a follower from here on if the term is larger; a snapshot no
\* longer than the own one is ignored; any other replaces log, snapshot and
\* commitIndex and goes to the service.
InstallSnapshot(s) == \E m \in Arrived(s, "InstallSnapshot") :
    LET newer == m.Term > rf[s].currentTerm
        st    == IF newer THEN FollowerState(rf[s], m.Term) ELSE rf[s]
    IN /\ m.Term >= rf[s].currentTerm
       /\ \/ newer /\ becomeFollower(s)
          \/ ~newer /\ UNCHANGED <<role, leaderPtr, timers>>
       /\ \/ /\ m.LastIncludedIndex <= st.lastIncludedIndex
             /\ \/ newer /\ persist(s, st)
                \/ ~newer /\ UNCHANGED <<rf, disk>>
             /\ UNCHANGED <<snapshot, commitIndex, lastAppliedIndex>>
          \/ /\ m.LastIncludedIndex > st.lastIncludedIndex
             /\ st.logs # <<>>
             /\ persist(s, [st EXCEPT
                   !.logs = KeptLog(st, m),
                   !.lastIncludedIndex = m.LastIncludedIndex,
                   !.lastIncludedTerm = m.LastIncludedTerm,
                   !.lastIncludedCmdIndex = m.LastIncludedCmdIndex])
             /\ snapshot' = [snapshot EXCEPT ![s] = m.Data]
             /\ commitIndex' = [commitIndex EXCEPT ![s] = m.LastIncludedIndex]
             /\ lastAppliedIndex' = [lastAppliedIndex EXCEPT ![s] =
                   Max({@, m.LastIncludedIndex})]
       /\ Reply(m, SnapshotReply(m))
       /\ UNCHANGED <<pending, heartBeatCh, elections, beats, dump, cfgLogs,
                      restarts, history>>

\* doInstallSnapshotRPC after the call.
InstallSnapshotReply(s) == \E m \in Returned(s, "InstallSnapshotReply") :
    /\ \/ /\ rf[s].currentTerm # m.Term
          /\ UNCHANGED <<rf, disk, role, leaderPtr, timers>>
       \/ /\ rf[s].currentTerm = m.Term
          /\ m.FollowerTerm > m.Term
          /\ persist(s, FollowerState(rf[s], m.FollowerTerm))
          /\ becomeFollower(s)
       \/ /\ rf[s].currentTerm = m.Term
          /\ m.FollowerTerm <= m.Term
          /\ leaderPtr[s] # Nil
          /\ leaderPtr' = [leaderPtr EXCEPT
                ![s] = Matched(@, m.dst, m.LastIncludedIndex)]
          /\ UNCHANGED <<rf, disk, role, timers>>
    /\ calls' = calls \ {m}
    /\ Return(s, m.dst)
    /\ UNCHANGED <<snapshot, commitIndex, pending, heartBeatCh, elections,
                   service, restarts, history>>

\* snapshotLoop, under kv.mu: the service's state is encoded together with the
\* index it has applied.  The size test of ExceedLogSize may succeed any time.
\* TakeSnapshot would ignore an index that is already compacted.
DumpSnapshot(s) ==
    /\ s \in Compacting
    /\ dump[s] = 0
    /\ lastAppliedIndex[s] > rf[s].lastIncludedIndex
    /\ dump' = [dump EXCEPT ![s] = lastAppliedIndex[s]]
    /\ UNCHANGED <<persistent, role, leaderPtr, commitIndex, elector, beats, calls,
                   lastAppliedIndex, cfgLogs, restarts, history>>

\* The log from pos on, whose first entry now stands for the snapshot.
Compacted(logs, pos) ==
    [SubSeq(logs, pos, Len(logs)) EXCEPT ![1] = Emptied(@)]

\* snapshotLoop calls TakeSnapshot after kv.mu was released.
TakeSnapshot(s) ==
    LET index == dump[s]
    IN /\ index > 0
       /\ \/ /\ index <= rf[s].lastIncludedIndex
             /\ UNCHANGED persistent
          \/ /\ index > rf[s].lastIncludedIndex
             /\ Holds(rf[s], index)
             /\ persist(s, [rf[s] EXCEPT
                   !.logs = Compacted(@, logIndex2LogPos(rf[s], index)),
                   !.lastIncludedIndex = index,
                   !.lastIncludedTerm = EntryAt(rf[s], index).LogTerm,
                   !.lastIncludedCmdIndex = EntryAt(rf[s], index).CommandIndex])
             /\ snapshot' = [snapshot EXCEPT ![s] = index]
       /\ dump' = [dump EXCEPT ![s] = 0]
       /\ UNCHANGED <<role, leaderPtr, commitIndex, elector, beats, calls,
                      lastAppliedIndex, cfgLogs, restarts, history>>

-----------------------------------------------------------------------------
(* The service, the network and crashes.                                   *)

\* The log with the entry that Start appends for command.
Started(st, command) ==
    [st EXCEPT !.logs = Append(@,
        [LogTerm |-> st.currentTerm, LogIndex |-> getLastLog(st).LogIndex + 1,
         Command |-> command, CommandIndex |-> getLastLog(st).CommandIndex + 1,
         IsInternalLog |-> FALSE])]

\* Mutant: the new entry is not saved.
StartUnsaved(s, command) ==
    /\ s \in Serving
    /\ role[s] = LEADER
    /\ rf[s].logs # <<>>
    /\ getLastLog(rf[s]).LogIndex < MaxIndex
    /\ rf' = [rf EXCEPT ![s] = Started(rf[s], command)]
    /\ UNCHANGED <<disk, snapshot, role, leaderPtr, commitIndex, elector, beats,
                   calls, service, restarts, history>>

\* Start on a leader.  Elsewhere it changes nothing.
Start(s, command) ==
    /\ s \in Serving
    /\ role[s] = LEADER
    /\ rf[s].logs # <<>>
    /\ getLastLog(rf[s]).LogIndex < MaxIndex
    /\ persist(s, Started(rf[s], command))
    /\ UNCHANGED <<snapshot, role, leaderPtr, commitIndex, elector, beats, calls,
                   service, restarts, history>>

\* The caller's 50 ms run out: it ignores the call, which goes on.
CallTimeOut(s) == \E m \in {c \in calls : c.src = s} :
    /\ m.waiting
    /\ m.stage \in {"RequestVote", "voting", "AppendEntries", "InstallSnapshot"}
    /\ calls' = (calls \ {m}) \cup {Orphan(m)}
    /\ Resume(m)
    /\ UNCHANGED <<persistent, role, leaderPtr, commitIndex, elector, service,
                   restarts, history>>

\* The network drops a request or a reply, or the reply comes too late.
Lose(s) == \E m \in {c \in calls : c.src = s} :
    /\ m.stage # "voting"
    /\ calls' = calls \ {m}
    /\ Resume(m)
    /\ UNCHANGED <<persistent, role, leaderPtr, commitIndex, elector, service,
                   restarts, history>>

Idle == [p \in Server |-> [top |-> 0, append |-> 0, snap |-> 0]]

Replies == {"RequestVoteReply", "AppendEntriesReply", "InstallSnapshotReply"}

\* Mutant: Make starts no timer.
MakeIdle(s) ==
    /\ s \in Faulty /\ restarts < MaxRestarts
    /\ restarts' = restarts + 1
    /\ rf' = [rf EXCEPT ![s] = Restored(disk[s])]
    /\ role' = [role EXCEPT ![s] = FOLLOWER]
    /\ leaderPtr' = [leaderPtr EXCEPT ![s] = Nil]
    /\ commitIndex' = [commitIndex EXCEPT ![s] = disk[s].lastIncludedIndex]
    /\ lastAppliedIndex' = [lastAppliedIndex EXCEPT ![s] =
                              disk[s].lastIncludedIndex]
    /\ dump' = [dump EXCEPT ![s] = 0]
    /\ timers' = [timers EXCEPT ![s] = 0]
    /\ linger' = [linger EXCEPT ![s] = 0]
    /\ starting' = [starting EXCEPT ![s] = 0]
    /\ heartBeatCh' = [heartBeatCh EXCEPT ![s] = 0]
    /\ elections' = {e \in elections : e.cand # s}
    /\ requests' = {q \in requests : q.cand # s}
    /\ beats' = [beats EXCEPT ![s] = Idle]
    /\ calls' = {IF m.src = s THEN Orphan(m) ELSE m : m \in
                   {c \in calls : /\ ~(c.src = s /\ c.stage \in Replies)
                                  /\ ~(c.dst = s /\ c.stage = "voting")}}
    /\ UNCHANGED <<disk, snapshot, cfgLogs, history>>

\* A crash and the following Make: the saved fields come back, everything else
\* starts anew, the goroutines of the old instance are cut off.
Make(s) ==
    /\ s \in Faulty /\ restarts < MaxRestarts
    /\ restarts' = restarts + 1
    /\ rf' = [rf EXCEPT ![s] = Restored(disk[s])]
    /\ role' = [role EXCEPT ![s] = FOLLOWER]
    /\ leaderPtr' = [leaderPtr EXCEPT ![s] = Nil]
    /\ commitIndex' = [commitIndex EXCEPT ![s] = disk[s].lastIncludedIndex]
    /\ lastAppliedIndex' = [lastAppliedIndex EXCEPT ![s] =
                              disk[s].lastIncludedIndex]
    /\ dump' = [dump EXCEPT ![s] = 0]
    /\ timers' = [timers EXCEPT ![s] = 1]
    /\ linger' = [linger EXCEPT ![s] = 0]
    /\ starting' = [starting EXCEPT ![s] = 0]
    /\ heartBeatCh' = [heartBeatCh EXCEPT ![s] = 0]
    /\ elections' = {e \in elections : e.cand # s}
    /\ requests' = {q \in requests : q.cand # s}
    /\ beats' = [beats EXCEPT ![s] = Idle]
    /\ calls' = {IF m.src = s THEN Orphan(m) ELSE m : m \in
                   {c \in calls : /\ ~(c.src = s /\ c.stage \in Replies)
                                  /\ ~(c.dst = s /\ c.stage = "voting")}}
    /\ UNCHANGED <<disk, snapshot, cfgLogs, history>>

-----------------------------------------------------------------------------

Init ==
    /\ rf = [s \in Server |-> Restored(NoState)]
    /\ disk = [s \in Server |-> NoState]
    /\ snapshot = [s \in Server |-> 0]
    /\ role = [s \in Server |-> FOLLOWER]
    /\ leaderPtr = [s \in Server |-> Nil]
    /\ commitIndex = [s \in Server |-> 0]
    /\ timers = [s \in Server |-> 1]
    /\ linger = [s \in Server |-> 0]
    /\ starting = [s \in Server |-> 0]
    /\ heartBeatCh = [s \in Server |-> 0]
    /\ elections = {}
    /\ requests = {}
    /\ beats = [s \in Server |-> Idle]
    /\ calls = {}
    /\ lastAppliedIndex = [s \in Server |-> 0]
    /\ dump = [s \in Server |-> 0]
    /\ cfgLogs = [s \in Server |-> {}]
    /\ restarts = 0
    /\ ballots = {}
    /\ acked = 0

Next ==
    \E s \in Server :
        \/ TimeOutToElection(s) \/ QuitElection(s) \/ StartElection(s)
        \/ TimerHeartBeat(s) \/ ElectionTicker(s) \/ ElectionHeartBeat(s)
        \/ \E p \in Server : sendRequestVote(s, p)
        \/ \E p \in Server : resendRequestVote(s, p)
        \/ RequestVote(s) \/ RequestVoteGrant(s)
        \/ CountVote(s) \/ WinElection(s) \/ VoteRefused(s) \/ LoseElection(s)
        \/ \E p \in Server : HeartBeatToServer(s, p)
        \/ \E p \in Server : doAppendEntriesRPC(s, p)
        \/ RejectEntries(s) \/ AppendEntries(s)
        \/ HigherTermReply(s) \/ StaleReply(s) \/ EntriesStored(s)
        \/ HeartBeatReply(s) \/ LogConflict(s)
        \/ \E p \in Server : doInstallSnapshotRPC(s, p)
        \/ RejectSnapshot(s) \/ InstallSnapshot(s) \/ InstallSnapshotReply(s)
        \/ DumpSnapshot(s) \/ TakeSnapshot(s)
        \/ \E command \in Command : Start(s, command)
        \/ CallTimeOut(s) \/ Lose(s) \/ Make(s)

Spec == Init /\ [][Next]_vars

-----------------------------------------------------------------------------
(* Types.                                                                  *)

Election == [cand: Server, id: Nat, term: Nat, LastLogIndex: Nat,
             LastLogTerm: Nat, answered: SUBSET Server, granted: SUBSET Server,
             higher: Nat]

Request == [cand: Server, term: Nat, LastLogIndex: Nat, LastLogTerm: Nat,
            answered: SUBSET Server]

RequestVoteCall ==
    [stage: {"RequestVote"}, src: Server, dst: Server, id: Nat,
     waiting: BOOLEAN, CandicateTerm: Nat, LastLogIndex: Nat, LastLogTerm: Nat]
VotingCall ==
    [stage: {"voting"}, src: Server, dst: Server, id: Nat, waiting: BOOLEAN,
     CandicateTerm: Nat, FollowerTerm: Nat]
RequestVoteReplyCall ==
    [stage: {"RequestVoteReply"}, src: Server, dst: Server, id: Nat,
     waiting: BOOLEAN, CandicateTerm: Nat, VoteGranted: BOOLEAN,
     FollowerTerm: Nat]
AppendEntriesCall ==
    [stage: {"AppendEntries"}, src: Server, dst: Server, id: Nat,
     waiting: BOOLEAN, LeaderTerm: Nat, PrevLogIndex: Int, PrevLogTerm: Int,
     Entries: Seq(LogEntry), LeaderCommit: Nat]
AppendEntriesReplyCall ==
    [stage: {"AppendEntriesReply"}, src: Server, dst: Server, id: Nat,
     waiting: BOOLEAN, LeaderTerm: Nat, lastEntry: Nat, Success: BOOLEAN,
     FollowerTerm: Nat, Xterm: Int, Xindex: Nat, Xlen: Nat]
InstallSnapshotCall ==
    [stage: {"InstallSnapshot"}, src: Server, dst: Server, id: Nat,
     waiting: BOOLEAN, Term: Nat, LastIncludedIndex: Nat,
     LastIncludedTerm: Nat, LastIncludedCmdIndex: Nat, Data: Nat]
InstallSnapshotReplyCall ==
    [stage: {"InstallSnapshotReply"}, src: Server, dst: Server, id: Nat,
     waiting: BOOLEAN, Term: Nat, LastIncludedIndex: Nat, FollowerTerm: Nat]

Call ==
    RequestVoteCall \cup VotingCall \cup RequestVoteReplyCall
    \cup AppendEntriesCall \cup AppendEntriesReplyCall
    \cup InstallSnapshotCall \cup InstallSnapshotReplyCall

\* Type invariant of the Raft peers and of the calls between them.
TypeOK ==
    /\ rf \in [Server -> RaftState]
    /\ disk \in [Server -> RaftState]
    /\ snapshot \in [Server -> Nat]
    /\ role \in [Server -> {FOLLOWER, CANDICATE, LEADER}]
    /\ leaderPtr \in [Server -> Leader \cup {Nil}]
    /\ commitIndex \in [Server -> Nat]
    /\ timers \in [Server -> Nat]
    /\ linger \in [Server -> Nat]
    /\ starting \in [Server -> Nat]
    /\ heartBeatCh \in [Server -> 0..ChanCap]
    /\ elections \in SUBSET Election
    /\ requests \in SUBSET Request
    /\ beats \in [Server -> [Server -> [top: Nat, append: Nat, snap: Nat]]]
    /\ calls \in SUBSET Call
    /\ lastAppliedIndex \in [Server -> Nat]
    /\ dump \in [Server -> Nat]
    /\ cfgLogs \in [Server -> SUBSET (Nat \X (Command \cup {Nil}))]
    /\ restarts \in Nat
    /\ ballots \in SUBSET (Server \X Server \X Nat)
    /\ acked \in Nat

-----------------------------------------------------------------------------
(* Properties.                                                             *)

\* Whenever rf.mu is free, a crash loses nothing the peer has acted upon: Make
\* would read back the term, the vote, the log and the snapshot index that are
\* in memory, and the stored snapshot is the one the log starts after.
DurableState ==
    \A s \in Server : /\ Restored(disk[s]) = Restored(rf[s])
                      /\ snapshot[s] = disk[s].lastIncludedIndex

\* LogIndex counts on from first without a gap.
CountsFrom(logs, first) ==
    \A i \in DOMAIN logs : logs[i].LogIndex = first + i - 1

\* The index arithmetic of logIndex2LogPos is right everywhere: position i of a
\* log holds LogIndex lastIncludedIndex + i after every cut, append, snapshot
\* and restart, and the entries of an AppendEntries in flight follow its
\* PrevLogIndex.
LogContiguous ==
    /\ \A s \in Server : CountsFrom(rf[s].logs, rf[s].lastIncludedIndex)
    /\ \A m \in calls : m.stage = "AppendEntries" /\ m.Entries # <<>> =>
         CountsFrom(m.Entries, m.PrevLogIndex + 1)

\* A follower always has somebody who will make it stand for election, however
\* elections, heartbeats and terms interleave: a TimeOutToElection goroutine, or a
\* StartElection goroutine that stopped the last one (raft.go:586) and waits for
\* rf.mu to make it a candidate (591).  That lock may never come free (Stuck in
\* ServerLocks); nothing else leaves a follower without an election.
FollowerHasTimer ==
    \A s \in Server : role[s] = FOLLOWER => timers[s] + starting[s] > 0

\* A leader has a leaderPtr and, for every other peer, a HeartBeatToServer
\* goroutine that is in its loop or waiting for a call; nobody else has a
\* leaderPtr.  Replication to a peer never stops for good.
LeaderReplicates ==
    \A s \in Server :
        /\ (role[s] = LEADER) <=> (leaderPtr[s] # Nil)
        /\ role[s] = LEADER => \A p \in Server \ {s} :
             \/ beats[s][p].top + beats[s][p].append + beats[s][p].snap > 0
             \/ \E m \in calls : /\ m.src = s /\ m.dst = p /\ m.waiting
                                 /\ m.stage \notin VoteStages

\* The peers that granted s their vote for term t.
Voters(s, t) == {s} \cup {v \in Server : <<v, s, t>> \in ballots}

\* A peer becomes leader only after more than half of the peers granted it their
\* vote for one and the same term, itself included, although requests are
\* repeated, replies come late and rounds overlap.  (For four or more peers, if
\* their number is even, the count in StartElection is too small.)
WinnerHasVotes ==
    [][\A s \in Server : role[s] # LEADER /\ role'[s] = LEADER =>
         \E t \in {b[3] : b \in ballots} :
            2 * Cardinality(Voters(s, t)) > Cardinality(Server)]_vars

\* No peer believes an index committed, applies it, compacts it or tells others
\* about it before some leader has counted a majority for that index or for a
\* higher one.
CommitHasOrigin ==
    /\ \A s \in Server :
         /\ commitIndex[s] <= acked /\ lastAppliedIndex[s] <= acked
         /\ dump[s] <= acked /\ rf[s].lastIncludedIndex <= acked
    /\ \A m \in calls :
         /\ m.stage = "AppendEntries" => m.LeaderCommit <= acked
         /\ m.stage = "InstallSnapshot" => m.LastIncludedIndex <= acked

-----------------------------------------------------------------------------
(* What a test of the repository says of the peers, and the code does not   *)
(* keep.                                                                   *)

\* raft/config.go, start1: no two peers deliver different commands with the same
\* CommandIndex ("some server has already committed a different value for this
\* entry!", config.go:180).
AppliedAgree ==
    \A s, t \in Server : \A a \in cfgLogs[s], b \in cfgLogs[t] :
        a[1] = b[1] => a[2] = b[2]
=============================================================================
