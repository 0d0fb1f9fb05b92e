--------------------------- MODULE RaftStepProofs ---------------------------
(***************************************************************************)
(* Elections, snapshots, the service's calls and restarts preserve the     *)
(* inductive invariant.                                                    *)
(***************************************************************************)
EXTENDS RaftReplicationProofs

-----------------------------------------------------------------------------
(* Elections.                                                              *)

\* A peer that has rf.mu becomes a candidate of the next term and saves it.
LEMMA StartElectionInv ==
    ASSUME IInv, NEW s \in Server, StartElection(s)
    PROVE  IInv'
<1>1. Min(FreeIds(s)) \in Nat
  <2>1. FreeIds(s) \in SUBSET Nat /\ FreeIds(s) # {}
    BY ConstantsAssumption DEF StartElection, FreeIds
  <2> QED
    BY <2>1, MinOfNats
<1>2. /\ StateInv'
      /\ role' \in [Server -> {FOLLOWER, CANDICATE, LEADER}]
      /\ elections' \in SUBSET Election
  BY <1>1, RoundInv DEF StartElection
<1>3. CallInv'
  BY DEF IInv, CallInv, StartElection
<1>4. starting' \in [Server -> Nat]
  <2>1. starting \in [Server -> Nat] /\ starting[s] > 0
        /\ starting' = [starting EXCEPT ![s] = @ - 1]
    BY DEF IInv, RestInv, StartElection
  <2>2. starting[s] - 1 \in Nat
    BY <2>1
  <2> QED
    BY <2>1, <2>2
<1>5. RestInv'
  BY <1>2, <1>4 DEF IInv, RestInv, StartElection, service, history
<1> QED
  BY <1>2, <1>3, <1>5 DEF IInv

\* TimeOutToElection, QuitElection and TimerHeartBeat.
LEMMA TimerInv ==
    ASSUME IInv, NEW s \in Server,
           TimeOutToElection(s) \/ QuitElection(s) \/ TimerHeartBeat(s)
    PROVE  IInv'
<1>1. CASE TimeOutToElection(s)
  BY <1>1, KeepState DEF TimeOutToElection, IInv, CallInv, RestInv, service, history
<1>2. CASE QuitElection(s)
  <2>1. /\ linger' = [linger EXCEPT ![s] = @ - 1] /\ linger[s] > 0
        /\ timers' = [timers EXCEPT ![s] = @ - 1] /\ timers[s] > 0
        /\ starting' = [starting EXCEPT ![s] = @ + 1]
    BY <1>2 DEF QuitElection
  <2>2. /\ linger' \in [Server -> Nat] /\ timers' \in [Server -> Nat]
        /\ starting' \in [Server -> Nat]
    BY <2>1 DEF IInv, RestInv
  <2> QED
    BY <1>2, <2>2, KeepState DEF QuitElection, IInv, CallInv, RestInv, service, history
<1>3. CASE TimerHeartBeat(s)
  BY <1>3, KeepState, ConstantsAssumption
     DEF TimerHeartBeat, IInv, CallInv, RestInv, service, history, pending
<1> QED
  BY <1>1, <1>2, <1>3

\* A round that is left goes to those whose requests go on.
LEMMA LeaveType ==
    ASSUME RestInv, NEW e \in elections, Leave(e)
    PROVE  requests' \in SUBSET Request
<1>1. e \in Election /\ requests \in SUBSET Request
  BY DEF RestInv
<1>2. [cand |-> e.cand, term |-> e.term, LastLogIndex |-> e.LastLogIndex,
       LastLogTerm |-> e.LastLogTerm, answered |-> e.answered] \in Request
  BY <1>1 DEF Election, Request
<1> QED
  BY <1>1, <1>2, Zenon DEF Leave

\* The ticker of an election fires: the next round.
LEMMA ElectionTickerInv ==
    ASSUME IInv, NEW s \in Server, ElectionTicker(s)
    PROVE  IInv'
<1>1. PICK e \in Loops(s) :
        /\ Round(s, e.id)
        /\ Abandon(s, e.id)
        /\ Leave(e)
        /\ UNCHANGED <<snapshot, leaderPtr, commitIndex, timers, linger, starting,
                       heartBeatCh, beats, service, restarts, history>>
  BY DEF ElectionTicker
<1>2. e.id \in Nat
  BY DEF IInv, RestInv, Loops, Election
<1>3. /\ StateInv'
      /\ role' \in [Server -> {FOLLOWER, CANDICATE, LEADER}]
      /\ elections' \in SUBSET Election
  BY <1>1, <1>2, RoundInv
<1>4. CallInv'
  BY <1>1, AbandonCalls DEF IInv
<1>5. requests' \in SUBSET Request
  BY <1>1, LeaveType, Zenon DEF IInv, Loops
<1>6. RestInv'
  BY <1>1, <1>3, <1>5 DEF IInv, RestInv, service, history
<1> QED
  BY <1>3, <1>4, <1>6 DEF IInv

\* StartElection receives a heartbeat and gives up.
LEMMA ElectionHeartBeatInv ==
    ASSUME IInv, NEW s \in Server, ElectionHeartBeat(s)
    PROVE  IInv'
<1>1. PICK e \in Loops(s) :
        /\ heartBeatCh[s] > 0
        /\ heartBeatCh' = [heartBeatCh EXCEPT ![s] = @ - 1]
        /\ elections' = elections \ {e}
        /\ Abandon(s, e.id)
        /\ Leave(e)
        /\ UNCHANGED <<persistent, role, leaderPtr, commitIndex, timers, linger,
                       starting, beats, service, restarts, history>>
  BY DEF ElectionHeartBeat
<1>2. StateInv'
  BY <1>1, KeepState DEF IInv
<1>3. CallInv'
  BY <1>1, AbandonCalls DEF IInv
<1>4. requests' \in SUBSET Request
  BY <1>1, LeaveType, Zenon DEF IInv, Loops
<1>5. RestInv'
  BY <1>1, <1>4, ConstantsAssumption DEF IInv, RestInv, service, history
<1> QED
  BY <1>2, <1>3, <1>5 DEF IInv

\* A candidate asks for a vote.
LEMMA sendRequestVoteInv ==
    ASSUME IInv, NEW s \in Server, NEW p \in Server, sendRequestVote(s, p)
    PROVE  IInv'
<1>1. PICK e \in Loops(s) :
        /\ Send([stage |-> "RequestVote", src |-> s, dst |-> p, id |-> e.id,
                 waiting |-> TRUE, CandicateTerm |-> e.term,
                 LastLogIndex |-> e.LastLogIndex, LastLogTerm |-> e.LastLogTerm])
        /\ UNCHANGED <<persistent, role, leaderPtr, commitIndex, elector, beats,
                       service, restarts, history>>
  BY Zenon DEF sendRequestVote
<1> DEFINE m == [stage |-> "RequestVote", src |-> s, dst |-> p, id |-> e.id,
                 waiting |-> TRUE, CandicateTerm |-> e.term,
                 LastLogIndex |-> e.LastLogIndex, LastLogTerm |-> e.LastLogTerm]
<1>2. m \in RequestVoteCall /\ m.stage = "RequestVote"
  BY DEF IInv, RestInv, Loops, Election, RequestVoteCall
<1>3. Send(m)
  BY <1>1
<1> HIDE DEF m
<1>4. CallInv'
  BY <1>2, <1>3, SendCalls DEF GoodCall, Call, IInv
<1>5. StateInv' /\ RestInv'
  BY <1>1, KeepState DEF IInv, RestInv, elector, pending, service, history
<1> QED
  BY <1>4, <1>5 DEF IInv

\* A request that nobody waits for is sent again.
LEMMA resendRequestVoteInv ==
    ASSUME IInv, NEW s \in Server, NEW p \in Server, resendRequestVote(s, p)
    PROVE  IInv'
<1>1. PICK q \in requests :
        /\ Send([stage |-> "RequestVote", src |-> s, dst |-> p, id |-> 0,
                 waiting |-> FALSE, CandicateTerm |-> q.term,
                 LastLogIndex |-> q.LastLogIndex, LastLogTerm |-> q.LastLogTerm])
        /\ UNCHANGED <<persistent, role, leaderPtr, commitIndex, elector, beats,
                       service, restarts, history>>
  BY Zenon DEF resendRequestVote
<1> DEFINE m == [stage |-> "RequestVote", src |-> s, dst |-> p, id |-> 0,
                 waiting |-> FALSE, CandicateTerm |-> q.term,
                 LastLogIndex |-> q.LastLogIndex, LastLogTerm |-> q.LastLogTerm]
<1>2. m \in RequestVoteCall /\ m.stage = "RequestVote"
  BY DEF IInv, RestInv, Request, RequestVoteCall
<1>3. Send(m)
  BY <1>1
<1> HIDE DEF m
<1>4. CallInv'
  BY <1>2, <1>3, SendCalls DEF GoodCall, Call, IInv
<1>5. StateInv' /\ RestInv'
  BY <1>1, KeepState DEF IInv, RestInv, elector, pending, service, history
<1> QED
  BY <1>4, <1>5 DEF IInv

\* RequestVote up to the checks, made on what its first critical section read.
LEMMA RequestVoteInv ==
    ASSUME IInv, NEW s \in Server, RequestVote(s)
    PROVE  IInv'
<1>1. PICK m \in Arrived(s, "RequestVote") : RequestVote(s)!(m)
  BY Zenon DEF RequestVote
<1> DEFINE newer   == m.CandicateTerm > rf[s].currentTerm
           st      == IF newer THEN FollowerState(rf[s], m.CandicateTerm) ELSE rf[s]
           voting  == [stage |-> "voting", src |-> m.src, dst |-> s, id |-> m.id,
                       waiting |-> m.waiting, CandicateTerm |-> m.CandicateTerm,
                       FollowerTerm |-> st.currentTerm]
<1>2. /\ \/ newer /\ persist(s, st) /\ becomeFollower(s)
         \/ ~newer /\ UNCHANGED <<rf, disk, role, leaderPtr, timers>>
      /\ \/ Reply(m, VoteReply(m, FALSE, st.currentTerm))
         \/ calls' = (calls \ {m}) \cup {voting}
      /\ UNCHANGED <<snapshot, commitIndex, pending, heartBeatCh, elections, beats,
                     service, restarts, history>>
  BY <1>1, Zenon
<1>3. m \in calls /\ m \in RequestVoteCall
  BY CallAtStage DEF Arrived, IInv, CallInv, GoodCall
<1>4. Contiguous(rf[s]) /\ rf[s] \in RaftState
  BY StateContiguous DEF IInv
<1>5. /\ Contiguous(st) /\ st.lastIncludedIndex = rf[s].lastIncludedIndex
      /\ st.currentTerm \in Nat
  BY <1>3, <1>4, FollowerContiguous, Zenon DEF RequestVoteCall, RaftState
<1>6. GoodCall(VoteReply(m, FALSE, st.currentTerm))
  BY <1>3, <1>5, VoteReplyGood, Zenon DEF RequestVoteCall
<1>7. GoodCall(voting)
  <2>1. voting \in VotingCall /\ voting.stage = "voting"
    BY <1>3, <1>5, Zenon DEF RequestVoteCall, VotingCall
  <2> HIDE DEF voting
  <2> QED
    BY <2>1 DEF GoodCall, Call
<1>8. \/ persist(s, st) /\ becomeFollower(s)
      \/ UNCHANGED <<rf, disk, role, leaderPtr, timers>>
  BY <1>2
<1> HIDE DEF newer, st, voting
<1>9. StateInv'
  BY <1>2, <1>5, <1>8, PersistState, KeepState, Zenon DEF IInv, persistent
<1>10. CallInv'
  <2>1. CASE Reply(m, VoteReply(m, FALSE, st.currentTerm))
    BY <1>6, <2>1, ReplyCalls, Zenon DEF IInv
  <2>2. CASE calls' = (calls \ {m}) \cup {voting}
    BY <1>7, <2>2 DEF IInv, CallInv
  <2> QED
    BY <1>2, <2>1, <2>2, Zenon
<1>11. RestInv'
  BY <1>2, <1>8, FollowerTypes, Zenon DEF IInv, RestInv, pending, service, history
<1> QED
  BY <1>9, <1>10, <1>11 DEF IInv

\* RequestVote gives or refuses its vote, in its second critical section.
LEMMA RequestVoteGrantInv ==
    ASSUME IInv, NEW s \in Server, RequestVoteGrant(s)
    PROVE  IInv'
<1>1. PICK m \in Arrived(s, "voting") :
        /\ \/ /\ Signal(s)
              /\ persist(s, Granted(rf[s], m))
              /\ ballots' = ballots \cup {<<s, m.src, m.CandicateTerm>>}
              /\ Reply(m, VoteReply(m, TRUE, m.FollowerTerm))
           \/ /\ Reply(m, VoteReply(m, FALSE, m.FollowerTerm))
              /\ UNCHANGED <<rf, disk, heartBeatCh, ballots>>
        /\ UNCHANGED <<snapshot, role, leaderPtr, commitIndex, timers, pending,
                       elections, beats, service, restarts, acked>>
  BY Zenon DEF RequestVoteGrant
<1>2. m \in calls /\ m \in VotingCall /\ m.dst = s
  BY CallAtStage, Zenon DEF Arrived, IInv, CallInv, GoodCall
<1>3. \A g \in BOOLEAN : GoodCall(VoteReply(m, g, m.FollowerTerm))
  BY <1>2, VoteReplyGood DEF VotingCall
<1>4. CallInv'
  BY <1>1, <1>3, ReplyCalls, Zenon DEF IInv
<1>5. StateInv'
  <2>1. CASE persist(s, Granted(rf[s], m))
    <3> DEFINE st == Granted(rf[s], m)
    <3>1. Contiguous(rf[s]) /\ rf[s] \in RaftState
      BY StateContiguous DEF IInv
    <3>2. Contiguous(st) /\ st.lastIncludedIndex = rf[s].lastIncludedIndex
      BY <1>2, <3>1, Zenon DEF Granted, Contiguous, RaftState, VotingCall
    <3>3. persist(s, st) /\ UNCHANGED snapshot
      BY <1>1, <2>1
    <3> HIDE DEF st
    <3> QED
      BY <3>2, <3>3, PersistState DEF IInv
  <2>2. CASE UNCHANGED <<rf, disk>>
    BY <1>1, <2>2, KeepState DEF IInv, persistent
  <2> QED
    BY <1>1, <2>1, <2>2, Zenon
<1>6. RestInv'
  <2>1. heartBeatCh' \in [Server -> 0..ChanCap]
    BY <1>1, SignalType, Zenon DEF IInv
  <2>2. ballots' \in SUBSET (Server \X Server \X Nat)
    <3>1. <<s, m.src, m.CandicateTerm>> \in Server \X Server \X Nat
      BY <1>2 DEF VotingCall
    <3>2. ballots \in SUBSET (Server \X Server \X Nat)
      BY Zenon DEF IInv, RestInv
    <3>3. \/ ballots' = ballots \cup {<<s, m.src, m.CandicateTerm>>}
          \/ ballots' = ballots
      BY <1>1, Zenon
    <3> QED
      BY <3>1, <3>2, <3>3
  <2> QED
    BY <1>1, <2>1, <2>2, Zenon DEF IInv, RestInv, pending, service
<1> QED
  BY <1>4, <1>5, <1>6 DEF IInv

\* CountVote and VoteRefused.
LEMMA VoteCountedInv ==
    ASSUME IInv, NEW s \in Server, CountVote(s) \/ VoteRefused(s)
    PROVE  IInv'
<1>1. PICK e \in Loops(s), m \in Returned(s, "RequestVoteReply"), new \in Election :
        /\ elections' = (elections \ {e}) \cup {new}
        /\ calls' = calls \ {m}
        /\ UNCHANGED <<persistent, role, leaderPtr, commitIndex, timers, pending,
                       heartBeatCh, beats, service, restarts, history>>
  <2>1. \A e \in Loops(s) : e \in Election
    BY Zenon DEF Loops, IInv, RestInv
  <2>2. \A m \in Returned(s, "RequestVoteReply") : m \in RequestVoteReplyCall
    BY CallAtStage, Zenon DEF Returned, IInv, CallInv, GoodCall
  <2>3. CASE CountVote(s)
    <3>1. PICK e \in Loops(s), m \in Returned(s, "RequestVoteReply") :
            CountVote(s)!(e, m)
      BY <2>3 DEF CountVote
    <3> DEFINE new == [e EXCEPT !.answered = @ \cup {m.dst},
                                !.granted = @ \cup {m.dst}]
    <3>2. new \in Election
      BY <2>1, <2>2, Zenon DEF Election, RequestVoteReplyCall
    <3>3. elections' = (elections \ {e}) \cup {new}
      BY <3>1
    <3> HIDE DEF new
    <3> QED
      BY <3>1, <3>2, <3>3
  <2>4. CASE VoteRefused(s)
    <3>1. PICK e \in Loops(s), m \in Returned(s, "RequestVoteReply") :
            VoteRefused(s)!(e, m)
      BY <2>4, Zenon DEF VoteRefused
    <3> DEFINE new == [e EXCEPT !.answered = @ \cup {m.dst},
                                !.higher = IF m.FollowerTerm > rf[s].currentTerm
                                           THEN m.FollowerTerm ELSE 0]
    <3>2. new \in Election
      BY <2>1, <2>2, Zenon DEF Election, RequestVoteReplyCall
    <3>3. elections' = (elections \ {e}) \cup {new}
      BY <3>1
    <3> HIDE DEF new
    <3> QED
      BY <3>1, <3>2, <3>3
  <2> QED
    BY <2>3, <2>4, Zenon
<1>2. CallInv'
  BY <1>1, DropCalls, Zenon DEF IInv
<1>3. StateInv' /\ RestInv'
  BY <1>1, KeepState, Zenon DEF IInv, RestInv, pending, service, history
<1> QED
  BY <1>2, <1>3 DEF IInv

\* What becomeLeader appends continues the log.
LEMMA LeaderContiguous ==
    ASSUME NEW st, Contiguous(st), st.logs # <<>>
    PROVE  /\ Contiguous(LeaderState(st))
           /\ LeaderState(st).lastIncludedIndex = st.lastIncludedIndex
<1> DEFINE e == [LogTerm |-> st.currentTerm,
                 LogIndex |-> getLastLog(st).LogIndex + 1,
                 Command |-> Nil, CommandIndex |-> getLastLog(st).CommandIndex,
                 IsInternalLog |-> TRUE]
<1>1. getLastLog(st) \in LogEntry /\ st \in RaftState
  BY LogPositions, Zenon DEF Contiguous
<1>2. e \in LogEntry /\ e.LogIndex = getLastLog(st).LogIndex + 1
  <2>1. /\ st.currentTerm \in Nat
        /\ getLastLog(st).LogIndex \in Nat /\ getLastLog(st).CommandIndex \in Nat
    BY <1>1, Zenon DEF LogEntry, RaftState
  <2>2. getLastLog(st).LogIndex + 1 \in Nat /\ getLastLog(st).CommandIndex + 1 \in Nat
    BY <2>1
  <2> QED
    BY <2>1, <2>2, Zenon DEF LogEntry
<1>3. LeaderState(st) = [st EXCEPT !.logs = Append(@, e)]
  BY DEF LeaderState
<1> HIDE DEF e
<1>4. LeaderState(st).lastIncludedIndex = st.lastIncludedIndex
  BY <1>1, <1>3 DEF RaftState
<1> QED
  BY <1>2, <1>3, <1>4, AppendContiguous

\* A candidate with a majority becomes leader and starts its goroutines.
LEMMA WinElectionInv ==
    ASSUME IInv, NEW s \in Server, WinElection(s)
    PROVE  IInv'
<1>1. PICK e \in Loops(s) :
        /\ rf[s].logs # <<>>
        /\ becomeLeader(s)
        /\ elections' = elections \ {e}
        /\ Abandon(s, e.id)
        /\ Leave(e)
        /\ UNCHANGED <<snapshot, commitIndex, timers, linger, starting, heartBeatCh,
                       service, restarts, history>>
  BY Zenon DEF WinElection
<1>2. Contiguous(rf[s]) /\ rf[s] \in RaftState
  BY StateContiguous DEF IInv
<1>3. StateInv'
  BY <1>1, <1>2, LeaderContiguous, PersistState, Zenon DEF IInv, becomeLeader
<1>4. CallInv'
  BY <1>1, AbandonCalls, Zenon DEF IInv
<1>5. leaderPtr' \in [Server -> Leader \cup {Nil}]
  <2>1. getLastLog(rf[s]).LogIndex + 1 \in Nat
    BY <1>1, <1>2, LogPositions DEF LogEntry
  <2> QED
    BY <1>1, <2>1, Zenon DEF IInv, RestInv, becomeLeader, Leader
<1>6. beats' \in [Server -> [Server -> [top: Nat, append: Nat, snap: Nat]]]
  <2>1. Spawned(s) \in [Server -> [top: Nat, append: Nat, snap: Nat]]
    <3>1. ASSUME NEW p \in Server
          PROVE  beats[s][p] \in [top: Nat, append: Nat, snap: Nat]
      BY DEF IInv, RestInv
    <3>2. ASSUME NEW p \in Server
          PROVE  [beats[s][p] EXCEPT !.top = @ + 1]
                   \in [top: Nat, append: Nat, snap: Nat]
      BY <3>1
    <3> QED
      BY <3>1, <3>2, Zenon DEF Spawned
  <2>2. beats' = [beats EXCEPT ![s] = Spawned(s)]
    BY <1>1, Zenon DEF becomeLeader
  <2> QED
    BY <2>1, <2>2, Zenon DEF IInv, RestInv
<1>7. requests' \in SUBSET Request
  BY <1>1, LeaveType, Zenon DEF IInv, Loops
<1>8. RestInv'
  BY <1>1, <1>5, <1>6, <1>7, Zenon DEF IInv, RestInv, becomeLeader, service, history
<1> QED
  BY <1>3, <1>4, <1>8 DEF IInv

\* A candidate acts upon a higher term that it has read.
LEMMA LoseElectionInv ==
    ASSUME IInv, NEW s \in Server, LoseElection(s)
    PROVE  IInv'
<1>1. PICK e \in Loops(s) :
        /\ persist(s, FollowerState(rf[s], e.higher))
        /\ becomeFollower(s)
        /\ elections' = elections \ {e}
        /\ Abandon(s, e.id)
        /\ Leave(e)
        /\ UNCHANGED <<snapshot, commitIndex, linger, starting, heartBeatCh, beats,
                       service, restarts, history>>
  BY Zenon DEF LoseElection
<1>2. e.higher \in Nat
  BY Zenon DEF IInv, RestInv, Loops, Election
<1>3. Contiguous(rf[s])
  BY StateContiguous DEF IInv
<1>4. StateInv'
  BY <1>1, <1>2, <1>3, FollowerContiguous, PersistState, Zenon DEF IInv
<1>5. CallInv'
  BY <1>1, AbandonCalls, Zenon DEF IInv
<1>6. requests' \in SUBSET Request
  BY <1>1, LeaveType, Zenon DEF IInv, Loops
<1>7. RestInv'
  BY <1>1, <1>6, FollowerTypes, Zenon DEF IInv, RestInv, service, history
<1> QED
  BY <1>4, <1>5, <1>7 DEF IInv

-----------------------------------------------------------------------------
(* Snapshots, commands, the network and restarts.                          *)

\* What Start appends continues the log.
LEMMA StartedContiguous ==
    ASSUME NEW st, Contiguous(st), st.logs # <<>>, NEW command \in Command
    PROVE  /\ Contiguous(Started(st, command))
           /\ Started(st, command).lastIncludedIndex = st.lastIncludedIndex
<1> DEFINE e == [LogTerm |-> st.currentTerm,
                 LogIndex |-> getLastLog(st).LogIndex + 1,
                 Command |-> command,
                 CommandIndex |-> getLastLog(st).CommandIndex + 1,
                 IsInternalLog |-> FALSE]
<1>1. getLastLog(st) \in LogEntry /\ st \in RaftState
  BY LogPositions DEF Contiguous
<1>2. e \in LogEntry /\ e.LogIndex = getLastLog(st).LogIndex + 1
  <2>1. /\ st.currentTerm \in Nat
        /\ getLastLog(st).LogIndex \in Nat /\ getLastLog(st).CommandIndex \in Nat
    BY <1>1, Zenon DEF LogEntry, RaftState
  <2>2. getLastLog(st).LogIndex + 1 \in Nat /\ getLastLog(st).CommandIndex + 1 \in Nat
    BY <2>1
  <2> QED
    BY <2>1, <2>2, Zenon DEF LogEntry
<1>3. Started(st, command) = [st EXCEPT !.logs = Append(@, e)]
  BY DEF Started
<1> HIDE DEF e
<1>4. Started(st, command).lastIncludedIndex = st.lastIncludedIndex
  BY <1>1, <1>3 DEF RaftState
<1> QED
  BY <1>2, <1>3, <1>4, AppendContiguous


\* A sequence with one entry replaced.
LEMMA ReplacedEntry ==
    ASSUME NEW S, NEW seq \in Seq(S), NEW i \in 1..Len(seq), NEW e \in S
    PROVE  /\ [seq EXCEPT ![i] = e] \in Seq(S)
           /\ Len([seq EXCEPT ![i] = e]) = Len(seq)
           /\ \A j \in 1..Len(seq) : [seq EXCEPT ![i] = e][j] = IF j = i THEN e ELSE seq[j]
  OBVIOUS

\* A suffix whose first entry is replaced by one with the same index.
LEMMA SuffixContiguous ==
    ASSUME NEW st, Contiguous(st), NEW pos \in 1..Len(st.logs),
           NEW e \in LogEntry, e.LogIndex = st.lastIncludedIndex + pos - 1
    PROVE  LET logs == [SubSeq(st.logs, pos, Len(st.logs)) EXCEPT ![1] = e]
           IN  logs \in Seq(LogEntry)
               /\ CountsFrom(logs, st.lastIncludedIndex + pos - 1)
<1> DEFINE suffix == SubSeq(st.logs, pos, Len(st.logs))
           logs   == [suffix EXCEPT ![1] = e]
           first  == st.lastIncludedIndex + pos - 1
<1>1. suffix \in Seq(LogEntry) /\ CountsFrom(suffix, first)
      /\ Len(suffix) = Len(st.logs) - pos + 1
  BY SuffixCounts
<1>2. first \in Int /\ 1 \in 1..Len(suffix)
  <2>1. st.lastIncludedIndex \in Nat /\ Len(st.logs) \in Nat
    BY DEF Contiguous, RaftState
  <2> HIDE DEF suffix
  <2> QED
    BY <1>1, <2>1
<1> HIDE DEF suffix, first
<1>3. /\ logs \in Seq(LogEntry)
      /\ DOMAIN logs = DOMAIN suffix /\ \A i \in DOMAIN logs : i \in Nat
      /\ \A i \in DOMAIN logs : logs[i] = IF i = 1 THEN e ELSE suffix[i]
  BY <1>1, <1>2, ReplacedEntry
<1>4. CountsFrom(logs, first)
  <2> HIDE DEF logs
  <2>1. ASSUME NEW i \in DOMAIN logs PROVE logs[i].LogIndex = first + i - 1
    <3>1. CASE i = 1
      BY <1>2, <1>3, <3>1 DEF first
    <3>2. CASE i # 1
      BY <1>1, <1>3, <3>2 DEF CountsFrom
    <3> QED
      BY <3>1, <3>2
  <2> QED
    BY <2>1 DEF CountsFrom
<1> QED
  BY <1>3, <1>4 DEF suffix, first

\* The entry of a log at an index it holds.
LEMMA EntryPosition ==
    ASSUME NEW st, Contiguous(st), NEW i \in Nat, i >= st.lastIncludedIndex,
           st.logs # <<>>, i <= getLastLog(st).LogIndex
    PROVE  LET pos == logIndex2LogPos(st, i)
           IN  /\ pos \in 1..Len(st.logs) /\ i = st.lastIncludedIndex + pos - 1
               /\ SubSeq(st.logs, pos, Len(st.logs))[1] = EntryAt(st, i)
               /\ EntryAt(st, i) \in LogEntry /\ EntryAt(st, i).LogIndex = i
<1> DEFINE pos == logIndex2LogPos(st, i)
<1>1. st.lastIncludedIndex \in Nat /\ Len(st.logs) \in Nat \ {0}
      /\ getLastLog(st).LogIndex = st.lastIncludedIndex + Len(st.logs) - 1
  BY LogPositions DEF Contiguous, RaftState
<1>2. pos \in 1..Len(st.logs) /\ i = st.lastIncludedIndex + pos - 1
  BY <1>1 DEF logIndex2LogPos
<1>3. SubSeq(st.logs, pos, Len(st.logs))[1] = st.logs[pos]
  <2> HIDE DEF pos
  <2>1. \A k \in 1..(Len(st.logs) - pos + 1) :
          SubSeq(st.logs, pos, Len(st.logs))[k] = st.logs[pos + k - 1]
    BY <1>2, SuffixCounts
  <2>2. 1 \in 1..(Len(st.logs) - pos + 1) /\ pos + 1 - 1 = pos
    BY <1>1, <1>2
  <2> QED
    BY <2>1, <2>2, Zenon
<1>4. EntryAt(st, i) \in LogEntry /\ EntryAt(st, i).LogIndex = i
  <2>1. Holds(st, i)
    BY LogPositions
  <2> QED
    BY <2>1, LogPositions
<1> QED
  BY <1>2, <1>3, <1>4 DEF EntryAt

\* An entry whose command is taken away keeps its place in the log.
LEMMA EmptiedEntry ==
    ASSUME NEW e \in LogEntry
    PROVE  /\ Emptied(e) \in LogEntry /\ Emptied(e).LogIndex = e.LogIndex
           /\ Internal(e) \in LogEntry /\ Internal(e).LogIndex = e.LogIndex
  BY Zenon DEF LogEntry, Emptied, Internal

\* The log and the snapshot are saved together.
LEMMA SnapshotState ==
    ASSUME StateInv, NEW s \in Server, NEW st, Contiguous(st), persist(s, st),
           snapshot' = [snapshot EXCEPT ![s] = st.lastIncludedIndex]
    PROVE  StateInv'
<1>1. /\ st \in RaftState /\ CountsFrom(st.logs, st.lastIncludedIndex)
      /\ st.lastIncludedIndex \in Nat
  BY DEF Contiguous, RaftState
<1>2. rf' = [rf EXCEPT ![s] = st] /\ disk' = [disk EXCEPT ![s] = st]
  BY DEF persist
<1>3. DurableState'
  BY <1>1, <1>2 DEF StateInv, DurableState
<1> QED
  BY <1>1, <1>2, <1>3 DEF StateInv

\* A saved state that starts after a snapshot at index.
After(st, logs, index, term, cmdIndex) ==
    [st EXCEPT !.logs = logs, !.lastIncludedIndex = index,
               !.lastIncludedTerm = term, !.lastIncludedCmdIndex = cmdIndex]

\* The state after a snapshot counts its entries from the snapshot's index.
LEMMA AfterContiguous ==
    ASSUME NEW st \in RaftState, NEW logs \in Seq(LogEntry), NEW index \in Nat,
           NEW term \in Nat, NEW cmdIndex \in Nat, CountsFrom(logs, index)
    PROVE  /\ Contiguous(After(st, logs, index, term, cmdIndex))
           /\ After(st, logs, index, term, cmdIndex).lastIncludedIndex = index
  BY Zenon DEF After, Contiguous, RaftState

\* The goroutine sends the snapshot instead of entries that are gone.
LEMMA doInstallSnapshotRPCInv ==
    ASSUME IInv, NEW s \in Server, NEW p \in Server, doInstallSnapshotRPC(s, p)
    PROVE  IInv'
<1> DEFINE m == [stage |-> "InstallSnapshot", src |-> s, dst |-> p, id |-> 0,
                 waiting |-> TRUE, Term |-> rf[s].currentTerm,
                 LastIncludedIndex |-> rf[s].lastIncludedIndex,
                 LastIncludedTerm |-> rf[s].lastIncludedTerm,
                 LastIncludedCmdIndex |-> rf[s].lastIncludedCmdIndex,
                 Data |-> snapshot[s]]
<1>1. Send(m)
  BY DEF doInstallSnapshotRPC
<1>2. rf[s] \in RaftState /\ snapshot[s] \in Nat
  BY DEF IInv, StateInv
<1>3. snapshot[s] = rf[s].lastIncludedIndex
  <2>1. disk[s].lastIncludedIndex = rf[s].lastIncludedIndex
    BY Zenon DEF IInv, StateInv, DurableState, Restored, RaftState
  <2> QED
    BY <2>1 DEF IInv, StateInv, DurableState
<1>4. m \in InstallSnapshotCall
  BY <1>2, Zenon DEF InstallSnapshotCall, RaftState
<1>5. m.stage = "InstallSnapshot" /\ m.Data = m.LastIncludedIndex
  BY <1>3
<1> HIDE DEF m
<1>6. GoodCall(m)
  BY <1>4, <1>5 DEF GoodCall, Call
<1>7. CallInv'
  BY <1>1, <1>6, SendCalls DEF IInv
<1>8. beats' \in [Server -> [Server -> Beat]]
  <2>1. beats[s][p] \in Beat /\ beats[s][p].snap > 0
    BY Zenon DEF IInv, RestInv, Beat, doInstallSnapshotRPC
  <2>2. Moved(beats[s][p], 0, 0, -1) \in Beat
    BY <2>1 DEF Beat, Moved
  <2> QED
    BY <2>2, BeatsType, Zenon DEF doInstallSnapshotRPC, IInv
<1>9. StateInv' /\ RestInv'
  BY <1>8, KeepState, Zenon
     DEF IInv, RestInv, Beat, doInstallSnapshotRPC, elector, pending, service, history
<1> QED
  BY <1>7, <1>9 DEF IInv

\* The reply to InstallSnapshot is a call as the invariant wants it.
LEMMA SnapshotReplyGood ==
    ASSUME IInv, NEW m \in InstallSnapshotCall
    PROVE  GoodCall(SnapshotReply(m))
<1> DEFINE a == SnapshotReply(m)
<1>1. rf[m.dst].currentTerm \in Nat
  BY DEF IInv, StateInv, RaftState, InstallSnapshotCall
<1>2. a \in InstallSnapshotReplyCall /\ a.stage = "InstallSnapshotReply"
  BY <1>1 DEF SnapshotReply, InstallSnapshotCall, InstallSnapshotReplyCall
<1> HIDE DEF a
<1> QED
  BY <1>2 DEF GoodCall, Call, a

\* InstallSnapshot refuses a smaller term.
LEMMA RejectSnapshotInv ==
    ASSUME IInv, NEW s \in Server, RejectSnapshot(s)
    PROVE  IInv'
<1>1. PICK m \in Arrived(s, "InstallSnapshot") : Reply(m, SnapshotReply(m))
  BY DEF RejectSnapshot
<1>2. m \in InstallSnapshotCall
  BY CallAtStage DEF Arrived, IInv, CallInv, GoodCall
<1>3. CallInv'
  BY <1>1, <1>2, SnapshotReplyGood, ReplyCalls DEF IInv
<1>4. StateInv' /\ RestInv'
  BY KeepState, Zenon DEF IInv, RestInv, RejectSnapshot, elector, pending, service, history
<1> QED
  BY <1>3, <1>4 DEF IInv

\* What InstallSnapshot keeps of the log counts on from the snapshot.
LEMMA KeptLogGood ==
    ASSUME NEW st, Contiguous(st), st.logs # <<>>,
           NEW m \in InstallSnapshotCall, m.LastIncludedIndex > st.lastIncludedIndex
    PROVE  /\ KeptLog(st, m) \in Seq(LogEntry)
           /\ CountsFrom(KeptLog(st, m), m.LastIncludedIndex)
<1> DEFINE i   == m.LastIncludedIndex
           pos == logIndex2LogPos(st, i)
<1>1. /\ i \in Nat /\ m.LastIncludedTerm \in Nat /\ m.LastIncludedCmdIndex \in Nat
      /\ st.lastIncludedIndex \in Nat /\ getLastLog(st).LogIndex \in Nat
  BY LogPositions, Zenon DEF InstallSnapshotCall, Contiguous, RaftState, LogEntry
<1>2. CASE i < getLastLog(st).LogIndex /\ EntryAt(st, i).LogTerm = m.LastIncludedTerm
  <2> DEFINE e == Internal(EntryAt(st, i))
  <2>1. /\ pos \in 1..Len(st.logs) /\ i = st.lastIncludedIndex + pos - 1
        /\ SubSeq(st.logs, pos, Len(st.logs))[1] = EntryAt(st, i)
        /\ EntryAt(st, i) \in LogEntry /\ EntryAt(st, i).LogIndex = i
    <3>1. i >= st.lastIncludedIndex /\ i <= getLastLog(st).LogIndex
      BY <1>1, <1>2
    <3> HIDE DEF i
    <3> QED
      BY <1>1, <3>1, EntryPosition, Zenon
  <2>2. KeptLog(st, m) = [SubSeq(st.logs, pos, Len(st.logs)) EXCEPT ![1] = e]
    BY <1>2, <2>1 DEF KeptLog
  <2>3. e \in LogEntry /\ e.LogIndex = i
    BY <2>1, EmptiedEntry
  <2> HIDE DEF e, pos, i
  <2> QED
    BY <2>1, <2>2, <2>3, SuffixContiguous DEF i
<1>3. CASE ~(i < getLastLog(st).LogIndex
             /\ EntryAt(st, i).LogTerm = m.LastIncludedTerm)
  <2> DEFINE e == Sentinel(i, m.LastIncludedTerm, m.LastIncludedCmdIndex)
  <2>1. KeptLog(st, m) = <<e>>
    BY <1>3 DEF KeptLog
  <2>2. e \in LogEntry /\ e.LogIndex = i
    BY <1>1 DEF Sentinel, LogEntry
  <2> HIDE DEF e, i
  <2> QED
    BY <1>1, <2>1, <2>2 DEF CountsFrom, i
<1> QED
  BY <1>2, <1>3, Zenon

\* A peer handles the snapshot of a leader.
LEMMA InstallSnapshotInv ==
    ASSUME IInv, NEW s \in Server, InstallSnapshot(s)
    PROVE  IInv'
<1>1. PICK m \in Arrived(s, "InstallSnapshot") : InstallSnapshot(s)!(m)
  BY Zenon DEF InstallSnapshot
<1> DEFINE newer == m.Term > rf[s].currentTerm
           st    == IF newer THEN FollowerState(rf[s], m.Term) ELSE rf[s]
           new   == After(st, KeptLog(st, m), m.LastIncludedIndex,
                          m.LastIncludedTerm, m.LastIncludedCmdIndex)
<1>2. /\ \/ becomeFollower(s)
         \/ UNCHANGED <<role, leaderPtr, timers>>
      /\ \/ /\ \/ persist(s, st)
               \/ UNCHANGED <<rf, disk>>
            /\ UNCHANGED <<snapshot, commitIndex, lastAppliedIndex>>
         \/ /\ m.LastIncludedIndex > st.lastIncludedIndex
            /\ st.logs # <<>>
            /\ persist(s, new)
            /\ snapshot' = [snapshot EXCEPT ![s] = m.Data]
            /\ commitIndex' = [commitIndex EXCEPT ![s] = m.LastIncludedIndex]
            /\ lastAppliedIndex' = [lastAppliedIndex EXCEPT ![s] =
                  Max({@, m.LastIncludedIndex})]
      /\ Reply(m, SnapshotReply(m))
      /\ UNCHANGED <<pending, heartBeatCh, elections, beats, dump, cfgLogs,
                     restarts, history>>
  BY <1>1, Zenon DEF After
<1>3. /\ m \in InstallSnapshotCall /\ m.Data = m.LastIncludedIndex
      /\ m.Term \in Nat /\ m.LastIncludedIndex \in Nat
      /\ m.LastIncludedTerm \in Nat /\ m.LastIncludedCmdIndex \in Nat
  BY CallAtStage DEF Arrived, IInv, CallInv, GoodCall, InstallSnapshotCall
<1>4. /\ Contiguous(st) /\ st.lastIncludedIndex = rf[s].lastIncludedIndex
      /\ st \in RaftState
  BY <1>3, StateContiguous, FollowerContiguous, Zenon DEF IInv
<1>5. CallInv'
  BY <1>2, <1>3, SnapshotReplyGood, ReplyCalls, Zenon DEF IInv
<1> HIDE DEF newer, st
<1>6. StateInv' /\ commitIndex' \in [Server -> Nat]
      /\ lastAppliedIndex' \in [Server -> Nat]
  <2>1. CASE /\ persist(s, st) \/ UNCHANGED <<rf, disk>>
             /\ UNCHANGED <<snapshot, commitIndex, lastAppliedIndex>>
    BY <1>4, <2>1, PersistState, KeepState, Zenon DEF IInv, RestInv, persistent
  <2>2. CASE /\ m.LastIncludedIndex > st.lastIncludedIndex
             /\ st.logs # <<>>
             /\ persist(s, new)
             /\ snapshot' = [snapshot EXCEPT ![s] = m.Data]
             /\ commitIndex' = [commitIndex EXCEPT ![s] = m.LastIncludedIndex]
             /\ lastAppliedIndex' = [lastAppliedIndex EXCEPT ![s] =
                   Max({@, m.LastIncludedIndex})]
    <3>1. Contiguous(new) /\ new.lastIncludedIndex = m.LastIncludedIndex
      <4>1. /\ KeptLog(st, m) \in Seq(LogEntry)
            /\ CountsFrom(KeptLog(st, m), m.LastIncludedIndex)
        BY <1>3, <1>4, <2>2, KeptLogGood, Zenon
      <4> QED
        BY <1>3, <1>4, <4>1, AfterContiguous, SMT
    <3> HIDE DEF new
    <3>2. StateInv'
      BY <1>3, <2>2, <3>1, SnapshotState, Zenon DEF IInv
    <3>3. Max({lastAppliedIndex[s], m.LastIncludedIndex}) \in Nat
      <4> DEFINE a == lastAppliedIndex[s]
                 b == m.LastIncludedIndex
      <4>1. a \in Nat /\ b \in Nat
        BY <1>3 DEF IInv, RestInv
      <4> HIDE DEF a, b
      <4>2. Max({a, b}) \in {a, b}
        BY <4>1, MaxOfTwo
      <4>3. Max({a, b}) \in Nat
        BY <4>1, <4>2
      <4> QED
        BY <4>3 DEF a, b
    <3> QED
      BY <1>3, <2>2, <3>2, <3>3, Zenon DEF IInv, RestInv
  <2> QED
    BY <1>2, <2>1, <2>2, Zenon
<1>7. RestInv'
  BY <1>2, <1>6, FollowerTypes, Zenon DEF IInv, RestInv, pending, history
<1> QED
  BY <1>5, <1>6, <1>7 DEF IInv

\* The leader learns that a peer stored its snapshot.
LEMMA InstallSnapshotReplyInv ==
    ASSUME IInv, NEW s \in Server, InstallSnapshotReply(s)
    PROVE  IInv'
<1>1. PICK m \in Returned(s, "InstallSnapshotReply") : InstallSnapshotReply(s)!(m)
  BY Zenon DEF InstallSnapshotReply
<1>2. m.dst \in Server /\ m.FollowerTerm \in Nat /\ m.LastIncludedIndex \in Nat
  BY CallAtStage DEF Returned, IInv, CallInv, GoodCall, InstallSnapshotReplyCall
<1>3. StateInv'
  BY <1>1, <1>2, StateContiguous, FollowerContiguous, PersistState, KeepState, Zenon
     DEF IInv, persistent
<1>4. CallInv'
  BY <1>1, DropCalls DEF IInv
<1>5. beats' \in [Server -> [Server -> Beat]]
  BY <1>1, <1>2, ReturnType DEF IInv
<1>6. /\ role' \in [Server -> {FOLLOWER, CANDICATE, LEADER}]
      /\ leaderPtr' \in [Server -> Leader \cup {Nil}]
      /\ timers' \in [Server -> Nat]
  <2>1. CASE UNCHANGED <<role, leaderPtr, timers>>
    BY <2>1 DEF IInv, RestInv
  <2>2. CASE becomeFollower(s)
    BY <2>2, FollowerTypes DEF IInv
  <2>3. CASE /\ leaderPtr[s] # Nil
             /\ leaderPtr' = [leaderPtr EXCEPT
                   ![s] = Matched(@, m.dst, m.LastIncludedIndex)]
             /\ UNCHANGED <<role, timers>>
    BY <1>2, <2>3, LeaderMoves, LeaderRecord, Zenon DEF IInv, RestInv
  <2> QED
    BY <1>1, <2>1, <2>2, <2>3, Zenon
<1>7. RestInv'
  BY <1>1, <1>5, <1>6, Zenon DEF IInv, RestInv, Beat, pending, service, history
<1> QED
  BY <1>3, <1>4, <1>7 DEF IInv

\* The service encodes its state.
LEMMA DumpSnapshotInv ==
    ASSUME IInv, NEW s \in Server, DumpSnapshot(s)
    PROVE  IInv'
  BY KeepState DEF IInv, CallInv, RestInv, DumpSnapshot, elector, pending, history

\* TakeSnapshot drops the entries that the service's snapshot covers.
LEMMA TakeSnapshotInv ==
    ASSUME IInv, NEW s \in Server, TakeSnapshot(s)
    PROVE  IInv'
<1> DEFINE i   == dump[s]
           st  == rf[s]
           pos == logIndex2LogPos(st, i)
           e   == EntryAt(st, i)
           logs == Compacted(st.logs, pos)
           new == After(st, logs, i, e.LogTerm, e.CommandIndex)
<1>1. Contiguous(st) /\ st \in RaftState /\ i \in Nat
  BY StateContiguous DEF IInv, RestInv
<1>2. StateInv'
  <2>1. CASE UNCHANGED persistent
    BY <2>1, KeepState DEF IInv
  <2>2. CASE ~UNCHANGED persistent
    <3>1. /\ i > st.lastIncludedIndex /\ Holds(st, i)
          /\ persist(s, new) /\ snapshot' = [snapshot EXCEPT ![s] = i]
      <4>1. /\ i > st.lastIncludedIndex /\ Holds(st, i)
            /\ persist(s, [st EXCEPT !.logs = Compacted(@, pos), !.lastIncludedIndex = i,
                                     !.lastIncludedTerm = e.LogTerm,
                                     !.lastIncludedCmdIndex = e.CommandIndex])
            /\ snapshot' = [snapshot EXCEPT ![s] = i]
        BY <2>2, Zenon DEF TakeSnapshot
      <4> QED
        BY <4>1, Zenon DEF After
    <3>2. st.logs # <<>>
      BY <3>1 DEF Holds
    <3>3. i >= st.lastIncludedIndex /\ i <= getLastLog(st).LogIndex
      <4>1. i \in Int /\ st.lastIncludedIndex \in Nat
        BY <1>1 DEF RaftState
      <4>2. st.lastIncludedIndex <= i /\ i <= getLastLog(st).LogIndex
        BY <1>1, <3>1, <3>2, <4>1, LogPositions, Zenon
      <4> QED
        BY <4>1, <4>2
    <3> HIDE DEF i, st
    <3>4. /\ pos \in 1..Len(st.logs) /\ i = st.lastIncludedIndex + pos - 1
          /\ SubSeq(st.logs, pos, Len(st.logs))[1] = e
          /\ e \in LogEntry /\ e.LogIndex = i
      BY <1>1, <3>2, <3>3, EntryPosition
    <3>5. Emptied(e) \in LogEntry /\ Emptied(e).LogIndex = i
      BY <3>4, EmptiedEntry
    <3>6. logs = [SubSeq(st.logs, pos, Len(st.logs)) EXCEPT ![1] = Emptied(e)]
      BY <3>4 DEF Compacted
    <3> HIDE DEF pos, e, logs
    <3>7. logs \in Seq(LogEntry) /\ CountsFrom(logs, i)
      BY <1>1, <3>4, <3>5, <3>6, SuffixContiguous
    <3>8. Contiguous(new) /\ new.lastIncludedIndex = i
      <4>1. e.LogTerm \in Nat /\ e.CommandIndex \in Nat
        BY <3>4 DEF LogEntry
      <4> QED
        BY <1>1, <3>7, <4>1, AfterContiguous
    <3> HIDE DEF new
    <3> QED
      BY <3>1, <3>8, SnapshotState, Zenon DEF IInv
  <2> QED
    BY <2>1, <2>2
<1>3. CallInv'
  BY DEF IInv, CallInv, TakeSnapshot
<1>4. RestInv'
  BY DEF IInv, RestInv, TakeSnapshot, elector, pending, history
<1> QED
  BY <1>2, <1>3, <1>4 DEF IInv

\* Start appends a command to the leader's log.
LEMMA StartInv ==
    ASSUME IInv, NEW s \in Server, NEW command \in Command, Start(s, command)
    PROVE  IInv'
<1>1. StateInv'
  BY StateContiguous, StartedContiguous, PersistState DEF Start, IInv
<1>2. CallInv' /\ RestInv'
  BY Zenon DEF IInv, CallInv, RestInv, Start, elector, pending, service, history
<1> QED
  BY <1>1, <1>2 DEF IInv

\* CallTimeOut and Lose.
LEMMA NetworkInv ==
    ASSUME IInv, NEW s \in Server, CallTimeOut(s) \/ Lose(s)
    PROVE  IInv'
<1>1. PICK m \in calls :
        /\ calls' = (calls \ {m}) \cup {Orphan(m)} \/ calls' = calls \ {m}
        /\ Resume(m)
        /\ UNCHANGED <<persistent, role, leaderPtr, commitIndex, elector, service,
                       restarts, history>>
  BY DEF CallTimeOut, Lose
<1>2. GoodCall(m) /\ GoodCall(Orphan(m))
  BY OrphanGood DEF IInv, CallInv
<1>3. CallInv'
  BY <1>1, <1>2 DEF IInv, CallInv
<1>4. beats' \in [Server -> [Server -> Beat]]
  BY <1>1, <1>2, ResumeType DEF IInv
<1>5. StateInv' /\ RestInv'
  BY <1>1, <1>4, KeepState DEF IInv, RestInv, Beat, elector, pending, service, history
<1> QED
  BY <1>3, <1>5 DEF IInv

\* A log with at least its sentinel.
LEMMA RestoredContiguous ==
    ASSUME NEW st, Contiguous(st)
    PROVE  /\ Contiguous(Restored(st))
           /\ Restored(Restored(st)) = Restored(st)
           /\ Restored(st).lastIncludedIndex = st.lastIncludedIndex
<1>1. CASE st.logs = <<>>
  <2> DEFINE e == Sentinel(st.lastIncludedIndex, st.lastIncludedTerm,
                           st.lastIncludedCmdIndex)
             new == [st EXCEPT !.logs = <<e>>]
  <2>1. st \in RaftState
    BY DEF Contiguous
  <2>2. e \in LogEntry /\ e.LogIndex = st.lastIncludedIndex
        /\ st.lastIncludedIndex \in Nat
    BY <2>1 DEF Sentinel, LogEntry, RaftState
  <2>3. Restored(st) = new
    BY <1>1 DEF Restored
  <2> HIDE DEF e
  <2>4. /\ new \in RaftState /\ new.logs = <<e>>
        /\ new.lastIncludedIndex = st.lastIncludedIndex
    <3>1. <<e>> \in Seq(LogEntry)
      BY <2>2
    <3> QED
      BY <2>1, <3>1, Zenon DEF RaftState
  <2> HIDE DEF new
  <2>5. CountsFrom(new.logs, new.lastIncludedIndex)
    BY <2>2, <2>4 DEF CountsFrom
  <2>6. Restored(new) = new
    BY <2>4 DEF Restored
  <2> QED
    BY <2>3, <2>4, <2>5, <2>6 DEF Contiguous
<1>2. CASE st.logs # <<>>
  BY <1>2 DEF Restored
<1> QED
  BY <1>1, <1>2

\* A peer is made again from what was saved.
LEMMA MakeInv ==
    ASSUME IInv, NEW s \in Server, Make(s)
    PROVE  IInv'
<1>1. Contiguous(rf[s]) /\ disk[s] \in RaftState
      /\ Restored(disk[s]) = Restored(rf[s])
      /\ snapshot[s] = disk[s].lastIncludedIndex
  BY StateContiguous DEF IInv, StateInv, DurableState
<1>2. StateInv'
  <2> DEFINE st == Restored(rf[s])
  <2>1. Contiguous(st) /\ Restored(st) = st
    BY <1>1, RestoredContiguous
  <2>2. rf' = [rf EXCEPT ![s] = st] /\ UNCHANGED <<disk, snapshot>>
    BY <1>1, Zenon DEF Make
  <2> HIDE DEF st
  <2>3. \A q \in Server : Restored(disk[q]) = Restored(rf[q])
                          /\ snapshot[q] = disk[q].lastIncludedIndex
    BY DEF IInv, StateInv, DurableState
  <2>4. Restored(disk[s]) = st
    BY <1>1 DEF st
  <2>5. DurableState'
    BY <2>1, <2>2, <2>3, <2>4 DEF DurableState, IInv, StateInv
  <2> QED
    BY <2>1, <2>2, <2>5 DEF IInv, StateInv, Contiguous
<1>3. CallInv'
  <2>1. \A r \in calls' : \E m \in calls : r = m \/ r = Orphan(m)
    BY DEF Make
  <2> QED
    BY <2>1, OrphanGood DEF IInv, CallInv
<1>4. RestInv'
  <2>1. Idle \in [Server -> Beat]
    BY DEF Idle, Beat
  <2>2. beats' \in [Server -> [Server -> Beat]]
    BY <2>1, Zenon DEF Make, IInv, RestInv, Beat
  <2>3. disk[s].lastIncludedIndex \in Nat
    BY <1>1, Zenon DEF RaftState
  <2> QED
    <3>1. /\ role' \in [Server -> {FOLLOWER, CANDICATE, LEADER}]
          /\ leaderPtr' \in [Server -> Leader \cup {Nil}]
      BY Zenon DEF Make, IInv, RestInv
    <3>2. 0 \in Nat /\ 1 \in Nat /\ 0 \in 0..ChanCap
      BY ConstantsAssumption
    <3>3. /\ commitIndex' \in [Server -> Nat] /\ lastAppliedIndex' \in [Server -> Nat]
          /\ dump' \in [Server -> Nat] /\ timers' \in [Server -> Nat]
          /\ linger' \in [Server -> Nat] /\ starting' \in [Server -> Nat]
          /\ heartBeatCh' \in [Server -> 0..ChanCap]
      BY <2>3, <3>2, Zenon DEF Make, IInv, RestInv
    <3>4. restarts' \in Nat
      BY DEF Make, IInv, RestInv
    <3>5. /\ elections' \in SUBSET Election /\ requests' \in SUBSET Request
          /\ UNCHANGED <<cfgLogs, ballots, acked>>
      BY Zenon DEF Make, IInv, RestInv, history
    <3> QED
      BY <2>2, <3>1, <3>3, <3>4, <3>5, Zenon DEF IInv, RestInv, Beat
<1> QED
  BY <1>2, <1>3, <1>4 DEF IInv
=============================================================================
