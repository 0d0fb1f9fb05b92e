----------------------------- MODULE RaftProofs -----------------------------
(***************************************************************************)
(* The inductive invariant holds in every reachable state, for any number  *)
(* of peers and any bounds; and what follows from it, or is inductive      *)
(* together with it: types, durability, the index arithmetic of the log,   *)
(* timers, commits, the goroutines of leaders, and the votes of winners.   *)
(***************************************************************************)
EXTENDS RaftStepProofs, RaftPropertyProofs, FiniteSetTheorems

\* The invariant holds when every peer has been made for the first time.
LEMMA InitInv == Init => IInv
<1> SUFFICES ASSUME Init PROVE IInv
  OBVIOUS
<1>1. Contiguous(NoState)
  <2>1. NoState \in RaftState
    BY DEF NoState, RaftState
  <2> QED
    BY <2>1 DEF NoState, Contiguous, CountsFrom
<1>2. Contiguous(Restored(NoState)) /\ Restored(Restored(NoState)) = Restored(NoState)
  BY <1>1, RestoredContiguous
<1>3. NoState.lastIncludedIndex = 0
  BY DEF NoState
<1>4. StateInv
  BY <1>1, <1>2, <1>3 DEF Init, StateInv, DurableState, Contiguous
<1>5. CallInv
  BY DEF Init, CallInv
<1>6. RestInv
  BY ConstantsAssumption DEF Init, RestInv, Idle
<1> QED
  BY <1>4, <1>5, <1>6 DEF IInv

\* A step that changes nothing keeps the invariant.
LEMMA StutterInv == IInv /\ UNCHANGED vars => IInv'
<1> SUFFICES ASSUME IInv, UNCHANGED vars PROVE IInv'
  OBVIOUS
<1>1. StateInv'
  BY KeepState DEF IInv, vars
<1>2. CallInv' /\ RestInv'
  BY DEF IInv, CallInv, RestInv, vars, elector, pending, service, history
<1> QED
  BY <1>1, <1>2 DEF IInv

\* Every step keeps the invariant: one case for each action.
LEMMA NextInv == IInv /\ [Next]_vars => IInv'
<1> SUFFICES ASSUME IInv, [Next]_vars PROVE IInv'
  OBVIOUS
<1>1. CASE UNCHANGED vars
  BY <1>1, StutterInv
<1>2. ASSUME NEW s \in Server,
             \/ TimeOutToElection(s) \/ QuitElection(s) \/ StartElection(s)
             \/ TimerHeartBeat(s) \/ ElectionTicker(s) \/ ElectionHeartBeat(s)
             \/ \E p \in Server : sendRequestVote(s, p)
             \/ \E p \in Server : resendRequestVote(s, p)
             \/ RequestVote(s) \/ RequestVoteGrant(s)
             \/ CountVote(s) \/ WinElection(s) \/ VoteRefused(s)
             \/ LoseElection(s)
      PROVE  IInv'
  BY <1>2, TimerInv, StartElectionInv, ElectionTickerInv, ElectionHeartBeatInv,
     sendRequestVoteInv, resendRequestVoteInv, RequestVoteInv, RequestVoteGrantInv,
     VoteCountedInv, WinElectionInv, LoseElectionInv
<1>3. ASSUME NEW s \in Server,
             \/ \E p \in Server : HeartBeatToServer(s, p)
             \/ \E p \in Server : doAppendEntriesRPC(s, p)
             \/ RejectEntries(s) \/ AppendEntries(s)
             \/ HigherTermReply(s) \/ StaleReply(s) \/ EntriesStored(s)
             \/ HeartBeatReply(s) \/ LogConflict(s)
      PROVE  IInv'
  BY <1>3, HeartBeatToServerInv, doAppendEntriesRPCInv, RejectEntriesInv,
     AppendEntriesInv, HigherTermReplyInv, IgnoredReplyInv, EntriesStoredInv,
     LogConflictInv
<1>4. ASSUME NEW s \in Server,
             \/ \E p \in Server : doInstallSnapshotRPC(s, p)
             \/ RejectSnapshot(s) \/ InstallSnapshot(s) \/ InstallSnapshotReply(s)
             \/ DumpSnapshot(s) \/ TakeSnapshot(s)
             \/ \E command \in Command : Start(s, command)
             \/ CallTimeOut(s) \/ Lose(s) \/ Make(s)
      PROVE  IInv'
  BY <1>4, doInstallSnapshotRPCInv, RejectSnapshotInv, InstallSnapshotInv,
     InstallSnapshotReplyInv, DumpSnapshotInv, TakeSnapshotInv, StartInv,
     NetworkInv, MakeInv
<1> QED
  BY <1>1, <1>2, <1>3, <1>4 DEF Next

\* The inductive invariant holds in every reachable state of the peers.
THEOREM Invariance == Spec => []IInv
  BY InitInv, NextInv, PTL DEF Spec

\* The fields of every peer and of every call in flight have their types, and
\* heartBeatCh never holds more than its capacity.
THEOREM TypeCorrect == Spec => []TypeOK
<1>1. IInv => TypeOK
  BY IInvImplies
<1> QED
  BY <1>1, Invariance, PTL

\* Durability: whenever rf.mu is free, readPersist would return what the peer has
\* in memory, for any number of peers, crashes and snapshots.
THEOREM Durability == Spec => []DurableState
<1>1. IInv => DurableState
  BY IInvImplies
<1> QED
  BY <1>1, Invariance, PTL

\* The index arithmetic of logIndex2LogPos is right in every reachable state.
THEOREM Contiguity == Spec => []LogContiguous
<1>1. IInv => LogContiguous
  BY IInvImplies
<1> QED
  BY <1>1, Invariance, PTL

-----------------------------------------------------------------------------
(* Timers.                                                                 *)

\* becomeFollower starts a timer unless the peer was a follower already.
LEMMA FollowerTimer ==
    ASSUME RestInv, FollowerHasTimer, NEW s \in Server, becomeFollower(s),
           UNCHANGED starting
    PROVE  FollowerHasTimer'
  BY DEF RestInv, FollowerHasTimer, becomeFollower

\* A step that leaves roles, timers and waiting elections alone.
LEMMA SameTimers ==
    FollowerHasTimer /\ UNCHANGED <<role, timers, starting>> => FollowerHasTimer'
  BY DEF FollowerHasTimer

\* quitElection hands the follower over from a timer to a StartElection goroutine.
LEMMA QuitTimer ==
    ASSUME RestInv, FollowerHasTimer, NEW s \in Server, QuitElection(s)
    PROVE  FollowerHasTimer'
  BY DEF RestInv, FollowerHasTimer, QuitElection

\* The StartElection goroutine that has waited for rf.mu leaves a peer which is no
\* follower.
LEMMA RoundTimer ==
    ASSUME RestInv, FollowerHasTimer, NEW s \in Server, NEW id, Round(s, id),
           UNCHANGED timers,
           UNCHANGED starting \/ starting' = [starting EXCEPT ![s] = @ - 1]
    PROVE  FollowerHasTimer'
<1>1. \A q \in Server : q # s => role'[q] = role[q] /\ timers'[q] = timers[q]
                                /\ starting'[q] = starting[q]
  BY Zenon DEF Round, RestInv
<1>2. role'[s] # FOLLOWER
  BY DEF Round, RestInv, FOLLOWER, CANDICATE, LEADER
<1> QED
  BY <1>1, <1>2 DEF FollowerHasTimer

\* No step leaves a follower with neither a timer nor an election about to start.
LEMMA NextTimer ==
    ASSUME RestInv, FollowerHasTimer, Next
    PROVE  FollowerHasTimer'
<1>1. PICK p \in Server :
        \/ TimeOutToElection(p) \/ QuitElection(p) \/ StartElection(p)
        \/ TimerHeartBeat(p) \/ ElectionTicker(p) \/ ElectionHeartBeat(p)
        \/ \E q \in Server : sendRequestVote(p, q)
        \/ \E q \in Server : resendRequestVote(p, q)
        \/ RequestVote(p) \/ RequestVoteGrant(p)
        \/ CountVote(p) \/ WinElection(p) \/ VoteRefused(p) \/ LoseElection(p)
        \/ \E q \in Server : HeartBeatToServer(p, q)
        \/ \E q \in Server : doAppendEntriesRPC(p, q)
        \/ RejectEntries(p) \/ AppendEntries(p)
        \/ HigherTermReply(p) \/ StaleReply(p) \/ EntriesStored(p)
        \/ HeartBeatReply(p) \/ LogConflict(p)
        \/ \E q \in Server : doInstallSnapshotRPC(p, q)
        \/ RejectSnapshot(p) \/ InstallSnapshot(p) \/ InstallSnapshotReply(p)
        \/ DumpSnapshot(p) \/ TakeSnapshot(p)
        \/ \E command \in Command : Start(p, command)
        \/ CallTimeOut(p) \/ Lose(p) \/ Make(p)
  BY DEF Next
<1>2. CASE QuitElection(p) \/ StartElection(p)
  BY <1>2, QuitTimer, RoundTimer DEF StartElection
<1>3. CASE ElectionTicker(p)
  BY <1>3, RoundTimer DEF ElectionTicker
<1>4. CASE RequestVote(p)
  BY <1>4, FollowerTimer, SameTimers DEF RequestVote, pending
<1>5. CASE WinElection(p)
  <2>1. role' = [role EXCEPT ![p] = LEADER] /\ UNCHANGED <<timers, starting>>
    BY <1>5, Zenon DEF WinElection, becomeLeader
  <2> QED
    BY <2>1 DEF RestInv, FollowerHasTimer, FOLLOWER, LEADER
<1>6. CASE LoseElection(p)
  BY <1>6, FollowerTimer DEF LoseElection
<1>7. CASE AppendEntries(p)
  BY <1>7, FollowerTimer DEF AppendEntries, pending
<1>8. CASE HigherTermReply(p)
  BY <1>8, FollowerTimer DEF HigherTermReply, pending
<1>9. CASE InstallSnapshot(p)
  BY <1>9, FollowerTimer, SameTimers DEF InstallSnapshot, pending
<1>10. CASE InstallSnapshotReply(p)
  BY <1>10, FollowerTimer, SameTimers DEF InstallSnapshotReply, pending
<1>11. CASE Make(p)
  <2>1. /\ role' = [role EXCEPT ![p] = FOLLOWER]
        /\ timers' = [timers EXCEPT ![p] = 1]
        /\ starting' = [starting EXCEPT ![p] = 0]
    BY <1>11, Zenon DEF Make
  <2> QED
    BY <2>1 DEF RestInv, FollowerHasTimer
<1>12. CASE \/ TimeOutToElection(p) \/ TimerHeartBeat(p) \/ ElectionHeartBeat(p)
            \/ \E q \in Server : sendRequestVote(p, q)
            \/ \E q \in Server : resendRequestVote(p, q)
            \/ RequestVoteGrant(p) \/ CountVote(p) \/ VoteRefused(p)
  BY <1>12, SameTimers, Zenon
     DEF TimeOutToElection, TimerHeartBeat, ElectionHeartBeat, sendRequestVote,
         resendRequestVote, RequestVoteGrant, CountVote, VoteRefused, elector, pending
<1>13. CASE \/ \E q \in Server : HeartBeatToServer(p, q)
            \/ \E q \in Server : doAppendEntriesRPC(p, q)
            \/ RejectEntries(p) \/ StaleReply(p) \/ EntriesStored(p)
            \/ HeartBeatReply(p) \/ LogConflict(p)
  BY <1>13, SameTimers, Zenon
     DEF HeartBeatToServer, doAppendEntriesRPC, RejectEntries, StaleReply,
         EntriesStored, HeartBeatReply, LogConflict, elector, pending
<1>14. CASE \/ \E q \in Server : doInstallSnapshotRPC(p, q)
            \/ RejectSnapshot(p) \/ DumpSnapshot(p) \/ TakeSnapshot(p)
            \/ \E command \in Command : Start(p, command)
            \/ CallTimeOut(p) \/ Lose(p)
  BY <1>14, SameTimers, Zenon
     DEF doInstallSnapshotRPC, RejectSnapshot, DumpSnapshot, TakeSnapshot, Start,
         CallTimeOut, Lose, elector, pending
<1> QED
  BY <1>1, <1>2, <1>3, <1>4, <1>5, <1>6, <1>7, <1>8, <1>9, <1>10, <1>11, <1>12,
     <1>13, <1>14

\* However elections, heartbeats, terms and restarts interleave, a follower always
\* has a TimeOutToElection goroutine, or a StartElection goroutine that has just
\* ended one and waits for rf.mu to make the peer a candidate.
THEOREM TimersKept == Spec => []FollowerHasTimer
<1>1. Init => FollowerHasTimer
  BY DEF Init, FollowerHasTimer
<1>2. IInv /\ FollowerHasTimer /\ [Next]_vars => FollowerHasTimer'
  <2>1. CASE Next
    BY <2>1, NextTimer DEF IInv
  <2>2. CASE UNCHANGED vars
    BY <2>2 DEF vars, elector, pending, FollowerHasTimer
  <2> QED
    BY <2>1, <2>2
<1> QED
  BY <1>1, <1>2, Invariance, PTL DEF Spec

-----------------------------------------------------------------------------
(* Commits.                                                                *)

\* No peer takes an index for committed, applies it, compacts it or tells others
\* about it before some leader has counted a majority for that index or for a
\* higher one; for any number of peers, crashes and lost calls.
THEOREM CommitsCounted == Spec => []CommitHasOrigin
<1>1. Init => Origin
  <2> SUFFICES ASSUME Init PROVE Origin
    OBVIOUS
  <2>1. /\ commitIndex = [s \in Server |-> 0] /\ lastAppliedIndex = [s \in Server |-> 0]
        /\ dump = [s \in Server |-> 0] /\ snapshot = [s \in Server |-> 0]
        /\ acked = 0 /\ calls = {}
    BY Zenon DEF Init
  <2> QED
    BY <2>1 DEF Origin
<1>2. IInv /\ IInv' /\ Origin /\ [Next]_vars => Origin'
  <2> SUFFICES ASSUME IInv, IInv', Origin, [Next]_vars PROVE Origin'
    OBVIOUS
  <2>1. CASE Next
    BY <2>1, ElectionOrigin, ReplicationOrigin, SendOrigin, AppendEntriesOrigin, Zenon,
       EntriesStoredOrigin, InstallSnapshotOrigin, SnapshotOrigin DEF Next
  <2>2. CASE UNCHANGED vars
    BY <2>2, QuietOrigin DEF vars, persistent, service, history
  <2> QED
    BY <2>1, <2>2
<1>3. IInv /\ Origin => CommitHasOrigin
  BY OriginIsCommit
<1> QED
  BY <1>1, <1>2, <1>3, Invariance, PTL DEF Spec

-----------------------------------------------------------------------------
(* Leaders.                                                                *)

\* The first half of LeaderReplicates.
PtrOfLeader == \A s \in Server : (role[s] = LEADER) <=> (leaderPtr[s] # Nil)

\* becomeFollower drops the leader's part along with the role.
LEMMA FollowerPtr ==
    ASSUME RestInv, PtrOfLeader, NEW s \in Server, becomeFollower(s)
    PROVE  PtrOfLeader'
  BY DEF RestInv, PtrOfLeader, becomeFollower, FOLLOWER, LEADER

\* Neither role nor leader's part changes.
LEMMA SamePtr == PtrOfLeader /\ UNCHANGED <<role, leaderPtr>> => PtrOfLeader'
  BY DEF PtrOfLeader

\* A round of an election: a candidate that was no leader before has no leader's part.
LEMMA RoundPtr ==
    ASSUME RestInv, PtrOfLeader, NEW s \in Server, NEW id, Round(s, id),
           UNCHANGED leaderPtr
    PROVE  PtrOfLeader'
<1>1. CASE UNCHANGED role
  BY <1>1, SamePtr
<1>2. CASE role[s] # LEADER /\ role' = [role EXCEPT ![s] = CANDICATE]
  BY <1>2 DEF RestInv, PtrOfLeader, CANDICATE, LEADER
<1> QED
  BY <1>1, <1>2 DEF Round

\* A leader's record is replaced by another one.
LEMMA RecordPtr ==
    ASSUME RestInv, PtrOfLeader, NEW s \in Server, NEW l \in Leader,
           leaderPtr' = [leaderPtr EXCEPT ![s] = l],
           \/ leaderPtr[s] # Nil /\ UNCHANGED role
           \/ role' = [role EXCEPT ![s] = LEADER]
    PROVE  PtrOfLeader'
<1>1. l # Nil
  BY NilAssumption
<1> QED
  BY <1>1 DEF RestInv, PtrOfLeader

\* A candidate that wins gets both.
LEMMA WinElectionPtr ==
    ASSUME IInv, PtrOfLeader, NEW s \in Server, WinElection(s)
    PROVE  PtrOfLeader'
<1> DEFINE l == [nextIndexs  |-> [p \in Server |-> getLastLog(rf[s]).LogIndex + 1],
                 matchIndexs |-> [p \in Server |-> 0]]
<1>1. /\ rf[s].logs # <<>> /\ role' = [role EXCEPT ![s] = LEADER]
      /\ leaderPtr' = [leaderPtr EXCEPT ![s] = l]
  BY DEF WinElection, becomeLeader
<1>2. getLastLog(rf[s]).LogIndex \in Nat
  BY <1>1, StateContiguous, LogPositions DEF IInv, LogEntry
<1>3. l \in Leader
  BY <1>2 DEF Leader
<1> HIDE DEF l
<1> QED
  BY <1>1, <1>3, RecordPtr, Zenon DEF IInv

\* A reply that entries were stored moves the indexes of a leader only.
LEMMA EntriesStoredPtr ==
    ASSUME IInv, PtrOfLeader, NEW s \in Server, EntriesStored(s)
    PROVE  PtrOfLeader'
<1>1. PICK m \in Returned(s, "AppendEntriesReply") : EntriesStored(s)!(m)
  BY Zenon DEF EntriesStored
<1>2. m.dst \in Server /\ m.lastEntry \in Nat
  BY AnswerType
<1>3. leaderPtr[s] \in Leader
  BY <1>1 DEF IInv, RestInv
<1>4. /\ leaderPtr' = [leaderPtr EXCEPT ![s] =
                         Matched(leaderPtr[s], m.dst, m.lastEntry)]
      /\ leaderPtr[s] # Nil /\ UNCHANGED role
  BY <1>1, Zenon
<1>5. Matched(leaderPtr[s], m.dst, m.lastEntry) \in Leader
  BY <1>2, <1>3, LeaderMoves
<1> QED
  BY <1>4, <1>5, RecordPtr, Zenon DEF IInv

\* So does a reply that reports a conflict.
LEMMA LogConflictPtr ==
    ASSUME IInv, PtrOfLeader, NEW s \in Server, LogConflict(s)
    PROVE  PtrOfLeader'
<1>1. PICK m \in Returned(s, "AppendEntriesReply") : LogConflict(s)!(m)
  BY Zenon DEF LogConflict
<1> DEFINE back == BackTo(rf[s], leaderPtr[s].nextIndexs[m.dst], m)
<1>2. m.dst \in Server /\ m.Xlen \in Nat /\ m.Xindex \in Nat
  BY AnswerType
<1>3. leaderPtr[s] \in Leader
  BY <1>1 DEF IInv, RestInv
<1>4. back \in Nat
  <2>1. leaderPtr[s].nextIndexs[m.dst] \in Nat
    BY <1>2, <1>3 DEF Leader
  <2> QED
    BY <1>1, <1>2, <2>1, StateContiguous, BackToType, Zenon DEF IInv
<1>5. /\ leaderPtr' = [leaderPtr EXCEPT ![s] = SendFrom(leaderPtr[s], m.dst, back)]
      /\ leaderPtr[s] # Nil /\ UNCHANGED role
  BY <1>1, Zenon
<1> HIDE DEF back
<1>6. SendFrom(leaderPtr[s], m.dst, back) \in Leader
  BY <1>2, <1>3, <1>4, LeaderMoves
<1> QED
  BY <1>5, <1>6, RecordPtr, Zenon DEF IInv

\* So does the reply to a snapshot.
LEMMA InstallSnapshotReplyPtr ==
    ASSUME IInv, PtrOfLeader, NEW s \in Server, InstallSnapshotReply(s)
    PROVE  PtrOfLeader'
<1>1. PICK m \in Returned(s, "InstallSnapshotReply") : InstallSnapshotReply(s)!(m)
  BY DEF InstallSnapshotReply
<1>2. m.dst \in Server /\ m.LastIncludedIndex \in Nat
  BY CallAtStage DEF Returned, IInv, CallInv, GoodCall, InstallSnapshotReplyCall
<1>3. CASE UNCHANGED <<role, leaderPtr>>
  BY <1>3, SamePtr
<1>4. CASE becomeFollower(s)
  BY <1>4, FollowerPtr DEF IInv
<1>5. CASE /\ leaderPtr[s] # Nil /\ UNCHANGED role
           /\ leaderPtr' = [leaderPtr EXCEPT
                 ![s] = Matched(@, m.dst, m.LastIncludedIndex)]
  <2>1. leaderPtr[s] \in Leader
    BY <1>5 DEF IInv, RestInv
  <2>2. Matched(leaderPtr[s], m.dst, m.LastIncludedIndex) \in Leader
    BY <1>2, <2>1, LeaderMoves
  <2>3. leaderPtr' = [leaderPtr EXCEPT
                        ![s] = Matched(leaderPtr[s], m.dst, m.LastIncludedIndex)]
    BY <1>5
  <2> QED
    BY <1>5, <2>2, <2>3, RecordPtr, Zenon DEF IInv
<1> QED
  BY <1>1, <1>3, <1>4, <1>5

\* No step leaves a leader without its part, or its part with another role.
LEMMA NextPtr ==
    ASSUME IInv, PtrOfLeader, Next
    PROVE  PtrOfLeader'
<1>1. ASSUME NEW s \in Server, StartElection(s) \/ ElectionTicker(s)
      PROVE  PtrOfLeader'
  BY <1>1, RoundPtr DEF StartElection, ElectionTicker, IInv
<1>2. ASSUME NEW s \in Server,
             \/ TimeOutToElection(s) \/ QuitElection(s)
             \/ TimerHeartBeat(s) \/ ElectionHeartBeat(s)
             \/ \E p \in Server : sendRequestVote(s, p)
             \/ \E p \in Server : resendRequestVote(s, p)
             \/ RequestVoteGrant(s) \/ CountVote(s) \/ VoteRefused(s)
      PROVE  PtrOfLeader'
  BY <1>2, SamePtr, Zenon
     DEF TimeOutToElection, QuitElection, TimerHeartBeat, ElectionHeartBeat,
         sendRequestVote, resendRequestVote, RequestVoteGrant, CountVote, VoteRefused
<1>3. ASSUME NEW s \in Server, RequestVote(s) \/ InstallSnapshot(s)
      PROVE  PtrOfLeader'
  BY <1>3, FollowerPtr, SamePtr, Zenon DEF RequestVote, InstallSnapshot, IInv
<1>4. ASSUME NEW s \in Server,
             LoseElection(s) \/ AppendEntries(s) \/ HigherTermReply(s)
      PROVE  PtrOfLeader'
  BY <1>4, FollowerPtr, Zenon DEF LoseElection, AppendEntries, HigherTermReply, IInv
<1>5. ASSUME NEW s \in Server,
             \/ \E p \in Server : HeartBeatToServer(s, p)
             \/ \E p \in Server : doAppendEntriesRPC(s, p)
             \/ RejectEntries(s) \/ StaleReply(s) \/ HeartBeatReply(s)
      PROVE  PtrOfLeader'
  BY <1>5, SamePtr, Zenon
     DEF HeartBeatToServer, doAppendEntriesRPC, RejectEntries, StaleReply,
         HeartBeatReply
<1>6. ASSUME NEW s \in Server,
             \/ \E p \in Server : doInstallSnapshotRPC(s, p)
             \/ RejectSnapshot(s) \/ DumpSnapshot(s) \/ TakeSnapshot(s)
             \/ \E command \in Command : Start(s, command)
             \/ CallTimeOut(s) \/ Lose(s)
      PROVE  PtrOfLeader'
  BY <1>6, SamePtr, Zenon
     DEF doInstallSnapshotRPC, RejectSnapshot, DumpSnapshot, TakeSnapshot, Start,
         CallTimeOut, Lose
<1>7. ASSUME NEW s \in Server, Make(s)
      PROVE  PtrOfLeader'
  BY <1>7 DEF Make, PtrOfLeader, IInv, RestInv, FOLLOWER, LEADER
<1> QED
  BY <1>1, <1>2, <1>3, <1>4, <1>5, <1>6, <1>7, WinElectionPtr, EntriesStoredPtr,
     LogConflictPtr, InstallSnapshotReplyPtr DEF Next

\* The two halves.
LEMMA HalvesOfLeader == LeaderReplicates <=> PtrOfLeader /\ Replicating
  BY DEF LeaderReplicates, PtrOfLeader, Replicating, Looping, Waiting, IsWait

\* A leader has a leaderPtr and, for every other peer, a goroutine that is in its
\* loop or waits for a call, whatever calls are lost, late or answered by a peer
\* of a higher term; nobody else has a leaderPtr.
THEOREM LeadersReplicate == Spec => []LeaderReplicates
<1>1. Init => PtrOfLeader /\ Replicating
  BY DEF Init, PtrOfLeader, Replicating, FOLLOWER, LEADER
<1>2. IInv /\ PtrOfLeader /\ [Next]_vars => PtrOfLeader'
  <2>1. CASE UNCHANGED vars
    BY <2>1, SamePtr DEF vars
  <2> QED
    BY <2>1, NextPtr
<1>3. IInv /\ Replicating /\ [Next]_vars => Replicating'
  <2> SUFFICES ASSUME IInv, Replicating, [Next]_vars PROVE Replicating'
    OBVIOUS
  <2>1. CASE UNCHANGED vars
    BY <2>1, SameWaits, QuietReplicating DEF vars
  <2>2. ASSUME NEW s \in Server,
               \/ DumpSnapshot(s) \/ TakeSnapshot(s)
               \/ \E command \in Command : Start(s, command)
        PROVE  Replicating'
    BY <2>2, SameWaits, QuietReplicating DEF DumpSnapshot, TakeSnapshot, Start
  <2>3. CASE Next
    BY <2>2, <2>3, ElectionReplicating, WinElectionReplicating, BeatReplicating, Zenon,
       HandlerReplicating, AnsweredReplicating, NetworkReplicating,
       MakeReplicating DEF Next
  <2> QED
    BY <2>1, <2>3
<1>4. PtrOfLeader /\ Replicating => LeaderReplicates
  BY HalvesOfLeader
<1> QED
  BY <1>1, <1>2, <1>3, <1>4, Invariance, PTL DEF Spec

-----------------------------------------------------------------------------
(* Votes.                                                                  *)

\* A finite set with a part and two elements besides it.
LEMMA TwoMore ==
    ASSUME NEW S, IsFiniteSet(S), NEW T, T \subseteq S,
           NEW a \in S, NEW b \in S, a \notin T, b \notin T, a # b
    PROVE  /\ Cardinality(S) \in Nat /\ Cardinality(T) \in Nat
           /\ Cardinality(S) >= Cardinality(T) + 2
<1> DEFINE U == T \cup {a}
           V == U \cup {b}
<1>1. IsFiniteSet(T)
  BY FS_Subset, Zenon
<1>2. IsFiniteSet(U) /\ Cardinality(U) = Cardinality(T) + 1
  BY <1>1, FS_AddElement, Zenon
<1>3. b \notin U
  BY Zenon
<1> HIDE DEF U
<1>4. IsFiniteSet(V) /\ Cardinality(V) = Cardinality(U) + 1
  BY <1>2, <1>3, FS_AddElement, Zenon
<1>5. V \subseteq S
  BY Zenon DEF U
<1> HIDE DEF V
<1>6. Cardinality(V) <= Cardinality(S) /\ Cardinality(S) \in Nat /\ Cardinality(T) \in Nat
  BY <1>1, <1>5, FS_Subset, FS_CardinalityType, Zenon
<1>7. Cardinality(V) = Cardinality(T) + 2
  BY <1>2, <1>4, <1>6
<1> QED
  BY <1>6, <1>7

\* The number of peers for which the count in StartElection means a majority.
LEMMA EnoughVotes ==
    ASSUME NEW n \in Nat, n < 4 \/ n % 2 = 1, NEW k \in Nat, k >= 2,
           k >= (n + 1) \div 2
    PROVE  2 * k > n
<1>1. PICK h : h = (n + 1) \div 2
  OBVIOUS
<1>2. h \in Int /\ n + 1 = 2 * h + ((n + 1) % 2) /\ (n + 1) % 2 \in {0, 1}
  BY <1>1
<1>3. n % 2 = 1 => (n + 1) % 2 = 0
  OBVIOUS
<1> QED
  BY <1>1, <1>2, <1>3

\* The winner, the voters it has counted and the one that made the majority.
LEMMA WinnerVotes ==
    ASSUME VoteInv, IInv, NEW s \in Server, WinElection(s),
           Cardinality(Server) < 4 \/ Cardinality(Server) % 2 = 1
    PROVE  \E t \in {b[3] : b \in ballots} :
              2 * Cardinality(Voters(s, t)) > Cardinality(Server)
<1>1. PICK e \in Loops(s), m \in Returned(s, "RequestVoteReply") :
        m.id = e.id /\ m.VoteGranted /\ Cardinality(e.granted) + 2 >= Majority
  BY Zenon DEF WinElection, Answers
<1>2. e \in elections /\ e \in Election /\ e.cand = s
  BY AnswerPending, Zenon
<1>3. m \in Pending /\ m.src = s /\ m.stage = "RequestVoteReply"
  BY AnswerPending, Zenon
<1>4. Answerable(m) /\ Counted(e)
  BY <1>2, <1>3, Zenon DEF VoteInv
<1>5. PICK g \in elections : /\ g.cand = m.src /\ g.id = m.id
                             /\ g.term = m.CandicateTerm /\ m.dst \notin g.answered
  BY <1>4, Zenon DEF Answerable
<1>6. g = e
  BY <1>1, <1>2, <1>3, <1>5, Zenon DEF VoteInv
<1>7. e.term = m.CandicateTerm /\ m.dst \notin e.granted /\ m.dst # s
  BY <1>3, <1>4, <1>5, <1>6, Zenon DEF Counted, Answerable
<1>8. <<m.dst, s, e.term>> \in ballots
  BY <1>1, <1>3, <1>4, <1>7, Zenon DEF Answerable
<1> DEFINE V == Voters(s, e.term)
<1>9. m.dst \in Server /\ e.granted \subseteq Server
  BY <1>2, <1>3, CallAtStage DEF Pending, IInv, CallInv, GoodCall, Election
<1>10. V \subseteq Server /\ e.granted \subseteq V /\ s \in V /\ m.dst \in V
  BY <1>2, <1>4, <1>8, <1>9, Zenon DEF Voters, Counted
<1>11. s \notin e.granted
  BY <1>2, <1>4, Zenon DEF Counted
<1> HIDE DEF V
<1>12. IsFiniteSet(Server)
  BY ConstantsAssumption
<1>13. IsFiniteSet(V) /\ Cardinality(Server) \in Nat
  BY <1>10, <1>12, FS_Subset, FS_CardinalityType, Zenon
<1>14. /\ Cardinality(V) \in Nat /\ Cardinality(e.granted) \in Nat
       /\ Cardinality(V) >= Cardinality(e.granted) + 2
  BY <1>7, <1>10, <1>11, <1>13, TwoMore, Zenon
<1>15. 2 * Cardinality(V) > Cardinality(Server)
  <2>1. Cardinality(V) >= 2 /\ Cardinality(V) >= (Cardinality(Server) + 1) \div 2
    BY <1>1, <1>13, <1>14 DEF Majority
  <2> QED
    BY <1>13, <1>14, <2>1, EnoughVotes
<1>16. e.term \in {b[3] : b \in ballots}
  <2>1. <<m.dst, s, e.term>>[3] = e.term
    OBVIOUS
  <2> QED
    BY <1>8, <2>1, Zenon
<1> QED
  BY <1>15, <1>16, Zenon DEF V

\* With an odd number of peers, or fewer than four, a peer becomes leader only after
\* more than half of the peers granted it their vote for one and the same term.
THEOREM WinnersHaveVotes ==
    ASSUME Cardinality(Server) < 4 \/ Cardinality(Server) % 2 = 1
    PROVE  Spec => WinnerHasVotes
<1>1. Init => VoteInv
  BY DEF Init, VoteInv, Pending
<1>2. IInv /\ VoteInv /\ [Next]_vars => VoteInv'
  BY NextVotes
<1>3. IInv /\ VoteInv /\ [Next]_vars =>
        [\A s \in Server : role[s] # LEADER /\ role'[s] = LEADER =>
            \E t \in {b[3] : b \in ballots} :
               2 * Cardinality(Voters(s, t)) > Cardinality(Server)]_vars
  BY OnlyWinnerLeads, WinnerVotes
<1> QED
  BY <1>1, <1>2, <1>3, Invariance, PTL DEF Spec, WinnerHasVotes
=============================================================================
