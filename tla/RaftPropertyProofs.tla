------------------------- MODULE RaftPropertyProofs -------------------------
(***************************************************************************)
(* Three more invariants of the peers, each preserved together with IInv:  *)
(* what a peer takes for committed has been counted by a leader, a leader  *)
(* keeps a goroutine for every other peer, and a candidate counts no vote  *)
(* that it was not given for the term of its round.                        *)
(***************************************************************************)
EXTENDS RaftReplicationProofs

-----------------------------------------------------------------------------
(* Commits.                                                                *)

\* What a call in flight tells of commits stays within what was counted.
Told(m) ==
    /\ m.stage = "AppendEntries" => m.LeaderCommit <= acked
    /\ m.stage = "InstallSnapshot" => m.LastIncludedIndex <= acked

\* The types of the counters.
LEMMA Counters ==
    ASSUME IInv
    PROVE  /\ commitIndex \in [Server -> Nat] /\ lastAppliedIndex \in [Server -> Nat]
           /\ dump \in [Server -> Nat] /\ snapshot \in [Server -> Nat]
           /\ acked \in Nat
  BY Zenon DEF IInv, RestInv, StateInv

\* CommitHasOrigin, with the stored snapshot in the place of lastIncludedIndex.
Origin ==
    /\ \A s \in Server : /\ commitIndex[s] <= acked /\ lastAppliedIndex[s] <= acked
                         /\ dump[s] <= acked /\ snapshot[s] <= acked
    /\ \A m \in calls : Told(m)

\* lastIncludedIndex is that of the stored snapshot.
LEMMA SnapshotIndex == IInv => \A s \in Server : snapshot[s] = rf[s].lastIncludedIndex
  BY Zenon DEF IInv, StateInv, DurableState, Restored, RaftState

\* Under the invariant, Origin says what the checked property says.
LEMMA OriginIsCommit == IInv => (Origin <=> CommitHasOrigin)
<1>1. IInv => \A s \in Server : snapshot[s] = rf[s].lastIncludedIndex
  BY SnapshotIndex
<1> QED
  BY <1>1 DEF Origin, Told, CommitHasOrigin

\* A call that nobody waits for any more still carries what it carried.
LEMMA OrphanStage ==
    ASSUME NEW m, GoodCall(m)
    PROVE  /\ Orphan(m).stage = m.stage /\ Orphan(m).src = m.src
           /\ Orphan(m).dst = m.dst /\ Orphan(m).waiting = FALSE
           /\ m.stage = "AppendEntries" => Orphan(m).LeaderCommit = m.LeaderCommit
           /\ m.stage = "InstallSnapshot" =>
                Orphan(m).LastIncludedIndex = m.LastIncludedIndex
<1>1. m \in Call
  BY DEF GoodCall
<1>2. CASE m.stage = "AppendEntries"
  <2>1. m \in AppendEntriesCall
    BY <1>1, <1>2, CallAtStage
  <2> QED
    BY <1>2, <2>1 DEF Orphan, AppendEntriesCall
<1>3. CASE m.stage = "InstallSnapshot"
  <2>1. m \in InstallSnapshotCall
    BY <1>1, <1>3, CallAtStage
  <2> QED
    BY <1>3, <2>1 DEF Orphan, InstallSnapshotCall
<1>4. CASE m.stage \notin {"AppendEntries", "InstallSnapshot"}
  <2>1. ASSUME NEW K \in {RequestVoteCall, VotingCall, RequestVoteReplyCall,
                          AppendEntriesReplyCall, InstallSnapshotReplyCall},
               m \in K
        PROVE  /\ Orphan(m).stage = m.stage /\ Orphan(m).src = m.src
               /\ Orphan(m).dst = m.dst /\ Orphan(m).waiting = FALSE
    BY <2>1 DEF Orphan, RequestVoteCall, VotingCall, RequestVoteReplyCall,
                AppendEntriesReplyCall, InstallSnapshotReplyCall
  <2>2. \E K \in {RequestVoteCall, VotingCall, RequestVoteReplyCall,
                  AppendEntriesReplyCall, InstallSnapshotReplyCall} : m \in K
    BY <1>1, <1>4 DEF Call, AppendEntriesCall, InstallSnapshotCall
  <2> QED
    BY <1>4, <2>1, <2>2, Zenon
<1> QED
  BY <1>2, <1>3, <1>4, Zenon

\* The calls of the next state: old ones, some without a caller, and new ones
\* that say nothing of commits.
SaysNothing(r) == r.stage \notin {"AppendEntries", "InstallSnapshot"}

\* Calls that stay, lose their caller or are replies tell of no new commits.
LEMMA CallsTold ==
    ASSUME IInv, Origin, IInv', acked <= acked',
           \A r \in calls' : \/ r \in calls \/ SaysNothing(r)
                             \/ \E m \in calls : r = Orphan(m)
    PROVE  \A r \in calls' : Told(r)'
<1> SUFFICES ASSUME NEW r \in calls' PROVE Told(r)'
  OBVIOUS
<1>1. acked \in Int /\ acked' \in Int
  BY DEF IInv, RestInv
<1>2. GoodCall(r)
  BY DEF IInv, CallInv, GoodCall, Call
<1>3. CASE SaysNothing(r)
  BY <1>3 DEF SaysNothing, Told
<1>4. ASSUME NEW m \in calls, r = m \/ r = Orphan(m)
      PROVE  Told(r)'
  <2>1. GoodCall(m) /\ Told(m)
    BY DEF IInv, CallInv, Origin
  <2>2. /\ m.stage = "AppendEntries" => m.LeaderCommit \in Int
        /\ m.stage = "InstallSnapshot" => m.LastIncludedIndex \in Int
    BY <2>1, CallAtStage DEF GoodCall, AppendEntriesCall, InstallSnapshotCall
  <2>3. /\ r.stage = m.stage
        /\ m.stage = "AppendEntries" => r.LeaderCommit = m.LeaderCommit
        /\ m.stage = "InstallSnapshot" =>
             r.LastIncludedIndex = m.LastIncludedIndex
    BY <1>4, <2>1, OrphanStage, Zenon
  <2> QED
    BY <1>1, <2>1, <2>2, <2>3 DEF Told
<1> QED
  BY <1>3, <1>4

\* A step that counts, commits, applies and stores nothing.
LEMMA QuietOrigin ==
    ASSUME IInv, Origin, IInv',
           UNCHANGED <<commitIndex, lastAppliedIndex, dump, snapshot, acked>>,
           \A r \in calls' : \/ r \in calls \/ SaysNothing(r)
                             \/ \E m \in calls : r = Orphan(m)
    PROVE  Origin'
<1>1. acked <= acked'
  BY Counters
<1> QED
  BY <1>1, CallsTold DEF Origin

\* The calls after a step of an election, a reply, a loss or a timeout.
LEMMA AbandonOld ==
    ASSUME NEW s, NEW id, Abandon(s, id)
    PROVE  \A r \in calls' : r \in calls \/ \E m \in calls : r = Orphan(m)
  BY DEF Abandon

\* A reply takes the place of its call, and the other calls stay.
LEMMA ReplyOld ==
    ASSUME NEW m, NEW r, Reply(m, r), SaysNothing(r)
    PROVE  \A x \in calls' : x \in calls \/ SaysNothing(x)
  BY DEF Reply

\* No reply carries a commit index.
LEMMA RepliesSayNothing ==
    ASSUME NEW m, NEW a, NEW b
    PROVE  /\ SaysNothing(VoteReply(m, a, b)) /\ SaysNothing(AppendReply(m, a, b))
           /\ SaysNothing(SnapshotReply(m))
  BY DEF SaysNothing, VoteReply, AppendReply, SnapshotReply

\* Elections commit nothing.
LEMMA ElectionOrigin ==
    ASSUME IInv, Origin, IInv', NEW s \in Server,
           \/ TimeOutToElection(s) \/ QuitElection(s) \/ StartElection(s)
           \/ TimerHeartBeat(s) \/ ElectionTicker(s) \/ ElectionHeartBeat(s)
           \/ \E p \in Server : sendRequestVote(s, p)
           \/ \E p \in Server : resendRequestVote(s, p)
           \/ RequestVote(s) \/ RequestVoteGrant(s)
           \/ CountVote(s) \/ WinElection(s) \/ VoteRefused(s) \/ LoseElection(s)
    PROVE  Origin'
<1>1. UNCHANGED <<commitIndex, lastAppliedIndex, dump, snapshot, acked>>
  <2>1. CASE TimeOutToElection(s) \/ QuitElection(s) \/ StartElection(s)
             \/ TimerHeartBeat(s) \/ ElectionTicker(s) \/ ElectionHeartBeat(s)
    BY <2>1, Zenon DEF TimeOutToElection, QuitElection, StartElection, TimerHeartBeat,
                ElectionTicker, ElectionHeartBeat, persistent,
                service, history
  <2>2. CASE \/ \E p \in Server : sendRequestVote(s, p)
             \/ \E p \in Server : resendRequestVote(s, p)
             \/ RequestVote(s) \/ RequestVoteGrant(s)
    BY <2>2, Zenon DEF sendRequestVote, resendRequestVote, RequestVote,
                RequestVoteGrant, persistent, service, history
  <2>3. CASE CountVote(s) \/ WinElection(s) \/ VoteRefused(s) \/ LoseElection(s)
    BY <2>3, Zenon DEF CountVote, WinElection, VoteRefused, LoseElection, persistent,
                service, history
  <2> QED
    BY <2>1, <2>2, <2>3
<1>2. \A r \in calls' : \/ r \in calls \/ SaysNothing(r)
                        \/ \E m \in calls : r = Orphan(m)
  <2>1. CASE \/ TimeOutToElection(s) \/ QuitElection(s) \/ StartElection(s)
             \/ TimerHeartBeat(s) \/ CountVote(s) \/ VoteRefused(s)
    BY <2>1, Zenon DEF TimeOutToElection, QuitElection, StartElection, TimerHeartBeat,
                CountVote, VoteRefused
  <2>2. CASE ElectionTicker(s) \/ ElectionHeartBeat(s) \/ WinElection(s)
             \/ LoseElection(s)
    <3>1. \E id : Abandon(s, id)
      BY <2>2, Zenon DEF ElectionTicker, ElectionHeartBeat, WinElection, LoseElection
    <3> QED
      BY <3>1, AbandonOld
  <2>3. CASE \E p \in Server : sendRequestVote(s, p)
    <3>1. PICK p \in Server, e \in Loops(s) :
            calls' = calls \cup
              {[stage |-> "RequestVote", src |-> s, dst |-> p, id |-> e.id,
                waiting |-> TRUE, CandicateTerm |-> e.term,
                LastLogIndex |-> e.LastLogIndex, LastLogTerm |-> e.LastLogTerm]}
      BY <2>3, Zenon DEF sendRequestVote, Send
    <3> QED
      BY <3>1 DEF SaysNothing
  <2>4. CASE \E p \in Server : resendRequestVote(s, p)
    <3>1. PICK p \in Server, q \in requests :
            calls' = calls \cup
              {[stage |-> "RequestVote", src |-> s, dst |-> p, id |-> 0,
                waiting |-> FALSE, CandicateTerm |-> q.term,
                LastLogIndex |-> q.LastLogIndex, LastLogTerm |-> q.LastLogTerm]}
      BY <2>4, Zenon DEF resendRequestVote, Send
    <3> QED
      BY <3>1 DEF SaysNothing
  <2>5. CASE RequestVote(s)
    <3>1. PICK m \in Arrived(s, "RequestVote") : RequestVote(s)!(m)
      BY <2>5, Zenon DEF RequestVote
    <3>2. \/ \E a, b : Reply(m, VoteReply(m, a, b))
          \/ \E r : SaysNothing(r) /\ calls' = (calls \ {m}) \cup {r}
      BY <3>1, Zenon DEF SaysNothing
    <3> QED
      BY <3>2, ReplyOld, RepliesSayNothing
  <2>6. CASE RequestVoteGrant(s)
    BY <2>6, ReplyOld, RepliesSayNothing, Zenon DEF RequestVoteGrant
  <2> QED
    BY <2>1, <2>2, <2>3, <2>4, <2>5, <2>6
<1> QED
  BY <1>1, <1>2, QuietOrigin

\* Neither do these steps of replication and of the network.
LEMMA ReplicationOrigin ==
    ASSUME IInv, Origin, IInv', NEW s \in Server,
           \/ \E p \in Server : HeartBeatToServer(s, p)
           \/ RejectEntries(s) \/ HigherTermReply(s) \/ StaleReply(s)
           \/ HeartBeatReply(s) \/ LogConflict(s)
           \/ RejectSnapshot(s) \/ InstallSnapshotReply(s)
           \/ \E command \in Command : Start(s, command)
           \/ CallTimeOut(s) \/ Lose(s)
    PROVE  Origin'
<1>1. UNCHANGED <<commitIndex, lastAppliedIndex, dump, snapshot, acked>>
  <2>1. CASE \/ \E p \in Server : HeartBeatToServer(s, p)
             \/ RejectEntries(s) \/ HigherTermReply(s) \/ StaleReply(s)
             \/ HeartBeatReply(s) \/ LogConflict(s)
    BY <2>1, Zenon DEF HeartBeatToServer, RejectEntries, HigherTermReply, StaleReply,
                HeartBeatReply, LogConflict, persistent, service, history
  <2>2. CASE \/ RejectSnapshot(s) \/ InstallSnapshotReply(s)
             \/ \E command \in Command : Start(s, command)
             \/ CallTimeOut(s) \/ Lose(s)
    BY <2>2, Zenon DEF RejectSnapshot, InstallSnapshotReply, Start, CallTimeOut, Lose,
                persistent, service, history
  <2> QED
    BY <2>1, <2>2
<1>2. \A r \in calls' : \/ r \in calls \/ SaysNothing(r)
                        \/ \E m \in calls : r = Orphan(m)
  <2>1. CASE \/ \E p \in Server : HeartBeatToServer(s, p)
             \/ HigherTermReply(s) \/ StaleReply(s)
             \/ HeartBeatReply(s) \/ LogConflict(s) \/ InstallSnapshotReply(s)
             \/ \E command \in Command : Start(s, command)
             \/ CallTimeOut(s) \/ Lose(s)
    BY <2>1, Zenon DEF HeartBeatToServer, HigherTermReply, StaleReply, HeartBeatReply,
                LogConflict, InstallSnapshotReply, Start, CallTimeOut, Lose
  <2>2. CASE RejectEntries(s) \/ RejectSnapshot(s)
    BY <2>2, ReplyOld, RepliesSayNothing, Zenon DEF RejectEntries, RejectSnapshot
  <2> QED
    BY <2>1, <2>2
<1> QED
  BY <1>1, <1>2, QuietOrigin

\* A leader passes on its own commitIndex and its own snapshot.
LEMMA SendOrigin ==
    ASSUME IInv, Origin, IInv', NEW s \in Server, NEW p \in Server,
           doAppendEntriesRPC(s, p) \/ doInstallSnapshotRPC(s, p)
    PROVE  Origin'
<1>1. UNCHANGED <<commitIndex, lastAppliedIndex, dump, snapshot, acked>>
  BY DEF doAppendEntriesRPC, doInstallSnapshotRPC, persistent, service, history
<1>2. rf[s].lastIncludedIndex = snapshot[s]
  BY SnapshotIndex, Zenon
<1>3. PICK r : /\ Told(r)
               /\ calls' \subseteq calls \cup {r}
  <2>1. CASE doAppendEntriesRPC(s, p)
    <3> DEFINE r == AppendEntriesArgs(s, p)
    <3>1. r.stage = "AppendEntries" /\ r.LeaderCommit = commitIndex[s]
      BY DEF AppendEntriesArgs
    <3>2. calls' \subseteq calls \cup {r}
      BY <2>1 DEF doAppendEntriesRPC, Send
    <3> HIDE DEF r
    <3>3. Told(r)
      BY <3>1 DEF Told, Origin
    <3> QED
      BY <3>2, <3>3
  <2>2. CASE doInstallSnapshotRPC(s, p)
    <3>1. PICK r : /\ r.stage = "InstallSnapshot"
                   /\ r.LastIncludedIndex = rf[s].lastIncludedIndex
                   /\ calls' \subseteq calls \cup {r}
      BY <2>2, Zenon DEF doInstallSnapshotRPC, Send
    <3>2. Told(r)
      BY <1>2, <3>1 DEF Told, Origin
    <3> QED
      BY <3>1, <3>2
  <2> QED
    BY <2>1, <2>2
<1> QED
  BY <1>1, <1>3 DEF Origin, Told

\* AppendEntries commits no more than LeaderCommit, and delivers no more.
LEMMA AppendEntriesOrigin ==
    ASSUME IInv, Origin, IInv', NEW s \in Server, AppendEntries(s)
    PROVE  Origin'
<1>1. PICK m \in Arrived(s, "AppendEntries") : AppendEntries(s)!(m)
  BY Zenon DEF AppendEntries
<1> DEFINE fs == FollowerState(rf[s], m.LeaderTerm)
           r  == AppendResult(fs, m)
           st == [fs EXCEPT !.logs = r.logs]
           to == FollowTo(r, m)
<1>2. /\ rf[s].logs = <<>> => m.Entries = <<>>
      /\ \/ UNCHANGED <<commitIndex, lastAppliedIndex>>
         \/ /\ to > commitIndex[s]
            /\ commitIndex[s] + 1 >= st.lastIncludedIndex
            /\ commitIndex' = [commitIndex EXCEPT ![s] = to]
            /\ Apply(s, st, commitIndex[s] + 1, to)
      /\ Reply(m, AppendReply(m, r, m.LeaderTerm))
      /\ UNCHANGED <<snapshot, dump, acked>>
  BY <1>1 DEF history
<1>3. /\ m \in AppendEntriesCall /\ GoodCall(m) /\ m.stage = "AppendEntries"
      /\ m.LeaderTerm \in Nat /\ m.LeaderCommit \in Nat /\ Told(m)
  BY CallAtStage DEF Arrived, IInv, CallInv, GoodCall, AppendEntriesCall, Origin
<1>4. /\ Contiguous(fs) /\ fs.lastIncludedIndex = rf[s].lastIncludedIndex
      /\ fs.logs = rf[s].logs /\ fs \in RaftState
  BY <1>3, StateContiguous, FollowerContiguous DEF IInv
<1> HIDE DEF fs
<1>5. Contiguous(st)
  BY <1>2, <1>3, <1>4, AppendResultGood
<1>6. st.logs = r.logs
  BY <1>4 DEF RaftState
<1> HIDE DEF r, st
<1>7. \A q \in Server : commitIndex'[q] <= acked /\ lastAppliedIndex'[q] <= acked
  <2>1. CASE UNCHANGED <<commitIndex, lastAppliedIndex>>
    BY <2>1 DEF Origin
  <2>2. CASE /\ to > commitIndex[s]
             /\ commitIndex[s] + 1 >= st.lastIncludedIndex
             /\ commitIndex' = [commitIndex EXCEPT ![s] = to]
             /\ Apply(s, st, commitIndex[s] + 1, to)
    <3>1. commitIndex[s] \in Nat /\ commitIndex[s] + 1 \in Nat /\ acked \in Nat
      BY Counters
    <3>2. r.Success /\ r.logs # <<>>
      BY <2>2, <3>1 DEF FollowTo
    <3>3. st.logs # <<>> /\ to = Min({m.LeaderCommit, getLastLog(st).LogIndex})
      BY <1>6, <3>2 DEF FollowTo, getLastLog
    <3>4. getLastLog(st).LogIndex \in Nat
      BY <1>5, <3>3, LogPositions DEF LogEntry
    <3>5. /\ to \in Nat /\ to <= getLastLog(st).LogIndex
          /\ to <= m.LeaderCommit
      <4> DEFINE a == m.LeaderCommit
                 b == getLastLog(st).LogIndex
      <4>1. a \in Nat /\ b \in Nat /\ to = Min({a, b})
        BY <1>3, <3>3, <3>4
      <4> HIDE DEF to, a, b
      <4>2. Min({a, b}) \in {a, b} /\ Min({a, b}) <= a /\ Min({a, b}) <= b
        BY <4>1, MaxOfTwo
      <4>3. to \in Nat /\ to <= b /\ to <= a
        BY <4>1, <4>2
      <4> QED
        BY <4>3 DEF a, b
    <3> HIDE DEF to
    <3>6. to <= acked
      BY <1>3, <3>1, <3>5 DEF Told
    <3>7. /\ lastAppliedIndex' \in [Server -> Nat]
          /\ \A q \in Server : lastAppliedIndex'[q] <= lastAppliedIndex[q]
                               \/ lastAppliedIndex'[q] <= to
      BY <1>5, <2>2, <3>1, <3>3, <3>5, ApplyType DEF IInv
    <3>8. \A q \in Server : lastAppliedIndex'[q] <= acked
      <4>1. \A q \in Server : lastAppliedIndex[q] \in Nat /\ lastAppliedIndex'[q] \in Nat
        BY <3>7, Counters
      <4> QED
        BY <3>1, <3>5, <3>6, <3>7, <4>1 DEF Origin
    <3>9. \A q \in Server : commitIndex'[q] <= acked
      BY <2>2, <3>6, Counters DEF Origin
    <3> QED
      BY <3>8, <3>9
  <2> QED
    BY <1>2, <2>1, <2>2
<1>8. \A x \in calls' : x \in calls \/ SaysNothing(x)
  <2>1. SaysNothing(AppendReply(m, r, m.LeaderTerm))
    BY RepliesSayNothing
  <2> QED
    BY <1>2, <2>1, ReplyOld, Zenon
<1>9. acked <= acked'
  <2>1. acked' = acked
    BY <1>2, Zenon
  <2> QED
    BY <2>1, Counters
<1>10. \A x \in calls' : Told(x)'
  BY <1>8, <1>9, CallsTold
<1> QED
  BY <1>2, <1>7, <1>10 DEF Origin

\* A leader that has counted a majority says so.
LEMMA EntriesStoredOrigin ==
    ASSUME IInv, Origin, IInv', NEW s \in Server, EntriesStored(s)
    PROVE  Origin'
<1>1. PICK m \in Returned(s, "AppendEntriesReply") : EntriesStored(s)!(m)
  BY Zenon DEF EntriesStored
<1> DEFINE c == Committable(s, m.dst, m.lastEntry)
<1>2. /\ m.lastEntry > commitIndex[s] => Holds(rf[s], m.lastEntry)
      /\ \/ UNCHANGED <<commitIndex, lastAppliedIndex, acked>>
         \/ /\ c # {}
            /\ commitIndex[s] + 1 >= rf[s].lastIncludedIndex
            /\ commitIndex' = [commitIndex EXCEPT ![s] = Max(c)]
            /\ Apply(s, rf[s], commitIndex[s] + 1, Max(c))
            /\ acked' = Max({acked, Max(c)})
      /\ calls' = calls \ {m}
      /\ UNCHANGED <<snapshot, dump>>
  BY <1>1, Zenon DEF persistent
<1>3. m.lastEntry \in Nat
  BY AnswerType
<1>4. Contiguous(rf[s])
  BY StateContiguous DEF IInv
<1>5. CASE UNCHANGED <<commitIndex, lastAppliedIndex, acked>>
  BY <1>2, <1>5, QuietOrigin, Zenon
<1>6. CASE /\ c # {}
           /\ commitIndex[s] + 1 >= rf[s].lastIncludedIndex
           /\ commitIndex' = [commitIndex EXCEPT ![s] = Max(c)]
           /\ Apply(s, rf[s], commitIndex[s] + 1, Max(c))
           /\ acked' = Max({acked, Max(c)})
  <2> DEFINE k == Max(c)
  <2>1. k \in Nat /\ k <= m.lastEntry /\ m.lastEntry > commitIndex[s]
    BY <1>3, <1>6, CommittableRange
  <2>2. Holds(rf[s], m.lastEntry)
    BY <1>2, <2>1
  <2>3. rf[s].logs # <<>>
    BY <2>2 DEF Holds
  <2>4. m.lastEntry <= getLastLog(rf[s]).LogIndex
    <3>1. m.lastEntry \in Int
      BY <1>3
    <3>2. \A i \in Int : Holds(rf[s], i) =>
             rf[s].lastIncludedIndex <= i /\ i <= getLastLog(rf[s]).LogIndex
      BY <1>4, <2>3, LogPositions
    <3> QED
      BY <2>2, <3>1, <3>2, Zenon
  <2>5. getLastLog(rf[s]).LogIndex \in Nat
    BY <1>4, <2>3, LogPositions DEF LogEntry
  <2>6. commitIndex[s] + 1 \in Nat /\ acked \in Nat
    BY Counters
  <2> HIDE DEF c, k
  <2>7. k <= getLastLog(rf[s]).LogIndex
    BY <1>3, <2>1, <2>4, <2>5
  <2>8. acked <= acked' /\ k <= acked' /\ acked' \in Nat
    <3>1. acked \in Int /\ k \in Int /\ acked' = Max({acked, k})
      <4>1. acked' = Max({acked, k})
        BY <1>6, Zenon DEF k
      <4> QED
        BY <2>1, <2>6, <4>1
    <3>2. /\ Max({acked, k}) \in {acked, k}
          /\ Max({acked, k}) >= acked /\ Max({acked, k}) >= k
      BY <3>1, MaxOfTwo, Zenon
    <3> QED
      BY <2>1, <2>6, <3>1, <3>2
  <2>9. /\ commitIndex' = [commitIndex EXCEPT ![s] = k]
        /\ Apply(s, rf[s], commitIndex[s] + 1, k)
    BY <1>6 DEF k
  <2>10. /\ lastAppliedIndex' \in [Server -> Nat]
         /\ \A q \in Server : lastAppliedIndex'[q] <= lastAppliedIndex[q]
                              \/ lastAppliedIndex'[q] <= k
    BY <1>4, <1>6, <2>1, <2>3, <2>6, <2>7, <2>9, ApplyType DEF IInv
  <2>11. \A q \in Server : /\ commitIndex[q] \in Nat /\ lastAppliedIndex[q] \in Nat
                           /\ dump[q] \in Nat /\ snapshot[q] \in Nat
    BY Counters
  <2>12. \A q \in Server : lastAppliedIndex'[q] <= acked'
    BY <2>1, <2>6, <2>8, <2>10, <2>11 DEF Origin
  <2>13. \A q \in Server : commitIndex'[q] <= acked'
    BY <2>1, <2>6, <2>8, <2>9, <2>11, Counters DEF Origin
  <2>14. \A q \in Server : dump'[q] <= acked' /\ snapshot'[q] <= acked'
    <3>1. dump' = dump /\ snapshot' = snapshot
      BY <1>2, Zenon
    <3> QED
      BY <2>6, <2>8, <2>11, <3>1 DEF Origin
  <2>15. \A x \in calls' : Told(x)'
    BY <1>2, <2>8, CallsTold
  <2> QED
    BY <2>12, <2>13, <2>14, <2>15 DEF Origin
<1> QED
  BY <1>2, <1>5, <1>6

\* The snapshot of a leader replaces the own one.
LEMMA InstallSnapshotOrigin ==
    ASSUME IInv, Origin, IInv', NEW s \in Server, InstallSnapshot(s)
    PROVE  Origin'
<1>1. PICK m \in Arrived(s, "InstallSnapshot") : InstallSnapshot(s)!(m)
  BY Zenon DEF InstallSnapshot
<1>2. /\ \/ UNCHANGED <<snapshot, commitIndex, lastAppliedIndex>>
         \/ /\ snapshot' = [snapshot EXCEPT ![s] = m.Data]
            /\ commitIndex' = [commitIndex EXCEPT ![s] = m.LastIncludedIndex]
            /\ lastAppliedIndex' = [lastAppliedIndex EXCEPT ![s] =
                  Max({@, m.LastIncludedIndex})]
      /\ Reply(m, SnapshotReply(m))
      /\ UNCHANGED <<dump, acked>>
  BY <1>1 DEF history
<1>3. /\ m.Data = m.LastIncludedIndex /\ m.LastIncludedIndex \in Nat
      /\ m.LastIncludedIndex <= acked
  BY CallAtStage
     DEF Arrived, IInv, CallInv, GoodCall, InstallSnapshotCall, Origin, Told
<1>4. \A x \in calls' : x \in calls \/ SaysNothing(x)
  <2>1. SaysNothing(SnapshotReply(m))
    BY RepliesSayNothing
  <2> QED
    BY <1>2, <2>1, ReplyOld, Zenon
<1>5. acked <= acked' /\ acked \in Nat
  <2>1. acked' = acked
    BY <1>2, Zenon
  <2> QED
    BY <2>1, Counters
<1>6. \A x \in calls' : Told(x)'
  BY <1>4, <1>5, CallsTold
<1>7. Max({lastAppliedIndex[s], m.LastIncludedIndex}) <= acked
  <2> DEFINE a == lastAppliedIndex[s]
             b == m.LastIncludedIndex
  <2>1. a \in Nat /\ b \in Nat /\ a <= acked /\ b <= acked
    BY <1>3, Counters DEF Origin
  <2> HIDE DEF a, b
  <2>2. Max({a, b}) \in {a, b}
    BY <2>1, MaxOfTwo
  <2>3. Max({a, b}) <= acked
    BY <2>1, <2>2
  <2> QED
    BY <2>3 DEF a, b
<1>8. \A q \in Server : /\ commitIndex'[q] <= acked /\ lastAppliedIndex'[q] <= acked
                        /\ snapshot'[q] <= acked
  <2>1. CASE UNCHANGED <<snapshot, commitIndex, lastAppliedIndex>>
    BY <2>1 DEF Origin
  <2>2. CASE ~UNCHANGED <<snapshot, commitIndex, lastAppliedIndex>>
    BY <1>2, <1>3, <1>7, <2>2, Counters DEF Origin
  <2> QED
    BY <2>1, <2>2
<1> QED
  BY <1>2, <1>6, <1>8, Zenon DEF Origin

\* The service hands over what it has applied, and a restart begins with it.
LEMMA SnapshotOrigin ==
    ASSUME IInv, Origin, IInv', NEW s \in Server,
           DumpSnapshot(s) \/ TakeSnapshot(s) \/ Make(s)
    PROVE  Origin'
<1>1. UNCHANGED acked /\ acked \in Nat
  BY Counters DEF DumpSnapshot, TakeSnapshot, Make, history
<1>2. \A r \in calls' : r \in calls \/ \E m \in calls : r = Orphan(m)
  BY DEF DumpSnapshot, TakeSnapshot, Make
<1>3. \A r \in calls' : Told(r)'
  BY <1>1, <1>2, CallsTold
<1>4. disk[s].lastIncludedIndex = snapshot[s]
  BY DEF IInv, StateInv, DurableState
<1>5. \A q \in Server :
        /\ commitIndex'[q] <= acked /\ lastAppliedIndex'[q] <= acked
        /\ dump'[q] <= acked /\ snapshot'[q] <= acked
  <2>1. CASE DumpSnapshot(s)
    BY <2>1, Counters, Zenon DEF DumpSnapshot, Origin, persistent
  <2>2. CASE TakeSnapshot(s)
    <3>1. /\ UNCHANGED snapshot \/ snapshot' = [snapshot EXCEPT ![s] = dump[s]]
          /\ dump' = [dump EXCEPT ![s] = 0]
          /\ UNCHANGED <<commitIndex, lastAppliedIndex>>
      BY <2>2 DEF TakeSnapshot, persistent
    <3> QED
      BY <1>1, <3>1, Counters DEF Origin
  <2>3. CASE Make(s)
    <3>1. /\ commitIndex' = [commitIndex EXCEPT ![s] = snapshot[s]]
          /\ lastAppliedIndex' = [lastAppliedIndex EXCEPT ![s] = snapshot[s]]
          /\ dump' = [dump EXCEPT ![s] = 0] /\ snapshot' = snapshot
      BY <1>4, <2>3, Zenon DEF Make
    <3> QED
      BY <1>1, <3>1, Counters DEF Origin
  <2> QED
    BY <2>1, <2>2, <2>3, Zenon
<1> QED
  BY <1>1, <1>3, <1>5 DEF Origin

-----------------------------------------------------------------------------
(* Leaders.                                                                *)

\* The second half: the goroutine of s for p is in its loop, or waits for a call.
Looping(s, p) == beats[s][p].top + beats[s][p].append + beats[s][p].snap > 0

IsWait(m, s, p) ==
    m.src = s /\ m.dst = p /\ m.waiting /\ m.stage \notin VoteStages

Waiting(s, p) == \E m \in calls : IsWait(m, s, p)

Replicating ==
    \A s \in Server : role[s] = LEADER =>
        \A p \in Server \ {s} : Looping(s, p) \/ Waiting(s, p)

\* The calls that goroutines wait for are still there.
WaitsKept == \A a, b \in Server : Waiting(a, b) => Waiting(a, b)'

\* A step in which nobody becomes a leader, no goroutine moves and no call that
\* is waited for ends.
LEMMA QuietReplicating ==
    ASSUME Replicating, UNCHANGED beats, WaitsKept,
           \A a \in Server : role'[a] = LEADER => role[a] = LEADER
    PROVE  Replicating'
  BY DEF Replicating, WaitsKept, Looping

\* While calls are only added, whoever waits keeps waiting.
LEMMA SameWaits == calls \subseteq calls' => WaitsKept
  BY DEF WaitsKept, Waiting, IsWait

\* Giving up calls of an election takes no replication call away.
LEMMA AbandonWaits == ASSUME NEW s, NEW id, Abandon(s, id) PROVE WaitsKept
  BY DEF WaitsKept, Waiting, IsWait, Abandon

\* A reply takes the place of the call.
LEMMA ReplyWaits ==
    ASSUME NEW m, NEW r, Reply(m, r), r.src = m.src, r.dst = m.dst,
           r.waiting = TRUE, m.stage \in VoteStages \/ r.stage \notin VoteStages
    PROVE  WaitsKept
  BY Zenon DEF WaitsKept, Waiting, IsWait, Reply

\* becomeFollower makes nobody a leader.
LEMMA FollowerRole ==
    ASSUME RestInv, NEW s \in Server, becomeFollower(s)
    PROVE  \A a \in Server : role'[a] = LEADER => role[a] = LEADER
  BY DEF RestInv, becomeFollower, FOLLOWER, LEADER

\* Only the goroutine of s for p moves.
LEMMA OneBeat ==
    ASSUME beats \in [Server -> [Server -> Beat]], NEW s \in Server, NEW p \in Server,
           NEW b, beats' = [beats EXCEPT ![s][p] = b]
    PROVE  /\ beats'[s][p] = b
           /\ \A x, y \in Server : <<x, y>> # <<s, p>> => beats'[x][y] = beats[x][y]
  OBVIOUS

\* A goroutine that moves is still one goroutine.
LEMMA MovedSum ==
    ASSUME NEW b \in Beat, NEW i \in Int, NEW j \in Int, NEW k \in Int
    PROVE  LET c == Moved(b, i, j, k)
           IN  c.top + c.append + c.snap = b.top + b.append + b.snap + i + j + k
  BY DEF Moved, Beat

\* The goroutine that leaves the top of its loop is on its way to a call.
LEMMA MovedOn ==
    ASSUME NEW b \in Beat, NEW c, b.top > 0,
           c = Moved(b, -1, 0, 1) \/ c = Moved(b, -1, 1, 0)
    PROVE  c.top + c.append + c.snap > 0
<1>1. b.top \in Nat /\ b.append \in Nat /\ b.snap \in Nat
  BY DEF Beat
<1>2. c.top + c.append + c.snap = b.top + b.append + b.snap
  BY <1>1, MovedSum
<1> QED
  BY <1>1, <1>2

\* The goroutine of s for p is back at the top of its loop; its call is gone.
LEMMA ReturnReplicating ==
    ASSUME RestInv, Replicating, NEW s \in Server, NEW p \in Server, Return(s, p),
           \A a, b \in Server : <<a, b>> # <<s, p>> =>
             (Waiting(a, b) => Waiting(a, b)'),
           \A a \in Server : role'[a] = LEADER => role[a] = LEADER
    PROVE  Replicating'
<1>1. beats \in [Server -> [Server -> Beat]]
  BY DEF RestInv, Beat
<1>2. Looping(s, p)'
  <2>1. beats'[s][p] = Moved(beats[s][p], 1, 0, 0) /\ beats[s][p] \in Beat
    BY <1>1, OneBeat DEF Return
  <2>2. beats'[s][p].top + beats'[s][p].append + beats'[s][p].snap > 0
    BY <2>1, MovedSum DEF Beat
  <2> QED
    BY <2>2 DEF Looping
<1>3. \A a, b \in Server : <<a, b>> # <<s, p>> => beats'[a][b] = beats[a][b]
  BY <1>1, OneBeat DEF Return
<1> QED
  BY <1>2, <1>3 DEF Replicating, Looping

\* A call that ends ends the waiting of its own caller only.
LEMMA DropWaits ==
    ASSUME NEW m, calls \ {m} \subseteq calls', NEW a, NEW b,
           <<a, b>> # <<m.src, m.dst>>, Waiting(a, b)
    PROVE  Waiting(a, b)'
  BY DEF Waiting, IsWait

\* Elections, up to the victory.
LEMMA ElectionReplicating ==
    ASSUME IInv, Replicating, NEW s \in Server,
           \/ TimeOutToElection(s) \/ QuitElection(s) \/ StartElection(s)
           \/ TimerHeartBeat(s) \/ ElectionTicker(s) \/ ElectionHeartBeat(s)
           \/ \E p \in Server : sendRequestVote(s, p)
           \/ \E p \in Server : resendRequestVote(s, p)
           \/ RequestVote(s) \/ RequestVoteGrant(s)
           \/ CountVote(s) \/ VoteRefused(s) \/ LoseElection(s)
    PROVE  Replicating'
<1>1. CASE StartElection(s) \/ ElectionTicker(s)
  <2>1. \A a \in Server : role'[a] = LEADER => role[a] = LEADER
    BY <1>1, Zenon DEF StartElection, ElectionTicker, Round, IInv, RestInv, CANDICATE, LEADER
  <2>2. UNCHANGED beats /\ (UNCHANGED calls \/ \E id : Abandon(s, id))
    BY <1>1, Zenon DEF StartElection, ElectionTicker
  <2> QED
    BY <2>1, <2>2, SameWaits, AbandonWaits, QuietReplicating, Zenon
<1>2. CASE \/ TimeOutToElection(s) \/ QuitElection(s) \/ TimerHeartBeat(s)
           \/ \E p \in Server : sendRequestVote(s, p)
           \/ \E p \in Server : resendRequestVote(s, p)
  BY <1>2, SameWaits, QuietReplicating, Zenon
     DEF TimeOutToElection, QuitElection, TimerHeartBeat, sendRequestVote,
         resendRequestVote, Send
<1>3. CASE ElectionHeartBeat(s) \/ LoseElection(s)
  BY <1>3, AbandonWaits, FollowerRole, QuietReplicating, Zenon
     DEF ElectionHeartBeat, LoseElection, IInv
<1>4. CASE CountVote(s) \/ VoteRefused(s)
  <2>1. PICK m \in Returned(s, "RequestVoteReply") :
          calls' = calls \ {m} /\ UNCHANGED <<beats, role>>
    BY <1>4, Zenon DEF CountVote, VoteRefused
  <2>2. m.stage \in VoteStages
    BY DEF Returned, VoteStages
  <2>3. WaitsKept
    BY <2>1, <2>2, Zenon DEF WaitsKept, Waiting, IsWait
  <2> QED
    BY <2>1, <2>3, QuietReplicating
<1>5. CASE RequestVote(s)
  <2>1. PICK m \in Arrived(s, "RequestVote") : RequestVote(s)!(m)
    BY <1>5, Zenon DEF RequestVote
  <2>2. m.stage \in VoteStages
    BY DEF Arrived, VoteStages
  <2>3. calls \ {m} \subseteq calls' /\ UNCHANGED beats
    BY <2>1, Zenon DEF Reply
  <2>4. becomeFollower(s) \/ UNCHANGED role
    BY <2>1, Zenon
  <2>5. WaitsKept
    BY <2>2, <2>3, Zenon DEF WaitsKept, Waiting, IsWait
  <2> QED
    BY <2>3, <2>4, <2>5, FollowerRole, QuietReplicating DEF IInv
<1>6. CASE RequestVoteGrant(s)
  <2>1. PICK m \in Arrived(s, "voting") :
          calls \ {m} \subseteq calls' /\ UNCHANGED <<beats, role>>
    BY <1>6, Zenon DEF RequestVoteGrant, Reply
  <2>2. m.stage \in VoteStages
    BY DEF Arrived, VoteStages
  <2>3. WaitsKept
    BY <2>1, <2>2, Zenon DEF WaitsKept, Waiting, IsWait
  <2> QED
    BY <2>1, <2>3, QuietReplicating
<1> QED
  BY <1>1, <1>2, <1>3, <1>4, <1>5, <1>6

\* becomeLeader starts a goroutine for every other peer.
LEMMA WinElectionReplicating ==
    ASSUME IInv, Replicating, NEW s \in Server, WinElection(s)
    PROVE  Replicating'
<1>1. /\ role' = [role EXCEPT ![s] = LEADER]
      /\ beats' = [beats EXCEPT ![s] = Spawned(s)]
      /\ \E id : Abandon(s, id)
  BY Zenon DEF WinElection, becomeLeader
<1>2. beats \in [Server -> [Server -> Beat]] /\ role \in [Server -> {FOLLOWER, CANDICATE, LEADER}]
  BY DEF IInv, RestInv, Beat
<1>3. ASSUME NEW p \in Server \ {s}
      PROVE  Looping(s, p)'
  <2>1. /\ beats[s][p] \in Beat
        /\ beats'[s][p] = [beats[s][p] EXCEPT !.top = beats[s][p].top + 1]
    BY <1>1, <1>2 DEF Spawned
  <2>2. beats'[s][p].top + beats'[s][p].append + beats'[s][p].snap > 0
    BY <2>1 DEF Beat
  <2> QED
    BY <2>2 DEF Looping
<1>4. ASSUME NEW a \in Server, a # s, role'[a] = LEADER, NEW p \in Server \ {a}
      PROVE  Looping(a, p)' \/ Waiting(a, p)'
  <2>1. role[a] = LEADER /\ beats'[a] = beats[a]
    BY <1>1, <1>2, <1>4
  <2>2. WaitsKept
    BY <1>1, AbandonWaits
  <2> QED
    BY <2>1, <2>2 DEF Replicating, WaitsKept, Looping
<1> QED
  BY <1>3, <1>4, Zenon DEF Replicating

\* The goroutines of a leader move on; those of others may end.
LEMMA BeatReplicating ==
    ASSUME IInv, Replicating, NEW s \in Server, NEW p \in Server,
           \/ HeartBeatToServer(s, p) \/ doAppendEntriesRPC(s, p)
           \/ doInstallSnapshotRPC(s, p)
    PROVE  Replicating'
<1>1. /\ beats \in [Server -> [Server -> Beat]]
      /\ UNCHANGED role
  BY Zenon DEF IInv, RestInv, Beat, HeartBeatToServer, doAppendEntriesRPC,
         doInstallSnapshotRPC
<1>2. WaitsKept
  BY SameWaits, Zenon DEF HeartBeatToServer, doAppendEntriesRPC, doInstallSnapshotRPC, Send
<1>3. \A a, b \in Server : <<a, b>> # <<s, p>> => beats'[a][b] = beats[a][b]
  <2>1. \E b : beats' = [beats EXCEPT ![s][p] = b]
    BY Zenon DEF HeartBeatToServer, doAppendEntriesRPC, doInstallSnapshotRPC
  <2> QED
    BY <1>1, <2>1, OneBeat
<1>4. role[s] = LEADER => Looping(s, p)' \/ Waiting(s, p)'
  <2>1. beats[s][p] \in Beat
    BY <1>1
  <2>2. CASE HeartBeatToServer(s, p)
    <3>1. beats[s][p].top > 0
      BY <2>2, Zenon DEF HeartBeatToServer
    <3>2. ASSUME role[s] = LEADER
          PROVE  \/ beats'[s][p] = Moved(beats[s][p], -1, 0, 1)
                 \/ beats'[s][p] = Moved(beats[s][p], -1, 1, 0)
      <4>1. \/ beats' = [beats EXCEPT ![s][p] = Moved(beats[s][p], -1, 0, 1)]
            \/ beats' = [beats EXCEPT ![s][p] = Moved(beats[s][p], -1, 1, 0)]
        BY <2>2, <3>2, Zenon DEF HeartBeatToServer
      <4> QED
        BY <1>1, <4>1, OneBeat
    <3>3. ASSUME role[s] = LEADER
          PROVE  beats'[s][p].top + beats'[s][p].append + beats'[s][p].snap > 0
      BY <2>1, <3>1, <3>2, <3>3, MovedOn, Zenon
    <3> QED
      BY <3>3, Zenon DEF Looping
  <2>3. CASE doAppendEntriesRPC(s, p)
    <3>1. CASE beats' = [beats EXCEPT ![s][p] = Moved(@, 1, -1, 0)]
      <4>1. beats'[s][p] = Moved(beats[s][p], 1, -1, 0)
        BY <1>1, <3>1, OneBeat
      <4>a. beats[s][p].append > 0
        BY <2>3, Zenon DEF doAppendEntriesRPC
      <4>2. beats'[s][p].top + beats'[s][p].append + beats'[s][p].snap > 0
        BY <2>1, <4>1, <4>a, MovedSum DEF Beat
      <4> QED
        BY <4>2 DEF Looping
    <3>2. CASE Send(AppendEntriesArgs(s, p))
      <4>1. IsWait(AppendEntriesArgs(s, p), s, p)
        BY Zenon DEF IsWait, AppendEntriesArgs, VoteStages
      <4> QED
        BY <3>2, <4>1 DEF Waiting, Send
    <3> QED
      BY <2>3, <3>1, <3>2, Zenon DEF doAppendEntriesRPC
  <2>4. CASE doInstallSnapshotRPC(s, p)
    <3> DEFINE r == [stage |-> "InstallSnapshot", src |-> s, dst |-> p, id |-> 0,
                     waiting |-> TRUE, Term |-> rf[s].currentTerm,
                     LastIncludedIndex |-> rf[s].lastIncludedIndex,
                     LastIncludedTerm |-> rf[s].lastIncludedTerm,
                     LastIncludedCmdIndex |-> rf[s].lastIncludedCmdIndex,
                     Data |-> snapshot[s]]
    <3>1. calls' = calls \cup {r}
      BY <2>4, Zenon DEF doInstallSnapshotRPC, Send
    <3>2. r.src = s /\ r.dst = p /\ r.waiting = TRUE /\ r.stage = "InstallSnapshot"
      BY Zenon
    <3> HIDE DEF r
    <3>3. IsWait(r, s, p)
      BY <3>2 DEF IsWait, VoteStages
    <3> QED
      BY <3>1, <3>3 DEF Waiting
  <2> QED
    BY <2>2, <2>3, <2>4
<1> QED
  BY <1>1, <1>2, <1>3, <1>4, Zenon DEF Replicating, WaitsKept, Looping

\* A handler answers; the caller goes on waiting.
LEMMA HandlerReplicating ==
    ASSUME IInv, Replicating, NEW s \in Server,
           \/ RejectEntries(s) \/ AppendEntries(s)
           \/ RejectSnapshot(s) \/ InstallSnapshot(s)
    PROVE  Replicating'
<1>1. UNCHANGED beats
  BY Zenon DEF RejectEntries, AppendEntries, RejectSnapshot, InstallSnapshot
<1>2. UNCHANGED role \/ becomeFollower(s)
  BY Zenon DEF RejectEntries, AppendEntries, RejectSnapshot, InstallSnapshot
<1>3. PICK m, r : /\ Reply(m, r) /\ r.src = m.src /\ r.dst = m.dst
                  /\ r.waiting = TRUE /\ r.stage \notin VoteStages
  <2>1. CASE RejectEntries(s) \/ AppendEntries(s)
    <3>1. PICK m, a, b : Reply(m, AppendReply(m, a, b))
      BY <2>1, Zenon DEF RejectEntries, AppendEntries
    <3>2. LET r == AppendReply(m, a, b)
          IN  /\ r.src = m.src /\ r.dst = m.dst /\ r.waiting = TRUE
              /\ r.stage \notin VoteStages
      BY Zenon DEF AppendReply, VoteStages
    <3> QED
      BY <3>1, <3>2, Zenon
  <2>2. CASE RejectSnapshot(s) \/ InstallSnapshot(s)
    <3>1. PICK m : Reply(m, SnapshotReply(m))
      BY <2>2, Zenon DEF RejectSnapshot, InstallSnapshot
    <3>2. LET r == SnapshotReply(m)
          IN  /\ r.src = m.src /\ r.dst = m.dst /\ r.waiting = TRUE
              /\ r.stage \notin VoteStages
      BY Zenon DEF SnapshotReply, VoteStages
    <3> QED
      BY <3>1, <3>2, Zenon
  <2> QED
    BY <2>1, <2>2, Zenon
<1>4. WaitsKept
  BY <1>3, ReplyWaits, Zenon
<1> QED
  BY <1>1, <1>2, <1>4, FollowerRole, QuietReplicating DEF IInv

\* The answer is read, and the goroutine loops.
LEMMA AnsweredReplicating ==
    ASSUME IInv, Replicating, NEW s \in Server,
           \/ HigherTermReply(s) \/ StaleReply(s) \/ EntriesStored(s)
           \/ HeartBeatReply(s) \/ LogConflict(s) \/ InstallSnapshotReply(s)
    PROVE  Replicating'
<1>1. PICK m \in calls : /\ m.src = s /\ calls' = calls \ {m} /\ Return(s, m.dst)
  BY Zenon DEF HigherTermReply, StaleReply, EntriesStored, HeartBeatReply, LogConflict,
         InstallSnapshotReply, Returned
<1>2. UNCHANGED role \/ becomeFollower(s)
  BY Zenon DEF HigherTermReply, StaleReply, EntriesStored, HeartBeatReply, LogConflict,
         InstallSnapshotReply
<1>3. \A a \in Server : role'[a] = LEADER => role[a] = LEADER
  BY <1>2, FollowerRole DEF IInv
<1>4. m.dst \in Server
  BY CallAtStage, Zenon DEF IInv, CallInv, GoodCall
<1>5. \A a, b \in Server : <<a, b>> # <<s, m.dst>> =>
        (Waiting(a, b) => Waiting(a, b)')
  BY <1>1, DropWaits
<1> QED
  BY <1>1, <1>3, <1>4, <1>5, ReturnReplicating, Zenon DEF IInv

\* So it does when the call fails or times out.
LEMMA NetworkReplicating ==
    ASSUME IInv, Replicating, NEW s \in Server, CallTimeOut(s) \/ Lose(s)
    PROVE  Replicating'
<1>1. PICK m \in calls : calls \ {m} \subseteq calls' /\ Resume(m) /\ UNCHANGED role
  BY DEF CallTimeOut, Lose
<1>2. m.src \in Server /\ m.dst \in Server
  BY CallAtStage DEF IInv, CallInv, GoodCall
<1>3. \A a, b \in Server : <<a, b>> # <<m.src, m.dst>> =>
        (Waiting(a, b) => Waiting(a, b)')
  BY <1>1, DropWaits
<1>4. CASE m.waiting /\ m.stage \notin VoteStages
  BY <1>1, <1>2, <1>3, <1>4, ReturnReplicating, Zenon DEF Resume, IInv
<1>5. CASE ~(m.waiting /\ m.stage \notin VoteStages)
  <2>1. WaitsKept
    BY <1>1, <1>5 DEF WaitsKept, Waiting, IsWait
  <2> QED
    BY <1>1, <1>5, <2>1, QuietReplicating DEF Resume
<1> QED
  BY <1>4, <1>5

\* A restart ends the goroutines of one peer, which is a follower then.
LEMMA MakeReplicating ==
    ASSUME IInv, Replicating, NEW s \in Server, Make(s)
    PROVE  Replicating'
<1>1. /\ role'[s] # LEADER
      /\ \A a \in Server \ {s} : role'[a] = role[a] /\ beats'[a] = beats[a]
  BY Zenon DEF Make, IInv, RestInv, FOLLOWER, LEADER
<1>2. ASSUME NEW a \in Server \ {s}, NEW b \in Server, Waiting(a, b)
      PROVE  Waiting(a, b)'
  <2>1. PICK m \in calls : IsWait(m, a, b)
    BY <1>2 DEF Waiting
  <2>2. m.src # s /\ m.stage # "voting"
    BY <2>1 DEF IsWait, VoteStages
  <2>3. m \in calls'
    BY <2>2 DEF Make
  <2> QED
    BY <2>1, <2>3 DEF Waiting
<1> QED
  BY <1>1, <1>2 DEF Replicating, Looping

-----------------------------------------------------------------------------
(* Votes.                                                                  *)

\* The requests for votes whose answers a StartElection loop may still read.
Pending == {m \in calls : /\ m.stage \in VoteStages
                          /\ m.waiting \/ m.stage = "RequestVoteReply"}

\* Such a request belongs to the round its loop is in, which has no answer of that
\* voter yet; and if it carries a vote, the voter has given it for that term.
Answerable(m) ==
    /\ m.waiting /\ m.dst # m.src
    /\ m.stage = "RequestVoteReply" =>
         (m.VoteGranted => <<m.dst, m.src, m.CandicateTerm>> \in ballots)
    /\ \E e \in elections : /\ e.cand = m.src /\ e.id = m.id
                            /\ e.term = m.CandicateTerm /\ m.dst \notin e.answered

\* The same loop asks the same voter.
Asks(m, n) == m.src = n.src /\ m.id = n.id /\ m.dst = n.dst

\* The votes that a loop has counted are votes of others for the term of its round.
Counted(e) ==
    /\ e.granted \subseteq e.answered /\ e.cand \notin e.granted
    /\ \A v \in e.granted : <<v, e.cand, e.term>> \in ballots

\* No vote is counted twice, for another round, or without having been given.
VoteInv ==
    /\ \A m \in Pending : Answerable(m)
    /\ \A m, n \in Pending : Asks(m, n) => m = n
    /\ \A e \in elections : Counted(e)
    /\ \A e, f \in elections : e.cand = f.cand /\ e.id = f.id => e = f

\* A call that has lost its caller.
LEMMA OrphanEnds ==
    ASSUME CallInv, NEW m \in calls
    PROVE  Orphan(m).stage = m.stage /\ ~Orphan(m).waiting
<1>1. GoodCall(m)
  BY DEF CallInv
<1>2. Orphan(m).stage = m.stage /\ Orphan(m).waiting = FALSE
  BY <1>1, OrphanStage, Zenon
<1> QED
  BY <1>2

\* Calls that are gone, are of another kind or have lost their caller.
LEMMA FewerPending ==
    ASSUME CallInv,
           \A r \in calls' :
              \/ r \in calls \/ r.stage \notin VoteStages
              \/ \E m \in calls : r = Orphan(m) /\ m.stage # "RequestVoteReply"
    PROVE  Pending' \subseteq Pending
<1> SUFFICES ASSUME NEW r \in Pending' PROVE r \in Pending
  OBVIOUS
<1>1. /\ r \in calls' /\ r.stage \in VoteStages
      /\ r.waiting \/ r.stage = "RequestVoteReply"
  BY DEF Pending
<1>2. ASSUME NEW m \in calls, r = Orphan(m), m.stage # "RequestVoteReply" PROVE FALSE
  BY <1>1, <1>2, OrphanEnds, Zenon
<1> QED
  BY <1>1, <1>2, Zenon DEF Pending

\* Loops that end, and no request of theirs that is still pending.
LEMMA LoopsEnd ==
    ASSUME VoteInv, Pending' \subseteq Pending, elections' \subseteq elections,
           UNCHANGED ballots,
           \A m \in Pending' : \A e \in elections :
              e.cand = m.src /\ e.id = m.id => e \in elections'
    PROVE  VoteInv'
<1>1. \A m \in Pending' : Answerable(m)'
  BY Zenon DEF VoteInv, Answerable
<1>2. \A m, n \in Pending' : Asks(m, n) => m = n
  BY Zenon DEF VoteInv
<1>3. \A e \in elections' : Counted(e)'
  BY Zenon DEF VoteInv, Counted
<1> QED
  BY <1>1, <1>2, <1>3, Zenon DEF VoteInv, Asks

\* A loop that begins a round has counted nothing and asked nobody.
LEMMA LoopBegins ==
    ASSUME VoteInv, Pending' \subseteq Pending, UNCHANGED ballots,
           NEW s, NEW id, NEW n, elections' = Others(s, id) \cup {n},
           n.cand = s, n.id = id, n.answered = {}, n.granted = {},
           \A m \in Pending' : ~(m.src = s /\ m.id = id)
    PROVE  VoteInv'
<1>1. \A e \in elections' : e = n \/ (e \in elections /\ ~(e.cand = s /\ e.id = id))
  BY Zenon DEF Others
<1>2. ASSUME NEW m \in Pending' PROVE Answerable(m)'
  <2>1. Answerable(m) /\ ~(m.src = s /\ m.id = id)
    BY Zenon DEF VoteInv
  <2>2. PICK e \in elections : /\ e.cand = m.src /\ e.id = m.id
                               /\ e.term = m.CandicateTerm /\ m.dst \notin e.answered
    BY <2>1, Zenon DEF Answerable
  <2>3. e \in elections'
    BY <2>1, <2>2, Zenon DEF Others
  <2> QED
    BY <2>1, <2>2, <2>3, Zenon DEF Answerable
<1>3. \A m, k \in Pending' : Asks(m, k) => m = k
  BY Zenon DEF VoteInv
<1>4. Counted(n)'
  BY DEF Counted
<1>5. \A e \in elections' : Counted(e)'
  BY <1>1, <1>4, Zenon DEF VoteInv, Counted
<1>6. ASSUME NEW e \in elections', NEW f \in elections', e.cand = f.cand, e.id = f.id
      PROVE  e = f
  <2>1. CASE e = n
    BY <1>1, <1>6, <2>1, Zenon
  <2>2. CASE e # n
    BY <1>1, <1>6, <2>2, Zenon DEF VoteInv
  <2> QED
    BY <2>1, <2>2
<1> QED
  BY <1>2, <1>3, <1>5, <1>6, Zenon DEF VoteInv, Asks

\* A loop that gives up a round leaves no request of it pending.
LEMMA AbandonPending ==
    ASSUME CallInv, NEW s, NEW id, Abandon(s, id)
    PROVE  /\ Pending' \subseteq Pending
           /\ \A m \in Pending' : ~(m.src = s /\ m.id = id)
<1> DEFINE own == {m \in calls : m.stage \in VoteStages /\ m.src = s /\ m.id = id}
<1>1. \A r \in calls' : \/ r \in calls \ own
                        \/ \E m \in calls : r = Orphan(m) /\ m.stage # "RequestVoteReply"
  BY Zenon DEF Abandon
<1>2. ASSUME NEW r \in Pending' PROVE r \in calls \ own
  <2>1. /\ r \in calls' /\ r.stage \in VoteStages
        /\ r.waiting \/ r.stage = "RequestVoteReply"
    BY DEF Pending
  <2>2. ASSUME NEW m \in calls, r = Orphan(m), m.stage # "RequestVoteReply" PROVE FALSE
    BY <2>1, <2>2, OrphanEnds, Zenon
  <2> QED
    BY <1>1, <2>1, <2>2, Zenon
<1>3. \A r \in Pending' : /\ r.stage \in VoteStages
                          /\ r.waiting \/ r.stage = "RequestVoteReply"
  BY DEF Pending
<1> QED
  BY <1>2, <1>3, Zenon DEF Pending

\* One more request, to a voter that the loop is not asking.
LEMMA OneMorePending ==
    ASSUME VoteInv, UNCHANGED <<elections, ballots>>, NEW m, NEW e \in elections,
           calls' = calls \cup {m}, m.stage = "RequestVote", m.waiting,
           m.src = e.cand, m.id = e.id, m.CandicateTerm = e.term,
           m.dst # m.src, m.dst \notin e.answered,
           \A c \in calls : ~(/\ c.stage \in VoteStages /\ c.waiting
                              /\ c.src = m.src /\ c.id = m.id /\ c.dst = m.dst)
    PROVE  VoteInv'
<1>1. \A x \in Pending' : x = m \/ x \in Pending
  BY Zenon DEF Pending
<1>2. Answerable(m)'
  BY DEF Answerable
<1>3. \A x \in Pending' : Answerable(x)'
  <2>1. \A x \in Pending : Answerable(x) /\ (Answerable(x) => Answerable(x)')
    BY Zenon DEF VoteInv, Answerable
  <2> QED
    BY <1>1, <1>2, <2>1, Zenon
<1>4. \A x \in Pending : ~Asks(x, m)
  BY Zenon DEF VoteInv, Answerable, Pending, Asks
<1>5. \A x, y \in Pending' : Asks(x, y) => x = y
  <2>1. \A x \in Pending : ~Asks(m, x)
    BY <1>4, Zenon DEF Asks
  <2> HIDE DEF Asks
  <2> QED
    BY <1>1, <1>4, <2>1, Zenon DEF VoteInv
<1>6. \A x \in elections' : Counted(x)'
  BY Zenon DEF VoteInv, Counted
<1> QED
  BY <1>3, <1>5, <1>6, Zenon DEF VoteInv, Asks

\* A request goes to its next stage, with its vote if it got one.
LEMMA NextStage ==
    ASSUME VoteInv, UNCHANGED elections, ballots \subseteq ballots',
           NEW m \in calls, m.stage \in VoteStages, NEW r,
           \A x \in calls' : x = r \/ x \in calls \ {m},
           r.stage \in VoteStages, Asks(r, m), r.CandicateTerm = m.CandicateTerm,
           r \in Pending' => m.waiting /\ r.waiting,
           r.stage = "RequestVoteReply" =>
              (r.VoteGranted => <<r.dst, r.src, r.CandicateTerm>> \in ballots')
    PROVE  VoteInv'
<1>1. \A x \in Pending' : (x = r /\ m \in Pending) \/ (x \in Pending /\ x # m)
  BY Zenon DEF Pending
<1>2. ASSUME m \in Pending, r \in Pending' PROVE Answerable(r)'
  <2>1. Answerable(m)
    BY <1>2 DEF VoteInv
  <2>2. r.src = m.src /\ r.id = m.id /\ r.dst = m.dst
    BY DEF Asks
  <2>3. \E e \in elections' : /\ e.cand = r.src /\ e.id = r.id
                              /\ e.term = r.CandicateTerm /\ r.dst \notin e.answered
    BY <2>1, <2>2, Zenon DEF Answerable
  <2>4. r.waiting /\ r.dst # r.src
    BY <1>2, <2>1, <2>2, Zenon DEF Answerable
  <2> QED
    BY <2>3, <2>4 DEF Answerable
<1>3. \A x \in Pending' : Answerable(x)'
  BY <1>1, <1>2, Zenon DEF VoteInv, Answerable
<1>4. ASSUME NEW x \in Pending', NEW y \in Pending', Asks(x, y) PROVE x = y
  <2>1. ASSUME NEW z \in Pending, z # m, m \in Pending PROVE ~Asks(z, r) /\ ~Asks(r, z)
    BY <2>1, Zenon DEF VoteInv, Asks
  <2> QED
    BY <1>1, <1>4, <2>1, Zenon DEF VoteInv
<1>5. \A x \in elections' : Counted(x)'
  BY Zenon DEF VoteInv, Counted
<1> QED
  BY <1>3, <1>4, <1>5, Zenon DEF VoteInv, Asks

\* A loop reads an answer, and counts it if it is a vote.
LEMMA AnswerRead ==
    ASSUME VoteInv, UNCHANGED ballots, NEW e \in elections, NEW m \in Pending,
           m.src = e.cand, m.id = e.id, calls' = calls \ {m},
           NEW f, elections' = (elections \ {e}) \cup {f},
           f.cand = e.cand, f.id = e.id, f.term = e.term,
           f.answered = e.answered \cup {m.dst},
           \/ f.granted = e.granted
           \/ /\ f.granted = e.granted \cup {m.dst}
              /\ m.stage = "RequestVoteReply" /\ m.VoteGranted
    PROVE  VoteInv'
<1>1. \A x \in Pending' : x \in Pending /\ x # m
  BY Zenon DEF Pending
<1>2. Answerable(m) /\ Counted(e)
  BY Zenon DEF VoteInv
<1>3. m.CandicateTerm = e.term
  <2>1. PICK g \in elections : g.cand = m.src /\ g.id = m.id /\ g.term = m.CandicateTerm
    BY <1>2, Zenon DEF Answerable
  <2>2. g = e
    BY <2>1, Zenon DEF VoteInv
  <2> QED
    BY <2>1, <2>2
<1>4. ASSUME NEW x \in Pending' PROVE Answerable(x)'
  <2>1. Answerable(x) /\ x # m
    BY <1>1, Zenon DEF VoteInv
  <2>2. PICK g \in elections : /\ g.cand = x.src /\ g.id = x.id
                               /\ g.term = x.CandicateTerm /\ x.dst \notin g.answered
    BY <2>1, Zenon DEF Answerable
  <2>3. ASSUME g = e PROVE x.dst # m.dst
    <3>1. x.dst = m.dst => Asks(x, m)
      BY <2>2, <2>3, Zenon DEF Asks
    <3>2. x \in Pending /\ (Asks(x, m) => x = m)
      BY <1>1, Zenon DEF VoteInv
    <3> QED
      BY <2>1, <3>1, <3>2, Zenon
  <2>4. \E h \in elections' : /\ h.cand = x.src /\ h.id = x.id
                              /\ h.term = x.CandicateTerm /\ x.dst \notin h.answered
    <3>1. CASE g = e
      BY <2>2, <2>3, <3>1, Zenon
    <3>2. CASE g # e
      BY <2>2, <3>2, Zenon
    <3> QED
      BY <3>1, <3>2
  <2> QED
    BY <2>1, <2>4, Zenon DEF Answerable
<1>5. \A x, y \in Pending' : Asks(x, y) => x = y
  BY <1>1, Zenon DEF VoteInv
<1>6. Counted(f)'
  <2>1. m.dst # f.cand /\ \A v \in f.granted : v \in e.granted \/ v = m.dst
    BY <1>2, Zenon DEF Answerable
  <2>2. \A v \in f.granted : <<v, f.cand, f.term>> \in ballots
    BY <1>2, <1>3, <2>1, Zenon DEF Answerable, Counted
  <2>3. f.granted \subseteq f.answered /\ f.cand \notin f.granted
    BY <1>2, <2>1, Zenon DEF Counted
  <2> QED
    BY <2>2, <2>3, Zenon DEF Counted
<1>7. \A x \in elections' : Counted(x)'
  BY <1>6, Zenon DEF VoteInv, Counted
<1>8. ASSUME NEW x \in elections', NEW y \in elections', x.cand = y.cand, x.id = y.id
      PROVE  x = y
  <2>1. \A z \in elections' :
           \/ z = f
           \/ z \in elections /\ ~(z.cand = e.cand /\ z.id = e.id)
    BY Zenon DEF VoteInv
  <2>2. CASE x = f
    BY <1>8, <2>1, <2>2, Zenon
  <2>3. CASE x # f
    BY <1>8, <2>1, <2>3, Zenon DEF VoteInv
  <2> QED
    BY <2>2, <2>3
<1> QED
  BY <1>4, <1>5, <1>7, <1>8, Zenon DEF VoteInv, Asks

\* A new round: no request of an earlier round of that loop is pending.
LEMMA RoundVotes ==
    ASSUME VoteInv, RestInv, NEW s \in Server, NEW id, Round(s, id),
           Pending' \subseteq Pending, \A m \in Pending' : ~(m.src = s /\ m.id = id),
           UNCHANGED ballots
    PROVE  VoteInv'
<1>1. CASE elections' = Others(s, id)
  BY <1>1, LoopsEnd, Zenon DEF Others
<1>2. ASSUME NEW n, elections' = Others(s, id) \cup {n},
             n.cand = s, n.id = id, n.answered = {}, n.granted = {}
      PROVE  VoteInv'
  BY <1>2, LoopBegins
<1>3. \A n, t, i, l :
         n = [cand |-> s, id |-> id, term |-> t, LastLogIndex |-> i, LastLogTerm |-> l,
              answered |-> {}, granted |-> {}, higher |-> 0]
         => n.cand = s /\ n.id = id /\ n.answered = {} /\ n.granted = {}
  OBVIOUS
<1>4. CASE elections' # Others(s, id)
  BY <1>2, <1>3, <1>4, Zenon DEF Round
<1> QED
  BY <1>1, <1>4

\* The loop that starts has a number of its own.
LEMMA StartElectionVotes ==
    ASSUME VoteInv, IInv, NEW s \in Server, StartElection(s)
    PROVE  VoteInv'
<1>1. PICK id : id = Min(FreeIds(s))
  OBVIOUS
<1>2. FreeIds(s) # {} /\ Round(s, id) /\ UNCHANGED <<calls, ballots>>
  BY <1>1, Zenon DEF StartElection, history
<1>3. id \in FreeIds(s)
  <2>1. FreeIds(s) \in SUBSET Nat
    BY ConstantsAssumption DEF FreeIds
  <2> QED
    BY <1>1, <1>2, <2>1, MinOfNats
<1>4. \A e \in elections : ~(e.cand = s /\ e.id = id)
  BY <1>3, Zenon DEF FreeIds
<1>5. Pending' = Pending
  BY <1>2 DEF Pending
<1>6. ASSUME NEW m \in Pending, m.src = s, m.id = id PROVE FALSE
  <2>1. Answerable(m)
    BY DEF VoteInv
  <2>2. PICK e \in elections : e.cand = m.src /\ e.id = m.id
    BY <2>1, Zenon DEF Answerable
  <2> QED
    BY <1>4, <1>6, <2>2, Zenon
<1>7. RestInv
  BY DEF IInv
<1>8. Pending' \subseteq Pending /\ \A m \in Pending' : ~(m.src = s /\ m.id = id)
  BY <1>5, <1>6, Zenon
<1> QED
  BY <1>2, <1>7, <1>8, RoundVotes, Zenon

\* The loop's own ticker fires: another round.
LEMMA ElectionTickerVotes ==
    ASSUME VoteInv, IInv, NEW s \in Server, ElectionTicker(s)
    PROVE  VoteInv'
<1>1. PICK e \in Loops(s) : Round(s, e.id) /\ Abandon(s, e.id) /\ UNCHANGED ballots
  BY Zenon DEF ElectionTicker, history
<1>2. RestInv /\ CallInv
  BY DEF IInv
<1>3. /\ Pending' \subseteq Pending
      /\ \A m \in Pending' : ~(m.src = s /\ m.id = e.id)
  BY <1>1, <1>2, AbandonPending, Zenon
<1> QED
  BY <1>1, <1>2, <1>3, RoundVotes, Zenon

\* A loop that ends, one way or another.
LEMMA LoopEndVotes ==
    ASSUME VoteInv, IInv, NEW s \in Server,
           ElectionHeartBeat(s) \/ WinElection(s) \/ LoseElection(s)
    PROVE  VoteInv'
<1>1. PICK e \in Loops(s) : /\ Abandon(s, e.id) /\ UNCHANGED ballots
                            /\ elections' = elections \ {e}
  BY Zenon DEF ElectionHeartBeat, WinElection, LoseElection, history
<1>2. CallInv
  BY DEF IInv
<1>3. /\ Pending' \subseteq Pending
      /\ \A m \in Pending' : ~(m.src = s /\ m.id = e.id)
  BY <1>1, <1>2, AbandonPending, Zenon
<1>4. e.cand = s
  BY DEF Loops
<1>5. elections' \subseteq elections
  BY <1>1
<1>6. \A m \in Pending' : \A f \in elections :
         f.cand = m.src /\ f.id = m.id => f \in elections'
  BY <1>1, <1>3, <1>4, Zenon
<1> QED
  BY <1>1, <1>3, <1>5, <1>6, LoopsEnd, Zenon

\* Asking for votes and giving them.
LEMMA VoterVotes ==
    ASSUME VoteInv, IInv, NEW s \in Server,
           \/ \E p \in Server : sendRequestVote(s, p)
           \/ \E p \in Server : resendRequestVote(s, p)
           \/ RequestVote(s) \/ RequestVoteGrant(s)
    PROVE  VoteInv'
<1>1. ASSUME NEW p \in Server, sendRequestVote(s, p) PROVE VoteInv'
  <2>1. PICK e \in Loops(s) : sendRequestVote(s, p)!(e)
    BY <1>1, Zenon DEF sendRequestVote
  <2> DEFINE m == [stage |-> "RequestVote", src |-> s, dst |-> p, id |-> e.id,
                   waiting |-> TRUE, CandicateTerm |-> e.term,
                   LastLogIndex |-> e.LastLogIndex, LastLogTerm |-> e.LastLogTerm]
  <2>2. e \in elections /\ e.cand = s
    BY DEF Loops
  <2>3. /\ m.stage = "RequestVote" /\ m.waiting /\ m.src = s /\ m.dst = p
        /\ m.id = e.id /\ m.CandicateTerm = e.term
    OBVIOUS
  <2>4. /\ calls' = calls \cup {m} /\ UNCHANGED <<elections, ballots>>
        /\ p # s /\ p \notin e.answered
        /\ \A c \in calls : ~(/\ c.stage \in VoteStages /\ c.waiting
                              /\ c.src = s /\ c.id = e.id /\ c.dst = p)
    BY <2>1, Zenon DEF Send, elector, pending, history
  <2> HIDE DEF m
  <2> QED
    BY <2>2, <2>3, <2>4, OneMorePending, Zenon
<1>2. ASSUME NEW m \in calls, NEW g, NEW t, NEW r, m.stage \in VoteStages,
             UNCHANGED elections, ballots \subseteq ballots',
             r = VoteReply(m, g, t), Reply(m, r),
             g => <<m.dst, m.src, m.CandicateTerm>> \in ballots'
      PROVE  VoteInv'
  <2>1. /\ r.stage = "RequestVoteReply" /\ r.waiting /\ r.VoteGranted = g
        /\ r.src = m.src /\ r.dst = m.dst /\ r.id = m.id
        /\ r.CandicateTerm = m.CandicateTerm
    BY <1>2 DEF VoteReply
  <2>2. CASE m.waiting
    <3>1. \A x \in calls' : x = r \/ x \in calls \ {m}
      BY <1>2, Zenon DEF Reply
    <3>2. r.stage \in VoteStages /\ Asks(r, m)
      BY <2>1 DEF VoteStages, Asks
    <3> QED
      BY <1>2, <2>1, <2>2, <3>1, <3>2, NextStage, Zenon
  <2>3. CASE ~m.waiting
    <3>1. calls' \subseteq calls
      BY <1>2, <2>3, Zenon DEF Reply
    <3>2. Pending' \subseteq Pending
      BY <3>1, Zenon DEF Pending
    <3>3. \A x \in Pending' : Answerable(x)'
      BY <1>2, <3>2, Zenon DEF VoteInv, Answerable
    <3>4. \A x \in elections' : Counted(x)'
      BY <1>2, Zenon DEF VoteInv, Counted
    <3> QED
      BY <1>2, <3>2, <3>3, <3>4, Zenon DEF VoteInv, Asks
  <2> QED
    BY <2>2, <2>3
<1>3. CASE RequestVote(s)
  <2>1. PICK m \in Arrived(s, "RequestVote") :
          /\ UNCHANGED <<elections, ballots>>
          /\ \E t : \/ Reply(m, VoteReply(m, FALSE, t))
                    \/ calls' = (calls \ {m}) \cup
                          {[stage |-> "voting", src |-> m.src, dst |-> s, id |-> m.id,
                            waiting |-> m.waiting, CandicateTerm |-> m.CandicateTerm,
                            FollowerTerm |-> t]}
    BY <1>3, Zenon DEF RequestVote, history
  <2>2. m \in calls /\ m.stage \in VoteStages /\ m.stage = "RequestVote" /\ m.dst = s
    BY DEF Arrived, VoteStages
  <2>3. ASSUME NEW t, Reply(m, VoteReply(m, FALSE, t)) PROVE VoteInv'
    BY <1>2, <2>1, <2>2, <2>3, Zenon
  <2>4. ASSUME NEW t, NEW r, calls' = (calls \ {m}) \cup {r},
               r = [stage |-> "voting", src |-> m.src, dst |-> s, id |-> m.id,
                    waiting |-> m.waiting, CandicateTerm |-> m.CandicateTerm,
                    FollowerTerm |-> t]
        PROVE  VoteInv'
    <3>1. /\ r.stage = "voting" /\ r.src = m.src /\ r.dst = m.dst /\ r.id = m.id
          /\ r.waiting = m.waiting /\ r.CandicateTerm = m.CandicateTerm
      BY <2>2, <2>4
    <3>2. r \in Pending' => m.waiting /\ r.waiting
      BY <3>1, Zenon DEF Pending
    <3>3. r.stage \in VoteStages /\ Asks(r, m) /\ r.stage # "RequestVoteReply"
      BY <3>1 DEF VoteStages, Asks
    <3>4. \A x \in calls' : x = r \/ x \in calls \ {m}
      BY <2>4, Zenon
    <3> QED
      BY <2>1, <2>2, <3>1, <3>2, <3>3, <3>4, NextStage, Zenon
  <2> QED
    BY <2>1, <2>3, <2>4, Zenon
<1>4. CASE RequestVoteGrant(s)
  <2>1. PICK m \in Arrived(s, "voting") :
          /\ UNCHANGED elections
          /\ \/ /\ ballots' = ballots \cup {<<s, m.src, m.CandicateTerm>>}
                /\ Reply(m, VoteReply(m, TRUE, m.FollowerTerm))
             \/ /\ UNCHANGED ballots
                /\ Reply(m, VoteReply(m, FALSE, m.FollowerTerm))
    BY <1>4, Zenon DEF RequestVoteGrant
  <2>2. m \in calls /\ m.stage \in VoteStages /\ m.dst = s
    BY DEF Arrived, VoteStages
  <2> QED
    BY <1>2, <2>1, <2>2, Zenon
<1>5. ASSUME NEW p \in Server, resendRequestVote(s, p) PROVE VoteInv'
  <2>1. PICK m : /\ calls' = calls \cup {m} /\ UNCHANGED <<elections, ballots>>
                 /\ m.stage = "RequestVote" /\ m.waiting = FALSE
    <3>1. PICK q \in requests : resendRequestVote(s, p)!(q)
      BY <1>5, Zenon DEF resendRequestVote
    <3> DEFINE m == [stage |-> "RequestVote", src |-> s, dst |-> p, id |-> 0,
                     waiting |-> FALSE, CandicateTerm |-> q.term,
                     LastLogIndex |-> q.LastLogIndex, LastLogTerm |-> q.LastLogTerm]
    <3>2. m.stage = "RequestVote" /\ m.waiting = FALSE
      OBVIOUS
    <3>3. calls' = calls \cup {m} /\ UNCHANGED <<elections, ballots>>
      BY <3>1, Zenon DEF Send, elector, history
    <3> HIDE DEF m
    <3> QED
      BY <3>2, <3>3
  <2>2. m \notin Pending'
    BY <2>1 DEF Pending
  <2>3. Pending' \subseteq Pending
    BY <2>1, <2>2, Zenon DEF Pending
  <2> QED
    BY <2>1, <2>3, LoopsEnd, Zenon
<1> QED
  BY <1>1, <1>3, <1>4, <1>5

\* An answer that a candidate reads is pending.
LEMMA AnswerPending ==
    ASSUME IInv, NEW s \in Server, NEW e \in Loops(s),
           NEW m \in Returned(s, "RequestVoteReply")
    PROVE  /\ e \in elections /\ e \in Election /\ e.cand = s
           /\ m \in Pending /\ m.src = s /\ m.stage = "RequestVoteReply"
<1>1. e \in elections /\ e.cand = s
  BY DEF Loops
<1>2. e \in Election
  BY <1>1, Zenon DEF IInv, RestInv
<1>3. m \in calls /\ m.src = s /\ m.stage = "RequestVoteReply"
  BY DEF Returned
<1>4. m \in Pending
  BY <1>3 DEF Pending, VoteStages
<1> QED
  BY <1>1, <1>2, <1>3, <1>4

\* A candidate counts a vote.
LEMMA CountVoteVotes ==
    ASSUME VoteInv, IInv, NEW s \in Server, CountVote(s)
    PROVE  VoteInv'
<1>1. PICK e \in Loops(s), m \in Returned(s, "RequestVoteReply") : CountVote(s)!(e, m)
  BY Zenon DEF CountVote
<1>2. /\ e \in elections /\ e \in Election /\ e.cand = s
      /\ m \in Pending /\ m.src = s /\ m.stage = "RequestVoteReply"
  BY AnswerPending, Zenon
<1>3. PICK f : f = [e EXCEPT !.answered = @ \cup {m.dst}, !.granted = @ \cup {m.dst}]
  OBVIOUS
<1>4. /\ m.id = e.id /\ m.VoteGranted /\ calls' = calls \ {m}
      /\ elections' = (elections \ {e}) \cup {f} /\ UNCHANGED ballots
  BY <1>1, <1>3, Zenon DEF Answers, history
<1>5. /\ f.cand = e.cand /\ f.id = e.id /\ f.term = e.term
      /\ f.answered = e.answered \cup {m.dst} /\ f.granted = e.granted \cup {m.dst}
  BY <1>2, <1>3 DEF Election
<1> QED
  BY <1>2, <1>4, <1>5, AnswerRead, Zenon

\* A candidate reads a refusal.
LEMMA VoteRefusedVotes ==
    ASSUME VoteInv, IInv, NEW s \in Server, VoteRefused(s)
    PROVE  VoteInv'
<1>1. PICK e \in Loops(s), m \in Returned(s, "RequestVoteReply") : VoteRefused(s)!(e, m)
  BY Zenon DEF VoteRefused
<1>2. /\ e \in elections /\ e \in Election /\ e.cand = s
      /\ m \in Pending /\ m.src = s /\ m.stage = "RequestVoteReply"
  BY AnswerPending, Zenon
<1>3. PICK h : h = IF m.FollowerTerm > rf[s].currentTerm THEN m.FollowerTerm ELSE 0
  OBVIOUS
<1>4. PICK f : f = [e EXCEPT !.answered = @ \cup {m.dst}, !.higher = h]
  OBVIOUS
<1>5. /\ m.id = e.id /\ calls' = calls \ {m}
      /\ elections' = (elections \ {e}) \cup {f} /\ UNCHANGED ballots
  BY <1>1, <1>3, <1>4, Zenon DEF Answers, history
<1>6. /\ f.cand = e.cand /\ f.id = e.id /\ f.term = e.term
      /\ f.answered = e.answered \cup {m.dst} /\ f.granted = e.granted
  BY <1>2, <1>4 DEF Election
<1> QED
  BY <1>2, <1>5, <1>6, AnswerRead, Zenon

\* A step outside the elections: other calls come and go, and requests are lost.
LEMMA QuietVotes ==
    ASSUME VoteInv, IInv, UNCHANGED <<elections, ballots>>,
           \A r \in calls' :
              \/ r \in calls \/ r.stage \notin VoteStages
              \/ \E m \in calls : r = Orphan(m) /\ m.stage # "RequestVoteReply"
    PROVE  VoteInv'
<1>1. Pending' \subseteq Pending
  BY FewerPending DEF IInv
<1> QED
  BY <1>1, LoopsEnd, Zenon

\* Replies to calls of leaders are not votes.
LEMMA OtherReply ==
    ASSUME NEW m, NEW r, Reply(m, r), r.stage \notin VoteStages
    PROVE  \A x \in calls' : x \in calls \/ x.stage \notin VoteStages
  BY Zenon DEF Reply

\* Nor are the replies of followers to entries and snapshots.
LEMMA OtherStages ==
    ASSUME NEW m, NEW a, NEW b
    PROVE  /\ AppendReply(m, a, b).stage \notin VoteStages
           /\ SnapshotReply(m).stage \notin VoteStages
  BY DEF AppendReply, SnapshotReply, VoteStages

\* Replication, snapshots and the service have no part in elections.
LEMMA LeaderVotes ==
    ASSUME VoteInv, IInv, NEW s \in Server,
           \/ \E p \in Server : HeartBeatToServer(s, p)
           \/ \E p \in Server : doAppendEntriesRPC(s, p)
           \/ RejectEntries(s) \/ AppendEntries(s)
           \/ HigherTermReply(s) \/ StaleReply(s) \/ EntriesStored(s)
           \/ HeartBeatReply(s) \/ LogConflict(s)
           \/ \E p \in Server : doInstallSnapshotRPC(s, p)
           \/ RejectSnapshot(s) \/ InstallSnapshot(s) \/ InstallSnapshotReply(s)
           \/ DumpSnapshot(s) \/ TakeSnapshot(s)
           \/ \E command \in Command : Start(s, command)
    PROVE  VoteInv'
<1>1. CASE \/ \E p \in Server : HeartBeatToServer(s, p)
           \/ DumpSnapshot(s) \/ TakeSnapshot(s)
           \/ \E command \in Command : Start(s, command)
           \/ HigherTermReply(s) \/ StaleReply(s) \/ EntriesStored(s)
           \/ HeartBeatReply(s) \/ LogConflict(s) \/ InstallSnapshotReply(s)
  <2>1. UNCHANGED <<elections, ballots>> /\ calls' \subseteq calls
    <3>1. CASE \/ \E p \in Server : HeartBeatToServer(s, p)
               \/ DumpSnapshot(s) \/ TakeSnapshot(s)
               \/ \E command \in Command : Start(s, command)
      BY <3>1, Zenon DEF HeartBeatToServer, DumpSnapshot, TakeSnapshot, Start, elector, pending,
                         history
    <3>2. CASE \/ HigherTermReply(s) \/ StaleReply(s) \/ EntriesStored(s)
               \/ HeartBeatReply(s) \/ LogConflict(s) \/ InstallSnapshotReply(s)
      <4>1. UNCHANGED <<elections, ballots>> /\ \E m : calls' = calls \ {m}
        BY <3>2, Zenon DEF HigherTermReply, StaleReply, EntriesStored, HeartBeatReply,
                           LogConflict, InstallSnapshotReply, elector, pending, history
      <4> QED
        BY <4>1, Zenon
    <3> QED
      BY <1>1, <3>1, <3>2
  <2> QED
    BY <2>1, QuietVotes, Zenon
<1>2. ASSUME NEW p \in Server, doAppendEntriesRPC(s, p) \/ doInstallSnapshotRPC(s, p)
      PROVE  VoteInv'
  <2>1. UNCHANGED <<elections, ballots>>
    BY <1>2, Zenon DEF doAppendEntriesRPC, doInstallSnapshotRPC, elector, pending, history
  <2>2. ASSUME NEW m, m.stage \notin VoteStages, Send(m) PROVE VoteInv'
    <3>1. calls' = calls \cup {m}
      BY <2>2 DEF Send
    <3>2. \A r \in calls' : r \in calls \/ r.stage \notin VoteStages
      BY <2>2, <3>1, Zenon
    <3> QED
      BY <2>1, <3>2, QuietVotes, Zenon
  <2>3. CASE doAppendEntriesRPC(s, p)
    <3>1. UNCHANGED calls \/ Send(AppendEntriesArgs(s, p))
      BY <2>3, Zenon DEF doAppendEntriesRPC
    <3>2. AppendEntriesArgs(s, p).stage \notin VoteStages
      BY DEF AppendEntriesArgs, VoteStages
    <3>3. CASE UNCHANGED calls
      BY <2>1, <3>3, QuietVotes, Zenon
    <3> QED
      BY <2>2, <3>1, <3>2, <3>3, Zenon
  <2>4. CASE doInstallSnapshotRPC(s, p)
    <3>1. PICK m : /\ Send(m)
                   /\ m = [stage |-> "InstallSnapshot", src |-> s, dst |-> p, id |-> 0,
                           waiting |-> TRUE, Term |-> rf[s].currentTerm,
                           LastIncludedIndex |-> rf[s].lastIncludedIndex,
                           LastIncludedTerm |-> rf[s].lastIncludedTerm,
                           LastIncludedCmdIndex |-> rf[s].lastIncludedCmdIndex,
                           Data |-> snapshot[s]]
      BY <2>4, Zenon DEF doInstallSnapshotRPC
    <3>2. m.stage \notin VoteStages
      BY <3>1 DEF VoteStages
    <3> QED
      BY <2>2, <3>1, <3>2, Zenon
  <2> QED
    BY <1>2, <2>3, <2>4
<1>3. CASE \/ RejectEntries(s) \/ AppendEntries(s)
           \/ RejectSnapshot(s) \/ InstallSnapshot(s)
  <2>1. UNCHANGED <<elections, ballots>>
    BY <1>3, Zenon DEF RejectEntries, AppendEntries, RejectSnapshot, InstallSnapshot,
                       elector, pending, history
  <2>2. \E m, a, b : Reply(m, AppendReply(m, a, b)) \/ Reply(m, SnapshotReply(m))
    BY <1>3, Zenon DEF RejectEntries, AppendEntries, RejectSnapshot, InstallSnapshot
  <2>3. \A x \in calls' : x \in calls \/ x.stage \notin VoteStages
    BY <2>2, OtherReply, OtherStages, Zenon
  <2> QED
    BY <2>1, <2>3, QuietVotes, Zenon
<1> QED
  BY <1>1, <1>2, <1>3

\* Requests that time out or are lost, and a candidate that crashes.
LEMMA FaultVotes ==
    ASSUME VoteInv, IInv, NEW s \in Server, CallTimeOut(s) \/ Lose(s) \/ Make(s)
    PROVE  VoteInv'
<1>1. CASE CallTimeOut(s)
  <2>1. PICK m \in calls : /\ UNCHANGED <<elections, ballots>>
                           /\ m.stage \in {"RequestVote", "voting", "AppendEntries",
                                           "InstallSnapshot"}
                           /\ calls' = (calls \ {m}) \cup {Orphan(m)}
    BY <1>1, Zenon DEF CallTimeOut, elector, pending, history
  <2>2. m.stage # "RequestVoteReply"
    BY <2>1
  <2> QED
    BY <2>1, <2>2, QuietVotes, Zenon
<1>2. CASE Lose(s)
  <2>1. UNCHANGED <<elections, ballots>> /\ \E m : calls' = calls \ {m}
    BY <1>2, Zenon DEF Lose, elector, pending, history
  <2> QED
    BY <2>1, QuietVotes, Zenon
<1>3. CASE Make(s)
  <2>0. CallInv
    BY DEF IInv
  <2>1. /\ UNCHANGED ballots /\ elections' = {e \in elections : e.cand # s}
        /\ calls' = {IF m.src = s THEN Orphan(m) ELSE m : m \in
                       {c \in calls : /\ ~(c.src = s /\ c.stage \in Replies)
                                      /\ ~(c.dst = s /\ c.stage = "voting")}}
    BY <1>3, Zenon DEF Make, history
  <2>2. \A r \in calls' :
           \/ r \in calls /\ r.src # s
           \/ \E m \in calls : r = Orphan(m) /\ m.stage # "RequestVoteReply"
    <3>1. "RequestVoteReply" \in Replies
      BY DEF Replies
    <3> QED
      BY <2>1, <3>1, Zenon
  <2>3. Pending' \subseteq Pending
    BY <2>2, FewerPending, Zenon DEF IInv
  <2>4. ASSUME NEW r \in Pending' PROVE r.src # s
    <3>1. r \in calls' /\ (r.waiting \/ r.stage = "RequestVoteReply")
      BY DEF Pending
    <3>2. ASSUME NEW m \in calls, r = Orphan(m), m.stage # "RequestVoteReply"
          PROVE  FALSE
      BY <2>0, <3>1, <3>2, OrphanEnds, Zenon
    <3> QED
      BY <2>2, <3>1, <3>2, Zenon
  <2>5. elections' \subseteq elections
    BY <2>1, Zenon
  <2>6. \A m \in Pending' : \A e \in elections :
           e.cand = m.src /\ e.id = m.id => e \in elections'
    BY <2>1, <2>4, Zenon
  <2> QED
    BY <2>1, <2>3, <2>5, <2>6, LoopsEnd, Zenon
<1> QED
  BY <1>1, <1>2, <1>3

\* Every step keeps the count of the votes right.
LEMMA NextVotes ==
    ASSUME VoteInv, IInv, [Next]_vars
    PROVE  VoteInv'
<1>1. CASE UNCHANGED vars
  <2>1. UNCHANGED <<calls, elections, ballots>>
    BY <1>1 DEF vars, elector, pending, history
  <2> QED
    BY <2>1, QuietVotes, Zenon
<1>2. ASSUME NEW s \in Server,
             TimeOutToElection(s) \/ QuitElection(s) \/ TimerHeartBeat(s)
      PROVE  VoteInv'
  <2>1. UNCHANGED <<calls, elections, ballots>>
    BY <1>2, Zenon DEF TimeOutToElection, QuitElection, TimerHeartBeat, history
  <2> QED
    BY <2>1, QuietVotes, Zenon
<1>3. CASE Next
  BY <1>2, <1>3, StartElectionVotes, ElectionTickerVotes, LoopEndVotes, VoterVotes,
     CountVoteVotes, VoteRefusedVotes, LeaderVotes, FaultVotes, Zenon DEF Next
<1> QED
  BY <1>1, <1>3

\* Only a vote that completes a majority makes a leader.
LEMMA OnlyWinnerLeads ==
    ASSUME IInv, Next, NEW a \in Server, role[a] # LEADER, role'[a] = LEADER
    PROVE  WinElection(a)
<1> DEFINE NoNewLeader == \A q \in Server : role'[q] = LEADER => role[q] = LEADER
<1>1. ASSUME UNCHANGED role PROVE NoNewLeader
  BY <1>1
<1>2. ASSUME NEW s \in Server, becomeFollower(s) PROVE NoNewLeader
  BY <1>2 DEF IInv, RestInv, becomeFollower, FOLLOWER, LEADER
<1>3. ASSUME NEW s \in Server, NEW id, Round(s, id) PROVE NoNewLeader
  <2>1. UNCHANGED role \/ role' = [role EXCEPT ![s] = CANDICATE]
    BY <1>3, Zenon DEF Round
  <2> QED
    BY <2>1 DEF IInv, RestInv, CANDICATE, LEADER
<1>4. ASSUME NEW s \in Server, Make(s) PROVE NoNewLeader
  <2>1. role' = [role EXCEPT ![s] = FOLLOWER]
    BY <1>4, Zenon DEF Make
  <2> QED
    BY <2>1 DEF IInv, RestInv, FOLLOWER, LEADER
<1>5. ASSUME NEW s \in Server, WinElection(s) PROVE WinElection(a)
  <2>1. role' = [role EXCEPT ![s] = LEADER]
    BY <1>5, Zenon DEF WinElection, becomeLeader
  <2>2. a = s
    BY <2>1 DEF IInv, RestInv
  <2> QED
    BY <1>5, <2>2
<1> HIDE DEF NoNewLeader
<1>6. ASSUME NEW s \in Server,
             \/ TimeOutToElection(s) \/ QuitElection(s) \/ StartElection(s)
             \/ TimerHeartBeat(s) \/ ElectionTicker(s) \/ ElectionHeartBeat(s)
             \/ \E p \in Server : sendRequestVote(s, p)
             \/ \E p \in Server : resendRequestVote(s, p)
             \/ RequestVote(s) \/ RequestVoteGrant(s)
             \/ CountVote(s) \/ VoteRefused(s) \/ LoseElection(s)
      PROVE  NoNewLeader
  BY <1>1, <1>2, <1>3, <1>6, Zenon
     DEF TimeOutToElection, QuitElection, StartElection, TimerHeartBeat,
         ElectionTicker, ElectionHeartBeat, sendRequestVote, resendRequestVote,
         RequestVote, RequestVoteGrant, CountVote, VoteRefused, LoseElection
<1>7. ASSUME NEW s \in Server,
             \/ \E p \in Server : HeartBeatToServer(s, p)
             \/ \E p \in Server : doAppendEntriesRPC(s, p)
             \/ RejectEntries(s) \/ AppendEntries(s)
             \/ HigherTermReply(s) \/ StaleReply(s) \/ EntriesStored(s)
             \/ HeartBeatReply(s) \/ LogConflict(s)
      PROVE  NoNewLeader
  BY <1>1, <1>2, <1>7, Zenon
     DEF HeartBeatToServer, doAppendEntriesRPC, RejectEntries, AppendEntries,
         HigherTermReply, StaleReply, EntriesStored, HeartBeatReply, LogConflict
<1>8. ASSUME NEW s \in Server,
             \/ \E p \in Server : doInstallSnapshotRPC(s, p)
             \/ RejectSnapshot(s) \/ InstallSnapshot(s) \/ InstallSnapshotReply(s)
             \/ DumpSnapshot(s) \/ TakeSnapshot(s)
             \/ \E command \in Command : Start(s, command)
             \/ CallTimeOut(s) \/ Lose(s) \/ Make(s)
      PROVE  NoNewLeader
  BY <1>1, <1>2, <1>4, <1>8, Zenon
     DEF doInstallSnapshotRPC, RejectSnapshot, InstallSnapshot, InstallSnapshotReply,
         DumpSnapshot, TakeSnapshot, Start, CallTimeOut, Lose
<1>9. ~NoNewLeader
  BY DEF NoNewLeader
<1> QED
  BY <1>5, <1>6, <1>7, <1>8, <1>9, Zenon DEF Next
=============================================================================
