----------------------- MODULE RaftReplicationProofs ------------------------
(***************************************************************************)
(* The inductive invariant of module Raft, the lemmas about logs, saved    *)
(* states and calls that its proofs share, and the steps of replication,   *)
(* which keep the invariant.                                               *)
(***************************************************************************)
EXTENDS Raft, Induction

-----------------------------------------------------------------------------
(* Minima and maxima of sets of integers.                                  *)

\* What is at most b is at most c if b is.
LEMMA AtMost ==
    ASSUME NEW a \in Nat, NEW b \in Nat, NEW c \in Nat, a <= b, b <= c
    PROVE  a <= c
  OBVIOUS

\* A nonempty set of naturals has a minimum.
LEMMA MinOfNats ==
    ASSUME NEW S \in SUBSET Nat, S # {}
    PROVE  Min(S) \in S /\ \A y \in S : Min(S) =< y
<1>1. PICK x \in S : \A y \in S : x =< y
  BY LeastNat, Zenon
<1> QED
  BY <1>1, Zenon DEF Min

\* A nonempty set of integers with an upper bound has a maximum.
LEMMA MaxOfInts ==
    ASSUME NEW S, S \subseteq Int, S # {}, NEW b \in Int, \A x \in S : x =< b
    PROVE  Max(S) \in S /\ \A y \in S : Max(S) >= y
<1> DEFINE D == {d \in Nat : b - d \in S}
<1>1. PICK z \in S : TRUE
  BY Zenon
<1>2. b - z \in D
  BY b - (b - z) = z, z \in Int
<1>3. Min(D) \in D /\ \A y \in D : Min(D) =< y
  <2>1. D \in SUBSET Nat /\ D # {}
    BY <1>2, Zenon
  <2> HIDE DEF D
  <2> QED
    BY <2>1, MinOfNats
<1> DEFINE x == b - Min(D)
<1>4. x \in S
  BY <1>3
<1>5. ASSUME NEW y \in S PROVE x >= y
  <2>1. y \in Int /\ b - y \in Nat /\ b - (b - y) = y
    OBVIOUS
  <2>2. b - y \in D
    BY <2>1
  <2>3. Min(D) \in Nat /\ Min(D) =< b - y
    BY <1>3, <2>2
  <2> HIDE DEF D
  <2> QED
    BY <2>1, <2>3
<1> HIDE DEF x
<1> QED
  BY <1>4, <1>5, Zenon DEF Max

\* The maximum and the minimum of two integers.
LEMMA MaxOfTwo ==
    ASSUME NEW a \in Int, NEW b \in Int
    PROVE  /\ Max({a, b}) \in {a, b} /\ Max({a, b}) >= a /\ Max({a, b}) >= b
           /\ Min({a, b}) \in {a, b} /\ Min({a, b}) =< a /\ Min({a, b}) =< b
<1>1. \E x \in {a, b} : \A y \in {a, b} : x >= y
  OBVIOUS
<1>2. \E x \in {a, b} : \A y \in {a, b} : x =< y
  OBVIOUS
<1> QED
  BY <1>1, <1>2 DEF Max, Min

-----------------------------------------------------------------------------
(* Logs.                                                                   *)

\* A saved state whose log counts on from the snapshot.
Contiguous(st) == st \in RaftState /\ CountsFrom(st.logs, st.lastIncludedIndex)

\* Where the entries of a contiguous log are.
LEMMA LogPositions ==
    ASSUME NEW st, Contiguous(st), st.logs # <<>>
    PROVE  /\ getLastLog(st) \in LogEntry
           /\ getLastLog(st).LogIndex = st.lastIncludedIndex + Len(st.logs) - 1
           /\ Len(st.logs) \in Nat \ {0}
           /\ \A i \in Int : Holds(st, i) <=>
                st.lastIncludedIndex <= i /\ i <= getLastLog(st).LogIndex
           /\ \A i \in Int : Holds(st, i) =>
                EntryAt(st, i) \in LogEntry /\ EntryAt(st, i).LogIndex = i
<1>1. st.logs \in Seq(LogEntry) /\ st.lastIncludedIndex \in Nat
  BY DEF Contiguous, RaftState
<1>2. Len(st.logs) \in Nat \ {0} /\ DOMAIN st.logs = 1..Len(st.logs)
  BY <1>1
<1>3. \A i \in DOMAIN st.logs : st.logs[i] \in LogEntry
  BY <1>1
<1>4. \A i \in DOMAIN st.logs :
        st.logs[i].LogIndex = st.lastIncludedIndex + i - 1
  BY DEF Contiguous, CountsFrom
<1>5. /\ getLastLog(st) \in LogEntry
      /\ getLastLog(st).LogIndex = st.lastIncludedIndex + Len(st.logs) - 1
  <2>1. Len(st.logs) \in DOMAIN st.logs
    BY <1>2
  <2> QED
    BY <1>3, <1>4, <2>1 DEF getLastLog
<1>6. ASSUME NEW i \in Int
      PROVE  /\ Holds(st, i) <=>
                  st.lastIncludedIndex <= i /\ i <= getLastLog(st).LogIndex
             /\ Holds(st, i) =>
                  EntryAt(st, i) \in LogEntry /\ EntryAt(st, i).LogIndex = i
  <2>1. Holds(st, i) <=> i - st.lastIncludedIndex + 1 \in 1..Len(st.logs)
    BY <1>2 DEF Holds, logIndex2LogPos
  <2>2. Holds(st, i) <=>
          st.lastIncludedIndex <= i /\ i <= getLastLog(st).LogIndex
    BY <1>1, <1>2, <1>5, <2>1
  <2>3. ASSUME Holds(st, i)
        PROVE  EntryAt(st, i) \in LogEntry /\ EntryAt(st, i).LogIndex = i
    <3> DEFINE k == i - st.lastIncludedIndex + 1
    <3>1. k \in DOMAIN st.logs /\ st.lastIncludedIndex + k - 1 = i
      BY <1>1, <1>2, <2>1, <2>3
    <3>2. EntryAt(st, i) = st.logs[k]
      BY DEF EntryAt, logIndex2LogPos
    <3> HIDE DEF k
    <3> QED
      BY <1>3, <1>4, <3>1, <3>2
  <2> QED
    BY <2>2, <2>3
<1> QED
  BY <1>2, <1>5, <1>6

\* Appending the next entry keeps a log contiguous.
LEMMA AppendContiguous ==
    ASSUME NEW st, Contiguous(st), st.logs # <<>>,
           NEW e \in LogEntry, e.LogIndex = getLastLog(st).LogIndex + 1
    PROVE  Contiguous([st EXCEPT !.logs = Append(@, e)])
<1> DEFINE new == [st EXCEPT !.logs = Append(@, e)]
<1>1. st \in RaftState /\ st.logs \in Seq(LogEntry) /\ st.lastIncludedIndex \in Nat
  BY DEF Contiguous, RaftState
<1>2. new \in RaftState /\ new.logs = Append(st.logs, e)
      /\ new.lastIncludedIndex = st.lastIncludedIndex
  <2>1. Append(st.logs, e) \in Seq(LogEntry)
    BY <1>1
  <2> QED
    BY <1>1, <2>1, Zenon DEF RaftState
<1>3. getLastLog(st).LogIndex = st.lastIncludedIndex + Len(st.logs) - 1
  BY LogPositions
<1>4. ASSUME NEW i \in DOMAIN new.logs
      PROVE  new.logs[i].LogIndex = st.lastIncludedIndex + i - 1
  <2>1. i \in 1..(Len(st.logs) + 1)
    BY <1>1, <1>2
  <2>2. CASE i = Len(st.logs) + 1
    <3>1. new.logs[i] = e
      BY <1>1, <1>2, <2>2
    <3> QED
      BY <1>1, <1>3, <2>2, <3>1
  <2>3. CASE i \in 1..Len(st.logs)
    <3>1. new.logs[i] = st.logs[i] /\ i \in DOMAIN st.logs
      BY <1>1, <1>2, <2>3
    <3> QED
      BY <3>1 DEF Contiguous, CountsFrom
  <2> QED
    BY <1>1, <2>1, <2>2, <2>3
<1> QED
  BY <1>2, <1>4 DEF Contiguous, CountsFrom

\* The entries of a concatenation, and of a sequence with one entry replaced.
LEMMA ConcatEntries ==
    ASSUME NEW S, NEW s1 \in Seq(S), NEW s2 \in Seq(S)
    PROVE  \A i \in 1..(Len(s1) + Len(s2)) :
              (s1 \o s2)[i] = IF i <= Len(s1) THEN s1[i] ELSE s2[i - Len(s1)]
  OBVIOUS

\* So does replacing what follows position pos by entries that count on from it.
LEMMA CutContiguous ==
    ASSUME NEW st, Contiguous(st), NEW pos \in 1..Len(st.logs),
           NEW entries \in Seq(LogEntry),
           CountsFrom(entries, st.lastIncludedIndex + pos)
    PROVE  Contiguous([st EXCEPT !.logs = CutAndAppend(@, pos, entries)])
<1> DEFINE logs == SubSeq(st.logs, 1, pos) \o entries
<1> DEFINE new == [st EXCEPT !.logs = logs]
<1>1. st \in RaftState /\ st.logs \in Seq(LogEntry) /\ st.lastIncludedIndex \in Nat
  BY DEF Contiguous, RaftState
<1>2. /\ SubSeq(st.logs, 1, pos) \in Seq(LogEntry)
      /\ Len(SubSeq(st.logs, 1, pos)) = pos
      /\ \A i \in 1..pos : SubSeq(st.logs, 1, pos)[i] = st.logs[i]
  BY <1>1
<1>3. logs \in Seq(LogEntry) /\ Len(logs) = pos + Len(entries)
  BY <1>2
<1>4. ASSUME NEW i \in 1..Len(logs)
      PROVE  logs[i].LogIndex = st.lastIncludedIndex + i - 1
  <2>1. CASE i \in 1..pos
    <3>1. logs[i] = st.logs[i] /\ i \in DOMAIN st.logs
      BY <1>1, <1>2, <2>1
    <3> QED
      BY <3>1 DEF Contiguous, CountsFrom
  <2>2. CASE i > pos
    <3>1. i - pos \in DOMAIN entries /\ logs[i] = entries[i - pos]
      <4>1. i \in 1..(Len(SubSeq(st.logs, 1, pos)) + Len(entries)) /\ pos \in Nat
            /\ Len(entries) \in Nat
        BY <1>2, <1>3
      <4>2. i - pos \in 1..Len(entries)
        BY <1>2, <2>2, <4>1
      <4> QED
        BY <1>2, <2>2, <4>1, <4>2, ConcatEntries
    <3>2. entries[i - pos].LogIndex = (st.lastIncludedIndex + pos) + (i - pos) - 1
      BY <3>1 DEF CountsFrom
    <3>3. pos \in Int /\ i \in Int /\ st.lastIncludedIndex \in Int
      BY <1>1, <1>3
    <3> HIDE DEF logs
    <3> QED
      BY <3>1, <3>2, <3>3
  <2> QED
    BY <1>3, <2>1, <2>2
<1>5. new \in RaftState /\ new.logs = logs
      /\ new.lastIncludedIndex = st.lastIncludedIndex
  BY <1>1, <1>3, Zenon DEF RaftState
<1>6. Contiguous(new)
  <2> HIDE DEF logs, new
  <2> QED
    BY <1>3, <1>4, <1>5 DEF Contiguous, CountsFrom
<1> QED
  BY <1>1, <1>6 DEF CutAndAppend, RaftState

\* So does cutting at a position.
LEMMA PrefixContiguous ==
    ASSUME NEW st, Contiguous(st), NEW pos \in 0..Len(st.logs)
    PROVE  Contiguous([st EXCEPT !.logs = SubSeq(@, 1, pos)])
<1> DEFINE logs == SubSeq(st.logs, 1, pos)
<1> DEFINE new == [st EXCEPT !.logs = logs]
<1>1. st \in RaftState /\ st.logs \in Seq(LogEntry) /\ st.lastIncludedIndex \in Nat
  BY DEF Contiguous, RaftState
<1>2. /\ logs \in Seq(LogEntry)
      /\ Len(logs) = pos
      /\ \A i \in 1..pos : logs[i] = st.logs[i]
  BY <1>1
<1>3. new \in RaftState /\ new.logs = logs
      /\ new.lastIncludedIndex = st.lastIncludedIndex
  BY <1>1, <1>2, Zenon DEF RaftState
<1>4. ASSUME NEW i \in DOMAIN logs
      PROVE  logs[i].LogIndex = st.lastIncludedIndex + i - 1
  <2>1. logs[i] = st.logs[i] /\ i \in DOMAIN st.logs
    BY <1>1, <1>2
  <2> QED
    BY <2>1 DEF Contiguous, CountsFrom
<1>5. Contiguous(new)
  <2> HIDE DEF logs, new
  <2> QED
    BY <1>3, <1>4 DEF Contiguous, CountsFrom
<1> QED
  BY <1>1, <1>5 DEF RaftState

\* The entries from an index on count on from that index.
LEMMA SuffixCounts ==
    ASSUME NEW st, Contiguous(st), NEW pos \in 1..Len(st.logs)
    PROVE  LET suffix == SubSeq(st.logs, pos, Len(st.logs))
           IN  /\ suffix \in Seq(LogEntry)
               /\ Len(suffix) = Len(st.logs) - pos + 1
               /\ \A i \in 1..(Len(st.logs) - pos + 1) :
                     suffix[i] = st.logs[pos + i - 1]
               /\ CountsFrom(suffix, st.lastIncludedIndex + pos - 1)
<1> DEFINE suffix == SubSeq(st.logs, pos, Len(st.logs))
<1>1. st.logs \in Seq(LogEntry) /\ st.lastIncludedIndex \in Nat
      /\ pos \in Nat /\ Len(st.logs) \in Nat
  BY DEF Contiguous, RaftState
<1>2. /\ suffix \in Seq(LogEntry)
      /\ Len(suffix) = Len(st.logs) - pos + 1
      /\ \A i \in 1..(Len(st.logs) - pos + 1) : suffix[i] = st.logs[pos + i - 1]
  BY <1>1
<1>3. ASSUME NEW i \in DOMAIN suffix
      PROVE  suffix[i].LogIndex = (st.lastIncludedIndex + pos - 1) + i - 1
  <2>1. i \in 1..(Len(st.logs) - pos + 1)
    BY <1>2
  <2>2. suffix[i] = st.logs[pos + i - 1] /\ pos + i - 1 \in DOMAIN st.logs
    BY <1>1, <1>2, <2>1
  <2>3. st.logs[pos + i - 1].LogIndex = st.lastIncludedIndex + (pos + i - 1) - 1
    BY <2>2 DEF Contiguous, CountsFrom
  <2> HIDE DEF suffix
  <2> QED
    BY <1>1, <2>1, <2>2, <2>3
<1> QED
  BY <1>2, <1>3 DEF CountsFrom

-----------------------------------------------------------------------------
(* The inductive invariant, in three parts.                                *)

\* The saved fields: types, durability, and contiguous logs.
StateInv ==
    /\ rf \in [Server -> RaftState]
    /\ disk \in [Server -> RaftState]
    /\ snapshot \in [Server -> Nat]
    /\ DurableState
    /\ \A s \in Server : CountsFrom(rf[s].logs, rf[s].lastIncludedIndex)

\* A call in flight: its type, that the entries it carries count on from
\* PrevLogIndex, and that the snapshot it carries is the one it names.
GoodCall(m) ==
    /\ m \in Call
    /\ m.stage = "AppendEntries" /\ m.Entries # <<>> =>
         CountsFrom(m.Entries, m.PrevLogIndex + 1)
    /\ m.stage = "InstallSnapshot" => m.Data = m.LastIncludedIndex

CallInv == \A m \in calls : GoodCall(m)

\* The types of everything else.
RestInv ==
    /\ role \in [Server -> {FOLLOWER, CANDICATE, LEADER}]
    /\ leaderPtr \in [Server -> Leader \cup {Nil}]
    /\ commitIndex \in [Server -> Nat]
    /\ timers \in [Server -> Nat]
    /\ linger \in [Server -> Nat]
    /\ starting \in [Server -> Nat]
    /\ requests \in SUBSET Request
    /\ heartBeatCh \in [Server -> 0..ChanCap]
    /\ elections \in SUBSET Election
    /\ beats \in [Server -> [Server -> [top: Nat, append: Nat, snap: Nat]]]
    /\ lastAppliedIndex \in [Server -> Nat]
    /\ dump \in [Server -> Nat]
    /\ cfgLogs \in [Server -> SUBSET (Nat \X (Command \cup {Nil}))]
    /\ restarts \in Nat
    /\ ballots \in SUBSET (Server \X Server \X Nat)
    /\ acked \in Nat

IInv == StateInv /\ CallInv /\ RestInv

\* The inductive invariant implies the invariants it strengthens.
LEMMA IInvImplies == IInv => TypeOK /\ DurableState /\ LogContiguous
  BY Zenon DEF IInv, StateInv, CallInv, GoodCall, RestInv, TypeOK, LogContiguous

\* A call at a given stage has the fields of that stage.
LEMMA CallAtStage ==
    ASSUME NEW m \in Call
    PROVE  /\ m.stage = "RequestVote" => m \in RequestVoteCall
           /\ m.stage = "voting" => m \in VotingCall
           /\ m.stage = "RequestVoteReply" => m \in RequestVoteReplyCall
           /\ m.stage = "AppendEntries" => m \in AppendEntriesCall
           /\ m.stage = "AppendEntriesReply" => m \in AppendEntriesReplyCall
           /\ m.stage = "InstallSnapshot" => m \in InstallSnapshotCall
           /\ m.stage = "InstallSnapshotReply" => m \in InstallSnapshotReplyCall
           /\ m.src \in Server /\ m.dst \in Server /\ m.waiting \in BOOLEAN
           /\ m.id \in Nat
  BY DEF Call, RequestVoteCall, VotingCall, RequestVoteReplyCall,
         AppendEntriesCall, AppendEntriesReplyCall, InstallSnapshotCall,
         InstallSnapshotReplyCall

\* persist(s, st) keeps StateInv if st is contiguous and starts at the same
\* snapshot.
LEMMA PersistState ==
    ASSUME StateInv, NEW s \in Server, NEW st, Contiguous(st),
           st.lastIncludedIndex = rf[s].lastIncludedIndex,
           persist(s, st), UNCHANGED snapshot
    PROVE  StateInv'
<1>1. st \in RaftState /\ CountsFrom(st.logs, st.lastIncludedIndex)
  BY DEF Contiguous
<1>2. rf' = [rf EXCEPT ![s] = st] /\ disk' = [disk EXCEPT ![s] = st]
  BY DEF persist
<1>3. \A q \in Server : /\ disk[q].lastIncludedIndex = rf[q].lastIncludedIndex
                         /\ snapshot[q] = rf[q].lastIncludedIndex
  BY Zenon DEF StateInv, DurableState, Restored, RaftState
<1>4. DurableState'
  BY <1>1, <1>2, <1>3 DEF StateInv, DurableState
<1> QED
  BY <1>1, <1>2, <1>4 DEF StateInv

\* Nothing saved changes.
LEMMA KeepState == StateInv /\ UNCHANGED persistent => StateInv'
  BY DEF StateInv, persistent, DurableState

\* The calls change by removing some and adding good ones.
LEMMA ChangeCalls ==
    ASSUME CallInv, NEW new, \A r \in new : GoodCall(r),
           calls' \subseteq calls \cup new
    PROVE  CallInv'
  BY DEF CallInv

\* The peers' saved states are contiguous.
LEMMA StateContiguous ==
    ASSUME StateInv, NEW s \in Server
    PROVE  Contiguous(rf[s]) /\ rf[s] \in RaftState
  BY DEF StateInv, Contiguous

\* A call whose caller has gone stays good.
LEMMA OrphanGood ==
    ASSUME NEW m, GoodCall(m)
    PROVE  GoodCall(Orphan(m))
<1> DEFINE o == Orphan(m)
<1>1. m \in Call
  BY DEF GoodCall
<1>2. ASSUME NEW K \in {RequestVoteCall, VotingCall, RequestVoteReplyCall,
                        AppendEntriesCall, AppendEntriesReplyCall,
                        InstallSnapshotCall, InstallSnapshotReplyCall},
             m \in K
      PROVE  o \in K /\ o.stage = m.stage
  <2>1. CASE K = RequestVoteCall
    BY <1>2, <2>1, Zenon DEF Orphan, RequestVoteCall
  <2>2. CASE K = VotingCall
    BY <1>2, <2>2, Zenon DEF Orphan, VotingCall
  <2>3. CASE K = RequestVoteReplyCall
    BY <1>2, <2>3, Zenon DEF Orphan, RequestVoteReplyCall
  <2>4. CASE K = AppendEntriesCall
    BY <1>2, <2>4, Zenon DEF Orphan, AppendEntriesCall
  <2>5. CASE K = AppendEntriesReplyCall
    BY <1>2, <2>5, Zenon DEF Orphan, AppendEntriesReplyCall
  <2>6. CASE K = InstallSnapshotCall
    BY <1>2, <2>6, Zenon DEF Orphan, InstallSnapshotCall
  <2>7. CASE K = InstallSnapshotReplyCall
    BY <1>2, <2>7, Zenon DEF Orphan, InstallSnapshotReplyCall
  <2> QED
    BY <2>1, <2>2, <2>3, <2>4, <2>5, <2>6, <2>7
<1>3. o \in Call /\ o.stage = m.stage
  BY <1>1, <1>2 DEF Call
<1>4. m.stage = "AppendEntries" =>
        o.Entries = m.Entries /\ o.PrevLogIndex = m.PrevLogIndex
  BY <1>1, CallAtStage DEF Orphan, AppendEntriesCall
<1>5. m.stage = "InstallSnapshot" =>
        o.Data = m.Data /\ o.LastIncludedIndex = m.LastIncludedIndex
  BY <1>1, CallAtStage DEF Orphan, InstallSnapshotCall
<1> HIDE DEF o
<1> QED
  BY <1>3, <1>4, <1>5 DEF GoodCall, o

\* The ways in which the handlers change the calls.
LEMMA ReplyCalls ==
    ASSUME CallInv, NEW m, NEW r, GoodCall(r), Reply(m, r)
    PROVE  CallInv'
  BY ChangeCalls DEF Reply, CallInv

\* A new call that is as it should be.
LEMMA SendCalls ==
    ASSUME CallInv, NEW r, GoodCall(r), Send(r)
    PROVE  CallInv'
  BY DEF Send, CallInv

\* A call that is gone.
LEMMA DropCalls ==
    ASSUME CallInv, NEW m, calls' = calls \ {m}
    PROVE  CallInv'
  BY DEF CallInv

\* Calls whose callers have given up.
LEMMA AbandonCalls ==
    ASSUME CallInv, NEW s, NEW id, Abandon(s, id)
    PROVE  CallInv'
<1> DEFINE own == {m \in calls : m.stage \in VoteStages /\ m.src = s /\ m.id = id}
<1> DEFINE new == {Orphan(m) : m \in {c \in own : c.stage # "RequestVoteReply"}}
<1>1. \A r \in new : GoodCall(r)
  BY OrphanGood DEF CallInv
<1>2. calls' = (calls \ own) \cup new
  BY DEF Abandon
<1> HIDE DEF own, new
<1> QED
  BY <1>1, <1>2, ChangeCalls

\* A new term and a new vote keep the log.
Voted(st, t, v) == [st EXCEPT !.currentTerm = t, !.votedFor = v]

\* A new term and vote leave the log as it is.
LEMMA VoteContiguous ==
    ASSUME NEW st, Contiguous(st), NEW t \in Nat, NEW v \in Server \cup {Nil}
    PROVE  /\ Contiguous(Voted(st, t, v))
           /\ Voted(st, t, v).lastIncludedIndex = st.lastIncludedIndex
           /\ Voted(st, t, v).logs = st.logs
           /\ Voted(st, t, v).currentTerm = t
  BY Zenon DEF Voted, Contiguous, RaftState

\* becomeFollower keeps the log.
LEMMA FollowerContiguous ==
    ASSUME NEW st, Contiguous(st), NEW t \in Nat
    PROVE  /\ Contiguous(FollowerState(st, t))
           /\ FollowerState(st, t).lastIncludedIndex = st.lastIncludedIndex
           /\ FollowerState(st, t).logs = st.logs
           /\ FollowerState(st, t).currentTerm = t
           /\ FollowerState(st, t) \in RaftState
  BY Zenon DEF Contiguous, FollowerState, RaftState

\* What becomeFollower changes keeps its type.
LEMMA FollowerTypes ==
    ASSUME RestInv, NEW s \in Server, becomeFollower(s)
    PROVE  /\ role' \in [Server -> {FOLLOWER, CANDICATE, LEADER}]
           /\ leaderPtr' \in [Server -> Leader \cup {Nil}]
           /\ timers' \in [Server -> Nat]
  BY DEF RestInv, becomeFollower

\* The heartbeat channel never holds more than its capacity.
LEMMA SignalType ==
    ASSUME RestInv, NEW s \in Server, Signal(s) \/ UNCHANGED heartBeatCh
    PROVE  heartBeatCh' \in [Server -> 0..ChanCap]
<1>1. CASE Signal(s)
  BY <1>1, ConstantsAssumption DEF RestInv, Signal
<1>2. CASE UNCHANGED heartBeatCh
  BY <1>2 DEF RestInv
<1> QED
  BY <1>1, <1>2

\* The contents of a vote request at its stages.
LEMMA VoteReplyGood ==
    ASSUME NEW m, m.src \in Server, m.dst \in Server, m.id \in Nat,
           m.CandicateTerm \in Nat, NEW g \in BOOLEAN, NEW t \in Nat
    PROVE  GoodCall(VoteReply(m, g, t))
<1>1. VoteReply(m, g, t) \in RequestVoteReplyCall
      /\ VoteReply(m, g, t).stage = "RequestVoteReply"
  BY DEF VoteReply, RequestVoteReplyCall
<1> QED
  BY <1>1 DEF GoodCall, Call

\* One round of StartElection.
LEMMA RoundInv ==
    ASSUME IInv, NEW s \in Server, NEW id \in Nat, Round(s, id),
           UNCHANGED snapshot
    PROVE  /\ StateInv'
           /\ role' \in [Server -> {FOLLOWER, CANDICATE, LEADER}]
           /\ elections' \in SUBSET Election
<1> DEFINE st == [rf[s] EXCEPT !.currentTerm = @ + 1, !.votedFor = s]
<1>1. Contiguous(rf[s]) /\ rf[s] \in RaftState
  BY StateContiguous DEF IInv
<1>2. Others(s, id) \in SUBSET Election
  BY DEF IInv, RestInv, Others
<1>3. CASE role[s] = LEADER
  <2>1. elections' = Others(s, id) /\ UNCHANGED <<rf, disk, role>>
    BY <1>3 DEF Round
  <2> QED
    BY <1>2, <2>1, KeepState DEF IInv, RestInv, persistent
<1>4. CASE role[s] # LEADER
  <2>1. Contiguous(st) /\ st.lastIncludedIndex = rf[s].lastIncludedIndex
        /\ st.currentTerm \in Nat /\ st.logs = rf[s].logs
    <3>1. rf[s].currentTerm + 1 \in Nat
      BY <1>1 DEF RaftState
    <3>2. st = Voted(rf[s], rf[s].currentTerm + 1, s)
      BY DEF Voted
    <3> HIDE DEF st
    <3> QED
      BY <1>1, <3>1, <3>2, VoteContiguous
  <2>2. /\ persist(s, st) /\ role' = [role EXCEPT ![s] = CANDICATE]
        /\ rf[s].logs # <<>>
        /\ elections' = Others(s, id) \cup
              {[cand |-> s, id |-> id, term |-> st.currentTerm,
                LastLogIndex |-> getLastLog(st).LogIndex,
                LastLogTerm |-> getLastLog(st).LogTerm,
                answered |-> {}, granted |-> {}, higher |-> 0]}
    BY <1>4 DEF Round
  <2>3. StateInv'
    BY <2>1, <2>2, PersistState, Zenon DEF IInv
  <2>4. getLastLog(st) \in LogEntry
    BY <2>1, <2>2, LogPositions, Zenon
  <2>5. elections' \in SUBSET Election
    <3> HIDE DEF st
    <3> QED
      BY <1>2, <2>1, <2>2, <2>4 DEF Election, LogEntry
  <2> QED
    BY <2>2, <2>3, <2>5, Zenon DEF IInv, RestInv
<1> QED
  BY <1>3, <1>4

\* Where a HeartBeatToServer goroutine is.
Beat == [top: Nat, append: Nat, snap: Nat]

\* A goroutine of a leader changes.
LEMMA BeatsType ==
    ASSUME RestInv, NEW s \in Server, NEW p \in Server, NEW b \in Beat,
           beats' = [beats EXCEPT ![s][p] = b]
    PROVE  beats' \in [Server -> [Server -> Beat]]
<1>1. beats \in [Server -> [Server -> Beat]]
  BY DEF RestInv, Beat
<1>2. [beats[s] EXCEPT ![p] = b] \in [Server -> Beat]
  BY <1>1
<1> QED
  BY <1>1, <1>2

\* A goroutine of a leader returns.
LEMMA ReturnType ==
    ASSUME RestInv, NEW s \in Server, NEW p \in Server, Return(s, p)
    PROVE  beats' \in [Server -> [Server -> Beat]]
<1>1. beats[s][p] \in Beat
  BY DEF RestInv, Beat
<1>2. Moved(beats[s][p], 1, 0, 0) \in Beat
  BY <1>1 DEF Beat, Moved
<1> QED
  BY <1>2, BeatsType, Zenon DEF Return

\* A goroutine goes on after its call.
LEMMA ResumeType ==
    ASSUME RestInv, NEW m \in calls, GoodCall(m), Resume(m)
    PROVE  beats' \in [Server -> [Server -> Beat]]
<1>1. m.src \in Server /\ m.dst \in Server
  BY CallAtStage DEF GoodCall
<1>2. Return(m.src, m.dst) \/ UNCHANGED beats
  BY DEF Resume
<1>3. CASE Return(m.src, m.dst)
  BY <1>1, <1>3, ReturnType
<1>4. CASE UNCHANGED beats
  BY <1>4 DEF RestInv, Beat
<1> QED
  BY <1>2, <1>3, <1>4

\* What a leader records of a peer.
LEMMA LeaderRecord ==
    ASSUME RestInv, NEW s \in Server, NEW l \in Leader,
           leaderPtr' = [leaderPtr EXCEPT ![s] = l]
    PROVE  leaderPtr' \in [Server -> Leader \cup {Nil}]
  BY DEF RestInv

\* nextIndex and matchIndex of a peer are set.
LEMMA LeaderMoves ==
    ASSUME NEW l \in Leader, NEW p \in Server, NEW i \in Nat
    PROVE  SendFrom(l, p, i) \in Leader /\ Matched(l, p, i) \in Leader
<1>1. /\ [l.nextIndexs EXCEPT ![p] = i] \in [Server -> Nat]
      /\ [l.nextIndexs EXCEPT ![p] = i + 1] \in [Server -> Nat]
      /\ [l.matchIndexs EXCEPT ![p] = i] \in [Server -> Nat]
      /\ l.matchIndexs \in [Server -> Nat]
  BY DEF Leader
<1> QED
  BY <1>1 DEF Leader, SendFrom, Matched

-----------------------------------------------------------------------------
(* Replication.                                                            *)


\* A heartbeat goroutine starts its next round.
LEMMA HeartBeatToServerInv ==
    ASSUME IInv, NEW s \in Server, NEW p \in Server, HeartBeatToServer(s, p)
    PROVE  IInv'
<1>1. beats \in [Server -> [Server -> Beat]] /\ beats[s][p].top > 0
  BY DEF IInv, RestInv, Beat, HeartBeatToServer
<1>2. beats' \in [Server -> [Server -> Beat]]
  <2>1. beats[s][p] \in Beat
    BY <1>1
  <2>2. /\ Moved(beats[s][p], -1, 0, 0) \in Beat
        /\ Moved(beats[s][p], -1, 0, 1) \in Beat
        /\ Moved(beats[s][p], -1, 1, 0) \in Beat
    BY <1>1, <2>1 DEF Beat, Moved
  <2>3. \/ beats' = [beats EXCEPT ![s][p] = Moved(@, -1, 0, 0)]
        \/ beats' = [beats EXCEPT ![s][p] = Moved(@, -1, 0, 1)]
        \/ beats' = [beats EXCEPT ![s][p] = Moved(@, -1, 1, 0)]
    BY DEF HeartBeatToServer
  <2> QED
    BY <2>2, <2>3, BeatsType DEF IInv
<1>3. StateInv' /\ CallInv'
  BY KeepState DEF IInv, CallInv, HeartBeatToServer
<1>4. RestInv'
  BY <1>2 DEF IInv, RestInv, Beat, HeartBeatToServer, elector, pending, service, history
<1> QED
  BY <1>3, <1>4 DEF IInv

\* The entry next and the entry before it, in a log that counts up.
LEMMA NextPosition ==
    ASSUME NEW st \in RaftState, Contiguous(st), st.logs # <<>>, NEW next \in Nat,
           getLastLog(st).LogIndex >= next, next > st.lastIncludedIndex
    PROVE  LET pos == logIndex2LogPos(st, next)
           IN  /\ pos \in 1..Len(st.logs)
               /\ st.logs[pos - 1].LogIndex = next - 1
               /\ st.logs[pos - 1] \in LogEntry
               /\ st.lastIncludedIndex + pos - 1 = next
<1> DEFINE pos == logIndex2LogPos(st, next)
<1>1. /\ st.lastIncludedIndex \in Nat /\ Len(st.logs) \in Nat
      /\ st.logs \in Seq(LogEntry)
      /\ getLastLog(st).LogIndex = st.lastIncludedIndex + Len(st.logs) - 1
  BY LogPositions DEF RaftState
<1>2. pos = next - st.lastIncludedIndex + 1
  BY DEF logIndex2LogPos
<1> HIDE DEF pos
<1>3. /\ pos \in 1..Len(st.logs) /\ pos - 1 \in 1..Len(st.logs)
      /\ st.lastIncludedIndex + pos - 1 = next
      /\ st.lastIncludedIndex + (pos - 1) - 1 = next - 1
  <2> DEFINE base == st.lastIncludedIndex
             len  == Len(st.logs)
             last == getLastLog(st).LogIndex
  <2>1. /\ base \in Nat /\ len \in Nat /\ last = base + len - 1
        /\ last >= next /\ next > base /\ pos = next - base + 1
    BY <1>1, <1>2
  <2> HIDE DEF base, len, last
  <2>2. pos \in 1..len /\ pos - 1 \in 1..len
    BY <2>1
  <2>3. base + pos - 1 = next /\ base + (pos - 1) - 1 = next - 1
    BY <2>1
  <2> QED
    BY <2>2, <2>3 DEF base, len
<1>4. st.logs[pos - 1].LogIndex = st.lastIncludedIndex + (pos - 1) - 1
  <2>1. DOMAIN st.logs = 1..Len(st.logs)
    BY <1>1
  <2> QED
    BY <2>1, <1>3, Zenon DEF Contiguous, CountsFrom
<1> QED
  BY <1>1, <1>3, <1>4 DEF pos

\* The entries a leader sends follow the PrevLogIndex it names.
LEMMA ArgsGood ==
    ASSUME IInv, NEW s \in Server, NEW p \in Server,
           rf[s].logs # <<>>, leaderPtr[s] # Nil,
           \/ leaderPtr[s].nextIndexs[p] > rf[s].lastIncludedIndex
           \/ getLastLog(rf[s]).LogIndex < leaderPtr[s].nextIndexs[p]
    PROVE  GoodCall(AppendEntriesArgs(s, p))
<1> DEFINE st   == rf[s]
           next == leaderPtr[s].nextIndexs[p]
           pos  == logIndex2LogPos(st, next)
           a    == AppendEntriesArgs(s, p)
<1>1. Contiguous(st) /\ st \in RaftState
  BY StateContiguous DEF IInv
<1>2. next \in Nat /\ commitIndex[s] \in Nat /\ st.currentTerm \in Nat
      /\ st.lastIncludedIndex \in Nat
  BY <1>1, Zenon DEF IInv, RestInv, Leader, RaftState
<1>3. /\ getLastLog(st).LogIndex = st.lastIncludedIndex + Len(st.logs) - 1
      /\ Len(st.logs) \in Nat \ {0}
  BY <1>1, LogPositions
<1>4. CASE getLastLog(st).LogIndex >= next
  <2>1. next > st.lastIncludedIndex
    BY <1>2, <1>3, <1>4
  <2>2. /\ pos \in 1..Len(st.logs)
        /\ st.logs[pos - 1].LogIndex = next - 1
        /\ st.logs[pos - 1] \in LogEntry
        /\ st.lastIncludedIndex + pos - 1 = next
    BY <1>1, <1>2, <1>4, <2>1, NextPosition, Zenon
  <2>3. /\ SubSeq(st.logs, pos, Len(st.logs)) \in Seq(LogEntry)
        /\ CountsFrom(SubSeq(st.logs, pos, Len(st.logs)), next)
    BY <1>1, <2>2, SuffixCounts
  <2>4. a = [stage |-> "AppendEntries", src |-> s, dst |-> p, id |-> 0,
             waiting |-> TRUE, LeaderTerm |-> st.currentTerm,
             PrevLogIndex |-> st.logs[pos - 1].LogIndex,
             PrevLogTerm |-> st.logs[pos - 1].LogTerm,
             Entries |-> SubSeq(st.logs, pos, Len(st.logs)),
             LeaderCommit |-> commitIndex[s]]
    BY <1>4 DEF AppendEntriesArgs
  <2>5. /\ a \in AppendEntriesCall
        /\ a.stage = "AppendEntries" /\ a.PrevLogIndex + 1 = next
        /\ a.Entries = SubSeq(st.logs, pos, Len(st.logs))
    <3> HIDE DEF a, pos, next, st
    <3>1. st.logs[pos - 1].LogTerm \in Int
      BY <2>2 DEF LogEntry
    <3>2. next - 1 \in Int /\ (next - 1) + 1 = next
      BY <1>2
    <3> QED
      BY <1>2, <2>2, <2>3, <2>4, <3>1, <3>2, Zenon DEF AppendEntriesCall
  <2> HIDE DEF a, pos, next, st
  <2> QED
    BY <2>3, <2>5 DEF GoodCall, Call, a
<1>5. CASE ~(getLastLog(st).LogIndex >= next)
  <2>1. a = [stage |-> "AppendEntries", src |-> s, dst |-> p, id |-> 0,
             waiting |-> TRUE, LeaderTerm |-> st.currentTerm,
             PrevLogIndex |-> -1, PrevLogTerm |-> -1, Entries |-> <<>>,
             LeaderCommit |-> commitIndex[s]]
    BY <1>5 DEF AppendEntriesArgs
  <2>2. a \in AppendEntriesCall /\ a.stage = "AppendEntries" /\ a.Entries = <<>>
    BY <1>2, <2>1 DEF AppendEntriesCall
  <2> QED
    BY <2>2 DEF GoodCall, Call
<1> QED
  BY <1>4, <1>5

\* The goroutine sends AppendEntries with entries of the log.
LEMMA doAppendEntriesRPCInv ==
    ASSUME IInv, NEW s \in Server, NEW p \in Server, doAppendEntriesRPC(s, p)
    PROVE  IInv'
<1>1. beats \in [Server -> [Server -> Beat]] /\ beats[s][p].append > 0
  BY DEF IInv, RestInv, Beat, doAppendEntriesRPC
<1>2. beats' \in [Server -> [Server -> Beat]]
  <2>1. beats[s][p] \in Beat
    BY <1>1
  <2>2. /\ Moved(beats[s][p], 1, -1, 0) \in Beat
        /\ Moved(beats[s][p], 0, -1, 0) \in Beat
    BY <1>1, <2>1 DEF Beat, Moved
  <2>3. \/ beats' = [beats EXCEPT ![s][p] = Moved(@, 1, -1, 0)]
        \/ beats' = [beats EXCEPT ![s][p] = Moved(@, 0, -1, 0)]
    BY DEF doAppendEntriesRPC
  <2> QED
    BY <2>2, <2>3, BeatsType DEF IInv
<1>3. CallInv'
  <2>1. CASE UNCHANGED calls
    BY <2>1 DEF IInv, CallInv
  <2>2. CASE ~UNCHANGED calls
    BY <2>2, ArgsGood, SendCalls DEF IInv, doAppendEntriesRPC
  <2> QED
    BY <2>1, <2>2
<1>4. StateInv' /\ RestInv'
  BY <1>2, KeepState, Zenon
     DEF IInv, RestInv, Beat, doAppendEntriesRPC, elector, pending, service, history
<1> QED
  BY <1>3, <1>4 DEF IInv

\* The reply to AppendEntries is a call as the invariant wants it.
LEMMA AppendReplyGood ==
    ASSUME NEW m \in AppendEntriesCall, NEW r, r.Success \in BOOLEAN,
           r.Xterm \in Int, r.Xindex \in Nat, r.Xlen \in Nat, NEW t \in Nat
    PROVE  GoodCall(AppendReply(m, r, t))
<1> DEFINE a == AppendReply(m, r, t)
<1>1. m.Entries # <<>> => m.Entries[Len(m.Entries)].LogIndex \in Nat
  <2>1. m.Entries \in Seq(LogEntry)
    BY DEF AppendEntriesCall
  <2>2. m.Entries # <<>> => m.Entries[Len(m.Entries)] \in LogEntry
    BY <2>1
  <2> QED
    BY <2>2 DEF LogEntry
<1>2. a \in AppendEntriesReplyCall /\ a.stage = "AppendEntriesReply"
  BY <1>1 DEF AppendReply, AppendEntriesCall, AppendEntriesReplyCall
<1> HIDE DEF a
<1> QED
  BY <1>2 DEF GoodCall, Call, a

\* What AppendEntries makes of a contiguous log is contiguous.
LEMMA AppendResultGood ==
    ASSUME NEW st, Contiguous(st),
           NEW m \in AppendEntriesCall, m.stage = "AppendEntries", GoodCall(m),
           st.logs = <<>> => m.Entries = <<>>
    PROVE  LET r == AppendResult(st, m)
           IN  /\ Contiguous([st EXCEPT !.logs = r.logs])
               /\ r.Success \in BOOLEAN /\ r.Xterm \in Int
               /\ r.Xindex \in Nat /\ r.Xlen \in Nat
<1> DEFINE r    == AppendResult(st, m)
           pos  == logIndex2LogPos(st, m.PrevLogIndex)
           same == {i \in 2..pos : st.logs[i].LogTerm = st.logs[pos].LogTerm}
<1>a. st \in RaftState /\ st.logs \in Seq(LogEntry) /\ st.lastIncludedIndex \in Nat
  BY DEF Contiguous, RaftState
<1>b. CASE m.Entries = <<>>
  <2>1. /\ r.logs = st.logs /\ r.Success \in BOOLEAN /\ r.Xterm = 0
        /\ r.Xindex = 0 /\ r.Xlen = 0
    BY <1>b, Zenon DEF AppendResult
  <2>2. [st EXCEPT !.logs = r.logs] = st
    BY <1>a, <2>1 DEF RaftState
  <2> HIDE DEF r
  <2> QED
    BY <2>1, <2>2 DEF r
<1>1. ASSUME m.Entries # <<>>
      PROVE  /\ Len(st.logs) \in Nat \ {0}
             /\ getLastLog(st).LogIndex = st.lastIncludedIndex + Len(st.logs) - 1
  BY <1>1, <1>a, LogPositions
<1>2. m.PrevLogIndex \in Int /\ m.Entries \in Seq(LogEntry)
  BY DEF AppendEntriesCall
<1>3. CASE /\ m.Entries # <<>>
           /\ \/ m.PrevLogIndex < st.lastIncludedIndex
              \/ m.PrevLogIndex > getLastLog(st).LogIndex
  <2>1. /\ r.logs = st.logs /\ r.Success \in BOOLEAN /\ r.Xterm \in {-1, 0}
        /\ r.Xindex = 0 /\ r.Xlen \in {0, getLastLog(st).LogIndex}
    BY <1>3, Zenon DEF AppendResult
  <2>2. [st EXCEPT !.logs = r.logs] = st
    BY <1>a, <2>1 DEF RaftState
  <2>3. getLastLog(st).LogIndex \in Nat
    BY <1>1, <1>3, <1>a
  <2> HIDE DEF r
  <2> QED
    BY <2>1, <2>2, <2>3 DEF r
<1>4. CASE /\ m.Entries # <<>>
           /\ ~(m.PrevLogIndex < st.lastIncludedIndex)
           /\ ~(m.PrevLogIndex > getLastLog(st).LogIndex)
  <2>1. pos \in 1..Len(st.logs) /\ pos = m.PrevLogIndex - st.lastIncludedIndex + 1
    BY <1>1, <1>2, <1>4, <1>a DEF logIndex2LogPos
  <2>2. CASE st.logs[pos].LogTerm = m.PrevLogTerm
    <3>1. /\ r.logs = CutAndAppend(st.logs, pos, m.Entries)
          /\ r.Success = TRUE /\ r.Xterm = 0 /\ r.Xindex = 0 /\ r.Xlen = 0
      BY <1>4, <2>2, Zenon DEF AppendResult
    <3>2. CountsFrom(m.Entries, st.lastIncludedIndex + pos)
      <4>1. st.lastIncludedIndex + pos = m.PrevLogIndex + 1
        BY <1>1, <1>4, <1>a, <1>2, <2>1
      <4> QED
        BY <1>4, <4>1 DEF GoodCall
    <3>4. Contiguous([st EXCEPT !.logs = CutAndAppend(@, pos, m.Entries)])
      <4> HIDE DEF pos
      <4> QED
        BY <1>2, <2>1, <3>2, CutContiguous
    <3>5. Contiguous([st EXCEPT !.logs = r.logs])
      <4> HIDE DEF r, pos
      <4> QED
        BY <3>1, <3>4
    <3>6. /\ r.Success \in BOOLEAN /\ r.Xterm \in Int /\ r.Xindex \in Nat
          /\ r.Xlen \in Nat
      <4> HIDE DEF r, pos
      <4>1. r.Success \in BOOLEAN
        BY <3>1, Zenon
      <4>2. r.Xterm \in Int /\ r.Xindex \in Nat /\ r.Xlen \in Nat
        BY <3>1
      <4> QED
        BY <4>1, <4>2
    <3> QED
      BY <3>5, <3>6
  <2>3. CASE st.logs[pos].LogTerm # m.PrevLogTerm
    <3>1. /\ r.logs = SubSeq(st.logs, 1, pos - 1)
          /\ r.Success = FALSE /\ r.Xterm = st.logs[pos].LogTerm
          /\ r.Xindex = IF same = {} THEN 0 ELSE st.logs[Min(same)].LogIndex
          /\ r.Xlen = 0
      BY <1>4, <2>3, Zenon DEF AppendResult
    <3>2. pos - 1 \in 0..Len(st.logs)
      BY <1>1, <1>4, <1>a, <2>1
    <3>3. \A i \in 1..Len(st.logs) :
            st.logs[i].LogTerm \in Nat /\ st.logs[i].LogIndex \in Nat
      <4>1. \A i \in 1..Len(st.logs) : st.logs[i] \in LogEntry
        BY <1>a
      <4> QED
        BY <4>1 DEF LogEntry
    <3>4. same # {} => Min(same) \in 1..Len(st.logs)
      <4>1. same \in SUBSET Nat /\ \A i \in same : i \in 2..pos
        BY <2>1
      <4> HIDE DEF same
      <4>2. same # {} => Min(same) \in same
        BY <4>1, MinOfNats
      <4>3. \A i \in 2..pos : i \in 1..Len(st.logs)
        BY <1>1, <1>4, <1>a, <2>1
      <4> HIDE DEF pos
      <4> QED
        BY <4>1, <4>2, <4>3, Zenon
    <3>5. Contiguous([st EXCEPT !.logs = SubSeq(@, 1, pos - 1)])
      <4> HIDE DEF pos
      <4> QED
        BY <3>2, PrefixContiguous
    <3>6. Contiguous([st EXCEPT !.logs = r.logs])
      <4> HIDE DEF r, pos
      <4> QED
        BY <3>1, <3>5
    <3>7. /\ r.Success \in BOOLEAN /\ r.Xterm \in Int /\ r.Xindex \in Nat
          /\ r.Xlen \in Nat
      <4> HIDE DEF r, pos, same
      <4>1. r.Success \in BOOLEAN
        BY <3>1, Zenon
      <4>2. r.Xterm \in Int /\ r.Xindex \in Nat /\ r.Xlen \in Nat
        BY <2>1, <3>1, <3>3, <3>4
      <4> QED
        BY <4>1, <4>2
    <3> QED
      BY <3>6, <3>7
  <2> QED
    BY <2>2, <2>3
<1> QED
  BY <1>b, <1>3, <1>4

\* What the service receives: entries of the log, none beyond to.
LEMMA ApplyType ==
    ASSUME RestInv, NEW s \in Server, NEW st, Contiguous(st), st.logs # <<>>,
           NEW from \in Nat, NEW to \in Nat,
           from >= st.lastIncludedIndex, to <= getLastLog(st).LogIndex,
           Apply(s, st, from, to)
    PROVE  /\ cfgLogs' \in [Server -> SUBSET (Nat \X (Command \cup {Nil}))]
           /\ lastAppliedIndex' \in [Server -> Nat]
           /\ \A q \in Server : lastAppliedIndex'[q] <= lastAppliedIndex[q]
                                \/ lastAppliedIndex'[q] <= to
<1> DEFINE sent  == {EntryAt(st, i) : i \in
                       {j \in from..to : ~EntryAt(st, j).IsInternalLog}}
           pairs == {<<e.CommandIndex, e.Command>> : e \in sent}
           tops  == {lastAppliedIndex[s]} \cup {e.LogIndex : e \in sent}
<1>1. ASSUME NEW e \in sent
      PROVE  e \in LogEntry /\ e.LogIndex <= to
  <2>1. PICK i \in from..to : e = EntryAt(st, i)
    OBVIOUS
  <2>2. i \in Int /\ st.lastIncludedIndex <= i /\ i <= to
        /\ i <= getLastLog(st).LogIndex
    <3>1. st.lastIncludedIndex \in Nat
      BY DEF Contiguous, RaftState
    <3>2. getLastLog(st).LogIndex \in Nat
      BY LogPositions DEF LogEntry
    <3> QED
      BY <3>1, <3>2
  <2>3. Holds(st, i)
    BY <2>2, LogPositions
  <2> QED
    BY <2>1, <2>2, <2>3, LogPositions
<1>2. /\ cfgLogs' = [cfgLogs EXCEPT ![s] = @ \cup pairs]
      /\ lastAppliedIndex' = [lastAppliedIndex EXCEPT ![s] = Max(tops)]
  BY DEF Apply
<1> HIDE DEF sent
<1>3. pairs \in SUBSET (Nat \X (Command \cup {Nil}))
  BY <1>1 DEF LogEntry
<1>4. /\ Max(tops) \in Nat
      /\ Max(tops) <= lastAppliedIndex[s] \/ Max(tops) <= to
  <2>1. lastAppliedIndex[s] \in Nat
    BY DEF RestInv
  <2>2. /\ tops \subseteq Int /\ tops # {}
        /\ \A x \in tops : x \in Nat /\ (x = lastAppliedIndex[s] \/ x <= to)
    BY <1>1, <2>1 DEF LogEntry
  <2> HIDE DEF tops
  <2>3. \A x \in tops : x <= lastAppliedIndex[s] + to
    BY <2>1, <2>2
  <2>4. lastAppliedIndex[s] + to \in Int
    BY <2>1
  <2>5. Max(tops) \in tops
    BY <2>2, <2>3, <2>4, MaxOfInts, Zenon
  <2>6. Max(tops) \in Nat /\ (Max(tops) = lastAppliedIndex[s] \/ Max(tops) <= to)
    BY <2>2, <2>5, Zenon
  <2> QED
    BY <2>1, <2>6
<1> HIDE DEF pairs, tops
<1>5. cfgLogs' \in [Server -> SUBSET (Nat \X (Command \cup {Nil}))]
  BY <1>2, <1>3, Zenon DEF RestInv
<1>6. lastAppliedIndex \in [Server -> Nat]
  BY DEF RestInv
<1>7. /\ lastAppliedIndex' \in [Server -> Nat]
      /\ \A q \in Server : lastAppliedIndex'[q] <= lastAppliedIndex[q]
                           \/ lastAppliedIndex'[q] <= to
  BY <1>2, <1>4, <1>6
<1> QED
  BY <1>5, <1>7

\* AppendEntries refuses a smaller term.
LEMMA RejectEntriesInv ==
    ASSUME IInv, NEW s \in Server, RejectEntries(s)
    PROVE  IInv'
<1> DEFINE r == [Success |-> FALSE, Xterm |-> 0, Xindex |-> 0, Xlen |-> 0]
<1>1. PICK m \in Arrived(s, "AppendEntries") :
        Reply(m, AppendReply(m, r, rf[s].currentTerm))
  BY DEF RejectEntries
<1>2. m \in AppendEntriesCall
  BY CallAtStage DEF Arrived, IInv, CallInv, GoodCall
<1>3. rf[s].currentTerm \in Nat
  BY StateContiguous DEF IInv, RaftState
<1>4. r.Success \in BOOLEAN /\ r.Xterm \in Int /\ r.Xindex \in Nat /\ r.Xlen \in Nat
  <2>1. r.Success = FALSE /\ r.Xterm = 0 /\ r.Xindex = 0 /\ r.Xlen = 0
    OBVIOUS
  <2> HIDE DEF r
  <2>2. r.Success \in BOOLEAN
    BY <2>1, Zenon
  <2> QED
    BY <2>1, <2>2
<1> HIDE DEF r
<1>5. CallInv'
  BY <1>1, <1>2, <1>3, <1>4, AppendReplyGood, ReplyCalls DEF IInv
<1>6. StateInv' /\ RestInv'
  BY KeepState DEF IInv, RestInv, RejectEntries, elector, pending, service, history
<1> QED
  BY <1>5, <1>6 DEF IInv

\* The part of AppendEntries up to the commit.
LEMMA AppendEntriesInv ==
    ASSUME IInv, NEW s \in Server, AppendEntries(s)
    PROVE  IInv'
<1>1. PICK m \in Arrived(s, "AppendEntries") : AppendEntries(s)!(m)
  BY Zenon DEF AppendEntries
<1> DEFINE fs == FollowerState(rf[s], m.LeaderTerm)
           r  == AppendResult(fs, m)
           st == [fs EXCEPT !.logs = r.logs]
           to == FollowTo(r, m)
<1>2. /\ rf[s].logs = <<>> => m.Entries = <<>>
      /\ persist(s, st)
      /\ becomeFollower(s)
      /\ Signal(s) \/ UNCHANGED heartBeatCh
      /\ \/ UNCHANGED <<commitIndex, lastAppliedIndex, cfgLogs>>
         \/ /\ to > commitIndex[s]
            /\ commitIndex[s] + 1 >= st.lastIncludedIndex
            /\ commitIndex' = [commitIndex EXCEPT ![s] = to]
            /\ Apply(s, st, commitIndex[s] + 1, to)
      /\ Reply(m, AppendReply(m, r, m.LeaderTerm))
      /\ UNCHANGED <<snapshot, pending, elections, beats, dump, restarts, history>>
  BY <1>1
<1>3. /\ m \in AppendEntriesCall /\ GoodCall(m) /\ m.stage = "AppendEntries"
      /\ m.LeaderTerm \in Nat /\ m.LeaderCommit \in Nat
  BY CallAtStage DEF Arrived, IInv, CallInv, GoodCall, AppendEntriesCall
<1>4. /\ Contiguous(fs) /\ fs.lastIncludedIndex = rf[s].lastIncludedIndex
      /\ fs.logs = rf[s].logs /\ fs \in RaftState
  BY <1>3, StateContiguous, FollowerContiguous DEF IInv
<1> HIDE DEF fs
<1>5. /\ Contiguous(st) /\ r.Success \in BOOLEAN /\ r.Xterm \in Int
      /\ r.Xindex \in Nat /\ r.Xlen \in Nat
  BY <1>2, <1>3, <1>4, AppendResultGood
<1> HIDE DEF r
<1>6. st.lastIncludedIndex = rf[s].lastIncludedIndex /\ st.logs = r.logs
  BY <1>4 DEF RaftState
<1> HIDE DEF st
<1>7. StateInv'
  BY <1>2, <1>5, <1>6, PersistState DEF IInv
<1>8. CallInv'
  BY <1>2, <1>3, <1>5, AppendReplyGood, ReplyCalls DEF IInv
<1>9. /\ commitIndex' \in [Server -> Nat]
      /\ lastAppliedIndex' \in [Server -> Nat]
      /\ cfgLogs' \in [Server -> SUBSET (Nat \X (Command \cup {Nil}))]
  <2>1. CASE UNCHANGED <<commitIndex, lastAppliedIndex, cfgLogs>>
    BY <2>1 DEF IInv, RestInv
  <2>2. CASE /\ to > commitIndex[s]
             /\ commitIndex[s] + 1 >= st.lastIncludedIndex
             /\ commitIndex' = [commitIndex EXCEPT ![s] = to]
             /\ Apply(s, st, commitIndex[s] + 1, to)
    <3>1. commitIndex[s] \in Nat /\ commitIndex[s] + 1 \in Nat
      BY DEF IInv, RestInv
    <3>2. r.Success /\ r.logs # <<>>
      <4>1. ~(0 > commitIndex[s])
        BY <3>1
      <4>2. to # 0
        BY <2>2, <4>1, Zenon
      <4> QED
        BY <4>2, Zenon DEF FollowTo
    <3>3. st.logs # <<>> /\ to = Min({m.LeaderCommit, getLastLog(st).LogIndex})
      BY <1>6, <3>2 DEF FollowTo, getLastLog
    <3>4. getLastLog(st).LogIndex \in Nat
      BY <1>5, <3>3, LogPositions DEF LogEntry
    <3>5. to \in Nat /\ to <= getLastLog(st).LogIndex
      <4> DEFINE a == m.LeaderCommit
                 b == getLastLog(st).LogIndex
      <4>1. a \in Nat /\ b \in Nat /\ to = Min({a, b})
        BY <1>3, <3>3, <3>4
      <4> HIDE DEF to, a, b
      <4>2. Min({a, b}) \in {a, b} /\ Min({a, b}) <= b
        BY <4>1, MaxOfTwo
      <4>3. to \in Nat /\ to <= b
        BY <4>1, <4>2
      <4> QED
        BY <4>3 DEF b
    <3> HIDE DEF to
    <3> QED
      BY <1>5, <2>2, <3>1, <3>3, <3>5, ApplyType, Zenon DEF IInv, RestInv
  <2> QED
    BY <1>2, <2>1, <2>2
<1>10. RestInv'
  BY <1>2, <1>9, FollowerTypes, SignalType, Zenon DEF IInv, RestInv, pending, history
<1> QED
  BY <1>7, <1>8, <1>10 DEF IInv

\* The answer of a follower has the fields of its stage.
LEMMA AnswerType ==
    ASSUME IInv, NEW s \in Server, NEW m \in Returned(s, "AppendEntriesReply")
    PROVE  m \in AppendEntriesReplyCall /\ m.dst \in Server
           /\ m.FollowerTerm \in Nat /\ m.lastEntry \in Nat
           /\ m.Xterm \in Int /\ m.Xindex \in Nat /\ m.Xlen \in Nat
  BY CallAtStage DEF Returned, IInv, CallInv, GoodCall, AppendEntriesReplyCall

\* A reply with a higher term ends a leadership.
LEMMA HigherTermReplyInv ==
    ASSUME IInv, NEW s \in Server, HigherTermReply(s)
    PROVE  IInv'
<1>1. PICK m \in Returned(s, "AppendEntriesReply") : HigherTermReply(s)!(m)
  BY DEF HigherTermReply
<1>2. m.FollowerTerm \in Nat /\ m.dst \in Server
  BY AnswerType
<1>3. StateInv'
  BY <1>1, <1>2, StateContiguous, FollowerContiguous, PersistState DEF IInv
<1>4. CallInv'
  BY <1>1, DropCalls DEF IInv
<1>5. beats' \in [Server -> [Server -> Beat]]
  BY <1>1, <1>2, ReturnType DEF IInv
<1>6. RestInv'
  BY <1>1, <1>5, FollowerTypes DEF IInv, RestInv, Beat, pending, service, history
<1> QED
  BY <1>3, <1>4, <1>6 DEF IInv

\* StaleReply and HeartBeatReply.
LEMMA IgnoredReplyInv ==
    ASSUME IInv, NEW s \in Server, StaleReply(s) \/ HeartBeatReply(s)
    PROVE  IInv'
<1>1. PICK m \in Returned(s, "AppendEntriesReply") :
        /\ calls' = calls \ {m}
        /\ Return(s, m.dst)
        /\ UNCHANGED <<persistent, role, leaderPtr, commitIndex, elector, service,
                       restarts, history>>
  BY DEF StaleReply, HeartBeatReply
<1>2. beats' \in [Server -> [Server -> Beat]]
  BY <1>1, AnswerType, ReturnType DEF IInv
<1>3. CallInv'
  BY <1>1, DropCalls DEF IInv
<1>4. StateInv' /\ RestInv'
  BY <1>1, <1>2, KeepState DEF IInv, RestInv, Beat, elector, pending, service, history
<1> QED
  BY <1>3, <1>4 DEF IInv

\* The commit loop commits an index of the leader's log above commitIndex.
LEMMA CommittableRange ==
    ASSUME IInv, NEW s \in Server, NEW p, NEW i \in Nat, Committable(s, p, i) # {}
    PROVE  LET k == Max(Committable(s, p, i))
           IN  /\ k \in Committable(s, p, i) /\ k \in Nat
               /\ k > commitIndex[s] /\ k <= i /\ i > commitIndex[s]
<1> DEFINE c   == Committable(s, p, i)
           low == Max({commitIndex[s] + 1, rf[s].lastIncludedIndex})
<1>1. /\ commitIndex[s] \in Nat /\ commitIndex[s] + 1 \in Int
      /\ rf[s].lastIncludedIndex \in Int
  BY StateContiguous DEF IInv, RestInv, RaftState
<1>2. low \in Int /\ low >= commitIndex[s] + 1
  <2> DEFINE a == commitIndex[s] + 1
             b == rf[s].lastIncludedIndex
  <2>1. a \in Int /\ b \in Int
    BY <1>1
  <2> HIDE DEF a, b
  <2>2. Max({a, b}) \in {a, b} /\ Max({a, b}) >= a
    BY <2>1, MaxOfTwo
  <2>3. Max({a, b}) \in Int
    BY <2>1, <2>2
  <2> QED
    BY <2>2, <2>3 DEF a, b
<1>3. \A k \in c : k \in low..i
  BY DEF Committable
<1> HIDE DEF low, c
<1>4. \A k \in c : k \in Int /\ k > commitIndex[s] /\ k <= i
  BY <1>1, <1>2, <1>3
<1>5. c # {} /\ c \subseteq Int /\ i \in Int
  BY <1>4 DEF c
<1>6. Max(c) \in c
  BY <1>4, <1>5, MaxOfInts, Zenon
<1>7. Max(c) \in Int /\ Max(c) > commitIndex[s] /\ Max(c) <= i
  BY <1>4, <1>6
<1>8. Max(c) \in Nat /\ i > commitIndex[s]
  BY <1>1, <1>7
<1> QED
  BY <1>6, <1>7, <1>8 DEF c

\* The leader counts the entries that a peer stored.
LEMMA EntriesStoredInv ==
    ASSUME IInv, NEW s \in Server, EntriesStored(s)
    PROVE  IInv'
<1>1. PICK m \in Returned(s, "AppendEntriesReply") : EntriesStored(s)!(m)
  BY Zenon DEF EntriesStored
<1> DEFINE c == Committable(s, m.dst, m.lastEntry)
<1>2. /\ leaderPtr[s] # Nil
      /\ m.lastEntry > commitIndex[s] => Holds(rf[s], m.lastEntry)
      /\ leaderPtr' = [leaderPtr EXCEPT ![s] = Matched(@, m.dst, m.lastEntry)]
      /\ \/ UNCHANGED <<commitIndex, lastAppliedIndex, cfgLogs, acked>>
         \/ /\ c # {}
            /\ commitIndex[s] + 1 >= rf[s].lastIncludedIndex
            /\ commitIndex' = [commitIndex EXCEPT ![s] = Max(c)]
            /\ Apply(s, rf[s], commitIndex[s] + 1, Max(c))
            /\ acked' = Max({acked, Max(c)})
      /\ calls' = calls \ {m}
      /\ Return(s, m.dst)
      /\ UNCHANGED <<persistent, role, elector, dump, restarts, ballots>>
  BY <1>1, Zenon
<1>3. m.dst \in Server /\ m.lastEntry \in Nat
  BY AnswerType
<1>4. Contiguous(rf[s]) /\ rf[s] \in RaftState
  BY StateContiguous DEF IInv
<1>5. StateInv' /\ CallInv'
  BY <1>2, KeepState, DropCalls, Zenon DEF IInv
<1>6. leaderPtr' \in [Server -> Leader \cup {Nil}]
  BY <1>2, <1>3, LeaderMoves, LeaderRecord, Zenon DEF IInv, RestInv
<1>7. beats' \in [Server -> [Server -> Beat]]
  BY <1>2, <1>3, ReturnType, Zenon DEF IInv
<1>8. /\ commitIndex' \in [Server -> Nat] /\ acked' \in Nat
      /\ lastAppliedIndex' \in [Server -> Nat]
      /\ cfgLogs' \in [Server -> SUBSET (Nat \X (Command \cup {Nil}))]
  <2>1. CASE UNCHANGED <<commitIndex, lastAppliedIndex, cfgLogs, acked>>
    BY <2>1 DEF IInv, RestInv
  <2>2. CASE /\ c # {}
             /\ commitIndex[s] + 1 >= rf[s].lastIncludedIndex
             /\ commitIndex' = [commitIndex EXCEPT ![s] = Max(c)]
             /\ Apply(s, rf[s], commitIndex[s] + 1, Max(c))
             /\ acked' = Max({acked, Max(c)})
    <3> DEFINE k == Max(c)
    <3>1. k \in Nat /\ k <= m.lastEntry /\ m.lastEntry > commitIndex[s]
      BY <1>3, <2>2, CommittableRange
    <3>2. rf[s].logs # <<>>
      <4>1. Holds(rf[s], m.lastEntry)
        BY <1>2, <3>1, Zenon
      <4> QED
        BY <4>1 DEF Holds
    <3>3. m.lastEntry <= getLastLog(rf[s]).LogIndex
      <4>1. Holds(rf[s], m.lastEntry)
        BY <1>2, <3>1, Zenon
      <4>2. m.lastEntry \in Int
        BY <1>3
      <4>3. \A i \in Int : Holds(rf[s], i) =>
               rf[s].lastIncludedIndex <= i /\ i <= getLastLog(rf[s]).LogIndex
        BY <1>4, <3>2, LogPositions
      <4> QED
        BY <4>1, <4>2, <4>3, Zenon
    <3>4. getLastLog(rf[s]).LogIndex \in Nat
      BY <1>4, <3>2, LogPositions DEF LogEntry
    <3>5. commitIndex[s] + 1 \in Nat /\ acked \in Nat
      BY DEF IInv, RestInv
    <3> HIDE DEF c, k
    <3>6. k <= getLastLog(rf[s]).LogIndex
      <4>1. m.lastEntry \in Nat
        BY <1>3
      <4> QED
        BY <3>1, <3>3, <3>4, <4>1, AtMost, Zenon
    <3>7. acked' \in Nat
      <4>1. acked' = Max({acked, k})
        BY <2>2 DEF k
      <4>2. Max({acked, k}) \in {acked, k}
        <5>1. acked \in Int /\ k \in Int
          BY <3>1, <3>5
        <5> QED
          BY <5>1, MaxOfTwo, Zenon
      <4> QED
        BY <3>1, <3>5, <4>1, <4>2
    <3>8. /\ commitIndex' = [commitIndex EXCEPT ![s] = k]
          /\ Apply(s, rf[s], commitIndex[s] + 1, k)
      BY <2>2 DEF k
    <3>9. /\ lastAppliedIndex' \in [Server -> Nat]
          /\ cfgLogs' \in [Server -> SUBSET (Nat \X (Command \cup {Nil}))]
      BY <1>4, <2>2, <3>1, <3>2, <3>5, <3>6, <3>8, ApplyType, Zenon DEF IInv
    <3> QED
      BY <3>1, <3>7, <3>8, <3>9, Zenon DEF IInv, RestInv
  <2> QED
    BY <1>2, <2>1, <2>2, Zenon
<1>9. RestInv'
  BY <1>2, <1>6, <1>7, <1>8, Zenon DEF IInv, RestInv, Beat, elector, pending
<1> QED
  BY <1>5, <1>9 DEF IInv

\* The index to which a leader goes back is a natural number.
LEMMA BackToType ==
    ASSUME NEW st, Contiguous(st), st.logs # <<>>, NEW next \in Nat,
           NEW m, m.Xlen \in Nat, m.Xindex \in Nat
    PROVE  BackTo(st, next, m) \in Nat
<1> DEFINE low == {i \in st.lastIncludedIndex..getLastLog(st).LogIndex :
                     EntryAt(st, i).LogTerm <= m.Xterm}
<1>1. st.lastIncludedIndex \in Nat /\ getLastLog(st).LogIndex \in Nat
  BY LogPositions, Zenon DEF Contiguous, RaftState, LogEntry
<1>2. low # {} => Max(low) \in Nat
  <2>1. \A i \in low : i \in Nat /\ i <= getLastLog(st).LogIndex
    BY <1>1
  <2> HIDE DEF low
  <2>2. low # {} => Max(low) \in low
    BY <1>1, <2>1, MaxOfInts
  <2> QED
    BY <2>1, <2>2
<1>3. BackTo(st, next, m) \in {m.Xlen + 1, next, Max(low) + 1, m.Xindex}
      /\ (BackTo(st, next, m) = Max(low) + 1 /\ low = {} =>
            BackTo(st, next, m) \in {m.Xlen + 1, next})
  BY DEF BackTo
<1> HIDE DEF low
<1>4. m.Xlen + 1 \in Nat
  OBVIOUS
<1>5. CASE low = {}
  BY <1>3, <1>4, <1>5, Zenon
<1>6. CASE low # {}
  <2>1. Max(low) + 1 \in Nat
    BY <1>2, <1>6
  <2> QED
    BY <1>3, <1>4, <2>1, Zenon
<1> QED
  BY <1>5, <1>6, Zenon

\* The leader goes back in the log of a peer that reports a conflict.
LEMMA LogConflictInv ==
    ASSUME IInv, NEW s \in Server, LogConflict(s)
    PROVE  IInv'
<1>1. PICK m \in Returned(s, "AppendEntriesReply") : LogConflict(s)!(m)
  BY Zenon DEF LogConflict
<1> DEFINE back == BackTo(rf[s], leaderPtr[s].nextIndexs[m.dst], m)
<1>2. m.dst \in Server /\ m.Xlen \in Nat /\ m.Xindex \in Nat
  BY AnswerType
<1>3. leaderPtr[s] \in Leader
  BY <1>1, Zenon DEF IInv, RestInv
<1>4. back \in Nat
  <2>1. leaderPtr[s].nextIndexs[m.dst] \in Nat
    BY <1>2, <1>3 DEF Leader
  <2> QED
    BY <1>1, <1>2, <2>1, StateContiguous, BackToType, Zenon DEF IInv
<1>5. leaderPtr' \in [Server -> Leader \cup {Nil}]
  <2>1. leaderPtr' = [leaderPtr EXCEPT ![s] = SendFrom(@, m.dst, back)]
    BY <1>1
  <2> HIDE DEF back
  <2> QED
    BY <1>2, <1>3, <1>4, <2>1, LeaderMoves, LeaderRecord, Zenon DEF IInv
<1>6. beats' \in [Server -> [Server -> Beat]]
  BY <1>1, <1>2, ReturnType DEF IInv
<1>7. StateInv' /\ CallInv'
  BY <1>1, KeepState, DropCalls, Zenon DEF IInv
<1>8. RestInv'
  BY <1>1, <1>5, <1>6, Zenon DEF IInv, RestInv, Beat, elector, pending, service, history
<1> QED
  BY <1>7, <1>8 DEF IInv
=============================================================================
