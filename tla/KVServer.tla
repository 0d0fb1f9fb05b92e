------------------------------ MODULE KVServer ------------------------------
(***************************************************************************)
(* The replicated key/value service of kvraft: clerks that retry           *)
(* (client.go), the RPC handlers that put operations into the Raft log and *)
(* wait, applyMsgLoop and snapshotLoop (server.go).                        *)
(*                                                                         *)
(* Below it stands what the service is promised by Raft, not raft.go       *)
(* itself (module Raft): one sequence of chosen entries, leaders whose log *)
(* contains it, and stale leaders that still take commands.  Internal      *)
(* no-op entries never reach the service and are left out, so the          *)
(* CommandIndex of an entry is its place in the log.                       *)
(*                                                                         *)
(* A stored value is the sequence of the writes that made it, each named   *)
(* by ClientId and SeqId; the empty sequence is a key that does not exist. *)
(***************************************************************************)
EXTENDS Integers, Sequences, FiniteSets

CONSTANTS
    nServers,     \* servers are 0 .. nServers-1, as leaderIndex counts them
    Client, Key,
    Types,        \* the operations that clerks call
    Compacting,   \* maxraftstate # -1
    MaxOps,       \* bound: operations of a clerk
    MaxCalls,     \* bound: RPCs of a clerk
    MaxRequests,  \* bound: RPCs of all clerks, and so entries of a log
    MaxTerm,      \* bound: elections
    MaxLost,      \* bound: RPCs that are lost, or too slow for their clerk
    MaxCrashes    \* bound: server crashes

Server == 0..(nServers - 1)

ASSUME KVAssumption ==
    /\ nServers \in Nat \ {0}
    /\ Compacting \in BOOLEAN
    /\ Types \subseteq {"Get", "Put", "Append"}
    /\ Key # {}
    /\ {MaxOps, MaxCalls, MaxRequests, MaxTerm, MaxLost, MaxCrashes} \subseteq Nat

VARIABLES
    clerk,     \* [Client -> Clerk]
    calls,     \* [Client -> [1..MaxCalls -> Call]]: each RPC and its handler
    log,       \* Raft: the log of each server
    leads,     \* Raft: the term in which a server believes it leads, or 0
    term,      \* Raft: the latest term
    chosen,    \* Raft: the committed entries
    snap,      \* Raft: the snapshot each server holds
    up,        \* the servers that run
    kv,        \* [Server -> KV]: the memory of each KVServer
    cmdMap,    \* [Server -> [Index -> Call number or NoCall]]
    dump,      \* the snapshot between snapshotLoop's lock and TakeSnapshot
    lost, crashes

raft == <<log, leads, term, chosen, snap>>
vars == <<clerk, calls, raft, up, kv, cmdMap, dump, lost, crashes>>

Id    == Client \X (1..MaxOps)
Index == 1..MaxRequests
Value == Seq(Id)

\* The part of an Op that its clerk fills in.
Op == [ClientId: Client, SeqId: 0..MaxOps, Type: {"Get", "Put", "Append"}, Key: Key]

\* A log entry; CmdIndex is its place.
Entry == [op: Op, LogTerm: 1..MaxTerm]

\* kvStore, seqMap (0: not there) and lastAppliedIndex; also what a snapshot holds.
KV == [kvStore: [Key -> Value], seqMap: [Client -> 0..MaxOps],
       lastAppliedIndex: {0} \cup Index]

\* What a clerk remembers: its operation and the RPC it waits for.  start and
\* result are history: the committed entries when the operation began, the answer.
Clerk == [waiting: BOOLEAN, op: Op, leaderIndex: Server, sent: 0..MaxCalls,
          start: {0} \cup Index, result: Value]

\* An RPC: on its way, its handler's stages with its OpContext, the reply.
Call == [stage: {"none", "sent", "started", "waiting", "closed", "reply"},
         op: Op, server: Server, index: {0} \cup Index, Term: 0..MaxTerm,
         wrongLeader: BOOLEAN, Err: {"OK", "ErrWrongLeader"}, value: Value]

NoCall == <<>>
NoDump == <<>>
Empty  == [kvStore |-> [k \in Key |-> <<>>], seqMap |-> [c \in Client |-> 0],
           lastAppliedIndex |-> 0]
NoOp   == [ClientId |-> CHOOSE c \in Client : TRUE, SeqId |-> 0, Type |-> "Get",
           Key |-> CHOOSE k \in Key : TRUE]
Unsent == [stage |-> "none", op |-> NoOp, server |-> 0, index |-> 0, Term |-> 0,
           wrongLeader |-> FALSE, Err |-> "OK", value |-> <<>>]

-----------------------------------------------------------------------------
(* The clerk.                                                              *)

\* Mutation of NextServer: the index is not wrapped.
NextServerUnwrapped(s) == s + 1

\* changeLeader.
NextServer(s) == (s + 1) % nServers

\* The calls of c, a reply nobody reads left out, with a new RPC for op to server s.
Sent(c, op, s) ==
    [calls EXCEPT ![c] = [n \in 1..MaxCalls |->
        IF n = clerk[c].sent + 1
        THEN [Unsent EXCEPT !.stage = "sent", !.op = op, !.server = s]
        ELSE IF @[n].stage = "reply" THEN Unsent ELSE @[n]]]

MaySend(c) ==
    /\ clerk[c].sent < MaxCalls
    /\ Cardinality({p \in Client \X (1..MaxCalls) : p[2] <= clerk[p[1]].sent}) < MaxRequests

\* Get, Put or Append is called: the operation takes the next sequence number.
Invoke(c, type, k) ==
    LET op == [ClientId |-> c, SeqId |-> clerk[c].op.SeqId + 1, Type |-> type, Key |-> k]
    IN /\ ~clerk[c].waiting
       /\ clerk[c].op.SeqId < MaxOps /\ MaySend(c)
       /\ calls' = Sent(c, op, clerk[c].leaderIndex)
       /\ clerk' = [clerk EXCEPT ![c].waiting = TRUE, ![c].op = op, ![c].sent = @ + 1,
                                 ![c].start = Len(chosen)]
       /\ UNCHANGED <<raft, up, kv, cmdMap, dump, lost, crashes>>

\* The loop goes round: the same operation is sent to server s.
Resend(c, s) ==
    /\ MaySend(c)
    /\ clerk' = [clerk EXCEPT ![c].leaderIndex = s, ![c].sent = @ + 1]

Current(c) == calls[c][clerk[c].sent]

\* The RPC takes longer than 3 s: the same server is asked again.  The old RPC
\* goes on.
ClientTimeout(c) ==
    /\ clerk[c].waiting
    /\ lost < MaxLost
    /\ lost' = lost + 1
    /\ Resend(c, clerk[c].leaderIndex)
    /\ calls' = Sent(c, clerk[c].op, clerk[c].leaderIndex)
    /\ UNCHANGED <<raft, up, kv, cmdMap, dump, crashes>>

\* Call returns false: the request or its reply is lost.  PutAppend tries the next
\* server, Get the same one.
CallFails(c) ==
    LET s == IF clerk[c].op.Type = "Get" THEN clerk[c].leaderIndex
             ELSE NextServer(clerk[c].leaderIndex)
    IN /\ clerk[c].waiting /\ Current(c).stage = "none"
       /\ Resend(c, s)
       /\ calls' = Sent(c, clerk[c].op, s)
       /\ UNCHANGED <<raft, up, kv, cmdMap, dump, lost, crashes>>

\* A reply arrives: the operation is over, or goes to the next server.
Receive(c) ==
    LET m == Current(c)
        s == NextServer(clerk[c].leaderIndex)
    IN /\ clerk[c].waiting /\ m.stage = "reply"
       /\ \/ /\ m.Err = "OK"
             /\ clerk' = [clerk EXCEPT ![c].waiting = FALSE, ![c].result = m.value]
             /\ calls' = [calls EXCEPT ![c][clerk[c].sent] = Unsent]
          \/ /\ m.Err = "ErrWrongLeader"
             /\ Resend(c, s)
             /\ calls' = Sent(c, clerk[c].op, s)
       /\ UNCHANGED <<raft, up, kv, cmdMap, dump, lost, crashes>>

\* labrpc drops a request or a reply.
Lose(c, n) ==
    /\ calls[c][n].stage \in {"sent", "reply"}
    /\ lost < MaxLost
    /\ lost' = lost + 1
    /\ calls' = [calls EXCEPT ![c][n] = Unsent]
    /\ UNCHANGED <<clerk, raft, up, kv, cmdMap, dump, crashes>>

-----------------------------------------------------------------------------
(* The handlers Get and PutAppend.                                         *)

\* Mutation of Replied: the loop's reply variable is shared by all RPCs of a clerk.
RepliedToAny(c, n, err, value) ==
    [calls EXCEPT ![c] = [i \in 1..MaxCalls |->
        IF clerk[c].waiting /\ clerk[c].sent = i
        THEN [Unsent EXCEPT !.stage = "reply", !.Err = err, !.value = value]
        ELSE IF i = n THEN Unsent ELSE @[i]]]

\* The calls after call n of c is answered.  The clerk reads the answer only if it
\* still waits for that call.
Replied(c, n, err, value) ==
    [calls EXCEPT ![c][n] =
        IF clerk[c].waiting /\ clerk[c].sent = n
        THEN [Unsent EXCEPT !.stage = "reply", !.Err = err, !.value = value] ELSE Unsent]

\* rf.Start says that this server does not lead.
NotLeader(c, n) ==
    LET m == calls[c][n]
    IN /\ m.stage = "sent" /\ m.server \in up
       /\ leads[m.server] = 0
       /\ calls' = Replied(c, n, "ErrWrongLeader", <<>>)
       /\ UNCHANGED <<clerk, raft, up, kv, cmdMap, dump, lost, crashes>>

\* rf.Start appends the operation.
Start(c, n) ==
    LET m == calls[c][n]
        t == leads[m.server]
    IN /\ m.stage = "sent" /\ m.server \in up
       /\ t # 0 /\ Len(log[m.server]) < MaxRequests
       /\ log' = [log EXCEPT ![m.server] =
                     Append(@, [op |-> m.op, LogTerm |-> t])]
       /\ calls' = [calls EXCEPT ![c][n] =
             [m EXCEPT !.stage = "started", !.index = Len(log'[m.server]), !.Term = t]]
       /\ UNCHANGED <<clerk, leads, term, chosen, snap, up, kv, cmdMap, dump, lost, crashes>>

\* The results of Start are stored in the Op, and its context in cmdMap.
Register(c, n) ==
    LET m == calls[c][n]
    IN /\ m.stage = "started"
       /\ cmdMap' = [cmdMap EXCEPT ![m.server][m.index] = <<c, n>>]
       /\ calls' = [calls EXCEPT ![c][n].stage = "waiting"]
       /\ UNCHANGED <<clerk, raft, up, kv, dump, lost, crashes>>

\* Mutation of Forget: a handler that returns leaves its context in cmdMap.
ForgetNothing(c, n) == UNCHANGED cmdMap

\* The deferred clean-up: the context leaves cmdMap if it is still there.
Forget(c, n) ==
    LET m == calls[c][n]
    IN cmdMap' = [cmdMap EXCEPT ![m.server][m.index] = IF @ = <<c, n>> THEN NoCall ELSE @]

\* The handler sees that commitedChan is closed, and replies.
Committed(c, n) ==
    LET m == calls[c][n]
    IN /\ m.stage = "closed"
       /\ Forget(c, n)
       /\ calls' = IF m.wrongLeader THEN Replied(c, n, "ErrWrongLeader", <<>>)
                   ELSE Replied(c, n, "OK", m.value)
       /\ UNCHANGED <<clerk, raft, up, kv, dump, lost, crashes>>

\* Or its ticker fires first.
HandlerTimeout(c, n) ==
    LET m == calls[c][n]
    IN /\ m.stage \in {"waiting", "closed"}
       /\ Forget(c, n)
       /\ calls' = Replied(c, n, "ErrWrongLeader", <<>>)
       /\ UNCHANGED <<clerk, raft, up, kv, dump, lost, crashes>>

-----------------------------------------------------------------------------
(* What Raft promises (see module Raft for what raft.go does).             *)

\* The log of s agrees with the first n chosen entries.
HasChosen(s, n) == Len(log[s]) >= n /\ SubSeq(log[s], 1, n) = SubSeq(chosen, 1, n)

IsLeader(s) == s \in up /\ term > 0 /\ leads[s] = term

\* A server whose log has every chosen entry becomes the leader of a new term.
Elect(s) ==
    /\ s \in up /\ term < MaxTerm
    /\ HasChosen(s, Len(chosen))
    /\ term' = term + 1
    /\ leads' = [leads EXCEPT ![s] = term + 1]
    /\ UNCHANGED <<clerk, calls, log, chosen, snap, up, kv, cmdMap, dump, lost, crashes>>

\* The leader l brings s up to date.
Replicate(l, s) ==
    /\ IsLeader(l) /\ s \in up \ {l}
    /\ log' = [log EXCEPT ![s] = log[l]]
    /\ leads' = [leads EXCEPT ![s] = 0]
    /\ UNCHANGED <<clerk, calls, term, chosen, snap, up, kv, cmdMap, dump, lost, crashes>>

\* The leader commits the next entry of its log.
Commit(l) ==
    /\ IsLeader(l) /\ Len(log[l]) > Len(chosen)
    /\ chosen' = Append(chosen, log[l][Len(chosen) + 1])
    /\ UNCHANGED <<clerk, calls, log, leads, term, snap, up, kv, cmdMap, dump, lost, crashes>>

-----------------------------------------------------------------------------
(* applyMsgLoop.                                                           *)

\* kvStore and seqMap after one operation.  seqMap is always set; a write changes
\* the store only if its sequence number is higher than the last.
Applied(st, op) ==
    LET id == <<op.ClientId, op.SeqId>>
    IN [kvStore |->
            IF op.Type = "Get" \/ op.SeqId <= st.seqMap[op.ClientId] THEN st.kvStore
            ELSE [st.kvStore EXCEPT ![op.Key] =
                    IF op.Type = "Append" THEN Append(@, id) ELSE <<id>>],
        seqMap |-> [st.seqMap EXCEPT ![op.ClientId] = op.SeqId],
        lastAppliedIndex |-> st.lastAppliedIndex + 1]

\* The Term that the Op of entry e has at server s.  The handler sets it after Start
\* has put the Op into the log, so a copy made before that has none; the server that
\* still leads in that term has the Op itself.
TermOf(e, s) == IF leads[s] = e.LogTerm THEN {e.LogTerm} ELSE {0, e.LogTerm}

\* Mutation of Closed: the terms are not compared.
ClosedAnyTerm(m, op, t, st) ==
    [m EXCEPT !.stage = "closed", !.wrongLeader = FALSE,
              !.value = IF op.Type = "Get" THEN st.kvStore[op.Key] ELSE <<>>]

\* The context after the operation op with term t was applied to st: it is told if
\* the term is not the one it waits for.
Closed(m, op, t, st) ==
    [m EXCEPT !.stage = "closed", !.wrongLeader = (t # m.Term),
              !.value = IF op.Type = "Get" THEN st.kvStore[op.Key] ELSE <<>>]

\* The next chosen entry arrives on applyCh.
ApplyMsg(s) ==
    LET i  == kv[s].lastAppliedIndex + 1
        e  == log[s][i]
        at == cmdMap[s][i]
    IN /\ s \in up /\ i <= Len(chosen) /\ HasChosen(s, i)
       /\ kv' = [kv EXCEPT ![s] = Applied(@, e.op)]
       /\ \/ at = NoCall /\ UNCHANGED calls
          \/ /\ at # NoCall
             /\ \E t \in TermOf(e, s) :
                  calls' = [calls EXCEPT ![at[1]][at[2]] = Closed(@, e.op, t, kv'[s])]
       /\ UNCHANGED <<clerk, raft, up, cmdMap, dump, lost, crashes>>

\* Mutation of Decoded: what memory holds wins.
DecodedUnder(st, sn) ==
    [kvStore |-> [k \in Key |-> IF st.kvStore[k] # <<>> THEN st.kvStore[k]
                                ELSE sn.kvStore[k]],
     seqMap |-> sn.seqMap, lastAppliedIndex |-> sn.lastAppliedIndex]

\* Decoding a snapshot into the maps of memory adds its keys to what they hold.
Decoded(st, sn) ==
    [kvStore |-> [k \in Key |-> IF sn.kvStore[k] # <<>> THEN sn.kvStore[k]
                                ELSE st.kvStore[k]],
     seqMap |-> [c \in Client |-> IF sn.seqMap[c] # 0 THEN sn.seqMap[c] ELSE st.seqMap[c]],
     lastAppliedIndex |-> sn.lastAppliedIndex]

\* A snapshot arrives on applyCh: an old one is ignored.
Installed(st, sn) ==
    IF sn.lastAppliedIndex <= st.lastAppliedIndex THEN st ELSE Decoded(st, sn)

\* The leader l sends its snapshot to a server that lags behind it.
InstallSnapshot(l, s) ==
    LET n == snap[l].lastAppliedIndex
    IN /\ IsLeader(l) /\ s \in up \ {l}
       /\ n > snap[s].lastAppliedIndex
       /\ snap' = [snap EXCEPT ![s] = snap[l]]
       /\ log' = [log EXCEPT ![s] = IF HasChosen(s, n) THEN @ ELSE SubSeq(log[l], 1, n)]
       /\ leads' = [leads EXCEPT ![s] = 0]
       /\ kv' = [kv EXCEPT ![s] = Installed(@, snap[l])]
       /\ UNCHANGED <<clerk, calls, term, chosen, up, cmdMap, dump, lost, crashes>>

-----------------------------------------------------------------------------
(* snapshotLoop, Kill and StartKVServer.                                   *)

\* The log is long: under kv.mu the state is encoded.
Dump(s) ==
    /\ Compacting /\ s \in up /\ dump[s] = NoDump
    /\ kv[s].lastAppliedIndex > snap[s].lastAppliedIndex
    /\ dump' = [dump EXCEPT ![s] = kv[s]]
    /\ UNCHANGED <<clerk, calls, raft, up, kv, cmdMap, lost, crashes>>

\* Then, without kv.mu, it is handed to Raft, which ignores one that has become old.
TakeSnapshot(s) ==
    /\ dump[s] # NoDump
    /\ snap' = [snap EXCEPT ![s] =
          IF dump[s].lastAppliedIndex <= @.lastAppliedIndex THEN @ ELSE dump[s]]
    /\ dump' = [dump EXCEPT ![s] = NoDump]
    /\ UNCHANGED <<clerk, calls, log, leads, term, chosen, up, kv, cmdMap, lost, crashes>>

\* The server stops; its handlers end without a reply.
Kill(s) ==
    /\ s \in up /\ crashes < MaxCrashes
    /\ crashes' = crashes + 1
    /\ up' = up \ {s}
    /\ leads' = [leads EXCEPT ![s] = 0]
    /\ kv' = [kv EXCEPT ![s] = Empty]
    /\ cmdMap' = [cmdMap EXCEPT ![s] = [i \in Index |-> NoCall]]
    /\ dump' = [dump EXCEPT ![s] = NoDump]
    /\ calls' = [c \in Client |-> [n \in 1..MaxCalls |->
          IF calls[c][n].server = s /\ calls[c][n].stage \in {"started", "waiting", "closed"}
          THEN Unsent ELSE calls[c][n]]]
    /\ UNCHANGED <<clerk, log, term, chosen, snap, lost>>

\* A new instance starts from empty maps and the snapshot that Make sends it.
StartKVServer(s) ==
    /\ s \in Server \ up
    /\ up' = up \cup {s}
    /\ kv' = [kv EXCEPT ![s] = Installed(Empty, snap[s])]
    /\ UNCHANGED <<clerk, calls, raft, cmdMap, dump, lost, crashes>>

-----------------------------------------------------------------------------

Init ==
    /\ clerk = [c \in Client |-> [waiting |-> FALSE, op |-> [NoOp EXCEPT !.ClientId = c],
                                  leaderIndex |-> 0, sent |-> 0, start |-> 0,
                                  result |-> <<>>]]
    /\ calls = [c \in Client |-> [n \in 1..MaxCalls |-> Unsent]]
    /\ log = [s \in Server |-> <<>>]
    /\ leads = [s \in Server |-> 0]
    /\ term = 0 /\ chosen = <<>>
    /\ snap = [s \in Server |-> Empty]
    /\ up = Server
    /\ kv = [s \in Server |-> Empty]
    /\ cmdMap = [s \in Server |-> [i \in Index |-> NoCall]]
    /\ dump = [s \in Server |-> NoDump]
    /\ lost = 0 /\ crashes = 0

Next ==
    \/ \E c \in Client :
          \/ \E type \in Types, k \in Key : Invoke(c, type, k)
          \/ ClientTimeout(c) \/ CallFails(c) \/ Receive(c)
          \/ \E n \in 1..MaxCalls :
                \/ NotLeader(c, n) \/ Start(c, n) \/ Register(c, n)
                \/ Committed(c, n) \/ HandlerTimeout(c, n)
                \/ Lose(c, n)
    \/ \E s \in Server :
          \/ Elect(s) \/ Commit(s) \/ ApplyMsg(s) \/ Dump(s) \/ TakeSnapshot(s)
          \/ Kill(s) \/ StartKVServer(s)
          \/ \E l \in Server : Replicate(l, s) \/ InstallSnapshot(l, s)

Spec == Init /\ [][Next]_vars

-----------------------------------------------------------------------------

\* The type of every variable: what client.go and server.go may store in it.
TypeOK ==
    /\ clerk \in [Client -> Clerk]
    /\ calls \in [Client -> [1..MaxCalls -> Call]]
    /\ log \in [Server -> Seq(Entry)]
    /\ leads \in [Server -> 0..MaxTerm]
    /\ term \in 0..MaxTerm
    /\ chosen \in Seq(Entry)
    /\ snap \in [Server -> KV]
    /\ up \subseteq Server
    /\ kv \in [Server -> KV]
    /\ cmdMap \in [Server -> [Index -> {NoCall} \cup (Client \X (1..MaxCalls))]]
    /\ dump \in [Server -> {NoDump} \cup KV]
    /\ lost \in 0..MaxLost
    /\ crashes \in 0..MaxCrashes

\* The states of a server that executes entries one by one, from the empty one.
States(entries) ==
    LET st[i \in 0..Len(entries)] ==
            IF i = 0 THEN Empty ELSE Applied(st[i - 1], entries[i].op)
    IN st

\* The state after the first n chosen entries.
Replay(n) == States(chosen)[n]

\* The memory of every server, and every snapshot, is what the chosen log says up
\* to its index: snapshots taken while commands go on, old ones, ones decoded over
\* a full map and restarts lose and invent nothing (server.go:223-316, 318-345).
StateFollowsLog ==
    \A s \in Server :
        /\ s \in up => kv[s] = Replay(kv[s].lastAppliedIndex)
        /\ snap[s] = Replay(snap[s].lastAppliedIndex)

\* Entry i, chosen after the operation of c was called, is that operation, and value
\* is what a Get reads there.
AnsweredAt(c, value, i) ==
    /\ chosen[i].op = clerk[c].op
    /\ clerk[c].op.Type = "Get" => value = Replay(i).kvStore[clerk[c].op.Key]

\* An operation that was answered was committed after it was called, and the
\* answer to a Get is the value at that point of the log, although leaders change,
\* indexes are used again and replies come late (server.go:79-213, 237-285).
AnswerFromLog ==
    \A c \in Client : ~clerk[c].waiting /\ clerk[c].sent > 0 =>
        \E i \in (clerk[c].start + 1)..Len(chosen) : AnsweredAt(c, clerk[c].result, i)

\* A context that applyMsgLoop can still find, at an index not yet applied, is that of
\* a handler that waits and has not been told: commitedChan would be closed a second
\* time, which is a panic, or for nobody (server.go:237, 284).
ClosedOnce ==
    \A s \in Server : \A i \in Index :
        cmdMap[s][i] # NoCall /\ i > kv[s].lastAppliedIndex =>
            calls[cmdMap[s][i][1]][cmdMap[s][i][2]].stage = "waiting"

\* No write takes effect twice, however often it was sent ("记录上次执行的操作序号,
\* 保证幂等", server.go:73).
AppliedOnce ==
    \A s \in Server, k \in Key :
        \A i, j \in DOMAIN kv[s].kvStore[k] :
            kv[s].kvStore[k][i] = kv[s].kvStore[k][j] => i = j
=============================================================================
