--------------------------- MODULE KVServerProofs ---------------------------
(***************************************************************************)
(* Proofs about module KVServer for every number of servers, clerks, keys, *)
(* operations, requests, elections and crashes: the state of every server  *)
(* is what the chosen log says, every answer comes from that log, and no   *)
(* context is closed twice.                                                *)
(***************************************************************************)
EXTENDS KVServer, Induction

-----------------------------------------------------------------------------
(* The inductive invariant.                                                *)

\* A log (or chosen) of terms that were led; the leader of a term has not a shorter
\* log than anyone who got an entry of that term.
GoodLog(es) ==
    /\ Len(es) <= MaxRequests
    /\ \A j \in 1..Len(es) :
          /\ es[j].op.SeqId > 0
          /\ es[j].LogTerm <= term
          /\ \A s \in Server : leads[s] = es[j].LogTerm => j <= Len(log[s])

\* A term has one leader, and the leader of the latest term has the chosen entries.
RaftInv ==
    /\ \A s \in Server : GoodLog(log[s])
    /\ GoodLog(chosen)
    /\ \A s \in Server : leads[s] <= term
    /\ \A s, r \in Server : leads[s] # 0 /\ leads[s] = leads[r] => s = r
    /\ \A s \in Server : leads[s] # 0 /\ leads[s] = term => HasChosen(s, Len(chosen))

\* The log es has an entry of m's term at m's index.
Carries(es, m) == m.index \in 1..Len(es) /\ es[m.index].LogTerm = m.Term

\* The handler of m is between Start and its reply.
Active(m) == m.stage \in {"started", "waiting", "closed"}

\* m's index and term name m's operation: no other entry can have them.
Named(m) ==
    /\ m.index > 0 /\ m.Term > 0 /\ m.Term <= term
    /\ \A s \in Server : leads[s] = m.Term => m.index <= Len(log[s])
    /\ \A s \in Server : Carries(log[s], m) => log[s][m.index].op = m.op
    /\ Carries(chosen, m) => chosen[m.index].op = m.op

\* What a context that was told of success has been told.
Told(m) ==
    /\ Carries(chosen, m)
    /\ m.op.Type = "Get" => m.value = Replay(m.index).kvStore[m.op.Key]

Awaited(c, n) == clerk[c].waiting /\ clerk[c].sent = n

CallOK(c, n, m) ==
    /\ n > clerk[c].sent => m.stage = "none"
    /\ m.stage \notin {"none", "reply"} => m.op.SeqId > 0
    /\ m.stage \notin {"none", "reply"} /\ Awaited(c, n) => m.op = clerk[c].op
    /\ Active(m) => Named(m)
    /\ Active(m) /\ Awaited(c, n) /\ Carries(chosen, m) => m.index > clerk[c].start
    /\ m.stage = "closed" /\ ~m.wrongLeader => Told(m)
    /\ m.stage = "reply" => Awaited(c, n)
    /\ m.stage = "reply" /\ m.Err = "OK" =>
          \E i \in (clerk[c].start + 1)..Len(chosen) : AnsweredAt(c, m.value, i)

CallInv == \A c \in Client, n \in 1..MaxCalls : CallOK(c, n, calls[c][n])

ClerkInv ==
    \A c \in Client :
        /\ clerk[c].start <= Len(chosen)
        /\ clerk[c].waiting => clerk[c].sent > 0
        /\ clerk[c].sent > 0 => clerk[c].op.SeqId > 0

\* The handler of m has put its context into cmdMap.
Registered(m) == m.stage \in {"waiting", "closed"}

\* The context of call n of c waits at index i of cmdMap of s.
Held(s, i, c, n) == cmdMap[s][i] = <<c, n>>

\* What is found at index i of s is the context of a handler that still runs; one
\* that is ahead of the applied entries has not been told.
ContextOK(s, i, m) ==
    /\ Registered(m) /\ m.server = s /\ m.index = i
    /\ i > kv[s].lastAppliedIndex => m.stage = "waiting"

MapInv ==
    \A s \in Server, i \in Index, c \in Client, n \in 1..MaxCalls :
        Held(s, i, c, n) => ContextOK(s, i, calls[c][n])

\* st is the state after some of the chosen entries.
Replayed(st) == st.lastAppliedIndex <= Len(chosen) /\ st = Replay(st.lastAppliedIndex)

StateInv ==
    \A s \in Server :
        /\ Replayed(kv[s]) /\ Replayed(snap[s]) /\ (dump[s] # NoDump => Replayed(dump[s]))
        /\ s \notin up => kv[s].lastAppliedIndex = 0

IInv ==
    TypeOK /\ RaftInv /\ ClerkInv /\ CallInv /\ MapInv /\ StateInv /\ AnswerFromLog

-----------------------------------------------------------------------------
(* The states of a server that executes a log.                             *)

\* The constants that are numbers.
LEMMA Bounds ==
    /\ nServers \in Nat \ {0}
    /\ MaxOps \in Nat /\ MaxCalls \in Nat /\ MaxRequests \in Nat
    /\ MaxTerm \in Nat /\ MaxLost \in Nat /\ MaxCrashes \in Nat
  BY KVAssumption, Zenon

\* The index of a state is a number.
LEMMA IndexOf ==
    ASSUME NEW st \in KV
    PROVE  st.lastAppliedIndex \in Nat
<1>1. st.lastAppliedIndex \in {0} \cup Index
  BY DEF KV
<1> QED
  BY <1>1 DEF Index

\* The index after x, when there are entries up to y.
LEMMA IndexAfter ==
    ASSUME NEW x \in Nat, NEW y \in Nat, x + 1 <= y, y <= MaxRequests
    PROVE  x + 1 \in Index /\ x + 1 \in Nat /\ x + 1 > x
  BY Bounds DEF Index

\* A number that may still grow.
LEMMA OneMore ==
    ASSUME NEW x \in Nat, NEW y \in Nat, x < y
    PROVE  x + 1 \in 0..y
  OBVIOUS

\* The recursive definition of States has a solution on every prefix.
LEMMA StatesExist ==
    ASSUME NEW es, NEW n \in Nat
    PROVE  \E f : f = [i \in 0..n |-> IF i = 0 THEN Empty ELSE Applied(f[i - 1], es[i].op)]
<1> DEFINE Step(f, i) == IF i = 0 THEN Empty ELSE Applied(f[i - 1], es[i].op)
           S == {m \in Nat : \E f : f = [i \in 0..m |-> Step(f, i)]}
<1>1. 0 \in S
  <2> DEFINE f == [i \in 0..0 |-> Empty]
  <2>1. \A i \in 0..0 : i = 0
    OBVIOUS
  <2>2. f = [i \in 0..0 |-> Step(f, i)]
    BY <2>1, Zenon
  <2> QED
    BY <2>2, 0 \in Nat, Zenon
<1>2. ASSUME NEW m \in Nat, m \in S PROVE m + 1 \in S
  <2>1. PICK f : f = [i \in 0..m |-> Step(f, i)]
    BY <1>2, Zenon
  <2> DEFINE g == [i \in 0..(m + 1) |-> IF i = m + 1 THEN Applied(f[m], es[m + 1].op) ELSE f[i]]
  <2> HIDE DEF Step
  <2>2. ASSUME NEW i \in 0..(m + 1) PROVE g[i] = Step(g, i)
    <3>1. CASE i = m + 1
      <4>1. g[i] = Applied(f[m], es[m + 1].op)
        BY <3>1
      <4>2. m \in 0..(m + 1) /\ m # m + 1
        OBVIOUS
      <4>3. g[m] = f[m]
        BY <4>2, Zenon
      <4>4. i # 0 /\ i - 1 = m
        BY <3>1
      <4> HIDE DEF g
      <4> QED
        BY <4>1, <4>3, <4>4, <3>1 DEF Step
    <3>2. CASE i # m + 1
      <4>1. i \in 0..m
        BY <3>2
      <4>2. g[i] = f[i]
        BY <3>2, Zenon
      <4>3. f[i] = Step(f, i)
        BY <4>1, <2>1, Zenon
      <4>4. i # 0 => g[i - 1] = f[i - 1]
        BY <4>1
      <4> HIDE DEF g
      <4> QED
        BY <4>2, <4>3, <4>4 DEF Step
    <3> QED
      BY <3>1, <3>2
  <2>3. g = [i \in 0..(m + 1) |-> g[i]]
    BY Zenon
  <2> HIDE DEF g
  <2>4. [i \in 0..(m + 1) |-> g[i]] = [i \in 0..(m + 1) |-> Step(g, i)]
    BY <2>2, Zenon
  <2>5. g = [i \in 0..(m + 1) |-> Step(g, i)]
    BY <2>3, <2>4, Zenon
  <2> QED
    BY <2>5, m + 1 \in Nat, Zenon DEF Step
<1> HIDE DEF S
<1>3. n \in S
  BY <1>1, <1>2, NatInSet, Zenon
<1> QED
  BY <1>3, Zenon DEF S

\* The states obey the equation that defines them.
LEMMA StatesDef ==
    ASSUME NEW es \in Seq(Entry)
    PROVE  /\ States(es)[0] = Empty
           /\ \A i \in 1..Len(es) : States(es)[i] = Applied(States(es)[i - 1], es[i].op)
<1>1. Len(es) \in Nat
  OBVIOUS
<1>2. \E f : f = [i \in 0..Len(es) |-> IF i = 0 THEN Empty ELSE Applied(f[i - 1], es[i].op)]
  BY <1>1, StatesExist, Zenon
<1> DEFINE st == States(es)
<1>3. st = [i \in 0..Len(es) |-> IF i = 0 THEN Empty ELSE Applied(st[i - 1], es[i].op)]
  BY <1>2, Zenon DEF States
<1> HIDE DEF st
<1>4. st[0] = Empty
  <2>1. 0 \in 0..Len(es)
    BY <1>1
  <2> QED
    BY <2>1, <1>3, Zenon
<1>5. ASSUME NEW i \in 1..Len(es) PROVE st[i] = Applied(st[i - 1], es[i].op)
  <2>1. i \in 0..Len(es) /\ i # 0
    BY <1>1
  <2> QED
    BY <2>1, <1>3, Zenon
<1> QED
  BY <1>4, <1>5, Zenon DEF st

\* Logs that agree on their first n entries give the same state after them.
LEMMA StatesPrefix ==
    ASSUME NEW es \in Seq(Entry), NEW fs \in Seq(Entry), NEW n \in Nat,
           n <= Len(es), n <= Len(fs), \A j \in 1..n : es[j] = fs[j]
    PROVE  States(es)[n] = States(fs)[n]
<1> DEFINE S == {m \in Nat : m <= n => States(es)[m] = States(fs)[m]}
<1>0. Len(es) \in Nat /\ Len(fs) \in Nat
  OBVIOUS
<1>1. 0 \in S
  BY StatesDef, 0 \in Nat, Zenon
<1>2. ASSUME NEW m \in Nat, m \in S PROVE m + 1 \in S
  <2>1. SUFFICES ASSUME m + 1 <= n PROVE States(es)[m + 1] = States(fs)[m + 1]
    BY m + 1 \in Nat, Zenon
  <2>2. States(es)[m] = States(fs)[m]
    <3>1. m <= n
      BY <2>1
    <3> QED
      BY <3>1, <1>2, Zenon
  <2>3. m + 1 \in 1..Len(es) /\ m + 1 \in 1..Len(fs) /\ m + 1 \in 1..n /\ (m + 1) - 1 = m
    BY <2>1, <1>0
  <2>4. /\ States(es)[m + 1] = Applied(States(es)[m], es[m + 1].op)
        /\ States(fs)[m + 1] = Applied(States(fs)[m], fs[m + 1].op)
    BY <2>3, StatesDef, Zenon
  <2> QED
    BY <2>2, <2>3, <2>4, Zenon
<1> HIDE DEF S
<1>3. n \in S
  BY <1>1, <1>2, NatInSet, Zenon
<1> QED
  BY <1>3 DEF S

\* A log of operations that clerks sent.
Proper(es) ==
    /\ es \in Seq(Entry)
    /\ Len(es) <= MaxRequests
    /\ \A j \in 1..Len(es) : es[j].op.SeqId > 0

\* The entries of such a log.
LEMMA ProperEntry ==
    ASSUME NEW es, Proper(es), NEW i \in 1..Len(es)
    PROVE  es[i] \in Entry /\ es[i].op \in Op /\ es[i].op.SeqId > 0
<1>1. es \in Seq(Entry) /\ es[i].op.SeqId > 0
  BY Zenon DEF Proper
<1>2. es[i] \in Entry
  BY <1>1
<1> QED
  BY <1>1, <1>2 DEF Entry

\* What Applied does to the parts of a state.
LEMMA AppliedType ==
    ASSUME NEW st \in KV, NEW op \in Op, op.SeqId > 0,
           st.lastAppliedIndex + 1 <= MaxRequests
    PROVE  /\ Applied(st, op) \in KV
           /\ Applied(st, op).lastAppliedIndex = st.lastAppliedIndex + 1
           /\ \A k \in Key : st.kvStore[k] # <<>> => Applied(st, op).kvStore[k] # <<>>
           /\ \A c \in Client : st.seqMap[c] # 0 => Applied(st, op).seqMap[c] # 0
<1> DEFINE id == <<op.ClientId, op.SeqId>>
           store == st.kvStore
           new == IF op.Type = "Append" THEN Append(store[op.Key], id) ELSE <<id>>
           skip == op.Type = "Get" \/ op.SeqId <= st.seqMap[op.ClientId]
           kvStore == IF skip THEN store ELSE [store EXCEPT ![op.Key] = new]
           seqMap == [st.seqMap EXCEPT ![op.ClientId] = op.SeqId]
           res == [kvStore |-> kvStore, seqMap |-> seqMap,
                   lastAppliedIndex |-> st.lastAppliedIndex + 1]
<1>1. Applied(st, op) = res
  BY Zenon DEF Applied
<1>2. /\ op.ClientId \in Client /\ op.SeqId \in 1..MaxOps /\ op.Key \in Key
  BY KVAssumption DEF Op
<1>3. /\ store \in [Key -> Value] /\ st.seqMap \in [Client -> 0..MaxOps]
      /\ st.lastAppliedIndex \in {0} \cup Index
  BY DEF KV
<1>4. id \in Id
  BY <1>2 DEF Id
<1>5. new \in Value /\ new # <<>>
  <2> HIDE DEF id
  <2>1. store[op.Key] \in Seq(Id)
    BY <1>2, <1>3 DEF Value
  <2>2. Append(store[op.Key], id) \in Seq(Id) /\ Append(store[op.Key], id) # <<>>
    BY <2>1, <1>4
  <2>3. <<id>> \in Seq(Id) /\ <<id>> # <<>>
    BY <1>4
  <2> QED
    BY <2>2, <2>3 DEF Value
<1>6. kvStore \in [Key -> Value] /\ \A k \in Key : store[k] # <<>> => kvStore[k] # <<>>
  <2> HIDE DEF new, skip
  <2>1. [store EXCEPT ![op.Key] = new] \in [Key -> Value]
    BY <1>2, <1>3, <1>5
  <2>2. \A k \in Key : store[k] # <<>> => [store EXCEPT ![op.Key] = new][k] # <<>>
    BY <1>2, <1>3, <1>5
  <2> QED
    BY <1>3, <2>1, <2>2
<1>7. seqMap \in [Client -> 0..MaxOps] /\ \A c \in Client : st.seqMap[c] # 0 => seqMap[c] # 0
  <2>1. op.SeqId # 0 /\ op.SeqId \in 0..MaxOps
    BY <1>2
  <2> QED
    BY <2>1, <1>2, <1>3
<1>8. st.lastAppliedIndex + 1 \in {0} \cup Index
  BY <1>3, Bounds DEF Index
<1> HIDE DEF kvStore, seqMap
<1>9. /\ res \in KV /\ res.lastAppliedIndex = st.lastAppliedIndex + 1
      /\ res.kvStore = kvStore /\ res.seqMap = seqMap
  BY <1>6, <1>7, <1>8 DEF KV
<1> HIDE DEF res
<1> QED
  BY <1>1, <1>6, <1>7, <1>9, Zenon

\* The empty state is one of no entries.
LEMMA EmptyType == Empty \in KV /\ Empty.lastAppliedIndex = 0
<1>1. <<>> \in Value
  BY DEF Value
<1>2. 0 \in 0..MaxOps
  BY Bounds
<1>3. [k \in Key |-> <<>>] \in [Key -> Value] /\ [c \in Client |-> 0] \in [Client -> 0..MaxOps]
  BY <1>1, <1>2, Zenon
<1> QED
  BY <1>3 DEF Empty, KV

\* The state after n entries is a state, and its index is n.
LEMMA StatesType ==
    ASSUME NEW es, Proper(es), NEW n \in 0..Len(es)
    PROVE  States(es)[n] \in KV /\ States(es)[n].lastAppliedIndex = n
<1> DEFINE S == {m \in Nat : m <= Len(es) =>
                   States(es)[m] \in KV /\ States(es)[m].lastAppliedIndex = m}
<1>0. es \in Seq(Entry) /\ Len(es) \in Nat /\ Len(es) <= MaxRequests
  BY DEF Proper
<1>1. 0 \in S
  BY <1>0, StatesDef, EmptyType, 0 \in Nat, Zenon
<1>2. ASSUME NEW m \in Nat, m \in S PROVE m + 1 \in S
  <2>1. SUFFICES ASSUME m + 1 <= Len(es)
                 PROVE  /\ States(es)[m + 1] \in KV
                        /\ States(es)[m + 1].lastAppliedIndex = m + 1
    BY m + 1 \in Nat, Zenon
  <2>2. States(es)[m] \in KV /\ States(es)[m].lastAppliedIndex = m
    <3>1. m <= Len(es)
      BY <2>1, <1>0
    <3> QED
      BY <3>1, <1>2, Zenon
  <2>3. m + 1 \in 1..Len(es) /\ (m + 1) - 1 = m /\ m + 1 <= MaxRequests
    BY <2>1, <1>0, Bounds
  <2>4. States(es)[m + 1] = Applied(States(es)[m], es[m + 1].op)
    BY <2>3, <1>0, StatesDef, Zenon
  <2>5. es[m + 1].op \in Op /\ es[m + 1].op.SeqId > 0
    BY <2>3, ProperEntry, Zenon
  <2> QED
    BY <2>2, <2>3, <2>4, <2>5, AppliedType, Zenon
<1> HIDE DEF S
<1>3. n \in S
  BY <1>1, <1>2, NatInSet, n \in Nat, Zenon
<1> QED
  BY <1>3, <1>0 DEF S

\* A key or a client that a state knows is known ever after.
LEMMA StatesGrow ==
    ASSUME NEW es, Proper(es), NEW j \in 0..Len(es), NEW n \in j..Len(es)
    PROVE  /\ \A k \in Key : States(es)[j].kvStore[k] # <<>> => States(es)[n].kvStore[k] # <<>>
           /\ \A c \in Client : States(es)[j].seqMap[c] # 0 => States(es)[n].seqMap[c] # 0
<1> DEFINE Known(m) ==
             /\ \A k \in Key : States(es)[j].kvStore[k] # <<>> => States(es)[m].kvStore[k] # <<>>
             /\ \A c \in Client : States(es)[j].seqMap[c] # 0 => States(es)[m].seqMap[c] # 0
           S == {m \in Nat : j + m <= Len(es) => Known(j + m)}
<1>0. es \in Seq(Entry) /\ Len(es) \in Nat /\ Len(es) <= MaxRequests
  BY DEF Proper
<1>1. 0 \in S
  BY j + 0 = j
<1>2. ASSUME NEW m \in Nat, m \in S PROVE m + 1 \in S
  <2> DEFINE i == j + m
  <2>1. SUFFICES ASSUME i + 1 <= Len(es) PROVE Known(i + 1)
    BY m + 1 \in Nat, j + (m + 1) = i + 1
  <2>2. Known(i)
    <3>1. i <= Len(es)
      BY <2>1, <1>0
    <3> HIDE DEF Known
    <3> QED
      BY <3>1, <1>2
  <2>3. i + 1 \in 1..Len(es) /\ (i + 1) - 1 = i /\ i + 1 <= MaxRequests /\ i \in 0..Len(es)
    BY <2>1, <1>0, Bounds
  <2> HIDE DEF i
  <2>4. States(es)[i + 1] = Applied(States(es)[i], es[i + 1].op)
    BY <2>3, <1>0, StatesDef, Zenon
  <2>5. es[i + 1].op \in Op /\ es[i + 1].op.SeqId > 0
    BY <2>3, ProperEntry, Zenon
  <2>6. States(es)[i] \in KV /\ States(es)[i].lastAppliedIndex = i
    BY <2>3, StatesType, Zenon
  <2>7. /\ \A k \in Key : States(es)[i].kvStore[k] # <<>> => States(es)[i + 1].kvStore[k] # <<>>
        /\ \A c \in Client : States(es)[i].seqMap[c] # 0 => States(es)[i + 1].seqMap[c] # 0
    BY <2>3, <2>4, <2>5, <2>6, AppliedType, Zenon
  <2> QED
    BY <2>2, <2>7, Zenon
<1> HIDE DEF S
<1>3. n - j \in S
  BY <1>1, <1>2, NatInSet, n - j \in Nat, Zenon
<1>4. j + (n - j) = n /\ n <= Len(es)
  BY <1>0
<1> HIDE DEF Known
<1>5. Known(n)
  BY <1>3, <1>4 DEF S
<1> QED
  BY <1>5, Zenon DEF Known

\* Decoding a later state over an earlier one gives the later one: the keys that the
\* decoder leaves in the maps are in the snapshot as well.
LEMMA InstalledState ==
    ASSUME NEW es, Proper(es), NEW j \in 0..Len(es), NEW n \in 0..Len(es)
    PROVE  Installed(States(es)[j], States(es)[n]) = IF n <= j THEN States(es)[j] ELSE States(es)[n]
<1> DEFINE st == States(es)[j]
           sn == States(es)[n]
<1>1. st \in KV /\ st.lastAppliedIndex = j /\ sn \in KV /\ sn.lastAppliedIndex = n
  BY StatesType, Zenon
<1>2. SUFFICES ASSUME ~(n <= j) PROVE Decoded(st, sn) = sn
  BY <1>1, Zenon DEF Installed
<1>3. n \in j..Len(es)
  BY <1>2
<1>4. /\ \A k \in Key : st.kvStore[k] # <<>> => sn.kvStore[k] # <<>>
      /\ \A c \in Client : st.seqMap[c] # 0 => sn.seqMap[c] # 0
  BY <1>3, StatesGrow, Zenon
<1> HIDE DEF st, sn
<1> DEFINE store == [k \in Key |-> IF sn.kvStore[k] # <<>> THEN sn.kvStore[k] ELSE st.kvStore[k]]
           seqs == [c \in Client |-> IF sn.seqMap[c] # 0 THEN sn.seqMap[c] ELSE st.seqMap[c]]
<1>5. Decoded(st, sn) = [kvStore |-> store, seqMap |-> seqs,
                         lastAppliedIndex |-> sn.lastAppliedIndex]
  BY Zenon DEF Decoded
<1>6. sn.kvStore \in [Key -> Value] /\ sn.seqMap \in [Client -> 0..MaxOps]
  BY <1>1 DEF KV
<1>7. store = sn.kvStore
  BY <1>4, <1>6
<1>8. seqs = sn.seqMap
  BY <1>4, <1>6
<1>9. sn = [kvStore |-> sn.kvStore, seqMap |-> sn.seqMap, lastAppliedIndex |-> sn.lastAppliedIndex]
  BY <1>1 DEF KV
<1> HIDE DEF store, seqs
<1> QED
  BY <1>5, <1>7, <1>8, <1>9, Zenon

-----------------------------------------------------------------------------
(* How the logs may change in a step.                                      *)

RaftType ==
    /\ log \in [Server -> Seq(Entry)]
    /\ leads \in [Server -> 0..MaxTerm]
    /\ term \in 0..MaxTerm
    /\ chosen \in Seq(Entry)

\* The chosen entries are within the bound.
LEMMA ChosenLength ==
    ASSUME RaftType, RaftInv
    PROVE  Len(chosen) \in Nat /\ Len(chosen) <= MaxRequests
<1>1. Len(chosen) \in Nat
  BY DEF RaftType
<1> QED
  BY <1>1, Zenon DEF RaftInv, GoodLog

\* e, found at j after a step, was there before, or is new: the leader of its term
\* has just appended it.
Had(e, j) ==
    \/ \E r \in Server : j \in 1..Len(log[r]) /\ e = log[r][j]
    \/ j \in 1..Len(chosen) /\ e = chosen[j]
    \/ \E r \in Server : /\ leads[r] = e.LogTerm /\ e.op.SeqId > 0
                         /\ j = Len(log[r]) + 1 /\ j <= Len(log'[r])

\* Terms do not fall, a leader keeps its log, chosen entries stay.
RaftStep ==
    /\ RaftType'
    /\ term <= term'
    /\ \A s \in Server : leads'[s] # 0 =>
          \/ leads'[s] = leads[s] /\ Len(log[s]) <= Len(log'[s])
          \/ leads'[s] > term
    /\ Len(chosen) <= Len(chosen') /\ \A i \in 1..Len(chosen) : chosen'[i] = chosen[i]
    /\ \A s \in Server : Len(log'[s]) <= MaxRequests
    /\ Len(chosen') <= MaxRequests
    /\ \A s \in Server : \A j \in 1..Len(log'[s]) : Had(log'[s][j], j)
    /\ \A j \in 1..Len(chosen') : Had(chosen'[j], j)

\* What every step leaves of the terms' leaders.
Leaders ==
    /\ \A s \in Server : leads[s] <= term
    /\ \A s, r \in Server : leads[s] # 0 /\ leads[s] = leads[r] => s = r
    /\ \A s \in Server : leads[s] # 0 /\ leads[s] = term => HasChosen(s, Len(chosen))

\* The types of the entries.
LEMMA EntryType ==
    ASSUME NEW es \in Seq(Entry), NEW j \in 1..Len(es)
    PROVE  es[j] \in Entry /\ es[j].LogTerm \in 1..MaxTerm /\ es[j].op \in Op
                           /\ es[j].op.SeqId \in Nat
<1>1. es[j] \in Entry
  OBVIOUS
<1>2. es[j].LogTerm \in 1..MaxTerm /\ es[j].op \in Op
  BY <1>1 DEF Entry
<1>3. es[j].op.SeqId \in 0..MaxOps
  BY <1>2 DEF Op
<1> QED
  BY <1>1, <1>2, <1>3, Bounds

\* HasChosen says that the entries are the same.
LEMMA HasChosenEntries ==
    ASSUME RaftType, NEW s \in Server, NEW n \in 0..Len(chosen)
    PROVE  HasChosen(s, n) <=> n <= Len(log[s]) /\ \A j \in 1..n : log[s][j] = chosen[j]
<1>1. /\ log[s] \in Seq(Entry) /\ chosen \in Seq(Entry) /\ n \in Nat
      /\ Len(log[s]) \in Nat /\ Len(chosen) \in Nat /\ n <= Len(chosen)
  BY DEF RaftType
<1>2. SUFFICES ASSUME n <= Len(log[s])
      PROVE  SubSeq(log[s], 1, n) = SubSeq(chosen, 1, n) <=> \A j \in 1..n : log[s][j] = chosen[j]
  BY <1>1 DEF HasChosen
<1>3. /\ SubSeq(log[s], 1, n) = [j \in 1..n |-> log[s][j]]
      /\ SubSeq(chosen, 1, n) = [j \in 1..n |-> chosen[j]]
  BY <1>1, <1>2
<1> QED
  BY <1>3

\* Steps that leave the logs alone.
LEMMA RaftStutter ==
    ASSUME RaftType, RaftInv, UNCHANGED <<log, leads, term, chosen>>
    PROVE  RaftStep /\ Leaders'
<1>1. RaftType'
  BY DEF RaftType
<1>2. \A s \in Server : Len(log[s]) \in Nat /\ Len(log[s]) <= MaxRequests
  BY DEF RaftType, RaftInv, GoodLog
<1>3. Len(chosen) \in Nat /\ Len(chosen) <= MaxRequests
  BY DEF RaftType, RaftInv, GoodLog
<1>4. term \in Nat
  BY DEF RaftType
<1>5. Leaders'
  BY DEF RaftInv, Leaders, HasChosen
<1> QED
  BY <1>1, <1>2, <1>3, <1>4, <1>5 DEF RaftStep, Had

\* A server that hears of a newer leader, or stops, leads no more.
LEMMA RaftKill ==
    ASSUME RaftType, RaftInv, NEW s \in Server, leads' = [leads EXCEPT ![s] = 0],
           UNCHANGED <<log, term, chosen>>
    PROVE  RaftStep /\ Leaders'
<1>1. /\ \A r \in Server : leads'[r] = IF r = s THEN 0 ELSE leads[r]
      /\ leads' \in [Server -> 0..MaxTerm]
  BY Bounds DEF RaftType
<1>2. RaftType'
  BY <1>1 DEF RaftType
<1>3. \A r \in Server : Len(log[r]) \in Nat /\ Len(log[r]) <= MaxRequests
  BY DEF RaftType, RaftInv, GoodLog
<1>4. Len(chosen) \in Nat /\ Len(chosen) <= MaxRequests
  BY DEF RaftType, RaftInv, GoodLog
<1>5. term \in Nat
  BY DEF RaftType
<1>6. Leaders'
  BY <1>1, <1>5 DEF RaftInv, Leaders, HasChosen
<1> QED
  BY <1>1, <1>2, <1>3, <1>4, <1>5, <1>6 DEF RaftStep, Had

\* A server becomes the leader of a new term.
LEMMA RaftElect ==
    ASSUME RaftType, RaftInv, NEW s \in Server, Elect(s)
    PROVE  RaftStep /\ Leaders'
<1>1. /\ \A r \in Server : leads'[r] = IF r = s THEN term + 1 ELSE leads[r]
      /\ leads' \in [Server -> 0..MaxTerm]
      /\ term' = term + 1 /\ term \in Nat /\ term' \in 0..MaxTerm
      /\ UNCHANGED <<log, chosen>>
  BY Bounds DEF RaftType, Elect
<1>2. RaftType'
  BY <1>1 DEF RaftType
<1>3. \A r \in Server : Len(log[r]) \in Nat /\ Len(log[r]) <= MaxRequests
  BY DEF RaftType, RaftInv, GoodLog
<1>4. Len(chosen) \in Nat /\ Len(chosen) <= MaxRequests
  BY DEF RaftType, RaftInv, GoodLog
<1>5. \A r \in Server : leads[r] \in Nat /\ leads[r] <= term
  BY DEF RaftType, RaftInv
<1>6. Leaders'
  <2>1. HasChosen(s, Len(chosen)) /\ \A r \in Server : HasChosen(r, Len(chosen))' <=> HasChosen(r, Len(chosen))
    BY <1>1 DEF Elect, HasChosen
  <2> QED
    BY <1>1, <1>5, <2>1 DEF RaftInv, Leaders
<1> QED
  BY <1>1, <1>2, <1>3, <1>4, <1>5, <1>6 DEF RaftStep, Had

\* A leader appends a client's operation.
LEMMA RaftAppend ==
    ASSUME RaftType, RaftInv, NEW s \in Server, leads[s] # 0, NEW op \in Op, op.SeqId > 0,
           Len(log[s]) < MaxRequests,
           log' = [log EXCEPT ![s] = Append(@, [op |-> op, LogTerm |-> leads[s]])],
           UNCHANGED <<leads, term, chosen>>
    PROVE  RaftStep /\ Leaders'
<1> DEFINE e == [op |-> op, LogTerm |-> leads[s]]
<1>1. e \in Entry /\ e.op = op /\ e.LogTerm = leads[s]
  BY DEF Entry, RaftType
<1> HIDE DEF e
<1>2. /\ \A r \in Server : log'[r] = IF r = s THEN Append(log[s], e) ELSE log[r]
      /\ log' \in [Server -> Seq(Entry)]
  BY <1>1 DEF RaftType, e
<1>3. RaftType'
  BY <1>2 DEF RaftType
<1>4. \A r \in Server : Len(log[r]) \in Nat /\ Len(log[r]) <= MaxRequests
  BY DEF RaftType, RaftInv, GoodLog
<1>5. Len(chosen) \in Nat /\ Len(chosen) <= MaxRequests
  BY DEF RaftType, RaftInv, GoodLog
<1>6. term \in Nat
  BY DEF RaftType
<1>7. /\ Len(log'[s]) = Len(log[s]) + 1 /\ log'[s][Len(log[s]) + 1] = e
      /\ \A j \in 1..Len(log[s]) : log'[s][j] = log[s][j]
  <2>1. log'[s] = Append(log[s], e) /\ log[s] \in Seq(Entry)
    BY <1>2 DEF RaftType
  <2> QED
    BY <1>1, <2>1
<1>8. \A r \in Server : Len(log[r]) <= Len(log'[r]) /\ Len(log'[r]) <= MaxRequests
                        /\ \A j \in 1..Len(log[r]) : log'[r][j] = log[r][j]
  BY <1>2, <1>4, <1>7, Bounds
<1>9. \A r \in Server : \A j \in 1..Len(log'[r]) : Had(log'[r][j], j)
  <2> SUFFICES ASSUME NEW r \in Server, NEW j \in 1..Len(log'[r]) PROVE Had(log'[r][j], j)
    OBVIOUS
  <2>1. CASE j \in 1..Len(log[r])
    BY <2>1, <1>8 DEF Had
  <2>2. CASE ~(j \in 1..Len(log[r]))
    <3>1. r = s /\ j = Len(log[s]) + 1
      BY <2>2, <1>2, <1>4, <1>7
    <3> QED
      BY <3>1, <1>1, <1>7 DEF Had
  <2> QED
    BY <2>1, <2>2
<1>10. \A j \in 1..Len(chosen') : Had(chosen'[j], j)
  BY Zenon DEF Had
<1>11. \A r \in Server : HasChosen(r, Len(chosen)) => HasChosen(r, Len(chosen))'
  <2> SUFFICES ASSUME NEW r \in Server, HasChosen(r, Len(chosen)) PROVE HasChosen(r, Len(chosen))'
    OBVIOUS
  <2>1. Len(chosen) <= Len(log[r]) /\ \A j \in 1..Len(chosen) : log[r][j] = chosen[j]
    BY <1>5, HasChosenEntries
  <2>2. Len(chosen) <= Len(log'[r]) /\ \A j \in 1..Len(chosen) : log'[r][j] = chosen[j]
    BY <2>1, <1>2, <1>3, <1>4, <1>5, <1>8 DEF RaftType
  <2>3. /\ SubSeq(log'[r], 1, Len(chosen)) = [j \in 1..Len(chosen) |-> log'[r][j]]
        /\ SubSeq(chosen, 1, Len(chosen)) = [j \in 1..Len(chosen) |-> chosen[j]]
    BY <2>2, <1>3, <1>5 DEF RaftType
  <2> QED
    BY <2>2, <2>3 DEF HasChosen
<1>12. Leaders'
  BY <1>11 DEF RaftInv, Leaders
<1> QED
  BY <1>3, <1>5, <1>6, <1>8, <1>9, <1>10, <1>12 DEF RaftStep

\* The leader of the latest term replaces the log of another server by a part of
\* its own, or leaves it.
LEMMA RaftCopy ==
    ASSUME RaftType, RaftInv, NEW l \in Server, NEW s \in Server, s # l, leads[l] = term,
           NEW es \in Seq(Entry),
           \/ es = log[s]
           \/ Len(es) <= Len(log[l]) /\ \A j \in 1..Len(es) : es[j] = log[l][j],
           log' = [log EXCEPT ![s] = es], leads' = [leads EXCEPT ![s] = 0],
           UNCHANGED <<term, chosen>>
    PROVE  RaftStep /\ Leaders'
<1>1. /\ \A r \in Server : leads'[r] = IF r = s THEN 0 ELSE leads[r]
      /\ leads' \in [Server -> 0..MaxTerm]
  BY Bounds DEF RaftType
<1>2. /\ \A r \in Server : log'[r] = IF r = s THEN es ELSE log[r]
      /\ log' \in [Server -> Seq(Entry)]
  BY DEF RaftType
<1>3. RaftType'
  BY <1>1, <1>2 DEF RaftType
<1>4. \A r \in Server : Len(log[r]) \in Nat /\ Len(log[r]) <= MaxRequests
  BY DEF RaftType, RaftInv, GoodLog
<1>5. Len(chosen) \in Nat /\ Len(chosen) <= MaxRequests
  BY DEF RaftType, RaftInv, GoodLog
<1>6. term \in Nat
  BY DEF RaftType
<1>7. Len(es) \in Nat /\ Len(es) <= MaxRequests
  BY <1>4, Bounds
<1>8. \A r \in Server : \A j \in 1..Len(log'[r]) : Had(log'[r][j], j)
  <2> SUFFICES ASSUME NEW r \in Server, NEW j \in 1..Len(log'[r]) PROVE Had(log'[r][j], j)
    OBVIOUS
  <2>1. \E q \in Server : j \in 1..Len(log[q]) /\ log'[r][j] = log[q][j]
    BY <1>2, <1>4, <1>7
  <2> QED
    BY <2>1, Zenon DEF Had
<1>9. \A j \in 1..Len(chosen') : Had(chosen'[j], j)
  BY Zenon DEF Had
<1>10. Leaders'
  <2>1. \A r \in Server : r # s => (HasChosen(r, Len(chosen))' <=> HasChosen(r, Len(chosen)))
    BY <1>2 DEF HasChosen
  <2> QED
    BY <1>1, <1>6, <2>1 DEF RaftInv, Leaders
<1> QED
  BY <1>1, <1>2, <1>3, <1>4, <1>5, <1>6, <1>7, <1>8, <1>9, <1>10 DEF RaftStep

\* The leader of the latest term commits its next entry.
LEMMA RaftCommit ==
    ASSUME RaftType, RaftInv, NEW l \in Server, Commit(l)
    PROVE  RaftStep /\ Leaders'
<1> DEFINE n == Len(chosen)
           e == log[l][n + 1]
<1>1. \A r \in Server : log[r] \in Seq(Entry) /\ Len(log[r]) \in Nat /\ Len(log[r]) <= MaxRequests
  BY DEF RaftType, RaftInv, GoodLog
<1>2. chosen \in Seq(Entry) /\ n \in Nat /\ n < Len(log[l])
  BY DEF RaftType, Commit
<1>3. /\ chosen' = Append(chosen, e) /\ UNCHANGED <<log, leads, term>>
      /\ leads[l] = term /\ term # 0
  BY DEF Commit, IsLeader, RaftType
<1>4. n + 1 \in 1..Len(log[l]) /\ e \in Entry
  BY <1>1, <1>2
<1> HIDE DEF e, n
<1>5. /\ chosen' \in Seq(Entry) /\ Len(chosen') = n + 1 /\ chosen'[n + 1] = e
      /\ \A j \in 1..n : chosen'[j] = chosen[j]
  BY <1>2, <1>3, <1>4 DEF n
<1>6. RaftType'
  BY <1>3, <1>5 DEF RaftType
<1>7. term \in Nat
  BY DEF RaftType
<1>8. n + 1 <= MaxRequests
  BY <1>1, <1>2, Bounds
<1>9. \A j \in 1..Len(chosen') : Had(chosen'[j], j)
  <2> SUFFICES ASSUME NEW j \in 1..(n + 1) PROVE Had(chosen'[j], j)
    BY <1>5
  <2>1. CASE j \in 1..n
    BY <2>1, <1>5 DEF Had, n
  <2>2. CASE j = n + 1
    BY <2>2, <1>4, <1>5 DEF Had, e
  <2> QED
    BY <2>1, <2>2, <1>2
<1>10. \A r \in Server : \A j \in 1..Len(log'[r]) : Had(log'[r][j], j)
  BY <1>3, Zenon DEF Had
<1>11. HasChosen(l, Len(chosen))'
  <2>1. HasChosen(l, n)
    BY <1>3 DEF RaftInv, n
  <2>2. \A j \in 1..n : log[l][j] = chosen[j]
    BY <2>1, <1>2, HasChosenEntries DEF n
  <2>3. \A j \in 1..(n + 1) : log'[l][j] = chosen'[j]
    BY <2>2, <1>2, <1>3, <1>5 DEF e
  <2>4. /\ SubSeq(log'[l], 1, n + 1) = [j \in 1..(n + 1) |-> log'[l][j]]
        /\ SubSeq(chosen', 1, n + 1) = [j \in 1..(n + 1) |-> chosen'[j]]
    BY <1>1, <1>2, <1>3, <1>4, <1>5
  <2> QED
    BY <2>3, <2>4, <1>1, <1>3, <1>4, <1>5 DEF HasChosen
<1>12. Leaders'
  BY <1>3, <1>11 DEF RaftInv, Leaders
<1> QED
  BY <1>1, <1>2, <1>3, <1>5, <1>6, <1>7, <1>8, <1>9, <1>10, <1>12 DEF RaftStep, n

\* After such a step the logs are again those of terms that were led.
LEMMA RaftInvStep ==
    ASSUME RaftType, RaftInv, RaftStep, Leaders'
    PROVE  RaftInv'
<1>1. /\ \A s \in Server : log[s] \in Seq(Entry) /\ Len(log[s]) \in Nat
                           /\ leads[s] \in Nat /\ leads[s] <= term /\ GoodLog(log[s])
      /\ chosen \in Seq(Entry) /\ Len(chosen) \in Nat /\ GoodLog(chosen)
      /\ term \in Nat /\ term' \in Nat /\ term <= term'
      /\ \A s \in Server : Len(log'[s]) \in Nat /\ leads'[s] \in Nat
  BY DEF RaftType, RaftInv, RaftStep
<1>2. ASSUME NEW e \in Entry, NEW j \in Nat, Had(e, j)
      PROVE  /\ e.op.SeqId > 0 /\ e.LogTerm <= term'
             /\ \A s \in Server : leads'[s] = e.LogTerm => j <= Len(log'[s])
  <2>0. e.LogTerm \in 1..MaxTerm
    BY DEF Entry
  <2>1. CASE \E r \in Server : j \in 1..Len(log[r]) /\ e = log[r][j]
    <3>1. /\ e.op.SeqId > 0 /\ e.LogTerm <= term
          /\ \A s \in Server : leads[s] = e.LogTerm => j <= Len(log[s])
      BY <2>1, <1>1 DEF GoodLog
    <3> QED
      BY <3>1, <2>0, <1>1 DEF RaftStep
  <2>2. CASE j \in 1..Len(chosen) /\ e = chosen[j]
    <3>1. /\ e.op.SeqId > 0 /\ e.LogTerm <= term
          /\ \A s \in Server : leads[s] = e.LogTerm => j <= Len(log[s])
      BY <2>2, <1>1 DEF GoodLog
    <3> QED
      BY <3>1, <2>0, <1>1 DEF RaftStep
  <2>3. CASE \E r \in Server : /\ leads[r] = e.LogTerm /\ e.op.SeqId > 0
                               /\ j = Len(log[r]) + 1 /\ j <= Len(log'[r])
    <3>1. PICK r \in Server : /\ leads[r] = e.LogTerm /\ e.op.SeqId > 0
                              /\ j = Len(log[r]) + 1 /\ j <= Len(log'[r])
      BY <2>3
    <3>2. e.LogTerm <= term /\ e.LogTerm # 0 /\ e.LogTerm \in Nat
      BY <3>1, <2>0, <1>1
    <3>3. ASSUME NEW s \in Server, leads'[s] = e.LogTerm PROVE s = r
      <4>1. leads'[s] = leads[s]
        BY <3>2, <3>3, <1>1 DEF RaftStep
      <4> QED
        BY <4>1, <3>1, <3>2, <3>3 DEF RaftInv
    <3> QED
      BY <3>1, <3>2, <3>3, <1>1
  <2> QED
    BY <1>2, <2>1, <2>2, <2>3 DEF Had
<1>3. ASSUME NEW s \in Server PROVE GoodLog(log[s])'
  <2>1. log'[s] \in Seq(Entry) /\ Len(log'[s]) <= MaxRequests
    BY DEF RaftStep, RaftType
  <2>2. ASSUME NEW j \in 1..Len(log'[s])
        PROVE  log'[s][j] \in Entry /\ j \in Nat /\ Had(log'[s][j], j)
    BY <2>1 DEF RaftStep
  <2>3. ASSUME NEW j \in 1..Len(log'[s])
        PROVE  /\ log'[s][j].op.SeqId > 0 /\ log'[s][j].LogTerm <= term'
               /\ \A r \in Server : leads'[r] = log'[s][j].LogTerm => j <= Len(log'[r])
    BY <2>2, <1>2, Zenon
  <2> QED
    BY <2>1, <2>3, Zenon DEF GoodLog
<1>4. GoodLog(chosen)'
  <2>1. chosen' \in Seq(Entry) /\ Len(chosen') <= MaxRequests
    BY DEF RaftStep, RaftType
  <2>2. ASSUME NEW j \in 1..Len(chosen')
        PROVE  chosen'[j] \in Entry /\ j \in Nat /\ Had(chosen'[j], j)
    BY <2>1 DEF RaftStep
  <2>3. ASSUME NEW j \in 1..Len(chosen')
        PROVE  /\ chosen'[j].op.SeqId > 0 /\ chosen'[j].LogTerm <= term'
               /\ \A r \in Server : leads'[r] = chosen'[j].LogTerm => j <= Len(log'[r])
    BY <2>2, <1>2, Zenon
  <2> QED
    BY <2>1, <2>3, Zenon DEF GoodLog
<1> QED
  BY <1>3, <1>4, Zenon DEF RaftInv, Leaders

\* The chosen log and the states it leads to.
LEMMA ChosenProper ==
    ASSUME RaftType, RaftInv
    PROVE  Proper(chosen)
  BY DEF RaftType, RaftInv, GoodLog, Proper

\* States that were reached stay what they were.
LEMMA ReplayKept ==
    ASSUME RaftType, RaftStep, NEW i \in 0..Len(chosen)
    PROVE  Replay(i)' = Replay(i)
<1>1. /\ chosen \in Seq(Entry) /\ chosen' \in Seq(Entry)
      /\ Len(chosen) \in Nat /\ Len(chosen') \in Nat /\ Len(chosen) <= Len(chosen')
      /\ \A j \in 1..Len(chosen) : chosen'[j] = chosen[j]
  BY DEF RaftType, RaftStep
<1>2. i \in Nat /\ i <= Len(chosen) /\ i <= Len(chosen') /\ \A j \in 1..i : chosen'[j] = chosen[j]
  BY <1>1
<1>3. States(chosen')[i] = States(chosen)[i]
  BY <1>1, <1>2, StatesPrefix, Zenon
<1> QED
  BY <1>3, Zenon DEF Replay

-----------------------------------------------------------------------------
(* What a step of Raft leaves of the calls, the clerks and the states.     *)

\* The numbers of a call.
LEMMA CallNumbers ==
    ASSUME NEW m \in Call
    PROVE  m.index \in Nat /\ m.Term \in Nat
<1>1. m.index \in {0} \cup Index /\ m.Term \in 0..MaxTerm
  BY DEF Call
<1> QED
  BY <1>1 DEF Index

\* The numbers of a clerk.
LEMMA ClerkNumbers ==
    ASSUME NEW ck \in Clerk
    PROVE  ck.start \in Nat /\ ck.sent \in Nat
<1>1. ck.start \in {0} \cup Index /\ ck.sent \in 0..MaxCalls
  BY DEF Clerk
<1> QED
  BY <1>1 DEF Index

\* The index and the term of a call still name its operation after a step; an entry
\* that they name is found in chosen from the start, or is new there.
LEMMA NamedKept ==
    ASSUME RaftType, RaftInv, RaftStep, NEW m \in Call, Named(m)
    PROVE  Named(m)' /\ (Carries(chosen', m) => Carries(chosen, m) \/ m.index > Len(chosen))
<1>1. /\ m.index \in Nat /\ m.Term \in Nat /\ m.index > 0 /\ m.Term > 0 /\ m.Term <= term
      /\ term \in Nat /\ term' \in Nat /\ term <= term'
      /\ Len(chosen) \in Nat /\ Len(chosen') \in Nat
      /\ \A s \in Server : /\ Len(log[s]) \in Nat /\ Len(log'[s]) \in Nat
                           /\ leads[s] \in Nat /\ leads'[s] \in Nat
  <2>1. m.index > 0 /\ m.Term > 0 /\ m.Term <= term
    BY Zenon DEF Named
  <2>2. term <= term' /\ RaftType'
    BY Zenon DEF RaftStep
  <2> QED
    BY <2>1, <2>2, CallNumbers DEF RaftType
<1>2. \A s \in Server : leads'[s] = m.Term => m.index <= Len(log'[s])
  <2> SUFFICES ASSUME NEW s \in Server, leads'[s] = m.Term PROVE m.index <= Len(log'[s])
    OBVIOUS
  <2>1. leads'[s] = leads[s] /\ Len(log[s]) <= Len(log'[s])
    BY <1>1 DEF RaftStep
  <2> QED
    BY <2>1, <1>1 DEF Named
<1>3. ASSUME NEW e, Had(e, m.index), e.LogTerm = m.Term PROVE e.op = m.op
  <2>1. CASE \E r \in Server : m.index \in 1..Len(log[r]) /\ e = log[r][m.index]
    BY <2>1, <1>3, Zenon DEF Named, Carries
  <2>2. CASE m.index \in 1..Len(chosen) /\ e = chosen[m.index]
    BY <2>2, <1>3, Zenon DEF Named, Carries
  <2>3. CASE \E r \in Server : leads[r] = e.LogTerm /\ m.index = Len(log[r]) + 1
    <3>1. PICK r \in Server : leads[r] = m.Term /\ m.index = Len(log[r]) + 1
      BY <2>3, <1>3
    <3>2. m.index <= Len(log[r])
      BY <3>1 DEF Named
    <3> QED
      BY <3>1, <3>2, <1>1
  <2> QED
    BY <1>3, <2>1, <2>2, <2>3, Zenon DEF Had
<1>4. \A s \in Server : Carries(log'[s], m) => log'[s][m.index].op = m.op
  BY <1>3, Zenon DEF Carries, RaftStep
<1>5. Carries(chosen', m) => chosen'[m.index].op = m.op
  BY <1>3, Zenon DEF Carries, RaftStep
<1>6. Named(m)'
  <2>1. m.Term <= term'
    BY <1>1
  <2> QED
    BY <1>1, <2>1, <1>2, <1>4, <1>5, Zenon DEF Named
<1>7. ASSUME Carries(chosen', m), ~(m.index > Len(chosen)) PROVE Carries(chosen, m)
  <2>1. m.index \in 1..Len(chosen)
    BY <1>1, <1>7
  <2>2. chosen'[m.index] = chosen[m.index]
    BY <2>1, Zenon DEF RaftStep
  <2> QED
    BY <2>1, <2>2, <1>7, Zenon DEF Carries
<1> QED
  BY <1>6, <1>7, Zenon

\* What a context was told remains true.
LEMMA ToldKept ==
    ASSUME RaftType, RaftStep, NEW m \in Call, Told(m)
    PROVE  Told(m)'
<1>1. m.index \in 1..Len(chosen) /\ chosen[m.index].LogTerm = m.Term
  BY Zenon DEF Told, Carries
<1>2. Len(chosen) \in Nat /\ Len(chosen') \in Nat /\ Len(chosen) <= Len(chosen')
  BY DEF RaftType, RaftStep
<1>3. m.index \in 1..Len(chosen') /\ m.index \in 0..Len(chosen)
  BY <1>1, <1>2
<1>4. chosen'[m.index] = chosen[m.index]
  BY <1>1, Zenon DEF RaftStep
<1>5. Replay(m.index)' = Replay(m.index)
  BY <1>3, ReplayKept, Zenon
<1> QED
  BY <1>1, <1>3, <1>4, <1>5, Zenon DEF Told, Carries

\* An answer remains the answer.
LEMMA AnsweredKept ==
    ASSUME RaftType, RaftStep, NEW c \in Client, clerk[c] \in Clerk, clerk'[c] = clerk[c], NEW value,
           \E i \in (clerk[c].start + 1)..Len(chosen) : AnsweredAt(c, value, i)
    PROVE  \E i \in (clerk'[c].start + 1)..Len(chosen') : AnsweredAt(c, value, i)'
<1>1. PICK i \in (clerk[c].start + 1)..Len(chosen) : AnsweredAt(c, value, i)
  BY Zenon
<1>2. clerk[c].start \in Nat
  BY ClerkNumbers, Zenon
<1>3. Len(chosen) \in Nat /\ Len(chosen') \in Nat /\ Len(chosen) <= Len(chosen')
  BY DEF RaftType, RaftStep
<1>4. i \in 1..Len(chosen) /\ i \in 0..Len(chosen) /\ i \in (clerk'[c].start + 1)..Len(chosen')
  BY <1>2, <1>3
<1>5. chosen'[i] = chosen[i] /\ Replay(i)' = Replay(i)
  BY <1>4, ReplayKept, Zenon DEF RaftStep
<1>6. AnsweredAt(c, value, i)'
  BY <1>1, <1>5, Zenon DEF AnsweredAt
<1> QED
  BY <1>4, <1>6, Zenon

\* A call that a step does not touch keeps its part of the invariant.
LEMMA CallKept ==
    ASSUME RaftType, RaftInv, RaftStep, NEW c \in Client, NEW n \in 1..MaxCalls, NEW m \in Call,
           clerk[c] \in Clerk, clerk[c].start <= Len(chosen), clerk'[c] = clerk[c], CallOK(c, n, m)
    PROVE  CallOK(c, n, m)'
<1>1. Awaited(c, n)' <=> Awaited(c, n)
  BY Zenon DEF Awaited
<1>2. Active(m)' <=> Active(m)
  BY Zenon DEF Active
<1>3. Active(m) => Named(m)' /\ (Carries(chosen', m) => Carries(chosen, m) \/ m.index > Len(chosen))
  BY NamedKept, Zenon DEF CallOK
<1>4. m.index > Len(chosen) => m.index > clerk[c].start
  <2>1. m.index \in Nat /\ clerk[c].start \in Nat
    BY CallNumbers, ClerkNumbers, Zenon
  <2>2. Len(chosen) \in Nat
    BY DEF RaftType
  <2> QED
    BY <2>1, <2>2
<1>5. m.stage = "closed" /\ ~m.wrongLeader => Told(m)'
  BY ToldKept, Zenon DEF CallOK
<1>6. m.stage = "reply" /\ m.Err = "OK" =>
         \E i \in (clerk'[c].start + 1)..Len(chosen') : AnsweredAt(c, m.value, i)'
  BY AnsweredKept, Zenon DEF CallOK
<1>7. Active(m) /\ Awaited(c, n) /\ Carries(chosen', m) => m.index > clerk'[c].start
  BY <1>3, <1>4, Zenon DEF CallOK
<1>8. /\ n > clerk'[c].sent => m.stage = "none"
      /\ m.stage \notin {"none", "reply"} => m.op.SeqId > 0
      /\ m.stage \notin {"none", "reply"} /\ Awaited(c, n) => m.op = clerk'[c].op
      /\ m.stage = "reply" => Awaited(c, n)
  BY Zenon DEF CallOK
<1> QED
  BY <1>1, <1>2, <1>3, <1>5, <1>6, <1>7, <1>8, Zenon DEF CallOK

\* A state that follows the log still does.
LEMMA ReplayedKept ==
    ASSUME RaftType, RaftStep, NEW st \in KV, Replayed(st)
    PROVE  Replayed(st)'
<1>1. st.lastAppliedIndex \in Nat
  BY Bounds DEF KV, Index
<1>2. Len(chosen) \in Nat /\ Len(chosen') \in Nat /\ Len(chosen) <= Len(chosen')
  BY DEF RaftType, RaftStep
<1>3. st.lastAppliedIndex \in 0..Len(chosen) /\ st.lastAppliedIndex <= Len(chosen')
  BY <1>1, <1>2 DEF Replayed
<1>4. Replay(st.lastAppliedIndex)' = Replay(st.lastAppliedIndex)
  BY <1>3, ReplayKept, Zenon
<1> QED
  BY <1>3, <1>4, Zenon DEF Replayed

-----------------------------------------------------------------------------
(* The records.                                                            *)

\* A call that does not exist is a call, and satisfies the invariant.
LEMMA UnsentCall ==
    ASSUME NEW c \in Client
    PROVE  Unsent \in Call /\ Unsent.stage = "none" /\ \A n : CallOK(c, n, Unsent)
<1>1. NoOp \in Op
  <2>1. (CHOOSE d \in Client : TRUE) \in Client /\ (CHOOSE k \in Key : TRUE) \in Key
    BY KVAssumption, Zenon
  <2>2. 0 \in 0..MaxOps
    BY Bounds
  <2> QED
    BY <2>1, <2>2 DEF NoOp, Op
<1>2. 0 \in Server /\ 0 \in {0} \cup Index /\ 0 \in 0..MaxTerm /\ <<>> \in Value
  BY KVAssumption DEF Server, Value
<1>3. Unsent \in Call /\ Unsent.stage = "none"
  BY <1>1, <1>2 DEF Unsent, Call
<1> QED
  BY <1>3, Zenon DEF CallOK, Active

\* The parts of a call.
LEMMA CallParts ==
    ASSUME NEW m \in Call
    PROVE  m.op \in Op /\ m.server \in Server /\ m.value \in Value
  BY DEF Call

\* What the invariant says of one call.
LEMMA CallAt ==
    ASSUME IInv, NEW c \in Client, NEW n \in 1..MaxCalls
    PROVE  calls[c][n] \in Call /\ CallOK(c, n, calls[c][n])
<1>1. calls[c][n] \in Call
  <2>1. calls \in [Client -> [1..MaxCalls -> Call]]
    BY Zenon DEF IInv, TypeOK
  <2> QED
    BY <2>1
<1>2. CallOK(c, n, calls[c][n])
  BY Zenon DEF IInv, CallInv
<1> QED
  BY <1>1, <1>2

\* What the invariant says of one clerk.
LEMMA ClerkAt ==
    ASSUME IInv, NEW c \in Client
    PROVE  /\ clerk[c] \in Clerk /\ clerk[c].start \in Nat /\ clerk[c].sent \in Nat
           /\ clerk[c].start <= Len(chosen) /\ Len(chosen) \in Nat
<1>1. clerk[c] \in Clerk
  BY DEF IInv, TypeOK
<1>2. clerk[c].start <= Len(chosen)
  BY Zenon DEF IInv, ClerkInv
<1>3. Len(chosen) \in Nat
  BY DEF IInv, TypeOK
<1> QED
  BY <1>1, <1>2, <1>3, ClerkNumbers, Zenon

\* A clerk that waits has an operation.
LEMMA WaitingClerk ==
    ASSUME IInv, NEW c \in Client, clerk[c].waiting
    PROVE  clerk[c].sent > 0 /\ clerk[c].op.SeqId > 0
  BY Zenon DEF IInv, ClerkInv

-----------------------------------------------------------------------------
(* Every step is one that the logs may make.                               *)

\* The handlers append only what a clerk sent.
LEMMA RaftStart ==
    ASSUME IInv, NEW c \in Client, NEW n \in 1..MaxCalls, Start(c, n)
    PROVE  RaftStep /\ Leaders'
<1> DEFINE m == calls[c][n]
<1>1. RaftType /\ RaftInv
  BY Zenon DEF IInv, TypeOK, RaftType
<1>2. m \in Call /\ CallOK(c, n, m)
  BY CallAt, Zenon
<1>3. m.server \in Server /\ m.op \in Op
  BY <1>2, CallParts
<1>4. /\ m.stage = "sent" /\ leads[m.server] # 0 /\ Len(log[m.server]) < MaxRequests
      /\ log' = [log EXCEPT ![m.server] = Append(@, [op |-> m.op, LogTerm |-> leads[m.server]])]
      /\ UNCHANGED <<leads, term, chosen>>
  BY Zenon DEF Start
<1>5. m.op.SeqId > 0
  BY <1>2, <1>4 DEF CallOK
<1> HIDE DEF m
<1> QED
  BY <1>1, <1>3, <1>4, <1>5, RaftAppend

\* A snapshot of the leader covers chosen entries only, and its log has them.
LEMMA RaftInstall ==
    ASSUME IInv, NEW l \in Server, NEW s \in Server, InstallSnapshot(l, s)
    PROVE  RaftStep /\ Leaders'
<1> DEFINE n  == snap[l].lastAppliedIndex
           es == IF HasChosen(s, n) THEN log[s] ELSE SubSeq(log[l], 1, n)
<1>1. RaftType /\ RaftInv
  BY Zenon DEF IInv, TypeOK, RaftType
<1>2. /\ s # l /\ leads[l] = term /\ term > 0
      /\ log' = [log EXCEPT ![s] = es] /\ leads' = [leads EXCEPT ![s] = 0]
      /\ UNCHANGED <<term, chosen>>
  BY Zenon DEF InstallSnapshot, IsLeader
<1>3. n \in Nat /\ n <= Len(chosen)
  <2>1. snap[l] \in KV /\ Replayed(snap[l])
    BY Zenon DEF IInv, TypeOK, StateInv
  <2> QED
    BY <2>1 DEF KV, Index, Replayed
<1>4. /\ log[s] \in Seq(Entry) /\ log[l] \in Seq(Entry) /\ term \in Nat
      /\ Len(log[l]) \in Nat /\ Len(chosen) \in Nat
  BY <1>1 DEF RaftType
<1>5. n <= Len(log[l])
  <2>1. term # 0
    BY <1>2, <1>4
  <2>2. HasChosen(l, Len(chosen))
    BY <2>1, <1>1, <1>2 DEF RaftInv
  <2> QED
    BY <2>2, <1>3, <1>4 DEF HasChosen
<1> HIDE DEF n
<1>6. /\ SubSeq(log[l], 1, n) \in Seq(Entry) /\ Len(SubSeq(log[l], 1, n)) = n
      /\ \A j \in 1..n : SubSeq(log[l], 1, n)[j] = log[l][j]
  BY <1>3, <1>4, <1>5
<1>7. /\ es \in Seq(Entry)
      /\ \/ es = log[s]
         \/ Len(es) <= Len(log[l]) /\ \A j \in 1..Len(es) : es[j] = log[l][j]
  BY <1>4, <1>5, <1>6
<1> HIDE DEF es
<1> QED
  BY <1>1, <1>2, <1>7, RaftCopy

\* Every step is one that the logs may make.
LEMMA RaftNext ==
    ASSUME IInv, Next
    PROVE  RaftStep /\ Leaders'
<1>1. RaftType /\ RaftInv
  BY Zenon DEF IInv, TypeOK, RaftType
<1>2. ASSUME NEW c \in Client,
             \/ \E type \in Types, k \in Key : Invoke(c, type, k)
             \/ ClientTimeout(c) \/ CallFails(c) \/ Receive(c)
      PROVE  RaftStep /\ Leaders'
  <2>1. UNCHANGED raft
    BY <1>2, Zenon DEF Invoke, ClientTimeout, CallFails, Receive
  <2> QED
    BY <1>1, <2>1, RaftStutter, Zenon DEF raft
<1>3. ASSUME NEW c \in Client, NEW n \in 1..MaxCalls,
             \/ NotLeader(c, n) \/ Register(c, n) \/ Committed(c, n)
             \/ HandlerTimeout(c, n) \/ Lose(c, n)
      PROVE  RaftStep /\ Leaders'
  <2>1. UNCHANGED raft
    BY <1>3, Zenon DEF NotLeader, Register, Committed, HandlerTimeout, Lose
  <2> QED
    BY <1>1, <2>1, RaftStutter, Zenon DEF raft
<1>4. ASSUME NEW s \in Server, ApplyMsg(s) \/ Dump(s) \/ TakeSnapshot(s) \/ StartKVServer(s)
      PROVE  RaftStep /\ Leaders'
  <2>1. UNCHANGED <<log, leads, term, chosen>>
    BY <1>4, Zenon DEF ApplyMsg, Dump, TakeSnapshot, StartKVServer, raft
  <2> QED
    BY <1>1, <2>1, RaftStutter, Zenon
<1>5. ASSUME NEW s \in Server, Kill(s) PROVE RaftStep /\ Leaders'
  <2>1. leads' = [leads EXCEPT ![s] = 0] /\ UNCHANGED <<log, term, chosen>>
    BY <1>5, Zenon DEF Kill
  <2> QED
    BY <1>1, <2>1, RaftKill, Zenon
<1>6. ASSUME NEW l \in Server, NEW s \in Server, Replicate(l, s) PROVE RaftStep /\ Leaders'
  <2>1. /\ s # l /\ leads[l] = term /\ log' = [log EXCEPT ![s] = log[l]]
        /\ leads' = [leads EXCEPT ![s] = 0] /\ UNCHANGED <<term, chosen>>
    BY <1>6, Zenon DEF Replicate, IsLeader
  <2>2. log[l] \in Seq(Entry) /\ Len(log[l]) <= Len(log[l])
    BY <1>1 DEF RaftType
  <2> QED
    BY <1>1, <2>1, <2>2, RaftCopy
<1> QED
  BY <1>1, <1>2, <1>3, <1>4, <1>5, <1>6, RaftStart, RaftInstall, RaftElect, RaftCommit, Zenon DEF Next

-----------------------------------------------------------------------------
(* The state of every server follows the log.                              *)

\* One server's state, snapshot or dump becomes st.
LEMMA ReplayedExcept ==
    ASSUME RaftType, RaftStep, NEW f \in [Server -> KV], \A r \in Server : Replayed(f[r]),
           NEW s \in Server, NEW st \in KV, Replayed(st), NEW g, g = [f EXCEPT ![s] = st]
    PROVE  g \in [Server -> KV] /\ \A r \in Server : Replayed(g[r])'
<1>1. g \in [Server -> KV] /\ \A r \in Server : g[r] \in KV /\ g[r] \in {f[r], st}
  OBVIOUS
<1>2. \A r \in Server : Replayed(g[r])
  BY <1>1, Zenon
<1> QED
  BY <1>1, <1>2, ReplayedKept, Zenon

\* What the invariant says of the states of a server.
LEMMA StatesAt ==
    ASSUME IInv, NEW s \in Server
    PROVE  /\ kv[s] \in KV /\ Replayed(kv[s])
           /\ snap[s] \in KV /\ Replayed(snap[s])
           /\ dump[s] # NoDump => dump[s] \in KV /\ Replayed(dump[s])
           /\ s \notin up => kv[s].lastAppliedIndex = 0
<1>1. kv[s] \in KV /\ snap[s] \in KV /\ dump[s] \in {NoDump} \cup KV
  BY DEF IInv, TypeOK
<1> QED
  BY <1>1, Zenon DEF IInv, StateInv

\* A state that follows the log is the one that its index names.
LEMMA ReplayedState ==
    ASSUME RaftType, RaftInv, NEW st \in KV, Replayed(st)
    PROVE  st.lastAppliedIndex \in 0..Len(chosen) /\ st = States(chosen)[st.lastAppliedIndex]
<1>1. st.lastAppliedIndex \in Nat
  BY Bounds DEF KV, Index
<1> QED
  BY <1>1 DEF RaftType, Replayed, Replay

\* The state after i chosen entries follows the log.
LEMMA ReplayIsReplayed ==
    ASSUME RaftType, RaftInv, NEW i \in 0..Len(chosen)
    PROVE  /\ Replay(i) \in KV /\ Replayed(Replay(i))
           /\ Replay(i).lastAppliedIndex = i
<1>1. States(chosen)[i] \in KV /\ States(chosen)[i].lastAppliedIndex = i
  BY ChosenProper, StatesType, Zenon
<1>2. i <= Len(chosen)
  BY DEF RaftType
<1> QED
  BY <1>1, <1>2 DEF Replay, Replayed

\* The empty state is the one before the first entry.
LEMMA EmptyReplayed ==
    ASSUME RaftType, RaftInv
    PROVE  Empty \in KV /\ Replayed(Empty) /\ Empty = Replay(0) /\ Empty.lastAppliedIndex = 0
<1>1. States(chosen)[0] = Empty
  BY StatesDef DEF RaftType
<1>2. Len(chosen) \in Nat
  BY DEF RaftType
<1> QED
  BY <1>1, <1>2, EmptyType DEF Replayed, Replay

\* applyMsgLoop executes the entry that the chosen log has next.
LEMMA ApplyState ==
    ASSUME RaftType, RaftInv, NEW s \in Server, kv[s] \in KV, Replayed(kv[s]),
           NEW i, i = kv[s].lastAppliedIndex + 1, i <= Len(chosen), HasChosen(s, i)
    PROVE  /\ i \in 1..Len(chosen) /\ log[s][i] = chosen[i]
           /\ Applied(kv[s], log[s][i].op) = Replay(i)
<1>1. kv[s].lastAppliedIndex \in 0..Len(chosen) /\ kv[s] = States(chosen)[kv[s].lastAppliedIndex]
  BY ReplayedState, Zenon
<1>2. chosen \in Seq(Entry) /\ Len(chosen) \in Nat
  BY DEF RaftType
<1>3. i \in 1..Len(chosen) /\ i \in 0..Len(chosen) /\ i - 1 = kv[s].lastAppliedIndex /\ i \in 1..i
  BY <1>1, <1>2
<1>4. log[s][i] = chosen[i]
  BY <1>3, HasChosenEntries, Zenon
<1>5. States(chosen)[i] = Applied(States(chosen)[i - 1], chosen[i].op)
  BY <1>2, <1>3, StatesDef, Zenon
<1> QED
  BY <1>1, <1>3, <1>4, <1>5, Zenon DEF Replay

\* What a snapshot makes of a state, both following the log.
LEMMA InstalledReplayed ==
    ASSUME RaftType, RaftInv, NEW st \in KV, NEW sn \in KV, Replayed(st), Replayed(sn)
    PROVE  /\ Installed(st, sn) \in KV /\ Replayed(Installed(st, sn))
           /\ Installed(st, sn).lastAppliedIndex >= st.lastAppliedIndex
<1> DEFINE j == st.lastAppliedIndex
           n == sn.lastAppliedIndex
<1>1. j \in 0..Len(chosen) /\ st = States(chosen)[j]
  BY ReplayedState, Zenon
<1>2. n \in 0..Len(chosen) /\ sn = States(chosen)[n]
  BY ReplayedState, Zenon
<1>3. Installed(st, sn) = IF n <= j THEN st ELSE sn
  BY <1>1, <1>2, ChosenProper, InstalledState, Zenon
<1>4. (IF n <= j THEN st ELSE sn).lastAppliedIndex >= j
  BY <1>1, <1>2
<1> HIDE DEF j, n
<1> QED
  BY <1>3, <1>4, Zenon DEF j

StateType ==
    /\ snap \in [Server -> KV]
    /\ kv \in [Server -> KV]
    /\ dump \in [Server -> {NoDump} \cup KV]
    /\ up \subseteq Server

\* Every step leaves states that follow the log.
LEMMA StateNext ==
    ASSUME IInv, Next, RaftStep
    PROVE  StateType' /\ StateInv'
<1>1. RaftType /\ RaftInv /\ StateType
  BY Zenon DEF IInv, TypeOK, RaftType, StateType
<1>2. /\ \A r \in Server : Replayed(kv[r])
      /\ \A r \in Server : Replayed(snap[r])
  BY StatesAt, Zenon
<1>3. UNCHANGED kv => kv' \in [Server -> KV] /\ \A r \in Server : Replayed(kv[r])'
  BY <1>1, <1>2, ReplayedKept, StatesAt, Zenon DEF StateType
<1>4. UNCHANGED snap => snap' \in [Server -> KV] /\ \A r \in Server : Replayed(snap[r])'
  BY <1>1, <1>2, ReplayedKept, StatesAt, Zenon DEF StateType
<1>5. UNCHANGED dump => /\ dump' \in [Server -> {NoDump} \cup KV]
                        /\ \A r \in Server : dump'[r] # NoDump => Replayed(dump[r])'
  BY <1>1, <1>2, ReplayedKept, StatesAt, Zenon DEF StateType
<1>6. UNCHANGED <<kv, up>> => /\ up' \subseteq Server
                              /\ \A r \in Server : r \notin up' => kv'[r].lastAppliedIndex = 0
  BY <1>1, StatesAt, Zenon DEF StateType
<1>7. CASE UNCHANGED <<kv, snap, dump, up>>
  BY <1>3, <1>4, <1>5, <1>6, <1>7, Zenon DEF StateType, StateInv
<1>8. ASSUME NEW s \in Server, ApplyMsg(s) PROVE StateType' /\ StateInv'
  <2> DEFINE i == kv[s].lastAppliedIndex + 1
             st == Applied(kv[s], log[s][i].op)
  <2>1. /\ s \in up /\ i <= Len(chosen) /\ HasChosen(s, i)
        /\ kv' = [kv EXCEPT ![s] = st] /\ UNCHANGED <<snap, dump, up>>
    BY <1>8, Zenon DEF ApplyMsg, raft
  <2>2. i \in 1..Len(chosen) /\ st = Replay(i)
    BY <1>1, <2>1, ApplyState, StatesAt, Zenon
  <2>3. st \in KV /\ Replayed(st)
    <3>1. i \in 0..Len(chosen)
      BY <2>2
    <3> QED
      BY <1>1, <2>2, <3>1, ReplayIsReplayed, Zenon
  <2> HIDE DEF st, i
  <2>4. kv' \in [Server -> KV] /\ \A r \in Server : Replayed(kv[r])'
    BY <1>1, <1>2, <2>1, <2>3, ReplayedExcept, Zenon DEF StateType
  <2>5. \A r \in Server : r \notin up => kv'[r].lastAppliedIndex = 0
    BY <1>1, <2>1, StatesAt DEF StateType
  <2> QED
    BY <1>1, <1>4, <1>5, <2>1, <2>4, <2>5, Zenon DEF StateType, StateInv
<1>9. ASSUME NEW l \in Server, NEW s \in Server, InstallSnapshot(l, s) PROVE StateType' /\ StateInv'
  <2> DEFINE st == Installed(kv[s], snap[l])
  <2>1. /\ s \in up /\ snap' = [snap EXCEPT ![s] = snap[l]]
        /\ kv' = [kv EXCEPT ![s] = st] /\ UNCHANGED <<dump, up>>
    BY <1>9, Zenon DEF InstallSnapshot
  <2>2. st \in KV /\ Replayed(st) /\ snap[l] \in KV /\ Replayed(snap[l])
    BY <1>1, InstalledReplayed, StatesAt, Zenon
  <2> HIDE DEF st
  <2>3. kv' \in [Server -> KV] /\ \A r \in Server : Replayed(kv[r])'
    BY <1>1, <1>2, <2>1, <2>2, ReplayedExcept, Zenon DEF StateType
  <2>4. snap' \in [Server -> KV] /\ \A r \in Server : Replayed(snap[r])'
    BY <1>1, <1>2, <2>1, <2>2, ReplayedExcept, Zenon DEF StateType
  <2>5. \A r \in Server : r \notin up => kv'[r].lastAppliedIndex = 0
    BY <1>1, <2>1, StatesAt DEF StateType
  <2> QED
    BY <1>1, <1>5, <2>1, <2>3, <2>4, <2>5, Zenon DEF StateType, StateInv
<1>10. ASSUME NEW s \in Server, Dump(s) PROVE StateType' /\ StateInv'
  <2>1. dump' = [dump EXCEPT ![s] = kv[s]] /\ UNCHANGED <<kv, snap, up>>
    BY <1>10, Zenon DEF Dump, raft
  <2>2. dump' \in [Server -> {NoDump} \cup KV] /\ \A r \in Server : dump'[r] \in {dump[r], kv[r]}
    BY <1>1, <2>1 DEF StateType
  <2>3. \A r \in Server : dump'[r] # NoDump => Replayed(dump[r])'
    BY <1>1, <2>2, ReplayedKept, StatesAt, Zenon
  <2> QED
    BY <1>3, <1>4, <1>6, <2>1, <2>2, <2>3, Zenon DEF StateType, StateInv
<1>11. ASSUME NEW s \in Server, TakeSnapshot(s) PROVE StateType' /\ StateInv'
  <2> DEFINE sn == IF dump[s].lastAppliedIndex <= snap[s].lastAppliedIndex THEN snap[s] ELSE dump[s]
  <2>1. /\ dump[s] # NoDump /\ snap' = [snap EXCEPT ![s] = sn]
        /\ dump' = [dump EXCEPT ![s] = NoDump] /\ UNCHANGED <<kv, up>>
    BY <1>11, Zenon DEF TakeSnapshot
  <2>2. sn \in KV /\ Replayed(sn)
    BY <2>1, StatesAt, Zenon
  <2> HIDE DEF sn
  <2>3. snap' \in [Server -> KV] /\ \A r \in Server : Replayed(snap[r])'
    BY <1>1, <1>2, <2>1, <2>2, ReplayedExcept, Zenon DEF StateType
  <2>4. dump' \in [Server -> {NoDump} \cup KV] /\ \A r \in Server : dump'[r] \in {dump[r], NoDump}
    BY <1>1, <2>1 DEF StateType
  <2>5. \A r \in Server : dump'[r] # NoDump => Replayed(dump[r])'
    BY <1>1, <2>4, ReplayedKept, StatesAt, Zenon
  <2> QED
    BY <1>3, <1>6, <2>1, <2>3, <2>4, <2>5, Zenon DEF StateType, StateInv
<1>12. ASSUME NEW s \in Server, Kill(s) PROVE StateType' /\ StateInv'
  <2>1. /\ up' = up \ {s} /\ kv' = [kv EXCEPT ![s] = Empty]
        /\ dump' = [dump EXCEPT ![s] = NoDump] /\ UNCHANGED snap
    BY <1>12, Zenon DEF Kill
  <2>2. Empty \in KV /\ Replayed(Empty) /\ Empty.lastAppliedIndex = 0
    BY <1>1, EmptyReplayed, Zenon
  <2>3. kv' \in [Server -> KV] /\ \A r \in Server : Replayed(kv[r])'
    BY <1>1, <1>2, <2>1, <2>2, ReplayedExcept, Zenon DEF StateType
  <2>4. dump' \in [Server -> {NoDump} \cup KV] /\ \A r \in Server : dump'[r] \in {dump[r], NoDump}
    BY <1>1, <2>1 DEF StateType
  <2>5. \A r \in Server : dump'[r] # NoDump => Replayed(dump[r])'
    BY <1>1, <2>4, ReplayedKept, StatesAt, Zenon
  <2>6. up' \subseteq Server /\ \A r \in Server : r \notin up' => kv'[r].lastAppliedIndex = 0
    BY <1>1, <2>1, <2>2, StatesAt DEF StateType
  <2> QED
    BY <1>4, <2>1, <2>3, <2>4, <2>5, <2>6, Zenon DEF StateType, StateInv
<1>13. ASSUME NEW s \in Server, StartKVServer(s) PROVE StateType' /\ StateInv'
  <2> DEFINE st == Installed(Empty, snap[s])
  <2>1. up' = up \cup {s} /\ kv' = [kv EXCEPT ![s] = st] /\ UNCHANGED <<snap, dump>>
    BY <1>13, Zenon DEF StartKVServer, raft
  <2>2. st \in KV /\ Replayed(st)
    BY <1>1, EmptyReplayed, InstalledReplayed, StatesAt, Zenon
  <2> HIDE DEF st
  <2>3. kv' \in [Server -> KV] /\ \A r \in Server : Replayed(kv[r])'
    BY <1>1, <1>2, <2>1, <2>2, ReplayedExcept, Zenon DEF StateType
  <2>4. up' \subseteq Server /\ \A r \in Server : r \notin up' => kv'[r].lastAppliedIndex = 0
    BY <1>1, <2>1, StatesAt DEF StateType
  <2> QED
    BY <1>4, <1>5, <2>1, <2>3, <2>4, Zenon DEF StateType, StateInv
<1>14. ASSUME NEW c \in Client,
              \/ \E type \in Types, k \in Key : Invoke(c, type, k)
              \/ ClientTimeout(c) \/ CallFails(c) \/ Receive(c)
       PROVE  UNCHANGED <<kv, snap, dump, up>>
  BY <1>14, Zenon DEF Invoke, ClientTimeout, CallFails, Receive, raft
<1>15. ASSUME NEW c \in Client, NEW n \in 1..MaxCalls,
              \/ NotLeader(c, n) \/ Start(c, n) \/ Register(c, n) \/ Committed(c, n)
              \/ HandlerTimeout(c, n) \/ Lose(c, n)
       PROVE  UNCHANGED <<kv, snap, dump, up>>
  BY <1>15, Zenon DEF NotLeader, Start, Register, Committed, HandlerTimeout, Lose, raft
<1>16. ASSUME NEW l \in Server, NEW s \in Server, Elect(s) \/ Commit(s) \/ Replicate(l, s)
       PROVE  UNCHANGED <<kv, snap, dump, up>>
  BY <1>16, Zenon DEF Elect, Commit, Replicate
<1> QED
  BY <1>7, <1>8, <1>9, <1>10, <1>11, <1>12, <1>13, <1>14, <1>15, <1>16, Zenon DEF Next

-----------------------------------------------------------------------------
(* The contexts in cmdMap.                                                 *)

MapType == cmdMap \in [Server -> [Index -> {NoCall} \cup (Client \X (1..MaxCalls))]]

\* What the invariant says of one context.
LEMMA MapAt ==
    ASSUME IInv, NEW s \in Server, NEW i \in Index, NEW c \in Client, NEW n \in 1..MaxCalls,
           Held(s, i, c, n)
    PROVE  ContextOK(s, i, calls[c][n])
<1>1. MapInv
  BY Zenon DEF IInv
<1> QED
  BY <1>1, Zenon DEF MapInv

\* Contexts leave cmdMap, the others stay as they are, and states go forward.
LEMMA MapKept ==
    ASSUME IInv, StateType',
           \A s \in Server, i \in Index, c \in Client, n \in 1..MaxCalls : Held(s, i, c, n)' =>
              /\ Held(s, i, c, n) /\ calls'[c][n] = calls[c][n]
              /\ kv'[s].lastAppliedIndex >= kv[s].lastAppliedIndex
    PROVE  MapInv'
<1> SUFFICES ASSUME NEW s \in Server, NEW i \in Index, NEW c \in Client, NEW n \in 1..MaxCalls,
                    Held(s, i, c, n)'
             PROVE  ContextOK(s, i, calls[c][n])'
  BY Zenon DEF MapInv
<1>1. /\ Held(s, i, c, n) /\ calls'[c][n] = calls[c][n]
      /\ kv'[s].lastAppliedIndex >= kv[s].lastAppliedIndex
  BY Zenon
<1>2. i > kv'[s].lastAppliedIndex => i > kv[s].lastAppliedIndex
  <2>1. kv[s] \in KV /\ kv'[s] \in KV
    BY StatesAt DEF StateType
  <2>2. kv[s].lastAppliedIndex \in Nat /\ kv'[s].lastAppliedIndex \in Nat
    BY <2>1, IndexOf, Zenon
  <2>3. i \in Nat
    BY DEF Index
  <2> QED
    BY <1>1, <2>2, <2>3
<1>3. ContextOK(s, i, calls[c][n])
  BY <1>1, MapAt, Zenon
<1> QED
  BY <1>1, <1>2, <1>3, Zenon DEF ContextOK, Registered

\* A state that stays does not go back.
LEMMA SameIndex ==
    ASSUME IInv, NEW s \in Server
    PROVE  kv[s].lastAppliedIndex \in Nat /\ kv[s].lastAppliedIndex >= kv[s].lastAppliedIndex
<1>1. kv[s].lastAppliedIndex \in Nat
  BY StatesAt, IndexOf, Zenon
<1> QED
  BY <1>1

\* cmdMap and the states stay, and only calls change that are not in cmdMap.
LEMMA MapSame ==
    ASSUME IInv, StateType', UNCHANGED <<cmdMap, kv>>,
           \A c \in Client, n \in 1..MaxCalls :
              Registered(calls[c][n]) => calls'[c][n] = calls[c][n]
    PROVE  MapType' /\ MapInv'
<1>1. MapType'
  BY Zenon DEF IInv, TypeOK, MapType
<1>2. \A s \in Server, i \in Index, c \in Client, n \in 1..MaxCalls :
        Held(s, i, c, n)' <=> Held(s, i, c, n)
  BY Zenon DEF Held
<1>3. \A s \in Server, i \in Index, c \in Client, n \in 1..MaxCalls :
        Held(s, i, c, n) => calls'[c][n] = calls[c][n]
  <2> SUFFICES ASSUME NEW s \in Server, NEW i \in Index, NEW c \in Client, NEW n \in 1..MaxCalls,
                      Held(s, i, c, n)
               PROVE  calls'[c][n] = calls[c][n]
    BY Zenon
  <2>1. ContextOK(s, i, calls[c][n])
    BY MapAt, Zenon
  <2> QED
    BY <2>1, Zenon DEF ContextOK
<1> QED
  BY <1>1, <1>2, <1>3, SameIndex, MapKept, Zenon

\* The calls that a new request replaces are not in cmdMap.
LEMMA MapSent ==
    ASSUME IInv, StateType', UNCHANGED <<cmdMap, kv>>, NEW c \in Client, NEW op, NEW s,
           calls' = Sent(c, op, s)
    PROVE  MapType' /\ MapInv'
<1>1. calls \in [Client -> [1..MaxCalls -> Call]]
  BY Zenon DEF IInv, TypeOK
<1>2. /\ \A d \in Client \ {c} : calls'[d] = calls[d]
      /\ \A n \in 1..MaxCalls :
           n # clerk[c].sent + 1 /\ calls[c][n].stage # "reply" => calls'[c][n] = calls[c][n]
  BY <1>1 DEF Sent
<1>3. ASSUME NEW n \in 1..MaxCalls, Registered(calls[c][n])
      PROVE  n # clerk[c].sent + 1 /\ calls[c][n].stage # "reply"
  <2>1. calls[c][n].stage # "none" /\ calls[c][n].stage # "reply"
    BY <1>3 DEF Registered
  <2>2. ~(n > clerk[c].sent)
    BY <2>1, CallAt, Zenon DEF CallOK
  <2> QED
    BY <2>1, <2>2, ClerkAt
<1>4. \A d \in Client, n \in 1..MaxCalls :
        Registered(calls[d][n]) => calls'[d][n] = calls[d][n]
  BY <1>2, <1>3, Zenon
<1> QED
  BY <1>4, MapSame, Zenon

\* A call that is not in cmdMap changes.
LEMMA MapOther ==
    ASSUME IInv, StateType', UNCHANGED <<cmdMap, kv>>, NEW c \in Client, NEW n \in 1..MaxCalls,
           ~Registered(calls[c][n]),
           NEW m, calls' = [calls EXCEPT ![c][n] = m]
    PROVE  MapType' /\ MapInv'
<1>1. calls \in [Client -> [1..MaxCalls -> Call]]
  BY Zenon DEF IInv, TypeOK
<1>2. \A d \in Client, k \in 1..MaxCalls : d # c \/ k # n => calls'[d][k] = calls[d][k]
  BY <1>1
<1>3. \A d \in Client, k \in 1..MaxCalls :
        Registered(calls[d][k]) => calls'[d][k] = calls[d][k]
  BY <1>2, Zenon
<1> QED
  BY <1>3, MapSame, Zenon

\* The index of a call that Start has seen.
LEMMA StartedIndex ==
    ASSUME IInv, NEW c \in Client, NEW n \in 1..MaxCalls, Active(calls[c][n])
    PROVE  calls[c][n].index \in Index /\ calls[c][n].server \in Server
<1>1. calls[c][n] \in Call /\ CallOK(c, n, calls[c][n])
  BY CallAt, Zenon
<1>2. calls[c][n].index > 0
  BY <1>1, Zenon DEF CallOK, Named
<1>3. calls[c][n].index \in {0} \cup Index
  BY <1>1 DEF Call
<1>4. calls[c][n].index # 0
  BY <1>2, <1>3 DEF Index
<1> QED
  BY <1>1, <1>3, <1>4, CallParts, Zenon

\* A handler that is done takes its context out.
LEMMA ForgetOK ==
    ASSUME IInv, StateType', UNCHANGED kv, NEW c \in Client, NEW n \in 1..MaxCalls,
           Registered(calls[c][n]), Forget(c, n),
           NEW m, calls' = [calls EXCEPT ![c][n] = m]
    PROVE  MapType' /\ MapInv'
<1>1. calls \in [Client -> [1..MaxCalls -> Call]] /\ MapType
  BY Zenon DEF IInv, TypeOK, MapType
<1>2. PICK s, i : s = calls[c][n].server /\ i = calls[c][n].index
  OBVIOUS
<1>3. s \in Server /\ i \in Index
  <2>1. Active(calls[c][n])
    BY DEF Active, Registered
  <2> QED
    BY <2>1, <1>2, StartedIndex, Zenon
<1>4. cmdMap' = [cmdMap EXCEPT ![s][i] = IF @ = <<c, n>> THEN NoCall ELSE @]
  BY <1>2, Zenon DEF Forget
<1>5. PICK x : x = IF cmdMap[s][i] = <<c, n>> THEN NoCall ELSE cmdMap[s][i]
  OBVIOUS
<1>6. x \in {NoCall} \cup (Client \X (1..MaxCalls)) /\ x \in {cmdMap[s][i], NoCall}
  BY <1>5, <1>1, <1>3 DEF MapType
<1>7. x # <<c, n>>
  BY <1>5 DEF NoCall
<1>8. cmdMap' = [cmdMap EXCEPT ![s][i] = x]
  BY <1>4, <1>5, Zenon
<1>9. /\ MapType' /\ cmdMap'[s][i] = x
      /\ \A r \in Server, j \in Index : cmdMap'[r][j] \in {cmdMap[r][j], NoCall}
  BY <1>1, <1>3, <1>6, <1>8 DEF MapType
<1>10. \A d \in Client, k \in 1..MaxCalls : d # c \/ k # n => calls'[d][k] = calls[d][k]
  BY <1>1
<1>11. ASSUME NEW r \in Server, NEW j \in Index, NEW d \in Client, NEW k \in 1..MaxCalls,
              Held(r, j, d, k)'
       PROVE  /\ Held(r, j, d, k) /\ calls'[d][k] = calls[d][k]
              /\ kv'[r].lastAppliedIndex >= kv[r].lastAppliedIndex
  <2>1. Held(r, j, d, k)
    <3>1. cmdMap'[r][j] = <<d, k>> /\ cmdMap'[r][j] \in {cmdMap[r][j], NoCall}
      BY <1>9, <1>11, Zenon DEF Held
    <3> QED
      BY <3>1 DEF Held, NoCall
  <2>2. ~(d = c /\ k = n)
    <3>1. calls[d][k].server = r /\ calls[d][k].index = j
      <4>1. ContextOK(r, j, calls[d][k])
        BY <2>1, MapAt, Zenon
      <4> QED
        BY <4>1, Zenon DEF ContextOK
    <3>2. d = c /\ k = n => r = s /\ j = i
      BY <1>2, <3>1
    <3>3. ~Held(s, i, c, n)'
      BY <1>7, <1>9, Zenon DEF Held
    <3> QED
      BY <1>11, <3>2, <3>3, Zenon
  <2>3. kv'[r].lastAppliedIndex >= kv[r].lastAppliedIndex
    BY SameIndex, Zenon
  <2> QED
    BY <2>1, <2>2, <2>3, <1>10, Zenon
<1>12. MapInv'
  BY <1>11, MapKept, Zenon
<1> QED
  BY <1>9, <1>12

\* A handler puts its context in.
LEMMA RegisterMap ==
    ASSUME IInv, NEW c \in Client, NEW n \in 1..MaxCalls, Register(c, n), StateType'
    PROVE  MapType' /\ MapInv'
<1>1. calls \in [Client -> [1..MaxCalls -> Call]] /\ MapType
  BY Zenon DEF IInv, TypeOK, MapType
<1>2. PICK s, i : s = calls[c][n].server /\ i = calls[c][n].index
  OBVIOUS
<1>3. /\ calls[c][n].stage = "started" /\ cmdMap' = [cmdMap EXCEPT ![s][i] = <<c, n>>]
      /\ calls' = [calls EXCEPT ![c][n].stage = "waiting"] /\ UNCHANGED kv
  BY <1>2, Zenon DEF Register
<1>4. s \in Server /\ i \in Index
  <2>1. Active(calls[c][n])
    BY <1>3 DEF Active
  <2> QED
    BY <2>1, <1>2, StartedIndex, Zenon
<1>5. /\ MapType' /\ cmdMap'[s][i] = <<c, n>>
      /\ \A r \in Server, j \in Index : r # s \/ j # i => cmdMap'[r][j] = cmdMap[r][j]
  BY <1>1, <1>3, <1>4 DEF MapType
<1>6. /\ calls'[c][n].stage = "waiting" /\ calls'[c][n].server = s /\ calls'[c][n].index = i
      /\ \A d \in Client, k \in 1..MaxCalls : d # c \/ k # n => calls'[d][k] = calls[d][k]
  <2>1. PICK w : w = [calls[c][n] EXCEPT !.stage = "waiting"]
    OBVIOUS
  <2>2. calls[c][n] \in Call
    BY <1>1
  <2>3. w.stage = "waiting" /\ w.server = s /\ w.index = i
    BY <2>1, <2>2, <1>2 DEF Call
  <2>4. calls' = [calls EXCEPT ![c][n] = w]
    BY <2>1, <1>3
  <2> QED
    BY <2>3, <2>4, <1>1
<1>7. ASSUME NEW r \in Server, NEW j \in Index, NEW d \in Client, NEW k \in 1..MaxCalls,
             Held(r, j, d, k)'
      PROVE  ContextOK(r, j, calls[d][k])'
  <2>1. CASE r = s /\ j = i
    <3>1. d = c /\ k = n
      BY <2>1, <1>5, <1>7 DEF Held
    <3> QED
      BY <2>1, <3>1, <1>6 DEF ContextOK, Registered
  <2>2. CASE r # s \/ j # i
    <3>1. Held(r, j, d, k)
      BY <2>2, <1>5, <1>7, Zenon DEF Held
    <3>2. ContextOK(r, j, calls[d][k])
      BY <3>1, MapAt, Zenon
    <3>3. calls[d][k].stage # "started"
      BY <3>2 DEF ContextOK, Registered
    <3>4. calls'[d][k] = calls[d][k]
      BY <3>3, <1>3, <1>6, Zenon
    <3> QED
      BY <3>2, <3>4, <1>3, Zenon DEF ContextOK, Registered
  <2> QED
    BY <2>1, <2>2, Zenon
<1> QED
  BY <1>5, <1>7, Zenon DEF MapInv

\* applyMsgLoop tells the context at the index that it applies, once.
LEMMA ApplyMap ==
    ASSUME IInv, NEW s \in Server, ApplyMsg(s), StateType'
    PROVE  MapType' /\ MapInv'
<1>0. PICK i : i = kv[s].lastAppliedIndex + 1
  OBVIOUS
<1> DEFINE e == log[s][i]
           at == cmdMap[s][i]
<1>1. calls \in [Client -> [1..MaxCalls -> Call]] /\ MapType /\ kv \in [Server -> KV]
  BY Zenon DEF IInv, TypeOK, MapType
<1>2. /\ UNCHANGED cmdMap /\ i <= Len(chosen) /\ HasChosen(s, i)
      /\ kv' = [kv EXCEPT ![s] = Applied(@, e.op)]
      /\ \/ at = NoCall /\ UNCHANGED calls
         \/ /\ at # NoCall
            /\ \E t \in TermOf(e, s) :
                 calls' = [calls EXCEPT ![at[1]][at[2]] = Closed(@, e.op, t, kv'[s])]
  BY <1>0, Zenon DEF ApplyMsg
<1>3. /\ kv'[s].lastAppliedIndex = i /\ \A r \in Server \ {s} : kv'[r] = kv[r]
      /\ i \in Index /\ i > kv[s].lastAppliedIndex
  <2>1. RaftType /\ RaftInv
    BY Zenon DEF IInv, TypeOK, RaftType
  <2>2. i \in 1..Len(chosen) /\ Applied(kv[s], e.op) = Replay(i)
    BY <1>0, <1>2, <2>1, ApplyState, StatesAt, Zenon
  <2>3. Replay(i).lastAppliedIndex = i
    <3>1. i \in 0..Len(chosen)
      BY <2>2
    <3> QED
      BY <2>1, <3>1, ReplayIsReplayed, Zenon
  <2>4. Len(chosen) \in Nat /\ Len(chosen) <= MaxRequests
    BY <2>1, ChosenLength, Zenon
  <2>5. i \in Index /\ i > kv[s].lastAppliedIndex
    BY <1>0, <1>2, <2>4, SameIndex, IndexAfter, Zenon
  <2> QED
    BY <1>1, <1>2, <2>2, <2>3, <2>5
<1>4. MapType' /\ \A r, j, c, n : Held(r, j, c, n)' <=> Held(r, j, c, n)
  BY <1>1, <1>2, Zenon DEF MapType, Held
<1>5. ASSUME NEW r \in Server, NEW j \in Index, NEW d \in Client, NEW k \in 1..MaxCalls,
             Held(r, j, d, k)'
      PROVE  ContextOK(r, j, calls[d][k])'
  <2>1. Held(r, j, d, k) /\ ContextOK(r, j, calls[d][k])
    BY <1>4, <1>5, MapAt, Zenon
  <2>2. j > kv'[r].lastAppliedIndex => j > kv[r].lastAppliedIndex
    <3>1. j \in Nat /\ kv[r].lastAppliedIndex \in Nat
      BY SameIndex DEF Index
    <3> QED
      BY <1>3, <3>1 DEF Index
  <2>3. CASE calls'[d][k] = calls[d][k]
    BY <2>1, <2>2, <2>3, Zenon DEF ContextOK, Registered
  <2>4. CASE calls'[d][k] # calls[d][k]
    <3>1. at # NoCall
      BY <1>2, <2>4, Zenon
    <3>2. PICK t \in TermOf(e, s) :
            calls' = [calls EXCEPT ![at[1]][at[2]] = Closed(@, e.op, t, kv'[s])]
      BY <1>2, <3>1, Zenon
    <3>3. d = at[1] /\ k = at[2]
      <4>1. at \in {NoCall} \cup (Client \X (1..MaxCalls))
        BY <1>1, <1>3 DEF MapType
      <4>2. at \in Client \X (1..MaxCalls)
        BY <3>1, <4>1, Zenon
      <4>3. at[1] \in Client /\ at[2] \in 1..MaxCalls
        BY <4>2
      <4> HIDE DEF at, e
      <4> QED
        BY <1>1, <2>4, <3>2, <4>3
    <3>4. Held(s, i, d, k)
      <4>1. at \in Client \X (1..MaxCalls)
        BY <1>1, <1>3, <3>1 DEF MapType
      <4>2. at = <<at[1], at[2]>>
        BY <4>1
      <4> QED
        BY <4>2, <3>3, Zenon DEF Held
    <3>5. ContextOK(s, i, calls[d][k])
      BY <3>4, <1>3, MapAt, Zenon
    <3>6. r = s /\ j = i
      BY <2>1, <3>5 DEF ContextOK
    <3>7. calls'[d][k] = Closed(calls[d][k], e.op, t, kv'[s])
      <4> HIDE DEF e
      <4> QED
        BY <1>1, <3>2, <3>3
    <3>8. /\ calls'[d][k].stage = "closed"
          /\ calls'[d][k].server = calls[d][k].server /\ calls'[d][k].index = calls[d][k].index
      <4>1. calls[d][k] \in Call
        BY <1>1
      <4> HIDE DEF e
      <4> QED
        BY <3>7, <4>1 DEF Closed, Call
    <3>9. ~(j > kv'[r].lastAppliedIndex)
      BY <3>6, <1>3 DEF Index
    <3> QED
      BY <3>5, <3>6, <3>8, <3>9 DEF ContextOK, Registered
  <2> QED
    BY <2>3, <2>4, Zenon
<1> QED
  BY <1>4, <1>5, Zenon DEF MapInv

\* The contexts of a server that stops are gone, those of the others stay.
LEMMA KillMap ==
    ASSUME IInv, NEW s \in Server, Kill(s), StateType'
    PROVE  MapType' /\ MapInv'
<1>1. calls \in [Client -> [1..MaxCalls -> Call]] /\ MapType /\ kv \in [Server -> KV]
  BY Zenon DEF IInv, TypeOK, MapType
<1>2. /\ kv' = [kv EXCEPT ![s] = Empty]
      /\ cmdMap' = [cmdMap EXCEPT ![s] = [i \in Index |-> NoCall]]
      /\ calls' = [c \in Client |-> [n \in 1..MaxCalls |->
            IF calls[c][n].server = s /\ calls[c][n].stage \in {"started", "waiting", "closed"}
            THEN Unsent ELSE calls[c][n]]]
  BY Zenon DEF Kill
<1>3. /\ MapType'
      /\ \A r \in Server, j \in Index : cmdMap'[r][j] = IF r = s THEN NoCall ELSE cmdMap[r][j]
      /\ \A r \in Server \ {s} : kv'[r] = kv[r]
  BY <1>1, <1>2 DEF MapType
<1>4. \A d \in Client, k \in 1..MaxCalls : calls[d][k].server # s => calls'[d][k] = calls[d][k]
  BY <1>2
<1>5. ASSUME NEW r \in Server, NEW j \in Index, NEW d \in Client, NEW k \in 1..MaxCalls,
             Held(r, j, d, k)'
      PROVE  /\ Held(r, j, d, k) /\ calls'[d][k] = calls[d][k]
             /\ kv'[r].lastAppliedIndex >= kv[r].lastAppliedIndex
  <2>1. cmdMap'[r][j] # NoCall
    BY <1>5 DEF Held, NoCall
  <2>2. r # s /\ Held(r, j, d, k)
    BY <2>1, <1>3, <1>5, Zenon DEF Held
  <2>3. ContextOK(r, j, calls[d][k])
    BY <2>2, MapAt, Zenon
  <2>4. calls'[d][k] = calls[d][k]
    BY <2>2, <2>3, <1>4, Zenon DEF ContextOK
  <2>5. kv'[r].lastAppliedIndex >= kv[r].lastAppliedIndex
    BY <2>2, <1>3, SameIndex
  <2> QED
    BY <2>2, <2>4, <2>5, Zenon
<1>6. MapInv'
  BY <1>5, MapKept, Zenon
<1> QED
  BY <1>3, <1>6, Zenon

\* The states go forward: a server that starts was at 0.
LEMMA ForwardMap ==
    ASSUME IInv, NEW s \in Server, StateType', UNCHANGED <<cmdMap, calls>>,
           \/ \E l \in Server : InstallSnapshot(l, s)
           \/ StartKVServer(s)
    PROVE  MapType' /\ MapInv'
<1>1. MapType' /\ kv \in [Server -> KV] /\ RaftType /\ RaftInv
  BY Zenon DEF IInv, TypeOK, MapType, RaftType
<1>2. kv'[s].lastAppliedIndex >= kv[s].lastAppliedIndex /\ \A r \in Server \ {s} : kv'[r] = kv[r]
  <2>1. ASSUME NEW l \in Server, InstallSnapshot(l, s)
        PROVE  kv'[s].lastAppliedIndex >= kv[s].lastAppliedIndex /\ \A r \in Server \ {s} : kv'[r] = kv[r]
    <3>1. kv' = [kv EXCEPT ![s] = Installed(kv[s], snap[l])]
      BY <2>1, Zenon DEF InstallSnapshot
    <3>2. Installed(kv[s], snap[l]).lastAppliedIndex >= kv[s].lastAppliedIndex
      BY <1>1, InstalledReplayed, StatesAt, Zenon
    <3> QED
      BY <1>1, <3>1, <3>2
  <2>2. CASE StartKVServer(s)
    <3>1. kv' = [kv EXCEPT ![s] = Installed(Empty, snap[s])] /\ s \notin up
      BY <2>2, Zenon DEF StartKVServer
    <3>2. kv[s].lastAppliedIndex = 0 /\ Empty.lastAppliedIndex = 0
      BY <3>1, StatesAt, EmptyType, Zenon
    <3>3. Installed(Empty, snap[s]).lastAppliedIndex >= Empty.lastAppliedIndex
      BY <1>1, EmptyReplayed, InstalledReplayed, StatesAt, Zenon
    <3> QED
      BY <1>1, <3>1, <3>2, <3>3
  <2> QED
    BY <2>1, <2>2, Zenon
<1>3. \A r \in Server : kv'[r].lastAppliedIndex >= kv[r].lastAppliedIndex
  BY <1>2, SameIndex
<1>4. \A r, j, c, n : Held(r, j, c, n)' <=> Held(r, j, c, n)
  BY Zenon DEF Held
<1>5. MapInv'
  BY <1>3, <1>4, MapKept, Zenon
<1> QED
  BY <1>1, <1>5, Zenon

\* Every step keeps what is said of cmdMap.
LEMMA MapNext ==
    ASSUME IInv, Next, StateType'
    PROVE  MapType' /\ MapInv'
<1>1. ASSUME NEW c \in Client,
             \/ \E type \in Types, k \in Key : Invoke(c, type, k)
             \/ ClientTimeout(c) \/ CallFails(c) \/ Receive(c)
      PROVE  MapType' /\ MapInv'
  <2>1. UNCHANGED <<cmdMap, kv>>
    BY <1>1, Zenon DEF Invoke, ClientTimeout, CallFails, Receive
  <2>2. CASE \E op, s : calls' = Sent(c, op, s)
    BY <2>1, <2>2, MapSent, Zenon
  <2>3. CASE clerk[c].waiting /\ Current(c).stage = "reply" /\ calls' = [calls EXCEPT ![c][clerk[c].sent] = Unsent]
    <3>1. clerk[c].sent \in 1..MaxCalls
      <4>1. clerk[c].sent > 0 /\ clerk[c] \in Clerk
        BY <2>3, WaitingClerk, ClerkAt, Zenon
      <4>2. clerk[c].sent \in 0..MaxCalls
        BY <4>1 DEF Clerk
      <4> QED
        BY <4>1, <4>2, Bounds
    <3>2. ~Registered(calls[c][clerk[c].sent])
      BY <2>3 DEF Registered, Current
    <3> QED
      BY <2>1, <2>3, <3>1, <3>2, MapOther, Zenon
  <2> QED
    BY <1>1, <2>2, <2>3, Zenon DEF Invoke, ClientTimeout, CallFails, Receive
<1>2. ASSUME NEW c \in Client, NEW n \in 1..MaxCalls, NotLeader(c, n) \/ Start(c, n) \/ Lose(c, n)
      PROVE  MapType' /\ MapInv'
  <2>1. UNCHANGED <<cmdMap, kv>> /\ calls[c][n].stage \in {"sent", "reply"}
    BY <1>2 DEF NotLeader, Start, Lose
  <2>2. ~Registered(calls[c][n])
    BY <2>1 DEF Registered
  <2>3. \E m : calls' = [calls EXCEPT ![c][n] = m]
    BY <1>2, Zenon DEF NotLeader, Start, Lose, Replied
  <2> QED
    BY <2>1, <2>2, <2>3, MapOther, Zenon
<1>3. ASSUME NEW c \in Client, NEW n \in 1..MaxCalls, Committed(c, n) \/ HandlerTimeout(c, n)
      PROVE  MapType' /\ MapInv'
  <2>1. UNCHANGED kv /\ Forget(c, n)
    BY <1>3, Zenon DEF Committed, HandlerTimeout
  <2>2. Registered(calls[c][n])
    BY <1>3 DEF Committed, HandlerTimeout, Registered
  <2>3. \E m : calls' = [calls EXCEPT ![c][n] = m]
    BY <1>3, Zenon DEF Committed, HandlerTimeout, Replied
  <2> QED
    BY <2>1, <2>2, <2>3, ForgetOK, Zenon
<1>4. ASSUME NEW s \in Server, NEW l \in Server,
             Elect(s) \/ Commit(s) \/ Dump(s) \/ TakeSnapshot(s) \/ Replicate(l, s)
      PROVE  MapType' /\ MapInv'
  <2>1. UNCHANGED <<cmdMap, kv, calls>>
    BY <1>4, Zenon DEF Elect, Commit, Dump, TakeSnapshot, Replicate
  <2> QED
    BY <2>1, MapSame, Zenon
<1>5. ASSUME NEW s \in Server, (\E l \in Server : InstallSnapshot(l, s)) \/ StartKVServer(s)
      PROVE  MapType' /\ MapInv'
  <2>1. UNCHANGED <<cmdMap, calls>>
    BY <1>5, Zenon DEF InstallSnapshot, StartKVServer
  <2> QED
    BY <1>5, <2>1, ForwardMap, Zenon
<1> QED
  BY <1>1, <1>2, <1>3, <1>4, <1>5, RegisterMap, ApplyMap, KillMap, Zenon DEF Next
-----------------------------------------------------------------------------
(* The handlers and applyMsgLoop: what they leave in a call.               *)

\* A call that a step leaves alone.
LEMMA CallKeptAt ==
    ASSUME IInv, RaftStep, NEW c \in Client, NEW n \in 1..MaxCalls, NEW m \in Call,
           clerk'[c] = clerk[c], CallOK(c, n, m)
    PROVE  CallOK(c, n, m)'
<1>1. RaftType /\ RaftInv
  BY Zenon DEF IInv, TypeOK, RaftType
<1> QED
  BY <1>1, ClerkAt, CallKept, Zenon

\* One call becomes m.
LEMMA CallStep ==
    ASSUME IInv, RaftStep, UNCHANGED clerk, NEW c \in Client, NEW n \in 1..MaxCalls, NEW m \in Call,
           calls' = [calls EXCEPT ![c][n] = m], CallOK(c, n, m)'
    PROVE  calls' \in [Client -> [1..MaxCalls -> Call]] /\ CallInv'
<1>1. calls \in [Client -> [1..MaxCalls -> Call]]
  BY Zenon DEF IInv, TypeOK
<1>2. /\ calls' \in [Client -> [1..MaxCalls -> Call]]
      /\ calls'[c][n] = m
      /\ \A d \in Client, k \in 1..MaxCalls : d # c \/ k # n => calls'[d][k] = calls[d][k]
  BY <1>1
<1>3. ASSUME NEW d \in Client, NEW k \in 1..MaxCalls PROVE CallOK(d, k, calls[d][k])'
  <2>1. CallOK(d, k, calls[d][k])
    BY CallAt, Zenon
  <2>2. CASE d = c /\ k = n
    BY <2>2, <1>2, Zenon
  <2>3. CASE d # c \/ k # n
    BY <2>1, <2>3, <1>2, CallAt, CallKeptAt, Zenon
  <2> QED
    BY <2>2, <2>3, Zenon
<1> QED
  BY <1>2, <1>3, Zenon DEF CallInv

\* No call changes.
LEMMA CallsKept ==
    ASSUME IInv, RaftStep, UNCHANGED <<clerk, calls>>
    PROVE  calls' \in [Client -> [1..MaxCalls -> Call]] /\ CallInv'
<1>1. calls \in [Client -> [1..MaxCalls -> Call]]
  BY Zenon DEF IInv, TypeOK
<1>2. ASSUME NEW d \in Client, NEW k \in 1..MaxCalls PROVE CallOK(d, k, calls[d][k])'
  BY CallAt, CallKeptAt, Zenon
<1> QED
  BY <1>1, <1>2, Zenon DEF CallInv

\* A handler answers.
LEMMA RepliedOK ==
    ASSUME IInv, RaftStep, UNCHANGED clerk, NEW c \in Client, NEW n \in 1..MaxCalls,
           NEW err \in {"OK", "ErrWrongLeader"}, NEW value \in Value,
           err = "OK" /\ Awaited(c, n) =>
              \E i \in (clerk[c].start + 1)..Len(chosen) : AnsweredAt(c, value, i),
           calls' = Replied(c, n, err, value)
    PROVE  calls' \in [Client -> [1..MaxCalls -> Call]] /\ CallInv'
<1>1. PICK r : r = [Unsent EXCEPT !.stage = "reply", !.Err = err, !.value = value]
  OBVIOUS
<1> DEFINE m == IF Awaited(c, n) THEN r ELSE Unsent
<1>a. calls' = [calls EXCEPT ![c][n] = m]
  BY <1>1, Zenon DEF Replied, Awaited
<1>2. Unsent \in Call /\ CallOK(c, n, Unsent)
  BY UnsentCall, Zenon
<1>3. r \in Call /\ r.stage = "reply" /\ r.Err = err /\ r.value = value
  BY <1>1, <1>2 DEF Call
<1>4. Awaited(c, n) => CallOK(c, n, r)
  <2>1. Awaited(c, n) => ~(n > clerk[c].sent)
    BY DEF Awaited
  <2> QED
    BY <2>1, <1>3, Zenon DEF CallOK, Active
<1>5. m \in Call /\ CallOK(c, n, m)
  BY <1>2, <1>3, <1>4, Zenon
<1> HIDE DEF m
<1> QED
  BY <1>a, <1>5, CallKeptAt, CallStep, Zenon

\* Start: the entry that the leader appends is the only one of its index and term.
LEMMA StartOK ==
    ASSUME IInv, RaftStep, NEW c \in Client, NEW n \in 1..MaxCalls, Start(c, n)
    PROVE  calls' \in [Client -> [1..MaxCalls -> Call]] /\ CallInv'
<1> DEFINE m == calls[c][n]
           s == m.server
           t == leads[s]
           i == Len(log[s]) + 1
<1>1. m \in Call /\ CallOK(c, n, m)
  BY CallAt, Zenon
<1>2. s \in Server
  BY <1>1, CallParts, Zenon
<1>3. /\ m.stage = "sent" /\ t # 0 /\ Len(log[s]) < MaxRequests
      /\ log' = [log EXCEPT ![s] = Append(@, [op |-> m.op, LogTerm |-> t])]
      /\ calls' = [calls EXCEPT ![c][n] =
                     [m EXCEPT !.stage = "started", !.index = Len(log'[s]), !.Term = t]]
      /\ UNCHANGED <<clerk, leads, term, chosen>>
  BY Zenon DEF Start
<1>4. /\ \A r \in Server : log[r] \in Seq(Entry) /\ Len(log[r]) \in Nat /\ leads[r] \in 0..MaxTerm
      /\ log \in [Server -> Seq(Entry)] /\ chosen \in Seq(Entry) /\ Len(chosen) \in Nat /\ term \in Nat
  BY DEF IInv, TypeOK
<1> HIDE DEF m
<1>5. /\ log'[s] = Append(log[s], [op |-> m.op, LogTerm |-> t])
      /\ \A r \in Server : r # s => log'[r] = log[r]
  BY <1>2, <1>3, <1>4
<1>6. Len(log'[s]) = i /\ log'[s][i].op = m.op
  <2> DEFINE e == [op |-> m.op, LogTerm |-> t]
  <2>1. e.op = m.op
    OBVIOUS
  <2>2. log'[s] = Append(log[s], e) /\ log[s] \in Seq(Entry)
    BY <1>2, <1>4, <1>5
  <2> HIDE DEF e
  <2>3. Len(log'[s]) = i /\ log'[s][i] = e
    BY <2>2
  <2> QED
    BY <2>1, <2>3
<1>7. i \in Index /\ i \in Nat /\ i > Len(log[s]) /\ t \in 1..MaxTerm /\ t <= term
  <2>1. leads[s] <= term
    BY <1>2, Zenon DEF IInv, RaftInv
  <2>2. leads[s] \in 0..MaxTerm /\ Len(log[s]) \in Nat
    BY <1>2, <1>4, Zenon
  <2>3. \A x \in 0..MaxTerm : x # 0 => x \in 1..MaxTerm
    BY Bounds
  <2>4. \A x \in Nat : x < MaxRequests => x + 1 <= MaxRequests
    BY Bounds
  <2>5. Len(log[s]) + 1 \in Index /\ Len(log[s]) + 1 \in Nat /\ Len(log[s]) + 1 > Len(log[s])
    <3>1. Len(log[s]) < MaxRequests
      BY <1>3, Zenon
    <3> QED
      BY <3>1, <2>2, <2>4, Bounds DEF Index
  <2> QED
    BY <2>1, <2>2, <2>3, <2>5, <1>3, Zenon
<1>8. PICK w : /\ w \in Call /\ w.stage = "started" /\ w.index = i /\ w.Term = t /\ w.op = m.op
               /\ calls' = [calls EXCEPT ![c][n] = w]
  <2> HIDE DEF i, t
  <2>1. PICK x : x = [m EXCEPT !.stage = "started", !.index = i, !.Term = t]
    OBVIOUS
  <2>2. x \in Call /\ x.stage = "started" /\ x.index = i /\ x.Term = t /\ x.op = m.op
    <3>1. i \in {0} \cup Index /\ t \in 0..MaxTerm
      BY <1>7, Bounds
    <3> QED
      BY <2>1, <3>1, <1>1 DEF Call
  <2>3. calls' = [calls EXCEPT ![c][n] = x]
    BY <2>1, <1>3, <1>6, Zenon
  <2> QED
    BY <2>2, <2>3, Zenon
<1> HIDE DEF i, t, s
<1>9. ASSUME NEW es, GoodLog(es), Carries(es, w) PROVE FALSE
  <2>1. i \in 1..Len(es) /\ es[i].LogTerm = leads[s]
    BY <1>8, <1>9, Zenon DEF Carries, t
  <2>2. i <= Len(log[s])
    BY <2>1, <1>2, <1>9 DEF GoodLog
  <2> QED
    BY <2>2, <1>2, <1>4, <1>7
<1>10. /\ \A r \in Server : GoodLog(log[r])
       /\ GoodLog(chosen)
       /\ \A r \in Server : leads[r] = t => r = s
  BY <1>2, <1>3, Zenon DEF IInv, RaftInv, t
<1>11. Named(w)'
  <2>1. w.index > 0 /\ w.Term > 0 /\ w.Term <= term'
    BY <1>3, <1>7, <1>8, <1>4 DEF Index
  <2>2. \A r \in Server : leads'[r] = w.Term => w.index <= Len(log'[r])
    <3>1. i <= i
      BY <1>7 DEF Index
    <3> QED
      BY <3>1, <1>3, <1>6, <1>8, <1>10, Zenon
  <2>3. \A r \in Server : Carries(log'[r], w) => log'[r][w.index].op = w.op
    BY <1>5, <1>6, <1>8, <1>9, <1>10, Zenon
  <2>4. Carries(chosen', w) => chosen'[w.index].op = w.op
    BY <1>3, <1>9, <1>10, Zenon
  <2> QED
    BY <2>1, <2>2, <2>3, <2>4, Zenon DEF Named
<1>12. ~Carries(chosen', w)
  BY <1>3, <1>9, <1>10, Zenon
<1>13. /\ n > clerk[c].sent => FALSE
       /\ w.op.SeqId > 0
       /\ Awaited(c, n) => w.op = clerk[c].op
  <2>1. m.stage # "none" /\ m.stage \notin {"none", "reply"}
    BY <1>3
  <2> QED
    BY <2>1, <1>1, <1>8, Zenon DEF CallOK
<1>14. CallOK(c, n, w)'
  <2>1. w.stage # "closed" /\ w.stage # "reply"
    BY <1>8
  <2>2. Awaited(c, n)' <=> Awaited(c, n)
    BY <1>3, Zenon DEF Awaited
  <2> QED
    BY <2>1, <2>2, <1>3, <1>11, <1>12, <1>13, Zenon DEF CallOK
<1> QED
  BY <1>3, <1>8, <1>14, CallStep, Zenon

\* Register: only the stage changes.
LEMMA RegisterOK ==
    ASSUME IInv, RaftStep, NEW c \in Client, NEW n \in 1..MaxCalls, Register(c, n)
    PROVE  calls' \in [Client -> [1..MaxCalls -> Call]] /\ CallInv'
<1> DEFINE m == calls[c][n]
<1>1. m \in Call /\ CallOK(c, n, m)
  BY CallAt, Zenon
<1>2. m.stage = "started" /\ UNCHANGED clerk /\ calls' = [calls EXCEPT ![c][n].stage = "waiting"]
  BY Zenon DEF Register
<1>3. PICK w : w = [m EXCEPT !.stage = "waiting"]
  OBVIOUS
<1>4. calls' = [calls EXCEPT ![c][n] = w]
  BY <1>2, <1>3
<1> HIDE DEF m
<1>5. /\ w \in Call /\ w.stage = "waiting"
      /\ w.op = m.op /\ w.index = m.index /\ w.Term = m.Term
  BY <1>1, <1>3 DEF Call
<1>6. CallOK(c, n, w)
  <2>1. /\ w.stage \notin {"none", "closed", "reply"} /\ m.stage \notin {"none", "reply"}
        /\ Active(m)
    BY <1>2, <1>5 DEF Active
  <2> QED
    BY <2>1, <1>1, <1>5, Zenon DEF CallOK, Named, Carries
<1> QED
  BY <1>2, <1>4, <1>5, <1>6, CallKeptAt, CallStep, Zenon

\* What a handler that saw success answers.
LEMMA CommittedOK ==
    ASSUME IInv, RaftStep, NEW c \in Client, NEW n \in 1..MaxCalls, Committed(c, n)
    PROVE  calls' \in [Client -> [1..MaxCalls -> Call]] /\ CallInv'
<1> DEFINE m == calls[c][n]
<1>1. m \in Call /\ CallOK(c, n, m) /\ m.value \in Value /\ m.index \in Nat
  BY CallAt, CallParts, CallNumbers, Zenon
<1>2. /\ m.stage = "closed" /\ UNCHANGED clerk
      /\ calls' = IF m.wrongLeader THEN Replied(c, n, "ErrWrongLeader", <<>>)
                  ELSE Replied(c, n, "OK", m.value)
  BY Zenon DEF Committed
<1>3. <<>> \in Value /\ "OK" # "ErrWrongLeader"
  BY DEF Value
<1> HIDE DEF m
<1>4. CASE m.wrongLeader
  BY <1>2, <1>3, <1>4, RepliedOK, Zenon
<1>5. CASE ~m.wrongLeader
  <2>1. ASSUME Awaited(c, n)
        PROVE  \E i \in (clerk[c].start + 1)..Len(chosen) : AnsweredAt(c, m.value, i)
    <3>1. Active(m) /\ m.stage \notin {"none", "reply"}
      BY <1>2 DEF Active
    <3>2. Told(m) /\ Named(m) /\ m.op = clerk[c].op
      BY <1>1, <1>2, <1>5, <2>1, <3>1, Zenon DEF CallOK
    <3>3. Carries(chosen, m)
      BY <3>2, Zenon DEF Told
    <3>4. m.index > clerk[c].start
      BY <1>1, <2>1, <3>1, <3>3, Zenon DEF CallOK
    <3>5. m.index \in (clerk[c].start + 1)..Len(chosen)
      BY <3>3, <3>4, <1>1, ClerkAt DEF Carries
    <3>6. AnsweredAt(c, m.value, m.index)
      BY <3>2, <3>3, Zenon DEF AnsweredAt, Told, Named
    <3> QED
      BY <3>5, <3>6, Zenon
  <2> QED
    BY <1>1, <1>2, <1>5, <2>1, RepliedOK, Zenon
<1> QED
  BY <1>4, <1>5, Zenon

\* What applyMsgLoop tells a context.
LEMMA ApplyOK ==
    ASSUME IInv, RaftStep, NEW s \in Server, ApplyMsg(s)
    PROVE  calls' \in [Client -> [1..MaxCalls -> Call]] /\ CallInv'
<1>0. PICK i : i = kv[s].lastAppliedIndex + 1
  OBVIOUS
<1> DEFINE e == log[s][i]
           at == cmdMap[s][i]
<1>1. RaftType /\ RaftInv
  BY Zenon DEF IInv, TypeOK, RaftType
<1>2. /\ i <= Len(chosen) /\ HasChosen(s, i) /\ UNCHANGED <<clerk, chosen>>
      /\ kv' = [kv EXCEPT ![s] = Applied(@, e.op)]
      /\ \/ at = NoCall /\ UNCHANGED calls
         \/ /\ at # NoCall
            /\ \E t \in TermOf(e, s) :
                 calls' = [calls EXCEPT ![at[1]][at[2]] = Closed(@, e.op, t, kv'[s])]
  BY <1>0, Zenon DEF ApplyMsg, raft
<1>3. i \in 1..Len(chosen) /\ e = chosen[i] /\ Applied(kv[s], e.op) = Replay(i)
  BY <1>0, <1>1, <1>2, ApplyState, StatesAt, Zenon
<1>4. kv'[s] = Replay(i)
  BY <1>2, <1>3 DEF IInv, TypeOK
<1>5. i \in Index /\ i > kv[s].lastAppliedIndex
  <2>1. kv[s].lastAppliedIndex \in Nat
    BY StatesAt, IndexOf, Zenon
  <2>2. Len(chosen) \in Nat /\ Len(chosen) <= MaxRequests
    BY <1>1, ChosenLength, Zenon
  <2> QED
    BY <2>1, <2>2, <1>0, <1>2, IndexAfter, Zenon
<1>6. CASE at = NoCall /\ UNCHANGED calls
  BY <1>2, <1>6, CallsKept, Zenon
<1>7. ASSUME at # NoCall, NEW t \in TermOf(e, s),
             calls' = [calls EXCEPT ![at[1]][at[2]] = Closed(@, e.op, t, kv'[s])]
      PROVE  calls' \in [Client -> [1..MaxCalls -> Call]] /\ CallInv'
  <2>1. PICK c \in Client, n \in 1..MaxCalls : at = <<c, n>>
    <3>1. at \in {NoCall} \cup (Client \X (1..MaxCalls))
      BY <1>5 DEF IInv, TypeOK
    <3> HIDE DEF at
    <3>2. at \in Client \X (1..MaxCalls)
      BY <3>1, <1>7, Zenon
    <3>3. at[1] \in Client /\ at[2] \in 1..MaxCalls /\ at = <<at[1], at[2]>>
      BY <3>2
    <3> QED
      BY <3>3, Zenon
  <2> DEFINE m == calls[c][n]
             v == IF e.op.Type = "Get" THEN Replay(i).kvStore[e.op.Key] ELSE <<>>
  <2>2. /\ m.stage = "waiting" /\ m.index = i
    <3>1. MapInv
      BY Zenon DEF IInv
    <3>2. Held(s, i, c, n)
      BY <2>1 DEF Held
    <3> QED
      BY <3>1, <3>2, <1>5 DEF MapInv, ContextOK
  <2>3. m \in Call /\ CallOK(c, n, m)
    BY CallAt, Zenon
  <2>4. v \in Value
    <3>1. Replay(i) \in KV
      <4>1. i \in 0..Len(chosen)
        BY <1>3
      <4> QED
        BY <1>1, <4>1, ReplayIsReplayed, Zenon
    <3>2. e.op \in Op
      BY <1>1, <1>3, EntryType DEF RaftType
    <3>3. Replay(i).kvStore \in [Key -> Value]
      BY <3>1 DEF KV
    <3>4. e.op.Key \in Key
      BY <3>2 DEF Op
    <3>5. <<>> \in Value
      BY DEF Value
    <3> QED
      BY <3>3, <3>4, <3>5, Zenon
  <2>5. calls' = [calls EXCEPT ![c][n] = [m EXCEPT !.stage = "closed", !.wrongLeader = (t # m.Term), !.value = v]]
    BY <1>4, <1>7, <2>1 DEF Closed
  <2> HIDE DEF m, v
  <2>6. PICK w : w = [m EXCEPT !.stage = "closed", !.wrongLeader = (t # m.Term), !.value = v]
    OBVIOUS
  <2>7. /\ w \in Call /\ w.stage = "closed" /\ w.value = v
        /\ w.op = m.op /\ w.index = m.index /\ w.Term = m.Term
    BY <2>3, <2>4, <2>6 DEF Call
  <2>8. ~w.wrongLeader => t = m.Term
    BY <2>3, <2>6 DEF Call
  <2>9. Named(w) /\ Named(m)
    <3>1. Active(m)
      BY <2>2 DEF Active
    <3> QED
      BY <3>1, <2>3, <2>7, Zenon DEF CallOK, Named, Carries
  <2>10. ~w.wrongLeader => Told(w)
    <3> SUFFICES ASSUME ~w.wrongLeader PROVE Told(w)
      OBVIOUS
    <3>1. w.Term > 0 /\ w.Term \in Nat
      BY <2>7, <2>9, CallNumbers DEF Named
    <3>2. t \in {0, e.LogTerm} /\ t = w.Term
      BY <2>7, <2>8 DEF TermOf
    <3>3. e.LogTerm = w.Term
      BY <3>1, <3>2
    <3>4. Carries(chosen, w)
      BY <3>3, <1>3, <2>2, <2>7, Zenon DEF Carries
    <3>5. e.op = w.op
      BY <3>4, <1>3, <2>2, <2>7, <2>9, Zenon DEF Named
    <3> QED
      BY <3>4, <3>5, <2>2, <2>7, Zenon DEF Told, v
  <2>11. CallOK(c, n, w)
    <3>1. /\ m.stage \notin {"none", "reply"} /\ w.stage # "reply" /\ Active(m)
      BY <2>2, <2>7 DEF Active
    <3> QED
      BY <3>1, <2>3, <2>7, <2>9, <2>10, Zenon DEF CallOK, Carries
  <2>12. calls' = [calls EXCEPT ![c][n] = w]
    BY <2>5, <2>6, Zenon
  <2> QED
    BY <1>2, <2>7, <2>11, <2>12, CallKeptAt, CallStep, Zenon
<1> QED
  BY <1>2, <1>6, <1>7, Zenon

-----------------------------------------------------------------------------
(* The clerks.                                                             *)

CallsType  == calls \in [Client -> [1..MaxCalls -> Call]]
ClerksType == clerk \in [Client -> Clerk]

\* changeLeader stays among the servers.
LEMMA NextServerType ==
    ASSUME NEW s \in Server
    PROVE  NextServer(s) \in Server
  BY Bounds DEF NextServer, Server

\* A call that its clerk does not wait for any more goes on.
LEMMA CallLeft ==
    ASSUME IInv, RaftStep, NEW c \in Client, NEW n \in 1..MaxCalls, NEW m \in Call,
           CallOK(c, n, m), m.stage # "reply", clerk'[c].sent \in Nat,
           clerk[c].sent <= clerk'[c].sent, ~Awaited(c, n)'
    PROVE  CallOK(c, n, m)'
<1>1. RaftType /\ RaftInv
  BY Zenon DEF IInv, TypeOK, RaftType
<1>2. n > clerk'[c].sent => m.stage = "none"
  <2>1. n > clerk'[c].sent => n > clerk[c].sent
    BY ClerkAt
  <2> QED
    BY <2>1, Zenon DEF CallOK
<1>3. Active(m) => Named(m)'
  BY <1>1, NamedKept, Zenon DEF CallOK
<1>4. m.stage = "closed" /\ ~m.wrongLeader => Told(m)'
  BY <1>1, ToldKept, Zenon DEF CallOK
<1>5. Active(m)' <=> Active(m)
  BY Zenon DEF Active
<1>6. m.stage \notin {"none", "reply"} => m.op.SeqId > 0
  BY Zenon DEF CallOK
<1> QED
  BY <1>2, <1>3, <1>4, <1>5, <1>6, Zenon DEF CallOK

\* Clerks that a step leaves alone.
LEMMA ClerksKept ==
    ASSUME IInv, RaftStep, UNCHANGED clerk
    PROVE  ClerksType' /\ ClerkInv' /\ AnswerFromLog'
<1>1. ClerksType' /\ RaftType
  BY Zenon DEF IInv, TypeOK, ClerksType, RaftType
<1>2. Len(chosen) \in Nat /\ Len(chosen') \in Nat /\ Len(chosen) <= Len(chosen')
  BY <1>1 DEF RaftType, RaftStep
<1>3. \A c \in Client : clerk'[c].start <= Len(chosen')
  BY <1>2, ClerkAt
<1>4. ClerkInv'
  BY <1>3, Zenon DEF IInv, ClerkInv
<1>5. AnswerFromLog'
  BY <1>1, ClerkAt, AnsweredKept, Zenon DEF IInv, AnswerFromLog
<1> QED
  BY <1>1, <1>4, <1>5

\* One clerk becomes ck.
LEMMA ClerkStep ==
    ASSUME IInv, RaftStep, NEW c \in Client, NEW ck \in Clerk, clerk' = [clerk EXCEPT ![c] = ck],
           ck.start <= Len(chosen), ck.sent > 0, ck.op.SeqId > 0,
           ~ck.waiting => \E i \in (ck.start + 1)..Len(chosen') : AnsweredAt(c, ck.result, i)'
    PROVE  /\ ClerksType' /\ ClerkInv' /\ AnswerFromLog'
           /\ clerk'[c] = ck /\ \A d \in Client \ {c} : clerk'[d] = clerk[d]
<1>1. ClerksType /\ RaftType
  BY Zenon DEF IInv, TypeOK, ClerksType, RaftType
<1>2. /\ ClerksType' /\ clerk'[c] = ck /\ \A d \in Client \ {c} : clerk'[d] = clerk[d]
  BY <1>1 DEF ClerksType
<1>3. Len(chosen) \in Nat /\ Len(chosen') \in Nat /\ Len(chosen) <= Len(chosen')
  BY <1>1 DEF RaftType, RaftStep
<1>4. ASSUME NEW d \in Client \ {c}
      PROVE  /\ clerk'[d].start <= Len(chosen')
             /\ clerk'[d].waiting => clerk'[d].sent > 0
             /\ clerk'[d].sent > 0 => clerk'[d].op.SeqId > 0
             /\ ~clerk'[d].waiting /\ clerk'[d].sent > 0 =>
                  \E i \in (clerk'[d].start + 1)..Len(chosen') : AnsweredAt(d, clerk[d].result, i)'
  <2>1. clerk'[d].start <= Len(chosen')
    BY <1>2, <1>3, ClerkAt
  <2>2. /\ clerk'[d].waiting => clerk'[d].sent > 0
        /\ clerk'[d].sent > 0 => clerk'[d].op.SeqId > 0
    BY <1>2, Zenon DEF IInv, ClerkInv
  <2>3. ~clerk'[d].waiting /\ clerk'[d].sent > 0 =>
           \E i \in (clerk'[d].start + 1)..Len(chosen') : AnsweredAt(d, clerk[d].result, i)'
    BY <1>1, <1>2, ClerkAt, AnsweredKept, Zenon DEF IInv, AnswerFromLog
  <2> QED
    BY <2>1, <2>2, <2>3, Zenon
<1>5. ck.start <= Len(chosen')
  BY <1>3, ClerkNumbers
<1>6. ClerkInv'
  BY <1>2, <1>4, <1>5, Zenon DEF ClerkInv
<1>7. AnswerFromLog'
  BY <1>2, <1>4, Zenon DEF AnswerFromLog
<1> QED
  BY <1>2, <1>6, <1>7, Zenon

\* A clerk sends a request.
LEMMA SendStep ==
    ASSUME IInv, RaftStep, NEW c \in Client, NEW ck \in Clerk, clerk' = [clerk EXCEPT ![c] = ck],
           ck.waiting, ck.start <= Len(chosen), ck.sent = clerk[c].sent + 1, ck.op.SeqId > 0,
           NEW op, op = ck.op, NEW s \in Server, calls' = Sent(c, op, s)
    PROVE  ClerksType' /\ CallsType' /\ ClerkInv' /\ CallInv' /\ AnswerFromLog'
<1>1. clerk[c].sent \in Nat /\ ck.sent \in Nat /\ ck.sent > 0 /\ op \in Op
  BY ClerkAt DEF Clerk
<1>2. /\ ClerksType' /\ ClerkInv' /\ AnswerFromLog'
      /\ clerk'[c] = ck /\ \A d \in Client \ {c} : clerk'[d] = clerk[d]
  BY <1>1, ClerkStep, Zenon
<1>3. PICK m : m = [Unsent EXCEPT !.stage = "sent", !.op = op, !.server = s]
  OBVIOUS
<1>4. Unsent \in Call /\ Unsent.stage = "none"
  BY UnsentCall, Zenon
<1>5. m \in Call /\ m.stage = "sent" /\ m.op = op
  BY <1>1, <1>3, <1>4 DEF Call
<1>6. CallsType
  BY Zenon DEF IInv, TypeOK, CallsType
<1>7. /\ CallsType'
      /\ \A d \in Client \ {c} : calls'[d] = calls[d]
      /\ \A n \in 1..MaxCalls :
           calls'[c][n] = IF n = clerk[c].sent + 1 THEN m
                          ELSE IF calls[c][n].stage = "reply" THEN Unsent ELSE calls[c][n]
  BY <1>3, <1>4, <1>5, <1>6 DEF Sent, CallsType
<1>8. ASSUME NEW d \in Client \ {c}, NEW n \in 1..MaxCalls PROVE CallOK(d, n, calls[d][n])'
  BY <1>2, <1>7, CallAt, CallKeptAt, Zenon
<1>9. ASSUME NEW n \in 1..MaxCalls PROVE CallOK(c, n, calls[c][n])'
  <2>1. CASE n = clerk[c].sent + 1
    <3>1. ~(n > clerk'[c].sent)
      BY <1>1, <1>2, <2>1
    <3>2. m.stage # "none" /\ m.stage # "closed" /\ m.stage # "reply" /\ ~Active(m)'
      BY <1>5 DEF Active
    <3>3. CallOK(c, n, m)'
      BY <1>1, <1>2, <1>5, <3>1, <3>2, Zenon DEF CallOK
    <3> QED
      BY <1>7, <2>1, <3>3, Zenon
  <2>2. CASE n # clerk[c].sent + 1
    <3>1. ~Awaited(c, n)'
      BY <1>2, <2>2 DEF Awaited
    <3>2. clerk[c].sent <= clerk'[c].sent
      BY <1>1, <1>2
    <3>3. \A w : w \in Call /\ CallOK(c, n, w) /\ w.stage # "reply" => CallOK(c, n, w)'
      BY <1>1, <1>2, <3>1, <3>2, CallLeft, Zenon
    <3>4. CASE calls[c][n].stage = "reply"
      <4>1. Unsent.stage # "reply"
        BY <1>4
      <4> QED
        BY <4>1, <1>4, <1>7, <2>2, <3>3, <3>4, UnsentCall, Zenon
    <3>5. CASE calls[c][n].stage # "reply"
      BY <1>7, <2>2, <3>3, <3>5, CallAt, Zenon
    <3> QED
      BY <3>4, <3>5, Zenon
  <2> QED
    BY <2>1, <2>2, Zenon
<1>10. CallInv'
  BY <1>8, <1>9, Zenon DEF CallInv
<1> QED
  BY <1>2, <1>7, <1>10, Zenon

ClientInv == ClerksType /\ CallsType /\ ClerkInv /\ CallInv /\ AnswerFromLog

\* A new operation: nothing of an earlier one can be taken for its answer.
LEMMA InvokeOK ==
    ASSUME IInv, RaftStep, NEW c \in Client, NEW type \in Types, NEW k \in Key, Invoke(c, type, k)
    PROVE  ClientInv'
<1>1. clerk[c] \in Clerk /\ clerk[c].sent \in Nat /\ Len(chosen) \in Nat
  BY ClerkAt, Zenon
<1>2. PICK op : op = [ClientId |-> c, SeqId |-> clerk[c].op.SeqId + 1, Type |-> type, Key |-> k]
  OBVIOUS
<1>3. /\ clerk[c].op.SeqId < MaxOps /\ clerk[c].sent < MaxCalls
      /\ calls' = Sent(c, op, clerk[c].leaderIndex)
      /\ clerk' = [clerk EXCEPT ![c].waiting = TRUE, ![c].op = op, ![c].sent = @ + 1,
                                ![c].start = Len(chosen)]
  BY <1>2, Zenon DEF Invoke, MaySend
<1>4. op \in Op /\ op.SeqId > 0
  <2>1. clerk[c].op.SeqId \in 0..MaxOps
    BY <1>1 DEF Clerk, Op
  <2>2. clerk[c].op.SeqId + 1 \in 0..MaxOps /\ clerk[c].op.SeqId + 1 > 0
    <3>1. clerk[c].op.SeqId < MaxOps /\ MaxOps \in Nat
      BY <1>3, Bounds
    <3> QED
      BY <2>1, <3>1
  <2>3. type \in {"Get", "Put", "Append"}
    BY KVAssumption, Zenon
  <2> QED
    BY <1>2, <2>2, <2>3 DEF Op
<1>5. PICK ck : ck = [clerk[c] EXCEPT !.waiting = TRUE, !.op = op, !.sent = @ + 1, !.start = Len(chosen)]
  OBVIOUS
<1>6. Len(chosen) \in {0} \cup Index /\ clerk[c].sent + 1 \in 0..MaxCalls /\ clerk[c].leaderIndex \in Server
  <2>1. Len(chosen) <= MaxRequests
    BY DEF IInv, RaftInv, GoodLog
  <2>2. clerk[c].leaderIndex \in Server
    BY <1>1 DEF Clerk
  <2>3. clerk[c].sent + 1 \in 0..MaxCalls
    BY <1>1, <1>3, Bounds, OneMore, Zenon
  <2>4. Len(chosen) \in Nat
    BY DEF IInv, TypeOK
  <2>5. Len(chosen) \in {0} \cup Index
    BY <2>1, <2>4, Bounds DEF Index
  <2> QED
    BY <2>2, <2>3, <2>5, Zenon
<1>7. /\ ck \in Clerk /\ ck.waiting /\ ck.op = op /\ ck.sent = clerk[c].sent + 1
      /\ ck.start = Len(chosen)
  BY <1>1, <1>4, <1>5, <1>6 DEF Clerk
<1>8. clerk' = [clerk EXCEPT ![c] = ck]
  BY <1>3, <1>5 DEF IInv, TypeOK
<1>9. Len(chosen) <= Len(chosen)
  BY <1>1
<1> QED
  BY <1>3, <1>4, <1>6, <1>7, <1>8, <1>9, SendStep, Zenon DEF ClientInv

\* The same operation goes out again.
LEMMA ResendOK ==
    ASSUME IInv, RaftStep, NEW c \in Client, clerk[c].waiting, NEW s \in Server, Resend(c, s),
           calls' = Sent(c, clerk[c].op, s)
    PROVE  ClientInv'
<1>1. clerk[c] \in Clerk /\ clerk[c].sent \in Nat /\ clerk[c].start <= Len(chosen)
  BY ClerkAt, Zenon
<1>2. /\ clerk[c].sent < MaxCalls
      /\ clerk' = [clerk EXCEPT ![c].leaderIndex = s, ![c].sent = @ + 1]
  BY Zenon DEF Resend, MaySend
<1>3. PICK ck : ck = [clerk[c] EXCEPT !.leaderIndex = s, !.sent = @ + 1]
  OBVIOUS
<1>4. clerk[c].sent + 1 \in 0..MaxCalls
  BY <1>1, <1>2, Bounds, OneMore, Zenon
<1>5. /\ ck \in Clerk /\ ck.waiting = clerk[c].waiting /\ ck.op = clerk[c].op
      /\ ck.sent = clerk[c].sent + 1 /\ ck.start = clerk[c].start
  BY <1>1, <1>3, <1>4 DEF Clerk
<1>6. clerk' = [clerk EXCEPT ![c] = ck]
  BY <1>2, <1>3 DEF IInv, TypeOK
<1> QED
  BY <1>1, <1>5, <1>6, WaitingClerk, SendStep, Zenon DEF ClientInv

\* A clerk takes an answer.
LEMMA AnswerOK ==
    ASSUME IInv, RaftStep, UNCHANGED chosen, NEW c \in Client, clerk[c].waiting,
           Current(c).stage = "reply", Current(c).Err = "OK",
           clerk' = [clerk EXCEPT ![c].waiting = FALSE, ![c].result = Current(c).value],
           calls' = [calls EXCEPT ![c][clerk[c].sent] = Unsent]
    PROVE  ClientInv'
<1>1. PICK j : j = clerk[c].sent
  OBVIOUS
<1>2. clerk[c] \in Clerk /\ j \in Nat /\ clerk[c].start <= Len(chosen)
  BY <1>1, ClerkAt, Zenon
<1>3. j > 0 /\ clerk[c].op.SeqId > 0
  BY <1>1, WaitingClerk, Zenon
<1>4. j \in 1..MaxCalls
  <2>1. clerk[c].sent \in 0..MaxCalls
    BY <1>2 DEF Clerk
  <2> QED
    BY <1>1, <1>3, <2>1, Bounds
<1>5. PICK m : m = calls[c][j]
  OBVIOUS
<1>6. m \in Call /\ CallOK(c, j, m) /\ m.stage = "reply" /\ m.Err = "OK" /\ m.value \in Value
  BY <1>1, <1>4, <1>5, CallAt, CallParts, Zenon DEF Current
<1>7. \E i \in (clerk[c].start + 1)..Len(chosen) : AnsweredAt(c, m.value, i)
  BY <1>6, Zenon DEF CallOK
<1>8. PICK ck : ck = [clerk[c] EXCEPT !.waiting = FALSE, !.result = m.value]
  OBVIOUS
<1>9. /\ ck \in Clerk /\ ck.waiting = FALSE /\ ck.op = clerk[c].op /\ ck.result = m.value
      /\ ck.sent = clerk[c].sent /\ ck.start = clerk[c].start
  BY <1>2, <1>6, <1>8 DEF Clerk
<1>10. clerk' = [clerk EXCEPT ![c] = ck]
  BY <1>1, <1>5, <1>8 DEF IInv, TypeOK, Current
<1>11. clerk'[c] = ck
  BY <1>10 DEF IInv, TypeOK
<1>12. \E i \in (ck.start + 1)..Len(chosen') : AnsweredAt(c, ck.result, i)'
  <2>1. PICK i \in (clerk[c].start + 1)..Len(chosen) : AnsweredAt(c, m.value, i)
    BY <1>7, Zenon
  <2>2. Replay(i)' = Replay(i)
    BY Zenon DEF Replay
  <2>3. AnsweredAt(c, m.value, i)'
    BY <2>1, <2>2, <1>9, <1>11, Zenon DEF AnsweredAt
  <2> QED
    BY <2>1, <2>3, <1>9, Zenon
<1>13. /\ ClerksType' /\ ClerkInv' /\ AnswerFromLog'
       /\ clerk'[c] = ck /\ \A d \in Client \ {c} : clerk'[d] = clerk[d]
  BY <1>1, <1>2, <1>3, <1>9, <1>10, <1>12, ClerkStep, Zenon
<1>14. Unsent \in Call /\ Unsent.stage = "none" /\ \A n : CallOK(c, n, Unsent)
  BY UnsentCall, Zenon
<1>15. /\ CallsType' /\ calls'[c][j] = Unsent
       /\ \A d \in Client, k \in 1..MaxCalls : d # c \/ k # j => calls'[d][k] = calls[d][k]
  BY <1>1, <1>4, <1>14 DEF IInv, TypeOK, CallsType
<1>16. ASSUME NEW d \in Client \ {c}, NEW n \in 1..MaxCalls PROVE CallOK(d, n, calls[d][n])'
  BY <1>13, <1>15, CallAt, CallKeptAt, Zenon
<1>17. ASSUME NEW n \in 1..MaxCalls PROVE CallOK(c, n, calls[c][n])'
  <2>1. ~Awaited(c, n)'
    BY <1>9, <1>13 DEF Awaited
  <2>2. clerk[c].sent <= clerk'[c].sent /\ clerk'[c].sent \in Nat
    BY <1>1, <1>2, <1>9, <1>13
  <2>3. \A w : w \in Call /\ CallOK(c, n, w) /\ w.stage # "reply" => CallOK(c, n, w)'
    BY <2>1, <2>2, CallLeft, Zenon
  <2>4. CASE n = j
    <3>1. Unsent.stage # "reply"
      BY <1>14
    <3> QED
      BY <1>14, <1>15, <2>3, <2>4, <3>1, Zenon
  <2>5. CASE n # j
    <3>1. calls[c][n].stage # "reply"
      BY <1>1, <2>5, CallAt, Zenon DEF CallOK, Awaited
    <3> QED
      BY <1>15, <2>3, <2>5, <3>1, CallAt, Zenon
  <2> QED
    BY <2>4, <2>5, Zenon
<1>18. CallInv'
  BY <1>16, <1>17, Zenon DEF CallInv
<1> QED
  BY <1>13, <1>15, <1>18, Zenon DEF ClientInv

\* A call is lost.
LEMMA LoseOK ==
    ASSUME IInv, RaftStep, UNCHANGED clerk, NEW c \in Client, NEW n \in 1..MaxCalls,
           calls' = [calls EXCEPT ![c][n] = Unsent]
    PROVE  calls' \in [Client -> [1..MaxCalls -> Call]] /\ CallInv'
<1>1. Unsent \in Call /\ CallOK(c, n, Unsent)
  BY UnsentCall, Zenon
<1> QED
  BY <1>1, CallKeptAt, CallStep, Zenon

\* The handlers of a server that stops end.
LEMMA KillOK ==
    ASSUME IInv, RaftStep, NEW s \in Server, Kill(s)
    PROVE  calls' \in [Client -> [1..MaxCalls -> Call]] /\ CallInv'
<1>1. /\ UNCHANGED clerk
      /\ calls' = [c \in Client |-> [n \in 1..MaxCalls |->
            IF calls[c][n].server = s /\ calls[c][n].stage \in {"started", "waiting", "closed"}
            THEN Unsent ELSE calls[c][n]]]
  BY Zenon DEF Kill
<1>2. ASSUME NEW c \in Client, NEW n \in 1..MaxCalls
      PROVE  /\ calls'[c][n] \in {Unsent, calls[c][n]}
             /\ Unsent \in Call /\ CallOK(c, n, Unsent)
             /\ calls[c][n] \in Call /\ CallOK(c, n, calls[c][n])
  <2>1. calls'[c][n] \in {Unsent, calls[c][n]}
    BY <1>1
  <2> QED
    BY <2>1, UnsentCall, CallAt, Zenon
<1>3. calls' \in [Client -> [1..MaxCalls -> Call]]
  <2>1. \A c \in Client, n \in 1..MaxCalls :
          (IF calls[c][n].server = s /\ calls[c][n].stage \in {"started", "waiting", "closed"}
           THEN Unsent ELSE calls[c][n]) \in Call
    BY <1>2, Zenon
  <2> QED
    BY <1>1, <2>1, Zenon
<1>4. CallInv'
  BY <1>1, <1>2, CallKeptAt, Zenon DEF CallInv
<1> QED
  BY <1>3, <1>4

\* Every step keeps what is said of the clerks and their calls.
LEMMA ClientNext ==
    ASSUME IInv, Next, RaftStep
    PROVE  ClientInv'
<1>1. <<>> \in Value
  BY DEF Value
<1>2. ASSUME NEW c \in Client, NEW type \in Types, NEW k \in Key, Invoke(c, type, k)
      PROVE  ClientInv'
  BY <1>2, InvokeOK, Zenon
<1>3. \A c \in Client : clerk[c].leaderIndex \in Server
  BY ClerkAt DEF Clerk
<1>4. ASSUME NEW c \in Client, ClientTimeout(c) PROVE ClientInv'
  BY <1>3, <1>4, ResendOK, Zenon DEF ClientTimeout
<1>5. ASSUME NEW c \in Client, CallFails(c) PROVE ClientInv'
  <2>1. PICK s : s = IF clerk[c].op.Type = "Get" THEN clerk[c].leaderIndex
                     ELSE NextServer(clerk[c].leaderIndex)
    OBVIOUS
  <2>2. s \in Server
    BY <2>1, <1>3, NextServerType, Zenon
  <2>3. clerk[c].waiting /\ Resend(c, s) /\ calls' = Sent(c, clerk[c].op, s)
    BY <1>5, <2>1, Zenon DEF CallFails
  <2> QED
    BY <2>2, <2>3, ResendOK, Zenon
<1>6. ASSUME NEW c \in Client, Receive(c) PROVE ClientInv'
  <2>1. UNCHANGED chosen /\ clerk[c].waiting
    BY <1>6, Zenon DEF Receive, raft
  <2>2. CASE Resend(c, NextServer(clerk[c].leaderIndex))
             /\ calls' = Sent(c, clerk[c].op, NextServer(clerk[c].leaderIndex))
    BY <1>3, <2>1, <2>2, NextServerType, ResendOK, Zenon
  <2>3. CASE /\ Current(c).stage = "reply" /\ Current(c).Err = "OK"
             /\ clerk' = [clerk EXCEPT ![c].waiting = FALSE, ![c].result = Current(c).value]
             /\ calls' = [calls EXCEPT ![c][clerk[c].sent] = Unsent]
    BY <2>1, <2>3, AnswerOK, Zenon
  <2> QED
    BY <1>6, <2>2, <2>3, Zenon DEF Receive
<1>7. ASSUME UNCHANGED clerk, CallsType' /\ CallInv' PROVE ClientInv'
  BY <1>7, ClerksKept, Zenon DEF ClientInv
<1>8. ASSUME NEW c \in Client, NEW n \in 1..MaxCalls,
             \/ NotLeader(c, n) \/ Start(c, n) \/ Register(c, n)
             \/ Committed(c, n) \/ HandlerTimeout(c, n) \/ Lose(c, n)
      PROVE  ClientInv'
  <2>1. UNCHANGED clerk
    BY <1>8, Zenon DEF NotLeader, Start, Register, Committed, HandlerTimeout, Lose
  <2>2. CASE NotLeader(c, n) \/ HandlerTimeout(c, n)
    <3>1. calls' = Replied(c, n, "ErrWrongLeader", <<>>)
      BY <2>2, Zenon DEF NotLeader, HandlerTimeout
    <3>2. "ErrWrongLeader" # "OK"
      OBVIOUS
    <3>3. CallsType' /\ CallInv'
      BY <1>1, <2>1, <3>1, <3>2, RepliedOK, Zenon DEF CallsType
    <3> QED
      BY <1>7, <2>1, <3>3, Zenon
  <2>3. CASE Start(c, n)
    BY <1>7, <2>1, <2>3, StartOK, Zenon DEF CallsType
  <2>4. CASE Register(c, n)
    BY <1>7, <2>1, <2>4, RegisterOK, Zenon DEF CallsType
  <2>5. CASE Committed(c, n)
    BY <1>7, <2>1, <2>5, CommittedOK, Zenon DEF CallsType
  <2>6. CASE Lose(c, n)
    <3>1. calls' = [calls EXCEPT ![c][n] = Unsent]
      BY <2>6, Zenon DEF Lose
    <3> QED
      BY <1>7, <2>1, <3>1, LoseOK, Zenon DEF CallsType
  <2> QED
    BY <1>8, <2>2, <2>3, <2>4, <2>5, <2>6, Zenon
<1>9. ASSUME NEW s \in Server, ApplyMsg(s) PROVE ClientInv'
  <2>1. UNCHANGED clerk
    BY <1>9, Zenon DEF ApplyMsg
  <2> QED
    BY <1>7, <1>9, <2>1, ApplyOK, Zenon DEF CallsType
<1>10. ASSUME NEW s \in Server, Kill(s) PROVE ClientInv'
  <2>1. UNCHANGED clerk
    BY <1>10, Zenon DEF Kill
  <2> QED
    BY <1>7, <1>10, <2>1, KillOK, Zenon DEF CallsType
<1>11. ASSUME NEW s \in Server, NEW l \in Server,
              \/ Elect(s) \/ Commit(s) \/ Dump(s) \/ TakeSnapshot(s) \/ StartKVServer(s)
              \/ Replicate(l, s) \/ InstallSnapshot(l, s)
       PROVE  ClientInv'
  <2>1. UNCHANGED <<clerk, calls>>
    BY <1>11, Zenon DEF Elect, Commit, Dump, TakeSnapshot, StartKVServer, Replicate, InstallSnapshot
  <2> QED
    BY <1>7, <2>1, CallsKept, Zenon DEF CallsType
<1> QED
  BY <1>2, <1>4, <1>5, <1>6, <1>8, <1>9, <1>10, <1>11, Zenon DEF Next

-----------------------------------------------------------------------------
(* The theorems.                                                           *)

\* The invariant holds at the start.
LEMMA InitInv == Init => IInv
<1> SUFFICES ASSUME Init PROVE IInv
  OBVIOUS
<1>1. Empty \in KV /\ Empty.lastAppliedIndex = 0
  BY EmptyType, Zenon
<1>2. 0 \in Server /\ 0 \in 0..MaxTerm /\ 0 \in 0..MaxOps /\ 0 \in 0..MaxCalls
      /\ 0 \in 0..MaxLost /\ 0 \in 0..MaxCrashes /\ MaxRequests >= 0
  BY Bounds DEF Server
<1>3. RaftType /\ term = 0 /\ chosen = <<>> /\ Len(chosen) = 0
      /\ \A s \in Server : leads[s] = 0 /\ log[s] = <<>> /\ Len(log[s]) = 0
  BY <1>2 DEF Init, RaftType
<1>4. RaftInv
  BY <1>2, <1>3 DEF RaftInv, GoodLog
<1>5. \A c \in Client : /\ Unsent \in Call /\ Unsent.stage = "none"
                         /\ \A n : CallOK(c, n, Unsent)
  BY UnsentCall, Zenon
<1>6. CallsType /\ \A c \in Client, n \in 1..MaxCalls : calls[c][n] = Unsent
  BY <1>5 DEF Init, CallsType
<1>7. CallInv
  BY <1>5, <1>6, Zenon DEF CallInv
<1>8. \A c \in Client : /\ clerk[c] \in Clerk /\ clerk[c].start = 0 /\ clerk[c].sent = 0
                         /\ clerk[c].waiting = FALSE
  <2> SUFFICES ASSUME NEW c \in Client
               PROVE  /\ clerk[c] \in Clerk /\ clerk[c].start = 0 /\ clerk[c].sent = 0
                      /\ clerk[c].waiting = FALSE
    OBVIOUS
  <2>1. clerk[c] = [waiting |-> FALSE, op |-> [NoOp EXCEPT !.ClientId = c], leaderIndex |-> 0,
                    sent |-> 0, start |-> 0, result |-> <<>>]
    BY DEF Init
  <2>2. [NoOp EXCEPT !.ClientId = c] \in Op
    <3>1. Unsent.op = NoOp
      BY DEF Unsent
    <3>2. NoOp \in Op
      BY <1>5, <3>1, CallParts
    <3> QED
      BY <3>2 DEF Op
  <2>3. <<>> \in Value
    BY DEF Value
  <2> QED
    BY <2>1, <2>2, <2>3, <1>2 DEF Clerk
<1>9. ClerksType /\ ClerkInv /\ AnswerFromLog
  <2>1. clerk \in [Client -> Clerk]
    <3>1. clerk = [c \in Client |-> clerk[c]]
      BY DEF Init
    <3> QED
      BY <3>1, <1>8, Zenon
  <2>2. ClerkInv /\ AnswerFromLog
    BY <1>3, <1>8 DEF ClerkInv, AnswerFromLog
  <2> QED
    BY <2>1, <2>2 DEF ClerksType
<1>10. MapType /\ \A s \in Server, i \in Index : cmdMap[s][i] = NoCall
  BY DEF Init, MapType
<1>11. MapInv
  <2>1. \A c, n : NoCall # <<c, n>>
    BY DEF NoCall
  <2>2. \A s \in Server, i \in Index, c \in Client, n \in 1..MaxCalls : ~Held(s, i, c, n)
    BY <1>10, <2>1, Zenon DEF Held
  <2> QED
    BY <2>2, Zenon DEF MapInv
<1>12. StateType /\ StateInv
  <2>1. /\ \A s \in Server : kv[s] = Empty /\ snap[s] = Empty /\ dump[s] = NoDump
        /\ StateType
    BY <1>1 DEF Init, StateType
  <2>2. Replayed(Empty)
    BY <1>3, <1>4, EmptyReplayed, Zenon
  <2> QED
    BY <1>1, <2>1, <2>2, Zenon DEF StateInv
<1>13. lost \in 0..MaxLost /\ crashes \in 0..MaxCrashes
  BY <1>2 DEF Init
<1>14. TypeOK
  BY <1>3, <1>6, <1>9, <1>10, <1>12, <1>13, Zenon
     DEF TypeOK, RaftType, CallsType, ClerksType, MapType, StateType
<1> QED
  BY <1>4, <1>7, <1>9, <1>11, <1>12, <1>14, Zenon DEF IInv

\* The bounds on losses and crashes.
LEMMA BoundsNext ==
    ASSUME IInv, Next
    PROVE  lost' \in 0..MaxLost /\ crashes' \in 0..MaxCrashes
<1>1. lost \in 0..MaxLost /\ crashes \in 0..MaxCrashes
  BY Zenon DEF IInv, TypeOK
<1>2. \/ UNCHANGED <<lost, crashes>>
      \/ lost < MaxLost /\ lost' = lost + 1 /\ UNCHANGED crashes
      \/ crashes < MaxCrashes /\ crashes' = crashes + 1 /\ UNCHANGED lost
  <2>1. ASSUME NEW c \in Client,
               \/ \E type \in Types, k \in Key : Invoke(c, type, k)
               \/ ClientTimeout(c) \/ CallFails(c) \/ Receive(c)
        PROVE  UNCHANGED <<lost, crashes>> \/ (lost < MaxLost /\ lost' = lost + 1 /\ UNCHANGED crashes)
    BY <2>1, Zenon DEF Invoke, ClientTimeout, CallFails, Receive
  <2>2. ASSUME NEW c \in Client, NEW n \in 1..MaxCalls,
               \/ NotLeader(c, n) \/ Start(c, n) \/ Register(c, n)
               \/ Committed(c, n) \/ HandlerTimeout(c, n) \/ Lose(c, n)
        PROVE  UNCHANGED <<lost, crashes>> \/ (lost < MaxLost /\ lost' = lost + 1 /\ UNCHANGED crashes)
    BY <2>2, Zenon DEF NotLeader, Start, Register, Committed, HandlerTimeout, Lose
  <2>3. ASSUME NEW s \in Server, NEW l \in Server,
               \/ Elect(s) \/ Commit(s) \/ ApplyMsg(s) \/ Dump(s) \/ TakeSnapshot(s)
               \/ StartKVServer(s) \/ Replicate(l, s) \/ InstallSnapshot(l, s)
        PROVE  UNCHANGED <<lost, crashes>>
    BY <2>3, Zenon DEF Elect, Commit, ApplyMsg, Dump, TakeSnapshot, StartKVServer, Replicate,
                       InstallSnapshot
  <2>4. ASSUME NEW s \in Server, Kill(s)
        PROVE  crashes < MaxCrashes /\ crashes' = crashes + 1 /\ UNCHANGED lost
    BY <2>4, Zenon DEF Kill
  <2> QED
    BY <2>1, <2>2, <2>3, <2>4, Zenon DEF Next
<1>3. MaxLost \in Nat /\ MaxCrashes \in Nat
  BY Bounds
<1> QED
  BY <1>1, <1>2, <1>3

\* Every step keeps the invariant.
LEMMA NextInv == IInv /\ [Next]_vars => IInv'
<1>1. ASSUME IInv, Next PROVE IInv'
  <2>1. RaftStep /\ Leaders'
    BY <1>1, RaftNext, Zenon
  <2>2. RaftType /\ RaftInv /\ RaftType'
    BY <1>1, <2>1, Zenon DEF IInv, TypeOK, RaftType, RaftStep
  <2>3. RaftInv'
    BY <2>1, <2>2, RaftInvStep, Zenon
  <2>4. StateType' /\ StateInv'
    BY <1>1, <2>1, StateNext, Zenon
  <2>5. ClientInv'
    BY <1>1, <2>1, ClientNext, Zenon
  <2>6. MapType' /\ MapInv'
    BY <1>1, <2>4, MapNext, Zenon
  <2>7. lost' \in 0..MaxLost /\ crashes' \in 0..MaxCrashes
    BY <1>1, BoundsNext, Zenon
  <2>8. TypeOK'
    BY <2>2, <2>4, <2>5, <2>6, <2>7, Zenon
       DEF TypeOK, ClientInv, RaftType, CallsType, ClerksType, MapType, StateType
  <2> QED
    BY <2>3, <2>4, <2>5, <2>6, <2>8, Zenon DEF IInv, ClientInv
<1>2. ASSUME IInv, UNCHANGED vars PROVE IInv'
  <2>1. UNCHANGED <<clerk, calls, log, leads, term, chosen, snap, up, kv, cmdMap, dump, lost, crashes>>
    BY <1>2, Zenon DEF vars, raft
  <2>2. TypeOK'
    BY <1>2, <2>1, Zenon DEF IInv, TypeOK
  <2>3. RaftInv'
    BY <1>2, <2>1, Zenon DEF IInv, RaftInv, GoodLog, HasChosen
  <2>4. ClerkInv' /\ AnswerFromLog'
    BY <1>2, <2>1, Zenon DEF IInv, ClerkInv, AnswerFromLog, AnsweredAt, Replay
  <2>5. \A m : (Named(m) => Named(m)') /\ (Told(m) => Told(m)')
    BY <2>1, Zenon DEF Named, Told, Carries, Replay
  <2>6. ASSUME NEW c, NEW n, NEW m, CallOK(c, n, m) PROVE CallOK(c, n, m)'
    <3>1. \A v, i : AnsweredAt(c, v, i) <=> AnsweredAt(c, v, i)'
      BY <2>1, Zenon DEF AnsweredAt, Replay
    <3>2. (Awaited(c, n) <=> Awaited(c, n)') /\ (Carries(chosen, m) <=> Carries(chosen', m))
      BY <2>1, Zenon DEF Awaited
    <3> QED
      BY <2>1, <2>5, <2>6, <3>1, <3>2, Zenon DEF CallOK
  <2>7. CallInv'
    BY <1>2, <2>1, <2>6, Zenon DEF IInv, CallInv
  <2>8. MapInv'
    <3>1. \A s, i, c, n : Held(s, i, c, n) <=> Held(s, i, c, n)'
      BY <2>1, Zenon DEF Held
    <3>2. \A s, i, m : ContextOK(s, i, m) => ContextOK(s, i, m)'
      BY <2>1, Zenon DEF ContextOK
    <3> QED
      BY <1>2, <2>1, <3>1, <3>2, Zenon DEF IInv, MapInv
  <2>9. StateInv'
    BY <1>2, <2>1, Zenon DEF IInv, StateInv, Replayed, Replay
  <2> QED
    BY <2>2, <2>3, <2>4, <2>7, <2>8, <2>9, Zenon DEF IInv
<1> QED
  BY <1>1, <1>2, Zenon

\* The invariant always holds.
THEOREM Invariance == Spec => []IInv
  BY InitInv, NextInv, PTL DEF Spec

\* Every variable of client.go and server.go keeps its type.
THEOREM TypeCorrect == Spec => []TypeOK
<1>1. IInv => TypeOK
  BY Zenon DEF IInv
<1> QED
  BY <1>1, Invariance, PTL

\* The memory of every running server and every snapshot is what the chosen log says
\* up to its index, although snapshots are taken while commands go on, arrive late, are
\* decoded over full maps, and servers restart (server.go:223-316, 318-345).
THEOREM StateIsReplay == Spec => []StateFollowsLog
<1>1. IInv => StateFollowsLog
  BY Zenon DEF IInv, StateInv, Replayed, StateFollowsLog
<1> QED
  BY <1>1, Invariance, PTL

\* An operation that was answered was chosen after it was called, and a Get was
\* answered with the value at that point of the log (server.go:79-213, 237-285).
THEOREM AnswersFromLog == Spec => []AnswerFromLog
<1>1. IInv => AnswerFromLog
  BY Zenon DEF IInv
<1> QED
  BY <1>1, Invariance, PTL

\* applyMsgLoop finds no context that it has closed before, and none whose handler has
\* returned (server.go:237, 284).
THEOREM NoSecondClose == Spec => []ClosedOnce
<1>1. ASSUME IInv PROVE ClosedOnce
  <2> SUFFICES ASSUME NEW s \in Server, NEW i \in Index, cmdMap[s][i] # NoCall,
                      i > kv[s].lastAppliedIndex
               PROVE  calls[cmdMap[s][i][1]][cmdMap[s][i][2]].stage = "waiting"
    BY Zenon DEF ClosedOnce
  <2>1. PICK x : x = cmdMap[s][i]
    OBVIOUS
  <2>2. x \in Client \X (1..MaxCalls)
    BY <1>1, <2>1 DEF IInv, TypeOK
  <2>3. x[1] \in Client /\ x[2] \in 1..MaxCalls /\ x = <<x[1], x[2]>>
    BY <2>2
  <2>4. Held(s, i, x[1], x[2])
    BY <2>1, <2>3, Zenon DEF Held
  <2>5. ContextOK(s, i, calls[x[1]][x[2]])
    BY <1>1, <2>3, <2>4, MapAt, Zenon
  <2> QED
    BY <2>1, <2>5, Zenon DEF ContextOK
<1> QED
  BY <1>1, Invariance, PTL
=============================================================================
