# A formal model of the MIT 6.824 labs in this repository

TLA+ modules for the programs under `src/`: the Raft peer, the replicated
key/value service on top of it with its clerks, the simulated network and the test
harness they run in, the linearizability checker the tests end with, and the
MapReduce master and its workers. TLC checks them on small instances; TLAPS proves the results of section 4 for every instance. `PROJECT.json` maps every definition to the lines it models and
lists the components, runs, mutants, findings, hazards and theorems.

## 1. The system

| Part | Source | State | What changes it | Module |
|---|---|---|---|---|
| Raft peer | `raft/raft.go` | persistent fields, role, leaderPtr, commitIndex, two channels, goroutines | timers, elections, RPC handlers and replies, Start, snapshots | `Raft` |
| Persister | `raft/persister.go` | raft state, snapshot | SaveRaftState, SaveStateAndSnapshot | `Raft` (`disk`, `snapshot`) |
| RPC network | `labrpc/labrpc.go` | enabled ends, registered servers, calls in progress | Call, processReq, dispatch, Enable, AddServer, DeleteServer | `Network`, which implements `RPC`; in `Raft` and `KVServer` what a caller sees of it |
| Key/value server | `kvraft/server.go` | kvStore, seqMap, cmdMap, lastAppliedIndex | Get, PutAppend, applyMsgLoop, snapshotLoop, Kill | `KVServer` |
| Clerk | `kvraft/client.go` | leaderIndex, sequence number | Get, PutAppend, changeLeader, time-outs | `KVServer`; `Clerk`, in `KVHarness` |
| Locks and channels of a server | `raft/raft.go`, `kvraft/server.go` | where every goroutine is, `rf.mu`, `kv.mu`, `applyCh`, `heartBeatCh`, `quitElection`, `commitedChan` | each place where a goroutine may block | `ServerLocks` |
| MapReduce master | `mr/master.go` | mapTask, reduceTask, reduceBucket, two flags | GetTask, TaskFinished, recoverRequest, Done | `MapReduce` |
| Sequential MapReduce | `main/mrsequential.go` | none | | `Sequential` in `MapReduce`, a reference |
| MapReduce worker | `mr/worker.go` | its task, the files it writes | DoWork, doMap, doReduce, crash | `MapReduce` |
| Encoding | `labgob/labgob.go` | none | Decode into existing maps | in `KVServer` |
| Key/value test harness | `kvraft/config.go` | servers' instances, persisters, enabled ends | partition, ConnectAll, ShutdownServer, StartServer | `KVHarness` |
| Raft test harness | `raft/config.go` | delivered commands | crash1, start1, agreement check | in `Raft` |
| Linearizability checker | `porcupine/`, `models/kv.go` | one search per key, results, kill flag | checkParallel, checkSingle, time-out | `Porcupine` |
| Visualisation | `porcupine/visualization.go` | none | | the choice of what is shown, in `Porcupine` |

How they interact. A clerk calls a key/value server; the handler passes an `Op` to
`Raft.Start` and waits on a context in `cmdMap`; the peers replicate it; each
peer sends committed entries through `applyChan` to its own `applyMsgLoop`, which
executes them and wakes the handler; `snapshotLoop` hands encoded state back to
`TakeSnapshot`. The MapReduce master and its workers are a program of their own:
workers ask for tasks and report them, the master puts a task back after 10 s. The
tests run clerks and servers over `labrpc` while the harness partitions, stops and
restarts servers, record what the clerks saw, and give that history to `porcupine`.

What is hard in this code:

- Raft is one mutex `rf.mu` around many goroutines. Handlers release it and take it
  again (`RequestVote`, `HeartBeatToServer` and the RPC it makes), and two channels
  (`heartBeatCh`, `quitElection`) carry control between timers and elections.
- RPCs that timed out go on, and their effects and replies arrive later.
- A server crashes between two critical sections and restarts from the persister.
- Log positions are relative to a snapshot that moves.
- In the key/value service, Raft indexes are reused by other leaders, and requests
  are repeated while the first copy is still about.
- A server has two locks, an unbuffered channel written under one of them and read by
  a goroutine that takes the other.
- `labrpc` gives a call up while its handler goes on, and a server that is shut down
  goes on with a persister that nobody reads any more.
- The checker's goroutines race with a time-out and with the failure of another one,
  and a search that was stopped reports the same as one that failed.
- The MapReduce master has two locks; a report changes state under each in turn.

## 2. Modules

### Raft

One action is one critical section of `rf.mu` and the thread-local code next to it.
Goroutines are state: `timers` counts `TimeOutToElection` goroutines, `linger` the
`StartElection` goroutines at `quitElection <- true`, `starting` those past it that wait
for `rf.mu`; `elections` holds their loops with the votes they counted, `requests` the
vote-requesting goroutines whose loop has left its round, `beats` the
`HeartBeatToServer` goroutines by where they are in their loop, and `calls` the RPCs in flight, each at one of its stages (request on
its way, between the two locks of `RequestVote`, reply on its way).

| Code | Actions |
|---|---|
| `TimeOutToElection`, start of `StartElection` | `TimeOutToElection`, `TimerHeartBeat`, `QuitElection`, `StartElection` |
| loop of `StartElection` | `ElectionTicker`, `ElectionHeartBeat`, `CountVote`, `WinElection`, `VoteRefused`, `LoseElection` |
| vote requests | `sendRequestVote`, `resendRequestVote`, `RequestVote`, `RequestVoteGrant` |
| `HeartBeatToServer`, `doAppendEntriesRPC` | `HeartBeatToServer`, `doAppendEntriesRPC`, `HigherTermReply`, `StaleReply`, `EntriesStored`, `HeartBeatReply`, `LogConflict` |
| `AppendEntries` | `RejectEntries`, `AppendEntries` |
| snapshots | `doInstallSnapshotRPC`, `RejectSnapshot`, `InstallSnapshot`, `InstallSnapshotReply`, `DumpSnapshot`, `TakeSnapshot` |
| client interface | `Start` |
| network, crash | `CallTimeOut`, `Lose`, `Make` |

Decisions a reader should know:

- The start of an election is three steps: the tick that spawns `StartElection`, the
  channel operation that ends a timer (`raft.go:586`, `734`), and the critical section
  that makes the peer a candidate (`591-605`). Anything may happen between them: another
  tick, a vote, a heartbeat, another peer's victory.
- The goroutines that request votes are told nothing when their loop ends. They go on
  (`resendRequestVote`) while the peer is a candidate of that term, and nobody reads the
  answers.
- A refused vote is two steps, since `raft.go:683` reads `currentTerm` before it
  takes the lock. A granted vote is one: the goroutine does nothing shared between
  receiving it and `becomeLeader`.
- A step that would panic (nil `leaderPtr`, index outside `logs`) ends the program,
  so guards exclude it.
- A send to a full `heartBeatCh` blocks with `rf.mu` held. In the model the
  handler's step is not enabled until there is room.
- A call that nobody waits for any more stays in flight; two calls equal in all fields are one element of `calls`.
- Crash and restart are the one action `Make`: nothing runs in between, and
  `labrpc` drops the replies of the deleted server.
- Sending to `applyChan` and the service's handling of it are part of the step that
  commits. `heartBeatCnt` only decides whether a tick starts an election, and a
  tick may do so at any time.
- Entries of a call are as they were under the lock; the array they share with
  `rf.logs` (`raft.go:787`) is listed as a hazard that no property covers.

### KVServer

Clerks with their retry loops, the handlers with their contexts, `applyMsgLoop`,
`snapshotLoop`, crash and restart. Below them is what Raft promises its service, not
`raft.go`: one sequence of chosen entries, leaders that have it, and stale leaders
that still accept commands, whose indexes other leaders use again. A value is the
sequence of the writes that made it, so a lost or doubled write shows; a missing key
is the empty value. `op.Term` is written after `Start` while Raft may already
be encoding the operation; the entry's term is therefore a choice between both
outcomes (`TermOf`). `Replay(i)` is the state after the first `i` chosen entries, the
reference for memory, snapshots and answers. Decoding a snapshot merges into maps that have entries, as
gob does. `Kill` removes a server with all its handlers.

### ServerLocks

One server's goroutines (StartKVServer, applyMsgLoop, snapshotLoop, handlers, Raft
handlers and replies, timers, elections), each as the place where it may block. A
critical section in which nothing can block is one step that finds the lock free; the
others are cut at `heartBeatCh <- true`, `applyChan <- msg` and the notification, and
the lock is held while a goroutine is at such a place. Terms, logs and operations are
not here, so a comparison of them may go either way, which allows more than the code
does.

| Code | Actions |
|---|---|
| `StartKVServer`, `Make`, `Kill` | `GoApply`, `InstallSnapshotToApplication`, `GoSnapshots`, `Kill` |
| `applyMsgLoop`, `snapshotLoop` | `ApplyMsg`, `Notify`, `ExceedLogSize`, `Encode`, `TakeSnapshot` |
| `Get`, `PutAppend` | `Request`, `Start`, `Register`, `Wake`, `Clean` |
| Raft handlers and replies | `AppendEntries`, `RequestVote`, `RequestVoteGrant`, `InstallSnapshot`, `ReplyCommits`, `HigherTermReply`, `Signal`, `Send` |
| timers and elections | `TimerTick`, `TimerHeartBeat`, `QuitElection`, `Round`, `ElectionTicker`, `VoteReply`, `ElectionHeartBeat`, `WinElection`, `LoseElection` |

### RPC, Network, Clerk, KVHarness

`RPC` is the abstract specification: a call is executed at most once, `Call` returns
true only if it was executed, and false says nothing. `Network` is `labrpc`: a call is
`sent`, then waited for while its handler runs in a goroutine of its own, given up
when the server is dead (`Poll`), answered (`Finish`) or lost, and the handler's effect
may come after all that. `Clerk` is one operation's retry loop. `KVHarness` composes
them, as the tests do, with servers of which it knows the instance, the persister it
writes to and whether it can commit, and with the tester, whose `ShutdownServer` is
three steps (`Isolate`, `CopyPersister`, `KillServer`) between which calls go on.
`RPCPromise` is the refinement: `Promise == INSTANCE RPC WITH call <- calls`.

### Porcupine

`checkOperations` and `checkEvents` build the parts of a history; each part has a
goroutine whose locals (`search`) are the linked list, the bitset, the cache, the stack
and the state of `checkSingle`, and one action is one turn of its loop (`Linearize`,
`Skip`, `Backtrack`, `Exhausted`, `Killed`, `Complete`). The caller is `Receive`,
`TimeOut`, `Wait` and `Report`, and `Visualize` picks what the page shows. A stored value is
the sequence of values written into it, a word of a bitset the set of its bits, and the
hash of a bitset is computed as the code does, so that collisions happen. The
reference, `IsLinearizable`, is the definition: some order of the whole history keeps
real time and answers right. It knows nothing of keys' parts, bitsets or caches.

### MapReduce

Master and workers. A handler's critical sections are separate actions: between
`FinishMap` (map table) and `AddReduceTasks` (reduce table) everything else may
happen. A `recoverRequest` goroutine may wake at any time. Workers fail in `doMap` or
`doReduce`, or die (`mrapps/crash.go`). A reduce task writes its output file in
`doReduce` and reports in `FinishReduce`. A panic in a handler ends the master, as
`net/rpc` does not recover it. What map emits is the constant `Emits`: for each file
the buckets that its keys fall into. `Sequential` is what `mrsequential.go` would put
into a bucket's output, and `OutputComplete` compares the job's output with it.

`MCRaft`, `MCKVServer`, `MCKVHarness`, `MCPorcupine` and `MCMapReduce` hold the constants and symmetry sets for TLC.
Definitions commented as mutants change one definition the way a plausible bug
would. No run uses them as they stand; each shows that one property depends on
the code it is about.

## 3. Runs

Bounds are constants named in the modules. `ChanCap` is 1 (8 in the code), so that a
full channel happens. In `KVServer`, `MaxCalls` bounds the RPCs of each clerk and
`MaxRequests` those of all clerks together, and so the entries of every log. `Rounds` says who starts how many elections, `Serving` whose
service starts commands and `Compacting` whose takes snapshots. `Faulty` says who may
crash, and whose timer may fire while it leads or while an earlier tick is still acted
upon; every message may be lost and every call time out. `MaxGap` is 1 where leaders replicate and 0
in `raft_elections`, where they send nothing. Deadlock is not checked: a bounded system
stops at its bounds, a finished MapReduce job stops, and so do an answered clerk and a
finished check; a server's deadlocks are the liveness properties of `locks`.

Passing runs:

| Run | Instance | Shows |
|---|---|---|
| `raft_elections` | 5 peers, 2 candidates, 1 crash | `WinnerHasVotes`: a leader has the votes of more than half for one term; a follower always has a timer, or an election that has stopped it and waits for `rf.mu` (`FollowerHasTimer`) |
| `raft_replication` | 2 peers, one compacting, 2 leaders, 2 terms, 3 indexes, 2 calls in flight | `TypeOK`; `FollowerHasTimer`; a leader always has its goroutines (`LeaderReplicates`); saved and live state agree whenever `rf.mu` is free (`DurableState`); `LogContiguous`; nothing is taken for committed that no leader counted (`CommitHasOrigin`) |
| `locks` | 1 handler, 1 Raft call, 2 timers, 1 election, Kill | `TypeOK`; StartKVServer returns (`MakeReturns`); `rf.Start` returns (`StartReturns`), unless the server is killed or `heartBeatCh` is full with no reader; a waiting request is answered in any case (`HandlerReturns`); timers of a killed peer end (`KilledTimersEnd`) |
| `kv_answers` | 2 servers, 2 clerks, 4 RPCs, 2 terms | `TypeOK`; `AnswerFromLog`: an answer is that of a committed entry appended after the call; `ClosedOnce`: no context is closed twice |
| `kv_snapshots` | 2 servers, 1 leader, 1 clerk, 2 operations, compaction, 1 loss, 1 crash | `AnswerFromLog`; `StateFollowsLog`: memory and snapshots are what the log says |
| `clerk_calls` | 3 servers, one call at a time, one or all servers shut down, one cut off | `TypeOK`; an answered operation is in the saved persisters of a majority (`ReplyPersisted`); `labrpc` implements `RPC` (`RPCPromise`); `CallReturns`; Put, Append and Get are `Answered`, except a Get on a server that stays down |
| `checker` | all histories of up to 3 of 6 kinds of operations on 2 keys, words of 2 bits | `TypeOK`; `VerdictRight` against the definition of linearizability; the search's structures agree (`SearchConsistent`); `PartialsRight`: what a verbose check shows is legal, complete and longest; `CheckReturns` |
| `mr_job` | 2 files, 2 workers, failures and a crash | `TypeOK`, `FinishedMapStays`, `NoFileForgotten` |
| `mr_single` | 1 file, 2 workers, a failure and a crash | `OutputComplete`, `Termination` |

Two peers are enough where they are used: the vote or the reply of the other peer is
needed to win or to commit, logs conflict, and every handler meets calls of older and
newer terms. Three or more are used where a majority without one peer matters. Two
inner branches are out of these bounds' reach: a leader that stores a follower's reply
and finds nothing to commit at a term boundary (the empty choice in `EntriesStored`), and a
`TakeSnapshot` that comes after a newer snapshot. A crash of a peer with a log is also
beyond them. The proofs of section 4 cover all three.

Three operations are enough for a search that backtracks over several calls, for a bitset
of two words and for collisions of its hash. In `clerk_calls` one call is enough for a late handler: the clerk gives up,
the handler goes on, and the next call waits until the network has done with the first; the
proofs hold for any number.

Runs that violate what a comment or a test of the repository says. Each is a finding
in `PROJECT.json`, with the sentence it is about:

| Run | What happens |
|---|---|
| `raft_agreement` | the vote of `RequestVote`'s second critical section ignores an entry stored since the first, a term has two leaders, and two peers deliver different commands with one index |
| `mr_output` | with two files and two workers, the job is declared done before the last reduce tasks are registered |
| `kv_once` | a late duplicate lowers `seqMap`, and a write is executed twice |

So these Raft peers do not have Raft's State Machine Safety. What they keep, and what
the theorems are about, is durability, the shape of logs and calls, and the origin
of commits. `KVServer` shows what the service does if Raft keeps its promise.

Other places where code and documents disagree, met while modelling. They are
behaviours of the modules and not separate runs; anyone who wants the trace can add the
formula as an invariant to a configuration like the one named:

| Statement | Where the code differs |
|---|---|
| one vote for another peer in a term (`docs/lab2.md:22`): `\A b, c \in ballots : b[1] = c[1] /\ b[3] = c[3] => b[2] = c[2]`, as `raft_agreement` | `AppendEntries` of an equal term clears `votedFor` (`raft.go:456-458`) |
| commitIndex is at most the last own index (`docs/lab2.md:43`), as `raft_replication` | a delayed `AppendEntries` cuts the log below it (`raft.go:497`) |
| the same for the index of a snapshot that is being handed over: `\A s \in Server : dump[s] > rf[s].lastIncludedIndex => Holds(rf[s], dump[s])`, as `raft_replication` | a cut below the index of a snapshot that the service is handing over makes `TakeSnapshot` panic (`raft.go:497`, `1178`) |
| becomeFollower follows a larger term (`raft.go:684`): `[][\A s \in Server : rf'[s].currentTerm >= rf[s].currentTerm]_vars`, as `raft_elections` with `MaxCalls = 2` | a late reply lowers `currentTerm` (`raft.go:683-686`, `874-878`) |
| a leader's `leaderPtr` is not nil (`raft.go:113`): `\A s, p \in Server : beats[s][p].append > 0 => leaderPtr[s] # Nil` | the lock is free between the check of the role and `raft.go:775` |
| granting a vote restarts the time-out (`raft.go:351`): a non-leader has a timer or an election | a buffered signal ends an election and leaves a candidate with neither (`raft.go:694`) |
| a winner has the votes of a majority (`docs/lab2.md:24`): `WinnerHasVotes` with 4 peers | two of four votes elect (`raft.go:674`) |
| a task is put back after its time (`master.go:35`), as `mr_output` | a report deletes the bucket of files that are still out (`master.go:187`, `254`) |
| a failure is only reported (`worker.go:52`): `master # "panic"` | a failed reduce task reports no tasks and the handler indexes the first (`master.go:214`) |
| Start returns "even if the Raft instance has been killed" (`raft.go:973`): `StartReturns` without `dead`, as `locks` | after Kill `applyMsgLoop` ends; a goroutine that then sends on `applyChan` keeps `rf.mu` (`raft.go:546`, `server.go:217`) |
| `heartBeatCh` reports a heartbeat (`raft.go:111`), and somebody reads it: `StartReturns` without `Stuck`, as `locks` | an election waits for `rf.mu` after it stopped the timer, and a handler with `rf.mu` waits for room in the channel (`raft.go:351`, `472`, `586`) |
| the service goes on while a majority is up and connected (`docs/lab3.md:15`): `Answered` without its exception for `Get`, as `clerk_calls` | `Get` changes servers only on `ErrWrongLeader`; after a time-out or a failed call it asks the same server again, also one that stays down (`client.go:88-104`) |
| a snapshot that is behind is ignored (`raft.go:1079`): `[][\A s \in Server : commitIndex'[s] >= commitIndex[s]]_vars`, as `raft_replication` with three peers and one leader | behind the last snapshot, not behind what is committed: a late `InstallSnapshot` lowers `commitIndex` (`raft.go:1210`) |
| a server is disconnected (`kvraft/config.go:134`) | the second loop tests `endnames[j]` for `endnames[from[j]]` (`147`); without effect, as no entry is nil |
| a check without time-out answers (`porcupine.go`): `CheckReturns` for the empty history, as `checker` | no part, so no goroutine sends a result (`checker.go:290`) |
| the job ends (`master.go:281`): `Termination` with `Emits[f] = {}` | `isReduceDone` is set only by a reduce report (`master.go:192`) |

Fairness. MapReduce: weak fairness of each worker that has not died, of each
`recoverRequest` goroutine and of `Done`; the Go scheduler runs them and sleeps end.
Nothing is assumed of failures.

`locks`: goroutines that can run do run, tickers fire, ready channel operations are carried
out. `Start` and `Clean` get strong fairness: they wait for a lock that others take again
and again, and a Go mutex goes to a goroutine that has waited 1 ms. Calls of other peers and
of clerks need not arrive.

`clerk_calls`: the tester goes on, except that it may leave servers down while a majority
runs and is connected. Leaders are elected where they can be. `processReq` goes on, and a
handler of a running server ends after 2 s; of a handler of a killed one nothing is assumed.
Strong fairness says that requests and replies are not lost for ever and that a leader that is
asked time and again commits. Time-outs stop in the end, as no call takes more than 3 s
then. No fairness makes a clerk change servers where the code does not: `Answered` therefore
has an exception for a `Get` whose server stays down (`client.go:88-104`).

`checker`: each goroutine and the caller go on; the time-out need not fire. The Raft and
key/value runs check safety only.

## 4. Proofs

All theorems hold for any set of peers, commands, clerks, keys, files, buckets and
workers and for any bounds, under the `ASSUME`s of `Raft` (finite nonempty `Server`,
`Nil` is neither a peer nor a command, bounds are naturals), of `KVServer`
(`KVAssumption`: at least one server, numbered from 0, bounds are naturals), of
`MapReduce` (finite nonempty `File`, at least one bucket), and of `Clerk` and
`KVHarness` (at least one server, named 0, 1, ...; handles are a permutation of them).
Two theorems have a hypothesis of their own, without which they are false:
`WinnersHaveVotes` and `OneFileOutput`.

**Raft** (`RaftReplicationProofs`, `RaftStepProofs`, `RaftPropertyProofs`,
`RaftProofs`). `Invariance` proves `Spec => []IInv`, from which
follow `TypeCorrect` (`TypeOK`), `Durability` (`DurableState`) and `Contiguity`
(`LogContiguous`). None of these is inductive alone. An `AppendEntries` call extends a
log correctly only if its entries count upwards from `PrevLogIndex + 1`, so `IInv` says
this of every call in flight (`CallInv`). A restart gives a contiguous log only if
the saved one is contiguous, and a second restart must find the same, so
`StateInv` has both the saved and the live state and says that reading back is
idempotent. `RestInv` types the goroutines and channels that calls and leaders refer
to. `RaftReplicationProofs` has the invariant, what the operators on logs and states
preserve, and the actions of replication; `RaftStepProofs` has the other actions, one
lemma each; `RaftProofs` puts them together.

Four more invariants are inductive together with `IInv`; the lemmas of three are in
`RaftPropertyProofs`.
`TimersKept` (`FollowerHasTimer`): the election that takes a timer stands in for it until
it has `rf.mu`; it then leaves a candidate, or a leader as it found it, and becomeFollower
starts a timer for whoever was no follower. That `rf.mu` comes free is not part of this:
`StartReturns` in `locks` says when it does.
`CommitsCounted` (`CommitHasOrigin`): commit indexes travel in calls, snapshots and the
state that is read back after a crash, so each of these is bounded by what was counted.
`LeadersReplicate` (`LeaderReplicates`): `PtrOfLeader` first; then a goroutine of a
leader is either in its loop or its call is in flight, and every step that ends one of
these starts the other.
`WinnersHaveVotes` (`WinnerHasVotes`): a `StartElection` loop reads an answer only if it
belongs to its present round (`Answerable`), reads at most one of each voter (`Asks`), and
an answer that grants has a ballot of that term behind it, so the votes it counted are
votes of different peers for one term (`VoteInv`). The loop wins when, with its
own, it has `(len(rf.peers)+1)/2` votes (`raft.go:674`) and one of them has just come from
another peer: more than half for an odd number of peers, and for two. With four it is not,
so the theorem assumes fewer than four peers or an odd number.

**Key/value service** (`KVServerProofs`). `Invariance` proves `Spec => []IInv`, from which
follow `TypeCorrect` (`TypeOK`), `StateIsReplay` (`StateFollowsLog`), `AnswersFromLog`
(`AnswerFromLog`) and `NoSecondClose` (`ClosedOnce`). That an answer comes from the log
needs four other facts. Index and term name one operation: a term has one leader, whose
log is not shorter than that of anyone with an entry of the term (`RaftInv`), so no other
operation can get the index and term of a handler that still runs (`Named`). What is found
in `cmdMap` at an index is a context of that index whose handler has not returned, and
one ahead of the applied entries has not been told (`MapInv`), although
`cmdMap` is overwritten when an index is used again. A context that was told of success has
been told the value at its own index (`Told` in `CallInv`). And every state of a server,
in memory, saved or being encoded, is the replay of a prefix of the chosen log
(`StateInv`), so the value is that of the log. The last is an induction over logs.
`Induction` derives induction in the form "a set that holds 0 and n + 1 with every n holds
every number" from the library's well-founded minimum; with it `StatesExist` and the lemmas
after it show that the recursive definition behind `Replay` has a solution and
what appending an entry does to it.

**Clerk, network and harness** (`KVHarnessProofs`). `Invariance` proves
`Spec => []HarnessInv`, from which follow `TypeCorrect` (`TypeOK`) and `AnswersPersist`
(`ReplyPersisted`). Why the answer is saved: a registered server is the latest instance
and writes to the persister the tester keeps (`TesterConsistent`), so an OK that a
handler returned is saved by a majority, or the instance was cut off (`Cut`) and stays so;
`processReq` looks once more whether the server is dead before it passes the reply on, so
only the first kind reaches the clerk (`AnswerSaved`). `CallConsistent` says what is known
of a call at each stage. `NetworkImplementsRPC` (`RPCPromise`) shows that each step of the
composition is a step of `RPC` or leaves its variable unchanged.

**MapReduce** (`MapReduceProofs`). `TypeCorrect`; `MapsStayFinished`
(`FinishedMapStays`); `NothingForgotten` (`NoFileForgotten`), which is inductive with
the type invariant. `OneFileOutput` (`OutputComplete`): with one input file the output is
the sequential program's for any number of buckets, workers, failures and repeated tasks.
`OutputInv` says why: the first map report ends the map phase and registers everything
there is, so no reduce task exists before it and each one after it has all files of its
bucket; outputs are absent or right, and when no task is left `NoFileForgotten` says that
every bucket was reported. With two files the property is false (`mr_output`).

Only model-checked:

- Liveness: `Answered`, `CallReturns`, `Termination`, `CheckReturns` and the four of `locks`
  need fairness and ENABLED, which the prover does not handle. `TypeOK` of `ServerLocks`
  serves them and has no proof of its own.
- The properties of `Porcupine`, whose reference definitions are folds over orders of
  operations, and whose entries come from sorting.

## 5. Not modelled

- The text functions of `mrapps` and the sorting and grouping inside one reduce task: pure
  functions of the contents of files, which are abstracted to the tasks they come from.
- gob's wire format and warnings in `labgob`, counters of calls and bytes in `labrpc`,
  statistics and printing in both `config.go`, the HTML and JavaScript of
  `visualization.go`: output only.
- The bookkeeping of `raft/config.go` (ends, persisters, one and nCommitted): that of
  `kvraft/config.go`, which `KVHarness` models, but for the checks on delivered commands,
  of which the agreement check is in `Raft` and the others count and print.
- The sharing of `args.Entries` with `rf.logs` (`raft.go:787`): a data race inside one slot
  of an array. The entries of a call are modelled as they were under the lock.
- Equal time stamps in a history, which `sort.Sort` may put in either order.
- `KVServer` on top of `Raft` itself: these peers do not keep State Machine Safety
  (`raft_agreement`), so the service is checked on what Raft promises instead, and a
  refinement of an abstract store would fail with `kv_once`.
