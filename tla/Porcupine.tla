----------------------------- MODULE Porcupine -----------------------------
(***************************************************************************)
(* The linearizability checker that the key/value tests end with:          *)
(* porcupine's checkOperations and checkEvents with the key/value model of *)
(* models/kv.go.  The history is split by key, one goroutine per part runs *)
(* the depth-first search of checkSingle, and checkParallel collects their *)
(* results, races with the time-out and sets the kill flag that the        *)
(* goroutines poll.  One action is one iteration of a goroutine's loop: the *)
(* flag and the channel are all that the goroutines share.                 *)
(*                                                                         *)
(* A value of the store is a sequence of written values ("" is <<>>), a    *)
(* word of a bitset the set of its bits.                                   *)
(***************************************************************************)
EXTENDS Integers, Sequences, FiniteSets, Functions, SequencesExt

CONSTANTS
    Request,     \* [Op, Key, Value, Output]: what an operation asked and got
    MaxOps,      \* bound: operations in a history
    WordBits     \* bits in a word of a bitset: 64 in the code

ASSUME CheckerAssumption == MaxOps \in Nat /\ WordBits \in Nat \ {0}

VARIABLES
    history,     \* the operations, in the order the clients recorded them
    computeInfo, \* the caller wants the partial linearizations
    parts,       \* checkParallel's history: for each part its entries
    search,      \* the locals of the goroutine of each part; <<>> once it ended
    longest,     \* longest[]: what the goroutines that ended found
    results,     \* the channel of the goroutines' results
    kill,        \* the flag the goroutines poll
    count, ok, timedOut,
    stage,       \* of the caller: "select", "collect", "checked", "shown"
    result,      \* Ok, Illegal or Unknown
    info,        \* the partial linearizations, one set for each part
    largest      \* what Visualize shows: each operation's longest one

caller == <<count, ok, timedOut, stage, result, info, largest>>
vars == <<history, computeInfo, parts, search, longest, results, kill, caller>>

-----------------------------------------------------------------------------
(* The key/value model (models/kv.go).                                     *)

\* Step: whether an operation may answer output in state st, and what it leaves.
StepOk(st, op) == op.Op = "get" => op.Output = st

StepState(st, op) ==
    CASE op.Op = "get"    -> st
      [] op.Op = "put"    -> <<op.Value>>
      [] op.Op = "append" -> Append(st, op.Value)

\* Partition: the operations on each key, in the order of the keys.
Partition(h) ==
    LET keys == SetToSortSeq({h[i].Key : i \in DOMAIN h}, <)
    IN [k \in DOMAIN keys |-> SelectSeq(h, LAMBDA op : op.Key = keys[k])]

-----------------------------------------------------------------------------
(* From histories to entries.                                              *)

\* An entry holds the whole operation where the code holds input or output.
Entry(kind, op, id, time) ==
    [kind |-> kind, value |-> op, id |-> id, time |-> time]

Earlier(a, b) == a.time < b.time

makeEntries(h) ==
    SortSeq([i \in DOMAIN h |-> Entry("call", h[i], i - 1, h[i].Call)]
              \o [i \in DOMAIN h |-> Entry("return", h[i], i - 1, h[i].Return)],
            Earlier)

\* An event's Id becomes the number of Ids that appeared before it.
renumber(events) ==
    LET First(id) == CHOOSE i \in DOMAIN events :
                         /\ events[i].Id = id
                         /\ \A j \in 1..(i - 1) : events[j].Id # id
    IN [i \in DOMAIN events |->
          [events[i] EXCEPT !.Id =
              Cardinality({events[j].Id : j \in 1..(First(events[i].Id) - 1)})]]

convertEntries(events) ==
    [i \in DOMAIN events |->
        Entry(events[i].Kind, events[i].Value, events[i].Id, i - 1)]

\* The same history as events, named by the times of their calls.
EventsOf(h) ==
    LET e == makeEntries(h)
    IN [i \in DOMAIN e |->
          [Kind |-> e[i].kind, Value |-> e[i].value, Id |-> e[i].value.Call]]

-----------------------------------------------------------------------------
(* Bitsets (bitset.go).                                                    *)

newBitset(n) ==
    LET extra == IF n % WordBits # 0 THEN 1 ELSE 0
    IN [w \in 0..((n \div WordBits) + extra - 1) |-> {}]

\* Mutant: the position in the word is not reduced.
bitsetIndexUnreduced(pos) == <<pos \div WordBits, pos>>

bitsetIndex(pos) == <<pos \div WordBits, pos % WordBits>>

set(b, pos) == [b EXCEPT ![bitsetIndex(pos)[1]] = @ \cup {bitsetIndex(pos)[2]}]

clear(b, pos) == [b EXCEPT ![bitsetIndex(pos)[1]] = @ \ {bitsetIndex(pos)[2]}]

popcnt(b) == FoldFunction(LAMBDA word, n : n + Cardinality(word), 0, b)

Xor(u, v) == (u \ v) \cup (v \ u)

\* The words and the number of bits, exclusive-ored.
hash(b) ==
    LET n == popcnt(b)
    IN FoldFunction(Xor, {k \in 0..n : (n \div 2^k) % 2 = 1}, b)

-----------------------------------------------------------------------------
(* The linked list of the entries.  Node i is the i-th entry of the part,   *)
(* node 0 the head.                                                        *)

headEntry == 0
NoNode == -1

makeLinkedEntries(e) ==
    [next |-> [i \in 0..Len(e) |-> IF i < Len(e) THEN i + 1 ELSE NoNode],
     prev |-> [i \in 0..Len(e) |-> i - 1]]

\* The return of the call at node i; NoNode if i is a return.
match(e, i) ==
    IF e[i].kind = "return" THEN NoNode
    ELSE CHOOSE j \in (i + 1)..Len(e) : e[j].kind = "return" /\ e[j].id = e[i].id

\* Node x is taken out of the list, and keeps its own links.
Unlink(l, x) ==
    [next |-> [l.next EXCEPT ![l.prev[x]] = l.next[x]],
     prev |-> IF l.next[x] = NoNode THEN l.prev
              ELSE [l.prev EXCEPT ![l.next[x]] = l.prev[x]]]

\* Node x is put back where its own links say.
Relink(l, x) ==
    [next |-> [l.next EXCEPT ![l.prev[x]] = x],
     prev |-> IF l.next[x] = NoNode THEN l.prev
              ELSE [l.prev EXCEPT ![l.next[x]] = x]]

lift(l, e, x) == Unlink(Unlink(l, x), match(e, x))

\* Mutant: the return of the call is not put back.
unliftCall(l, e, x) == Relink(l, x)

unlift(l, e, x) == Relink(Relink(l, match(e, x)), x)

-----------------------------------------------------------------------------
(* checkSingle.                                                            *)

\* Mutant: a cache entry with the same hash is taken for the same.
cacheContainsHash(cache, linearized, state) ==
    \E c \in cache : hash(c.linearized) = hash(linearized) /\ c.state = state

cacheContains(cache, linearized, state) ==
    \E c \in cache : /\ hash(c.linearized) = hash(linearized)
                     /\ c.linearized = linearized
                     /\ c.state = state

\* The locals at the start of the search.
Started(e) ==
    LET n == Len(e) \div 2
    IN [entry      |-> IF e = <<>> THEN NoNode ELSE 1,
        list       |-> makeLinkedEntries(e),
        linearized |-> newBitset(n),
        cache      |-> {},
        calls      |-> <<>>,
        state      |-> <<>>,
        longest    |-> [id \in 0..(n - 1) |-> <<>>]]

\* The ids of the calls on the stack.
Ids(e, calls) == [k \in DOMAIN calls |-> e[calls[k].entry].id]

\* Mutant: an operation keeps the shortest linearization it was part of.
RecordedShortest(g, e) ==
    LET seq == Ids(e, g.calls)
    IN [id \in DOMAIN g.longest |->
          IF id \in Range(seq) /\ Len(g.longest[id]) \notin 1..Len(seq)
          THEN seq ELSE g.longest[id]]

\* The stack is the longest linearization so far of some of its operations.
Recorded(g, e) ==
    LET seq == Ids(e, g.calls)
    IN [id \in DOMAIN g.longest |->
          IF id \in Range(seq) /\ Len(seq) > Len(g.longest[id])
          THEN seq ELSE g.longest[id]]

\* The goroutine of part i is in its loop, with entries left.
Looping(i) ==
    i \in DOMAIN parts /\ search[i] # <<>> /\ search[i].list.next[headEntry] # NoNode

\* It is at a call that can be linearized now, into this set and this state.
Fits(i) ==
    LET g == search[i]
        op == parts[i][g.entry].value
        id == parts[i][g.entry].id
    IN /\ match(parts[i], g.entry) # NoNode
       /\ StepOk(g.state, op)
       /\ ~cacheContains(g.cache, set(g.linearized, id), StepState(g.state, op))

Goes(i, g) ==
    /\ search' = [search EXCEPT ![i] = g]
    /\ UNCHANGED <<history, computeInfo, parts, longest, results, kill, caller>>

\* The goroutine ends: it stores what it found and sends its verdict.
Ends(i, verdict, found) ==
    /\ search' = [search EXCEPT ![i] = <<>>]
    /\ longest' = [longest EXCEPT ![i] = found]
    /\ results' = Append(results, verdict)
    /\ UNCHANGED <<history, computeInfo, parts, kill, caller>>

Linearize(i) ==
    LET g == search[i]
        op == parts[i][g.entry].value
        id == parts[i][g.entry].id
        links == lift(g.list, parts[i], g.entry)
    IN /\ Looping(i) /\ ~kill
       /\ Fits(i)
       /\ Goes(i, [g EXCEPT
             !.cache = @ \cup {[linearized |-> set(g.linearized, id),
                                state |-> StepState(g.state, op)]},
             !.calls = Append(@, [entry |-> g.entry, state |-> g.state]),
             !.state = StepState(g.state, op),
             !.linearized = set(g.linearized, id),
             !.list = links,
             !.entry = links.next[headEntry]])

\* The call cannot be linearized here, or the search was there before.
Skip(i) ==
    LET g == search[i]
    IN /\ Looping(i) /\ ~kill
       /\ match(parts[i], g.entry) # NoNode
       /\ ~Fits(i)
       /\ Goes(i, [g EXCEPT !.entry = g.list.next[@]])

\* At a return: the last call is taken back.
Backtrack(i) ==
    LET g == search[i]
        e == parts[i]
        top == Last(g.calls)
        links == unlift(g.list, e, top.entry)
    IN /\ Looping(i) /\ ~kill
       /\ match(e, g.entry) = NoNode /\ g.calls # <<>>
       /\ Goes(i, [g EXCEPT
             !.longest = IF computeInfo THEN Recorded(g, e) ELSE @,
             !.state = top.state,
             !.linearized = clear(@, e[top.entry].id),
             !.calls = Front(@),
             !.list = links,
             !.entry = links.next[top.entry]])

\* At a return with nothing to take back: the part is not linearizable.
Exhausted(i) ==
    /\ Looping(i) /\ ~kill
    /\ match(parts[i], search[i].entry) = NoNode /\ search[i].calls = <<>>
    /\ Ends(i, FALSE, search[i].longest)

Killed(i) == Looping(i) /\ kill /\ Ends(i, FALSE, search[i].longest)

\* No entry is left: the stack is a linearization of the whole part.
Complete(i) ==
    /\ i \in DOMAIN parts /\ search[i] # <<>> /\ ~Looping(i)
    /\ Ends(i, TRUE, [id \in DOMAIN search[i].longest |->
                          Ids(parts[i], search[i].calls)])

-----------------------------------------------------------------------------
(* checkParallel, and its caller.                                          *)

\* Mutant: the loop is left one result later.
AllReceivedAndMore(n) == n > Len(parts)

AllReceived(n) == n >= Len(parts)

\* A result arrives; without computeInfo a failure ends the other searches.
Receive ==
    /\ stage = "select" /\ results # <<>>
    /\ results' = Tail(results)
    /\ count' = count + 1
    /\ ok' = (ok /\ Head(results))
    /\ kill' = (~ok' /\ ~computeInfo)
    /\ stage' = IF kill' \/ AllReceived(count') THEN "collect" ELSE "select"
    /\ UNCHANGED <<history, computeInfo, parts, search, longest, timedOut, result,
                   info, largest>>

TimeOut ==
    /\ stage = "select"
    /\ timedOut' = TRUE /\ kill' = TRUE /\ stage' = "collect"
    /\ UNCHANGED <<history, computeInfo, parts, search, longest, results, count, ok,
                   result, info, largest>>

\* With computeInfo the goroutines that still run are waited for.
Wait ==
    /\ stage = "collect" /\ computeInfo /\ ~AllReceived(count) /\ results # <<>>
    /\ results' = Tail(results)
    /\ count' = count + 1
    /\ UNCHANGED <<history, computeInfo, parts, search, longest, kill, ok, timedOut,
                   stage, result, info, largest>>

\* The verdict, and the partial linearizations without the repeated ones.
Report ==
    /\ stage = "collect"
    /\ computeInfo => AllReceived(count)
    /\ stage' = "checked"
    /\ result' = IF ~ok THEN "Illegal" ELSE IF timedOut THEN "Unknown" ELSE "Ok"
    /\ info' = IF computeInfo
               THEN [i \in DOMAIN parts |-> Range(longest[i]) \ {<<>>}] ELSE <<>>
    /\ UNCHANGED <<history, computeInfo, parts, search, longest, results, kill, count,
                   ok, timedOut, largest>>

\* The operation with this id in the entries of a part.
Operation(e, id) == e[CHOOSE j \in DOMAIN e : e[j].id = id].value

\* The store after the operations with these ids; legal if each could answer so.
Replayed(e, ids) ==
    FoldLeft(LAMBDA r, id : [legal |-> r.legal /\ StepOk(r.state, Operation(e, id)),
                             state |-> StepState(r.state, Operation(e, id))],
             [legal |-> TRUE, state |-> <<>>], ids)

\* Visualize: the longest linearization with each operation, which must replay.
Visualize ==
    /\ stage = "checked" /\ computeInfo /\ result = "Illegal"
    /\ \A i \in DOMAIN parts : \A ids \in info[i] : Replayed(parts[i], ids).legal
    /\ stage' = "shown"
    /\ largest' = [i \in DOMAIN parts |->
          [id \in UNION {Range(ids) : ids \in info[i]} |->
              CHOOSE ids \in info[i] :
                  /\ id \in Range(ids)
                  /\ \A other \in info[i] : id \in Range(other) => Len(other) <= Len(ids)]]
    /\ UNCHANGED <<history, computeInfo, parts, search, longest, results, kill, count,
                   ok, timedOut, result, info>>

-----------------------------------------------------------------------------

\* When n operations are called and return, recorded as they return.
Spans(n) ==
    {s \in [1..n -> (1..(2 * n)) \X (1..(2 * n))] :
        /\ \A i \in 1..n : s[i][1] < s[i][2]
        /\ \A i, j \in 1..n : i < j => s[i][2] < s[j][2]
        /\ Cardinality(UNION {{s[i][1], s[i][2]} : i \in 1..n}) = 2 * n}

Histories ==
    UNION {{[i \in 1..n |-> [Op |-> r[i].Op, Key |-> r[i].Key, Value |-> r[i].Value,
                             Output |-> r[i].Output,
                             Call |-> s[i][1], Return |-> s[i][2]]]
              : r \in [1..n -> Request], s \in Spans(n)} : n \in 0..MaxOps}

\* The parts of a history of operations,
checkOperations(h) ==
    LET p == Partition(h)
    IN [i \in DOMAIN p |-> makeEntries(p[i])]

\* and of one of events: fillDefault makes it a single part.
checkEvents(h) == <<convertEntries(renumber(EventsOf(h)))>>

\* Either way; a single part suits the histories of one key.
Init ==
    /\ history \in Histories
    /\ computeInfo \in BOOLEAN
    /\ \/ parts = checkOperations(history)
       \/ /\ Cardinality({history[i].Key : i \in DOMAIN history}) <= 1
          /\ parts = checkEvents(history)
    /\ search = [i \in DOMAIN parts |-> Started(parts[i])]
    /\ longest = [i \in DOMAIN parts |-> <<>>]
    /\ results = <<>> /\ kill = FALSE
    /\ count = 0 /\ ok = TRUE /\ timedOut = FALSE /\ stage = "select"
    /\ result = "none" /\ info = <<>> /\ largest = <<>>

Search(i) ==
    Linearize(i) \/ Skip(i) \/ Backtrack(i) \/ Exhausted(i) \/ Killed(i) \/ Complete(i)

Next ==
    \/ \E i \in 1..MaxOps : Search(i)
    \/ Receive \/ TimeOut \/ Wait \/ Report \/ Visualize

\* Every goroutine and the caller go on: the Go scheduler starves none.  Nothing
\* says that the time-out fires: 0 means none.
Fairness ==
    /\ \A i \in 1..MaxOps : WF_vars(Search(i))
    /\ WF_vars(Receive \/ Wait \/ Report \/ Visualize)

Spec == Init /\ [][Next]_vars /\ Fairness

-----------------------------------------------------------------------------
(* What the verdict must be: the definition of linearizability, for the     *)
(* whole history and a store of all keys.                                  *)

Before(a, b) == a.Return < b.Call

\* The operations in this order: none after one that it preceded in real time,
\* or after leaving out one that returned before it was called.
KeepsRealTime(ops, order) ==
    \A k \in DOMAIN order : \A op \in ops :
        Before(op, order[k]) => \E j \in 1..(k - 1) : order[j] = op

\* Each of them, on the values of the keys so far, answers what it did answer.
AnswersRight(order) ==
    FoldLeft(LAMBDA r, op :
                 [legal |-> r.legal /\ StepOk(r.store[op.Key], op),
                  store |-> [r.store EXCEPT ![op.Key] = StepState(@, op)]],
             [legal |-> TRUE, store |-> [k \in {r.Key : r \in Request} |-> <<>>]],
             order).legal

IsLinearizable(ops) ==
    \E order \in SetToSeqs(ops) : KeepsRealTime(ops, order) /\ AnswersRight(order)

\* The linearizations of some of the operations of a part.
Partials(ops) ==
    {order \in SetToAllKPermutations(ops) :
        KeepsRealTime(ops, order) /\ AnswersRight(order)}

OpsOf(e) == {e[j].value : j \in DOMAIN e}

OpsNamed(e, ids) == [k \in DOMAIN ids |-> Operation(e, ids[k])]

-----------------------------------------------------------------------------
(* Properties.                                                             *)

\* The bits of a set stay within its words, entries are nodes of the list, and
\* checkParallel counts no more results than there are parts.
TypeOK ==
    /\ computeInfo \in BOOLEAN /\ kill \in BOOLEAN /\ ok \in BOOLEAN
    /\ timedOut \in BOOLEAN
    /\ stage \in {"select", "collect", "checked", "shown"}
    /\ result \in {"none", "Ok", "Illegal", "Unknown"}
    /\ count \in 0..Len(parts) /\ Len(results) <= Len(parts)
    /\ \A i \in DOMAIN parts : search[i] # <<>> =>
          /\ search[i].entry \in -1..Len(parts[i])
          /\ \A w \in DOMAIN search[i].linearized :
                search[i].linearized[w] \subseteq 0..(WordBits - 1)

\* The verdict is right: Ok only for a linearizable history, Illegal only for one
\* that is not, though a killed search also reports failure and the history was
\* split by key; Unknown only after a time-out.
VerdictRight ==
    /\ result = "Ok" => IsLinearizable(Range(history))
    /\ result = "Illegal" => ~IsLinearizable(Range(history))
    /\ result = "Unknown" => timedOut

\* The search agrees with itself through every lift and unlift: the bits are the
\* calls on the stack, which lead to the state, and the list links the entries
\* of all other operations in their order.
SearchConsistent ==
    \A i \in DOMAIN parts : search[i] # <<>> =>
        LET g == search[i]
            e == parts[i]
            ids == Ids(e, g.calls)
            rest == {j \in DOMAIN e : e[j].id \notin Range(ids)}
        IN /\ \A w \in DOMAIN g.linearized : \A b \in 0..(WordBits - 1) :
                b \in g.linearized[w] <=> w * WordBits + b \in Range(ids)
           /\ Cardinality(Range(ids)) = Len(ids)
           /\ Replayed(e, ids) = [legal |-> TRUE, state |-> g.state]
           /\ rest = {} => g.list.next[headEntry] = NoNode
           /\ rest # {} => /\ g.entry \in rest
                           /\ g.list.next[headEntry] = Min(rest)
                           /\ g.list.next[Max(rest)] = NoNode
           /\ \A j, k \in rest : (j < k /\ ~\E m \in rest : j < m /\ m < k) =>
                 g.list.next[j] = k /\ g.list.prev[k] = j

\* What a verbose check returns: no goroutine still writes it, every partial
\* linearization is one (Visualize panics otherwise), even after a time-out, and
\* for a history that is not linearizable Visualize shows for every operation
\* the longest one that there is, although the search prunes by its cache.
PartialsRight ==
    /\ (stage \in {"checked", "shown"} /\ computeInfo) =>
          \A i \in DOMAIN parts :
              /\ search[i] = <<>>
              /\ \A ids \in info[i] :
                    OpsNamed(parts[i], ids) \in Partials(OpsOf(parts[i]))
    /\ (stage = "shown" /\ ~timedOut) =>
          \A i \in DOMAIN parts : \A j \in DOMAIN parts[i] :
              LET with == {p \in Partials(OpsOf(parts[i])) :
                              parts[i][j].value \in Range(p)}
                  id == parts[i][j].id
              IN IF with = {} THEN id \notin DOMAIN largest[i]
                 ELSE Len(largest[i][id]) = Max({Len(p) : p \in with})

\* The check answers, without a time-out too, and leaves no goroutine behind; but
\* for the empty history, which the key/value model splits into no parts: the
\* select then waits for a result that no goroutine will send.
CheckReturns ==
    parts # <<>> =>
        <>(stage \in {"checked", "shown"} /\ \A i \in DOMAIN parts : search[i] = <<>>)
=============================================================================
