-------------------------- MODULE MapReduceProofs --------------------------
(***************************************************************************)
(* Safety of the MapReduce master for every job, every number of workers   *)
(* and every number of failures.                                           *)
(***************************************************************************)
EXTENDS MapReduce, TLAPS

\* Marking files of a bucket keeps a table of statuses (master.go:121-122, 188-190).
LEMMA MarkedType ==
    ASSUME NEW tasks \in [File -> Status], NEW files, NEW status \in Status
    PROVE  Marked(tasks, files, status) \in [File -> Status]
  BY DEF Marked

\* The end of TaskFinished leaves a worker in one of its states (master.go:223-228).
LEMMA ReplyType ==
    ASSUME TypeOK, NEW w \in Worker, NEW done \in BOOLEAN, Reply(w, done)
    PROVE  pc' \in [Worker -> {"idle", "asking", "sleep", "map", "reporting", "reduce",
                               "reduced", "exit", "dead"}]
  BY DEF TypeOK, Reply

\* MakeMaster builds tables of the right types (master.go:295-311).
LEMMA InitType == Init => TypeOK
  <1> SUFFICES ASSUME Init PROVE TypeOK
    OBVIOUS
  <1>1. file \in [Worker -> File]
    BY JobAssumption DEF Init
  <1>2. task \in [Worker -> ReduceTask]
    <2>1. 1 \in Bucket
      BY JobAssumption DEF Bucket
    <2>2. [TaskId |-> 1, files |-> {}] \in ReduceTask
      BY <2>1 DEF ReduceTask
    <2> QED
      BY <2>2 DEF Init
  <1>3. mapErrors \in 0..MaxMapErrors /\ reduceErrors \in 0..MaxReduceErrors
        /\ crashes \in 0..MaxCrashes
    BY JobAssumption DEF Init
  <1>4. /\ mapTask \in [File -> Status] /\ reduceBucket \in [Bucket -> Status]
        /\ reduceTask \in [Bucket -> [File -> Status]]
    BY DEF Init, Status
  <1> QED
    BY <1>1, <1>2, <1>3, <1>4, Zenon DEF Init, TypeOK

\* Every step keeps the types.
LEMMA NextType == TypeOK /\ [Next]_vars => TypeOK'
  <1> SUFFICES ASSUME TypeOK, [Next]_vars PROVE TypeOK'
    OBVIOUS
  <1> USE JobAssumption
  <1>1. ASSUME NEW w \in Worker, GetMapTask(w) PROVE TypeOK'
    BY <1>1 DEF GetMapTask, TypeOK, Status, bounds
  <1>2. ASSUME NEW w \in Worker, NoMapTask(w) PROVE TypeOK'
    BY <1>2 DEF NoMapTask, TypeOK, masterVars, bounds
  <1>3. ASSUME NEW w \in Worker, GetReduceTask(w) PROVE TypeOK'
    <2>1. PICK b \in Bucket : GetReduceTask(w)!(b)
      BY <1>3, Zenon DEF GetReduceTask
    <2> DEFINE t == [TaskId |-> b, files |-> Waiting(b)]
    <2>2. t \in ReduceTask
      BY DEF ReduceTask, Waiting
    <2>3. Marked(reduceTask[b], t.files, "assigned") \in [File -> Status]
      BY MarkedType DEF TypeOK, Status
    <2>4. reduceTask' \in [Bucket -> [File -> Status]]
      BY <2>1, <2>3 DEF TypeOK
    <2>5. reduceRecover' \subseteq ReduceTask /\ task' \in [Worker -> ReduceTask]
      BY <2>1, <2>2 DEF TypeOK
    <2>6. reduceBucket' \in [Bucket -> Status]
      BY <2>1 DEF TypeOK, Status
    <2> QED
      BY <2>1, <2>4, <2>5, <2>6, Zenon DEF TypeOK, bounds
  <1>4. ASSUME NEW w \in Worker, NoTask(w) PROVE TypeOK'
    BY <1>4 DEF NoTask, TypeOK, masterVars, bounds
  <1>5. ASSUME NEW w \in Worker, WakeUp(w) PROVE TypeOK'
    BY <1>5, ReplyType DEF WakeUp, TypeOK, masterVars, bounds
  <1>6. ASSUME NEW w \in Worker, FinishMap(w) PROVE TypeOK'
    <2>1. CASE isMapDone
      BY <1>6, <2>1, ReplyType DEF FinishMap, TypeOK, bounds
    <2>2. CASE ~isMapDone
      <3>1. mapTask' \in [File -> Status] /\ adding' \subseteq Worker \X File
        BY <1>6, <2>2 DEF FinishMap, TypeOK, Status
      <3>2. isMapDone' \in BOOLEAN
        BY <1>6, <2>2, Zenon DEF FinishMap, MapsDone
      <3> QED
        BY <1>6, <2>2, <3>1, <3>2 DEF FinishMap, TypeOK, bounds
    <2> QED
      BY <2>1, <2>2
  <1>7. ASSUME NEW w \in Worker, AddReduceTasks(w) PROVE TypeOK'
    <2>1. PICK f \in File : AddReduceTasks(w)!(f)
      BY <1>7, Zenon DEF AddReduceTasks
    <2>2. reduceBucket' \in [Bucket -> Status]
      BY <2>1 DEF TypeOK, Status
    <2>3. reduceTask' \in [Bucket -> [File -> Status]]
      BY <2>1 DEF TypeOK, Status
    <2> QED
      BY <2>1, <2>2, <2>3, ReplyType DEF TypeOK, bounds
  <1>8. ASSUME NEW w \in Worker, FailMap(w) PROVE TypeOK'
    BY <1>8, ReplyType DEF FailMap, TypeOK, masterVars
  <1>9. ASSUME NEW w \in Worker, doReduce(w) PROVE TypeOK'
    BY <1>9 DEF doReduce, TypeOK, ReduceTask, masterVars, bounds
  <1>10. ASSUME NEW w \in Worker, FinishReduce(w) PROVE TypeOK'
    <2> DEFINE t == task[w]
    <2>1. t \in ReduceTask
      BY DEF TypeOK
    <2>2. Marked(reduceTask[t.TaskId], t.files, "absent") \in [File -> Status]
      BY <2>1, MarkedType DEF TypeOK, ReduceTask, Status
    <2>3. reduceTask' \in [Bucket -> [File -> Status]]
      BY <1>10, <2>1, <2>2, Zenon DEF FinishReduce, Deleted, TypeOK
    <2>4. reduceBucket' \in [Bucket -> Status]
      BY <1>10, <2>1, Zenon DEF FinishReduce, TypeOK, Status
    <2>5. isReduceDone' \in BOOLEAN
      BY <1>10 DEF FinishReduce
    <2>6. reduced' \subseteq Bucket \X File
      BY <1>10, <2>1 DEF FinishReduce, TypeOK, ReduceTask
    <2> QED
      BY <1>10, <2>3, <2>4, <2>5, <2>6, ReplyType, Zenon DEF FinishReduce, TypeOK, bounds
  <1>11. ASSUME NEW w \in Worker, FailReduce(w) PROVE TypeOK'
    BY <1>11 DEF FailReduce, TypeOK, masterVars
  <1>12. ASSUME NEW w \in Worker, LoseMaster(w) PROVE TypeOK'
    BY <1>12 DEF LoseMaster, TypeOK, masterVars, bounds
  <1>13. ASSUME NEW w \in Worker, Crash(w) PROVE TypeOK'
    BY <1>13 DEF Crash, TypeOK, masterVars
  <1>14. ASSUME NEW f \in mapRecover, RecoverMap(f) PROVE TypeOK'
    BY <1>14 DEF RecoverMap, Again, TypeOK, Status, bounds
  <1>15. ASSUME NEW t \in reduceRecover, RecoverReduce(t) PROVE TypeOK'
    <2>1. t \in ReduceTask
      BY DEF TypeOK
    <2>2. Marked(reduceTask[t.TaskId], t.files, "waiting") \in [File -> Status]
      BY <2>1, MarkedType DEF TypeOK, ReduceTask, Status
    <2>3. reduceTask' \in [Bucket -> [File -> Status]]
      BY <1>15, <2>1, <2>2 DEF RecoverReduce, Reissued, TypeOK
    <2>4. reduceBucket' \in [Bucket -> Status]
      BY <1>15, <2>1 DEF RecoverReduce, TypeOK, Status
    <2> QED
      BY <1>15, <2>3, <2>4 DEF RecoverReduce, TypeOK, bounds
  <1>16. ASSUME Done PROVE TypeOK'
    BY <1>16 DEF Done, TypeOK, masterVars, bounds
  <1>17. ASSUME UNCHANGED vars PROVE TypeOK'
    BY <1>17 DEF vars, TypeOK, masterVars, bounds
  <1> QED
    BY <1>1, <1>2, <1>3, <1>4, <1>5, <1>6, <1>7, <1>8, <1>9, <1>10, <1>11, <1>12,
       <1>13, <1>14, <1>15, <1>16, <1>17 DEF Next

\* In every job the tables, the workers and the goroutines of master.go and
\* worker.go keep their types.
THEOREM TypeCorrect == Spec => []TypeOK
  BY InitType, NextType, PTL DEF Spec

-----------------------------------------------------------------------------

\* A finished map task stays finished: recoverRequest and GetTask touch only tasks
\* that are in mapTask (master.go:71-85, 238-249).
THEOREM MapsStayFinished == Spec => FinishedMapStays
  <1>1. ASSUME TypeOK, [Next]_vars, NEW f \in File, mapTask[f] = "absent"
        PROVE  mapTask'[f] = "absent"
    <2>1. ASSUME NEW w \in Worker, GetMapTask(w) PROVE mapTask'[f] = "absent"
      BY <1>1, <2>1 DEF GetMapTask, TypeOK
    <2>2. ASSUME NEW w \in Worker, FinishMap(w) PROVE mapTask'[f] = "absent"
      BY <1>1, <2>2 DEF FinishMap, TypeOK
    <2>3. ASSUME NEW g \in mapRecover, RecoverMap(g) PROVE mapTask'[f] = "absent"
      BY <1>1, <2>3 DEF RecoverMap, Again, TypeOK
    <2>4. CASE UNCHANGED mapTask
      BY <1>1, <2>4
    <2> QED
      BY <1>1, <2>1, <2>2, <2>3, <2>4, Zenon
      DEF Next, NoMapTask, GetReduceTask, NoTask, WakeUp, AddReduceTasks, FailMap, doReduce,
          FinishReduce, FailReduce, LoseMaster, Crash, RecoverReduce, Done, vars, masterVars
  <1>2. TypeOK /\ [Next]_vars
          => [\A f \in File : mapTask[f] = "absent" => mapTask'[f] = "absent"]_vars
    BY <1>1
  <1> QED
    BY <1>2, TypeCorrect, PTL DEF Spec, FinishedMapStays

-----------------------------------------------------------------------------

\* Where an intermediate file of a finished map task is (master.go:159-180).
Kept(f, b) ==
    \/ \E w \in Worker : <<w, f>> \in adding
    \/ reduceTask[b][f] # "absent"
    \/ <<b, f>> \in reduced

\* A step that leaves the tables alone forgets nothing.
LEMMA KeptUnchanged ==
    ASSUME NoFileForgotten, UNCHANGED <<mapTask, reduceTask, adding, reduced>>
    PROVE  NoFileForgotten'
  BY Zenon DEF NoFileForgotten

\* If the map tasks do not change and every file stays where it can be found,
\* nothing is forgotten.
LEMMA KeptAll ==
    ASSUME NoFileForgotten, UNCHANGED mapTask,
           \A f \in File : \A b \in Emits[f] : Kept(f, b) => Kept(f, b)'
    PROVE  NoFileForgotten'
  BY Zenon DEF NoFileForgotten, Kept

\* No step forgets an intermediate file.
LEMMA NextKeeps == TypeOK /\ NoFileForgotten /\ [Next]_vars => NoFileForgotten'
  <1> SUFFICES ASSUME TypeOK, NoFileForgotten, [Next]_vars PROVE NoFileForgotten'
    OBVIOUS
  <1>e. \A f \in File : Emits[f] \subseteq Bucket
    BY JobAssumption
  <1>1. ASSUME NEW w \in Worker, GetMapTask(w) PROVE NoFileForgotten'
    BY <1>1, Zenon DEF GetMapTask, TypeOK, NoFileForgotten
  <1>2. ASSUME NEW w \in Worker, GetReduceTask(w) PROVE NoFileForgotten'
    <2>1. PICK c \in Bucket : GetReduceTask(w)!(c)
      BY <1>2, Zenon DEF GetReduceTask
    <2>2. ASSUME NEW f \in File, NEW b \in Emits[f], Kept(f, b) PROVE Kept(f, b)'
      <3>1. reduceTask[b][f] # "absent" => reduceTask'[b][f] # "absent"
        BY <1>e, <2>1 DEF Marked, TypeOK
      <3> QED
        BY <2>1, <2>2, <3>1 DEF Kept
    <2> QED
      BY <2>1, <2>2, KeptAll
  <1>3. ASSUME NEW w \in Worker, FinishMap(w) PROVE NoFileForgotten'
    <2>1. CASE isMapDone
      BY <1>3, <2>1, KeptUnchanged DEF FinishMap
    <2>2. CASE ~isMapDone
      <3> SUFFICES ASSUME NEW f \in File, mapTask'[f] = "absent", NEW b \in Emits[f]
                   PROVE  Kept(f, b)'
        BY Zenon DEF NoFileForgotten, Kept
      <3>1. CASE f = file[w]
        BY <1>3, <2>2, <3>1 DEF FinishMap, Kept
      <3>2. CASE f # file[w]
        <4>1. mapTask[f] = "absent"
          BY <1>3, <2>2, <3>2 DEF FinishMap, TypeOK
        <4>2. Kept(f, b)
          BY <4>1 DEF NoFileForgotten, Kept
        <4> QED
          BY <1>3, <2>2, <4>2 DEF FinishMap, Kept
      <3> QED
        BY <3>1, <3>2
    <2> QED
      BY <2>1, <2>2
  <1>4. ASSUME NEW w \in Worker, AddReduceTasks(w) PROVE NoFileForgotten'
    <2>1. PICK g \in File : AddReduceTasks(w)!(g)
      BY <1>4, Zenon DEF AddReduceTasks
    <2>2. ASSUME NEW f \in File, NEW b \in Emits[f], Kept(f, b) PROVE Kept(f, b)'
      <3>0. b \in Bucket
        BY <1>e
      <3>1. CASE f = g
        <4>1. reduceTask'[b][f] = "waiting"
          BY <2>1, <3>0, <3>1 DEF TypeOK
        <4> QED
          BY <4>1 DEF Kept
      <3>2. CASE f # g
        <4>1. reduceTask'[b][f] = reduceTask[b][f]
          BY <2>1, <3>0, <3>2 DEF TypeOK
        <4>2. \A v \in Worker : <<v, f>> \in adding => <<v, f>> \in adding'
          BY <2>1, <3>2, Zenon
        <4> QED
          BY <2>1, <2>2, <4>1, <4>2, Zenon DEF Kept
      <3> QED
        BY <3>1, <3>2
    <2> QED
      BY <2>1, <2>2, KeptAll
  <1>5. ASSUME NEW w \in Worker, FinishReduce(w) PROVE NoFileForgotten'
    <2>0. task[w].TaskId \in Bucket /\ task[w].files \subseteq File
      BY DEF TypeOK, ReduceTask
    <2>1. ASSUME NEW f \in File, NEW b \in Emits[f], Kept(f, b) PROVE Kept(f, b)'
      <3>0. b \in Bucket
        BY <1>e
      <3>1. CASE b = task[w].TaskId /\ f \in task[w].files
        BY <1>5, <3>1 DEF FinishReduce, Kept
      <3>2. CASE ~(b = task[w].TaskId /\ f \in task[w].files)
        <4>1. reduceTask'[b][f] = reduceTask[b][f]
          BY <1>5, <2>0, <3>0, <3>2, Zenon DEF FinishReduce, Deleted, Marked, TypeOK
        <4> QED
          BY <1>5, <2>1, <4>1 DEF FinishReduce, Kept
      <3> QED
        BY <3>1, <3>2
    <2> QED
      BY <1>5, <2>1, KeptAll DEF FinishReduce
  <1>6. ASSUME NEW f \in mapRecover, RecoverMap(f) PROVE NoFileForgotten'
    BY <1>6, Zenon DEF RecoverMap, Again, TypeOK, NoFileForgotten
  <1>7. ASSUME NEW t \in reduceRecover, RecoverReduce(t) PROVE NoFileForgotten'
    <2>0. t.TaskId \in Bucket /\ t.files \subseteq File
      BY DEF TypeOK, ReduceTask
    <2>1. ASSUME NEW f \in File, NEW b \in Emits[f], Kept(f, b) PROVE Kept(f, b)'
      <3>1. reduceTask[b][f] # "absent" => reduceTask'[b][f] # "absent"
        BY <1>e, <1>7, <2>0 DEF RecoverReduce, Reissued, Marked, TypeOK
      <3> QED
        BY <1>7, <2>1, <3>1 DEF RecoverReduce, Kept
    <2> QED
      BY <1>7, <2>1, KeptAll, Zenon DEF RecoverReduce
  <1>8. CASE UNCHANGED <<mapTask, reduceTask, adding, reduced>>
    BY <1>8, KeptUnchanged
  <1> QED
    BY <1>1, <1>2, <1>3, <1>4, <1>5, <1>6, <1>7, <1>8
    DEF Next, NoMapTask, NoTask, WakeUp, FailMap, doReduce, FailReduce, LoseMaster, Crash,
        Done, vars, masterVars

\* The master never loses an intermediate file, for any number of slow, failing or
\* crashing workers: a finished map task's files are being registered, registered,
\* or reported as reduced.
THEOREM NothingForgotten == Spec => []NoFileForgotten
  <1>1. Init => NoFileForgotten
    BY Zenon DEF Init, NoFileForgotten
  <1> QED
    BY <1>1, NextKeeps, TypeCorrect, PTL DEF Spec
-----------------------------------------------------------------------------
(* The output of a job with one file.                                      *)

\* Nothing was registered yet for the reduce phase.
Unregistered ==
    /\ reduced = {} /\ ~isReduceDone /\ reduceRecover = {}
    /\ \A b \in Bucket : reduceBucket[b] = "absent"
    /\ \A b \in Bucket, f \in File : reduceTask[b][f] = "absent"
    /\ \A w \in Worker : pc[w] \notin {"reduce", "reduced"}

\* A reduce task with all the files of its bucket (master.go:115-131).
Whole(t) == t.files # {} /\ t.files = Sequential(t.TaskId)

\* The output file of bucket b holds what the sequential program would write.
Written(b) == out[b] = Sequential(b)

\* The map phase ends with its first report, whose files are all that is ever
\* registered; before that no reduce task exists, and after it each one is whole,
\* so an output file is either not there or right.
OutputInv ==
    /\ isMapDone <=> MapsDone(mapTask)
    /\ \A p, q \in adding : p = q
    /\ ~isMapDone => adding = {}
    /\ ~isMapDone \/ adding # {} => Unregistered
    /\ \A b \in Bucket, f \in File : reduceTask[b][f] # "absent" => b \in Emits[f]
    /\ \A t \in reduceRecover : Whole(t)
    /\ \A w \in Worker : pc[w] \in {"reduce", "reduced"} => Whole(task[w])
    /\ \A b \in Bucket : out[b] = {} \/ Written(b)
    /\ \A w \in Worker : pc[w] = "reduced" => Written(task[w].TaskId)
    /\ \A p \in reduced : Written(p[1])
    /\ OutputComplete

\* A worker goes on with the reduce task it had, or with none.
SameTask(w) ==
    pc'[w] \in {"reduce", "reduced"} => pc'[w] = pc[w] /\ task'[w] = task[w]

\* The end of TaskFinished leaves no worker with a reduce task it did not have.
LEMMA ReplyTask ==
    ASSUME TypeOK, NEW w \in Worker, NEW done, Reply(w, done), UNCHANGED task
    PROVE  \A v \in Worker : SameTask(v)
  BY DEF TypeOK, Reply, SameTask

\* A step that gives out no reduce task and leaves the reduce tables alone.
LEMMA OutputKept ==
    ASSUME OutputInv, MapsDone(mapTask') <=> MapsDone(mapTask),
           UNCHANGED <<reduceTask, reduceBucket, isMapDone, isReduceDone, adding,
                       reduceRecover, out, reduced>>,
           \A w \in Worker : SameTask(w)
    PROVE  OutputInv'
  <1>1. Unregistered => Unregistered'
    BY Zenon DEF Unregistered, SameTask
  <1>2. \A b \in Bucket : Written(b) <=> Written(b)'
    BY Zenon DEF Written
  <1>3. \A w \in Worker : pc'[w] \in {"reduce", "reduced"} => Whole(task'[w])
    BY Zenon DEF OutputInv, SameTask
  <1>4. \A w \in Worker : pc'[w] = "reduced" => Written(task[w].TaskId)' /\ task'[w] = task[w]
    BY Zenon DEF OutputInv, SameTask, Written
  <1>5. \A p \in reduced' : Written(p[1])'
    BY Zenon DEF OutputInv, Written
  <1>6. OutputComplete'
    BY Zenon DEF OutputInv, OutputComplete
  <1>7. /\ isMapDone' <=> MapsDone(mapTask)'
        /\ \A p, q \in adding' : p = q
        /\ ~isMapDone' => adding' = {}
        /\ ~isMapDone' \/ adding' # {} => Unregistered'
    BY <1>1, Zenon DEF OutputInv, MapsDone
  <1>8. /\ \A b \in Bucket, f \in File : reduceTask'[b][f] # "absent" => b \in Emits[f]
        /\ \A t \in reduceRecover' : Whole(t)
        /\ \A b \in Bucket : out'[b] = {} \/ Written(b)'
    BY <1>2, Zenon DEF OutputInv
  <1> QED
    BY <1>3, <1>4, <1>5, <1>6, <1>7, <1>8, Zenon DEF OutputInv

\* Once a reduce task exists, everything was registered and the map phase is over.
LEMMA Registered ==
    ASSUME OutputInv, ~Unregistered
    PROVE  isMapDone /\ adding = {}
  BY Zenon DEF OutputInv

\* The first map report ends the map phase: nothing was registered before it.
LEMMA FinishMapOutput ==
    ASSUME \A f, g \in File : f = g, TypeOK, OutputInv, NEW w \in Worker, FinishMap(w)
    PROVE  OutputInv'
  <1>1. CASE isMapDone
    BY <1>1, ReplyTask, OutputKept DEF FinishMap
  <1>2. CASE ~isMapDone
    <2>1. adding = {} /\ Unregistered
      BY <1>2, Zenon DEF OutputInv
    <2>2. file[w] \in File
      BY DEF TypeOK
    <2>3. /\ mapTask' = [mapTask EXCEPT ![file[w]] = "absent"]
          /\ isMapDone' = MapsDone(mapTask')
          /\ adding' = {<<w, file[w]>>}
          /\ pc' = [pc EXCEPT ![w] = "reporting"]
          /\ UNCHANGED <<reduceTask, reduceBucket, isReduceDone, reduceRecover, task, out,
                         reduced>>
      BY <1>2, <2>1 DEF FinishMap
    <2>4. MapsDone(mapTask') /\ isMapDone'
      BY <2>2, <2>3 DEF MapsDone, TypeOK
    <2>5. \A v \in Worker : pc'[v] \in {"reduce", "reduced"} => pc'[v] = pc[v]
      BY <2>3 DEF TypeOK
    <2>6. Unregistered'
      BY <2>1, <2>3, <2>5, Zenon DEF Unregistered
    <2>7. \A b \in Bucket : out'[b] = {} \/ Written(b)'
      BY <2>3, Zenon DEF OutputInv, Written
    <2>8. OutputComplete'
      BY <2>6, Zenon DEF Unregistered, OutputComplete
    <2>9. \A p, q \in adding' : p = q
      BY <2>3, Zenon
    <2> QED
      BY <2>4, <2>6, <2>7, <2>8, <2>9, Zenon DEF OutputInv, Unregistered, MapsDone
  <1> QED
    BY <1>1, <1>2

\* The only registration: tasks appear for the buckets that the file has keys for.
LEMMA AddReduceTasksOutput ==
    ASSUME TypeOK, OutputInv, NEW w \in Worker, AddReduceTasks(w)
    PROVE  OutputInv'
  <1>1. PICK f \in File : AddReduceTasks(w)!(f)
    BY Zenon DEF AddReduceTasks
  <1>2. adding = {<<w, f>>} /\ adding' = {}
    BY <1>1, Zenon DEF OutputInv
  <1>3. Unregistered /\ isMapDone
    BY <1>2, Zenon DEF OutputInv
  <1>4. \A v \in Worker : pc'[v] \notin {"reduce", "reduced"}
    BY <1>1, <1>3, ReplyTask DEF Unregistered, SameTask
  <1>5. \A b \in Bucket, g \in File : reduceTask'[b][g] # "absent" => b \in Emits[g]
    BY <1>1, <1>3 DEF Unregistered, TypeOK
  <1>6. UNCHANGED <<mapTask, isMapDone, isReduceDone, reduceRecover, out, reduced>>
    BY <1>1
  <1>7. \A b \in Bucket : out'[b] = {} \/ Written(b)'
    BY <1>6, Zenon DEF OutputInv, Written
  <1>8. OutputComplete'
    BY <1>3, <1>6, Zenon DEF Unregistered, OutputComplete
  <1>9. isMapDone' /\ MapsDone(mapTask')
    BY <1>3, <1>6, Zenon DEF OutputInv
  <1>10. reduceRecover' = {} /\ reduced' = {}
    BY <1>3, <1>6, Zenon DEF Unregistered
  <1> QED
    BY <1>2, <1>4, <1>5, <1>7, <1>8, <1>9, <1>10, Zenon DEF OutputInv
\* A reduce task is given out with the only file, so it is whole.
LEMMA GetReduceTaskOutput ==
    ASSUME \A f, g \in File : f = g, TypeOK, OutputInv, NEW w \in Worker, GetReduceTask(w)
    PROVE  OutputInv'
  <1>1. PICK b \in Bucket : GetReduceTask(w)!(b)
    BY Zenon DEF GetReduceTask
  <1> DEFINE t == [TaskId |-> b, files |-> Waiting(b)]
  <1>2. isMapDone /\ adding = {}
    <2>1. reduceBucket[b] # "absent"
      BY <1>1
    <2> QED
      BY <2>1, Registered, Zenon DEF Unregistered
  <1>3. t.files # {} => Whole(t)
    <2> SUFFICES ASSUME t.files # {} PROVE Whole(t)
      OBVIOUS
    <2>1. PICK g \in File : reduceTask[b][g] = "waiting"
      BY Zenon DEF Waiting
    <2>2. b \in Emits[g]
      BY <2>1 DEF OutputInv
    <2>3. Waiting(b) = {g} /\ Sequential(b) = {g}
      BY <2>1, <2>2, Zenon DEF Waiting, Sequential
    <2> QED
      BY <2>3 DEF Whole
  <1>4. \A c \in Bucket, g \in File : reduceTask'[c][g] # "absent" => reduceTask[c][g] # "absent"
    BY <1>1 DEF Marked, Waiting, TypeOK
  <1>5. /\ UNCHANGED <<mapTask, isMapDone, isReduceDone, adding, out, reduced>>
        /\ \A r \in reduceRecover' : r \in reduceRecover \/ (r = t /\ t.files # {})
        /\ \A v \in Worker : pc'[v] \in {"reduce", "reduced"} =>
              \/ pc'[v] = pc[v] /\ task'[v] = task[v]
              \/ pc'[v] = "reduce" /\ task'[v] = t /\ t.files # {}
    BY <1>1 DEF TypeOK
  <1>6. \A c \in Bucket : Written(c) <=> Written(c)'
    BY <1>5, Zenon DEF Written
  <1>7. /\ \A r \in reduceRecover' : Whole(r)
        /\ \A v \in Worker : pc'[v] \in {"reduce", "reduced"} => Whole(task'[v])
    BY <1>3, <1>5, Zenon DEF OutputInv
  <1>8. \A v \in Worker : pc'[v] = "reduced" => Written(task[v].TaskId)' /\ task'[v] = task[v]
    <2> SUFFICES ASSUME NEW v \in Worker, pc'[v] = "reduced"
                 PROVE  Written(task[v].TaskId)' /\ task'[v] = task[v]
      OBVIOUS
    <2>1. pc[v] = "reduced" /\ task'[v] = task[v]
      BY <1>5
    <2> QED
      BY <1>5, <2>1, Zenon DEF OutputInv, Written
  <1>9. OutputComplete' /\ \A p \in reduced' : Written(p[1])'
    BY <1>5, Zenon DEF OutputInv, OutputComplete, Written
  <1>10. /\ isMapDone' /\ MapsDone(mapTask') /\ adding' = {}
         /\ \A c \in Bucket, f \in File : reduceTask'[c][f] # "absent" => c \in Emits[f]
         /\ \A c \in Bucket : out'[c] = {} \/ Written(c)'
    BY <1>2, <1>4, <1>5, <1>6, Zenon DEF OutputInv
  <1> QED
    BY <1>7, <1>8, <1>9, <1>10, Zenon DEF OutputInv

\* doReduce writes the output file of a whole task, again if need be.
LEMMA doReduceOutput ==
    ASSUME TypeOK, OutputInv, NEW w \in Worker, doReduce(w)
    PROVE  OutputInv'
  <1> DEFINE t == task[w]
  <1>1. t.TaskId \in Bucket /\ t.files = Sequential(t.TaskId)
    BY Zenon DEF TypeOK, ReduceTask, OutputInv, doReduce, Whole
  <1>2. /\ out' = [out EXCEPT ![t.TaskId] = t.files]
        /\ pc' = [pc EXCEPT ![w] = "reduced"]
        /\ UNCHANGED <<mapTask, reduceTask, reduceBucket, isMapDone, isReduceDone, adding,
                       reduceRecover, task, reduced>>
    BY DEF doReduce, masterVars
  <1>3. Written(t.TaskId)' /\ \A b \in Bucket : Written(b) => Written(b)'
    BY <1>1, <1>2 DEF Written, TypeOK
  <1>4. \A b \in Bucket : out'[b] = out[b] \/ Written(b)'
    BY <1>1, <1>2 DEF Written, TypeOK
  <1>5. \A v \in Worker : /\ pc'[v] \in {"reduce", "reduced"} => pc[v] \in {"reduce", "reduced"}
                          /\ v # w => pc'[v] = pc[v]
    BY <1>2 DEF doReduce, TypeOK
  <1>6. ~Unregistered
    BY Zenon DEF doReduce, Unregistered
  <1>7. isMapDone /\ adding = {}
    BY <1>6, Registered
  <1>8. \A v \in Worker : pc'[v] = "reduced" => Written(task[v].TaskId)'
    <2> SUFFICES ASSUME NEW v \in Worker, pc'[v] = "reduced" PROVE Written(task[v].TaskId)'
      OBVIOUS
    <2>1. CASE v = w
      BY <1>3, <2>1
    <2>2. CASE v # w
      <3>1. pc[v] = "reduced" /\ task[v].TaskId \in Bucket
        BY <1>5, <2>2 DEF TypeOK, ReduceTask
      <3>2. Written(task[v].TaskId)
        BY <3>1, Zenon DEF OutputInv
      <3>3. PICK b \in Bucket : b = task[v].TaskId /\ task' = task
        BY <1>2, <3>1
      <3> QED
        BY <1>3, <3>2, <3>3, Zenon DEF Written
    <2> QED
      BY <2>1, <2>2
  <1>9. \A p \in reduced' : Written(p[1])'
    BY <1>2, <1>3 DEF OutputInv, TypeOK
  <1>10. OutputComplete'
    BY <1>2, <1>3, Zenon DEF OutputInv, OutputComplete, Written
  <1>11. \A b \in Bucket : out'[b] = {} \/ Written(b)'
    BY <1>3, <1>4, Zenon DEF OutputInv
  <1>12. /\ isMapDone' /\ MapsDone(mapTask') /\ adding' = {}
         /\ \A c \in Bucket, f \in File : reduceTask'[c][f] # "absent" => c \in Emits[f]
         /\ \A r \in reduceRecover' : Whole(r)
         /\ \A v \in Worker : pc'[v] \in {"reduce", "reduced"} => Whole(task'[v])
    BY <1>2, <1>5, <1>7, Zenon DEF OutputInv
  <1> QED
    BY <1>8, <1>9, <1>10, <1>11, <1>12, Zenon DEF OutputInv

\* The last report: no file was forgotten, so every bucket with keys was written.
LEMMA FinishReduceOutput ==
    ASSUME TypeOK, OutputInv, NoFileForgotten', NEW w \in Worker, FinishReduce(w)
    PROVE  OutputInv'
  <1> DEFINE t == task[w]
  <1>1. t.TaskId \in Bucket /\ Whole(t) /\ Written(t.TaskId)
    BY Zenon DEF TypeOK, ReduceTask, OutputInv, FinishReduce
  <1>2. isMapDone /\ adding = {}
    BY Registered, Zenon DEF FinishReduce, Unregistered
  <1>3. /\ UNCHANGED <<mapTask, isMapDone, adding, reduceRecover, task, out>>
        /\ isReduceDone' = (isReduceDone \/ ReducesDone(reduceTask'))
        /\ reduced' = reduced \cup ({t.TaskId} \X t.files)
        /\ reduceTask' = [reduceTask EXCEPT ![t.TaskId] = Deleted(@, t)]
    BY Zenon DEF FinishReduce
  <1>4. \A v \in Worker : SameTask(v)
    BY <1>3, ReplyTask, Zenon DEF FinishReduce
  <1>5. \A b \in Bucket : Written(b) <=> Written(b)'
    BY <1>3, Zenon DEF Written
  <1>6. \A p \in reduced' : p[1] \in Bucket /\ Written(p[1])'
    <2> SUFFICES ASSUME NEW p \in reduced' PROVE p[1] \in Bucket /\ Written(p[1])
      BY <1>5, Zenon
    <2>1. CASE p \in reduced
      BY <2>1 DEF OutputInv, TypeOK
    <2>2. CASE p \in {t.TaskId} \X t.files
      <3>1. p[1] = t.TaskId
        BY <2>2
      <3> QED
        BY <1>1, <3>1
    <2> QED
      BY <1>3, <2>1, <2>2, Zenon
  <1>7. ASSUME ReducesDone(reduceTask'), NEW b \in Bucket PROVE Written(b)'
    <2>1. CASE Sequential(b) = {}
      <3>1. out[b] = {} \/ Written(b)
        BY Zenon DEF OutputInv
      <3> QED
        BY <1>5, <2>1, <3>1, Zenon DEF Written
    <2>2. CASE Sequential(b) # {}
      <3>1. PICK f \in File : b \in Emits[f]
        BY <2>2, Zenon DEF Sequential
      <3>2. mapTask'[f] = "absent"
        BY <1>2, <1>3, Zenon DEF OutputInv, MapsDone
      <3>3. <<b, f>> \in reduced'
        BY <1>2, <1>3, <1>7, <3>1, <3>2, Zenon DEF NoFileForgotten, ReducesDone
      <3> QED
        BY <1>6, <3>3
    <2> QED
      BY <2>1, <2>2
  <1>8. OutputComplete'
    <2> SUFFICES ASSUME isReduceDone', NEW b \in Bucket PROVE Written(b)'
      BY Zenon DEF OutputComplete, Written
    <2>1. isReduceDone => Written(b)
      BY Zenon DEF OutputInv, OutputComplete, Written
    <2> QED
      BY <1>3, <1>5, <1>7, <2>1, Zenon
  <1>9. \A c \in Bucket, f \in File : reduceTask'[c][f] # "absent" => reduceTask[c][f] # "absent"
    BY <1>1, <1>3 DEF Deleted, Marked, TypeOK
  <1>10. /\ isMapDone' /\ MapsDone(mapTask') /\ adding' = {}
         /\ \A c \in Bucket, f \in File : reduceTask'[c][f] # "absent" => c \in Emits[f]
         /\ \A r \in reduceRecover' : Whole(r)
         /\ \A v \in Worker : pc'[v] \in {"reduce", "reduced"} => Whole(task'[v])
         /\ \A b \in Bucket : out'[b] = {} \/ Written(b)'
    BY <1>2, <1>3, <1>4, <1>5, <1>9, Zenon DEF OutputInv, SameTask
  <1>11. \A v \in Worker : pc'[v] = "reduced" => Written(task[v].TaskId)'
    BY <1>3, <1>4, Zenon DEF OutputInv, SameTask, Written
  <1> QED
    BY <1>6, <1>8, <1>10, <1>11, Zenon DEF OutputInv
\* A reduce task that waits again had the only file.
LEMMA RecoverReduceOutput ==
    ASSUME TypeOK, OutputInv, NEW t \in reduceRecover, RecoverReduce(t)
    PROVE  OutputInv'
  <1>1. t.TaskId \in Bucket /\ Whole(t)
    BY DEF TypeOK, ReduceTask, OutputInv
  <1>2. isMapDone /\ adding = {}
    BY Registered, Zenon DEF Unregistered
  <1>3. /\ UNCHANGED <<mapTask, isMapDone, isReduceDone, adding, pc, task, out, reduced>>
        /\ reduceRecover' \subseteq reduceRecover
    BY Zenon DEF RecoverReduce
  <1>4. \A c \in Bucket, f \in File : reduceTask'[c][f] # "absent" => c \in Emits[f]
    <2> SUFFICES ASSUME NEW c \in Bucket, NEW f \in File, reduceTask'[c][f] # "absent"
                 PROVE  c \in Emits[f]
      OBVIOUS
    <2>1. reduceTask[c][f] # "absent" \/ (c = t.TaskId /\ f \in t.files)
      BY <1>1 DEF RecoverReduce, Reissued, Marked, TypeOK
    <2>2. f \in t.files => t.TaskId \in Emits[f]
      BY <1>1, Zenon DEF Whole, Sequential
    <2> QED
      BY <2>1, <2>2, Zenon DEF OutputInv
  <1>5. \A b \in Bucket : Written(b) <=> Written(b)'
    BY <1>3, Zenon DEF Written
  <1>6. /\ \A v \in Worker : pc'[v] = "reduced" => Written(task[v].TaskId)'
        /\ \A p \in reduced' : Written(p[1])'
        /\ OutputComplete'
    BY <1>3, Zenon DEF OutputInv, Written, OutputComplete
  <1>7. /\ isMapDone' /\ MapsDone(mapTask') /\ adding' = {}
        /\ \A r \in reduceRecover' : Whole(r)
        /\ \A v \in Worker : pc'[v] \in {"reduce", "reduced"} => Whole(task'[v])
        /\ \A b \in Bucket : out'[b] = {} \/ Written(b)'
    BY <1>2, <1>3, <1>5, Zenon DEF OutputInv
  <1> QED
    BY <1>4, <1>6, <1>7, Zenon DEF OutputInv

\* Every step of a job with one file keeps the invariant.
LEMMA NextOutput ==
    ASSUME \A f, g \in File : f = g, TypeOK, OutputInv, NoFileForgotten', [Next]_vars
    PROVE  OutputInv'
  <1>1. ASSUME NEW w \in Worker, GetMapTask(w) PROVE OutputInv'
    <2>1. ~MapsDone(mapTask)
      BY <1>1, Zenon DEF GetMapTask, OutputInv
    <2>2. ~MapsDone(mapTask')
      BY <1>1 DEF GetMapTask, MapsDone, TypeOK
    <2>3. \A v \in Worker : SameTask(v)
      BY <1>1 DEF GetMapTask, SameTask, TypeOK
    <2> QED
      BY <1>1, <2>1, <2>2, <2>3, OutputKept, Zenon DEF GetMapTask
  <1>2. ASSUME NEW w \in Worker,
               NoMapTask(w) \/ NoTask(w) \/ FailReduce(w) \/ LoseMaster(w) \/ Crash(w)
        PROVE OutputInv'
    <2>1. \A v \in Worker : SameTask(v)
      BY <1>2 DEF NoMapTask, NoTask, FailReduce, LoseMaster, Crash, SameTask, TypeOK
    <2> QED
      BY <1>2, <2>1, OutputKept, Zenon
      DEF NoMapTask, NoTask, FailReduce, LoseMaster, Crash, masterVars
  <1>3. ASSUME NEW w \in Worker, WakeUp(w) \/ FailMap(w) PROVE OutputInv'
    <2>1. \A v \in Worker : SameTask(v)
      BY <1>3, ReplyTask, Zenon DEF WakeUp, FailMap
    <2> QED
      BY <1>3, <2>1, OutputKept, Zenon DEF WakeUp, FailMap, masterVars
  <1>4. ASSUME NEW f \in mapRecover, RecoverMap(f) PROVE OutputInv'
    <2>1. MapsDone(mapTask') <=> MapsDone(mapTask)
      BY <1>4 DEF RecoverMap, Again, MapsDone, TypeOK, Status
    <2> QED
      BY <1>4, <2>1, OutputKept, Zenon DEF RecoverMap, SameTask
  <1>5. CASE Done \/ UNCHANGED vars
    BY <1>5, OutputKept, Zenon DEF Done, vars, masterVars, SameTask
  <1> QED
    BY <1>1, <1>2, <1>3, <1>4, <1>5, FinishMapOutput, AddReduceTasksOutput,
       GetReduceTaskOutput, doReduceOutput, FinishReduceOutput, RecoverReduceOutput, Zenon
    DEF Next

\* The output of a job with one input file is the sequential program's when the
\* master declares it done, for any number of buckets, slow or crashing workers and
\* tasks given out twice.  With two files it is not (run mr_output): isMapDone is set
\* before the last files are registered (master.go:150-180).
THEOREM OneFileOutput ==
    ASSUME \A f, g \in File : f = g
    PROVE  Spec => []OutputComplete
  <1>1. Init => OutputInv
    <2> SUFFICES ASSUME Init PROVE OutputInv
      OBVIOUS
    <2>1. isMapDone = FALSE /\ isReduceDone = FALSE /\ ~MapsDone(mapTask)
      BY JobAssumption DEF Init, MapsDone
    <2>2. \A w \in Worker : pc[w] \notin {"reduce", "reduced"}
      BY DEF Init
    <2>3. \A b \in Bucket : reduceBucket[b] = "absent" /\ out[b] = {}
      BY DEF Init
    <2>4. \A b \in Bucket, f \in File : reduceTask[b][f] = "absent"
      BY DEF Init
    <2>5. adding = {} /\ reduceRecover = {} /\ reduced = {}
      BY DEF Init
    <2>6. Unregistered
      BY <2>1, <2>2, <2>3, <2>4, <2>5 DEF Unregistered
    <2>7. OutputComplete
      BY <2>1 DEF OutputComplete
    <2> QED
      BY <2>1, <2>2, <2>3, <2>4, <2>5, <2>6, <2>7 DEF OutputInv
  <1>2. TypeOK /\ NoFileForgotten' /\ OutputInv /\ [Next]_vars => OutputInv'
    BY NextOutput, Zenon
  <1>3. OutputInv => OutputComplete
    BY Zenon DEF OutputInv
  <1> QED
    BY <1>1, <1>2, <1>3, TypeCorrect, NothingForgotten, PTL DEF Spec
=============================================================================
