----------------------------- MODULE MapReduce -----------------------------
(***************************************************************************)
(* The MapReduce job of mr/master.go and mr/worker.go: one master, its RPC *)
(* handlers and recoverRequest goroutines, and the worker processes.       *)
(*                                                                         *)
(* One action is one critical section of mapTaskLock or reduceTaskLock     *)
(* with the code next to it.  GetTask and TaskFinished take both locks one *)
(* after the other, so each of them is two actions.  The 10 s after which  *)
(* recoverRequest looks at a task may pass at any moment: workers have any *)
(* speed.                                                                  *)
(***************************************************************************)
EXTENDS Integers, FiniteSets

CONSTANTS
    File,             \* the input files; task number X stands for its file
    nReduce,          \* number of buckets
    Emits,            \* Emits[f]: the buckets that mapf's keys for f fall into
    Worker,
    MaxMapErrors,     \* bound: doMap calls that fail
    MaxReduceErrors,  \* bound: doReduce calls that fail
    MaxCrashes        \* bound: workers that die

Bucket == 1..nReduce

ASSUME JobAssumption ==
    /\ IsFiniteSet(File) /\ File # {}
    /\ nReduce \in Nat \ {0}
    /\ Emits \in [File -> SUBSET Bucket]
    /\ {MaxMapErrors, MaxReduceErrors, MaxCrashes} \subseteq Nat

VARIABLES
    mapTask,       \* "waiting" (a positive number), "assigned" (negative), "absent"
    reduceTask,    \* the same for each intermediate file mr-X-Y, by Y and X
    reduceBucket,  \* "waiting" (true), "assigned" (false), "absent"
    isMapDone, isReduceDone,
    master,        \* the master process: "up", "done", "panic"
    adding,        \* TaskFinished handlers between their two critical sections
    mapRecover,    \* recoverRequest goroutines: files,
    reduceRecover, \* and reduce tasks
    pc,            \* what each worker is doing
    file,          \* its map task
    task,          \* its reduce task
    out,           \* contents of mr-out-Y: the files whose pairs went into it
    reduced,       \* history: <<Y, X>> reported as reduced
    mapErrors, reduceErrors, crashes

masterVars == <<mapTask, reduceTask, reduceBucket, isMapDone, isReduceDone>>
bounds     == <<mapErrors, reduceErrors, crashes>>
vars == <<masterVars, master, adding, mapRecover, reduceRecover, pc, file, task,
          out, reduced, bounds>>

Status == {"waiting", "assigned", "absent"}

\* []*AssignTask of a reduce task: its bucket and the files to read.
ReduceTask == [TaskId: Bucket, files: SUBSET File]

-----------------------------------------------------------------------------
(* GetTask.                                                                *)

\* Under mapTaskLock: a waiting map task is assigned, and a goroutine is started
\* that will look after it.
GetMapTask(w) ==
    /\ master = "up" /\ pc[w] = "idle"
    /\ ~isMapDone
    /\ \E f \in File :
         /\ mapTask[f] = "waiting"
         /\ mapTask' = [mapTask EXCEPT ![f] = "assigned"]
         /\ mapRecover' = mapRecover \cup {f}
         /\ file' = [file EXCEPT ![w] = f]
    /\ pc' = [pc EXCEPT ![w] = "map"]
    /\ UNCHANGED <<reduceTask, reduceBucket, isMapDone, isReduceDone, master, adding,
                   reduceRecover, task, out, reduced, bounds>>

\* No map task to give: the handler goes on to the reduce tasks.
NoMapTask(w) ==
    /\ master = "up" /\ pc[w] = "idle"
    /\ isMapDone \/ \A f \in File : mapTask[f] # "waiting"
    /\ pc' = [pc EXCEPT ![w] = "asking"]
    /\ UNCHANGED <<masterVars, master, adding, mapRecover, reduceRecover, file, task,
                   out, reduced, bounds>>

\* Mutation of Marked: the other files of the bucket are dropped.
MarkedOnly(tasks, files, status) == [f \in files |-> status]

\* The tasks of a bucket with the given files marked.
Marked(tasks, files, status) ==
    [f \in File |-> IF f \in files THEN status ELSE tasks[f]]

Waiting(b) == {f \in File : reduceTask[b][f] = "waiting"}

\* Under reduceTaskLock: a waiting bucket is assigned with the files registered
\* for it that are waiting, and a goroutine will look after it.
GetReduceTask(w) == \E b \in Bucket :
    LET t == [TaskId |-> b, files |-> Waiting(b)]
    IN /\ master = "up" /\ pc[w] = "asking"
       /\ isMapDone
       /\ reduceBucket[b] = "waiting"
       /\ reduceBucket' = [reduceBucket EXCEPT ![b] = "assigned"]
       /\ reduceTask' = [reduceTask EXCEPT ![b] = Marked(@, t.files, "assigned")]
       /\ \/ /\ t.files # {}
             /\ reduceRecover' = reduceRecover \cup {t}
             /\ task' = [task EXCEPT ![w] = t]
             /\ pc' = [pc EXCEPT ![w] = "reduce"]
          \/ /\ t.files = {}
             /\ pc' = [pc EXCEPT ![w] = "sleep"]
             /\ UNCHANGED <<reduceRecover, task>>
       /\ UNCHANGED <<mapTask, isMapDone, isReduceDone, master, adding, mapRecover,
                      file, out, reduced, bounds>>

\* Nothing to give: NO_TASK.
NoTask(w) ==
    /\ master = "up" /\ pc[w] = "asking"
    /\ ~isMapDone \/ \A b \in Bucket : reduceBucket[b] # "waiting"
    /\ pc' = [pc EXCEPT ![w] = "sleep"]
    /\ UNCHANGED <<masterVars, master, adding, mapRecover, reduceRecover, file, task,
                   out, reduced, bounds>>

-----------------------------------------------------------------------------
(* TaskFinished, and the work it reports.                                  *)

\* The end of TaskFinished: CanExit tells the worker whether to go on.
Reply(w, done) ==
    pc' = [pc EXCEPT ![w] = IF pc[w] = "dead" THEN "dead"
                            ELSE IF done THEN "exit" ELSE "idle"]

\* No map task is left.
MapsDone(tasks) == \A f \in File : tasks[f] = "absent"

\* Mutation of ReducesDone: tasks given out count as done.
ReducesGivenOut(tasks) == \A b \in Bucket, f \in File : tasks[b][f] # "waiting"

\* No reduce task is left.
ReducesDone(tasks) == \A b \in Bucket, f \in File : tasks[b][f] = "absent"

\* Mutation of Deleted: every file of the bucket is deleted.
DeletedByBucket(tasks, t) == Marked(tasks, File, "absent")

\* The tasks of a bucket without the files of a report.
Deleted(tasks, t) == Marked(tasks, t.files, "absent")

\* SLEEP_TASK.
WakeUp(w) ==
    /\ master = "up" /\ pc[w] = "sleep"
    /\ Reply(w, isReduceDone)
    /\ UNCHANGED <<masterVars, master, adding, mapRecover, reduceRecover, file, task,
                   out, reduced, bounds>>

\* The worker has run doMap and reports MAP_TASK: under mapTaskLock the task is
\* deleted.  When the map phase is over already the report is ignored.
FinishMap(w) ==
    /\ master = "up" /\ pc[w] = "map"
    /\ \/ /\ isMapDone
          /\ Reply(w, isReduceDone)
          /\ UNCHANGED <<mapTask, isMapDone, adding>>
       \/ /\ ~isMapDone
          /\ mapTask' = [mapTask EXCEPT ![file[w]] = "absent"]
          /\ isMapDone' = MapsDone(mapTask')
          /\ adding' = adding \cup {<<w, file[w]>>}
          /\ pc' = [pc EXCEPT ![w] = "reporting"]
    /\ UNCHANGED <<reduceTask, reduceBucket, isReduceDone, master, mapRecover,
                   reduceRecover, file, task, out, reduced, bounds>>

\* The rest of the handler, under reduceTaskLock: the intermediate files are
\* registered.  It runs even if the worker has died.
AddReduceTasks(w) == \E f \in File :
    /\ master = "up" /\ <<w, f>> \in adding
    /\ adding' = adding \ {<<w, f>>}
    /\ reduceBucket' = [b \in Bucket |-> IF b \in Emits[f] THEN "waiting"
                                         ELSE reduceBucket[b]]
    /\ reduceTask' = [b \in Bucket |-> IF b \in Emits[f]
                                       THEN [reduceTask[b] EXCEPT ![f] = "waiting"]
                                       ELSE reduceTask[b]]
    /\ Reply(w, isReduceDone)
    /\ UNCHANGED <<mapTask, isMapDone, isReduceDone, master, mapRecover,
                   reduceRecover, file, task, out, reduced, bounds>>

\* doMap fails and returns no tasks, so MAP_TASK_FAIL has nothing to put back.
FailMap(w) ==
    /\ master = "up" /\ pc[w] = "map"
    /\ mapErrors < MaxMapErrors
    /\ mapErrors' = mapErrors + 1
    /\ Reply(w, isReduceDone)
    /\ UNCHANGED <<masterVars, master, adding, mapRecover, reduceRecover, file, task,
                   out, reduced, reduceErrors, crashes>>

\* doReduce: the output file appears under its name at once.
doReduce(w) ==
    /\ pc[w] = "reduce"
    /\ out' = [out EXCEPT ![task[w].TaskId] = task[w].files]
    /\ pc' = [pc EXCEPT ![w] = "reduced"]
    /\ UNCHANGED <<masterVars, master, adding, mapRecover, reduceRecover, file, task,
                   reduced, bounds>>

\* REDUCE_TASK: the bucket and the files of the report are deleted.
FinishReduce(w) ==
    LET t == task[w]
    IN /\ master = "up" /\ pc[w] = "reduced"
       /\ reduceBucket' = [reduceBucket EXCEPT ![t.TaskId] = "absent"]
       /\ reduceTask' = [reduceTask EXCEPT ![t.TaskId] = Deleted(@, t)]
       /\ isReduceDone' = (isReduceDone \/ ReducesDone(reduceTask'))
       /\ reduced' = reduced \cup ({t.TaskId} \X t.files)
       /\ Reply(w, isReduceDone')
       /\ UNCHANGED <<mapTask, isMapDone, master, adding, mapRecover, reduceRecover,
                      file, task, out, bounds>>

\* doReduce fails and returns no tasks: REDUCE_TASK_FAIL indexes an empty slice.
FailReduce(w) ==
    /\ master = "up" /\ pc[w] = "reduce"
    /\ reduceErrors < MaxReduceErrors
    /\ reduceErrors' = reduceErrors + 1
    /\ master' = "panic"
    /\ UNCHANGED <<masterVars, adding, mapRecover, reduceRecover, pc, file, task, out,
                   reduced, mapErrors, crashes>>

-----------------------------------------------------------------------------
(* recoverRequest, the processes.                                          *)

\* Mutation of Again: without the test.
AgainAlways(status) == "waiting"

\* A map task that is still in the table waits again.
Again(status) == IF status = "absent" THEN status ELSE "waiting"

\* Mutation of Reissued: only the bucket is put back.
ReissuedBucket(tasks, t) == tasks

\* The files of a reduce task wait again.
Reissued(tasks, t) == Marked(tasks, t.files, "waiting")

\* The time of a map task is up: if it is still in the table it waits again.
RecoverMap(f) ==
    /\ master = "up" /\ f \in mapRecover
    /\ mapRecover' = mapRecover \ {f}
    /\ mapTask' = [mapTask EXCEPT ![f] = Again(@)]
    /\ UNCHANGED <<reduceTask, reduceBucket, isMapDone, isReduceDone, master, adding,
                   reduceRecover, pc, file, task, out, reduced, bounds>>

\* The time of a reduce task is up: if its bucket is still in the table, bucket
\* and files wait again.
RecoverReduce(t) ==
    /\ master = "up" /\ t \in reduceRecover
    /\ reduceRecover' = reduceRecover \ {t}
    /\ \/ /\ reduceBucket[t.TaskId] # "absent"
          /\ reduceBucket' = [reduceBucket EXCEPT ![t.TaskId] = "waiting"]
          /\ reduceTask' = [reduceTask EXCEPT ![t.TaskId] = Reissued(@, t)]
       \/ /\ reduceBucket[t.TaskId] = "absent"
          /\ UNCHANGED <<reduceBucket, reduceTask>>
    /\ UNCHANGED <<mapTask, isMapDone, isReduceDone, master, adding, mapRecover, pc,
                   file, task, out, reduced, bounds>>

\* mrmaster's loop finds Done() true and the process ends.
Done ==
    /\ master = "up" /\ isReduceDone
    /\ master' = "done"
    /\ UNCHANGED <<masterVars, adding, mapRecover, reduceRecover, pc, file, task, out,
                   reduced, bounds>>

\* A worker whose call fails because the master is gone ends.
LoseMaster(w) ==
    /\ master # "up" /\ pc[w] \notin {"reduce", "exit", "dead"}
    /\ pc' = [pc EXCEPT ![w] = "exit"]
    /\ UNCHANGED <<masterVars, master, adding, mapRecover, reduceRecover, file, task,
                   out, reduced, bounds>>

\* A worker process dies (mrapps/crash.go does it inside mapf and reducef).
Crash(w) ==
    /\ crashes < MaxCrashes /\ pc[w] \notin {"exit", "dead"}
    /\ crashes' = crashes + 1
    /\ pc' = [pc EXCEPT ![w] = "dead"]
    /\ UNCHANGED <<masterVars, master, adding, mapRecover, reduceRecover, file, task,
                   out, reduced, mapErrors, reduceErrors>>

-----------------------------------------------------------------------------

\* MakeMaster, and workers that have not asked yet.
Init ==
    /\ mapTask = [f \in File |-> "waiting"]
    /\ reduceTask = [b \in Bucket |-> [f \in File |-> "absent"]]
    /\ reduceBucket = [b \in Bucket |-> "absent"]
    /\ isMapDone = FALSE /\ isReduceDone = FALSE
    /\ master = "up"
    /\ adding = {} /\ mapRecover = {} /\ reduceRecover = {}
    /\ pc = [w \in Worker |-> "idle"]
    /\ file = [w \in Worker |-> CHOOSE f \in File : TRUE]
    /\ task = [w \in Worker |-> [TaskId |-> 1, files |-> {}]]
    /\ out = [b \in Bucket |-> {}]
    /\ reduced = {}
    /\ mapErrors = 0 /\ reduceErrors = 0 /\ crashes = 0

\* What a live worker, and the handlers it calls, go on doing.
Work(w) ==
    \/ GetMapTask(w) \/ NoMapTask(w) \/ GetReduceTask(w) \/ NoTask(w)
    \/ WakeUp(w) \/ FinishMap(w) \/ doReduce(w) \/ FinishReduce(w)
    \/ LoseMaster(w)

Next ==
    \/ \E w \in Worker :
          \/ GetMapTask(w) \/ NoMapTask(w) \/ GetReduceTask(w) \/ NoTask(w)
          \/ WakeUp(w) \/ FinishMap(w) \/ AddReduceTasks(w) \/ FailMap(w)
          \/ doReduce(w) \/ FinishReduce(w) \/ FailReduce(w)
          \/ LoseMaster(w) \/ Crash(w)
    \/ \E f \in mapRecover : RecoverMap(f)
    \/ \E t \in reduceRecover : RecoverReduce(t)
    \/ Done

Spec == Init /\ [][Next]_vars

\* Go runs every goroutine that can run, a sleep ends, a worker that has not died
\* goes on.  Nothing is assumed of failures.
Fairness ==
    /\ \A w \in Worker : WF_vars(Work(w)) /\ WF_vars(AddReduceTasks(w))
    /\ \A f \in File : WF_vars(RecoverMap(f))
    /\ \A t \in ReduceTask : WF_vars(RecoverReduce(t))
    /\ WF_vars(Done)

FairSpec == Spec /\ Fairness

-----------------------------------------------------------------------------

\* The type of every variable: what master.go and worker.go may store in it.
TypeOK ==
    /\ mapTask \in [File -> Status]
    /\ reduceTask \in [Bucket -> [File -> Status]]
    /\ reduceBucket \in [Bucket -> Status]
    /\ isMapDone \in BOOLEAN /\ isReduceDone \in BOOLEAN
    /\ master \in {"up", "done", "panic"}
    /\ adding \subseteq Worker \X File
    /\ mapRecover \subseteq File
    /\ reduceRecover \subseteq ReduceTask
    /\ pc \in [Worker -> {"idle", "asking", "sleep", "map", "reporting", "reduce",
                          "reduced", "exit", "dead"}]
    /\ file \in [Worker -> File]
    /\ task \in [Worker -> ReduceTask]
    /\ out \in [Bucket -> SUBSET File]
    /\ reduced \subseteq Bucket \X File
    /\ mapErrors \in 0..MaxMapErrors
    /\ reduceErrors \in 0..MaxReduceErrors
    /\ crashes \in 0..MaxCrashes

\* A map task that was reported finished is never given out again, whatever
\* recoverRequest goroutines and slow workers are still about
\* (master.go:154 and 239-250).
FinishedMapStays ==
    [][\A f \in File : mapTask[f] = "absent" => mapTask'[f] = "absent"]_vars

\* No intermediate file is forgotten: one that a finished map task wrote is being
\* registered, or is in the table, or was part of a reduce task some worker
\* reported (master.go:159-180, 187-191, 254-261).
NoFileForgotten ==
    \A f \in File : mapTask[f] = "absent" =>
        \A b \in Emits[f] :
            \/ \E w \in Worker : <<w, f>> \in adding
            \/ reduceTask[b][f] # "absent"
            \/ <<b, f>> \in reduced

\* The sequential program that the results are compared with: all files are mapped,
\* then every key is reduced once.  Its output for the keys of a bucket comes from
\* all the files that emit some of them.
Sequential(b) == {f \in File : b \in Emits[f]}

\* When the master declares the job done, every output file was made from the same
\* map results as the sequential program's output ("reduce 任务已完成, 可以结束进程",
\* master.go:287; test-mr.sh compares the two).
OutputComplete ==
    isReduceDone => \A b \in Bucket : out[b] = Sequential(b)

\* The job ends: Done() becomes true ("find out if the entire job has finished",
\* master.go:281-282).
Termination == <>(master = "done")
=============================================================================
