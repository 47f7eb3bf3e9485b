---------------------------- MODULE TaskAnalyser ----------------------------
(***************************************************************************)
(* The Task Analyser: how tasks, in the order the Access Processor thread  *)
(* receives them, become a graph of data dependencies, and what the end of *)
(* a task and the synchronisations of the main programs do to it.  Every   *)
(* operator below is one call the Access Processor thread makes; the       *)
(* module has no next-state relation of its own: AccessProcessor composes  *)
(* these calls with the queues and the threads.                            *)
(*                                                                         *)
(* A task's parameters are a sequence of [datum, mode]; a version of a     *)
(* datum is its number in the registry (1 is the value the datum had       *)
(* before any task).  A semaphore is represented by the thread that waits  *)
(* on it.  Abstracted: the drawing of the graph, profiling counts, forced  *)
(* resources, and the readers and writers of each version with the result  *)
(* files, which are the subject of DataInfoProvider.                       *)
(***************************************************************************)
EXTENDS Integers, Sequences, FiniteSets

CONSTANTS
    Apps,       \* applications, each with one main program (thread)
    Data,       \* files and objects
    MaxTasks    \* bound on the tasks generated

ASSUME MaxTasksAssumption == MaxTasks \in Nat
ASSUME FiniteAssumption == IsFiniteSet(Apps) /\ IsFiniteSet(Data)

VARIABLES
    \* the Task objects, shared by the Access Processor and the Task Dispatcher
    tasks,      \* descriptions of the tasks created, in creation order
    status,     \* Task.status
    execCount,  \* Task.executionCount: executions that have not ended
    preds,      \* Task.predecessors, a LinkedList
    removals,   \* removals made from Task.predecessors (its modCount, up to a constant)
    succs,      \* Task.successors
    reads,      \* versions read by the task, set when it is analysed
    \* the state of the TaskAnalyser
    version,    \* current version of each datum in the registry, 0 when unknown
    writers,    \* TaskAnalyser.writers: last task that writes a datum
    taskCount,  \* appIdToTaskCount, a HashMap: tasks of an application not ended
    semaphore,  \* appIdToSemaphore: applications stopped at a barrier or at the end
    barrierFlags, \* appIdBarrierFlags
    waited,     \* waitedTasks: the threads waiting for a task
    permits     \* threads whose semaphore has been released

taskVars == <<tasks, status, execCount, preds, removals, succs, reads>>
analyserVars == <<version, writers, taskCount, semaphore, barrierFlags, waited, permits>>

Task == 1 .. MaxTasks
NoTask == 0
Created == DOMAIN tasks

Modes == {"R", "W", "RW"}
Parameter == [datum : Data, mode : Modes]

\* The k-th of a set of indexes, and the elements of s at those indexes, in their order.
Place(indexes, k) == CHOOSE i \in indexes : Cardinality({j \in indexes : j <= i}) = k
Subsequence(s, indexes) == [k \in 1 .. Cardinality(indexes) |-> s[Place(indexes, k)]]

-----------------------------------------------------------------------------
AnalyserTypeOK ==
    /\ \A t \in Created :
          /\ tasks[t].app \in Apps
          /\ tasks[t].params \in Seq(Parameter)
          /\ tasks[t].copies \in Nat \ {0}
    /\ Created \subseteq Task
    /\ status \in [Task -> {"TO_ANALYSE", "TO_EXECUTE", "FINISHED"}]
    /\ execCount \in [Task -> Int]
    /\ preds \in [Task -> Seq(Task)]
    /\ removals \in [Task -> Nat]
    /\ succs \in [Task -> Seq(Task)]
    /\ reads \in [Task -> SUBSET (Data \X Nat)]
    /\ version \in [Data -> Nat]
    /\ writers \in [Data -> Task \cup {NoTask}]
    /\ DOMAIN taskCount \subseteq Apps /\ \A a \in DOMAIN taskCount : taskCount[a] \in Int
    /\ semaphore \subseteq Apps
    /\ barrierFlags \subseteq Apps
    /\ waited \in [Task -> SUBSET Apps]
    /\ permits \subseteq Apps

AnalyserInit ==
    /\ tasks = << >>
    /\ status = [t \in Task |-> "TO_ANALYSE"]
    /\ execCount = [t \in Task |-> 0]
    /\ preds = [t \in Task |-> << >>]
    /\ removals = [t \in Task |-> 0]
    /\ succs = [t \in Task |-> << >>]
    /\ reads = [t \in Task |-> {}]
    /\ version = [d \in Data |-> 0]
    /\ writers = [d \in Data |-> NoTask]
    /\ taskCount = << >>
    /\ semaphore = {}
    /\ barrierFlags = {}
    /\ waited = [t \in Task |-> {}]
    /\ permits = {}

-----------------------------------------------------------------------------
(* The accesses of a sequence of parameters.                               *)

\* The parameters before the i-th that write the datum of the i-th.
EarlierWrites(params, i) ==
    {j \in 1 .. i - 1 : params[j].datum = params[i].datum /\ params[j].mode # "R"}

\* The version of d in the registry, which the first access to d creates.
Registered(d) == IF version[d] = 0 THEN 1 ELSE version[d]

\* DataInfoProvider.willAccess: a read takes the current version, a write makes the next.
VersionsRead(params) ==
    {<<params[i].datum, Registered(params[i].datum) + Cardinality(EarlierWrites(params, i))>> :
        i \in {j \in DOMAIN params : params[j].mode # "W"}}

\* Mutant: an INOUT parameter makes no new version.
VersionAfterFault(params, d) ==
    IF \E i \in DOMAIN params : params[i].datum = d
    THEN Registered(d) + Cardinality({i \in DOMAIN params : params[i].datum = d /\ params[i].mode = "W"})
    ELSE version[d]

VersionAfter(params, d) ==
    IF \E i \in DOMAIN params : params[i].datum = d
    THEN Registered(d) + Cardinality({i \in DOMAIN params : params[i].datum = d /\ params[i].mode # "R"})
    ELSE version[d]

\* Mutant: an INOUT parameter is treated as an OUT one.
DependsOnWriterFault(params, i) ==
    /\ params[i].mode = "R"
    /\ writers[params[i].datum] # NoTask
    /\ EarlierWrites(params, i) = {}

\* Mutant: data that no task has written are not told apart.
DependsOnNobodyFault(params, i) ==
    /\ params[i].mode # "W"
    /\ EarlierWrites(params, i) = {}

\* checkDependencyForRead: the i-th parameter makes its last writer a predecessor,
\* unless that is the main program or the task itself.
DependsOnWriter(params, i) ==
    /\ params[i].mode # "W"
    /\ writers[params[i].datum] # NoTask
    /\ EarlierWrites(params, i) = {}

\* The predecessors the parameters give a task: a writer appears once for each datum
\* that is read from it.
Predecessors(params) ==
    Subsequence([i \in DOMAIN params |-> writers[params[i].datum]],
                {i \in DOMAIN params : DependsOnWriter(params, i)})

\* registerOutputValues: t becomes the last writer of the data it writes.
RegisterOutputValues(t) ==
    [d \in Data |-> IF \E i \in DOMAIN tasks[t].params :
                          tasks[t].params[i].datum = d /\ tasks[t].params[i].mode # "R"
                    THEN t ELSE writers[d]]

-----------------------------------------------------------------------------
(* The requests.                                                           *)

\* Mutant: the count of an application already known is not found.
CountOfFault(a) == 0

CountOf(a) == IF a \in DOMAIN taskCount THEN taskCount[a] ELSE 0
PutCount(a, n) == [b \in DOMAIN taskCount \cup {a} |-> IF b = a THEN n ELSE taskCount[b]]
RemoveCount(a) == [b \in DOMAIN taskCount \ {a} |-> taskCount[b]]

Occurrences(s, x) == {i \in DOMAIN s : s[i] = x}
Without(s, x) == Subsequence(s, DOMAIN s \ Occurrences(s, x))

\* processTask: count the task, register its accesses and its dependencies.
ProcessTask(t) ==
    LET params == tasks[t].params
        newPreds == Predecessors(params)
    IN  /\ taskCount' = PutCount(tasks[t].app, CountOf(tasks[t].app) + 1)
        /\ reads' = [reads EXCEPT ![t] = VersionsRead(params)]
        /\ version' = [d \in Data |-> VersionAfter(params, d)]
        /\ writers' = RegisterOutputValues(t)
        /\ preds' = [preds EXCEPT ![t] = newPreds]
        /\ succs' = [s \in Task |->
                        succs[s] \o [i \in 1 .. Cardinality(Occurrences(newPreds, s)) |-> t]]
        /\ UNCHANGED <<tasks, status, execCount, removals, semaphore, barrierFlags, waited, permits>>

\* Mutant: the successors are kept.
ReleaseDataDependentsFault(t) ==
    /\ preds' = [s \in Task |-> IF Occurrences(succs[t], s) = {} THEN preds[s]
                                ELSE Without(preds[s], t)]
    /\ removals' = [s \in Task |-> removals[s] + Cardinality(Occurrences(succs[t], s))]
    /\ UNCHANGED succs

\* Task.releaseDataDependents: t leaves the predecessors of each of its successors.  A
\* successor listed n times has t n times among its predecessors.
ReleaseDataDependents(t) ==
    /\ preds' = [s \in Task |-> IF Occurrences(succs[t], s) = {} THEN preds[s]
                                ELSE Without(preds[s], t)]
    /\ removals' = [s \in Task |-> removals[s] + Cardinality(Occurrences(succs[t], s))]
    /\ succs' = [succs EXCEPT ![t] = << >>]

IsFree(t) == execCount[t] = 0

\* Mutant: the barrier is released while one task is left.
ReleaseAppFault(a, n) ==
    LET stopped == n <= 1 /\ a \in semaphore
    IN  /\ taskCount' = IF stopped THEN RemoveCount(a) ELSE PutCount(a, n)
        /\ barrierFlags' = IF n <= 1 THEN barrierFlags \ {a} ELSE barrierFlags
        /\ semaphore' = IF stopped THEN semaphore \ {a} ELSE semaphore

\* The count of the application's tasks after one of them ends.  At zero, whoever waits
\* for it is released and forgotten; otherwise nobody is.
ReleaseApp(a, n) ==
    LET stopped == n = 0 /\ a \in semaphore
    IN  /\ taskCount' = IF stopped THEN RemoveCount(a) ELSE PutCount(a, n)
        /\ barrierFlags' = IF n = 0 THEN barrierFlags \ {a} ELSE barrierFlags
        /\ semaphore' = IF stopped THEN semaphore \ {a} ELSE semaphore

\* Mutant: the threads that wait for the task are forgotten.
EndTaskFault(t) ==
    LET a == tasks[t].app
    IN  IF IsFree(t) /\ a \in DOMAIN taskCount
        THEN /\ ReleaseApp(a, taskCount[a] - 1)
             /\ permits' = permits \cup (semaphore \ semaphore')
             /\ waited' = [waited EXCEPT ![t] = {}]
             /\ ReleaseDataDependents(t)
             /\ UNCHANGED <<tasks, status, execCount, reads, version, writers>>
        ELSE UNCHANGED <<taskVars, analyserVars>>

\* endTask.  The notification of a copy whose task has others running is dropped; so is,
\* by the NullPointerException at the missing count, the second notification of a task
\* whose first one ended the application's last wait.
EndTask(t) ==
    LET a == tasks[t].app
    IN  IF IsFree(t) /\ a \in DOMAIN taskCount
        THEN /\ ReleaseApp(a, taskCount[a] - 1)
             /\ permits' = permits \cup (semaphore \ semaphore') \cup waited[t]
             /\ waited' = [waited EXCEPT ![t] = {}]
             /\ ReleaseDataDependents(t)
             /\ UNCHANGED <<tasks, status, execCount, reads, version, writers>>
        ELSE UNCHANGED <<taskVars, analyserVars>>

\* RegisterDataAccessRequest of thread a.
RegisterAccess(a, d, mode) ==
    /\ version' = [version EXCEPT ![d] = IF mode = "R" THEN Registered(d) ELSE Registered(d) + 1]
    /\ permits' = permits \cup {a}
    /\ UNCHANGED <<taskVars, writers, taskCount, semaphore, barrierFlags, waited>>

\* Mutant: a task that is running is taken for finished.
FindWaitedTaskFault(a, d, mode) ==
    LET lastWriter == writers[d]
    IN  /\ writers' = IF mode = "RW" THEN [writers EXCEPT ![d] = NoTask] ELSE writers
        /\ IF lastWriter = NoTask \/ status[lastWriter] # "TO_ANALYSE"
           THEN permits' = permits \cup {a} /\ UNCHANGED waited
           ELSE waited' = [waited EXCEPT ![lastWriter] = @ \cup {a}] /\ UNCHANGED permits
        /\ UNCHANGED <<taskVars, version, taskCount, semaphore, barrierFlags>>

\* findWaitedTask, on behalf of thread a.  Mode RW makes the main program the last writer.
FindWaitedTask(a, d, mode) ==
    LET lastWriter == writers[d]
    IN  /\ writers' = IF mode = "RW" THEN [writers EXCEPT ![d] = NoTask] ELSE writers
        /\ IF lastWriter = NoTask \/ status[lastWriter] = "FINISHED"
           THEN permits' = permits \cup {a} /\ UNCHANGED waited
           ELSE waited' = [waited EXCEPT ![lastWriter] = @ \cup {a}] /\ UNCHANGED permits
        /\ UNCHANGED <<taskVars, version, taskCount, semaphore, barrierFlags>>

\* barrier
Barrier(a) ==
    /\ IF CountOf(a) = 0
       THEN permits' = permits \cup {a} /\ UNCHANGED <<semaphore, barrierFlags>>
       ELSE /\ barrierFlags' = barrierFlags \cup {a}
            /\ semaphore' = semaphore \cup {a}
            /\ UNCHANGED permits
    /\ UNCHANGED <<taskVars, version, writers, taskCount, waited>>

\* noMoreTasks
NoMoreTasks(a) ==
    /\ IF CountOf(a) = 0
       THEN /\ permits' = permits \cup {a}
            /\ taskCount' = RemoveCount(a)
            /\ UNCHANGED semaphore
       ELSE semaphore' = semaphore \cup {a} /\ UNCHANGED <<permits, taskCount>>
    /\ UNCHANGED <<taskVars, version, writers, barrierFlags, waited>>
=============================================================================
