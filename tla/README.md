# Verification of distributed_rdf

`distributed_rdf` is a PyCOMPSs application (`src/src/distributed_rdf.py`) shipped
with a modified copy of the COMPSs runtime (`src/trunk`), the Java system that
turns a sequential main program into a graph of tasks run on a set of workers.
The application is 300 lines of glue; the program logic is that of the runtime
and of its language bindings. This directory holds TLA+ modules that model the
core of the runtime, its worker processes and the object caches of the Python
workers, the TLC configurations that check them, and proofs checked by TLAPS.

Paths below are relative to `src/trunk/compss/runtime`; `ENG` is
`engine/src/main/java/integratedtoolkit`, `SCH` is
`scheduler/commons/src/main/java/integratedtoolkit`, `RES` is
`resources/commons/src/main/java/integratedtoolkit`, `CMN` is
`commons/src/main/java/integratedtoolkit`, `ADC` is
`adaptors/commons/src/main/java/integratedtoolkit`, `NIO` is `adaptors/nio`,
and `PY` is `../programming_model/bindings/python/src`. AP is the Access
Processor, TD the Task Dispatcher.

1. Inventory
2. Plan
3. The modules and the code
4. What is checked
5. What is proved
6. Where the code departs from what it says
7. What is not modelled

## 1. Inventory

| Component | State | Operations | Interacts with |
|---|---|---|---|
| Loader and API (`loader`, `ENG/api/impl/COMPSsRuntimeImpl`) | instrumented main program, object registry | `executeTask`, `openFile`, `deleteFile`, `barrier`, `noMoreTasks`, `stopIT` | offers requests to the AP queue and waits on semaphores |
| Access Processor, AP (`ENG/components/impl/AccessProcessor`, `ENG/types/request/ap`) | request queue, one thread, `keepGoing` | one `process` per request type | calls the Task Analyser and the data registry; offers requests to the TD |
| Task Analyser (`ENG/components/impl/TaskAnalyser`, `ENG/types/Task`) | `writers`, `waitedTasks`, task counts, semaphores and barrier flags per application; predecessors, successors, status and execution count of each task | `processTask`, `endTask`, `findWaitedTask`, `barrier`, `noMoreTasks`, `deleteFile` | runs in the AP thread; `Task` objects are shared with the TD |
| Data registry (`DataInfoProvider`, `DataInfo`, `DataVersion`) | versions of each datum, readers and writers of each version, deletion marks, blocks | `willAccess`, `dataHasBeenAccessed`, `delete`, `blockDataAndGetResultFile`, `unblockDataId` | runs in the AP thread; registers renamings in `Comm` |
| Task Dispatcher, TD (`ENG/components/impl/TaskDispatcher`, `ENG/types/request/td`) | request queue, one thread | `ExecuteTasksRequest`, `ActionUpdate`, worker and core-element updates | owns the scheduler; notifies task ends to the AP |
| Task Scheduler (`SCH/components/impl/TaskScheduler`, `ResourceScheduler`, `SCH/scheduler/types/AllocatableAction`) | state of each action, data and resource dependencies, blocked and hosted actions, ready counters | `newAllocatableAction`, `actionCompleted`, `errorOnAction`, `updatedWorker` | runs in the TD thread |
| Execution of tasks (`ENG/types/allocatableactions`, `ENG/types/data/operation`) | retry counters of an action, pending transfers of a job | submit transfers, submit a job, retry, complete, fail | adaptor threads call back; requests offered to the TD |
| Multi-node tasks (`MultiNodeGroup`, `MultiNodeExecutionAction`) | group, identifiers, registered slaves and master | register, notify completion or error to the slaves | TD thread and adaptor threads |
| Utilities (`CMN/util/RequestQueue`, `ThreadPool`, `RequestDispatcher`, `ErrorManager`) | queues with a count of waiting threads, stop flags | `enqueue`, `dequeue`, `stopThreads`, `error` | used by the job dispatcher, the transfer manager and the adaptors |
| Communication and data (`ADC/comm`, `ADC/types/data`) | locations of every renaming, copies in progress | register, remove, transfer | called by the AP, the TD and the adaptors |
| NIO adaptor (`NIOAdaptor`, `NIOWorkerNode` in the master; `NIOAgent`, `NIOWorker` in `NIO`) | jobs without an answer; in each worker, requests for data, pending and ongoing transfers, slots, what each job misses | submit, ask for a file, data arrived or not available, answer, demand, shutdown in two steps | one Java process per worker; messages over connections |
| Worker executors of NIO (`JobsThreadPool`, `Executor`) | queue of jobs, one thread per slot | take a job, execute it, report it, stop | the thread of the worker's communications; pipes to external processes |
| Persistent Python worker (`PY/pycompss/worker/piper_worker.py`, `PY/pycompss/api/task.py`) | one process per slot with a local cache, one cache process; a queue of requests, a pipe per worker | read a parameter, publish a result, serve a request, end | Java executors through pipes; each other through queue, pipes and shared memory |
| Object cache (`PY/ext/persistent_cache.cc`) | map by identifier and ordered set of the same entries, size, time | `add`, `hit`, `get`, `set_object`, eviction | each Python process has one |
| Shared memory (`PY/ext/shm_manager.cc`) | segments by key, who attaches them, next key of each process | create, attach, deallocate | system calls of all Python processes |
| GAT and web-service adaptors (`adaptors/gat`, `adaptors/ws`) | a job per thread | submit and poll | same callbacks as NIO |
| Resources (`resources/commons`) | capacity of each worker, pending reductions, cloud requests | reserve and release, add, reduce and remove | `TaskScheduler`, cloud connectors |
| Scheduler variants (`scheduler/*`) | ready queues, scores, load | override hooks of `TaskScheduler` | same thread |
| Application (`src/src/distributed_rdf.py`) | cache of query results in a local triple store | select and construct queries as tasks | Fuseki server, COMPSs |
| Other bindings (C, the JNI library `bindings-common`), code generators, GUI, builders, tests | - | conversions of parameters, generated or peripheral code | - |
| Extrae, JAVA_GAT, Jena, UNData | - | vendored third-party code; Extrae, the tracing library, is most of the C code of the repository | - |

### How the parts run together

A main program never waits to generate a task: `newTask` offers a request to the
AP queue and returns. The AP thread takes one request at a time; it finds the
data dependencies of a task and offers it to the TD queue. The TD thread creates
one execution per copy of the task, gives it to the scheduler, and serves the
updates that the adaptor threads offer when transfers and jobs end. The end of
an execution is offered back to the AP queue. An access of the main program to a
datum, a barrier and the end of the program offer requests and then acquire a
semaphore that the AP thread releases.

Three kinds of sharing are not protected by a queue: the `Task` object
(predecessor list, status, execution count), touched by both threads; the
transfer listener of an execution, touched by the thread that launches it and
by those of the adaptor; and the locations of data in `Comm`.

### What makes each part correct, and what is hard about it

- *Data registry*: a version is not removed under an access that is
  outstanding; a source that is moved is read by nobody else; every deletion is
  eventually carried out. Hard: deletions are immediate, deferred to the last
  access, or queued while a result is retrieved, and the three combine.
- *Task Analyser and AP*: the dependencies of a task are those of the sequential
  program; a barrier or an access returns after, and only after, what it waits
  for. Hard: ends of tasks cross with new tasks in the queue, the TD reads and
  writes `Task` meanwhile, replicated tasks end several times.
- *TD and scheduler*: a task runs once per copy and after its predecessors; no
  worker runs more than fits; nobody waits for ever. Hard: retries, workers that
  appear late or do not start, exceptions half-way through a request.
- *Execution of tasks*: each launch ends with exactly one update. Hard: the
  listener is enabled while operations end; three counts of chances.
- *NIO worker*: each datum is transferred once however many jobs want it; a job
  runs when, and only when, all its files are whole; each job is answered once;
  the worker stops when it is told to. Hard: files exist before they are
  complete, messages arrive in any order, connections fail at every point, the
  shutdown crosses with all of it.
- *Python caches*: a key names the object it was sent for; no segment is left
  in the system; the two indexes of a cache agree. Hard: processes attach and
  detach segments between each other's system calls, keys are used again, an
  eviction in one process removes what another was told to attach.
- *Multi-node groups, shutdown of the master, queues, communication, other
  adaptors, resources*: see the hazards in `PROJECT.json` and the plan.

## 2. Plan

In the order of importance; an item without a mark is still to be written.

1. **Data registry** - `DataInfo` (operators on one record), `DataInfoProvider`
   (the requests), `DataInfoProviderProofs`. *Done.*
2. **Graph of tasks** - `TaskAnalyser` and `TaskDispatcher` (the calls of each
   thread), composed with the programs and queues by `AccessProcessor`;
   `TaskGraph`, the abstract promise, which `AccessProcessor` refines;
   `AccessProcessorProofs`, `TaskGraphProofs`, `DependencyProofs`,
   `RefinementProofs`, each on top of the one before. *Done.*
3. **Scheduling and execution** - `ExecutionAction` (transfers, job, chances),
   extended by `TaskScheduler` (workers, resources, retries, failures);
   `TaskSchedulerProofs`. *Done for the base scheduler.*
4. **NIO worker** - `NIOAgent` (the transfers of an agent), extended by
   `NIOWorker` (a worker, its threads, and the master that sends it jobs and
   stops it); `NIOWorkerProofs`. *Done for files.*
5. **Python workers** - `PersistentCache` (operators on a cache), `ShmManager`
   (segments), composed by `PiperWorker`; `PiperWorkerProofs`. *Done.*
6. **Multi-node groups** - a module extending `ExecutionAction`: every slave of a
   group ends with its master, once, across reschedules.
7. **Scheduler, continued** - the policy of `ReadyScheduler` (an action is
   assigned only when free of data) as a constant of `TaskScheduler`, updates
   of known workers, `readyCounts`; liveness under the fairness of the TD thread
   and the adaptors.
8. **Shutdown of the master** - `stopIT` from the program and from `ErrorManager`
   against the AP and TD threads; `ThreadPool` and `RequestQueue` with it.
9. **Communication** - `LogicalData` and `Comm`: locations, copies in progress,
   removal; the master's side of the transfers.
10. **Resources** - `Worker`/`ResourceManager` with reductions, the cloud
    connectors' creation and destruction of machines.
11. **Application** - the cache of query results in `distributed_rdf.py`.

Every safety property of the modules that are done is a theorem; the next to
prove are those of the items to come. Modules under a theorem use no `RECURSIVE`
operator and no fold: what a recursive definition computes needs an induction
over data, out of the prover's reach.

## 3. The modules and the code

### DataInfo, DataInfoProvider

`DataInfo` gives each method of the classes `DataInfo` and `DataVersion` as a
function from a record to a record: `current`, the set of `versions` (the keys of
the tree map, which are also the renamings known to `Comm`), the counters and
the deletion mark of each version `dv`, `blocks` and the queue `pending`.
`DataInfoProvider` has one action per request that reaches the registry:
`TaskAccess` (the registration of a task's parameter), `MainAccess`, `TaskEnds`
(with the transfer of result files when the application is ending),
`DeleteFile`, `NoMoreTasks`, `GetResultFiles`, `UnblockResultFiles`. All run in
the AP thread, so each is one step. A task is the one access it makes; `gone` is
the programs' knowledge that a file was deleted, used only to let them behave
(they do not read a deleted file before writing it again). `abandoned` is
history: the data whose unblocking an exception cut short; no action reads it.

An exception in a loop is modelled by where it stops: `UnblockDeletions` treats
the pending versions before the first one whose renaming is already gone, and
`UnblockResultFiles` abandons the files that come after one that throws.

### TaskAnalyser, TaskDispatcher, AccessProcessor, TaskGraph

`TaskAnalyser` holds the calls of the AP thread as operators on the `Task`
objects and the analyser's maps. `TaskDispatcher` holds the TD thread:
the constructor of an execution iterates over the `LinkedList` of predecessors,
step by step (`HasNext`, `NextPredecessor`, `EndOfPredecessors`), because
`endTask` removes elements from it in the other thread; `removals` plays the
role of the list's modification count, and `DropRequest` is the
`ConcurrentModificationException` that the thread logs. Everything else the TD
does in a request is one step, because nothing it touches then is shared
except `status` and `execCount`, each written once. `AccessProcessor` adds the
main programs (one thread per application), the two queues and one action per
request type.

A list of predecessors is made of the parameters in their order and filtered when
a task ends; `TaskAnalyser` writes both with `Subsequence`, the elements of a
list that satisfy a condition. A task that reads a datum and writes it does not
depend on itself, so `NeedsOf` leaves it out of what it needs. Two assumptions on
the constants: the access of a main program to an object is in mode RW, the only
one `mainAcessToObject` uses (`MainAccessesAssumption`), and a program is not a
task (`ProgramsAssumption`).

`authors` and `wanted` are history: which program text comes first decides which
version a task must read, and no action reads them. `TaskGraph` knows only
owners, needs, phases and what each program awaits; the mapping is at the end of
`AccessProcessor`. It is stated for tasks in which every predecessor is the only
one, since with two the code does not implement it (section 6).

### ExecutionAction, TaskScheduler

`ExecutionAction` is what an action does between launch and update. `run[a]` has
the operations still to be added and those in flight, whether the listener is
enabled, whether a transfer failed, the two error counts and the jobs
submitted. `AddOperation` and `Enable` are steps of the launching thread,
`NotifyEnd` and `NotifyFailure` of the adaptors; each stands for one
`synchronized` block of `JobTransfersListener` and the call it leads to. The
start of a worker runs in its own thread (`jobs` = 1 from launch to end). Both
counts of errors are put back to zero in the update, where nobody reads them
again, to keep the state space small.

The chances are fixed in the code (2, 2, 2) and parameters here. The launching
thread of a first launch is the TD thread, and that of a retry the adaptor's;
`AddOperation` and `Enable` interleave with the TD's next request although a
first launch finishes them before it: this only adds behaviours, in which the
listener is enabled later.

`TaskScheduler` has one action per request of the TD, each with all that the
handler calls: `TaskCompleted`, for instance, releases the units of the worker,
resumes those who wait there, tells the AP, removes the data dependencies and
launches what they held. Three operators carry this: `Resumed` (the waiting
actions a release lets run), `Launched` (which of the actions free to run find
room, and none when others wait already) and `Become` (the state after both).
The choice of a worker by score and the order among equal priorities are left
open with sets of possible outcomes. Exceptions that end a request half-way are
actions: `TaskFailsWithSuccessors`, `WorkerNotStarted`.

This is the base class, the scheduler the runtime loads when no other is named
(`ITConstants`); the launch script names `LoadBalancingScheduler`, whose
differences are item 7 of the plan.

### NIOAgent, NIOWorker

`NIOAgent` has the fields of the class of that name: the list of requests for
each datum, the queue of pending requests, the transfers under way (there the
request that began the transfer, in the code its connection), the slots. A
connection that throws when it is started keeps its slot, as in the code, and
its request is in `refused`. The requests of all lists are one set, since a
request names its datum and its place in a list decides nothing. Those a job
makes come in the order of its parameters, so which of them begins a list, and
the order in which their transfers become pending, are determined
(`FirstRequests`, `InOrder`).

`NIOWorker` has one action per message or event of
the worker's communications, each the whole handler: `ReceivedNewTask` asks for
the files that are missing (`AsksFor`, which for each parameter looks at what was
asked for and copied for the earlier ones), starts transfers, and executes the
job if it misses none;
`EndOfTransfer` answers all the requests of the datum, well (`ReceivedData`) or
badly (`DataNotAvailable`), starts other transfers, and ends the process if the
shutdown waited for it. `Dequeue`, `ExecuteJob` and `ThreadsEnd` are the pool;
`SubmitTask`, `MasterReceives` and `StopWorker` the master. Messages are a set,
because each has a connection of its own. While the pool stops, the thread of
the communications waits (`Listening`), and a job still queued is left there.

Jobs may depend on each other: one is submitted only when those whose results
it reads have ended well, which is when the master registers their results in
the worker (`known`) and tells it so with the job (`hosted`). A job ends well or
badly, and the results of one that failed are not registered.

Data are transferred under the name of their version; a job that changes one
asks for it with another target, the file of the next version, and there is at
most one such version, so at most two targets of a datum. For these
`receivedData` copies the file; `Files.copy` throws when the target exists and
the requests, already taken from their list, are `lost`. A failed transfer
leaves no file. The library of connections is outside `src/`: an ongoing
transfer ends, a refused one never does, and a demand for data that are not
there takes a send slot that nothing releases.

### PersistentCache, ShmManager, PiperWorker

The parameters of a Python task go through these caches when `USE_CACHE` is on
in `piper_worker.py`; it is off in this commit, so the modules describe what
the code does once it is switched on. `PersistentCache` gives the operations of
the C++ type as functions from a cache to a cache: `H`, the map, and `S`, the
ordered set, which holds copies of the entries and sees them only through the
comparison (`Erase`, `Insert`). An eviction of several entries, a loop over the
first element, is the set `Evicted`. `ShmManager` has the segments of the
system and, for each process, the managers it is deallocating, one system call
per step. `PiperWorker` is the protocol: `Start`, `AttachAnswer`, `ReadObject`,
`ReadFile` are the reading of a parameter (`reveal_objects` in `task.py`),
`Publish` and `Published` the writing of a result (`workerCode`), the actions of
`Serve` the branches of `cache_proc`, cut where it sends, receives or lets go of
a manager.

A task has one parameter or one result. What a worker's local cache keeps is
left open, since it decides only whether the worker asks; a segment's content is
the name of the object. The file of a task may be gone once the task ended:
if the cache process reads it later it dies (`LoadFails`), as it does when no
key is left.

## 4. What is checked

Every module defines its bounds as constants; `MC*` modules give the sets the
configurations choose from. Deadlock is not checked in any run, because the
system rests when programs have ended or stopped calling and bounds are
reached; that nobody waits in vain is checked by properties instead
(`CallsReturn`, `TasksFinish`, `NoTaskForgotten`, `WaitersHaveRunners`,
`JobsAnswered`, `WorkerStops`, `PersistentWorkerEnds`).

| Run | Instance | Shows |
|---|---|---|
| `data_two_apps` | 2 applications, 2 files, 3 accesses at a time, 2 versions, 2 queued deletions; 782 thousand states | no deletion touches a version in use, all complete unless an unblock threw, moved sources are not shared, the search for a result ends |
| `data_main_pins` | 1 file, 2 accesses | a file the main program opened is never deleted (6.1) |
| `ap_one_app` | 1 program, 3 tasks with at most one read each, main accesses to a file and an object, barriers and end, with fairness; 174 thousand states | reads follow the program, synchronisations are exact, counts and lists are exact, `TaskGraph` is implemented, calls return and tasks finish unless the TD lost a request |
| `ap_replicated` | 2 programs that also read files, 2 tasks of 1 or 2 copies on one file; 3.3 million states | readers wait for every copy of a writer |
| `ap_skipped_predecessor` | 3 tasks, two reads | 6.2 |
| `ap_lost_task` | 2 tasks, fairness | 6.3 |
| `ap_replicated_barrier` | 1 program, 2 tasks of 2 copies | 6.4 |
| `sched_retries` | 3 tasks with any dependencies, 2 workers of 2 units and 2 slots, 1 datum each, 2 failures; 981 thousand states | resources, updates, dependencies and retries are consistent, no task is forgotten |
| `sched_retry_worker` | 2 tasks, workers of 1 unit | 6.5 |
| `sched_failure_report` | 2 tasks, 4 failures | 6.6 |
| `nio_worker` | 3 jobs, one that reads a file and changes another, one that changes the first and reads the result of the other job, one that reads the first twice, 1 thread, 1 slot each way, 1 refused connection, 2 demands, fairness; 70 thousand states | data come once, jobs run with whole files and are answered once, the worker stops, unless a connection was refused |
| `worker_cache` | 2 workers, 3 tasks on 2 objects, 2 keys to try, a cache of 3 units and segments of 2, fairness; 647 thousand states | keys name their segments, none is leaked, pipes stay in step, the cache is consistent and evicts the least used, all processes end unless the cache process died |

The properties, by what they relate:

- `PendingVersionsKept`, `SourceNotStolen`: an access registered earlier against
  deletions and registrations made later.
- `NoDeletedLeftover`, `DeletionCompletes`, `NoBlockLeft`,
  `ResultSearchTerminates`: marks, counters, blocks and queue of one datum.
- `ReadsFollowProgramOrder`: the registry's versions against the text of the
  programs. `ReadsAreGenerated`: the start of a task against the end of those
  that write what it reads. `MainSeesLastWriter`, `BarrierWaitsForAll`: the
  release of a program against the tasks it waits for. `CountIsExact`: the
  count behind barriers against the tasks themselves and the ends on their way.
  `GraphIsSymmetric`: the two lists that one thread writes and the other reads.
- `ImplementsTaskGraph`: the whole against the abstract promise.
- `CallsReturn`, `TasksFinish`: liveness.
- `OneTransferPerDatum`, `MissingCounted`, `SlotsAccounted`: the requests of the
  jobs against the transfers, the counts of what each job misses and the slots.
  `OneAnswerPerJob`: the places a job may be in, in both processes and between
  them. `WholeFiles`: the jobs given to the threads against the transfers under
  way. `JobsAnswered`, `WorkerStops`: liveness, with the exceptions the code has.
- `KeyNamesSegment`: a key on its way against the segments at that time.
  `NoSegmentLeaked`: the segments of the system against the processes that will
  let go of them. `PipesInStep`: what each worker waits for against the queue,
  the pipes and the cache process. `IndexesAgree`, `SizeAccounted`,
  `LeastUsedFirst`: the two indexes, the size and the order of a cache.
  `PersistentWorkerEnds`: liveness.
- `ResourcesAccounted`: a worker's counts against the actions it runs.
  `OneEndPerRun`: transfers, jobs and queued updates of an action against its
  state. `WaitersHaveRunners`, `NoTaskForgotten`: those who wait against those
  who would wake them. `StartedBeforeUse`, `DependenciesFirst`: order.

### Bounds

Three tasks are the fewest for a task with two predecessors, for a chain through
which an end travels while another task is submitted, and for a waiting queue
with more actions than a release lets run. Two data let one task depend on two
others or twice on the same. Two copies are the fewest for which the end of one
is not the end of the task. Two workers are the fewest for a retry to have where
to go, and the number of scheduling chances. Two failures exhaust the transfers
of a launch, or a job after a failed transfer, and so force a reschedule;
failures on a worker that did not start are not counted against the bound, so
total failures are reached as well (`TaskFailed`, `TaskFailsWithSuccessors` fire
in `sched_retries`). Two units tell the start of a worker, which takes both,
from a task, which takes one. In the registry a deletion is queued only while another
application retrieves the file, hence two applications; two queued deletions
are the fewest that can hold the same version twice, two files the fewest for
an exception on one to leave the other blocked, two versions one with readers
under another that is written.

Three jobs on one file are the fewest for which a request joins a transfer,
another target is copied from it, and a second datum keeps a job waiting; two of
them are a chain, and one has two requests for a datum with another between; one
slot makes transfers queue behind each other and lets one refused connection
take the last. Two demands are one with a send slot and one without. Two keys to
try make workers fail to create a segment; a cache of three units with segments
of two evicts on every replacement; three tasks let an object be published by
one worker, read by the other, and published again. Symmetry is used on identities of
accesses, applications and workers, only in runs without liveness properties.

### Fairness

`FairSpec` of `AccessProcessor` assumes weak fairness of the AP thread
(`Serve`) and of the TD thread (`DispatcherStep`), which loop on their
queues until shutdown; of a released program, which a semaphore wakes; and of
the launch and the end of executions: a worker ends what it is given. The last
is the users' obligation, tasks that terminate; failures are the subject of
`TaskScheduler`. Programs are not obliged to make any call. The queues are
FIFO, so weak fairness of the thread serves every request.

`FairSpec` of `NIOWorker` is weak fairness of `Progress`, all that happens
without a decision of the runtime: messages arrive, transfers end, well or
badly, threads take and execute jobs. Nobody is obliged to submit a job, to
demand data or to stop the worker. Each such step brings the system closer to
rest, so fairness of their union is enough. `FairSpec` of `PiperWorker` only says
that the processes do not all stop while one can take a step; the Java worker
ends them with "quit" at some time, after which no task is sent.

### Faults the properties detect

Before some definitions stands a variant of it, named `...Fault`: a plausible
mistake in that code. Each property of each passing run has one that makes
it false, listed under "mutants" in `PROJECT.json`.

## 5. What is proved

Eight modules of proofs, each about the specification of a component for every
value of its constants under the assumptions its modules name: finitely many
identities (data, accesses, applications, workers), bounds that are natural
numbers, and sizes that let anything run at all. Some theorems about the graph
of tasks have hypotheses of their own, which the column names:

- one copy: `Copies = {1}`, no task is replicated;
- one read: `OneReadEach`, a task gets the value of at most one parameter;
- one program: `OneProgram`, one application uses the runtime.

Each is there because the property is false without it; the section on the
graph says how.

| Module | Theorem | States | Hypotheses |
|---|---|---|---|
| `DataInfoProviderProofs` | `TypeCorrect`, `PendingVersionsAreKept`, `SourceIsNotStolen`, `ResultSearchEnds`, `NothingIdleIsLeft`, `BlocksArePaired`, `DeletionsComplete` | `TypeOK`, `PendingVersionsKept`, `SourceNotStolen`, `ResultSearchTerminates`, `NoDeletedLeftover`, `NoBlockLeft`, `DeletionCompletes` | |
| `AccessProcessorProofs` | `SubmissionOrderKept` | `ReadsFollowProgramOrder` | |
| `AccessProcessorProofs` | `CountsAreExact`, `BarriersWait` | `CountIsExact`, `BarrierWaitsForAll` | one copy |
| `TaskGraphProofs` | `GraphMirrored`, `TypeCorrect` | `GraphIsSymmetric`, `TypeOK` | |
| `DependencyProofs` | `ReadsGenerated` | `ReadsAreGenerated` | one read; one program, or programs that only access files |
| `RefinementProofs` | `MainSees` | `MainSeesLastWriter` | one copy, one program |
| `RefinementProofs` | `GraphImplemented` | `ImplementsTaskGraph` | one copy, one read, one program |
| `TaskSchedulerProofs` | `SchedulerTypes`, `ResourcesBalance`, `OneEnd`, `WaitersAreServed`, `StartsFirst`, `DependenciesEnd`, `TasksAreKept` | `TypeOK`, `ResourcesAccounted`, `OneEndPerRun`, `WaitersHaveRunners`, `StartedBeforeUse`, `DependenciesFirst`, `NoTaskForgotten` | |
| `NIOWorkerProofs` | `WorkerTypes`, `SlotsBalance`, `TransfersShared`, `MissingExact`, `JobsInOnePlace`, `FilesWhole` | `TypeOK`, `SlotsAccounted`, `OneTransferPerDatum`, `MissingCounted`, `OneAnswerPerJob`, `WholeFiles` | |
| `PiperWorkerProofs` | `WorkerTypes`, `CacheIndexesAgree`, `SizesAddUp`, `EvictionsAreFair`, `KeysNameSegments`, `NoneLeaked`, `PipesStayInStep` | `TypeOK`, `IndexesAgree`, `SizeAccounted`, `LeastUsedFirst`, `KeyNamesSegment`, `NoSegmentLeaked`, `PipesInStep` | |

The runs check the same statements on instances that satisfy the hypotheses:
`ap_one_app` those of one program, `ap_replicated` those for several programs and
copies.

None of these properties is inductive. Each module states the inductive
invariant, proves it as a theorem (`Invariance`, `DeletionInvariant`,
`OneCallAtATime`, `RegistryCatchesUp`, `TasksInPlace`, `SchedulerInvariant`,
`WorkerInvariant`, `SizeInvariant`, `ProtocolInvariant`, and `Invariance` again for
the NIO worker) or as a pair of lemmas (it holds first,
it stays), and derives the properties. The general shape is the same: lemmas
about the operators, one lemma per kind of step, one that joins them over `Next`,
and the temporal theorem.

### The data registry

`PendingVersionsKept` is lost if a counter is smaller than the number of accesses
it stands for, since a version is removed when its counters are zero; hence
`Counted`: the counters of each version are the numbers of the outstanding
accesses that read and write it. A new access is given the current version,
which must exist; hence, in `Shape` and `Clean`, that a datum not deleted since
its last write has its current version, unmarked and in no queued deletion. A
queued deletion is carried out later, when new versions may have come; hence, in
`Shape`, that queued sets hold no version after the current one.
`SourceNotStolen` needs that an access that moves its source already has its
own, later version (`Secure`): then no access registered afterwards can be given
the source. `IInv` is the type invariant with `Shape`, `Counted`, `Clean` and
`Secure`. The proof goes by the operators of `DataInfo` first: `DeletionStep` says
what any deletion, block or unblock may do to a record, and one lemma shows that
a step made of such changes preserves `IInv`. The registration and the end of an
access, which change counters, have lemmas with the facts on cardinalities they
need.

`DInv` adds what the deletions themselves promise: no record has a version both
marked and idle (`Tidy`); a datum has at most as many blocks as applications
retrieving it; and every version of a deleted datum is marked, or in the queue
of a datum that is blocked (`Deferred`). The last is what completion needs: when
nobody retrieves there is no block, so all is marked, and without accesses all
is idle (by `Counted`), so nothing remains. Both of the latter hold only for data
that no exception abandoned: with two applications TLC finds the deletions that
are lost otherwise (section 6).

### The programs, the queue and the Task Analyser

`Base` (theorem `OneCallAtATime`) is about calls: a program that is not running
has one request in the queue, or waits for one thing to end, or has been
released, and never two of these; and no task is queued twice to be analysed.
Everything else rests on it, since the handler of a request reads the access of
the program that offered it.

`ReadsFollowProgramOrder` compares what the registry gives a task when it is
analysed with what the program's own order says when the task is generated; in
between, other requests change the registry. `OrderInv` therefore says that
there is a *history*: a sequence of registries, one more than the requests
queued, that starts with what the registry holds, in which each request is the
step between two neighbours (`AfterRequest`), that ends with the versions the
programs count on, and in which each task to be analysed wants the versions of the
registry just before it. Offering a request extends the history at its end,
serving one drops its first element. The theorem holds for any number of
copies: it is about the registry, not about when tasks run.

`BarrierInv` adds three parts. `Places`: a task is to be analysed, to be
dispatched, or has its one execution; its end is queued only when that execution
is done, and once. `Counted`: the count of an application is the number of its tasks
analysed and not `Settled` (ended, with the end treated). `Stopped`: the analyses
of a program's tasks are ahead of its barrier in the queue (`Ahead`), so that when
the barrier is served all of them are analysed, and a count of zero means that
all are settled. `EndTask` can then not meet a missing count, because the task
whose end it treats is itself counted. With two copies `Places` is false at its
first part and the end of a task may be queued twice; the run
`ap_replicated_barrier` is the counterexample to the theorem without its
assumption (6.4). A task whose request is lost (6.3) stays counted: the barrier
then waits for ever, which is safe.

### The graph of tasks and its refinement

`GraphInv` says that the lists of predecessors and successors mirror each other.
A task enters both when it is analysed, and leaves both when its end is treated.
What makes that true step by step is the order: the tasks in the graph are
exactly those generated before the ones still queued for analysis (`InOrder`), so
a task analysed finds nothing of itself in the lists. The lists are subsequences;
their lemmas count elements by rank, since an induction over a list is not at
hand. `TypeInv` adds the iterator of the TD thread: it may have stayed behind a
list that got shorter, but when nothing was removed since `hasNext` answered, the
element it asks for exists, so that what it takes is a task.

`ReadsAreGenerated` goes through three places. In the analyser (`WriterInv`), the
last writer of a datum is the author of its current version, if that is a task;
by `OrderInv` the version a task is given is the one the program meant, so the
author is made a predecessor unless it has finished. In the graph (`Follows`), a
needed task stays a predecessor until it has finished, since only a treated end
removes it, and with copies the end counts only when no execution is left. In the
TD (`Waits`, `Gathers`), the execution of a task depends on all that is left to
run of what it needs: tasks are dispatched in the order they are generated in
(`DispatchOrder`), so the needed task has all its executions by the time the
iterator comes to it. With two predecessors the last step fails: one that ends
while the iterator runs hides the other or loses the request
(`ap_skipped_predecessor`, `ap_lost_task`), hence one read. With two programs and
objects the first fails: waiting for an object erases its last writer, and
another program's task analysed meanwhile does not find it. `CallInv` says why one
program is not hurt: when it waits, it is itself the author of the current
version, for an access to an object is in mode RW.

`MainSeesLastWriter` needs the writers the other way round (`KnownWriter`): the
last task that wrote a datum is the writer the analyser knows, unless it has
finished or somebody already waits for it. A program that is alone generates
nothing between the registration of its access and the request to wait, so the
writer it then finds is that of the version it registered (`SeesInv`). Another
program's task can come between the two and become the last writer, hence one
program; and a replicated task is `FINISHED` for the analyser once its first copy
has ended, hence one copy.

`RefInv` is the conjunction of all these, and gives the refinement of `TaskGraph`:
generating a task is `Generate`; a call that synchronises (the registration of an
access that reads, a barrier, the end of the program) is `Synchronise`; the
return of a call is `GoOn`, allowed because `MainSeesLastWriter` and
`BarrierWaitsForAll` hold there; the launch of an execution is `Start`, allowed
because of `ReadsAreGenerated`; its completion is `Finish`; every other step of
either thread leaves the mapped state as it is. The hypotheses are those of the
parts.

### The scheduler

`IInv` is `TypeOK`, `Sound`, `WaitersHaveRunners` and `Kept`. `Sound` has five
parts: `Phases` (what is under way for an execution in each state of its action),
`Submissions` (only submitted tasks have a state), `Dependencies` (a task holds
exactly the predecessors that have not ended, and only a task without any runs
or waits for resources), `Placement` (where an action is, by its state) and
`Ledger` (the units and slots of a worker against the actions that run on it:
equal while no task failed for good, and otherwise only bounded, because a
total failure releases twice). `Kept` says who would still wake a task that is
not at its end. A request is split in two: the state after it has taken the
action from its worker, which is already `Sound`, and then a change of one worker
that lets waiting actions in (`Resumed`) or launches those freed (`Launched`), which
preserves `Sound` whatever is chosen. That no waiting action is left where there
is room follows from the maximality of what was resumed.

### The NIO worker

`Invariance` is proved for any jobs, parameters, numbers of threads and slots.
Of the names it assumes what versions and renamings are (`TargetsAssumption`): a
version has one writer and one name, and no job reads what it writes.

`RequestsInv` comes first, because the agent alone decides it. The transfers that
are pending, under way or refused are each in one place, those that are not
pending are as many as the receive slots taken (`Placed`); and the requests for
a datum have exactly one transfer among them (`Shared`). The step that matters is
the arrival of a job: it may ask for a datum twice, and only the first of these
requests may begin a list. That there is a first one, and one only, follows from
the order of the parameters (`FirstsShare`). A list that becomes pending is an
order of these requests, and its size, and which of its requests get a slot, are
facts about lists without repetition (`Orders`, `Joined`, `Taken`).

`MissingCounted` is then preserved by counting: the requests that arrive are new,
those that are answered leave the set, those that are lost stay counted.

`JobsInv` says where a job may be: it is on its way (`Sent`), misses files
(`Waits`), is queued, with a thread, or has its answer on its way, never in two
of these, and in one exactly when the master has it in `RUNNING_JOBS`. A job is
queued or reported when its count becomes zero, which by `MissingCounted` is when
no request is left, so that happens once.

`WholeFiles` needs most. `FilesInv`: what the master says is in the worker is there;
each file of a job without errors is there or asked for; a datum that is
received under its own name is not there yet. The last is why a job that
finds a file may trust it, and it is true only if nobody else makes that file
meanwhile. A job that changes a datum makes a file of another name, which is the
datum of those that read its result: `OrderInv` says that these are submitted
when the master knows the result, and that it then has the answer of the job
that wrote it. So among the requests not answered (`Live`) nobody reads the name
another writes (`Apart`), although jobs in general do. `MasterInv` closes the
circle: an answer says that the job ended well only with all its files there, so
what the master learns from it (`OrderLearns`) is true of the worker.

### The Python workers

`WorkerInvariant` has the types and the order of the cache (`H` and `S` hold the same
entries, keyed by name); it is shown for the operations of `PersistentCache`
and then for each step.

The size of a set of entries is the number of its units, pairs of an entry and a
number up to its size (`SizeOf`), which makes a sum a cardinality the library
knows about. `SizeInvariant` adds to the order of the cache that the entries are
finitely many and their sizes add up to `size`, which stays below the limit. An
eviction takes an entry away while those before it do not free enough. The set
that goes is therefore closed under `Before`, which is `LeastUsedFirst`, and by
counting predecessors in this finite order there is a first entry that stays:
those before it free enough, so what is left is below the limit and `Add` may
rely on it.

`ProtocolInvariant` adds `Protocol` and `Segments`. `Protocol`
says, for each worker, that at most one of a request in the queue, a reply being
made and an answer in its pipe exists, exactly when it waits; that what it asked
for is its own task's object; and that the answer fits what it waits for.
`Segments` says that a process attaches exactly what it refers to and what it is
still to let go of, that whoever removes a segment does not attach it, that
nobody does once the call to remove it is made, and that entries, held keys and
offered keys name a segment with that object. `KeyNamesSegment` is not inductive
without both: a key stays valid on its way only because the sender still attaches
its segment, which is a fact about the protocol.

### What is only model-checked

Liveness, and `ENABLED` in general, is out of the prover's reach: `CallsReturn`,
`TasksFinish`, `JobsAnswered`, `WorkerStops`, `PersistentWorkerEnds`. All other
properties of the passing runs are theorems, some of `AccessProcessor` under the
hypotheses above, which the instances of the runs satisfy and without which
section 6 tells how they fail.

## 6. Where the code departs from what it says

Each has a run whose only property quotes the repository and fails.

1. **Files opened by the main program are not deleted** (`DeletedFileIsRemoved`).
   `mainAccessToFile` counts the program as a reader or writer of the version
   and nothing ever counts it out; a deletion waits for it for ever.
2. **A predecessor is skipped** (`ReadsAreGenerated`, with two reads). When the
   AP removes the first of two predecessors after the TD has visited it,
   `hasNext` compares the position with the new size and ends the loop: the task
   does not depend on the second.
3. **A task is lost** (`BarrierIsLeft`). When the removal falls between `hasNext`
   and `next`, the iterator throws; the request is logged and dropped, and a
   barrier on the task never ends.
4. **A replicated task ends several times** (`BarrierWaitsForAll`). `endTask` looks
   at the execution count when the notification is treated, not when it was
   sent; if all copies have ended by then each notification decrements the count
   of the application.
5. **A retry may go to the same worker** (`RetryChangesWorker`). Only `execute`
   registers the worker as tried, and a task that waited for room is run by
   `tryToLaunchBlockedActions` instead. Tasks assigned to a worker that is
   starting always wait.
6. **A failed task is not reported** (`FailureIsReported`). With a successor,
   `failed()` throws when it releases what the successor never reserved, before
   `doFailed`.

Observed while modelling, without a run of their own:

- `unblockDataId` after a transfer of a deleted file makes `deletionBlocks`
  negative (`TaskAnalyser:373`); with two applications the loop over
  `pendingDeletions` can be aborted by a renaming already gone (`DataInfo:96`),
  and the version chosen as result may not have been written yet
  (`DataInfoProvider:481`).
- With replicated tasks `findWaitedTask` may read the status `FINISHED` set by the
  first copy (`TaskAnalyser:406`); with two applications on one file, a program
  may register for a version and wait for the writer of a later or an earlier
  one, and an object's waiting program erases the last writer others would
  wait for (`TaskAnalyser:396`).
- A total failure releases the worker's units twice, once in `error` and once in
  `failed`, so the worker then runs more than fits. `ResourcesAccounted` is
  stated for behaviours without one.
- A worker that does not start stays in the pool: `addToBlocked` throws on the
  start action, which has no core element, before `doFailed` removes the worker.
  The tasks assigned to it are launched there and fail.
- A version is registered before it is generated: a main access or a transfer
  ordered meanwhile finds a renaming without a location.
- While an application retrieves a file whose count of blocks was negative, the
  deletion by another application is not queued but done.
- A retried job that changes a file finds the target left by its failed attempt
  (`NIOWorker:466`, `473`). `receivedValue` gives the first target to its job
  before `Files.copy` makes from that file the target of the readers
  (`NIOAgent:313`), and the requests are lost when the copy's target exists.
- A demand for data that the agent does not have takes a send slot for ever. A
  demand beyond the limit has no slot at all, so the shutdown does not wait for
  it. Jobs behind the nulls of `stopThreads` are discarded.
- `comments[0] != 'INOUT_IN'` (`piper_worker.py:557`) compares one character with
  a word, so it excludes nothing. The cache process dies if the file it was told
  to read is gone; the caches are keyed by the original name of a file, and may
  return an older version of it.
- On a single worker, a task that fails once is kept in `blockedActions` until
  another worker appears.

## 7. What is not modelled

`PROJECT.json` lists each part with its reason. In short: code generation
(loader), parsing, monitoring, tracing and drawing of graphs; adaptors and
external middleware, seen as transfers and jobs that end well or badly; and the
items 6 to 11 of the plan. Inside the modelled parts:

- registry and AP: object values and persistent objects, several threads of one
  application;
- scheduler: forced workers, priorities, several core elements or
  implementations, profiles, and the counters that only monitoring and the cloud
  read;
- NIO: parameters that are objects or persistent objects, sources that are
  moved, the transfers the master itself makes, and calls of
  `addTransferRequest` by several of its threads at once; parameters that are
  only written, which need no file (they are not in `ParamsOf`); a job that is
  submitted again after it failed, in which case `TargetsAssumption` fails too,
  since the file it changes has been written before (section 6);
- Python: `USE_CACHE` off (then no process talks to another), the handler of
  SIGTERM, tasks with several parameters, `Cache_delete` and `get_last`, the
  stream operations on a segment.

Most of the repository's lines are C that is not its own: Extrae and the other
dependencies under `src/trunk/dependencies`, and the generated lexers of the C
binding. They trace and parse, and keep no state of the system modelled here.
The C binding itself is a conversion of parameters and a generator of stubs.
