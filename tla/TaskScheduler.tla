--------------------------- MODULE TaskScheduler ---------------------------
(***************************************************************************)
(* The scheduler of the Task Dispatcher: which worker each action is given *)
(* to, when it runs there, and what the end of an action sets going.       *)
(*                                                                         *)
(* The base scheduler assigns a worker to an action as soon as it knows    *)
(* it; the action is launched when it depends on no data, and waits on its *)
(* worker when this has no room.  A worker is started by an action that    *)
(* takes all of it.  The Task Dispatcher thread serves one request at a    *)
(* time, and a request is one step: an exception ends it half-way, is      *)
(* logged, and the thread goes on.                                         *)
(*                                                                         *)
(* There is one core element, that all workers can run, each execution     *)
(* takes one unit of a worker, and all tasks have the same priority: among *)
(* equals the order of the priority queues is left open, and so is the     *)
(* score by which a worker is preferred.  Counts that only monitoring and  *)
(* the creation of cloud machines read (readyCounts, the profiles) are     *)
(* left out.                                                               *)
(***************************************************************************)
EXTENDS ExecutionAction, FiniteSetsExt

CONSTANTS
    Units,               \* computing units of a worker
    LimitOfTasks,        \* maxTaskCount of a worker
    SchedulingChances,   \* SCHEDULING_CHANCES
    NoWorker

ASSUME SchedulerAssumption ==
    /\ Units \in Nat \ {0}
    /\ LimitOfTasks \in Nat \ {0}
    /\ SchedulingChances \in Nat \ {0}
    /\ NoWorker \notin Workers

VARIABLES
    workers,      \* TaskScheduler.workers
    deps,         \* the tasks each submitted task depends on
    submitted,    \* number of tasks the Access Processor has handed over
    state,        \* AllocatableAction.state; "none" until the action is created
    resource,     \* AllocatableAction.selectedResource
    tried,        \* AllocatableAction.executingResources
    preds,        \* AllocatableAction.dataPredecessors; dataSuccessors is its inverse
    count,        \* Worker.usedTaskCount and the units of MethodWorker.available
    blocked,      \* TaskScheduler.blockedActions
    reported      \* the end of the task that the Access Processor was told

taskVars == <<deps, submitted>>
actionVars == <<state, resource, tried, count, run>>
vars == <<taskVars, actionVars, workers, preds, blocked, reported, tdQueue, faults>>

States == {"none", "RUNNABLE", "WAITING", "RUNNING", "FINISHED", "FAILED"}

TypeOK ==
    /\ ExecutionTypeOK
    /\ workers \subseteq Workers
    /\ submitted \in 0 .. MaxTasks
    /\ deps \in [Task -> SUBSET Task]
    /\ state \in [Action -> States]
    /\ resource \in [Action -> Workers \cup {NoWorker}]
    /\ tried \in [Task -> SUBSET Workers]
    /\ preds \in [Task -> SUBSET Task]
    /\ count \in [Workers -> [used : Int, available : Int]]
    /\ blocked \subseteq Task
    /\ reported \in [Task -> {"none", "FINISHED", "FAILED"}]

Init ==
    /\ ExecutionInit
    /\ workers = {}
    /\ submitted = 0
    /\ deps = [t \in Task |-> {}]
    /\ state = [a \in Action |-> "none"]
    /\ resource = [a \in Action |-> NoWorker]
    /\ tried = [t \in Task |-> {}]
    /\ preds = [t \in Task |-> {}]
    /\ count = [w \in Workers |-> [used |-> 0, available |-> Units]]
    /\ blocked = {}
    /\ reported = [t \in Task |-> "none"]

-----------------------------------------------------------------------------
\* Mutant: an action that waits for room on its worker is not depended on.
IsPendingFault(a) == state[a] \notin {"WAITING", "FINISHED", "FAILED"}

IsPending(a) == state[a] \notin {"FINISHED", "FAILED"}
Successors(a) == {t \in Task : a \in preds[t]}

\* ResourceScheduler.running and ResourceScheduler.blocked
Hosted(w) == {a \in Action : state[a] = "RUNNING" /\ resource[a] = w}
Waiting(w) == {a \in Action : state[a] = "WAITING" /\ resource[a] = w}

\* Mutant: the start of a worker asks for one unit.
NeedsFault(a) == 1

\* The requirements of an action: the start of a worker asks for its whole description.
Needs(a) == IF a \in Workers THEN Units ELSE 1

\* Mutant: one unit is given back whatever the action had reserved.
ReleaseFault(counts, w, a) ==
    [counts EXCEPT ![w] = [used |-> @.used - 1, available |-> @.available + 1]]

\* endTask of Worker, on the counts of the workers.
Release(counts, w, a) ==
    [counts EXCEPT ![w] = [used |-> @.used - 1, available |-> @.available + Needs(a)]]

\* canRunNow: how many executions more a worker has room for.
Room(load) == Max({0, Min({LimitOfTasks - load.used, load.available})})

\* Mutant: at most one waiting action is resumed.
ResumedFault(w, counts) ==
    kSubset(Min({1, Cardinality(Waiting(w)), Room(counts[w])}), Waiting(w))

\* tryToLaunchBlockedActions: the waiting actions that w resumes.
Resumed(w, counts) ==
    kSubset(Min({Cardinality(Waiting(w)), Room(counts[w])}), Waiting(w))

\* tryToLaunch of each action in free, assigned as in res: those that run at once.  The
\* others wait, and so do all of them where an action waits already.
Launched(free, res, resumed, counts) ==
    {running \in SUBSET free : \A w \in Workers :
        LET here == {a \in free : res[a] = w}
            left == Room(counts[w]) - Cardinality(resumed \cap Waiting(w))
        IN  Cardinality(running \cap here) =
               IF Waiting(w) \subseteq resumed THEN Min({Cardinality(here), left}) ELSE 0}

\* The actions after a request has resumed some and tried to launch others, of which some
\* run: AllocatableAction.execute and run.  Only execute registers the worker as tried.
Become(st, res, counts, rn, resumed, free, running) ==
    LET run1 == resumed \cup running
        at(w) == {a \in run1 : res[a] = w}
    IN  /\ state' = [a \in Action |-> IF a \in run1 THEN "RUNNING"
                                     ELSE IF a \in free THEN "WAITING" ELSE st[a]]
        /\ resource' = res
        /\ tried' = [t \in Task |-> IF t \in running THEN tried[t] \cup {res[t]} ELSE tried[t]]
        /\ count' = [w \in Workers |->
              [used |-> counts[w].used + Cardinality(at(w)),
               available |-> counts[w].available - Cardinality(at(w))]]
        /\ run' = [a \in Action |-> IF a \in run1 THEN DoAction(a) ELSE rn[a]]

\* Mutant: the action that no worker can run is not kept.
AddToBlockedFault(t) == UNCHANGED blocked

AddToBlocked(t) == blocked' = blocked \cup {t}

\* The handler leaves the actions as st says and task t is given to one of the workers, or
\* blocked (scheduleAction and tryToLaunch; BlockedActionException, addToBlocked).
Schedule(t, st, counts, resumed, launchable) ==
    LET candidates == workers \ tried[t]
    IN  \/ /\ candidates = {}
           /\ Become(st, resource, counts, run, resumed, {}, {})
           /\ AddToBlocked(t)
        \/ \E w \in candidates :
              LET res == [resource EXCEPT ![t] = w]
                  free == IF launchable THEN {t} ELSE {}
              IN  /\ \E running \in Launched(free, res, resumed, counts) :
                        Become(st, res, counts, run, resumed, free, running)
                  /\ UNCHANGED blocked

\* The second half of updatedWorker: the blocked actions that some worker may run now are
\* assigned, and launched if they depend on nothing.  Failed actions are taken too, but
\* nothing assigns or launches them.
ScheduleBlocked(known, st, res, counts, rn, resumed) ==
    LET taken == {t \in blocked : known \ tried[t] # {}}
        assigned == {t \in taken : state[t] = "RUNNABLE"}
        free == {t \in assigned : preds[t] = {}}
    IN  /\ \E plan \in [assigned -> known] :
              LET res1 == [a \in Action |-> IF a \in assigned THEN plan[a] ELSE res[a]]
              IN  /\ \A t \in assigned : plan[t] \notin tried[t]
                  /\ \E running \in Launched(free, res1, resumed, counts) :
                        Become(st, res1, counts, rn, resumed, free, running)
        /\ blocked' = blocked \ taken

-----------------------------------------------------------------------------
\* executeTask: the Access Processor hands over a task with its predecessors.
SubmitTask ==
    LET t == submitted + 1
    IN  /\ t \in Task
        /\ submitted' = t
        /\ \E earlier \in SUBSET (1 .. submitted) : deps' = [deps EXCEPT ![t] = earlier]
        /\ tdQueue' = Append(tdQueue, [type |-> "EXECUTE_TASKS", action |-> t])
        /\ UNCHANGED <<actionVars, workers, preds, blocked, reported, faults>>

\* updatedWorker of a worker that is not known: the constructor of TaskDispatcher inserts
\* those of the configuration, a WorkerUpdateRequest one created later.
UpdatedWorker(w) ==
    /\ w \notin workers
    /\ workers' = workers \cup {w}
    /\ ScheduleBlocked(workers', [state EXCEPT ![w] = "RUNNING"], [resource EXCEPT ![w] = w],
                       [count EXCEPT ![w] = [used |-> 1, available |-> Units - Needs(w)]],
                       [run EXCEPT ![w] = DoAction(w)], {})
    /\ UNCHANGED <<taskVars, preds, reported, tdQueue, faults>>

Take(type, a) ==
    /\ tdQueue # << >>
    /\ Head(tdQueue) = [type |-> type, action |-> a]
    /\ tdQueue' = Tail(tdQueue)

\* ExecuteTasksRequest and newAllocatableAction
ExecuteTask(t) ==
    /\ Take("EXECUTE_TASKS", t)
    /\ preds' = [preds EXCEPT ![t] = {p \in deps[t] : IsPending(p)}]
    /\ Schedule(t, [state EXCEPT ![t] = "RUNNABLE"], count, {}, preds'[t] = {})
    /\ UNCHANGED <<taskVars, workers, reported, faults>>

\* actionCompleted of an execution: what waits for room on the worker comes before what
\* waited for its data.
TaskCompleted(t) ==
    LET w == resource[t]
        counts == Release(count, w, t)
        free == {s \in Successors(t) : preds[s] = {t} /\ resource[s] # NoWorker}
    IN  /\ Take("COMPLETED", t)
        /\ \E resumed \in Resumed(w, counts) : \E running \in Launched(free, resource, resumed, counts) :
              Become([state EXCEPT ![t] = "FINISHED"], resource, counts, run, resumed, free, running)
        /\ preds' = [s \in Task |-> preds[s] \ {t}]
        /\ reported' = [reported EXCEPT ![t] = "FINISHED"]
        /\ UNCHANGED <<taskVars, workers, blocked, faults>>

\* actionCompleted of the start of w, which updates w.
WorkerStarted(w) ==
    LET counts == Release(count, w, w)
    IN  /\ Take("COMPLETED", w)
        /\ \E resumed \in Resumed(w, counts) :
              ScheduleBlocked(workers, [state EXCEPT ![w] = "FINISHED"], resource, counts, run, resumed)
        /\ UNCHANGED <<taskVars, workers, preds, reported, faults>>

\* errorOnAction of an execution that has chances left: it is scheduled again, on any
\* worker it is not registered to have tried.
TaskRescheduled(t) ==
    LET counts == Release(count, resource[t], t)
    IN  /\ Take("ERROR", t)
        /\ Cardinality(tried[t]) < SchedulingChances
        /\ \E resumed \in Resumed(resource[t], counts) :
              Schedule(t, [state EXCEPT ![t] = "RUNNABLE"], counts, resumed, TRUE)
        /\ UNCHANGED <<taskVars, workers, preds, reported, faults>>

\* errorOnAction of an execution without chances on which no other depends: failed()
\* releases its resources a second time.  Afterwards it is assigned again, which nothing
\* reads: a failed action is never launched.
TaskFailed(t) ==
    LET w == resource[t]
        counts == Release(count, w, t)
    IN  /\ Take("ERROR", t)
        /\ Cardinality(tried[t]) >= SchedulingChances
        /\ Successors(t) = {}
        /\ \E resumed \in Resumed(w, counts) :
              Become([state EXCEPT ![t] = "FAILED"], resource, Release(counts, w, t), run, resumed, {}, {})
        /\ AddToBlocked(t)
        /\ reported' = [reported EXCEPT ![t] = "FAILED"]
        /\ UNCHANGED <<taskVars, workers, preds, faults>>

\* errorOnAction of an execution without chances with successors: failed() of the first
\* one releases what was never reserved, endTask throws a NullPointerException after it
\* has decreased the count of tasks, and doFailed is not reached.
TaskFailsWithSuccessors(t) ==
    LET w == resource[t]
        first == Min(Successors(t))
        counts == Release(count, w, t)
        counts2 == Release(counts, w, t)
        counts3 == IF resource[first] = NoWorker THEN counts2
                   ELSE [counts2 EXCEPT ![resource[first]].used = @ - 1]
    IN  /\ Take("ERROR", t)
        /\ Cardinality(tried[t]) >= SchedulingChances
        /\ Successors(t) # {}
        /\ \E resumed \in Resumed(w, counts) :
              Become([state EXCEPT ![t] = "FAILED", ![first] = "FAILED"], resource, counts3, run, resumed, {}, {})
        /\ AddToBlocked(t)
        /\ UNCHANGED <<taskVars, workers, preds, reported, faults>>

\* errorOnAction of the start of w: addToBlocked throws a NullPointerException, since the
\* implementation of the action has no core element, and doFailed is not reached.
WorkerNotStarted(w) ==
    LET counts == Release(count, w, w)
    IN  /\ Take("ERROR", w)
        /\ \E resumed \in Resumed(w, counts) :
              Become([state EXCEPT ![w] = "RUNNABLE"], resource, counts, run, resumed, {}, {})
        /\ UNCHANGED <<taskVars, workers, preds, blocked, reported, faults>>

-----------------------------------------------------------------------------
\* Nothing answers on a worker that could not be started.
Down(w) == w \in workers /\ state[w] = "RUNNABLE"

ExecutionStep(t) ==
    /\ \/ AddOperation(t)
       \/ Enable(t)
       \/ ~Down(resource[t]) /\ NotifyEnd(t)
       \/ ~Down(resource[t]) /\ Succeed(t)
       \/ NotifyFailure(t, Down(resource[t]))
       \/ FailedJob(t, Down(resource[t]))
    /\ UNCHANGED <<taskVars, workers, state, resource, tried, count, preds, blocked, reported>>

StarterStep(w) ==
    /\ Succeed(w) \/ WorkerDoesNotStart(w)
    /\ UNCHANGED <<taskVars, workers, state, resource, tried, count, preds, blocked, reported>>

DispatcherStep ==
    \/ \E t \in Task :
          \/ ExecuteTask(t)
          \/ TaskCompleted(t)
          \/ TaskRescheduled(t)
          \/ TaskFailed(t)
          \/ TaskFailsWithSuccessors(t)
    \/ \E w \in Workers : WorkerStarted(w) \/ WorkerNotStarted(w)

Next ==
    \/ SubmitTask
    \/ \E w \in Workers : UpdatedWorker(w) \/ StarterStep(w)
    \/ \E t \in Task : ExecutionStep(t)
    \/ DispatcherStep

Spec == Init /\ [][Next]_vars

-----------------------------------------------------------------------------
Failures == {a \in Action : state[a] = "FAILED"}

UpdatesOf(a) == {i \in DOMAIN tdQueue : tdQueue[i].action = a /\ tdQueue[i].type # "EXECUTE_TASKS"}
Listening(a) == run[a].toAdd > 0 \/ run[a].operations > 0 \/ ~run[a].enabled

\* What each worker has reserved is what the actions it runs need, and fits, as long as
\* nothing has failed for good (runTask and endTask, along launch, resume and retry).
ResourcesAccounted ==
    Failures = {} => \A w \in Workers :
        /\ count[w].used = Cardinality(Hosted(w))
        /\ count[w].available = Units - Cardinality(Hosted(w) \cap Task)
                                       - (IF w \in Hosted(w) THEN Units ELSE 0)
        /\ count[w].used <= LimitOfTasks
        /\ count[w].available >= 0

\* An action that runs is waited for by exactly one thing: its transfers, its job, or the
\* update that ends it.  No other action is (JobTransfersListener; a second update would
\* release resources and data twice).
OneEndPerRun ==
    \A a \in Action :
        Cardinality(UpdatesOf(a)) + run[a].jobs + (IF Listening(a) THEN 1 ELSE 0)
            = (IF state[a] = "RUNNING" THEN 1 ELSE 0)

\* An action waits only for actions that run on its worker, and only while there is no room:
\* no release forgets those who wait (tryToLaunchBlockedActions in completed and error).
WaitersHaveRunners ==
    \A w \in Workers : Waiting(w) # {} =>
        /\ Hosted(w) # {}
        /\ Failures = {} => Room(count[w]) = 0

\* No task runs on a worker before the action that starts it has ended (StartWorkerAction
\* takes the whole worker; tasks assigned meanwhile wait).
StartedBeforeUse ==
    \A w \in Workers : Hosted(w) \cap Task # {} => w \notin Hosted(w)

\* A task is launched only when the tasks it depends on have ended, whatever was retried,
\* blocked or resumed in between (dataPredecessorDone only from completed).
DependenciesFirst ==
    \A t \in Task : state[t] \in {"WAITING", "RUNNING", "FINISHED"} =>
        \A p \in deps[t] : state[p] \in {"FINISHED", "FAILED"}

\* When nothing is left to happen, every task has ended, or was failed, or waits for a
\* worker after having failed on every one, or depends on such a task: no task is
\* forgotten by the scheduler (blockedActions, resumption and release of data together).
NoTaskForgotten ==
    (tdQueue = << >> /\ workers = Workers /\ \A a \in Action : state[a] # "RUNNING") =>
        \A t \in 1 .. submitted :
            \/ state[t] \in {"FINISHED", "FAILED"}
            \/ t \in blocked /\ tried[t] = Workers
            \/ preds[t] # {}

\* "rescheduling task execution. (changing worker)": after an error a task is given to
\* another worker.
RetryChangesWorker ==
    [][\A t \in Task :
          Take("ERROR", t) /\ state'[t] \in {"WAITING", "RUNNING"} => resource'[t] # resource[t]]_vars

\* "Operations to perform when AA has totally failed Calls specific operation doFailed":
\* the Access Processor is told of every task that failed for good.
FailureIsReported == \A t \in Task : state[t] = "FAILED" => reported[t] = "FAILED"
=============================================================================
