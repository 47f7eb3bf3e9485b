-------------------------- MODULE ExecutionAction --------------------------
(***************************************************************************)
(* What happens to an action between its launch on a worker and the update *)
(* its end sends to the Task Dispatcher: an execution transfers its input  *)
(* data, submits a job and is told how the job ended, each step with a     *)
(* second chance; the start of a worker runs in a thread of its own.       *)
(*                                                                         *)
(* A transfer listener counts the operations in flight.  The launching     *)
(* thread adds one per datum and then enables the listener; the threads of *)
(* the adaptor end the operations meanwhile, so either the enabling or the *)
(* end of the last operation goes on.  Transfers, jobs and the start of    *)
(* workers belong to the adaptors: here they end well or badly.            *)
(***************************************************************************)
EXTENDS Integers, Sequences, FiniteSets

CONSTANTS
    MaxTasks,            \* bound on the tasks submitted
    Workers,             \* workers the runtime may learn of
    Operations,          \* number of data an execution transfers to its worker
    TransferChances,     \* TRANSFER_CHANCES
    SubmissionChances,   \* SUBMISSION_CHANCES
    MaxFaults            \* bound on the failures of transfers, jobs and starts

Task == 1 .. MaxTasks

ASSUME ExecutionAssumption ==
    /\ MaxTasks \in Nat
    /\ Workers \cap Task = {} /\ IsFiniteSet(Workers)
    /\ Operations \in Nat
    /\ TransferChances \in Nat \ {0}
    /\ SubmissionChances \in Nat \ {0}
    /\ MaxFaults \in Nat

\* A task has one execution; the action that starts a worker is named by the worker.
Action == Task \cup Workers

VARIABLES
    run,        \* what each action does since its launch
    tdQueue,    \* TaskDispatcher.requestQueue
    faults      \* failures so far

executionVars == <<run, tdQueue, faults>>

Run == [toAdd : 0 .. Operations, operations : 0 .. Operations, enabled : BOOLEAN,
        failed : BOOLEAN, transferErrors : 0 .. TransferChances - 1,
        executionErrors : 0 .. SubmissionChances - 1, jobs : {0, 1}]

Idle == [toAdd |-> 0, operations |-> 0, enabled |-> TRUE, failed |-> FALSE,
         transferErrors |-> 0, executionErrors |-> 0, jobs |-> 0]

Request == [type : {"EXECUTE_TASKS", "COMPLETED", "ERROR"}, action : Action]

ExecutionTypeOK ==
    /\ run \in [Action -> Run]
    /\ tdQueue \in Seq(Request)
    /\ faults \in 0 .. MaxFaults

ExecutionInit ==
    /\ run = [a \in Action |-> Idle]
    /\ tdQueue = << >>
    /\ faults = 0

-----------------------------------------------------------------------------
\* doInputTransfers: a new listener, with all the operations to be added.
InputTransfers(r) ==
    [r EXCEPT !.toAdd = Operations, !.operations = 0, !.enabled = FALSE, !.failed = FALSE]

\* doAction, of an execution and of the start of a worker: a thread of its own.
DoAction(a) == IF a \in Task THEN InputTransfers(Idle) ELSE [Idle EXCEPT !.jobs = 1]

Update(a, end) == [type |-> end, action |-> a]

Continue(a, r) == run' = [run EXCEPT ![a] = r] /\ UNCHANGED tdQueue

\* notifyCompleted and notifyError; the counts of errors are of no use from here on.
Notify(a, r, end) ==
    /\ run' = [run EXCEPT ![a] = [r EXCEPT !.transferErrors = 0, !.executionErrors = 0]]
    /\ tdQueue' = Append(tdQueue, Update(a, end))

\* Mutant: one chance too many.
FailedTransfersFault(a, r) ==
    IF r.transferErrors < TransferChances
    THEN Continue(a, InputTransfers([r EXCEPT !.transferErrors = @ + 1]))
    ELSE Notify(a, r, "ERROR")

\* failedTransfers
FailedTransfers(a, r) ==
    IF r.transferErrors + 1 < TransferChances
    THEN Continue(a, InputTransfers([r EXCEPT !.transferErrors = @ + 1]))
    ELSE Notify(a, r, "ERROR")

\* doSubmit
Submit(a, r) == Continue(a, [r EXCEPT !.jobs = @ + 1])

TransfersEnd(a, r) == IF r.failed THEN FailedTransfers(a, r) ELSE Submit(a, r)

\* Mutant: the listener goes on whenever no operation is in flight, enabled or not.
ListenerFault(a, r) == IF r.operations = 0 THEN TransfersEnd(a, r) ELSE Continue(a, r)

\* After a synchronised block of the listener, which has just left it as r.
Listener(a, r) ==
    IF r.operations = 0 /\ r.enabled THEN TransfersEnd(a, r) ELSE Continue(a, r)

-----------------------------------------------------------------------------
\* Failures are bounded, but for those of a worker that is not there.
Fault(down) == IF down THEN UNCHANGED faults ELSE faults < MaxFaults /\ faults' = faults + 1
NoFault == UNCHANGED faults

AddOperation(a) ==
    /\ run[a].toAdd > 0
    /\ Continue(a, [run[a] EXCEPT !.toAdd = @ - 1, !.operations = @ + 1])
    /\ NoFault

Enable(a) ==
    /\ run[a].toAdd = 0
    /\ ~run[a].enabled
    /\ Listener(a, [run[a] EXCEPT !.enabled = TRUE])
    /\ NoFault

NotifyEnd(a) ==
    /\ run[a].operations > 0
    /\ Listener(a, [run[a] EXCEPT !.operations = @ - 1])
    /\ NoFault

NotifyFailure(a, down) ==
    /\ run[a].operations > 0
    /\ Listener(a, [run[a] EXCEPT !.operations = @ - 1, !.failed = TRUE])
    /\ Fault(down)

\* completedJob, and the end of the thread of StartWorkerAction.
Succeed(a) ==
    /\ run[a].jobs > 0
    /\ Notify(a, [run[a] EXCEPT !.jobs = @ - 1], "COMPLETED")
    /\ NoFault

\* failedJob: the job is submitted again to the same worker while it has chances left.
FailedJob(t, down) ==
    /\ run[t].jobs > 0
    /\ IF run[t].transferErrors + run[t].executionErrors + 1 < SubmissionChances
       THEN Continue(t, [run[t] EXCEPT !.executionErrors = @ + 1])
       ELSE Notify(t, [run[t] EXCEPT !.jobs = @ - 1], "ERROR")
    /\ Fault(down)

\* The InitNodeException in the thread of StartWorkerAction.
WorkerDoesNotStart(w) ==
    /\ run[w].jobs > 0
    /\ Notify(w, [run[w] EXCEPT !.jobs = @ - 1], "ERROR")
    /\ Fault(FALSE)
=============================================================================
