--------------------------- MODULE TaskDispatcher ---------------------------
(***************************************************************************)
(* The Task Dispatcher thread: it turns each task the Access Processor has *)
(* analysed into executions, and reports the end of each execution.        *)
(*                                                                         *)
(* The constructor of an execution iterates over the predecessors of its   *)
(* task, an unsynchronised LinkedList from which the Access Processor      *)
(* thread removes the tasks that end.  The iteration is therefore made of  *)
(* the steps of java.util.LinkedList's iterator: hasNext compares the      *)
(* position with the size of the list, next throws a                       *)
(* ConcurrentModificationException when a removal happened since the       *)
(* iterator was created.  The thread logs the exception and takes the next *)
(* request: the one it was serving is lost.                                *)
(*                                                                         *)
(* Where and when the scheduler runs an execution is left open: one that   *)
(* depends on nothing may start at any time, and all executions succeed.   *)
(* The message of a worker that an execution ended and its treatment by    *)
(* this thread are one step, taken between two requests.                   *)
(***************************************************************************)
EXTENDS TaskAnalyser

VARIABLES
    tdQueue,    \* tasks of the ExecuteTasksRequests queued
    cursor,     \* the request being served: the iterator of the constructor of an execution
    exec,       \* Task.executions
    lost        \* tasks whose request ended in an exception

dispatcherVars == <<tdQueue, cursor, exec, lost>>

Idle == [at |-> "idle"]

Iterator(t) == [at |-> "hasNext", task |-> t, index |-> 0, expected |-> removals[t]]

Execution == [state : {"new", "waiting", "running", "done"}, on : SUBSET (Task \X Nat)]

DispatcherTypeOK ==
    /\ tdQueue \in Seq(Task)
    /\ cursor \in [at : {"hasNext", "next"}, task : Task, index : Nat, expected : Nat] \cup {Idle}
    /\ exec \in [Task -> Seq(Execution)]
    /\ lost \subseteq Task

DispatcherInit ==
    /\ tdQueue = << >>
    /\ cursor = Idle
    /\ exec = [t \in Task |-> << >>]
    /\ lost = {}

NewExecution(t) == Append(exec[t], [state |-> "new", on |-> {}])

\* Mutant: only the first execution of a predecessor is looked at.
PendingFirstFault(p) == {<<p, i>> : i \in {j \in DOMAIN exec[p] : j = 1 /\ exec[p][j].state # "done"}}

\* Mutant: executions that have ended are depended on too.
PendingAllFault(p) == {<<p, i>> : i \in DOMAIN exec[p]}

\* The executions of p that have not ended.
Pending(p) == {<<p, i>> : i \in {j \in DOMAIN exec[p] : exec[p][j].state # "done"}}

\* Every execution of t has been created and has ended.
Finished(t) ==
    /\ t \in Created
    /\ Len(exec[t]) = tasks[t].copies
    /\ \A i \in DOMAIN exec[t] : exec[t][i].state = "done"

Started(t) == \E i \in DOMAIN exec[t] : exec[t][i].state \in {"running", "done"}

-----------------------------------------------------------------------------
\* ExecuteTasksRequest.process: the execution count is set and the constructor of the
\* first execution creates its iterator.
TakeRequest ==
    /\ cursor = Idle
    /\ tdQueue # << >>
    /\ LET t == Head(tdQueue)
       IN  /\ tdQueue' = Tail(tdQueue)
           /\ status' = [status EXCEPT ![t] = "TO_EXECUTE"]
           /\ execCount' = [execCount EXCEPT ![t] = tasks[t].copies]
           /\ exec' = [exec EXCEPT ![t] = NewExecution(t)]
           /\ cursor' = Iterator(t)
    /\ UNCHANGED <<tasks, preds, removals, succs, reads, analyserVars, lost>>

HasNext ==
    /\ cursor.at = "hasNext"
    /\ cursor.index < Len(preds[cursor.task])
    /\ cursor' = [cursor EXCEPT !.at = "next"]
    /\ UNCHANGED <<taskVars, analyserVars, tdQueue, exec, lost>>

\* The loop ends: the execution goes to the scheduler and the constructor of the next
\* copy, if the task has one more, creates its iterator.
EndOfPredecessors ==
    /\ cursor.at = "hasNext"
    /\ cursor.index >= Len(preds[cursor.task])
    /\ LET t == cursor.task
           submitted == [exec[t] EXCEPT ![Len(exec[t])].state = "waiting"]
       IN  IF Len(exec[t]) < tasks[t].copies
           THEN /\ exec' = [exec EXCEPT ![t] = Append(submitted, [state |-> "new", on |-> {}])]
                /\ cursor' = Iterator(t)
           ELSE exec' = [exec EXCEPT ![t] = submitted] /\ cursor' = Idle
    /\ UNCHANGED <<taskVars, analyserVars, tdQueue, lost>>

\* The next predecessor: the execution depends on those of its executions that are pending.
NextPredecessor ==
    /\ cursor.at = "next"
    /\ cursor.expected = removals[cursor.task]
    /\ LET t == cursor.task
           p == preds[t][cursor.index + 1]
       IN  exec' = [exec EXCEPT ![t][Len(exec[t])].on = @ \cup Pending(p)]
    /\ cursor' = [cursor EXCEPT !.at = "hasNext", !.index = @ + 1]
    /\ UNCHANGED <<taskVars, analyserVars, tdQueue, lost>>

\* The ConcurrentModificationException: the executions already created stay in
\* Task.executions, where successors find them pending.
DropRequest ==
    /\ cursor.at = "next"
    /\ cursor.expected # removals[cursor.task]
    /\ lost' = lost \cup {cursor.task}
    /\ cursor' = Idle
    /\ UNCHANGED <<taskVars, analyserVars, tdQueue, exec>>

\* The scheduler launches an execution that has no data predecessor left.
Launch(t, i) ==
    /\ exec[t][i].state = "waiting"
    /\ exec[t][i].on = {}
    /\ exec' = [exec EXCEPT ![t][i].state = "running"]
    /\ UNCHANGED <<taskVars, analyserVars, tdQueue, cursor, lost>>

\* An execution ends (ExecutionAction.doCompleted, AllocatableAction.completed) and its
\* data successors no longer depend on it; AccessProcessor queues the notification.
Complete(t, i) ==
    /\ cursor = Idle
    /\ exec[t][i].state = "running"
    /\ exec' = [s \in Task |-> [k \in DOMAIN exec[s] |->
                  [state |-> IF s = t /\ k = i THEN "done" ELSE exec[s][k].state,
                   on |-> exec[s][k].on \ {<<t, i>>}]]]
    /\ execCount' = [execCount EXCEPT ![t] = @ - 1]
    /\ status' = [status EXCEPT ![t] = "FINISHED"]
    /\ UNCHANGED <<tasks, preds, removals, succs, reads, analyserVars, tdQueue, cursor, lost>>
=============================================================================
