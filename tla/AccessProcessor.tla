-------------------------- MODULE AccessProcessor --------------------------
(***************************************************************************)
(* The master of the runtime around the graph of tasks: the main programs, *)
(* the Access Processor thread with its request queue, and the Task        *)
(* Dispatcher thread with its own.  A main program generates tasks without *)
(* waiting; an access to a datum, a barrier and the end of the application *)
(* each offer requests to the Access Processor and stop the program on a   *)
(* semaphore until the Access Processor releases it.                       *)
(*                                                                         *)
(* The AlreadyAccessed request that precedes the registration of a main    *)
(* access is part of the registration here: the only thing that can happen *)
(* to the registry in between is that other data become known.             *)
(***************************************************************************)
EXTENDS TaskDispatcher, SequencesExt

CONSTANTS
    Signatures,   \* the parameter sequences a task may have
    Copies,       \* executions a task may have: 1, or the number of workers if replicated
    MainAccesses, \* accesses a main program may make: records [datum, mode, kind]
    MaxVersions   \* bound on the versions of a datum that accesses of main programs add

ASSUME SignaturesAssumption == Signatures \subseteq Seq(Parameter)
ASSUME CopiesAssumption == Copies \subseteq Nat \ {0}
ASSUME MainAccessesAssumption ==
    /\ MainAccesses \subseteq [datum : Data, mode : Modes, kind : {"file", "object"}]
    /\ \A access \in MainAccesses : access.kind = "object" => access.mode = "RW"
\* A program is not a task.
ASSUME ProgramsAssumption == Apps \cap (Task \cup {NoTask}) = {}
ASSUME MaxVersionsAssumption == MaxVersions \in Nat

VARIABLES
    apQueue,    \* AccessProcessor.requestQueue
    main,       \* each main program: the call it is in and the access it makes
    \* history: the versions as the programs' own order defines them
    authors,    \* who generates each version of a datum: a task, a main program, or nobody
    wanted      \* the versions a task must read

historyVars == <<authors, wanted>>
vars == <<taskVars, analyserVars, dispatcherVars, apQueue, main, historyVars>>

NoAccess == [datum |-> 0, mode |-> "none", kind |-> "none"]
NoVersion == <<0, 0>>

\* Requests, in the queue of the Access Processor.
Analyse(t) == [type |-> "ANALYSE_TASK", task |-> t]
TaskEnd(t) == [type |-> "TASK_END", task |-> t]
Register(a) == [type |-> "REGISTER_DATA_ACCESS", app |-> a]
WaitForTask(a) == [type |-> "WAIT_FOR_TASK", app |-> a]
BarrierRequest(a) == [type |-> "BARRIER", app |-> a]
EndOfApp(a) == [type |-> "END_OF_APP", app |-> a]

Request == {Analyse(t) : t \in Task} \cup {TaskEnd(t) : t \in Task}
           \cup {Register(a) : a \in Apps} \cup {WaitForTask(a) : a \in Apps}
           \cup {BarrierRequest(a) : a \in Apps} \cup {EndOfApp(a) : a \in Apps}

Calls == {"running", "register", "wait", "barrier", "noMoreTasks", "ended"}

TypeOK ==
    /\ AnalyserTypeOK
    /\ DispatcherTypeOK
    /\ apQueue \in Seq(Request)
    /\ main \in [Apps -> [call : Calls, access : MainAccesses \cup {NoAccess},
                          in : (Data \X Nat) \cup {NoVersion}]]
    /\ authors \in [Data -> Seq(Task \cup Apps \cup {NoTask})]
    /\ wanted \in [Task -> SUBSET (Data \X Nat)]

Init ==
    /\ AnalyserInit
    /\ DispatcherInit
    /\ apQueue = << >>
    /\ main = [a \in Apps |-> [call |-> "running", access |-> NoAccess, in |-> NoVersion]]
    /\ authors = [d \in Data |-> << >>]
    /\ wanted = [t \in Task |-> {}]

-----------------------------------------------------------------------------
(* The order of the programs.  An access to a datum nobody accessed makes  *)
(* its first version; every write appends one.                             *)

Known(d) == authors[d] # << >>

Touched(d) == IF Known(d) THEN authors[d] ELSE <<NoTask>>

\* The authors of d after who accesses it with each of the parameters in turn.
AuthorsAfter(d, params, who) ==
    IF \E i \in DOMAIN params : params[i].datum = d
    THEN Touched(d) \o
         [i \in 1 .. Cardinality({i \in DOMAIN params : params[i].datum = d /\ params[i].mode # "R"})
            |-> who]
    ELSE authors[d]

VersionsWanted(params) ==
    {<<params[i].datum,
       Len(Touched(params[i].datum)) + Cardinality(EarlierWrites(params, i))>> :
        i \in {j \in DOMAIN params : params[j].mode # "W"}}

-----------------------------------------------------------------------------
(* The main programs.                                                      *)

Running(a) == main[a].call = "running"

Stop(a, call) == main' = [main EXCEPT ![a].call = call]

Resume(a) ==
    /\ a \in permits
    /\ permits' = permits \ {a}
    /\ UNCHANGED <<taskVars, version, writers, taskCount, semaphore, barrierFlags, waited>>

\* newTask
NewTask(a, params, copies) ==
    LET t == Len(tasks) + 1
    IN  /\ Running(a)
        /\ t \in Task
        /\ tasks' = Append(tasks, [app |-> a, params |-> params, copies |-> copies])
        /\ apQueue' = Append(apQueue, Analyse(t))
        /\ wanted' = [wanted EXCEPT ![t] = VersionsWanted(params)]
        /\ authors' = [d \in Data |-> AuthorsAfter(d, params, t)]
        /\ UNCHANGED <<status, execCount, preds, removals, succs, reads,
                       analyserVars, dispatcherVars, main>>

\* mainAccessToFile and mainAcessToObject, up to the wait for the registration.  An
\* object the runtime does not know is never asked for.
MainAccess(a, access) ==
    LET d == access.datum
    IN  /\ Running(a)
        /\ Known(d)
        /\ access.mode # "R" => Len(authors[d]) < MaxVersions
        /\ main' = [main EXCEPT ![a].call = "register", ![a].access = access]
        /\ apQueue' = Append(apQueue, Register(a))
        /\ authors' = [authors EXCEPT ![d] = IF access.mode = "R" THEN @ ELSE Append(@, a)]
        /\ UNCHANGED <<taskVars, analyserVars, dispatcherVars, wanted>>

\* The access is registered: unless the file is only written, the program then asks for
\* the end of the last writer.
Registration(a) ==
    /\ main[a].call = "register"
    /\ Resume(a)
    /\ IF main[a].access.mode = "W"
       THEN /\ main' = [main EXCEPT ![a] = [call |-> "running", access |-> NoAccess, in |-> NoVersion]]
            /\ UNCHANGED apQueue
       ELSE /\ Stop(a, "wait")
            /\ apQueue' = Append(apQueue, WaitForTask(a))
    /\ UNCHANGED <<dispatcherVars, historyVars>>

\* The last writer has ended: the program fetches the version it reads.
WaitReturns(a) ==
    /\ main[a].call = "wait"
    /\ Resume(a)
    /\ main' = [main EXCEPT ![a] = [call |-> "running", access |-> NoAccess, in |-> NoVersion]]
    /\ UNCHANGED <<dispatcherVars, apQueue, historyVars>>

CallBarrier(a) ==
    /\ Running(a)
    /\ Stop(a, "barrier")
    /\ apQueue' = Append(apQueue, BarrierRequest(a))
    /\ UNCHANGED <<taskVars, analyserVars, dispatcherVars, historyVars>>

BarrierReturns(a) ==
    /\ main[a].call = "barrier"
    /\ Resume(a)
    /\ Stop(a, "running")
    /\ UNCHANGED <<dispatcherVars, apQueue, historyVars>>

CallNoMoreTasks(a) ==
    /\ Running(a)
    /\ Stop(a, "noMoreTasks")
    /\ apQueue' = Append(apQueue, EndOfApp(a))
    /\ UNCHANGED <<taskVars, analyserVars, dispatcherVars, historyVars>>

NoMoreTasksReturns(a) ==
    /\ main[a].call = "noMoreTasks"
    /\ Resume(a)
    /\ Stop(a, "ended")
    /\ UNCHANGED <<dispatcherVars, apQueue, historyVars>>

-----------------------------------------------------------------------------
(* The Access Processor thread: it takes the requests one at a time.       *)

Serving(type) == apQueue # << >> /\ Head(apQueue).type = type /\ apQueue' = Tail(apQueue)

\* TaskAnalysisRequest: the task is analysed and handed to the Task Dispatcher.
ServeAnalyse ==
    /\ Serving("ANALYSE_TASK")
    /\ ProcessTask(Head(apQueue).task)
    /\ tdQueue' = Append(tdQueue, Head(apQueue).task)
    /\ UNCHANGED <<cursor, exec, lost, main, historyVars>>

ServeTaskEnd ==
    /\ Serving("TASK_END")
    /\ EndTask(Head(apQueue).task)
    /\ UNCHANGED <<dispatcherVars, main, historyVars>>

ServeRegister ==
    /\ Serving("REGISTER_DATA_ACCESS")
    /\ LET a == Head(apQueue).app
           d == main[a].access.datum
       IN  /\ RegisterAccess(a, d, main[a].access.mode)
           /\ main' = [main EXCEPT ![a].in =
                          IF main[a].access.mode = "W" THEN NoVersion ELSE <<d, Registered(d)>>]
    /\ UNCHANGED <<dispatcherVars, historyVars>>

\* A file is waited for in mode R whatever the access, an object in mode RW.
WaitMode(access) == IF access.kind = "object" THEN "RW" ELSE "R"

ServeWaitForTask ==
    /\ Serving("WAIT_FOR_TASK")
    /\ LET a == Head(apQueue).app
       IN  FindWaitedTask(a, main[a].access.datum, WaitMode(main[a].access))
    /\ UNCHANGED <<dispatcherVars, main, historyVars>>

ServeBarrier ==
    /\ Serving("BARRIER")
    /\ Barrier(Head(apQueue).app)
    /\ UNCHANGED <<dispatcherVars, main, historyVars>>

ServeEndOfApp ==
    /\ Serving("END_OF_APP")
    /\ NoMoreTasks(Head(apQueue).app)
    /\ UNCHANGED <<dispatcherVars, main, historyVars>>

-----------------------------------------------------------------------------
(* The Task Dispatcher thread, the scheduler and the workers.              *)

DispatcherStep ==
    /\ \/ TakeRequest
       \/ HasNext
       \/ EndOfPredecessors
       \/ NextPredecessor
       \/ DropRequest
    /\ UNCHANGED <<apQueue, main, historyVars>>

LaunchExecution(t, i) ==
    /\ Launch(t, i)
    /\ UNCHANGED <<apQueue, main, historyVars>>

\* doCompleted ends with the notification to the Access Processor (notifyTaskEnd).
CompleteExecution(t, i) ==
    /\ Complete(t, i)
    /\ apQueue' = Append(apQueue, TaskEnd(t))
    /\ UNCHANGED <<main, historyVars>>

-----------------------------------------------------------------------------
MainStep(a) ==
    \/ Registration(a)
    \/ WaitReturns(a)
    \/ BarrierReturns(a)
    \/ NoMoreTasksReturns(a)

Serve ==
    \/ ServeAnalyse
    \/ ServeTaskEnd
    \/ ServeRegister
    \/ ServeWaitForTask
    \/ ServeBarrier
    \/ ServeEndOfApp

Next ==
    \/ \E a \in Apps :
          \/ MainStep(a)
          \/ \E params \in Signatures, copies \in Copies : NewTask(a, params, copies)
          \/ \E access \in MainAccesses : MainAccess(a, access)
          \/ CallBarrier(a)
          \/ CallNoMoreTasks(a)
    \/ Serve
    \/ DispatcherStep
    \/ \E t \in Task : \E i \in DOMAIN exec[t] : LaunchExecution(t, i) \/ CompleteExecution(t, i)

Spec == Init /\ [][Next]_vars

\* The two threads of the master run, released programs resume, and the workers run what
\* the scheduler gives them to the end.  Nothing obliges a program to make a call.
Fairness ==
    /\ WF_vars(Serve)
    /\ WF_vars(DispatcherStep)
    /\ \A a \in Apps : WF_vars(MainStep(a))
    /\ \A t \in Task :
          /\ WF_vars(\E i \in DOMAIN exec[t] : LaunchExecution(t, i))
          /\ WF_vars(\E i \in DOMAIN exec[t] : CompleteExecution(t, i))

FairSpec == Spec /\ Fairness

-----------------------------------------------------------------------------
Analysed(t) == t \in Created /\ ~Contains(apQueue, Analyse(t))
Ended(t) == Finished(t) /\ ~Contains(apQueue, TaskEnd(t))

\* The last task that generates a version of d up to the v-th.
WriterUpTo(d, v) ==
    LET versions == {w \in 1 .. v : authors[d][w] \in Task}
    IN  IF versions = {} THEN NoTask
        ELSE authors[d][CHOOSE w \in versions : \A x \in versions : x <= w]

Generated(d, v) == WriterUpTo(d, v) # NoTask => Finished(WriterUpTo(d, v))

\* Submission order is analysis order: what the registry says a task reads is what the
\* order of the programs says (TaskAnalyser.processTask, in the order of the one queue).
ReadsFollowProgramOrder == \A t \in Task : Analysed(t) => reads[t] = wanted[t]

\* A task runs only when the other tasks that generate the versions it reads have finished,
\* all their copies included (dependencies found by checkDependencyForRead, turned into
\* dependencies between executions by the constructor of ExecutionAction).
ReadsAreGenerated ==
    \A t \in Created : Started(t) =>
        \A r \in wanted[t] :
            authors[r[1]][r[2]] \in Task \ {t} => Finished(authors[r[1]][r[2]])

\* A main program that is told it may fetch a datum finds the last task that writes it, up
\* to the version it registered for, finished (mainAccessToFile, mainAcessToObject).
MainSeesLastWriter ==
    \A a \in Apps : main[a].call = "wait" /\ a \in permits => Generated(main[a].in[1], main[a].in[2])

\* A barrier, or the end of the application, is released only when every task the
\* application has generated has finished (TaskAnalyser.barrier, noMoreTasks, endTask).
BarrierWaitsForAll ==
    \A a \in Apps : main[a].call \in {"barrier", "noMoreTasks"} /\ a \in permits =>
        \A t \in Created : tasks[t].app = a => Finished(t)

\* appIdToTaskCount counts exactly the tasks analysed whose end has not been treated.
CountIsExact ==
    \A a \in Apps : CountOf(a) =
        Cardinality({t \in Created : tasks[t].app = a /\ Analysed(t) /\ ~Ended(t)})

\* The predecessors and successors of the tasks mirror each other, with the number of
\* data that relate them, and go forward (addDataDependency, releaseDataDependents).
GraphIsSymmetric ==
    \A s, t \in Task :
        /\ Cardinality(Occurrences(succs[s], t)) = Cardinality(Occurrences(preds[t], s))
        /\ Contains(succs[s], t) => s < t

-----------------------------------------------------------------------------
(* The promise: TaskGraph, of which a task is generated when the program   *)
(* calls newTask, starts with its first execution and finishes with its    *)
(* last one.  A program synchronises once its access is registered.        *)

PhaseOf(t) ==
    IF Finished(t) THEN "finished" ELSE IF Started(t) THEN "running" ELSE "generated"

NeedsOf(t) == {authors[r[1]][r[2]] : r \in wanted[t]} \cap (Task \ {t})

AwaitedBy(a) ==
    CASE main[a].call = "wait" -> {WriterUpTo(main[a].in[1], main[a].in[2])} \ {NoTask}
      [] main[a].call \in {"barrier", "noMoreTasks"} -> {t \in Created : tasks[t].app = a}
      [] OTHER -> {}

Graph == INSTANCE TaskGraph WITH
    Programs <- Apps,
    owner <- [t \in Created |-> tasks[t].app],
    needs <- [t \in Created |-> NeedsOf(t)],
    phase <- [t \in Created |-> PhaseOf(t)],
    awaits <- [a \in Apps |-> AwaitedBy(a)]

\* The runtime implements the graph of tasks: no task runs twice or before what it needs,
\* no program goes on before what it awaits (AccessProcessor and TaskAnalyser as a whole).
ImplementsTaskGraph == Graph!GraphSpec

\* A program stopped in a call is always let go, unless a task was lost.
CallsReturn ==
    \A a \in Apps : main[a].call # "running" ~> main[a].call \in {"running", "ended"} \/ lost # {}

\* Every task generated finishes, unless a task was lost.
TasksFinish == \A t \in Task : t \in Created ~> Finished(t) \/ lost # {}

\* A barrier is always left: what freezing "until all previous tasks have been executed"
\* promises when every execution ends.
BarrierIsLeft ==
    \A a \in Apps : main[a].call = "barrier" ~> main[a].call = "running"
=============================================================================
