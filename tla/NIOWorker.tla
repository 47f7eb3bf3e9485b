----------------------------- MODULE NIOWorker -----------------------------
(***************************************************************************)
(* A worker of the NIO adaptor and the master that sends it jobs           *)
(* (NIOWorker.java, its thread pool, and NIOAdaptor.java).                 *)
(*                                                                         *)
(* The master sends a job with the locations of its data.  The worker asks *)
(* for the files it does not have, counts those that are missing, and when *)
(* none is gives the job to its threads, or reports it failed if one could *)
(* not be had.  When the master stops the worker, first the threads end,   *)
(* leaving the jobs that wait for them, then the transfers, then the       *)
(* process.                                                                *)
(*                                                                         *)
(* Each message has a connection of its own, so any may arrive first.      *)
(* Parameters are files, each with the datum it comes from and the target  *)
(* it is stored in: a parameter that is only read has the file of the      *)
(* datum as target, one that is changed the file of the next version.      *)
(* Sources are preserved.  Local copies and file contents always succeed.  *)
(***************************************************************************)
EXTENDS NIOAgent

CONSTANTS
    Jobs,
    Names,        \* of data, and of files
    ParamsOf,     \* the parameters of each job, a sequence of [data, target]
    Pool          \* number of threads of the worker

ASSUME WorkerAssumption ==
    /\ Pool \in Nat \ {0}
    /\ ParamsOf \in [Jobs -> Seq([data : Names, target : Names])]

\* A version is read under its own name.  It is written by one parameter of one job, under a
\* name of its own, which this job does not read.
ASSUME TargetsAssumption ==
    \A j, k \in Jobs : \A p \in ToSet(ParamsOf[j]), q \in ToSet(ParamsOf[k]) :
        p.target # p.data =>
            /\ j = k => p.target # q.data
            /\ q.target # q.data /\ (p.target = q.target \/ p.data = q.data) => j = k /\ p = q

VARIABLES
    RUNNING_JOBS,  \* jobs of the master without an answer
    submitted,     \* jobs that were sent
    known,         \* data the master knows to be in the worker
    toWorker,      \* messages on their way
    toMaster,
    params,        \* for each job the worker has, its files that are missing
    error,         \* jobs of which a datum could not be had
    files,         \* the files of the worker
    queue,         \* jobs for the threads
    running,       \* jobs the threads execute
    pool,          \* "up", "stopping" or "down"
    stop,          \* how far the master has stopped the worker
    ended,         \* whether the worker process has shut down
    lost           \* jobs with a request that nobody will answer

masterVars == <<RUNNING_JOBS, submitted, known, stop>>
taskVars == <<params, error, files, queue, lost>>
threadVars == <<running, pool>>
vars == <<agentVars, masterVars, toWorker, toMaster, taskVars, threadVars, ended>>

Job(j, hosted) == [kind |-> "job", job |-> j, hosted |-> hosted]
Command(c) == [kind |-> c]
TaskDone(j, successful) == [kind |-> "taskDone", job |-> j, successful |-> successful]
DataReceived(j) == [kind |-> "dataReceived", job |-> j]

\* WorkerDataRequest, for the i-th parameter of a job.
Request(j, i) ==
    [data |-> ParamsOf[j][i].data, target |-> ParamsOf[j][i].target, job |-> j, param |-> i]

DataOf(j) == {p.data : p \in ToSet(ParamsOf[j])}
Targets(j) == {p.target : p \in ToSet(ParamsOf[j])}
Results(j) == {p.target : p \in {q \in ToSet(ParamsOf[j]) : q.target # q.data}}

Init ==
    /\ AgentInit
    /\ RUNNING_JOBS = {} /\ submitted = {} /\ known = {}
    /\ toWorker = {} /\ toMaster = {}
    /\ params = <<>> /\ error = {} /\ files = {} /\ queue = <<>> /\ lost = {}
    /\ running = {} /\ pool = "up"
    /\ stop = "no" /\ ended = FALSE

-----------------------------------------------------------------------------
(* The master.                                                             *)

\* submitTask: the job is registered before it is sent.  The jobs that write what it reads
\* have ended well.
SubmitTask(j) ==
    /\ j \notin submitted /\ stop = "no"
    /\ \A k \in Jobs : DataOf(j) \cap Results(k) \subseteq known
    /\ submitted' = submitted \cup {j}
    /\ RUNNING_JOBS' = RUNNING_JOBS \cup {j}
    /\ toWorker' = toWorker \cup {Job(j, known \cap DataOf(j))}
    /\ UNCHANGED <<agentVars, known, stop, toMaster, taskVars, threadVars, ended>>

ReceivedTaskDone(m) ==
    /\ m.kind = "taskDone"
    /\ RUNNING_JOBS' = RUNNING_JOBS \ {m.job}
    /\ known' = IF m.successful THEN known \cup Results(m.job) ELSE known
    /\ UNCHANGED <<submitted, stop, toWorker>>

\* copiedData: the locations of the data in the worker are registered.
CopiedData(m) ==
    /\ m.kind = "dataReceived"
    /\ known' = known \cup (DataOf(m.job) \cap Targets(m.job))
    /\ UNCHANGED <<RUNNING_JOBS, submitted, stop, toWorker>>

\* The threads of the worker have ended: its shutdown is ordered.
ExecutorsStopped(m) ==
    /\ m.kind = "executorShutdownACK"
    /\ stop' = "worker"
    /\ toWorker' = toWorker \cup {Command("shutdown")}
    /\ UNCHANGED <<RUNNING_JOBS, submitted, known>>

ShutdownNotification(m) ==
    /\ m.kind = "shutdownACK"
    /\ stop' = "done"
    /\ UNCHANGED <<RUNNING_JOBS, submitted, known, toWorker>>

MasterReceives ==
    \E m \in toMaster :
        /\ toMaster' = toMaster \ {m}
        /\ ReceivedTaskDone(m) \/ CopiedData(m) \/ ExecutorsStopped(m) \/ ShutdownNotification(m)
        /\ UNCHANGED <<agentVars, taskVars, threadVars, ended>>

\* The runtime stops, after its last job or, on a fatal error, at any time.
StopWorker ==
    /\ stop = "no"
    /\ stop' = "executors"
    /\ toWorker' = toWorker \cup {Command("executorShutdown")}
    /\ UNCHANGED <<agentVars, RUNNING_JOBS, submitted, known, toMaster, taskVars, threadVars, ended>>

-----------------------------------------------------------------------------
(* The communications of the worker.  Its thread waits for the others when *)
(* they are to end.                                                        *)

Listening == pool # "stopping" /\ ~ended

\* shutdown: the end of the last transfer ends the process.
ShutdownIfReady == ended' = (finish' /\ NoPendingTransfers)

Send(messages) ==
    toMaster' = toMaster \cup messages \cup
        (IF ended' # ended THEN {Command("shutdownACK")} ELSE {})

\* executeTask for some jobs, sendTaskDone without success for others.
ExecuteTasks(jobs, failed) ==
    /\ \E order \in SetToSeqs(jobs) : queue' = queue \o order
    /\ Send({DataReceived(j) : j \in jobs} \cup {TaskDone(j, FALSE) : j \in failed})

\* askForFile: a file that is not in the worker, nor its datum, is asked for.  One that exists
\* when the worker looks, or was copied for an earlier parameter, is asked for only while its
\* datum is being transferred: it may be the file that is being received.
Missing(p, there, hosted) == p.target \notin there /\ p.data \notin hosted
AsksForFault(j, i, there, hosted) == Missing(ParamsOf[j][i], there, hosted)
AsksFor(j, i, there, hosted) ==
    LET p == ParamsOf[j][i]
        earlier == {ParamsOf[j][k] : k \in 1 .. i - 1}
    IN  \/ Missing(p, there, hosted)
        \/ /\ p.target \in there \/ p \in earlier
           /\ \/ \E q \in dataToRequests : q.data = p.data
              \/ \E q \in earlier : q.data = p.data /\ Missing(q, there, hosted)

\* receivedNewTask.  The file of a transfer under way exists once its first
\* bytes have come.
ReceivedNewTask(m) ==
    /\ m.kind = "job"
    /\ \E begun \in SUBSET {r.target : r \in ongoingTransfers} :
       LET j == m.job
           asked == {Request(j, i) : i \in {k \in DOMAIN ParamsOf[j] :
                                              AsksFor(j, k, files \cup begun, m.hosted)}}
           copied == {p.target : p \in {q \in ToSet(ParamsOf[j]) : q.data \in m.hosted}} \ begun
       IN  /\ AddRequests(asked)
           /\ files' = files \cup copied
           /\ params' = [i \in DOMAIN params \cup {j} |-> IF i = j THEN Cardinality(asked) ELSE params[i]]
           /\ UNCHANGED <<sendVars, finish, error, lost, threadVars, ended>>
           /\ ExecuteTasks(IF asked = {} THEN {j} ELSE {}, {})

\* shutdownExecutionManager: the threads will find nothing but their end.
ShutdownExecutionManager(m) ==
    /\ m.kind = "executorShutdown"
    /\ pool' = "stopping"
    /\ UNCHANGED <<agentVars, toMaster, taskVars, running, ended>>

\* receivedShutdown.
ReceivedShutdown(m) ==
    /\ m.kind = "shutdown"
    /\ finish' = TRUE
    /\ UNCHANGED <<receiveVars, sendVars, taskVars, threadVars>>
    /\ ShutdownIfReady
    /\ Send({})

WorkerReceives ==
    /\ Listening
    /\ \E m \in toWorker :
          /\ toWorker' = toWorker \ {m}
          /\ ReceivedNewTask(m) \/ ShutdownExecutionManager(m) \/ ReceivedShutdown(m)
    /\ UNCHANGED masterVars

\* The requests of a list that are answered, and what becomes of their jobs.
Requests(r) == {q \in dataToRequests : q.data = r.data}
CountOf(requests, j) == Cardinality({q \in requests : q.job = j})

\* receivedValue, handleRequestedDataNotAvailableError: the last answer to a
\* job executes it, or reports that it failed.
AnswerRequestsFault(requests, failed) ==
    /\ params' = [j \in DOMAIN params |-> params[j] - CountOf(requests, j)]
    /\ error' = error \cup failed
    /\ LET complete == {j \in DOMAIN params : CountOf(requests, j) > 0 /\ params'[j] = 0}
       IN  ExecuteTasks(complete \ error', failed)
AnswerRequests(requests, failed) ==
    /\ params' = [j \in DOMAIN params |-> params[j] - CountOf(requests, j)]
    /\ error' = error \cup failed
    /\ LET complete == {j \in DOMAIN params : CountOf(requests, j) > 0 /\ params'[j] = 0}
       IN  ExecuteTasks(complete \ error', complete \cap error')

\* receivedData: those who asked for the file that came have it.  It is
\* copied for those who asked for another, unless there is a file of that
\* name: they get no answer.
ReceivedData(r) ==
    LET copies == {q.target : q \in Requests(r)} \ (files \cup {r.target})
        answered == {q \in Requests(r) : q.target \in copies \cup {r.target}}
    IN  /\ files' = files \cup {r.target} \cup copies
        /\ lost' = lost \cup (Requests(r) \ answered)
        /\ AnswerRequests(answered, {})

\* receivedRequestedDataNotAvailableError: the other node closed the connection.
DataNotAvailableFault(r) ==
    /\ error' = error \cup {q.job : q \in Requests(r)}
    /\ UNCHANGED <<params, queue, toMaster, files, lost>>
DataNotAvailable(r) ==
    /\ AnswerRequests(Requests(r), {q.job : q \in Requests(r)})
    /\ UNCHANGED <<files, lost>>

\* The end of a transfer may be what the shutdown waits for.
EndOfTransferFault ==
    /\ Listening
    /\ \E r \in ongoingTransfers :
          /\ TransferEnds(r)
          /\ UNCHANGED <<sendVars, finish, masterVars, toWorker, threadVars, ended>>
          /\ ReceivedData(r) \/ DataNotAvailable(r)
EndOfTransfer ==
    /\ Listening
    /\ \E r \in ongoingTransfers :
          /\ TransferEnds(r)
          /\ UNCHANGED <<sendVars, finish, masterVars, toWorker, threadVars>>
          /\ ShutdownIfReady
          /\ ReceivedData(r) \/ DataNotAvailable(r)

SendDemanded ==
    /\ Listening
    /\ \E exists \in BOOLEAN : SendData(exists)
    /\ UNCHANGED <<receiveVars, finish, masterVars, toWorker, toMaster, taskVars, threadVars, ended>>

SendEnds ==
    /\ Listening
    /\ UNCHANGED <<receiveVars, finish, masterVars, toWorker, taskVars, threadVars>>
    /\ \/ ReleaseSendSlot /\ ShutdownIfReady
       \/ ExtraSendEnds /\ UNCHANGED ended
    /\ Send({})

-----------------------------------------------------------------------------
(* The threads of the worker.                                              *)

\* A thread takes a job, unless it is to end.
Dequeue ==
    /\ pool = "up" /\ queue # <<>> /\ Cardinality(running) < Pool
    /\ running' = running \cup {Head(queue)}
    /\ queue' = Tail(queue)
    /\ UNCHANGED <<agentVars, masterVars, toWorker, toMaster, params, error, files, lost, pool, ended>>

\* It executes the job, well or badly, and reports it.
ExecuteJob(j) ==
    /\ j \in running
    /\ running' = running \ {j}
    /\ \E successful \in BOOLEAN : toMaster' = toMaster \cup {TaskDone(j, successful)}
    /\ UNCHANGED <<agentVars, masterVars, toWorker, taskVars, pool, ended>>

\* All threads have ended; the communications go on.
ThreadsEnd ==
    /\ pool = "stopping" /\ running = {}
    /\ pool' = "down"
    /\ toMaster' = toMaster \cup {Command("executorShutdownACK")}
    /\ UNCHANGED <<agentVars, masterVars, toWorker, taskVars, running, ended>>

Progress ==
    \/ MasterReceives \/ WorkerReceives
    \/ EndOfTransfer \/ SendEnds
    \/ Dequeue \/ (\E j \in Jobs : ExecuteJob(j)) \/ ThreadsEnd

Next ==
    \/ Progress
    \/ \E j \in Jobs : SubmitTask(j)
    \/ SendDemanded
    \/ StopWorker

Spec == Init /\ [][Next]_vars

\* Messages arrive, transfers end, well or badly, and jobs return.  Nobody
\* need submit a job, demand a datum or stop the worker.
Fairness == WF_vars(Progress)

FairSpec == Spec /\ Fairness

-----------------------------------------------------------------------------

TypeOK ==
    /\ \A q \in dataToRequests \cup lost :
          q.job \in Jobs /\ q.param \in DOMAIN ParamsOf[q.job] /\ q = Request(q.job, q.param)
    /\ receiveTransfers \in 0 .. MaxReceive /\ sendTransfers \in 0 .. MaxSend
    /\ RUNNING_JOBS \subseteq submitted /\ submitted \subseteq Jobs
    /\ DOMAIN params \subseteq Jobs /\ \A j \in DOMAIN params : params[j] \in Nat
    /\ running \subseteq Jobs /\ Cardinality(running) =< Pool
    /\ pool \in {"up", "stopping", "down"}
    /\ stop \in {"no", "executors", "worker", "done"}

\* The receive slots taken are those of the transfers under way, and of the
\* connections that were refused.
SlotsAccounted ==
    receiveTransfers = Cardinality(ongoingTransfers) + Cardinality(refused)

\* The requests for a datum share one transfer, asked for with one of them:
\* it is pending, under way or was refused, and when it ends none of the
\* requests is left.
OneTransferPerDatum ==
    LET transfers == ToSet(pendingRequests) \cup ongoingTransfers \cup refused
        listed == {q.data : q \in dataToRequests}
    IN  /\ transfers \subseteq dataToRequests
        /\ listed = {r.data : r \in transfers}
        /\ Cardinality(listed)
             = Len(pendingRequests) + Cardinality(ongoingTransfers) + Cardinality(refused)

\* What a job is said to miss are its requests in the lists, and those that
\* were lost: a wrong count would execute it without its data, or never.
MissingCounted ==
    \A j \in DOMAIN params : params[j] = CountOf(dataToRequests \cup lost, j)

\* A job of the master without an answer is in one place, on its way to one:
\* none is executed twice, answered twice, or answered and executed.
OneAnswerPerJob ==
    \A j \in submitted :
        Cardinality({m \in toWorker : m.kind = "job" /\ m.job = j})
        + (IF j \in DOMAIN params /\ params[j] > 0 THEN 1 ELSE 0)
        + Cardinality({i \in DOMAIN queue : queue[i] = j})
        + Cardinality({j} \cap running)
        + Cardinality({m \in toMaster : m.kind = "taskDone" /\ m.job = j})
        = (IF j \in RUNNING_JOBS THEN 1 ELSE 0)

\* A job is given to the threads only with all its files there, and none of
\* them still being received.
WholeFiles ==
    \A j \in ToSet(queue) \cup running :
        /\ j \notin error
        /\ Targets(j) \subseteq files
        /\ \A r \in ongoingTransfers : r.target \notin Targets(j)

\* Every job is answered, unless the worker is stopped, a connection was
\* refused (its slot is lost, and all jobs that need its datum), or a file
\* could not be copied to the target of the job.
JobsAnswered ==
    \A j \in Jobs :
        j \in submitted ~>
            j \notin RUNNING_JOBS \/ stop # "no" \/ refused # {} \/ \E r \in lost : r.job = j

\* A worker that is to stop does so, unless it lost a slot: it then waits for
\* ever for a transfer that is none, and the master for the worker.
WorkerStops == stop # "no" ~> stop = "done" \/ SlotsLost
=============================================================================
