---------------------------- MODULE PiperWorker ----------------------------
(***************************************************************************)
(* The persistent Python worker with its object caches (piper_worker.py    *)
(* and the worker part of task.py, USE_CACHE being on).                    *)
(*                                                                         *)
(* A worker process runs one task at a time.  Before a task it asks the    *)
(* cache process for the object of the parameter, unless its own cache     *)
(* has it; after a task it hands the cache process a segment with what the *)
(* task wrote.  The cache process serves one request at a time and keeps   *)
(* the segments in a PersistentCache.  Requests travel in one queue,       *)
(* answers in a pipe per worker; the pipe also carries the 'D' by which a  *)
(* worker says that it has attached the segment it was sent.               *)
(*                                                                         *)
(* A task reads one object, or changes one, or returns one.  Which names   *)
(* the cache of a worker keeps is left open, and so are the contents of    *)
(* objects beyond their name, and the time at which the Java worker sends  *)
(* tasks and "quit".  The file of a parameter may go once its task ended.  *)
(***************************************************************************)
EXTENDS PersistentCache, ShmManager, Sequences

CONSTANTS
    Workers,       \* the worker processes
    CacheProc,     \* the cache process
    Names,         \* names of the files of the objects
    SegmentBytes,  \* size of a segment, as a worker reports it
    MaxTasks       \* bound on the tasks of all workers

ASSUME WorkerAssumption ==
    /\ Names \subseteq Nat
    /\ SegmentBytes \in Nat
    /\ MaxTasks \in Nat
    /\ CacheProc \notin Workers
    /\ Processes = Workers \cup {CacheProc}

VARIABLES
    cache,        \* the cache of the cache process
    manager,      \* its variable manager, as a set of at most one key
    shm_manager,  \* its variable shm_manager, likewise
    serving,      \* where the cache process is in its loop
    queue,        \* cache_queue
    answers,      \* what was sent to each worker through its pipe
    attached,     \* what each worker sent through its pipe
    pc,           \* where each worker is
    task,         \* its task: the name of the object, and whether it writes it
    local,        \* the names in local_cache of each worker
    held,         \* its variable manager, likewise
    tasks         \* number of tasks begun

cacheVars == <<cache, manager, shm_manager, serving>>
pipeVars == <<queue, answers, attached>>
workerVars == <<pc, task, local, held, tasks>>
vars == <<shmVars, cacheVars, pipeVars, workerVars>>

Directions == {"IN", "INOUT", "RETURN"}
NoTask == [name |-> 0, writes |-> FALSE]
Listening == [step |-> "listen"]
End == [kind |-> "end"]
Segment(key) == [kind |-> "segment", key |-> key]
No == [kind |-> "N"]
Done == [kind |-> "DONE"]

Init ==
    /\ ShmInit
    /\ cache = EmptyCache /\ manager = {} /\ shm_manager = {}
    /\ serving = Listening
    /\ queue = <<>>
    /\ answers = [w \in Workers |-> <<>>]
    /\ attached = [w \in Workers |-> <<>>]
    /\ pc = [w \in Workers |-> "idle"]
    /\ task = [w \in Workers |-> NoTask]
    /\ local = [w \in Workers |-> {}]
    /\ held = [w \in Workers |-> {}]
    /\ tasks = 0

Goto(w, step) == pc' = [pc EXCEPT ![w] = step]
Send(w, message) == answers' = [answers EXCEPT ![w] = Append(@, message)]
Received(w) == answers' = [answers EXCEPT ![w] = Tail(@)]
Enqueue(message) == queue' = Append(queue, message)

-----------------------------------------------------------------------------
(* The cache process.                                                      *)

\* The managers that the cache process refers to.
Held == Objects(cache) \cup manager \cup shm_manager

\* It deallocates those it no longer refers to, before it goes on.
DropUnreferenced(before) ==
    Drop(CacheProc, before \ (Objects(cache)' \cup manager' \cup shm_manager'))

CacheRuns(step) == Quiet(CacheProc) /\ serving.step = step

Request(kind) ==
    /\ CacheRuns("listen") /\ queue # <<>> /\ Head(queue).kind = kind
    /\ queue' = Tail(queue)

Reply(w, message) == serving' = [step |-> "reply", worker |-> w, message |-> message]

\* The process ends with an exception; nobody else reads the queue.
CacheDies ==
    /\ Death(CacheProc)
    /\ serving' = [step |-> "died"]
    /\ cache' = EmptyCache /\ manager' = {} /\ shm_manager' = {}

\* A worker has written a segment: it replaces the object of that name, or
\* is a new one, of size 1.  (KeyNamesSegment says that attaching succeeds.)
ServeAttach ==
    /\ Request("attach")
    /\ LET r == Head(queue) IN
       /\ Attach(CacheProc, r.key)
       /\ manager' = {r.key}
       /\ IF Has(cache, r.name)
          THEN /\ cache' = Hit(cache, r.name)
               /\ serving' = [step |-> "replace", worker |-> r.worker, name |-> r.name]
          ELSE /\ cache' = Add(cache, r.name, r.key, 1)
               /\ Reply(r.worker, Done)
    /\ UNCHANGED <<shm_manager, dealloc>>
    /\ DropUnreferenced(Held)
    /\ UNCHANGED <<answers, attached, workerVars>>

Replace ==
    /\ CacheRuns("replace")
    /\ \E key \in manager : cache' = SetObject(cache, serving.name, key, SegmentBytes)
    /\ Reply(serving.worker, Done)
    /\ UNCHANGED <<manager, shm_manager, segs, nextKey, dealloc>>
    /\ DropUnreferenced(Held)
    /\ UNCHANGED <<pipeVars, workerVars>>

\* The object asked for is in the cache.
ServeSegment ==
    /\ Request("ask")
    /\ LET r == Head(queue) IN
       /\ Has(cache, r.name)
       /\ cache' = Hit(cache, r.name)
       /\ shm_manager' = {Get(cache, r.name)}
       /\ UNCHANGED <<manager, segs, nextKey, dealloc>>
       /\ DropUnreferenced(Held)
       /\ Reply(r.worker, Segment(Get(cache, r.name)))
    /\ UNCHANGED <<answers, attached, workerVars>>

\* The answer; after a segment's key, the process waits for the worker.
SendReply ==
    /\ CacheRuns("reply")
    /\ Send(serving.worker, serving.message)
    /\ serving' = IF serving.message = Done THEN Listening
                  ELSE [step |-> "wait", worker |-> serving.worker]
    /\ UNCHANGED <<shmVars, cache, manager, shm_manager, queue, attached, workerVars>>

WaitFault ==
    /\ CacheRuns("wait")
    /\ serving' = Listening
    /\ UNCHANGED <<shmVars, cache, manager, shm_manager, queue, answers, attached, workerVars>>
Wait ==
    /\ CacheRuns("wait") /\ attached[serving.worker] # <<>>
    /\ attached' = [attached EXCEPT ![serving.worker] = Tail(@)]
    /\ serving' = Listening
    /\ UNCHANGED <<shmVars, cache, manager, shm_manager, queue, answers, workerVars>>

\* It is not: the worker is told so, and then the object is stored.  The
\* comment of the request is meant to exclude objects that the task changes,
\* but it is a string whose first character is compared: none is excluded.
ServeNo ==
    /\ Request("ask")
    /\ LET r == Head(queue) IN
       /\ ~Has(cache, r.name)
       /\ Send(r.worker, No)
       /\ serving' = [step |-> "load", worker |-> r.worker, name |-> r.name, file |-> TRUE]
    /\ UNCHANGED <<shmVars, cache, manager, shm_manager, attached, workerVars>>

\* The file is read and written to a segment, unless there is no key left or
\* the file is gone.
Load ==
    /\ CacheRuns("load")
    /\ LET key == NewKey(CacheProc) IN
       /\ Create(CacheProc, serving.name)
       /\ manager' = {key}
       /\ cache' = Add(cache, serving.name, key, 1)
       /\ UNCHANGED <<shm_manager, dealloc>>
       /\ DropUnreferenced(Held)
    /\ serving' = Listening
    /\ UNCHANGED <<pipeVars, workerVars>>

LoadFails ==
    /\ CacheRuns("load")
    /\ ~serving.file \/ ~CanCreate(CacheProc)
    /\ CacheDies
    /\ UNCHANGED <<nextKey, pipeVars, workerVars>>

\* ##END##: the process returns, and its cache with it.
ServeEnd ==
    /\ Request("end")
    /\ cache' = EmptyCache /\ manager' = {} /\ shm_manager' = {}
    /\ Drop(CacheProc, Held)
    /\ serving' = [step |-> "ended"]
    /\ UNCHANGED <<segs, nextKey, dealloc, answers, attached, workerVars>>

Serve ==
    \/ ServeAttach \/ Replace \/ ServeSegment \/ SendReply \/ Wait
    \/ ServeNo \/ Load \/ LoadFails \/ ServeEnd

-----------------------------------------------------------------------------
(* A worker.                                                               *)

Runs(w, step) == Quiet(w) /\ pc[w] = step

\* local_cache.add or set_object: what is cached is cached if there is room,
\* and any other object may go.
Remember(w) ==
    \E kept \in SUBSET (local[w] \cup {task[w].name}) : local' = [local EXCEPT ![w] = kept]

\* endTask is sent.  The files of the task may be removed from now on.
EndTask(w) ==
    /\ Goto(w, "idle")
    /\ task' = [task EXCEPT ![w] = NoTask]
    /\ serving' = IF serving.step = "load" /\ serving.worker = w
                  THEN [serving EXCEPT !.file = FALSE] ELSE serving
    /\ UNCHANGED <<cache, manager, shm_manager>>

\* A task comes; unless the worker has the object of its parameter, it asks
\* the cache process for it.
Start(w, name, direction) ==
    /\ Runs(w, "idle") /\ tasks < MaxTasks
    /\ tasks' = tasks + 1
    /\ task' = [task EXCEPT ![w] = [name |-> name, writes |-> direction # "IN"]]
    /\ IF direction = "RETURN" \/ name \in local[w]
       THEN Goto(w, "run") /\ UNCHANGED queue
       ELSE Goto(w, "asked") /\ Enqueue([kind |-> "ask", worker |-> w, name |-> name])
    /\ UNCHANGED <<shmVars, cacheVars, answers, attached, local, held>>

Answered(w) == Runs(w, "asked") /\ answers[w] # <<>>
Found(w) == Answered(w) /\ Head(answers[w]).kind = "segment"

\* The answer names a segment: the worker attaches it, and says so.
AttachAnswerFault(w) ==
    /\ Found(w)
    /\ LET key == Head(answers[w]).key IN
       /\ Attach(w, key)
       /\ held' = [held EXCEPT ![w] = {key}]
    /\ Received(w)
    /\ Goto(w, "read")
    /\ UNCHANGED <<dropped, dealloc, cacheVars, queue, attached, task, local, tasks>>
AttachAnswer(w) ==
    /\ Found(w)
    /\ LET key == Head(answers[w]).key IN
       /\ Attach(w, key)
       /\ held' = [held EXCEPT ![w] = {key}]
    /\ Received(w)
    /\ attached' = [attached EXCEPT ![w] = Append(@, "D")]
    /\ Goto(w, "read")
    /\ UNCHANGED <<dropped, dealloc, cacheVars, queue, task, local, tasks>>

\* Only an object that the task does not change is cached.
RememberRead(w) == IF task[w].writes THEN UNCHANGED local ELSE Remember(w)

\* read_object, and the manager goes.
ReadObject(w) ==
    /\ Runs(w, "read")
    /\ held' = [held EXCEPT ![w] = {}]
    /\ Drop(w, held[w])
    /\ RememberRead(w)
    /\ Goto(w, "run")
    /\ UNCHANGED <<segs, nextKey, dealloc, cacheVars, pipeVars, task, tasks>>

\* Any other answer: the worker reads the file.
ReadFile(w) ==
    /\ Answered(w) /\ ~Found(w)
    /\ Received(w)
    /\ RememberRead(w)
    /\ Goto(w, "run")
    /\ UNCHANGED <<shmVars, cacheVars, queue, attached, task, held, tasks>>

\* The function of the task returns; what it wrote goes to a segment.
Publish(w) ==
    /\ Runs(w, "run") /\ task[w].writes
    /\ Remember(w)
    /\ \/ /\ Create(w, task[w].name)
          /\ held' = [held EXCEPT ![w] = {NewKey(w)}]
          /\ Enqueue([kind |-> "attach", worker |-> w, name |-> task[w].name,
                      key |-> NewKey(w)])
          /\ Goto(w, "published")
          /\ UNCHANGED <<cacheVars, task>>
       \/ /\ CreateFails(w)
          /\ EndTask(w)
          /\ UNCHANGED <<held, queue>>
    /\ UNCHANGED <<dropped, dealloc, answers, attached, tasks>>

\* The answer, whatever it is, means that the cache process has the segment.
PublishedFault(w) ==
    /\ Runs(w, "published")
    /\ held' = [held EXCEPT ![w] = {}]
    /\ Drop(w, held[w])
    /\ Goto(w, "end")
    /\ UNCHANGED <<segs, nextKey, dealloc, cacheVars, pipeVars, task, local, tasks>>
Published(w) ==
    /\ Runs(w, "published") /\ answers[w] # <<>>
    /\ Received(w)
    /\ held' = [held EXCEPT ![w] = {}]
    /\ Drop(w, held[w])
    /\ Goto(w, "end")
    /\ UNCHANGED <<segs, nextKey, dealloc, cacheVars, queue, attached, task, local, tasks>>

\* The function returns and wrote nothing, or raises an exception.
Finish(w) ==
    /\ Runs(w, "run")
    /\ EndTask(w)
    /\ UNCHANGED <<shmVars, pipeVars, local, held, tasks>>

FinishPublished(w) ==
    /\ Runs(w, "end")
    /\ EndTask(w)
    /\ UNCHANGED <<shmVars, pipeVars, local, held, tasks>>

\* Every worker has read "quit" (from then on it is as if it got no task) and
\* has been joined by the main process, which ends the cache process.
JoinWorkers ==
    /\ \A w \in Workers : Runs(w, "idle")
    /\ pc' = [w \in Workers |-> "joined"]
    /\ Enqueue(End)
    /\ UNCHANGED <<shmVars, cacheVars, answers, attached, task, local, held, tasks>>

Work(w) ==
    \/ AttachAnswer(w) \/ ReadObject(w) \/ ReadFile(w)
    \/ Publish(w) \/ Published(w) \/ Finish(w) \/ FinishPublished(w)

\* A process deallocates managers before it does anything else.
DeallocateManager(p) ==
    /\ Deallocate(p)
    /\ UNCHANGED <<cacheVars, pipeVars, workerVars>>

Next ==
    \/ Serve
    \/ JoinWorkers
    \/ \E p \in Processes : DeallocateManager(p)
    \/ \E w \in Workers :
          \/ Work(w)
          \/ \E name \in Names, direction \in Directions : Start(w, name, direction)

Spec == Init /\ [][Next]_vars

\* The processes do not all stop while one of them can go on: functions of
\* tasks return, and the Java worker sends "quit" to each worker at some time.
Fairness == WF_vars(Next)

FairSpec == Spec /\ Fairness

-----------------------------------------------------------------------------

TypeOK ==
    /\ ShmTypeOK
    /\ manager \subseteq Nat /\ shm_manager \subseteq Nat
    /\ DOMAIN cache.H \subseteq Names
    /\ serving.step \in {"listen", "replace", "reply", "wait", "load", "ended", "died"}
    /\ pc \in [Workers -> {"idle", "asked", "read", "run", "published", "end", "joined"}]
    /\ task \in [Workers -> [name : Names \cup {0}, writes : BOOLEAN]]
    /\ local \in [Workers -> SUBSET Names]
    /\ held \in [Workers -> SUBSET Nat]
    /\ tasks \in 0 .. MaxTasks

\* Whoever is to attach a segment by its key finds it, with the object it
\* stands for: the key in an answer, in a request, and in the entries of the
\* cache.  Segments are removed by whoever detaches last, and their keys used
\* again, so this rests on the two waits: for 'D', and for 'DONE'.
KeyNamesSegment ==
    LET Names_(key, name) == key \in DOMAIN segs /\ segs[key].content = name IN
    /\ \A w \in Workers : \A i \in DOMAIN answers[w] :
          answers[w][i].kind = "segment" => Names_(answers[w][i].key, task[w].name)
    /\ \A i \in DOMAIN queue :
          queue[i].kind = "attach" => Names_(queue[i].key, queue[i].name)
    /\ \A w \in Workers : \A key \in held[w] :
          Names_(key, task[w].name) /\ w \in segs[key].at
    /\ \A n \in DOMAIN cache.H :
          Names_(cache.H[n].obj, n) /\ CacheProc \in segs[cache.H[n].obj].at

\* The map and the ordered set of the cache stay two views of one content: an
\* element that changed while it is in the set would be lost in it, and what
\* is evicted from one must leave the other.
IndexesAgree == Agree(cache)

\* The size that decides on evictions is that of the entries, and within the
\* limit.
SizeAccounted == cache.size = SizeOf(cache.S) /\ cache.size =< SizeLimit

\* Unless the cache process died, a segment is attached by a process that
\* will let go of it, or being removed: none is left in the system.
NoSegmentLeaked ==
    serving.step # "died" =>
        \A key \in DOMAIN segs :
           \/ CacheProc \in segs[key].at /\ key \in Held \cup dropped[CacheProc]
           \/ \E w \in Workers : w \in segs[key].at /\ key \in held[w] \cup dropped[w]
           \/ \E p \in Processes : dealloc[p].call # "none" /\ dealloc[p].key = key

\* A worker waits for an answer if and only if one is due, one at a time: its
\* request is queued or being served, or the answer is in the pipe.  The
\* cache process is the only one to read a 'D', and waits for it.
PipesInStep ==
    serving.step # "died" => \A w \in Workers :
        /\ Cardinality({i \in DOMAIN queue : queue[i].kind # "end" /\ queue[i].worker = w})
           + Len(answers[w])
           + (IF serving.step \in {"replace", "reply"} /\ serving.worker = w THEN 1 ELSE 0)
           = (IF pc[w] \in {"asked", "published"} THEN 1 ELSE 0)
        /\ attached[w] # <<>> =>
              Len(attached[w]) = 1 /\ serving = [step |-> "wait", worker |-> w]

\* An entry that is evicted was used less than any that stays.
LeastUsedFirst ==
    [][ serving'.step \notin {"ended", "died"} =>
        \A gone \in DOMAIN cache.H \ DOMAIN cache'.H : \A n \in DOMAIN cache.H \cap DOMAIN cache'.H :
           Before(cache.H[gone], cache'.H[n]) ]_vars

\* The workers end, and the cache process after them, unless this one died.
PersistentWorkerEnds ==
    <>(serving.step = "died" \/ (serving.step = "ended" /\ segs = <<>>))
=============================================================================
