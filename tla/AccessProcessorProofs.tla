----------------------- MODULE AccessProcessorProofs -----------------------
(***************************************************************************)
(* Proofs about the Access Processor, for every number of applications,    *)
(* data, tasks and copies: the versions the runtime gives the reads of a   *)
(* task are those of the order of the programs, and then, without          *)
(* replicated tasks, barriers wait for all the tasks of an application.    *)
(*                                                                         *)
(* The programs know the order of the accesses, the registry learns it     *)
(* through the queue of the Access Processor.  The invariant follows the   *)
(* versions along the queue: there is a history of the registry, from what *)
(* it holds now to what the programs count on, in which each request is    *)
(* the step between two neighbours.  It needs that a program stops on one  *)
(* call at a time: an access must not change while its request is queued.  *)
(***************************************************************************)
EXTENDS AccessProcessor, FiniteSetTheorems, SequenceTheorems, TLAPS

-----------------------------------------------------------------------------
(* Queues.                                                                 *)

Once(s, r) == \A i, j \in DOMAIN s : s[i] = r /\ s[j] = r => i = j

\* Every q in the queue comes before every r.
Ahead(s, q, r) == \A i, j \in DOMAIN s : s[i] = q /\ s[j] = r => i < j

\* A queue and the one it becomes when a request is offered.
LEMMA AppendIndexes ==
    ASSUME NEW S, NEW s \in Seq(S), NEW r \in S
    PROVE  /\ DOMAIN Append(s, r) = 1 .. Len(s) + 1
           /\ DOMAIN s = 1 .. Len(s) /\ Len(s) \in Nat
           /\ Append(s, r)[Len(s) + 1] = r
           /\ \A i \in 1 .. Len(s) : Append(s, r)[i] = s[i] /\ s[i] \in ToSet(s)
BY DEF ToSet

\* A request that is offered is in the queue, after all others (RequestQueue.enqueue).
LEMMA Offered ==
    ASSUME NEW S, NEW s \in Seq(S), NEW r \in S
    PROVE  ToSet(Append(s, r)) = ToSet(s) \cup {r}
<1> DEFINE n == Append(s, r)
<1>1. /\ DOMAIN n = 1 .. Len(s) + 1 /\ DOMAIN s = 1 .. Len(s) /\ Len(s) \in Nat
      /\ n[Len(s) + 1] = r /\ \A i \in 1 .. Len(s) : n[i] = s[i]
  BY AppendIndexes
<1> HIDE DEF n
<1>2. ASSUME NEW x \in ToSet(n) PROVE x \in ToSet(s) \cup {r}
  <2>1. PICK i \in DOMAIN n : x = n[i]
    BY <1>2 DEF ToSet
  <2>2. i = Len(s) + 1 \/ i \in 1 .. Len(s)
    BY <1>1, <2>1
  <2> QED BY <1>1, <2>1, <2>2 DEF ToSet
<1>3. r \in ToSet(n)
  <2>1. Len(s) + 1 \in DOMAIN n
    BY <1>1
  <2> QED BY <1>1, <2>1 DEF ToSet
<1>4. ASSUME NEW x \in ToSet(s) PROVE x \in ToSet(n)
  <2>1. PICK i \in DOMAIN s : x = s[i]
    BY <1>4 DEF ToSet
  <2>2. i \in DOMAIN n /\ n[i] = x
    BY <1>1, <2>1
  <2> QED BY <2>2 DEF ToSet
<1>5. ToSet(n) = ToSet(s) \cup {r}
  BY <1>2, <1>3, <1>4
<1> QED BY <1>5 DEF n

\* A request that is offered once is in the queue once.
LEMMA OfferedOnce ==
    ASSUME NEW S, NEW s \in Seq(S), NEW r \in S,
           NEW q, Once(s, q), q # r \/ q \notin ToSet(s)
    PROVE  Once(Append(s, r), q)
<1> DEFINE n == Append(s, r)
<1>1. /\ DOMAIN n = 1 .. Len(s) + 1 /\ DOMAIN s = 1 .. Len(s) /\ Len(s) \in Nat
      /\ n[Len(s) + 1] = r /\ \A i \in 1 .. Len(s) : n[i] = s[i] /\ s[i] \in ToSet(s)
  BY AppendIndexes
<1> HIDE DEF n
<1>2. ASSUME NEW i \in DOMAIN n, NEW j \in DOMAIN n, n[i] = q, n[j] = q PROVE i = j
  <2>1. CASE q # r
    <3>1. i \in 1 .. Len(s) /\ j \in 1 .. Len(s)
      BY <1>1, <1>2, <2>1
    <3> QED BY <1>1, <1>2, <3>1 DEF Once
  <2>2. CASE q \notin ToSet(s)
    BY <1>1, <1>2, <2>2
  <2> QED BY <2>1, <2>2
<1>3. Once(n, q)
  BY <1>2 DEF Once
<1> QED BY <1>3 DEF n

\* Offering a request keeps the order of the others, and puts it behind them.
LEMMA OfferedAhead ==
    ASSUME NEW S, NEW s \in Seq(S), NEW r \in S,
           NEW q, NEW x, Ahead(s, q, x), q = r => x # r /\ x \notin ToSet(s)
    PROVE  Ahead(Append(s, r), q, x)
<1> DEFINE n == Append(s, r)
<1>1. /\ DOMAIN n = 1 .. Len(s) + 1 /\ DOMAIN s = 1 .. Len(s) /\ Len(s) \in Nat
      /\ n[Len(s) + 1] = r /\ \A i \in 1 .. Len(s) : n[i] = s[i] /\ s[i] \in ToSet(s)
  BY AppendIndexes
<1> HIDE DEF n
<1>2. ASSUME NEW i \in DOMAIN n, NEW j \in DOMAIN n, n[i] = q, n[j] = x PROVE i < j
  <2>1. CASE q = r
    BY <1>1, <1>2, <2>1
  <2>2. CASE q # r
    <3>1. i \in 1 .. Len(s) /\ s[i] = q
      BY <1>1, <1>2, <2>2
    <3>2. CASE j = Len(s) + 1
      BY <1>1, <3>1, <3>2
    <3>3. CASE j \in 1 .. Len(s)
      BY <1>1, <1>2, <3>1, <3>3 DEF Ahead
    <3> QED BY <1>1, <3>2, <3>3
  <2> QED BY <2>1, <2>2
<1>3. Ahead(n, q, x)
  BY <1>2 DEF Ahead
<1> QED BY <1>3 DEF n

\* A queue and the one it becomes when its first request is taken.
LEMMA TailIndexes ==
    ASSUME NEW S, NEW s \in Seq(S), s # << >>
    PROVE  /\ DOMAIN s = 1 .. Len(s) /\ Len(s) \in Nat \ {0}
           /\ DOMAIN Tail(s) = 1 .. Len(s) - 1
           /\ \A i \in DOMAIN Tail(s) : Tail(s)[i] = s[i + 1] /\ i + 1 \in DOMAIN s /\ i + 1 # 1
           /\ 1 \in DOMAIN s /\ Head(s) = s[1]
<1>1. /\ DOMAIN s = 1 .. Len(s) /\ Len(s) \in Nat \ {0} /\ Head(s) = s[1]
      /\ DOMAIN Tail(s) = 1 .. Len(s) - 1 /\ \A i \in DOMAIN Tail(s) : Tail(s)[i] = s[i + 1]
  OBVIOUS
<1> QED BY <1>1

\* All others remain (RequestQueue.dequeue).
LEMMA Taken ==
    ASSUME NEW S, NEW s \in Seq(S), s # << >>
    PROVE  ToSet(s) = ToSet(Tail(s)) \cup {Head(s)}
<1> DEFINE n == Tail(s)
<1>1. /\ DOMAIN s = 1 .. Len(s) /\ Len(s) \in Nat \ {0} /\ DOMAIN n = 1 .. Len(s) - 1
      /\ \A i \in DOMAIN n : n[i] = s[i + 1] /\ i + 1 \in DOMAIN s
      /\ 1 \in DOMAIN s /\ Head(s) = s[1]
  BY TailIndexes
<1> HIDE DEF n
<1>2. ASSUME NEW x \in ToSet(n) PROVE x \in ToSet(s)
  BY <1>1, <1>2 DEF ToSet
<1>3. Head(s) \in ToSet(s)
  BY <1>1 DEF ToSet
<1>4. ASSUME NEW x \in ToSet(s) PROVE x \in ToSet(n) \cup {Head(s)}
  <2>1. PICK i \in DOMAIN s : x = s[i]
    BY <1>4 DEF ToSet
  <2>2. i = 1 \/ (i - 1 \in DOMAIN n /\ i - 1 + 1 = i)
    BY <1>1
  <2> QED BY <1>1, <2>1, <2>2 DEF ToSet
<1>5. ToSet(s) = ToSet(n) \cup {Head(s)}
  BY <1>2, <1>3, <1>4
<1> QED BY <1>5 DEF n

\* A request that was in the queue once is gone when it is taken.
LEMMA TakenOnce ==
    ASSUME NEW S, NEW s \in Seq(S), s # << >>, NEW q, Once(s, q)
    PROVE  Once(Tail(s), q) /\ (q = Head(s) => q \notin ToSet(Tail(s)))
<1> DEFINE n == Tail(s)
<1>1. /\ \A i \in DOMAIN n : n[i] = s[i + 1] /\ i + 1 \in DOMAIN s /\ i + 1 # 1
      /\ DOMAIN n \subseteq Int /\ 1 \in DOMAIN s /\ Head(s) = s[1]
  BY TailIndexes
<1> HIDE DEF n
<1>2. ASSUME NEW i \in DOMAIN n, NEW j \in DOMAIN n, n[i] = q, n[j] = q PROVE i = j
  <2>1. i + 1 = j + 1
    BY <1>1, <1>2 DEF Once
  <2> QED BY <1>1, <2>1
<1>3. Once(n, q)
  BY <1>2 DEF Once
<1>4. q = Head(s) => q \notin ToSet(n)
  BY <1>1 DEF Once, ToSet
<1> QED BY <1>3, <1>4 DEF n

\* Taking the first request keeps the order of the others; nothing was ahead of it.
LEMMA TakenAhead ==
    ASSUME NEW S, NEW s \in Seq(S), s # << >>, NEW q, NEW x, Ahead(s, q, x)
    PROVE  Ahead(Tail(s), q, x) /\ (x = Head(s) => q \notin ToSet(s))
<1> DEFINE n == Tail(s)
<1>1. /\ \A i \in DOMAIN n : n[i] = s[i + 1] /\ i + 1 \in DOMAIN s
      /\ DOMAIN n \subseteq Int /\ DOMAIN s = 1 .. Len(s) /\ 1 \in DOMAIN s /\ Head(s) = s[1]
  BY TailIndexes
<1> HIDE DEF n
<1>2. ASSUME NEW i \in DOMAIN n, NEW j \in DOMAIN n, n[i] = q, n[j] = x PROVE i < j
  <2>1. i + 1 < j + 1
    BY <1>1, <1>2 DEF Ahead
  <2> QED BY <1>1, <2>1
<1>3. Ahead(n, q, x)
  BY <1>2 DEF Ahead
<1>4. ASSUME x = Head(s), NEW i \in DOMAIN s, s[i] = q PROVE FALSE
  <2>1. i < 1
    BY <1>1, <1>4 DEF Ahead
  <2> QED BY <1>1, <2>1
<1> QED BY <1>3, <1>4 DEF n, ToSet

\* A request is one of six, and says which.
LEMMA RequestKinds ==
    ASSUME NEW r \in Request
    PROVE  /\ r.type = "ANALYSE_TASK" => r.task \in Task /\ r = Analyse(r.task)
           /\ r.type = "TASK_END" => r.task \in Task /\ r = TaskEnd(r.task)
           /\ r.type = "REGISTER_DATA_ACCESS" => r.app \in Apps /\ r = Register(r.app)
           /\ r.type = "WAIT_FOR_TASK" => r.app \in Apps /\ r = WaitForTask(r.app)
           /\ r.type = "BARRIER" => r.app \in Apps /\ r = BarrierRequest(r.app)
           /\ r.type = "END_OF_APP" => r.app \in Apps /\ r = EndOfApp(r.app)
BY DEF Request, Analyse, TaskEnd, Register, WaitForTask, BarrierRequest, EndOfApp

\* Requests of different kinds, tasks or programs are different.
LEMMA RequestsDiffer ==
    /\ \A t, u : Analyse(t) # TaskEnd(u)
    /\ \A t, a : /\ Analyse(t) # Register(a) /\ Analyse(t) # WaitForTask(a)
                 /\ Analyse(t) # BarrierRequest(a) /\ Analyse(t) # EndOfApp(a)
                 /\ TaskEnd(t) # Register(a) /\ TaskEnd(t) # WaitForTask(a)
                 /\ TaskEnd(t) # BarrierRequest(a) /\ TaskEnd(t) # EndOfApp(a)
    /\ \A a, b : /\ Register(a) # WaitForTask(b) /\ Register(a) # BarrierRequest(b)
                 /\ Register(a) # EndOfApp(b) /\ WaitForTask(a) # BarrierRequest(b)
                 /\ WaitForTask(a) # EndOfApp(b) /\ BarrierRequest(a) # EndOfApp(b)
    /\ \A t, u : /\ Analyse(t) = Analyse(u) => t = u
                 /\ TaskEnd(t) = TaskEnd(u) => t = u
    /\ \A a, b : /\ Register(a) = Register(b) => a = b
                 /\ WaitForTask(a) = WaitForTask(b) => a = b
                 /\ BarrierRequest(a) = BarrierRequest(b) => a = b
                 /\ EndOfApp(a) = EndOfApp(b) => a = b
BY DEF Analyse, TaskEnd, Register, WaitForTask, BarrierRequest, EndOfApp

\* All of them are requests.
LEMMA RequestsAre ==
    /\ \A t \in Task : Analyse(t) \in Request /\ TaskEnd(t) \in Request
    /\ \A a \in Apps : /\ Register(a) \in Request /\ WaitForTask(a) \in Request
                       /\ BarrierRequest(a) \in Request /\ EndOfApp(a) \in Request
BY DEF Request

-----------------------------------------------------------------------------
(* The programs and the queue.                                             *)

TaskRecord == [app : Apps, params : Seq(Parameter), copies : Copies]

ProgramRecord == [call : Calls, access : MainAccesses \cup {NoAccess},
                  in : (Data \X Nat) \cup {NoVersion}]

Author == Task \cup Apps \cup {NoTask}

Typed ==
    /\ tasks \in Seq(TaskRecord) /\ Created \subseteq Task
    /\ reads \in [Task -> SUBSET (Data \X Nat)]
    /\ version \in [Data -> Nat]
    /\ writers \in [Data -> Task \cup {NoTask}]
    /\ waited \in [Task -> SUBSET Apps]
    /\ permits \subseteq Apps /\ semaphore \subseteq Apps
    /\ apQueue \in Seq(Request)
    /\ main \in [Apps -> ProgramRecord]
    /\ authors \in [Data -> Seq(Author)]
    /\ wanted \in [Task -> SUBSET (Data \X Nat)]

Queued(r) == r \in ToSet(apQueue)

\* The requests of a program are those of the call it is in.
AsksForItsCall(a) ==
    /\ Queued(Register(a)) => main[a].call = "register"
    /\ Queued(WaitForTask(a)) => main[a].call = "wait"
    /\ Queued(BarrierRequest(a)) => main[a].call = "barrier"
    /\ Queued(EndOfApp(a)) => main[a].call = "noMoreTasks"

Asking(a) == \/ Queued(Register(a)) \/ Queued(WaitForTask(a))
             \/ Queued(BarrierRequest(a)) \/ Queued(EndOfApp(a))

\* A program has one request in the queue, or is waiting for something to end, or has been
\* released.
OneCall(a) ==
    /\ AsksForItsCall(a)
    /\ a \in permits => main[a].call \in {"register", "wait", "barrier", "noMoreTasks"} /\ ~Asking(a)
    /\ a \in semaphore =>
          main[a].call \in {"barrier", "noMoreTasks"} /\ ~Asking(a) /\ a \notin permits
    /\ \A t \in Task : a \in waited[t] => main[a].call = "wait" /\ ~Asking(a) /\ a \notin permits
    /\ \A t, u \in Task : a \in waited[t] /\ a \in waited[u] => t = u
    /\ main[a].call \in {"register", "wait"} => main[a].access \in MainAccesses

\* Each task is in the queue once to be analysed, and each request of a program once.
Unrepeated ==
    /\ \A t \in Task : Once(apQueue, Analyse(t)) /\ (Queued(Analyse(t)) => t \in Created)
    /\ \A a \in Apps : /\ Once(apQueue, Register(a)) /\ Once(apQueue, WaitForTask(a))
                       /\ Once(apQueue, BarrierRequest(a)) /\ Once(apQueue, EndOfApp(a))

Base == Typed /\ (\A a \in Apps : OneCall(a)) /\ Unrepeated

\* The runtime starts with no request and every program running.
LEMMA BaseHoldsFirst == Init => Base
<1> SUFFICES ASSUME Init PROVE Base
  OBVIOUS
<1> USE DEF Init, AnalyserInit, DispatcherInit
<1>1. ToSet(apQueue) = {} /\ \A r : Once(apQueue, r)
  BY DEF ToSet, Once
<1>2. Typed
  BY DEF Typed, Created, ProgramRecord, Calls, Author, NoTask
<1>3. ASSUME NEW a \in Apps PROVE OneCall(a)
  BY <1>1 DEF OneCall, AsksForItsCall, Queued
<1>4. Unrepeated
  BY <1>1 DEF Unrepeated, Queued
<1> QED BY <1>2, <1>3, <1>4 DEF Base

\* The queue of the Access Processor after a request is offered.
LEMMA RequestOffered ==
    ASSUME Typed, NEW r \in Request, apQueue' = Append(apQueue, r)
    PROVE  /\ apQueue' \in Seq(Request)
           /\ \A q : Queued(q)' <=> Queued(q) \/ q = r
           /\ \A q : Once(apQueue, q) /\ (q # r \/ ~Queued(q)) => Once(apQueue, q)'
<1>1. apQueue \in Seq(Request)
  BY DEF Typed
<1>2. ToSet(apQueue)' = ToSet(apQueue) \cup {r}
  BY <1>1, Offered
<1>3. ASSUME NEW q, Once(apQueue, q), q # r \/ ~Queued(q) PROVE Once(apQueue, q)'
  BY <1>1, <1>3, OfferedOnce DEF Queued
<1>4. apQueue' \in Seq(Request)
  BY <1>1
<1> QED BY <1>2, <1>3, <1>4 DEF Queued

\* The queue after the first request, of some kind, is taken.
LEMMA RequestServed ==
    ASSUME Typed, NEW kind, Serving(kind)
    PROVE  /\ apQueue' \in Seq(Request)
           /\ Head(apQueue) \in Request /\ Head(apQueue).type = kind /\ Queued(Head(apQueue))
           /\ \A q : Queued(q)' => Queued(q)
           /\ \A q : Queued(q) => Queued(q)' \/ q = Head(apQueue)
           /\ \A q : Once(apQueue, q) => Once(apQueue, q)'
           /\ Once(apQueue, Head(apQueue)) => Head(apQueue) \notin ToSet(apQueue')
<1>1. /\ apQueue \in Seq(Request) /\ apQueue # << >> /\ Head(apQueue).type = kind
      /\ apQueue' = Tail(apQueue)
  BY DEF Typed, Serving
<1>2. ToSet(apQueue) = ToSet(apQueue)' \cup {Head(apQueue)}
  BY <1>1, Taken
<1>3. ASSUME NEW q, Once(apQueue, q)
      PROVE  Once(apQueue, q)' /\ (q = Head(apQueue) => q \notin ToSet(apQueue'))
  BY <1>1, <1>3, TakenOnce DEF Queued
<1>4. apQueue' \in Seq(Request) /\ Head(apQueue) \in Request
  BY <1>1
<1>5. /\ Queued(Head(apQueue))
      /\ \A q : Queued(q)' => Queued(q)
      /\ \A q : Queued(q) => Queued(q)' \/ q = Head(apQueue)
  BY <1>2 DEF Queued
<1> QED BY <1>1, <1>3, <1>4, <1>5

\* What the runtime does with a program's call when it neither serves it nor lets it go.
Undisturbed(b) ==
    /\ main'[b] = main[b]
    /\ Queued(Register(b))' => Queued(Register(b))
    /\ Queued(WaitForTask(b))' => Queued(WaitForTask(b))
    /\ Queued(BarrierRequest(b))' => Queued(BarrierRequest(b))
    /\ Queued(EndOfApp(b))' => Queued(EndOfApp(b))
    /\ b \in permits' <=> b \in permits
    /\ b \in semaphore' => b \in semaphore
    /\ \A t \in Task : b \in waited'[t] => b \in waited[t]

\* A program left alone stays in its call.
LEMMA UndisturbedStays ==
    ASSUME NEW b \in Apps, OneCall(b), Undisturbed(b) PROVE OneCall(b)'
BY DEF OneCall, AsksForItsCall, Asking, Undisturbed

\* The runtime's own variables in the steps of a program.
LEMMA TaskRecorded ==
    ASSUME Typed, NEW a \in Apps, NEW params \in Signatures, NEW copies \in Copies,
           NewTask(a, params, copies)
    PROVE  /\ Len(tasks) + 1 \in Task /\ Len(tasks) + 1 \notin Created
           /\ params \in Seq(Parameter)
           /\ tasks' \in Seq(TaskRecord) /\ Created' = Created \cup {Len(tasks) + 1}
           /\ \A t \in Created : tasks'[t] = tasks[t]
           /\ tasks'[Len(tasks) + 1] = [app |-> a, params |-> params, copies |-> copies]
           /\ Analyse(Len(tasks) + 1) \in ToSet(apQueue')
<1>1. /\ tasks \in Seq(TaskRecord) /\ Len(tasks) + 1 \in Task
      /\ tasks' = Append(tasks, [app |-> a, params |-> params, copies |-> copies])
      /\ apQueue' = Append(apQueue, Analyse(Len(tasks) + 1))
  BY DEF Typed, NewTask
<1>2. params \in Seq(Parameter)
  BY SignaturesAssumption
<1>3. [app |-> a, params |-> params, copies |-> copies] \in TaskRecord
  BY <1>2 DEF TaskRecord
<1>4. Analyse(Len(tasks) + 1) \in ToSet(apQueue')
  <2>1. Analyse(Len(tasks) + 1) \in Request
    BY <1>1, RequestsAre
  <2>2. \A q : Queued(q)' <=> Queued(q) \/ q = Analyse(Len(tasks) + 1)
    BY <1>1, <2>1, RequestOffered
  <2> QED BY <2>2 DEF Queued
<1>5. /\ DOMAIN tasks = 1 .. Len(tasks) /\ DOMAIN tasks' = 1 .. Len(tasks) + 1 /\ Len(tasks) \in Nat
      /\ tasks' \in Seq(TaskRecord)
      /\ \A t \in 1 .. Len(tasks) : tasks'[t] = tasks[t]
      /\ tasks'[Len(tasks) + 1] = [app |-> a, params |-> params, copies |-> copies]
  BY <1>1, <1>3
<1> QED BY <1>1, <1>2, <1>4, <1>5 DEF Created

\* The queue when a request of a task is offered: nothing is asked for a program.
LEMMA TaskOffered ==
    ASSUME Base, NEW t \in Task, NEW r \in {Analyse(t), TaskEnd(t)}, apQueue' = Append(apQueue, r)
    PROVE  /\ \A a \in Apps : /\ Queued(Register(a))' <=> Queued(Register(a))
                              /\ Queued(WaitForTask(a))' <=> Queued(WaitForTask(a))
                              /\ Queued(BarrierRequest(a))' <=> Queued(BarrierRequest(a))
                              /\ Queued(EndOfApp(a))' <=> Queued(EndOfApp(a))
           /\ \A a \in Apps : /\ Once(apQueue, Register(a))' /\ Once(apQueue, WaitForTask(a))'
                              /\ Once(apQueue, BarrierRequest(a))' /\ Once(apQueue, EndOfApp(a))'
<1>1. r \in Request /\ Typed /\ Unrepeated
  BY RequestsAre DEF Base
<1>2. /\ \A q : Queued(q)' <=> Queued(q) \/ q = r
      /\ \A q : Once(apQueue, q) /\ (q # r \/ ~Queued(q)) => Once(apQueue, q)'
  BY <1>1, RequestOffered
<1>3. \A a : r # Register(a) /\ r # WaitForTask(a) /\ r # BarrierRequest(a) /\ r # EndOfApp(a)
  BY RequestsDiffer
<1> QED BY <1>1, <1>2, <1>3 DEF Unrepeated

\* The queue when a request of a program is offered.
LEMMA ProgramOffered ==
    ASSUME Base, NEW a \in Apps, ~Asking(a),
           NEW r \in {Register(a), WaitForTask(a), BarrierRequest(a), EndOfApp(a)},
           apQueue' = Append(apQueue, r), tasks' = tasks
    PROVE  /\ apQueue' \in Seq(Request) /\ Unrepeated'
           /\ \A t \in Task : /\ Queued(Analyse(t))' <=> Queued(Analyse(t))
                              /\ Queued(TaskEnd(t))' <=> Queued(TaskEnd(t))
                              /\ Once(apQueue, TaskEnd(t)) => Once(apQueue, TaskEnd(t))'
           /\ \A b \in Apps : b # a => /\ Queued(Register(b))' <=> Queued(Register(b))
                                       /\ Queued(WaitForTask(b))' <=> Queued(WaitForTask(b))
                                       /\ Queued(BarrierRequest(b))' <=> Queued(BarrierRequest(b))
                                       /\ Queued(EndOfApp(b))' <=> Queued(EndOfApp(b))
           /\ Queued(Register(a))' <=> r = Register(a)
           /\ Queued(WaitForTask(a))' <=> r = WaitForTask(a)
           /\ Queued(BarrierRequest(a))' <=> r = BarrierRequest(a)
           /\ Queued(EndOfApp(a))' <=> r = EndOfApp(a)
<1>1. r \in Request /\ Typed /\ Unrepeated
  BY RequestsAre DEF Base
<1>2. /\ apQueue' \in Seq(Request)
      /\ \A q : Queued(q)' <=> Queued(q) \/ q = r
      /\ \A q : Once(apQueue, q) /\ (q # r \/ ~Queued(q)) => Once(apQueue, q)'
  BY <1>1, RequestOffered
<1>3. \A t : r # Analyse(t) /\ r # TaskEnd(t)
  BY RequestsDiffer
<1>4. \A b : b # a => r # Register(b) /\ r # WaitForTask(b) /\ r # BarrierRequest(b) /\ r # EndOfApp(b)
  BY RequestsDiffer
<1>5. ~Queued(r) /\ ~Queued(Register(a)) /\ ~Queued(WaitForTask(a))
      /\ ~Queued(BarrierRequest(a)) /\ ~Queued(EndOfApp(a))
  BY DEF Asking
<1>6. Unrepeated'
  BY <1>1, <1>2, <1>3, <1>5 DEF Unrepeated, Created
<1> QED BY <1>2, <1>3, <1>4, <1>5, <1>6

\* The writes of a datum in the parameters of a task can be counted.
LEMMA ParametersCounted ==
    ASSUME NEW params \in Seq(Parameter)
    PROVE  /\ \A i \in DOMAIN params : params[i].datum \in Data
           /\ \A i \in DOMAIN params : Cardinality(EarlierWrites(params, i)) \in Nat
           /\ \A d : Cardinality({i \in DOMAIN params : params[i].datum = d /\ params[i].mode # "R"}) \in Nat
<1>1. DOMAIN params = 1 .. Len(params) /\ Len(params) \in Nat /\ IsFiniteSet(1 .. Len(params))
  BY FS_Interval
<1>2. ASSUME NEW i \in DOMAIN params PROVE params[i].datum \in Data
  <2>1. params[i] \in Parameter
    OBVIOUS
  <2> QED BY <2>1 DEF Parameter
<1>3. ASSUME NEW i \in DOMAIN params PROVE Cardinality(EarlierWrites(params, i)) \in Nat
  <2>1. i \in Int
    BY <1>1
  <2>2. IsFiniteSet(1 .. i - 1)
    BY <2>1, FS_Interval
  <2>3. IsFiniteSet(EarlierWrites(params, i))
    BY <2>2, FS_Subset DEF EarlierWrites
  <2> QED BY <2>3, FS_CardinalityType
<1>4. ASSUME NEW d
      PROVE Cardinality({i \in DOMAIN params : params[i].datum = d /\ params[i].mode # "R"}) \in Nat
  <2>1. IsFiniteSet({i \in DOMAIN params : params[i].datum = d /\ params[i].mode # "R"})
    BY <1>1, FS_Subset
  <2> QED BY <2>1, FS_CardinalityType
<1> QED BY <1>2, <1>3, <1>4

\* The versions a task wants and the authors it leaves.
LEMMA ProgramOrderTyped ==
    ASSUME Typed, NEW params \in Seq(Parameter), NEW t \in Task
    PROVE  /\ VersionsWanted(params) \in SUBSET (Data \X Nat)
           /\ \A d \in Data : AuthorsAfter(d, params, t) \in Seq(Author)
<1>1. \A i \in DOMAIN params : params[i].datum \in Data
  BY ParametersCounted
<1>2. \A i \in DOMAIN params : Cardinality(EarlierWrites(params, i)) \in Nat
  BY ParametersCounted
<1>3. ASSUME NEW x \in Data PROVE Touched(x) \in Seq(Author) /\ Len(Touched(x)) \in Nat
  <2>1. authors[x] \in Seq(Author) /\ <<NoTask>> \in Seq(Author)
    BY DEF Typed, Author
  <2>2. Touched(x) \in Seq(Author)
    BY <2>1 DEF Touched
  <2> QED BY <2>2
<1>4. VersionsWanted(params) \in SUBSET (Data \X Nat)
  <2> SUFFICES ASSUME NEW i \in DOMAIN params
               PROVE  <<params[i].datum, Len(Touched(params[i].datum)) +
                        Cardinality(EarlierWrites(params, i))>> \in Data \X Nat
    BY DEF VersionsWanted
  <2>1. params[i].datum \in Data /\ Len(Touched(params[i].datum)) \in Nat
    BY <1>1, <1>3
  <2>2. Len(Touched(params[i].datum)) + Cardinality(EarlierWrites(params, i)) \in Nat
    BY <1>2, <2>1
  <2> QED BY <2>1, <2>2
<1>5. ASSUME NEW d \in Data PROVE AuthorsAfter(d, params, t) \in Seq(Author)
  <2> DEFINE W == {i \in DOMAIN params : params[i].datum = d /\ params[i].mode # "R"}
  <2>1. Cardinality(W) \in Nat
    BY ParametersCounted
  <2> DEFINE added == [i \in 1 .. Cardinality(W) |-> t]
  <2>2. added \in Seq(Author)
    BY <2>1 DEF Author
  <2>3. Touched(d) \o added \in Seq(Author) /\ authors[d] \in Seq(Author)
    BY <1>3, <2>2 DEF Typed
  <2> HIDE DEF added
  <2>4. AuthorsAfter(d, params, t) \in {Touched(d) \o added, authors[d]}
    BY DEF AuthorsAfter, added
  <2> QED BY <2>3, <2>4
<1> QED BY <1>4, <1>5

\* newTask: the program goes on running, and one more task is to be analysed.
LEMMA NewTaskBase ==
    ASSUME Base, NEW a \in Apps, NEW params \in Signatures, NEW copies \in Copies,
           NewTask(a, params, copies)
    PROVE  Base'
<1> DEFINE t == Len(tasks) + 1
<1>1. /\ t \in Task /\ t \notin Created /\ params \in Seq(Parameter)
      /\ tasks' \in Seq(TaskRecord) /\ Created' = Created \cup {t}
      /\ Typed /\ Unrepeated
  BY TaskRecorded DEF Base
<1>2. /\ apQueue' = Append(apQueue, Analyse(t))
      /\ wanted' = [wanted EXCEPT ![t] = VersionsWanted(params)]
      /\ authors' = [d \in Data |-> AuthorsAfter(d, params, t)]
      /\ UNCHANGED <<reads, version, writers, semaphore, waited, permits, main>>
  BY DEF NewTask, analyserVars
<1> HIDE DEF t
<1>3. /\ apQueue' \in Seq(Request)
      /\ \A q : Queued(q)' <=> Queued(q) \/ q = Analyse(t)
      /\ \A q : Once(apQueue, q) /\ (q # Analyse(t) \/ ~Queued(q)) => Once(apQueue, q)'
  BY <1>1, <1>2, RequestOffered, RequestsAre
<1>4. Typed'
  <2>1. wanted' \in [Task -> SUBSET (Data \X Nat)]
    <3>1. VersionsWanted(params) \in SUBSET (Data \X Nat)
      BY <1>1, ProgramOrderTyped
    <3> QED BY <1>1, <1>2, <3>1 DEF Typed
  <2>2. authors' \in [Data -> Seq(Author)]
    BY <1>1, <1>2, ProgramOrderTyped
  <2>3. Created' \subseteq Task
    BY <1>1 DEF Typed
  <2> QED BY <1>1, <1>2, <1>3, <2>1, <2>2, <2>3 DEF Typed
<1>5. \A b \in Apps : OneCall(b)'
  <2>1. \A b \in Apps : Undisturbed(b)
    BY <1>1, <1>2, TaskOffered DEF Undisturbed
  <2> QED BY <2>1, UndisturbedStays DEF Base
<1>6. Unrepeated'
  <2>1. ~Queued(Analyse(t))
    BY <1>1 DEF Unrepeated
  <2>2. \A u \in Task : Once(apQueue, Analyse(u))' /\ (Queued(Analyse(u))' => u \in Created')
    BY <1>1, <1>3, <2>1, RequestsDiffer DEF Unrepeated
  <2> QED BY <1>1, <1>2, <2>2, TaskOffered DEF Unrepeated
<1> QED BY <1>4, <1>5, <1>6 DEF Base

\* The calls of a program that only ask: it leaves the running state and its request is
\* the one of its call.
LEMMA CallBase ==
    ASSUME Base, NEW a \in Apps, main[a].call = "running",
           NEW r \in {Register(a), BarrierRequest(a), EndOfApp(a)}, apQueue' = Append(apQueue, r),
           main' \in [Apps -> ProgramRecord], \A b \in Apps : b # a => main'[b] = main[b],
           r = Register(a) => main'[a].call = "register" /\ main'[a].access \in MainAccesses,
           r = BarrierRequest(a) => main'[a].call = "barrier",
           r = EndOfApp(a) => main'[a].call = "noMoreTasks",
           UNCHANGED <<tasks, reads, version, writers, waited, permits, semaphore, wanted>>,
           authors' \in [Data -> Seq(Author)]
    PROVE  Base'
<1>1. /\ ~Asking(a) /\ a \notin permits /\ a \notin semaphore
      /\ \A t \in Task : a \notin waited[t]
  BY DEF Base, OneCall, AsksForItsCall, Asking
<1>2. /\ apQueue' \in Seq(Request) /\ Unrepeated'
      /\ \A b \in Apps : b # a => /\ Queued(Register(b))' <=> Queued(Register(b))
                                  /\ Queued(WaitForTask(b))' <=> Queued(WaitForTask(b))
                                  /\ Queued(BarrierRequest(b))' <=> Queued(BarrierRequest(b))
                                  /\ Queued(EndOfApp(b))' <=> Queued(EndOfApp(b))
      /\ Queued(Register(a))' <=> r = Register(a)
      /\ Queued(WaitForTask(a))' <=> r = WaitForTask(a)
      /\ Queued(BarrierRequest(a))' <=> r = BarrierRequest(a)
      /\ Queued(EndOfApp(a))' <=> r = EndOfApp(a)
  BY <1>1, ProgramOffered
<1>3. Typed'
  BY <1>2 DEF Base, Typed, Created
<1>4. ASSUME NEW b \in Apps, b # a PROVE OneCall(b)'
  <2>1. Undisturbed(b)
    BY <1>2, <1>4 DEF Undisturbed
  <2> QED BY <2>1, UndisturbedStays DEF Base
<1>5. OneCall(a)'
  <2>1. AsksForItsCall(a)'
    BY <1>2, RequestsDiffer DEF AsksForItsCall
  <2>2. main'[a].call \in {"register", "wait"} => main'[a].access \in MainAccesses
    BY RequestsDiffer
  <2> QED BY <1>1, <2>1, <2>2 DEF OneCall
<1> QED BY <1>2, <1>3, <1>4, <1>5 DEF Base

\* A released program goes on, and asks for the end of a task if that is its next call.
LEMMA ReturnBase ==
    ASSUME Base, NEW a \in Apps, Resume(a),
           main' \in [Apps -> ProgramRecord], \A b \in Apps : b # a => main'[b] = main[b],
           UNCHANGED <<authors, wanted>>,
           \/ apQueue' = apQueue /\ main'[a].call \in {"running", "ended"}
           \/ /\ apQueue' = Append(apQueue, WaitForTask(a))
              /\ main'[a].call = "wait" /\ main'[a].access \in MainAccesses
    PROVE  Base'
<1>1. /\ ~Asking(a) /\ a \notin semaphore /\ \A t \in Task : a \notin waited[t]
      /\ permits' = permits \ {a} /\ UNCHANGED <<tasks, reads, version, writers, waited, semaphore>>
  BY DEF Base, OneCall, Resume, taskVars
<1>2. /\ apQueue' \in Seq(Request) /\ Unrepeated'
      /\ \A b \in Apps : b # a => /\ Queued(Register(b))' <=> Queued(Register(b))
                                  /\ Queued(WaitForTask(b))' <=> Queued(WaitForTask(b))
                                  /\ Queued(BarrierRequest(b))' <=> Queued(BarrierRequest(b))
                                  /\ Queued(EndOfApp(b))' <=> Queued(EndOfApp(b))
      /\ ~Queued(Register(a))' /\ ~Queued(BarrierRequest(a))' /\ ~Queued(EndOfApp(a))'
      /\ Queued(WaitForTask(a))' => main'[a].call = "wait"
  <2>1. CASE apQueue' = apQueue
    BY <1>1, <2>1 DEF Base, Typed, Unrepeated, Queued, Asking, Created
  <2>2. CASE apQueue' = Append(apQueue, WaitForTask(a)) /\ main'[a].call = "wait"
    <3>1. WaitForTask(a) \in {Register(a), WaitForTask(a), BarrierRequest(a), EndOfApp(a)}
      OBVIOUS
    <3>2. /\ apQueue' \in Seq(Request) /\ Unrepeated'
          /\ \A b \in Apps : b # a => /\ Queued(Register(b))' <=> Queued(Register(b))
                                      /\ Queued(WaitForTask(b))' <=> Queued(WaitForTask(b))
                                      /\ Queued(BarrierRequest(b))' <=> Queued(BarrierRequest(b))
                                      /\ Queued(EndOfApp(b))' <=> Queued(EndOfApp(b))
          /\ Queued(Register(a))' <=> WaitForTask(a) = Register(a)
          /\ Queued(BarrierRequest(a))' <=> WaitForTask(a) = BarrierRequest(a)
          /\ Queued(EndOfApp(a))' <=> WaitForTask(a) = EndOfApp(a)
      BY <1>1, <2>2, <3>1, ProgramOffered
    <3> QED BY <2>2, <3>2, RequestsDiffer
  <2> QED BY <2>1, <2>2
<1>3. Typed'
  BY <1>1, <1>2 DEF Base, Typed, Created
<1>4. ASSUME NEW b \in Apps, b # a PROVE OneCall(b)'
  <2>1. Undisturbed(b)
    BY <1>1, <1>2, <1>4 DEF Undisturbed
  <2> QED BY <2>1, UndisturbedStays DEF Base
<1>5. OneCall(a)'
  BY <1>1, <1>2 DEF OneCall, AsksForItsCall
<1> QED BY <1>2, <1>3, <1>4, <1>5 DEF Base

\* A program that changes its call stays a program.
LEMMA CallChanges ==
    ASSUME Base, NEW a \in Apps, NEW call \in Calls, main' = [main EXCEPT ![a].call = call]
    PROVE  /\ main' \in [Apps -> ProgramRecord] /\ \A b \in Apps : b # a => main'[b] = main[b]
           /\ main'[a].call = call
<1>1. main \in [Apps -> ProgramRecord] /\ main[a] \in ProgramRecord
  BY DEF Base, Typed
<1>2. PICK p : p = [main[a] EXCEPT !.call = call]
  OBVIOUS
<1>3. p \in ProgramRecord /\ p.call = call
  BY <1>1, <1>2 DEF ProgramRecord
<1>4. main' = [main EXCEPT ![a] = p]
  BY <1>2
<1> QED BY <1>1, <1>3, <1>4

\* mainAccessToFile and mainAcessToObject ask for a registration.
LEMMA MainAccessBase ==
    ASSUME Base, NEW a \in Apps, NEW access \in MainAccesses, MainAccess(a, access)
    PROVE  Base'
<1>1. /\ main[a].call = "running" /\ apQueue' = Append(apQueue, Register(a))
      /\ main' = [main EXCEPT ![a].call = "register", ![a].access = access]
      /\ UNCHANGED <<tasks, reads, version, writers, waited, permits, semaphore, wanted>>
      /\ authors' = [authors EXCEPT ![access.datum] =
                        IF access.mode = "R" THEN authors[access.datum]
                        ELSE Append(authors[access.datum], a)]
  BY DEF MainAccess, Running, taskVars, analyserVars
<1>2. authors' \in [Data -> Seq(Author)]
  <2>1. access.datum \in Data
    BY MainAccessesAssumption
  <2>2. authors[access.datum] \in Seq(Author) /\ a \in Author
    BY <2>1 DEF Base, Typed, Author
  <2>3. Append(authors[access.datum], a) \in Seq(Author)
    BY <2>2
  <2> QED BY <1>1, <2>2, <2>3 DEF Base, Typed
<1>3. /\ main' \in [Apps -> ProgramRecord] /\ \A b \in Apps : b # a => main'[b] = main[b]
      /\ main'[a].call = "register" /\ main'[a].access = access
  <2>1. main \in [Apps -> ProgramRecord] /\ main[a] \in ProgramRecord
    BY DEF Base, Typed
  <2>2. PICK p : p = [main[a] EXCEPT !.call = "register", !.access = access]
    OBVIOUS
  <2>3. p \in ProgramRecord /\ p.call = "register" /\ p.access = access
    BY <2>1, <2>2 DEF ProgramRecord, Calls
  <2>4. main' = [main EXCEPT ![a] = p]
    BY <1>1, <2>2
  <2> QED BY <2>1, <2>3, <2>4
<1>4. Register(a) # BarrierRequest(a) /\ Register(a) # EndOfApp(a)
  BY RequestsDiffer
<1>5. Register(a) \in {Register(a), BarrierRequest(a), EndOfApp(a)}
  OBVIOUS
<1> QED BY <1>1, <1>2, <1>3, <1>4, <1>5, CallBase

\* barrier asks for one.
LEMMA CallBarrierBase ==
    ASSUME Base, NEW a \in Apps, CallBarrier(a)
    PROVE  Base'
<1>1. /\ main[a].call = "running" /\ apQueue' = Append(apQueue, BarrierRequest(a))
      /\ main' = [main EXCEPT ![a].call = "barrier"]
      /\ UNCHANGED <<tasks, reads, version, writers, waited, permits, semaphore, wanted, authors>>
  BY DEF CallBarrier, Running, Stop, taskVars, analyserVars, historyVars
<1>2. /\ main' \in [Apps -> ProgramRecord] /\ \A b \in Apps : b # a => main'[b] = main[b]
      /\ main'[a].call = "barrier"
  <2>1. "barrier" \in Calls
    BY DEF Calls
  <2> QED BY <1>1, <2>1, CallChanges
<1>3. BarrierRequest(a) # Register(a) /\ BarrierRequest(a) # EndOfApp(a)
  BY RequestsDiffer
<1>4. BarrierRequest(a) \in {Register(a), BarrierRequest(a), EndOfApp(a)}
  OBVIOUS
<1>5. authors' \in [Data -> Seq(Author)]
  BY <1>1 DEF Base, Typed
<1> QED BY <1>1, <1>2, <1>3, <1>4, <1>5, CallBase

\* noMoreTasks asks for the end of the application.
LEMMA CallNoMoreTasksBase ==
    ASSUME Base, NEW a \in Apps, CallNoMoreTasks(a)
    PROVE  Base'
<1>1. /\ main[a].call = "running" /\ apQueue' = Append(apQueue, EndOfApp(a))
      /\ main' = [main EXCEPT ![a].call = "noMoreTasks"]
      /\ UNCHANGED <<tasks, reads, version, writers, waited, permits, semaphore, wanted, authors>>
  BY DEF CallNoMoreTasks, Running, Stop, taskVars, analyserVars, historyVars
<1>2. /\ main' \in [Apps -> ProgramRecord] /\ \A b \in Apps : b # a => main'[b] = main[b]
      /\ main'[a].call = "noMoreTasks"
  <2>1. "noMoreTasks" \in Calls
    BY DEF Calls
  <2> QED BY <1>1, <2>1, CallChanges
<1>3. EndOfApp(a) # Register(a) /\ EndOfApp(a) # BarrierRequest(a)
  BY RequestsDiffer
<1>4. EndOfApp(a) \in {Register(a), BarrierRequest(a), EndOfApp(a)}
  OBVIOUS
<1>5. authors' \in [Data -> Seq(Author)]
  BY <1>1 DEF Base, Typed
<1> QED BY <1>1, <1>2, <1>3, <1>4, <1>5, CallBase

\* The returns of the calls.
LEMMA MainStepBase ==
    ASSUME Base, NEW a \in Apps, MainStep(a)
    PROVE  Base'
<1>1. main \in [Apps -> ProgramRecord]
  BY DEF Base, Typed
<1>2. [call |-> "running", access |-> NoAccess, in |-> NoVersion] \in ProgramRecord
  BY DEF ProgramRecord, Calls
<1>3. CASE Registration(a)
  <2>1. /\ main[a].call = "register" /\ Resume(a) /\ UNCHANGED <<authors, wanted>>
        /\ main[a].access \in MainAccesses
    BY <1>3 DEF Registration, historyVars, Base, OneCall
  <2>2. CASE /\ main' = [main EXCEPT ![a] = [call |-> "running", access |-> NoAccess, in |-> NoVersion]]
             /\ apQueue' = apQueue
    <3>1. /\ main' \in [Apps -> ProgramRecord] /\ \A b \in Apps : b # a => main'[b] = main[b]
          /\ main'[a].call = "running"
      BY <1>1, <1>2, <2>2
    <3> QED BY <2>1, <2>2, <3>1, ReturnBase
  <2>3. CASE /\ main' = [main EXCEPT ![a].call = "wait"]
             /\ apQueue' = Append(apQueue, WaitForTask(a))
    <3>1. /\ main' \in [Apps -> ProgramRecord] /\ \A b \in Apps : b # a => main'[b] = main[b]
          /\ main'[a].call = "wait" /\ main'[a].access = main[a].access
      BY <1>1, <2>3 DEF ProgramRecord, Calls
    <3> QED BY <2>1, <2>3, <3>1, ReturnBase
  <2> QED BY <1>3, <2>2, <2>3 DEF Registration, Stop
<1>4. CASE WaitReturns(a)
  <2>1. /\ main' = [main EXCEPT ![a] = [call |-> "running", access |-> NoAccess, in |-> NoVersion]]
        /\ Resume(a) /\ UNCHANGED <<authors, wanted, apQueue>>
    BY <1>4 DEF WaitReturns, historyVars
  <2>2. /\ main' \in [Apps -> ProgramRecord] /\ \A b \in Apps : b # a => main'[b] = main[b]
        /\ main'[a].call = "running"
    BY <1>1, <1>2, <2>1
  <2> QED BY <2>1, <2>2, ReturnBase
<1>5. CASE BarrierReturns(a) \/ NoMoreTasksReturns(a)
  <2>1. PICK call \in {"running", "ended"} : main' = [main EXCEPT ![a].call = call]
    BY <1>5 DEF BarrierReturns, NoMoreTasksReturns, Stop
  <2>2. Resume(a) /\ UNCHANGED <<authors, wanted, apQueue>>
    BY <1>5 DEF BarrierReturns, NoMoreTasksReturns, historyVars
  <2>3. /\ main' \in [Apps -> ProgramRecord] /\ \A b \in Apps : b # a => main'[b] = main[b]
        /\ main'[a].call \in {"running", "ended"}
    BY <1>1, <2>1 DEF ProgramRecord, Calls
  <2> QED BY <2>2, <2>3, ReturnBase
<1> QED BY <1>3, <1>4, <1>5 DEF MainStep

\* What the analysis of a task makes of the registry and of its reads.
LEMMA AnalysisTyped ==
    ASSUME Typed, NEW params \in Seq(Parameter)
    PROVE  /\ VersionsRead(params) \in SUBSET (Data \X Nat)
           /\ [d \in Data |-> VersionAfter(params, d)] \in [Data -> Nat]
<1>1. \A d \in Data : Registered(d) \in Nat /\ version[d] \in Nat
  BY DEF Registered, Typed
<1>2. VersionsRead(params) \in SUBSET (Data \X Nat)
  <2> SUFFICES ASSUME NEW i \in DOMAIN params
               PROVE  <<params[i].datum, Registered(params[i].datum) +
                        Cardinality(EarlierWrites(params, i))>> \in Data \X Nat
    BY DEF VersionsRead
  <2>1. params[i].datum \in Data /\ Cardinality(EarlierWrites(params, i)) \in Nat
    BY ParametersCounted
  <2>2. Registered(params[i].datum) + Cardinality(EarlierWrites(params, i)) \in Nat
    BY <1>1, <2>1
  <2> QED BY <2>1, <2>2
<1>3. ASSUME NEW d \in Data PROVE VersionAfter(params, d) \in Nat
  <2>1. Cardinality({i \in DOMAIN params : params[i].datum = d /\ params[i].mode # "R"}) \in Nat
    BY ParametersCounted
  <2>2. Registered(d) + Cardinality({i \in DOMAIN params : params[i].datum = d /\ params[i].mode # "R"}) \in Nat
    BY <1>1, <2>1
  <2> QED BY <1>1, <2>2 DEF VersionAfter
<1> QED BY <1>2, <1>3

\* The task the Access Processor is to analyse.
LEMMA AnalysedTask ==
    ASSUME Base, Serving("ANALYSE_TASK")
    PROVE  /\ Head(apQueue).task \in Task /\ Head(apQueue).task \in Created
           /\ Head(apQueue) = Analyse(Head(apQueue).task)
           /\ tasks[Head(apQueue).task] \in TaskRecord
           /\ Analyse(Head(apQueue).task) \notin ToSet(apQueue')
<1>1. Typed /\ Unrepeated
  BY DEF Base
<1>2. /\ Head(apQueue) \in Request /\ Head(apQueue).type = "ANALYSE_TASK" /\ Queued(Head(apQueue))
      /\ Once(apQueue, Head(apQueue)) => Head(apQueue) \notin ToSet(apQueue')
  BY <1>1, RequestServed
<1>3. Head(apQueue).task \in Task /\ Head(apQueue) = Analyse(Head(apQueue).task)
  BY <1>2, RequestKinds
<1>4. Head(apQueue).task \in Created /\ Once(apQueue, Head(apQueue))
  BY <1>1, <1>2, <1>3 DEF Unrepeated
<1>5. tasks[Head(apQueue).task] \in TaskRecord
  BY <1>1, <1>4 DEF Typed, Created
<1> QED BY <1>2, <1>3, <1>4, <1>5

\* Serving a request leaves no more of them in the queue.
LEMMA ServedUnrepeated ==
    ASSUME Base, NEW kind, Serving(kind), tasks' = tasks
    PROVE  Unrepeated'
<1>1. Typed /\ Unrepeated
  BY DEF Base
<1>2. /\ \A q : Queued(q)' => Queued(q)
      /\ \A q : Once(apQueue, q) => Once(apQueue, q)'
  BY <1>1, RequestServed
<1> QED BY <1>1, <1>2 DEF Unrepeated, Created

\* TaskAnalysisRequest concerns no program that waits.
LEMMA ServeAnalyseBase ==
    ASSUME Base, ServeAnalyse
    PROVE  Base'
<1>1. PICK t : t = Head(apQueue).task
  OBVIOUS
<1>2. Typed /\ Serving("ANALYSE_TASK") /\ ProcessTask(t) /\ UNCHANGED <<main, authors, wanted>>
  BY <1>1 DEF ServeAnalyse, historyVars, Base
<1>3. /\ reads' = [reads EXCEPT ![t] = VersionsRead(tasks[t].params)]
      /\ version' = [d \in Data |-> VersionAfter(tasks[t].params, d)]
      /\ writers' = RegisterOutputValues(t)
      /\ UNCHANGED <<tasks, semaphore, waited, permits>>
  BY <1>2 DEF ProcessTask
<1>4. t \in Task /\ tasks[t].params \in Seq(Parameter)
  BY <1>1, <1>2, AnalysedTask DEF TaskRecord
<1>5. apQueue' \in Seq(Request) /\ \A q : Queued(q)' => Queued(q)
  BY <1>2, RequestServed
<1>6. Typed'
  <2>1. version' \in [Data -> Nat]
    BY <1>2, <1>3, <1>4, AnalysisTyped
  <2>2. reads' \in [Task -> SUBSET (Data \X Nat)]
    BY <1>2, <1>3, <1>4, AnalysisTyped DEF Typed
  <2>3. writers' \in [Data -> Task \cup {NoTask}]
    BY <1>2, <1>3, <1>4 DEF Typed, RegisterOutputValues
  <2> QED BY <1>2, <1>3, <1>5, <2>1, <2>2, <2>3 DEF Typed, Created
<1>7. \A b \in Apps : OneCall(b)'
  <2>1. \A b \in Apps : Undisturbed(b)
    BY <1>2, <1>3, <1>5 DEF Undisturbed
  <2> QED BY <2>1, UndisturbedStays DEF Base
<1>8. Unrepeated'
  BY <1>2, <1>3, ServedUnrepeated
<1> QED BY <1>6, <1>7, <1>8 DEF Base

\* TaskEndNotification releases programs, each from the one call it waits in.
LEMMA ServeTaskEndBase ==
    ASSUME Base, ServeTaskEnd
    PROVE  Base'
<1>1. PICK t : t = Head(apQueue).task
  OBVIOUS
<1>2. Typed /\ Serving("TASK_END") /\ EndTask(t) /\ UNCHANGED <<main, authors, wanted>>
  BY <1>1 DEF ServeTaskEnd, historyVars, Base
<1>3. /\ apQueue' \in Seq(Request) /\ \A q : Queued(q)' => Queued(q)
      /\ Head(apQueue) \in Request /\ Head(apQueue).type = "TASK_END"
  BY <1>2, RequestServed
<1>4. t \in Task
  BY <1>1, <1>3, RequestKinds
<1>5. /\ UNCHANGED <<tasks, reads, version, writers>>
      /\ semaphore' \subseteq semaphore
      /\ \/ UNCHANGED <<semaphore, waited, permits>>
         \/ /\ permits' = permits \cup (semaphore \ semaphore') \cup waited[t]
            /\ waited' = [waited EXCEPT ![t] = {}]
  BY <1>2 DEF EndTask, ReleaseApp, taskVars, analyserVars
<1>6. Typed'
  BY <1>2, <1>3, <1>4, <1>5 DEF Typed, Created
<1>7. ASSUME NEW b \in Apps PROVE OneCall(b)'
  <2>1. /\ OneCall(b) /\ main'[b] = main[b]
        /\ AsksForItsCall(b)' /\ (Asking(b)' => Asking(b))
    BY <1>2, <1>3 DEF Base, OneCall, AsksForItsCall, Asking
  <2>2. \A u \in Task : b \in waited'[u] => b \in waited[u] /\ b \notin permits'
    BY <1>2, <1>4, <1>5, <2>1 DEF OneCall, Typed
  <2>3. b \in semaphore' => b \in semaphore /\ b \notin permits'
    BY <1>4, <1>5, <2>1 DEF OneCall
  <2>4. b \in permits' => b \in permits \/ b \in semaphore \/ b \in waited[t]
    BY <1>5
  <2>5. b \in permits' => main[b].call \in {"register", "wait", "barrier", "noMoreTasks"} /\ ~Asking(b)
    BY <1>4, <2>1, <2>4 DEF OneCall
  <2> QED BY <2>1, <2>2, <2>3, <2>5 DEF OneCall
<1>8. Unrepeated'
  BY <1>2, <1>5, ServedUnrepeated
<1> QED BY <1>6, <1>7, <1>8 DEF Base

\* The program whose request is served waits for it alone, and for nothing afterwards.
LEMMA ServedProgram ==
    ASSUME Base, NEW kind \in {"REGISTER_DATA_ACCESS", "WAIT_FOR_TASK", "BARRIER", "END_OF_APP"},
           Serving(kind), NEW a, a = Head(apQueue).app
    PROVE  /\ a \in Apps /\ a \notin permits /\ a \notin semaphore
           /\ \A t \in Task : a \notin waited[t]
           /\ main[a].call = CASE kind = "REGISTER_DATA_ACCESS" -> "register"
                               [] kind = "WAIT_FOR_TASK" -> "wait"
                               [] kind = "BARRIER" -> "barrier"
                               [] kind = "END_OF_APP" -> "noMoreTasks"
           /\ /\ Register(a) \notin ToSet(apQueue') /\ WaitForTask(a) \notin ToSet(apQueue')
              /\ BarrierRequest(a) \notin ToSet(apQueue') /\ EndOfApp(a) \notin ToSet(apQueue')
           /\ apQueue' \in Seq(Request) /\ \A q : Queued(q)' => Queued(q)
<1>1. Typed /\ Unrepeated
  BY DEF Base
<1>2. /\ Head(apQueue) \in Request /\ Head(apQueue).type = kind /\ Queued(Head(apQueue))
      /\ apQueue' \in Seq(Request) /\ \A q : Queued(q)' => Queued(q)
      /\ Once(apQueue, Head(apQueue)) => Head(apQueue) \notin ToSet(apQueue')
  BY <1>1, RequestServed
<1>3. /\ a \in Apps
      /\ kind = "REGISTER_DATA_ACCESS" => Head(apQueue) = Register(a)
      /\ kind = "WAIT_FOR_TASK" => Head(apQueue) = WaitForTask(a)
      /\ kind = "BARRIER" => Head(apQueue) = BarrierRequest(a)
      /\ kind = "END_OF_APP" => Head(apQueue) = EndOfApp(a)
  BY <1>2, RequestKinds
<1>4. Head(apQueue) \notin ToSet(apQueue')
  BY <1>1, <1>2, <1>3 DEF Unrepeated
<1>5. OneCall(a) /\ Asking(a)
  BY <1>2, <1>3 DEF Base, Asking
<1>6. /\ a \notin permits /\ a \notin semaphore /\ \A t \in Task : a \notin waited[t]
      /\ AsksForItsCall(a)
  BY <1>5 DEF OneCall
<1>7. \A q : q \in ToSet(apQueue') => Queued(q)
  BY <1>2 DEF Queued
<1>8. CASE kind = "REGISTER_DATA_ACCESS"
  BY <1>2, <1>3, <1>4, <1>6, <1>7, <1>8 DEF AsksForItsCall
<1>9. CASE kind = "WAIT_FOR_TASK"
  BY <1>2, <1>3, <1>4, <1>6, <1>7, <1>9 DEF AsksForItsCall
<1>10. CASE kind = "BARRIER"
  BY <1>2, <1>3, <1>4, <1>6, <1>7, <1>10 DEF AsksForItsCall
<1>11. CASE kind = "END_OF_APP"
  BY <1>2, <1>3, <1>4, <1>6, <1>7, <1>11 DEF AsksForItsCall
<1> QED BY <1>8, <1>9, <1>10, <1>11

\* What the service of a program's request may do to the calls.
LEMMA ServedBase ==
    ASSUME Base, NEW kind \in {"REGISTER_DATA_ACCESS", "WAIT_FOR_TASK", "BARRIER", "END_OF_APP"},
           Serving(kind), NEW a, a = Head(apQueue).app,
           main' \in [Apps -> ProgramRecord], \A b \in Apps : b # a => main'[b] = main[b],
           main'[a].call = main[a].call, main'[a].access = main[a].access,
           UNCHANGED <<tasks, reads, authors, wanted>>,
           version' \in [Data -> Nat], writers' \in [Data -> Task \cup {NoTask}],
           waited' \in [Task -> SUBSET Apps], permits' \subseteq Apps, semaphore' \subseteq Apps,
           \A b \in Apps : b # a => /\ b \in permits' <=> b \in permits
                                    /\ b \in semaphore' <=> b \in semaphore
                                    /\ \A t \in Task : b \in waited'[t] <=> b \in waited[t],
           a \in permits' => a \notin semaphore' /\ \A t \in Task : a \notin waited'[t],
           a \in semaphore' => kind \in {"BARRIER", "END_OF_APP"},
           \A t \in Task : a \in waited'[t] => kind = "WAIT_FOR_TASK",
           \A t, u \in Task : a \in waited'[t] /\ a \in waited'[u] => t = u
    PROVE  Base'
<1>1. /\ a \in Apps
      /\ main[a].call = CASE kind = "REGISTER_DATA_ACCESS" -> "register"
                          [] kind = "WAIT_FOR_TASK" -> "wait"
                          [] kind = "BARRIER" -> "barrier"
                          [] kind = "END_OF_APP" -> "noMoreTasks"
      /\ apQueue' \in Seq(Request) /\ \A q : Queued(q)' => Queued(q)
  BY ServedProgram
<1>2. /\ Register(a) \notin ToSet(apQueue') /\ WaitForTask(a) \notin ToSet(apQueue')
      /\ BarrierRequest(a) \notin ToSet(apQueue') /\ EndOfApp(a) \notin ToSet(apQueue')
  BY ServedProgram
<1>3. Typed'
  BY <1>1 DEF Base, Typed, Created
<1>4. ASSUME NEW b \in Apps, b # a PROVE OneCall(b)'
  <2>1. Undisturbed(b)
    BY <1>1, <1>4 DEF Undisturbed
  <2> QED BY <2>1, UndisturbedStays DEF Base
<1>5. ASSUME NEW b, b = a PROVE OneCall(b)'
  <2>1. ~Asking(b)' /\ AsksForItsCall(b)'
    BY <1>2, <1>5 DEF Asking, AsksForItsCall, Queued
  <2>2. main[b].call \in {"register", "wait", "barrier", "noMoreTasks"}
    BY <1>1, <1>5
  <2>3. /\ kind \in {"BARRIER", "END_OF_APP"} => main[b].call \in {"barrier", "noMoreTasks"}
        /\ kind = "WAIT_FOR_TASK" => main[b].call = "wait"
    BY <1>1, <1>5
  <2>4. main'[b].call \in {"register", "wait"} => main'[b].access \in MainAccesses
    BY <1>1, <1>5 DEF Base, OneCall
  <2> QED BY <1>5, <2>1, <2>2, <2>3, <2>4 DEF OneCall
<1>6. Unrepeated'
  BY ServedUnrepeated
<1> QED BY <1>1, <1>3, <1>4, <1>5, <1>6 DEF Base

\* RegisterDataAccessRequest releases its program.
LEMMA ServeRegisterBase ==
    ASSUME Base, ServeRegister
    PROVE  Base'
<1>1. PICK a, d, mode : a = Head(apQueue).app /\ d = main[a].access.datum /\ mode = main[a].access.mode
  OBVIOUS
<1>2. /\ Serving("REGISTER_DATA_ACCESS") /\ Typed /\ UNCHANGED <<authors, wanted>>
      /\ RegisterAccess(a, d, mode)
      /\ main' = [main EXCEPT ![a].in = IF mode = "W" THEN NoVersion ELSE <<d, Registered(d)>>]
  BY <1>1 DEF ServeRegister, historyVars, Base
<1>3. /\ a \in Apps /\ main[a].call = "register" /\ a \notin semaphore
      /\ \A t \in Task : a \notin waited[t]
  BY <1>1, <1>2, ServedProgram
<1>4. d \in Data
  <2>1. main[a].access \in MainAccesses
    BY <1>3 DEF Base, OneCall
  <2> QED BY <1>1, <2>1, MainAccessesAssumption
<1>5. Registered(d) \in Nat
  BY <1>2, <1>4 DEF Registered, Typed
<1>6. /\ main' \in [Apps -> ProgramRecord] /\ \A b \in Apps : b # a => main'[b] = main[b]
      /\ main'[a].call = main[a].call /\ main'[a].access = main[a].access
  <2>1. PICK v : v = IF mode = "W" THEN NoVersion ELSE <<d, Registered(d)>>
    OBVIOUS
  <2>2. v \in (Data \X Nat) \cup {NoVersion}
    BY <1>4, <1>5, <2>1
  <2>3. main' = [main EXCEPT ![a].in = v]
    BY <1>2, <2>1
  <2>4. main \in [Apps -> ProgramRecord] /\ main[a] \in ProgramRecord
    BY <1>2, <1>3 DEF Typed
  <2>5. PICK p : p = [main[a] EXCEPT !.in = v]
    OBVIOUS
  <2>6. p \in ProgramRecord /\ p.call = main[a].call /\ p.access = main[a].access
    BY <2>2, <2>4, <2>5 DEF ProgramRecord
  <2>7. main' = [main EXCEPT ![a] = p]
    BY <2>3, <2>5
  <2> QED BY <1>3, <2>4, <2>6, <2>7
<1>7. /\ version' \in [Data -> Nat] /\ permits' = permits \cup {a}
      /\ UNCHANGED <<tasks, reads, writers, semaphore, waited>>
  BY <1>2, <1>4, <1>5 DEF RegisterAccess, Typed, taskVars
<1>8. "REGISTER_DATA_ACCESS" \in {"REGISTER_DATA_ACCESS", "WAIT_FOR_TASK", "BARRIER", "END_OF_APP"}
  OBVIOUS
<1>9. /\ writers' \in [Data -> Task \cup {NoTask}] /\ waited' \in [Task -> SUBSET Apps]
      /\ permits' \subseteq Apps /\ semaphore' \subseteq Apps
  BY <1>2, <1>3, <1>7 DEF Typed
<1> QED BY <1>1, <1>2, <1>3, <1>6, <1>7, <1>8, <1>9, ServedBase, ZenonT(40)

\* WaitForTaskRequest releases its program, or makes it wait for one task.
LEMMA ServeWaitForTaskBase ==
    ASSUME Base, ServeWaitForTask
    PROVE  Base'
<1>1. PICK a, d, mode : a = Head(apQueue).app /\ d = main[a].access.datum /\ mode = WaitMode(main[a].access)
  OBVIOUS
<1>2. /\ Serving("WAIT_FOR_TASK") /\ Typed /\ UNCHANGED <<authors, wanted, main>>
      /\ FindWaitedTask(a, d, mode)
  BY <1>1 DEF ServeWaitForTask, historyVars, Base
<1>3. "WAIT_FOR_TASK" \in {"REGISTER_DATA_ACCESS", "WAIT_FOR_TASK", "BARRIER", "END_OF_APP"}
  OBVIOUS
<1>4. /\ a \in Apps /\ main[a].call = "wait" /\ a \notin semaphore /\ a \notin permits
      /\ \A t \in Task : a \notin waited[t]
  BY <1>1, <1>2, <1>3, ServedProgram
<1>5. d \in Data
  <2>1. main[a].access \in MainAccesses
    BY <1>4 DEF Base, OneCall
  <2> QED BY <1>1, <2>1, MainAccessesAssumption
<1>6. PICK w : w = writers[d]
  OBVIOUS
<1>7. /\ UNCHANGED <<tasks, reads, version, semaphore>>
      /\ writers' = IF mode = "RW" THEN [writers EXCEPT ![d] = NoTask] ELSE writers
      /\ IF w = NoTask \/ status[w] = "FINISHED"
         THEN permits' = permits \cup {a} /\ waited' = waited
         ELSE waited' = [waited EXCEPT ![w] = waited[w] \cup {a}] /\ permits' = permits
  BY <1>2, <1>6 DEF FindWaitedTask, taskVars
<1>8. writers' \in [Data -> Task \cup {NoTask}] /\ w \in Task \cup {NoTask}
  BY <1>2, <1>5, <1>6, <1>7 DEF Typed
<1>9. /\ waited' \in [Task -> SUBSET Apps] /\ permits' \subseteq Apps
      /\ \A b \in Apps : b # a => /\ b \in permits' <=> b \in permits
                                  /\ \A t \in Task : b \in waited'[t] <=> b \in waited[t]
      /\ a \in permits' => \A t \in Task : a \notin waited'[t]
      /\ \A t, u \in Task : a \in waited'[t] /\ a \in waited'[u] => t = u
  <2>1. CASE w = NoTask \/ status[w] = "FINISHED"
    BY <1>2, <1>4, <1>7, <2>1 DEF Typed
  <2>2. CASE ~(w = NoTask \/ status[w] = "FINISHED")
    <3>1. w \in Task /\ permits' = permits /\ waited \in [Task -> SUBSET Apps] /\ permits \subseteq Apps
      BY <1>2, <1>7, <1>8, <2>2 DEF Typed
    <3>2. \A t \in Task : waited'[t] = IF t = w THEN waited[w] \cup {a} ELSE waited[t]
      BY <1>7, <2>2, <3>1
    <3>3. waited' \in [Task -> SUBSET Apps]
      BY <1>4, <1>7, <2>2, <3>1
    <3> QED BY <1>4, <3>1, <3>2, <3>3
  <2> QED BY <2>1, <2>2
<1>10. main' \in [Apps -> ProgramRecord] /\ version' \in [Data -> Nat] /\ semaphore' \subseteq Apps
  BY <1>2, <1>7 DEF Typed
<1> QED BY <1>1, <1>2, <1>3, <1>4, <1>7, <1>8, <1>9, <1>10, ServedBase

\* BarrierRequest and EndOfAppRequest release their program, or stop it.
LEMMA ServeSynchronisationBase ==
    ASSUME Base, ServeBarrier \/ ServeEndOfApp
    PROVE  Base'
<1>1. PICK a : a = Head(apQueue).app
  OBVIOUS
<1>2. PICK kind \in {"BARRIER", "END_OF_APP"} : Serving(kind)
  BY DEF ServeBarrier, ServeEndOfApp
<1>3. Typed /\ UNCHANGED <<authors, wanted, main>> /\ (Barrier(a) \/ NoMoreTasks(a))
  BY <1>1 DEF ServeBarrier, ServeEndOfApp, historyVars, Base
<1>4. kind \in {"REGISTER_DATA_ACCESS", "WAIT_FOR_TASK", "BARRIER", "END_OF_APP"}
  BY <1>2
<1>5. /\ a \in Apps /\ a \notin semaphore /\ a \notin permits
      /\ \A t \in Task : a \notin waited[t]
  BY <1>1, <1>2, <1>4, ServedProgram
<1>6. /\ UNCHANGED <<tasks, reads, version, writers, waited>>
      /\ \/ permits' = permits \cup {a} /\ semaphore' = semaphore
         \/ semaphore' = semaphore \cup {a} /\ permits' = permits
  BY <1>3 DEF Barrier, NoMoreTasks, taskVars
<1>7. /\ main' \in [Apps -> ProgramRecord] /\ version' \in [Data -> Nat]
      /\ writers' \in [Data -> Task \cup {NoTask}] /\ waited' \in [Task -> SUBSET Apps]
      /\ permits' \subseteq Apps /\ semaphore' \subseteq Apps
  BY <1>3, <1>5, <1>6 DEF Typed
<1>8. \A b \in Apps : b # a => /\ b \in permits' <=> b \in permits
                               /\ b \in semaphore' <=> b \in semaphore
  BY <1>6
<1> QED BY <1>1, <1>2, <1>3, <1>4, <1>5, <1>6, <1>7, <1>8, ServedBase

\* The steps of the Task Dispatcher and the executions change nothing here, but that a
\* task which ends tells the Access Processor.
LEMMA ExecutionBase ==
    ASSUME Base, \/ DispatcherStep
                 \/ \E t \in Task : \E i \in DOMAIN exec[t] : LaunchExecution(t, i) \/ CompleteExecution(t, i)
    PROVE  Base'
<1>1. /\ UNCHANGED <<tasks, reads, version, writers, waited, permits, semaphore, main, authors, wanted>>
      /\ apQueue' = apQueue \/ \E t \in Task : apQueue' = Append(apQueue, TaskEnd(t))
  BY DEF DispatcherStep, TakeRequest, HasNext, EndOfPredecessors, NextPredecessor, DropRequest,
         LaunchExecution, Launch, CompleteExecution, Complete, taskVars, analyserVars, historyVars
<1>2. CASE apQueue' = apQueue
  BY <1>1, <1>2 DEF Base, Typed, OneCall, AsksForItsCall, Asking, Queued, Unrepeated, Created
<1>3. CASE \E t \in Task : apQueue' = Append(apQueue, TaskEnd(t))
  <2>1. PICK t \in Task : apQueue' = Append(apQueue, TaskEnd(t))
    BY <1>3
  <2>2. /\ apQueue' \in Seq(Request)
        /\ \A q : Queued(q)' <=> Queued(q) \/ q = TaskEnd(t)
        /\ \A q : Once(apQueue, q) /\ (q # TaskEnd(t) \/ ~Queued(q)) => Once(apQueue, q)'
    BY <2>1, RequestOffered, RequestsAre DEF Base
  <2>3. Typed'
    BY <1>1, <2>2 DEF Base, Typed, Created
  <2>4. \A b \in Apps : OneCall(b)'
    <3>1. \A b \in Apps : Undisturbed(b)
      BY <1>1, <2>1, TaskOffered DEF Undisturbed
    <3> QED BY <3>1, UndisturbedStays DEF Base
  <2>5. Unrepeated'
    <3>1. \A u \in Task : Once(apQueue, Analyse(u))' /\ (Queued(Analyse(u))' => u \in Created')
      BY <1>1, <2>2, RequestsDiffer DEF Base, Unrepeated, Created
    <3> QED BY <2>1, <3>1, TaskOffered DEF Unrepeated
  <2> QED BY <2>3, <2>4, <2>5 DEF Base
<1> QED BY <1>1, <1>2, <1>3

\* Every step keeps the programs in one call each.
LEMMA BaseStays == Base /\ [Next]_vars => Base'
<1> SUFFICES ASSUME Base, [Next]_vars PROVE Base'
  OBVIOUS
<1>1. ASSUME NEW a \in Apps, MainStep(a) PROVE Base'
  BY <1>1, MainStepBase
<1>2. ASSUME NEW a \in Apps, NEW params \in Signatures, NEW copies \in Copies,
             NewTask(a, params, copies)
      PROVE Base'
  BY <1>2, NewTaskBase
<1>3. ASSUME NEW a \in Apps, NEW access \in MainAccesses, MainAccess(a, access) PROVE Base'
  BY <1>3, MainAccessBase
<1>4. ASSUME NEW a \in Apps, CallBarrier(a) \/ CallNoMoreTasks(a) PROVE Base'
  BY <1>4, CallBarrierBase, CallNoMoreTasksBase
<1>5. CASE Serve
  BY <1>5, ServeAnalyseBase, ServeTaskEndBase, ServeRegisterBase, ServeWaitForTaskBase,
     ServeSynchronisationBase DEF Serve
<1>6. CASE \/ DispatcherStep
           \/ \E t \in Task : \E i \in DOMAIN exec[t] : LaunchExecution(t, i) \/ CompleteExecution(t, i)
  BY <1>6, ExecutionBase
<1>7. CASE UNCHANGED vars
  BY <1>7 DEF vars, taskVars, analyserVars, historyVars, Base, Typed, OneCall, AsksForItsCall,
              Asking, Queued, Unrepeated, Created
<1> QED BY <1>1, <1>2, <1>3, <1>4, <1>5, <1>6, <1>7 DEF Next

-----------------------------------------------------------------------------
(* The versions along the queue.                                           *)

\* The registry v, read and changed as the TaskAnalyser does its own.
RegisteredIn(v, d) == IF v[d] = 0 THEN 1 ELSE v[d]

WritesOf(params, d) == Cardinality({i \in DOMAIN params : params[i].datum = d /\ params[i].mode # "R"})

AfterTask(v, params) ==
    [d \in Data |-> IF \E i \in DOMAIN params : params[i].datum = d
                    THEN RegisteredIn(v, d) + WritesOf(params, d)
                    ELSE v[d]]

AfterAccess(v, access) ==
    [v EXCEPT ![access.datum] = IF access.mode = "R" THEN RegisteredIn(v, access.datum)
                                ELSE RegisteredIn(v, access.datum) + 1]

ReadsIn(v, params) ==
    {<<params[i].datum, RegisteredIn(v, params[i].datum) + Cardinality(EarlierWrites(params, i))>> :
        i \in {j \in DOMAIN params : params[j].mode # "W"}}

\* What serving a request makes of the registry.
AfterRequest(v, r) ==
    IF r.type = "ANALYSE_TASK" THEN AfterTask(v, tasks[r.task].params)
    ELSE IF r.type = "REGISTER_DATA_ACCESS" THEN AfterAccess(v, main[r.app].access)
    ELSE v

\* The task or the program that generates the versions a request makes.
AuthorOf(r) == IF r.type = "ANALYSE_TASK" THEN r.task
               ELSE IF r.type = "REGISTER_DATA_ACCESS" THEN r.app
               ELSE NoTask

\* From the registry v to the registry w a datum gets its first version, of nobody, and the
\* versions that the author of r generates.
Makes(v, w, r) ==
    \A d \in Data :
        /\ w[d] <= Len(authors[d])
        /\ v[d] = 0 /\ w[d] # 0 => authors[d][1] = NoTask
        /\ \A k \in 1 .. w[d] : RegisteredIn(v, d) < k => authors[d][k] = AuthorOf(r)

\* A history of the registry along the queue: it starts with what the registry holds, each
\* request makes one step of it, and at its end each datum has the versions its authors
\* have made.
History(h) ==
    /\ h \in [1 .. Len(apQueue) + 1 -> [Data -> Nat]]
    /\ h[1] = version
    /\ \A i \in 1 .. Len(apQueue) : h[i + 1] = AfterRequest(h[i], apQueue[i])
    /\ \A d \in Data : h[Len(apQueue) + 1][d] = Len(authors[d])
    /\ \A i \in 1 .. Len(apQueue) : apQueue[i].type = "ANALYSE_TASK" =>
          wanted[apQueue[i].task] = ReadsIn(h[i], tasks[apQueue[i].task].params)
    /\ \A i \in 1 .. Len(apQueue) : Makes(h[i], h[i + 1], apQueue[i])

ReadsAgree == \A t \in Created : ~Queued(Analyse(t)) => reads[t] = wanted[t]

OrderInv == Base /\ (\E h : History(h)) /\ ReadsAgree

\* The history is made of registries.
LEMMA AfterTyped ==
    ASSUME NEW v \in [Data -> Nat]
    PROVE  /\ \A params \in Seq(Parameter) : AfterTask(v, params) \in [Data -> Nat]
           /\ \A access \in MainAccesses : AfterAccess(v, access) \in [Data -> Nat]
<1>1. \A d \in Data : RegisteredIn(v, d) \in Nat /\ v[d] \in Nat
  BY DEF RegisteredIn
<1>2. ASSUME NEW params \in Seq(Parameter) PROVE AfterTask(v, params) \in [Data -> Nat]
  <2>1. \A d \in Data : WritesOf(params, d) \in Nat
    BY ParametersCounted DEF WritesOf
  <2>2. \A d \in Data : RegisteredIn(v, d) + WritesOf(params, d) \in Nat
    BY <1>1, <2>1
  <2> QED BY <1>1, <2>2 DEF AfterTask
<1>3. ASSUME NEW access \in MainAccesses PROVE AfterAccess(v, access) \in [Data -> Nat]
  <2>1. access.datum \in Data
    BY MainAccessesAssumption
  <2>2. RegisteredIn(v, access.datum) \in Nat /\ RegisteredIn(v, access.datum) + 1 \in Nat
    BY <1>1, <2>1
  <2> QED BY <2>2 DEF AfterAccess
<1> QED BY <1>2, <1>3

\* The requests in the queue mean what they meant when they were offered.
SameRequests ==
    \A i \in 1 .. Len(apQueue) :
        /\ apQueue[i].type = "ANALYSE_TASK" => /\ tasks'[apQueue[i].task] = tasks[apQueue[i].task]
                                               /\ wanted'[apQueue[i].task] = wanted[apQueue[i].task]
        /\ apQueue[i].type = "REGISTER_DATA_ACCESS" =>
              main'[apQueue[i].app].access = main[apQueue[i].app].access

\* The registry itself is that of the requests.
LEMMA VersionIs ==
    /\ \A d : Registered(d) = RegisteredIn(version, d)
    /\ \A params : VersionsRead(params) = ReadsIn(version, params)
    /\ \A params : [d \in Data |-> VersionAfter(params, d)] = AfterTask(version, params)
<1>1. \A d : Registered(d) = RegisteredIn(version, d)
  BY DEF Registered, RegisteredIn
<1>2. ASSUME NEW params PROVE VersionsRead(params) = ReadsIn(version, params)
  BY <1>1 DEF VersionsRead, ReadsIn
<1>3. ASSUME NEW params PROVE [d \in Data |-> VersionAfter(params, d)] = AfterTask(version, params)
  BY <1>1 DEF VersionAfter, AfterTask, WritesOf
<1> QED BY <1>1, <1>2, <1>3

\* Nothing happens to the queue.
LEMMA HistoryStays ==
    ASSUME NEW h, History(h), SameRequests, UNCHANGED <<apQueue, version, authors>>
    PROVE  History(h)'
<1>1. ASSUME NEW i \in 1 .. Len(apQueue)
      PROVE  AfterRequest(h[i], apQueue[i])' = AfterRequest(h[i], apQueue[i])
  BY DEF AfterRequest, SameRequests
<1>2. \A i \in 1 .. Len(apQueue) : h[i + 1] = AfterRequest(h[i], apQueue[i])'
  BY <1>1 DEF History
<1>3. \A i \in 1 .. Len(apQueue) : apQueue[i].type = "ANALYSE_TASK" =>
        wanted'[apQueue[i].task] = ReadsIn(h[i], tasks'[apQueue[i].task].params)
  BY DEF History, SameRequests
<1>4. \A i \in 1 .. Len(apQueue) : Makes(h[i], h[i + 1], apQueue[i])'
  BY DEF History, Makes
<1> QED BY <1>2, <1>3, <1>4 DEF History

\* The versions there are keep their authors.
AuthorsKept ==
    \A d \in Data :
        /\ Len(authors[d]) \in Nat /\ Len(authors'[d]) \in Nat /\ Len(authors[d]) <= Len(authors'[d])
        /\ \A k \in 1 .. Len(authors[d]) : authors'[d][k] = authors[d][k]

\* So the authors of a request stay, whatever is added.
LEMMA MakesStays ==
    ASSUME NEW v \in [Data -> Nat], NEW w \in [Data -> Nat], NEW r, Makes(v, w, r), AuthorsKept
    PROVE  Makes(v, w, r)'
<1> SUFFICES ASSUME NEW d \in Data
             PROVE  /\ w[d] <= Len(authors'[d])
                    /\ v[d] = 0 /\ w[d] # 0 => authors'[d][1] = NoTask
                    /\ \A k \in 1 .. w[d] : RegisteredIn(v, d) < k => authors'[d][k] = AuthorOf(r)
  BY DEF Makes
<1>1. /\ w[d] <= Len(authors[d])
      /\ v[d] = 0 /\ w[d] # 0 => authors[d][1] = NoTask
      /\ \A k \in 1 .. w[d] : RegisteredIn(v, d) < k => authors[d][k] = AuthorOf(r)
  BY DEF Makes
<1>2. /\ Len(authors[d]) \in Nat /\ Len(authors'[d]) \in Nat /\ Len(authors[d]) <= Len(authors'[d])
      /\ \A k \in 1 .. Len(authors[d]) : authors'[d][k] = authors[d][k]
  BY DEF AuthorsKept
<1>3. w[d] \in Nat
  OBVIOUS
<1>4. w[d] # 0 => 1 \in 1 .. Len(authors[d])
  BY <1>1, <1>2, <1>3
<1>5. \A k \in 1 .. w[d] : k \in 1 .. Len(authors[d])
  BY <1>1, <1>2, <1>3
<1> QED BY <1>1, <1>2, <1>3, <1>4, <1>5

\* A request is offered: the history grows by what it will make of the registry.
LEMMA HistoryGrows ==
    ASSUME Typed, NEW h, History(h), SameRequests, NEW r \in Request,
           apQueue' = Append(apQueue, r), version' = version,
           NEW last \in [Data -> Nat], NEW n, n = Len(apQueue) + 1,
           IF r.type = "ANALYSE_TASK" THEN last = AfterTask(h[n], tasks'[r.task].params)
           ELSE IF r.type = "REGISTER_DATA_ACCESS" THEN last = AfterAccess(h[n], main'[r.app].access)
           ELSE last = h[n],
           \A d \in Data : last[d] = Len(authors'[d]),
           r.type = "ANALYSE_TASK" => wanted'[r.task] = ReadsIn(h[n], tasks'[r.task].params),
           AuthorsKept, Makes(h[n], last, r)'
    PROVE  \E g : History(g)'
<1> DEFINE g == [i \in 1 .. n + 1 |-> IF i = n + 1 THEN last ELSE h[i]]
<1>1. /\ n \in Nat /\ Len(apQueue') = n /\ Len(apQueue) = n - 1 /\ apQueue'[n] = r
      /\ \A i \in 1 .. n - 1 : apQueue'[i] = apQueue[i]
  BY DEF Typed
<1>2. h \in [1 .. n -> [Data -> Nat]] /\ h[1] = version /\ n # 0
  BY <1>1 DEF History
<1>3. g \in [1 .. Len(apQueue') + 1 -> [Data -> Nat]] /\ g[1] = version' /\ g[n + 1] = last
      /\ \A i \in 1 .. n : g[i] = h[i] /\ (i \in 1 .. n - 1 => g[i + 1] = h[i + 1])
  BY <1>1, <1>2
<1> HIDE DEF g
<1>4. ASSUME NEW i \in 1 .. Len(apQueue') PROVE g[i + 1] = AfterRequest(g[i], apQueue[i])'
  <2>1. CASE i = n
    <3>1. apQueue'[i] = r /\ g[i] = h[n] /\ g[i + 1] = last
      BY <1>1, <1>2, <1>3, <2>1
    <3> QED BY <3>1 DEF AfterRequest
  <2>2. CASE i \in 1 .. n - 1
    <3>1. apQueue'[i] = apQueue[i] /\ g[i] = h[i] /\ g[i + 1] = h[i + 1] /\ i \in 1 .. Len(apQueue)
      BY <1>1, <1>3, <2>2
    <3>2. h[i + 1] = AfterRequest(h[i], apQueue[i])
      BY <3>1 DEF History
    <3> QED BY <3>1, <3>2 DEF AfterRequest, SameRequests
  <2> QED BY <1>1, <2>1, <2>2
<1>5. ASSUME NEW i \in 1 .. Len(apQueue'), apQueue'[i].type = "ANALYSE_TASK"
      PROVE  wanted'[apQueue'[i].task] = ReadsIn(g[i], tasks'[apQueue'[i].task].params)
  <2>1. CASE i = n
    <3>1. apQueue'[i] = r /\ g[i] = h[n]
      BY <1>1, <1>2, <1>3, <2>1
    <3> QED BY <1>5, <3>1
  <2>2. CASE i \in 1 .. n - 1
    <3>1. apQueue'[i] = apQueue[i] /\ g[i] = h[i] /\ i \in 1 .. Len(apQueue)
      BY <1>1, <1>3, <2>2
    <3>2. wanted[apQueue[i].task] = ReadsIn(h[i], tasks[apQueue[i].task].params)
      BY <1>5, <3>1 DEF History
    <3> QED BY <1>5, <3>1, <3>2 DEF SameRequests
  <2> QED BY <1>1, <2>1, <2>2
<1>6. \A d \in Data : g[Len(apQueue') + 1][d] = Len(authors'[d])
  BY <1>1, <1>3
<1>8. ASSUME NEW i \in 1 .. Len(apQueue') PROVE Makes(g[i], g[i + 1], apQueue[i])'
  <2>1. CASE i = n
    <3>1. apQueue'[i] = r /\ g[i] = h[n] /\ g[i + 1] = last
      BY <1>1, <1>2, <1>3, <2>1
    <3> QED BY <3>1 DEF Makes
  <2>2. CASE i \in 1 .. n - 1
    <3>1. /\ apQueue'[i] = apQueue[i] /\ g[i] = h[i] /\ g[i + 1] = h[i + 1] /\ i \in 1 .. Len(apQueue)
          /\ h[i] \in [Data -> Nat] /\ h[i + 1] \in [Data -> Nat]
      <4>1. i \in 1 .. n /\ i + 1 \in 1 .. n
        BY <1>1, <2>2
      <4> QED BY <1>1, <1>2, <1>3, <2>2, <4>1
    <3>2. Makes(h[i], h[i + 1], apQueue[i])
      BY <3>1 DEF History
    <3>3. PICK v, w, q : v = h[i] /\ w = h[i + 1] /\ q = apQueue[i]
      OBVIOUS
    <3>4. Makes(v, w, q)'
      BY <3>1, <3>2, <3>3, MakesStays
    <3> QED BY <3>1, <3>3, <3>4 DEF Makes
  <2> QED BY <1>1, <2>1, <2>2
<1>7. History(g)'
  BY <1>3, <1>4, <1>5, <1>6, <1>8 DEF History
<1> QED BY <1>7

\* The first request is served as the history says: the history begins one step later.
LEMMA HistoryAdvances ==
    ASSUME Typed, NEW h, History(h), SameRequests,
           apQueue # << >>, apQueue' = Tail(apQueue), UNCHANGED authors,
           version' = AfterRequest(version, Head(apQueue))
    PROVE  \E g : History(g)'
<1> DEFINE n == Len(apQueue)
           g == [i \in 1 .. n |-> h[i + 1]]
<1>1. /\ n \in Nat /\ n # 0 /\ Len(apQueue') = n - 1 /\ Head(apQueue) = apQueue[1]
      /\ \A i \in 1 .. n - 1 : apQueue'[i] = apQueue[i + 1]
  BY DEF Typed
<1>2. h \in [1 .. n + 1 -> [Data -> Nat]] /\ h[1] = version /\ h[1 + 1] = AfterRequest(h[1], apQueue[1])
  BY <1>1 DEF History
<1>3. /\ g \in [1 .. Len(apQueue') + 1 -> [Data -> Nat]] /\ g[1] = version'
      /\ g[Len(apQueue') + 1] = h[n + 1]
      /\ \A i \in 1 .. n - 1 : g[i] = h[i + 1] /\ g[i + 1] = h[(i + 1) + 1] /\ i + 1 \in 1 .. n
  <2>1. g \in [1 .. n -> [Data -> Nat]] /\ n - 1 + 1 = n
    BY <1>1, <1>2
  <2>2. g[1] = h[1 + 1] /\ g[n] = h[n + 1]
    BY <1>1
  <2>3. \A i \in 1 .. n - 1 : g[i] = h[i + 1] /\ g[i + 1] = h[(i + 1) + 1] /\ i + 1 \in 1 .. n
    BY <1>1
  <2> QED BY <1>1, <1>2, <2>1, <2>2, <2>3
<1> PICK m, f : m = n /\ f = g
  OBVIOUS
<1>4. ASSUME NEW i \in 1 .. Len(apQueue') PROVE f[i + 1] = AfterRequest(f[i], apQueue[i])'
  <2>1. /\ apQueue'[i] = apQueue[i + 1] /\ f[i] = h[i + 1] /\ f[i + 1] = h[(i + 1) + 1]
        /\ i + 1 \in 1 .. Len(apQueue)
    BY <1>1, <1>3
  <2>2. h[(i + 1) + 1] = AfterRequest(h[i + 1], apQueue[i + 1])
    BY <2>1 DEF History
  <2>3. SameRequests
    OBVIOUS
  <2> HIDE DEF n, g
  <2> QED BY <2>1, <2>2, <2>3 DEF AfterRequest, SameRequests
<1>5. ASSUME NEW i \in 1 .. Len(apQueue'), apQueue'[i].type = "ANALYSE_TASK"
      PROVE  wanted'[apQueue'[i].task] = ReadsIn(f[i], tasks'[apQueue'[i].task].params)
  <2>1. apQueue'[i] = apQueue[i + 1] /\ f[i] = h[i + 1] /\ i + 1 \in 1 .. Len(apQueue)
    BY <1>1, <1>3
  <2>2. wanted[apQueue[i + 1].task] = ReadsIn(h[i + 1], tasks[apQueue[i + 1].task].params)
    BY <1>5, <2>1 DEF History
  <2> QED BY <1>5, <2>1, <2>2 DEF SameRequests
<1>6. \A d \in Data : f[Len(apQueue') + 1][d] = Len(authors'[d])
  BY <1>3 DEF History
<1>7. f \in [1 .. Len(apQueue') + 1 -> [Data -> Nat]] /\ f[1] = version'
  BY <1>3
<1>9. ASSUME NEW i \in 1 .. Len(apQueue') PROVE Makes(f[i], f[i + 1], apQueue[i])'
  <2>1. /\ apQueue'[i] = apQueue[i + 1] /\ f[i] = h[i + 1] /\ f[i + 1] = h[(i + 1) + 1]
        /\ i + 1 \in 1 .. Len(apQueue)
    BY <1>1, <1>3
  <2>2. Makes(h[i + 1], h[(i + 1) + 1], apQueue[i + 1])
    BY <2>1 DEF History
  <2> HIDE DEF n, g
  <2> QED BY <2>1, <2>2 DEF Makes
<1> HIDE DEF n, g
<1>8. History(f)'
  BY <1>4, <1>5, <1>6, <1>7, <1>9 DEF History
<1> QED BY <1>8

\* The accesses a program makes are those it is registering: no step changes them.
LEMMA AccessesStay ==
    ASSUME Base, NEW a, \A b \in Apps : b # a => main'[b].access = main[b].access,
           a \in Apps => ~Queued(Register(a)) \/ main'[a].access = main[a].access,
           \A t \in Created : tasks'[t] = tasks[t] /\ wanted'[t] = wanted[t]
    PROVE  SameRequests
<1> SUFFICES ASSUME NEW i \in 1 .. Len(apQueue), NEW r, r = apQueue[i]
             PROVE  /\ r.type = "ANALYSE_TASK" => tasks'[r.task] = tasks[r.task] /\ wanted'[r.task] = wanted[r.task]
                    /\ r.type = "REGISTER_DATA_ACCESS" => main'[r.app].access = main[r.app].access
  BY DEF SameRequests
<1>1. r \in Request /\ Queued(r)
  BY DEF Base, Typed, Queued, ToSet
<1>2. CASE r.type = "ANALYSE_TASK"
  <2>1. r.task \in Created
    BY <1>1, <1>2, RequestKinds DEF Base, Unrepeated
  <2> QED BY <1>2, <2>1
<1>3. CASE r.type = "REGISTER_DATA_ACCESS"
  <2>1. r.app \in Apps /\ Queued(Register(r.app))
    BY <1>1, <1>3, RequestKinds
  <2> QED BY <1>3, <2>1
<1> QED BY <1>2, <1>3

\* The history of the registry starts with no version.
LEMMA OrderHoldsFirst == Init => OrderInv
<1> SUFFICES ASSUME Init PROVE OrderInv
  OBVIOUS
<1>1. Base
  BY BaseHoldsFirst
<1>2. \E h : History(h)
  <2> DEFINE h == [i \in 1 .. 1 |-> [d \in Data |-> 0]]
  <2>1. /\ Len(apQueue) = 0 /\ version = [d \in Data |-> 0]
        /\ \A d \in Data : Len(authors[d]) = 0
    BY DEF Init, AnalyserInit
  <2>2. History(h)
    BY <2>1 DEF History
  <2> QED BY <2>2
<1>3. ReadsAgree
  BY DEF Init, AnalyserInit, ReadsAgree, Created
<1> QED BY <1>1, <1>2, <1>3 DEF OrderInv

\* What a task will find in the registry is what its program counts on.
LEMMA EndOfHistory ==
    ASSUME Typed, NEW v \in [Data -> Nat], \A d \in Data : v[d] = Len(authors[d]),
           NEW params \in Seq(Parameter), NEW t \in Task
    PROVE  /\ ReadsIn(v, params) = VersionsWanted(params)
           /\ \A d \in Data : AfterTask(v, params)[d] = Len(AuthorsAfter(d, params, t))
<1>1. ASSUME NEW d \in Data
      PROVE  Touched(d) \in Seq(Author) /\ Len(Touched(d)) = RegisteredIn(v, d)
  <2>1. authors[d] \in Seq(Author)
    BY DEF Typed
  <2>2. CASE authors[d] = << >>
    <3>1. v[d] = 0 /\ Touched(d) = <<NoTask>>
      BY <2>2 DEF Touched, Known
    <3>2. NoTask \in Author
      BY DEF Author
    <3>3. <<NoTask>> \in Seq(Author) /\ Len(<<NoTask>>) = 1
      BY <3>2
    <3> QED BY <3>1, <3>3 DEF RegisteredIn
  <2>3. CASE authors[d] # << >>
    <3>1. Len(authors[d]) # 0 /\ Touched(d) = authors[d]
      BY <2>1, <2>3 DEF Touched, Known
    <3> QED BY <2>1, <3>1 DEF RegisteredIn
  <2> QED BY <2>2, <2>3
<1>2. ReadsIn(v, params) = VersionsWanted(params)
  <2>1. \A i \in DOMAIN params : Len(Touched(params[i].datum)) = RegisteredIn(v, params[i].datum)
    BY <1>1, ParametersCounted
  <2> QED BY <2>1 DEF ReadsIn, VersionsWanted
<1>3. ASSUME NEW d \in Data
      PROVE  AfterTask(v, params)[d] = Len(AuthorsAfter(d, params, t))
  <2>1. CASE \E i \in DOMAIN params : params[i].datum = d
    <3> DEFINE W == WritesOf(params, d)
               added == [i \in 1 .. W |-> t]
    <3>1. W \in Nat
      BY ParametersCounted DEF WritesOf
    <3>2. added \in Seq(Author) /\ Len(added) = W
      BY <3>1 DEF Author
    <3>3. AuthorsAfter(d, params, t) = Touched(d) \o added
      BY <2>1 DEF AuthorsAfter, WritesOf
    <3> HIDE DEF added
    <3>4. Len(Touched(d) \o added) = Len(Touched(d)) + W
      <4>1. PICK s1, s2 : s1 = Touched(d) /\ s2 = added
        OBVIOUS
      <4>2. s1 \in Seq(Author) /\ s2 \in Seq(Author)
        BY <1>1, <3>2, <4>1
      <4>3. Len(s1 \o s2) = Len(s1) + Len(s2)
        BY <4>2
      <4> QED BY <3>2, <4>1, <4>3
    <3>5. AfterTask(v, params)[d] = RegisteredIn(v, d) + W
      BY <2>1 DEF AfterTask
    <3> QED BY <1>1, <3>3, <3>4, <3>5
  <2>2. CASE ~\E i \in DOMAIN params : params[i].datum = d
    BY <2>2 DEF AfterTask, AuthorsAfter
  <2> QED BY <2>1, <2>2
<1> QED BY <1>2, <1>3

\* The versions a task adds are its own, after the first one.
LEMMA TaskMakes ==
    ASSUME Typed, NEW v \in [Data -> Nat], \A d \in Data : v[d] = Len(authors[d]),
           NEW params \in Seq(Parameter), NEW t \in Task, NEW r, r = Analyse(t),
           authors' = [d \in Data |-> AuthorsAfter(d, params, t)], NEW w, w = AfterTask(v, params)
    PROVE  AuthorsKept /\ Makes(v, w, r)'
<1>1. AuthorOf(r) = t
  BY DEF AuthorOf, Analyse
<1>2. ASSUME NEW d \in Data
      PROVE  /\ Len(authors[d]) \in Nat /\ Len(authors'[d]) \in Nat /\ Len(authors[d]) <= Len(authors'[d])
             /\ \A k \in 1 .. Len(authors[d]) : authors'[d][k] = authors[d][k]
             /\ w[d] <= Len(authors'[d])
             /\ v[d] = 0 /\ w[d] # 0 => authors'[d][1] = NoTask
             /\ \A k \in 1 .. w[d] : RegisteredIn(v, d) < k => authors'[d][k] = t
  <2>1. authors[d] \in Seq(Author) /\ authors'[d] = AuthorsAfter(d, params, t) /\ v[d] = Len(authors[d])
    BY DEF Typed
  <2>2. w[d] = Len(authors'[d])
    BY <2>1, EndOfHistory
  <2>3. CASE ~\E i \in DOMAIN params : params[i].datum = d
    <3>1. authors'[d] = authors[d]
      BY <2>1, <2>3 DEF AuthorsAfter
    <3> QED BY <2>1, <2>2, <3>1 DEF RegisteredIn
  <2>4. CASE \E i \in DOMAIN params : params[i].datum = d
    <3>1. PICK m : m = WritesOf(params, d)
      OBVIOUS
    <3>2. m \in Nat
      BY <3>1, ParametersCounted DEF WritesOf
    <3>3. PICK s1, s2 : s1 = Touched(d) /\ s2 = [i \in 1 .. m |-> t]
      OBVIOUS
    <3>4. authors'[d] = s1 \o s2
      BY <2>1, <2>4, <3>1, <3>3 DEF AuthorsAfter, WritesOf
    <3>5. /\ s1 \in Seq(Author) /\ Len(s1) = RegisteredIn(v, d) /\ Len(s1) \in Nat
          /\ Len(authors[d]) <= Len(s1)
          /\ \A k \in 1 .. Len(authors[d]) : s1[k] = authors[d][k]
          /\ v[d] = 0 => s1[1] = NoTask /\ Len(s1) = 1
      <4>1. CASE authors[d] = << >>
        <5>1. v[d] = 0 /\ s1 = <<NoTask>> /\ NoTask \in Author
          BY <2>1, <3>3, <4>1 DEF Touched, Known, Author
        <5>2. <<NoTask>> \in Seq(Author) /\ Len(<<NoTask>>) = 1 /\ <<NoTask>>[1] = NoTask
          BY <5>1
        <5> QED BY <2>1, <5>1, <5>2 DEF RegisteredIn
      <4>2. CASE authors[d] # << >>
        <5>1. Len(authors[d]) # 0 /\ s1 = authors[d]
          BY <2>1, <3>3, <4>2 DEF Touched, Known
        <5> QED BY <2>1, <5>1 DEF RegisteredIn
      <4> QED BY <4>1, <4>2
    <3>6. s2 \in Seq(Author) /\ Len(s2) = m /\ \A k \in 1 .. m : s2[k] = t
      BY <3>2, <3>3 DEF Author
    <3>7. PICK l : l = Len(s1)
      OBVIOUS
    <3>8. /\ Len(authors'[d]) = l + m
          /\ \A k \in 1 .. l + m : authors'[d][k] = IF k <= l THEN s1[k] ELSE s2[k - l]
      BY <3>4, <3>5, <3>6, <3>7, ConcatProperties
    <3>9. \A k \in 1 .. l : k \in 1 .. l + m /\ k <= l
      BY <3>2, <3>5, <3>7
    <3>10. \A k \in 1 .. l + m : l < k => ~(k <= l) /\ k - l \in 1 .. m
      BY <3>2, <3>5, <3>7
    <3>11. \A k \in 1 .. l : authors'[d][k] = s1[k]
      BY <3>8, <3>9
    <3>12. \A k \in 1 .. l + m : l < k => authors'[d][k] = t
      BY <3>6, <3>8, <3>10
    <3>13. \A k \in 1 .. Len(authors[d]) : k \in 1 .. l
      BY <2>1, <3>5, <3>7
    <3>14. v[d] = 0 => 1 \in 1 .. l
      BY <3>5, <3>7
    <3>15. Len(authors'[d]) \in Nat /\ Len(authors[d]) \in Nat /\ Len(authors[d]) <= Len(authors'[d])
      BY <2>1, <3>2, <3>5, <3>7, <3>8
    <3>16. w[d] <= Len(authors'[d]) /\ 1 .. w[d] = 1 .. l + m
      BY <2>2, <3>8, <3>15
    <3> QED BY <3>5, <3>7, <3>11, <3>12, <3>13, <3>14, <3>15, <3>16
  <2> QED BY <2>3, <2>4
<1>3. AuthorsKept
  BY <1>2 DEF AuthorsKept
<1>4. Makes(v, w, r)'
  BY <1>1, <1>2 DEF Makes
<1> QED BY <1>3, <1>4

\* A version a program adds is its own.
LEMMA AccessMakes ==
    ASSUME Typed, NEW v \in [Data -> Nat], \A d \in Data : v[d] = Len(authors[d]),
           NEW a \in Apps, NEW access \in MainAccesses, NEW r, r = Register(a),
           authors[access.datum] # << >>,
           authors' = [authors EXCEPT ![access.datum] =
                          IF access.mode = "R" THEN authors[access.datum]
                          ELSE Append(authors[access.datum], a)],
           NEW w, w = AfterAccess(v, access)
    PROVE  AuthorsKept /\ Makes(v, w, r)'
<1>1. AuthorOf(r) = a /\ access.datum \in Data
  BY MainAccessesAssumption DEF AuthorOf, Register
<1>2. ASSUME NEW d \in Data
      PROVE  /\ Len(authors[d]) \in Nat /\ Len(authors'[d]) \in Nat /\ Len(authors[d]) <= Len(authors'[d])
             /\ \A k \in 1 .. Len(authors[d]) : authors'[d][k] = authors[d][k]
             /\ w[d] <= Len(authors'[d])
             /\ v[d] = 0 /\ w[d] # 0 => authors'[d][1] = NoTask
             /\ \A k \in 1 .. w[d] : RegisteredIn(v, d) < k => authors'[d][k] = a
  <2>1. authors[d] \in Seq(Author) /\ v[d] = Len(authors[d]) /\ a \in Author
    BY DEF Typed, Author
  <2>2. CASE d # access.datum \/ access.mode = "R"
    <3>1. authors'[d] = authors[d]
      BY <2>2 DEF Typed
    <3>2. w[d] = v[d]
      <4>1. CASE d # access.datum
        BY <1>1, <4>1 DEF AfterAccess
      <4>2. CASE d = access.datum /\ access.mode = "R"
        <5>1. v[d] # 0
          BY <2>1, <4>2
        <5> QED BY <4>2, <5>1 DEF AfterAccess, RegisteredIn
      <4> QED BY <2>2, <4>1, <4>2
    <3> QED BY <2>1, <3>1, <3>2 DEF RegisteredIn
  <2>3. CASE d = access.datum /\ access.mode # "R"
    <3>1. PICK l : l = Len(authors[d])
      OBVIOUS
    <3>2. l \in Nat \ {0} /\ v[d] = l
      BY <2>1, <2>3, <3>1
    <3>3. w[d] = l + 1 /\ RegisteredIn(v, d) = l
      BY <2>3, <3>2 DEF AfterAccess, RegisteredIn
    <3>4. authors'[d] = Append(authors[d], a)
      BY <2>3 DEF Typed
    <3>5. /\ Len(authors'[d]) = l + 1 /\ authors'[d][l + 1] = a
          /\ \A k \in 1 .. l : authors'[d][k] = authors[d][k]
      BY <2>1, <3>1, <3>4
    <3>6. \A k \in 1 .. l + 1 : l < k => k = l + 1
      BY <3>2
    <3> QED BY <3>1, <3>2, <3>3, <3>5, <3>6
  <2> QED BY <2>2, <2>3
<1>3. AuthorsKept
  BY <1>2 DEF AuthorsKept
<1>4. Makes(v, w, r)'
  BY <1>1, <1>2 DEF Makes
<1> QED BY <1>3, <1>4

\* newTask extends the history by the analysis of the task.
LEMMA NewTaskOrder ==
    ASSUME OrderInv, NEW a \in Apps, NEW params \in Signatures, NEW copies \in Copies,
           NewTask(a, params, copies)
    PROVE  (\E h : History(h))' /\ ReadsAgree'
<1> PICK t, n : t = Len(tasks) + 1 /\ n = Len(apQueue) + 1
  OBVIOUS
<1>1. Base /\ Typed /\ ReadsAgree /\ Unrepeated
  BY DEF OrderInv, Base
<1>2. /\ t \in Task /\ t \notin Created /\ params \in Seq(Parameter) /\ Created' = Created \cup {t}
      /\ \A u \in Created : tasks'[u] = tasks[u]
      /\ tasks'[t].params = params
  <2>1. /\ Len(tasks) + 1 \in Task /\ Len(tasks) + 1 \notin Created
        /\ params \in Seq(Parameter) /\ Created' = Created \cup {Len(tasks) + 1}
        /\ \A u \in Created : tasks'[u] = tasks[u]
        /\ tasks'[Len(tasks) + 1] = [app |-> a, params |-> params, copies |-> copies]
    BY <1>1, TaskRecorded
  <2> QED BY <2>1
<1>3. /\ apQueue' = Append(apQueue, Analyse(t))
      /\ wanted' = [wanted EXCEPT ![t] = VersionsWanted(params)]
      /\ authors' = [d \in Data |-> AuthorsAfter(d, params, t)]
      /\ UNCHANGED <<reads, version, main>>
  BY DEF NewTask, analyserVars
<1>4. /\ \A u \in Created : wanted'[u] = wanted[u]
      /\ wanted'[t] = VersionsWanted(params)
  BY <1>1, <1>2, <1>3 DEF Typed
<1>5. SameRequests
  BY <1>1, <1>2, <1>3, <1>4, AccessesStay
<1>6. PICK h : History(h)
  BY DEF OrderInv
<1>7. n \in 1 .. n /\ h[n] \in [Data -> Nat] /\ \A d \in Data : h[n][d] = Len(authors[d])
  <2>1. Len(apQueue) \in Nat /\ n \in 1 .. n
    BY <1>1 DEF Typed
  <2>2. h \in [1 .. n -> [Data -> Nat]] /\ \A d \in Data : h[n][d] = Len(authors[d])
    BY <1>6 DEF History
  <2> QED BY <2>1, <2>2
<1>8. PICK last : last = AfterTask(h[n], params)
  OBVIOUS
<1>9. last \in [Data -> Nat]
  BY <1>2, <1>7, <1>8, AfterTyped
<1>10. \A d \in Data : last[d] = Len(authors'[d])
  BY <1>1, <1>2, <1>3, <1>7, <1>8, EndOfHistory
<1>11. wanted'[t] = ReadsIn(h[n], params)
  BY <1>1, <1>2, <1>4, <1>7, EndOfHistory
<1>12. Analyse(t).type = "ANALYSE_TASK" /\ Analyse(t).task = t /\ Analyse(t) \in Request
  BY <1>2, RequestsAre DEF Analyse
<1>13. \E g : History(g)'
  <2>1. PICK r : r = Analyse(t)
    OBVIOUS
  <2>2. /\ r \in Request /\ r.type = "ANALYSE_TASK" /\ apQueue' = Append(apQueue, r)
        /\ last = AfterTask(h[n], tasks'[r.task].params)
        /\ wanted'[r.task] = ReadsIn(h[n], tasks'[r.task].params)
    BY <1>2, <1>3, <1>8, <1>11, <1>12, <2>1
  <2>3. PICK v : v = h[n]
    OBVIOUS
  <2>4. AuthorsKept /\ Makes(v, last, r)'
    BY <1>1, <1>2, <1>3, <1>7, <1>8, <2>1, <2>3, TaskMakes
  <2>5. Makes(h[n], last, r)'
    BY <2>3, <2>4 DEF Makes
  <2> QED BY <1>1, <1>3, <1>5, <1>6, <1>9, <1>10, <2>2, <2>4, <2>5, HistoryGrows
<1>14. ReadsAgree'
  <2>1. \A q : Queued(q)' <=> Queued(q) \/ q = Analyse(t)
    BY <1>1, <1>3, <1>12, RequestOffered
  <2> QED BY <1>1, <1>2, <1>3, <1>4, <2>1 DEF ReadsAgree
<1> QED BY <1>13, <1>14

\* An access of a program extends the history by its registration.
LEMMA MainAccessOrder ==
    ASSUME OrderInv, NEW a \in Apps, NEW access \in MainAccesses, MainAccess(a, access)
    PROVE  (\E h : History(h))' /\ ReadsAgree'
<1> PICK n, d : n = Len(apQueue) + 1 /\ d = access.datum
  OBVIOUS
<1>1. Base /\ Typed /\ ReadsAgree /\ d \in Data
  BY MainAccessesAssumption DEF OrderInv, Base
<1>2. /\ main[a].call = "running" /\ apQueue' = Append(apQueue, Register(a))
      /\ main' = [main EXCEPT ![a].call = "register", ![a].access = access]
      /\ UNCHANGED <<tasks, reads, version, wanted>>
      /\ authors[d] # << >>
      /\ authors' = [authors EXCEPT ![d] = IF access.mode = "R" THEN authors[d] ELSE Append(authors[d], a)]
  BY DEF MainAccess, Running, Known, taskVars, analyserVars
<1>3. main'[a].access = access /\ \A b \in Apps : b # a => main'[b] = main[b]
  BY <1>1, <1>2 DEF Typed, ProgramRecord
<1>4. SameRequests
  <2>1. ~Queued(Register(a))
    BY <1>1, <1>2 DEF Base, OneCall, AsksForItsCall
  <2>2. \A b \in Apps : b # a => main'[b].access = main[b].access
    BY <1>3
  <2> QED BY <1>1, <1>2, <1>3, <2>1, <2>2, AccessesStay
<1>5. PICK h : History(h)
  BY DEF OrderInv
<1>6. h[n] \in [Data -> Nat] /\ \A x \in Data : h[n][x] = Len(authors[x])
  <2>1. n \in 1 .. n
    BY <1>1 DEF Typed
  <2> QED BY <1>5, <2>1 DEF History
<1>7. PICK last : last = AfterAccess(h[n], access)
  OBVIOUS
<1>8. last \in [Data -> Nat]
  BY <1>6, <1>7, AfterTyped
<1>9. \A x \in Data : last[x] = Len(authors'[x])
  <2>1. authors \in [Data -> Seq(Author)] /\ authors[d] \in Seq(Author) /\ Len(authors[d]) # 0
    BY <1>1, <1>2 DEF Typed
  <2>2. RegisteredIn(h[n], d) = Len(authors[d])
    BY <1>1, <1>6, <2>1 DEF RegisteredIn
  <2>3. last[d] = IF access.mode = "R" THEN Len(authors[d]) ELSE Len(authors[d]) + 1
    BY <1>1, <1>6, <1>7, <2>2 DEF AfterAccess
  <2>4. \A x \in Data : x # d => last[x] = h[n][x]
    BY <1>1, <1>6, <1>7 DEF AfterAccess
  <2>5. Len(authors'[d]) = IF access.mode = "R" THEN Len(authors[d]) ELSE Len(authors[d]) + 1
    BY <1>1, <1>2, <2>1 DEF Author
  <2>6. \A x \in Data : x # d => authors'[x] = authors[x]
    BY <1>2, <2>1
  <2> QED BY <1>6, <2>3, <2>4, <2>5, <2>6
<1>10. /\ Register(a).type = "REGISTER_DATA_ACCESS" /\ Register(a).app = a /\ Register(a) \in Request
       /\ "REGISTER_DATA_ACCESS" # "ANALYSE_TASK"
  BY RequestsAre DEF Register
<1>11. \E g : History(g)'
  <2>1. PICK v, r : v = h[n] /\ r = Register(a)
    OBVIOUS
  <2>2. AuthorsKept /\ Makes(v, last, r)'
    BY <1>1, <1>2, <1>6, <1>7, <2>1, AccessMakes
  <2>3. Makes(h[n], last, r)'
    BY <2>1, <2>2 DEF Makes
  <2>4. /\ r \in Request /\ apQueue' = Append(apQueue, r) /\ r.type = "REGISTER_DATA_ACCESS"
        /\ last = AfterAccess(h[n], main'[r.app].access)
    BY <1>2, <1>3, <1>7, <1>10, <2>1
  <2> QED BY <1>1, <1>2, <1>4, <1>5, <1>8, <1>9, <1>10, <2>2, <2>3, <2>4, HistoryGrows
<1>12. ReadsAgree'
  <2>1. \A q : Queued(q)' <=> Queued(q) \/ q = Register(a)
    BY <1>1, <1>2, <1>10, RequestOffered
  <2> QED BY <1>1, <1>2, <2>1 DEF ReadsAgree, Created
<1> QED BY <1>11, <1>12

\* A step that offers no access and no task, or a request that leaves the registry alone,
\* leaves the history and the reads alone.
LEMMA OtherOrder ==
    ASSUME OrderInv, SameRequests, UNCHANGED <<tasks, reads, version, authors, wanted>>,
           \/ apQueue' = apQueue
           \/ \E r \in Request : /\ apQueue' = Append(apQueue, r)
                                 /\ r.type \notin {"ANALYSE_TASK", "REGISTER_DATA_ACCESS"}
           \/ \E kind : Serving(kind) /\ kind \notin {"ANALYSE_TASK", "REGISTER_DATA_ACCESS"}
    PROVE  (\E h : History(h))' /\ ReadsAgree'
<1>1. Base /\ Typed /\ ReadsAgree
  BY DEF OrderInv, Base
<1>2. PICK h : History(h)
  BY DEF OrderInv
<1>3. CASE apQueue' = apQueue
  <2>1. History(h)'
    BY <1>2, <1>3, HistoryStays
  <2> QED BY <1>1, <1>3, <2>1 DEF ReadsAgree, Queued, Created
<1>4. CASE \E r \in Request : /\ apQueue' = Append(apQueue, r)
                              /\ r.type \notin {"ANALYSE_TASK", "REGISTER_DATA_ACCESS"}
  <2>1. PICK r \in Request : /\ apQueue' = Append(apQueue, r)
                             /\ r.type \notin {"ANALYSE_TASK", "REGISTER_DATA_ACCESS"}
    BY <1>4
  <2>2. PICK n : n = Len(apQueue) + 1
    OBVIOUS
  <2>3. h[n] \in [Data -> Nat] /\ \A d \in Data : h[n][d] = Len(authors'[d])
    <3>1. n \in 1 .. n
      BY <1>1, <2>2 DEF Typed
    <3> QED BY <1>2, <2>2, <3>1 DEF History
  <2>4. PICK last : last = h[n]
    OBVIOUS
  <2>7. AuthorsKept
    <3>1. \A d \in Data : Len(authors[d]) \in Nat
      BY <1>1 DEF Typed
    <3> QED BY <3>1 DEF AuthorsKept
  <2>8. Makes(h[n], last, r)'
    <3>1. \A d \in Data : /\ last[d] = Len(authors'[d]) /\ h[n][d] = last[d] /\ last[d] \in Nat
                         /\ \A k \in 1 .. last[d] : ~(RegisteredIn(h[n], d) < k)
      BY <2>3, <2>4 DEF RegisteredIn
    <3> QED BY <2>3, <2>4, <3>1 DEF Makes
  <2>5. \E g : History(g)'
    BY <1>1, <1>2, <2>1, <2>2, <2>3, <2>4, <2>7, <2>8, HistoryGrows
  <2>6. \A q : Queued(q)' <=> Queued(q) \/ q = r
    BY <1>1, <2>1, RequestOffered
  <2> QED BY <1>1, <2>5, <2>6 DEF ReadsAgree, Created
<1>5. CASE \E kind : Serving(kind) /\ kind \notin {"ANALYSE_TASK", "REGISTER_DATA_ACCESS"}
  <2>1. PICK kind : Serving(kind) /\ kind \notin {"ANALYSE_TASK", "REGISTER_DATA_ACCESS"}
    BY <1>5
  <2>2. /\ Head(apQueue).type = kind
        /\ \A q : Queued(q) => Queued(q)' \/ q = Head(apQueue)
    BY <1>1, <2>1, RequestServed
  <2>3. version' = AfterRequest(version, Head(apQueue))
    BY <2>1, <2>2 DEF AfterRequest
  <2>4. apQueue # << >> /\ apQueue' = Tail(apQueue)
    BY <2>1 DEF Serving
  <2>5. \E g : History(g)'
    BY <1>1, <1>2, <2>3, <2>4, HistoryAdvances
  <2>6. \A t : Analyse(t).type = "ANALYSE_TASK"
    BY DEF Analyse
  <2>7. \A t : Queued(Analyse(t)) => Queued(Analyse(t))'
    BY <2>1, <2>2, <2>6
  <2> QED BY <1>1, <2>5, <2>7 DEF ReadsAgree, Created
<1> QED BY <1>3, <1>4, <1>5

\* The analysis of a task is the first step of the history, and its reads are those.
LEMMA ServeAnalyseOrder ==
    ASSUME OrderInv, ServeAnalyse
    PROVE  (\E h : History(h))' /\ ReadsAgree'
<1>1. PICK t : t = Head(apQueue).task
  OBVIOUS
<1>2. Base /\ Typed /\ ReadsAgree
  BY DEF OrderInv, Base
<1>3. Serving("ANALYSE_TASK") /\ ProcessTask(t) /\ UNCHANGED <<main, authors, wanted>>
  BY <1>1 DEF ServeAnalyse, historyVars
<1>4. /\ reads' = [reads EXCEPT ![t] = ReadsIn(version, tasks[t].params)]
      /\ version' = AfterTask(version, tasks[t].params)
      /\ tasks' = tasks
  BY <1>3, VersionIs DEF ProcessTask
<1>5. t \in Task /\ t \in Created /\ Head(apQueue) = Analyse(t)
  BY <1>1, <1>2, <1>3, AnalysedTask
<1>6. apQueue # << >> /\ apQueue' = Tail(apQueue) /\ Head(apQueue).type = "ANALYSE_TASK"
  BY <1>3 DEF Serving
<1>7. PICK h : History(h)
  BY DEF OrderInv
<1>8. SameRequests
  BY <1>3, <1>4 DEF SameRequests
<1>9. version' = AfterRequest(version, Head(apQueue))
  BY <1>1, <1>4, <1>6 DEF AfterRequest
<1>10. \E g : History(g)'
  BY <1>2, <1>3, <1>6, <1>7, <1>8, <1>9, HistoryAdvances
<1>11. wanted[t] = ReadsIn(version, tasks[t].params)
  <2>1. 1 \in 1 .. Len(apQueue) /\ apQueue[1] = Head(apQueue)
    BY <1>2, <1>6 DEF Typed
  <2> QED BY <1>1, <1>6, <1>7, <2>1 DEF History
<1>12. ReadsAgree'
  <2>1. \A q : Queued(q) => Queued(q)' \/ q = Head(apQueue)
    BY <1>2, <1>3, RequestServed
  <2>2. ASSUME NEW u \in Created, u # t, ~Queued(Analyse(u))' PROVE reads'[u] = wanted'[u]
    <3>1. Analyse(u) # Analyse(t)
      BY <2>2, RequestsDiffer
    <3>2. ~Queued(Analyse(u))
      BY <1>5, <2>1, <2>2, <3>1
    <3> QED BY <1>2, <1>3, <1>4, <2>2, <3>2 DEF ReadsAgree, Typed
  <2>3. reads'[t] = wanted'[t]
    BY <1>2, <1>3, <1>4, <1>5, <1>11 DEF Typed
  <2> QED BY <1>4, <2>2, <2>3 DEF ReadsAgree, Created
<1> QED BY <1>10, <1>12

\* The registration of an access is the first step of the history.
LEMMA ServeRegisterOrder ==
    ASSUME OrderInv, ServeRegister
    PROVE  (\E h : History(h))' /\ ReadsAgree'
<1>1. PICK a, access : a = Head(apQueue).app /\ access = main[a].access
  OBVIOUS
<1>2. Base /\ Typed /\ ReadsAgree
  BY DEF OrderInv, Base
<1>3. /\ Serving("REGISTER_DATA_ACCESS") /\ UNCHANGED <<tasks, reads, authors, wanted>>
      /\ RegisterAccess(a, access.datum, access.mode)
      /\ \E v : main' = [main EXCEPT ![a].in = v]
  BY <1>1 DEF ServeRegister, RegisterAccess, historyVars, taskVars
<1>4. /\ apQueue # << >> /\ apQueue' = Tail(apQueue) /\ Head(apQueue).type = "REGISTER_DATA_ACCESS"
      /\ "REGISTER_DATA_ACCESS" # "ANALYSE_TASK"
  BY <1>3 DEF Serving
<1>5. version' = AfterRequest(version, Head(apQueue))
  <2>1. version' = AfterAccess(version, access)
    BY <1>3, VersionIs DEF RegisterAccess, AfterAccess
  <2> QED BY <1>1, <1>4, <2>1 DEF AfterRequest
<1>6. SameRequests
  <2>1. \A b \in Apps : main'[b].access = main[b].access
    BY <1>2, <1>3 DEF Typed, ProgramRecord
  <2> QED BY <1>2, <1>3, <2>1, AccessesStay
<1>7. PICK h : History(h)
  BY DEF OrderInv
<1>8. \E g : History(g)'
  BY <1>2, <1>3, <1>4, <1>5, <1>6, <1>7, HistoryAdvances
<1>9. ReadsAgree'
  <2>1. \A q : Queued(q) => Queued(q)' \/ q = Head(apQueue)
    BY <1>2, <1>3, RequestServed
  <2>2. \A t : Analyse(t).type = "ANALYSE_TASK"
    BY DEF Analyse
  <2>3. \A t : Queued(Analyse(t)) => Queued(Analyse(t))'
    BY <1>4, <2>1, <2>2
  <2> QED BY <1>2, <1>3, <2>3 DEF ReadsAgree, Created
<1> QED BY <1>8, <1>9

\* The other calls of a program make no version.
LEMMA CallsOrder ==
    ASSUME OrderInv, NEW a \in Apps, MainStep(a) \/ CallBarrier(a) \/ CallNoMoreTasks(a)
    PROVE  (\E h : History(h))' /\ ReadsAgree'
<1>1. Base /\ main \in [Apps -> ProgramRecord]
  BY DEF OrderInv, Base, Typed
<1>2. /\ UNCHANGED <<tasks, reads, version, authors, wanted>>
      /\ \A b \in Apps : b # a => main'[b] = main[b]
      /\ \/ apQueue' = apQueue
         \/ \E r \in {WaitForTask(a), BarrierRequest(a), EndOfApp(a)} : apQueue' = Append(apQueue, r)
      /\ a \in permits \/ main[a].call = "running"
  BY <1>1 DEF MainStep, Registration, WaitReturns, BarrierReturns, NoMoreTasksReturns, CallBarrier,
              CallNoMoreTasks, Resume, Stop, Running, taskVars, analyserVars, historyVars
<1>3. ~Queued(Register(a))
  BY <1>1, <1>2 DEF Base, OneCall, AsksForItsCall, Asking
<1>4. SameRequests
  BY <1>1, <1>2, <1>3, AccessesStay
<1>5. \A r \in {WaitForTask(a), BarrierRequest(a), EndOfApp(a)} :
         r \in Request /\ r.type \notin {"ANALYSE_TASK", "REGISTER_DATA_ACCESS"}
  <2>1. /\ WaitForTask(a).type = "WAIT_FOR_TASK" /\ BarrierRequest(a).type = "BARRIER"
        /\ EndOfApp(a).type = "END_OF_APP"
    BY DEF WaitForTask, BarrierRequest, EndOfApp
  <2>2. WaitForTask(a) \in Request /\ BarrierRequest(a) \in Request /\ EndOfApp(a) \in Request
    BY RequestsAre
  <2> QED BY <2>1, <2>2
<1>6. \/ apQueue' = apQueue
      \/ \E r \in Request : /\ apQueue' = Append(apQueue, r)
                            /\ r.type \notin {"ANALYSE_TASK", "REGISTER_DATA_ACCESS"}
  BY <1>2, <1>5
<1> QED BY <1>2, <1>4, <1>6, OtherOrder

\* Every step keeps the history.
LEMMA OrderStays == OrderInv /\ [Next]_vars => OrderInv'
<1> SUFFICES ASSUME OrderInv, [Next]_vars PROVE (\E h : History(h))' /\ ReadsAgree'
  BY BaseStays DEF OrderInv
<1>1. ASSUME NEW a \in Apps, MainStep(a) \/ CallBarrier(a) \/ CallNoMoreTasks(a)
      PROVE  (\E h : History(h))' /\ ReadsAgree'
  BY <1>1, CallsOrder
<1>2. ASSUME NEW a \in Apps, NEW params \in Signatures, NEW copies \in Copies,
             NewTask(a, params, copies)
      PROVE  (\E h : History(h))' /\ ReadsAgree'
  BY <1>2, NewTaskOrder
<1>3. ASSUME NEW a \in Apps, NEW access \in MainAccesses, MainAccess(a, access)
      PROVE  (\E h : History(h))' /\ ReadsAgree'
  BY <1>3, MainAccessOrder
<1>4. CASE ServeAnalyse
  BY <1>4, ServeAnalyseOrder
<1>5. CASE ServeRegister
  BY <1>5, ServeRegisterOrder
<1>6. CASE ServeTaskEnd \/ ServeWaitForTask \/ ServeBarrier \/ ServeEndOfApp
  <2>1. UNCHANGED <<tasks, reads, version, authors, wanted, main>>
    BY <1>6 DEF ServeTaskEnd, ServeWaitForTask, ServeBarrier, ServeEndOfApp, EndTask, FindWaitedTask,
                Barrier, NoMoreTasks, taskVars, analyserVars, historyVars
  <2>2. SameRequests
    BY <2>1 DEF SameRequests
  <2>3. \E kind : Serving(kind) /\ kind \notin {"ANALYSE_TASK", "REGISTER_DATA_ACCESS"}
    <3>1. \E kind \in {"TASK_END", "WAIT_FOR_TASK", "BARRIER", "END_OF_APP"} : Serving(kind)
      BY <1>6 DEF ServeTaskEnd, ServeWaitForTask, ServeBarrier, ServeEndOfApp
    <3> QED BY <3>1
  <2> QED BY <2>1, <2>2, <2>3, OtherOrder
<1>7. CASE \/ DispatcherStep
           \/ \E t \in Task : \E i \in DOMAIN exec[t] : LaunchExecution(t, i) \/ CompleteExecution(t, i)
  <2>1. /\ UNCHANGED <<tasks, reads, version, authors, wanted, main>>
        /\ apQueue' = apQueue \/ \E t \in Task : apQueue' = Append(apQueue, TaskEnd(t))
    BY <1>7 DEF DispatcherStep, TakeRequest, HasNext, EndOfPredecessors, NextPredecessor, DropRequest,
                LaunchExecution, Launch, CompleteExecution, Complete, taskVars, analyserVars, historyVars
  <2>2. SameRequests
    BY <2>1 DEF SameRequests
  <2>3. \A t \in Task : TaskEnd(t) \in Request /\ TaskEnd(t).type = "TASK_END"
    BY RequestsAre DEF TaskEnd
  <2>4. \/ apQueue' = apQueue
        \/ \E r \in Request : /\ apQueue' = Append(apQueue, r)
                              /\ r.type \notin {"ANALYSE_TASK", "REGISTER_DATA_ACCESS"}
    BY <2>1, <2>3
  <2> QED BY <2>1, <2>2, <2>4, OtherOrder
<1>8. CASE UNCHANGED vars
  <2>1. UNCHANGED <<tasks, reads, version, authors, wanted, main, apQueue>>
    BY <1>8 DEF vars, taskVars, analyserVars, historyVars
  <2>2. SameRequests
    BY <2>1 DEF SameRequests
  <2> QED BY <2>1, <2>2, OtherOrder
<1> QED BY <1>1, <1>2, <1>3, <1>4, <1>5, <1>6, <1>7, <1>8 DEF Next, Serve

\* A program is in one call at a time, with one request or one wait, and no request of a
\* program or analysis of a task is queued twice (the semaphores of newTask, barrier and
\* the main accesses).
THEOREM OneCallAtATime == Spec => []Base
<1>1. Init => Base
  BY BaseHoldsFirst
<1>2. Base /\ [Next]_vars => Base'
  BY BaseStays
<1> QED BY <1>1, <1>2, PTL DEF Spec

\* The versions along the queue always lead from the registry to what the programs count
\* on (TaskAnalyser.processTask, RegisterDataAccessRequest, in the order of requestQueue).
THEOREM RegistryCatchesUp == Spec => []OrderInv
<1>1. Init => OrderInv
  BY OrderHoldsFirst
<1>2. OrderInv /\ [Next]_vars => OrderInv'
  BY OrderStays
<1> QED BY <1>1, <1>2, PTL DEF Spec

\* Whatever the programs, the accesses and the copies, an analysed task reads the versions
\* the order of the programs gives it (TaskAnalyser.processTask).
THEOREM SubmissionOrderKept == Spec => []ReadsFollowProgramOrder
<1>1. OrderInv => ReadsFollowProgramOrder
  <2> SUFFICES ASSUME OrderInv, NEW t \in Task, Analysed(t) PROVE reads[t] = wanted[t]
    BY DEF ReadsFollowProgramOrder
  <2>1. apQueue \in Seq(Request) /\ t \in Created /\ ~Contains(apQueue, Analyse(t))
    BY DEF OrderInv, Base, Typed, Analysed
  <2>2. ~Queued(Analyse(t))
    BY <2>1 DEF Contains, Queued, ToSet
  <2> QED BY <2>1, <2>2 DEF OrderInv, ReadsAgree
<1> QED BY <1>1, RegistryCatchesUp, PTL

-----------------------------------------------------------------------------
(* A barrier, and the end of an application, wait for all the tasks of the *)
(* application, when no task is replicated: with two executions of a task  *)
(* the end of each is counted, and a run shows the barrier that is left    *)
(* too early.                                                              *)
(*                                                                         *)
(* Three facts make it true.  A task is in one place: to be analysed, to   *)
(* be dispatched, or with its one execution, whose end is notified once.   *)
(* So the count of an application is that of its tasks between the two     *)
(* requests.  And the request of a barrier is behind the analyses of the   *)
(* tasks it is for, because the program that offers it offered those.      *)

\* A task without replicas has no execution, or one.
Empty(t) == exec[t] = << >>
Sole(s, o) == <<[state |-> s, on |-> o]>>
At(t, s) == \E o : exec[t] = Sole(s, o)

\* The task has ended and the Access Processor has treated that.
Settled(t) == At(t, "done") /\ ~Queued(TaskEnd(t))

\* A task is in one place, and its end is notified once.
TaskPlace(t) ==
    /\ Empty(t) \/ \E s \in {"new", "waiting", "running", "done"} : At(t, s)
    /\ t \in ToSet(tdQueue) \/ ~Empty(t) => t \in Created /\ ~Queued(Analyse(t))
    /\ t \in ToSet(tdQueue) => Empty(t) /\ Once(tdQueue, t)
    /\ Queued(TaskEnd(t)) => At(t, "done") /\ Once(apQueue, TaskEnd(t))
    /\ ~Empty(t) => execCount[t] = IF At(t, "done") THEN 0 ELSE 1

\* The request the Task Dispatcher serves is that of a task with a new execution.
Iterating(at, t, i, x) == [at |-> at, task |-> t, index |-> i, expected |-> x]

CursorPlace ==
    \/ cursor = Idle
    \/ \E at, t, i, x :
          /\ at \in {"hasNext", "next"} /\ t \in Task
          /\ cursor = Iterating(at, t, i, x)
          /\ At(t, "new")

Places ==
    /\ DOMAIN exec = Task /\ DOMAIN execCount = Task
    /\ tdQueue \in Seq(Task)
    /\ \A t \in Task : TaskPlace(t)
    /\ CursorPlace

\* The tasks of an application that have been analysed and whose end has not been treated.
Open(a) == {t \in Created : tasks[t].app = a /\ ~Queued(Analyse(t)) /\ ~Settled(t)}

Counted == \A a \in Apps : CountOf(a) = Cardinality(Open(a))

TasksOf(a) == {t \in Created : tasks[t].app = a}

\* A program at a barrier, or at its end: its tasks are before its request, analysed while
\* it waits, and settled once it is released.
Stopped(a) ==
    /\ \A t \in TasksOf(a) : /\ Ahead(apQueue, Analyse(t), BarrierRequest(a))
                             /\ Ahead(apQueue, Analyse(t), EndOfApp(a))
    /\ a \in semaphore => \A t \in TasksOf(a) : ~Queued(Analyse(t))
    /\ a \in permits /\ main[a].call \in {"barrier", "noMoreTasks"} =>
          \A t \in TasksOf(a) : ~Queued(Analyse(t)) /\ Settled(t)

BarrierInv == Base /\ Places /\ Counted /\ \A a \in Apps : Stopped(a)

-----------------------------------------------------------------------------
(* The place of a task.                                                    *)

\* A list with one execution, whatever list it is.
LEMMA OneExecution ==
    /\ \A s, o : /\ Sole(s, o) # << >> /\ DOMAIN Sole(s, o) = {1} /\ Len(Sole(s, o)) = 1
                 /\ Sole(s, o)[1].state = s
    /\ \A r, s, o, p : Sole(r, p) = Sole(s, o) => r = s
<1>1. ASSUME NEW s, NEW o
      PROVE  /\ Sole(s, o) # << >> /\ DOMAIN Sole(s, o) = {1} /\ Len(Sole(s, o)) = 1
             /\ Sole(s, o)[1].state = s
  <2>1. PICK e : e = [state |-> s, on |-> o]
    OBVIOUS
  <2>2. <<e>> # << >> /\ DOMAIN <<e>> = {1} /\ Len(<<e>>) = 1 /\ <<e>>[1] = e
    OBVIOUS
  <2>3. e.state = s /\ Sole(s, o) = <<e>>
    BY <2>1 DEF Sole
  <2> QED BY <2>2, <2>3
<1> QED BY <1>1

\* The execution of a task is in one state.
LEMMA AtOne ==
    ASSUME NEW t
    PROVE  /\ \A r, s : At(t, r) /\ At(t, s) => r = s
           /\ \A s : At(t, s) => ~Empty(t)
           /\ \A s : At(t, s) => DOMAIN exec[t] = {1} /\ Len(exec[t]) = 1 /\ exec[t][1].state = s
BY OneExecution DEF At, Empty

\* What a step that is not about task u leaves of its place.
Unmoved(u) ==
    /\ Empty(u)' <=> Empty(u)
    /\ \A s : At(u, s)' <=> At(u, s)
    /\ u \in ToSet(tdQueue') => u \in ToSet(tdQueue)
    /\ Once(tdQueue, u) => Once(tdQueue', u)
    /\ u \in Created => u \in Created'
    /\ Queued(Analyse(u))' => Queued(Analyse(u)) \/ u \notin Created
    /\ Queued(TaskEnd(u))' => Queued(TaskEnd(u))
    /\ Once(apQueue, TaskEnd(u)) => Once(apQueue', TaskEnd(u))
    /\ execCount'[u] = execCount[u]

\* Such a task stays in its place.
LEMMA UnmovedPlace ==
    ASSUME NEW u \in Task, TaskPlace(u), Unmoved(u)
    PROVE  TaskPlace(u)' /\ (u \in Created => (Settled(u) => Settled(u)'))
<1>1. /\ Empty(u)' \/ \E s \in {"new", "waiting", "running", "done"} : At(u, s)'
      /\ ~Empty(u)' => execCount'[u] = IF At(u, "done")' THEN 0 ELSE 1
  BY DEF TaskPlace, Unmoved
<1>2. u \in ToSet(tdQueue') \/ ~Empty(u)' => u \in Created' /\ ~Queued(Analyse(u))'
  BY DEF TaskPlace, Unmoved
<1>3. /\ u \in ToSet(tdQueue') => Empty(u)' /\ Once(tdQueue', u)
      /\ Queued(TaskEnd(u))' => At(u, "done")' /\ Once(apQueue', TaskEnd(u))
  BY DEF TaskPlace, Unmoved
<1>4. Settled(u) => Settled(u)'
  BY DEF Settled, Unmoved
<1> QED BY <1>1, <1>2, <1>3, <1>4 DEF TaskPlace

\* A step of a program, or the service of a request, leaves the executions alone.
LEMMA QueuePlaces ==
    ASSUME Places, UNCHANGED <<exec, execCount, tdQueue, cursor>>,
           \A u \in Task : /\ u \in Created => u \in Created'
                           /\ Queued(Analyse(u))' => Queued(Analyse(u)) \/ u \notin Created
                           /\ Queued(TaskEnd(u))' => Queued(TaskEnd(u))
                           /\ Once(apQueue, TaskEnd(u)) => Once(apQueue', TaskEnd(u))
    PROVE  Places'
<1>1. \A u \in Task : Unmoved(u)
  BY DEF Unmoved, Empty, At
<1>2. \A u \in Task : TaskPlace(u)'
  BY <1>1, UnmovedPlace DEF Places
<1>3. CursorPlace'
  BY DEF Places, CursorPlace, At
<1> QED BY <1>2, <1>3 DEF Places

\* A task that is analysed is dispatched next.
LEMMA ServeAnalysePlaces ==
    ASSUME Base, Places, ServeAnalyse
    PROVE  Places'
<1>1. PICK t : t = Head(apQueue).task
  OBVIOUS
<1>2. /\ Serving("ANALYSE_TASK") /\ tdQueue' = Append(tdQueue, t)
      /\ UNCHANGED <<tasks, exec, execCount, cursor>>
  BY <1>1 DEF ServeAnalyse, ProcessTask
<1>3. /\ t \in Task /\ t \in Created /\ Head(apQueue) = Analyse(t)
      /\ Analyse(t) \notin ToSet(apQueue')
  BY <1>1, <1>2, AnalysedTask
<1>4. /\ \A q : Queued(q)' => Queued(q)
      /\ \A q : Once(apQueue, q) => Once(apQueue', q)
      /\ Queued(Head(apQueue))
  BY <1>2, RequestServed DEF Base
<1>5. /\ tdQueue \in Seq(Task) /\ tdQueue' \in Seq(Task)
      /\ ToSet(tdQueue') = ToSet(tdQueue) \cup {t}
      /\ \A u \in Task : Once(tdQueue, u) /\ (u # t \/ u \notin ToSet(tdQueue)) => Once(tdQueue', u)
  <2>1. tdQueue \in Seq(Task)
    BY DEF Places
  <2>2. ToSet(tdQueue') = ToSet(tdQueue) \cup {t}
    BY <1>2, <1>3, <2>1, Offered
  <2>3. \A u \in Task : Once(tdQueue, u) /\ (u # t \/ u \notin ToSet(tdQueue)) => Once(tdQueue', u)
    BY <1>2, <1>3, <2>1, OfferedOnce
  <2>4. tdQueue' \in Seq(Task)
    BY <1>2, <1>3, <2>1
  <2> QED BY <2>1, <2>2, <2>3, <2>4
<1>6. ASSUME NEW u \in Task, u # t PROVE TaskPlace(u)'
  <2>1. Unmoved(u)
    BY <1>2, <1>4, <1>5, <1>6 DEF Unmoved, Empty, At, Created
  <2> QED BY <2>1, UnmovedPlace DEF Places
<1>7. ASSUME NEW u, u = t PROVE TaskPlace(u)'
  <2>1. TaskPlace(u) /\ Queued(Analyse(u)) /\ ~Queued(Analyse(u))'
    BY <1>3, <1>4, <1>7 DEF Places, Queued
  <2>2. u \notin ToSet(tdQueue) /\ Empty(u) /\ Empty(u)' /\ u \in Created'
    BY <1>2, <1>3, <1>7, <2>1 DEF TaskPlace, Empty, Created
  <2>3. Once(tdQueue, u)
    BY <2>2 DEF Once, ToSet
  <2>4. Once(tdQueue', u)
    BY <1>3, <1>5, <1>7, <2>2, <2>3
  <2>5. ~Queued(TaskEnd(u))
    BY <2>1, <2>2, AtOne DEF TaskPlace
  <2> QED BY <1>4, <2>1, <2>2, <2>4, <2>5 DEF TaskPlace
<1>8. CursorPlace'
  BY <1>2 DEF Places, CursorPlace, At
<1> QED BY <1>2, <1>3, <1>5, <1>6, <1>7, <1>8 DEF Places

\* The first request of the Task Dispatcher gets its execution, which counts for one
\* because there is no other copy.
LEMMA TakeRequestPlaces ==
    ASSUME Copies = {1}, Base, Places, TakeRequest, apQueue' = apQueue
    PROVE  Places' /\ \A u \in Task : Settled(u)' <=> Settled(u)
<1>1. PICK t : t = Head(tdQueue)
  OBVIOUS
<1>2. /\ cursor = Idle /\ tdQueue # << >> /\ tdQueue' = Tail(tdQueue)
      /\ execCount' = [execCount EXCEPT ![t] = tasks[t].copies]
      /\ exec' = [exec EXCEPT ![t] = Append(exec[t], [state |-> "new", on |-> {}])]
      /\ cursor' = Iterator(t) /\ tasks' = tasks
  BY <1>1 DEF TakeRequest, NewExecution
<1>3. tdQueue \in Seq(Task) /\ DOMAIN exec = Task /\ DOMAIN execCount = Task
  BY DEF Places
<1>4. /\ ToSet(tdQueue) = ToSet(tdQueue') \cup {t} /\ t \in Task /\ tdQueue' \in Seq(Task)
      /\ \A u : Once(tdQueue, u) => Once(tdQueue', u) /\ (u = t => u \notin ToSet(tdQueue'))
  <2>1. ToSet(tdQueue) = ToSet(tdQueue') \cup {t}
    BY <1>1, <1>2, <1>3, Taken
  <2>2. \A u : Once(tdQueue, u) => Once(tdQueue', u) /\ (u = t => u \notin ToSet(tdQueue'))
    BY <1>1, <1>2, <1>3, TakenOnce
  <2>3. t \in Task /\ tdQueue' \in Seq(Task)
    BY <1>1, <1>2, <1>3
  <2> QED BY <2>1, <2>2, <2>3
<1>5. /\ Empty(t) /\ Once(tdQueue, t) /\ t \in Created /\ ~Queued(Analyse(t)) /\ ~Queued(TaskEnd(t))
  BY <1>4, AtOne DEF Places, TaskPlace
<1>6. exec'[t] = Sole("new", {})
  <2>1. Append(<< >>, [state |-> "new", on |-> {}]) = Sole("new", {})
    BY DEF Sole
  <2>2. Append(exec[t], [state |-> "new", on |-> {}]) = Sole("new", {})
    BY <1>5, <2>1 DEF Empty
  <2>3. exec'[t] = Append(exec[t], [state |-> "new", on |-> {}])
    BY <1>2, <1>3, <1>4
  <2> QED BY <2>2, <2>3
<1>7. At(t, "new")' /\ ~Empty(t)' /\ ~At(t, "done")'
  <2>1. /\ exec'[t] # << >>
        /\ \A r : (\E p : exec'[t] = Sole(r, p)) <=> r = "new"
    BY <1>6, OneExecution
  <2> QED BY <2>1 DEF At, Empty
<1>8. execCount'[t] = 1
  <2>1. tasks[t] \in TaskRecord
    BY <1>5 DEF Base, Typed, Created
  <2> QED BY <1>2, <1>3, <1>4, <2>1 DEF TaskRecord
<1>9. ASSUME NEW u \in Task, u # t PROVE TaskPlace(u)' /\ (Settled(u)' <=> Settled(u))
  <2>1. exec'[u] = exec[u] /\ execCount'[u] = execCount[u]
    BY <1>2, <1>3, <1>9
  <2>2. Unmoved(u)
    BY <1>2, <1>4, <1>9, <2>1 DEF Unmoved, Empty, At, Queued, Created
  <2>3. TaskPlace(u)'
    BY <2>2, UnmovedPlace DEF Places
  <2> QED BY <2>1, <2>3 DEF Settled, At, Queued
<1>10. ASSUME NEW u, u = t PROVE TaskPlace(u)' /\ (Settled(u)' <=> Settled(u))
  <2>1. u \notin ToSet(tdQueue') /\ At(u, "new")' /\ ~Empty(u)' /\ ~At(u, "done")' /\ execCount'[u] = 1
    BY <1>4, <1>5, <1>7, <1>8, <1>10
  <2>2. u \in Created' /\ ~Queued(Analyse(u))' /\ ~Queued(TaskEnd(u))'
    BY <1>2, <1>5, <1>10 DEF Created, Queued
  <2>3. ~Settled(u) /\ ~Settled(u)'
    BY <1>5, <1>10, <2>1, AtOne DEF Settled
  <2> QED BY <2>1, <2>2, <2>3 DEF TaskPlace
<1>11. CursorPlace'
  <2>1. cursor' = Iterating("hasNext", t, 0, removals[t])
    BY <1>2 DEF Iterator, Iterating
  <2> QED BY <1>4, <1>7, <2>1 DEF CursorPlace
<1> QED BY <1>2, <1>3, <1>4, <1>9, <1>10, <1>11 DEF Places

\* The iteration over the predecessors leaves the execution new, or forgets it.
LEMMA IterationPlaces ==
    ASSUME Base, Places, HasNext \/ NextPredecessor \/ DropRequest, apQueue' = apQueue
    PROVE  Places' /\ \A u \in Task : Settled(u)' <=> Settled(u)
<1>1. UNCHANGED <<tasks, execCount, tdQueue>> /\ cursor # Idle
  BY DEF HasNext, NextPredecessor, DropRequest, taskVars, Idle
<1>2. DOMAIN exec = Task
  BY DEF Places
<1>3. PICK at, t, i, x :
          /\ at \in {"hasNext", "next"} /\ t \in Task
          /\ cursor = Iterating(at, t, i, x)
          /\ At(t, "new")
  BY <1>1 DEF Places, CursorPlace
<1>4. PICK o : exec[t] = Sole("new", o)
  BY <1>3 DEF At
<1>5. /\ \A u \in Task : u # t => exec'[u] = exec[u]
      /\ DOMAIN exec' = Task
      /\ \E p : exec'[t] = Sole("new", p)
      /\ cursor' = Idle \/ \E k, j : k \in {"hasNext", "next"} /\
            cursor' = Iterating(k, t, j, x)
  <2>1. CASE HasNext
    <3>1. exec' = exec /\ cursor' = [cursor EXCEPT !.at = "next"]
      BY <2>1 DEF HasNext
    <3>2. cursor' = Iterating("next", t, i, x)
      BY <1>3, <3>1 DEF Iterating
    <3>3. \E k, j : k \in {"hasNext", "next"} /\
              cursor' = Iterating(k, t, j, x)
      BY <3>2
    <3> QED BY <1>2, <1>4, <3>1, <3>3
  <2>2. CASE DropRequest
    BY <1>2, <1>3, <1>4, <2>2 DEF DropRequest
  <2>3. CASE NextPredecessor
    <3>1. PICK n : n = Len(exec[t])
      OBVIOUS
    <3>2. n = 1
      <4>1. Len(Sole("new", o)) = 1
        BY OneExecution
      <4> QED BY <1>4, <3>1, <4>1
    <3>3. cursor.task = t
      BY <1>3 DEF Iterating
    <3>4. \E p : exec' = [exec EXCEPT ![t][Len(exec[t])].on = p]
      BY <2>3, <3>3 DEF NextPredecessor
    <3>5. PICK p : exec' = [exec EXCEPT ![t][1].on = p]
      BY <3>1, <3>2, <3>4
    <3>6. exec'[t] = Sole("new", p)
      BY <1>2, <1>3, <1>4, <3>5 DEF Sole
    <3>7. \A u \in Task : u # t => exec'[u] = exec[u]
      BY <1>2, <3>5
    <3>8. cursor' = Iterating("hasNext", t, i + 1, x)
      BY <1>3, <2>3 DEF NextPredecessor, Iterating
    <3>9. \E k, j : k \in {"hasNext", "next"} /\
              cursor' = Iterating(k, t, j, x)
      BY <3>8
    <3>10. \E q : exec'[t] = Sole("new", q)
      BY <3>6
    <3>11. DOMAIN exec' = Task
      BY <1>2, <3>5
    <3> QED BY <3>7, <3>9, <3>10, <3>11
  <2> QED BY <2>1, <2>2, <2>3
<1>6. ~Empty(t) /\ ~Empty(t)' /\ \A s : At(t, s)' <=> s = "new"
  <2>1. PICK p : exec'[t] = Sole("new", p)
    BY <1>5
  <2>2. /\ exec'[t] # << >>
        /\ \A r : (\E q : exec'[t] = Sole(r, q)) <=> r = "new"
    BY <2>1, OneExecution
  <2>3. ~Empty(t)
    BY <1>3, AtOne
  <2> QED BY <2>2, <2>3 DEF At, Empty
<1>7. ASSUME NEW u \in Task
      PROVE  (Empty(u)' <=> Empty(u)) /\ \A s : At(u, s)' <=> At(u, s)
  <2>1. CASE u = t
    <3>1. \A s : At(u, s) <=> s = "new"
      BY <1>3, <2>1, AtOne
    <3> QED BY <1>6, <2>1, <3>1
  <2>2. CASE u # t
    BY <1>5, <2>2 DEF At, Empty
  <2> QED BY <2>1, <2>2
<1>8. ASSUME NEW u \in Task PROVE TaskPlace(u)' /\ (Settled(u)' <=> Settled(u))
  <2>1. Unmoved(u)
    BY <1>1, <1>7 DEF Unmoved, Queued, Created
  <2>2. TaskPlace(u)'
    BY <2>1, UnmovedPlace DEF Places
  <2> QED BY <1>7, <2>2 DEF Settled, Queued
<1>9. CursorPlace'
  BY <1>3, <1>5, <1>6 DEF CursorPlace
<1> QED BY <1>1, <1>5, <1>8, <1>9 DEF Places

\* An execution goes on, and that of the task the Task Dispatcher serves ends its iteration.
LEMMA ExecutionMoves ==
    ASSUME Places, NEW t \in Task, NEW r, NEW s \in {"waiting", "running"}, At(t, r), r # "done",
           \E p : exec'[t] = Sole(s, p), DOMAIN exec' = Task,
           \A u \in Task : u # t => exec'[u] = exec[u],
           UNCHANGED <<tasks, execCount, tdQueue, apQueue>>,
           cursor' = Idle \/ (cursor' = cursor /\ r # "new")
    PROVE  Places' /\ \A u \in Task : Settled(u)' <=> Settled(u)
<1>1. At(t, s)' /\ ~Empty(t) /\ ~Empty(t)' /\ ~At(t, "done") /\ ~At(t, "done")'
  <2>1. PICK p : exec'[t] = Sole(s, p)
    OBVIOUS
  <2>2. exec'[t] # << >> /\ \A q : exec'[t] # Sole("done", q)
    BY <2>1, OneExecution
  <2>3. ~Empty(t) /\ ~At(t, "done")
    BY AtOne
  <2> QED BY <2>1, <2>2, <2>3 DEF At, Empty
<1>2. ASSUME NEW u \in Task, u # t PROVE TaskPlace(u)' /\ (Settled(u)' <=> Settled(u))
  <2>1. Unmoved(u)
    BY <1>2 DEF Unmoved, Empty, At, Queued, Created
  <2>2. TaskPlace(u)'
    BY <2>1, UnmovedPlace DEF Places
  <2> QED BY <1>2, <2>2 DEF Settled, At, Queued
<1>3. TaskPlace(t)' /\ (Settled(t)' <=> Settled(t))
  <2>1. /\ t \in Created /\ ~Queued(Analyse(t)) /\ t \notin ToSet(tdQueue) /\ ~Queued(TaskEnd(t))
        /\ execCount[t] = 1
    BY <1>1 DEF Places, TaskPlace
  <2>2. /\ t \in Created' /\ ~Queued(Analyse(t))' /\ t \notin ToSet(tdQueue') /\ ~Queued(TaskEnd(t))'
        /\ execCount'[t] = 1
    BY <2>1 DEF Created, Queued
  <2>3. ~Settled(t) /\ ~Settled(t)'
    BY <1>1 DEF Settled
  <2> QED BY <1>1, <2>2, <2>3 DEF TaskPlace
<1>4. CursorPlace'
  <2>1. CASE cursor' = Idle
    BY <2>1 DEF CursorPlace
  <2>2. CASE cursor' = cursor /\ r # "new"
    <3>1. CASE cursor = Idle
      BY <2>2, <3>1 DEF CursorPlace
    <3>2. CASE cursor # Idle
      <4>1. PICK at, u, i, x : /\ at \in {"hasNext", "next"} /\ u \in Task
                               /\ cursor = Iterating(at, u, i, x) /\ At(u, "new")
        BY <3>2 DEF Places, CursorPlace
      <4>2. u # t
        BY <2>2, <4>1, AtOne
      <4>3. At(u, "new")'
        BY <4>1, <4>2 DEF At
      <4> QED BY <2>2, <4>1, <4>3 DEF CursorPlace
    <3> QED BY <3>1, <3>2
  <2> QED BY <2>1, <2>2
<1>5. \A u \in Task : TaskPlace(u)' /\ (Settled(u)' <=> Settled(u))
  BY <1>2, <1>3
<1> QED BY <1>4, <1>5 DEF Places

\* The loop over the predecessors ends and, there being one copy, so does the request.
LEMMA EndOfPredecessorsPlaces ==
    ASSUME Copies = {1}, Base, Places, EndOfPredecessors, apQueue' = apQueue
    PROVE  Places' /\ \A u \in Task : Settled(u)' <=> Settled(u)
<1>1. cursor # Idle
  BY DEF EndOfPredecessors, Idle
<1>2. PICK at, t, i, x : /\ at \in {"hasNext", "next"} /\ t \in Task
                         /\ cursor = Iterating(at, t, i, x) /\ At(t, "new")
  BY <1>1 DEF Places, CursorPlace
<1>3. cursor.task = t
  BY <1>2 DEF Iterating
<1>4. PICK o : exec[t] = Sole("new", o)
  BY <1>2 DEF At
<1>5. PICK n : n = Len(exec[t])
  OBVIOUS
<1>6. n = 1 /\ tasks[t].copies = 1
  <2>1. Len(Sole("new", o)) = 1
    BY OneExecution
  <2>2. t \in Created
    BY <1>2, AtOne DEF Places, TaskPlace
  <2>3. tasks[t] \in TaskRecord
    BY <2>2 DEF Base, Typed, Created
  <2> QED BY <1>4, <1>5, <2>1, <2>3 DEF TaskRecord
<1>7. /\ exec' = [exec EXCEPT ![t] = [exec[t] EXCEPT ![1].state = "waiting"]] /\ cursor' = Idle
      /\ UNCHANGED <<tasks, execCount, tdQueue>>
  <2>1. /\ IF n < 1
           THEN TRUE
           ELSE exec' = [exec EXCEPT ![t] = [exec[t] EXCEPT ![n].state = "waiting"]] /\ cursor' = Idle
        /\ UNCHANGED <<tasks, execCount, tdQueue>>
    BY <1>3, <1>5, <1>6 DEF EndOfPredecessors, taskVars
  <2> QED BY <1>6, <2>1
<1>8. exec'[t] = Sole("waiting", o) /\ DOMAIN exec' = Task /\ \A u \in Task : u # t => exec'[u] = exec[u]
  <2>1. DOMAIN exec = Task
    BY DEF Places
  <2>2. [exec[t] EXCEPT ![1].state = "waiting"] = Sole("waiting", o)
    BY <1>4 DEF Sole
  <2> QED BY <1>2, <1>7, <2>1, <2>2
<1> QED BY <1>2, <1>7, <1>8, ExecutionMoves

\* The scheduler launches the execution.
LEMMA LaunchPlaces ==
    ASSUME Places, NEW t \in Task, NEW i \in DOMAIN exec[t], LaunchExecution(t, i)
    PROVE  Places' /\ \A u \in Task : Settled(u)' <=> Settled(u)
<1>1. /\ exec[t][i].state = "waiting" /\ exec' = [exec EXCEPT ![t][i].state = "running"]
      /\ UNCHANGED <<tasks, execCount, tdQueue, apQueue, cursor>>
  BY DEF LaunchExecution, Launch, taskVars
<1>2. PICK s : At(t, s)
  <2>1. exec[t] # << >>
    OBVIOUS
  <2> QED BY <2>1 DEF Places, TaskPlace, Empty
<1>3. i = 1 /\ s = "waiting"
  BY <1>1, <1>2, AtOne
<1>4. PICK o : exec[t] = Sole("waiting", o)
  BY <1>2, <1>3 DEF At
<1>5. exec'[t] = Sole("running", o) /\ DOMAIN exec' = Task /\ \A u \in Task : u # t => exec'[u] = exec[u]
  <2>1. DOMAIN exec = Task
    BY DEF Places
  <2>2. exec' = [exec EXCEPT ![t][1].state = "running"]
    BY <1>1, <1>3
  <2>3. exec'[t] = [exec[t] EXCEPT ![1].state = "running"]
    BY <2>1, <2>2
  <2>4. [exec[t] EXCEPT ![1].state = "running"] = Sole("running", o)
    BY <1>4 DEF Sole
  <2> QED BY <2>1, <2>2, <2>3, <2>4
<1> QED BY <1>1, <1>2, <1>3, <1>5, ExecutionMoves

\* The execution ends, which is notified to the Access Processor.
LEMMA CompletePlaces ==
    ASSUME Base, Places, NEW t \in Task, NEW i \in DOMAIN exec[t], CompleteExecution(t, i)
    PROVE  Places' /\ \A u \in Task : Settled(u)' <=> Settled(u)
<1>1. /\ cursor = Idle /\ exec[t][i].state = "running" /\ apQueue' = Append(apQueue, TaskEnd(t))
      /\ exec' = [s \in Task |-> [k \in DOMAIN exec[s] |->
                  [state |-> IF s = t /\ k = i THEN "done" ELSE exec[s][k].state,
                   on |-> exec[s][k].on \ {<<t, i>>}]]]
      /\ execCount' = [execCount EXCEPT ![t] = @ - 1]
      /\ UNCHANGED <<tasks, tdQueue, cursor>>
  BY DEF CompleteExecution, Complete
<1>2. PICK s : At(t, s)
  <2>1. exec[t] # << >>
    OBVIOUS
  <2> QED BY <2>1 DEF Places, TaskPlace, Empty
<1>3. i = 1 /\ s = "running"
  BY <1>1, <1>2, AtOne
<1>4. /\ ~Empty(t) /\ ~At(t, "done") /\ execCount[t] = 1 /\ ~Queued(TaskEnd(t))
      /\ t \in Created /\ ~Queued(Analyse(t)) /\ t \notin ToSet(tdQueue)
  <2>1. ~Empty(t) /\ ~At(t, "done") /\ TaskPlace(t)
    BY <1>2, <1>3, AtOne DEF Places
  <2> QED BY <2>1 DEF TaskPlace
<1>5. /\ \A q : Queued(q)' <=> Queued(q) \/ q = TaskEnd(t)
      /\ \A q : Once(apQueue, q) /\ (q # TaskEnd(t) \/ ~Queued(q)) => Once(apQueue, q)'
  BY <1>1, RequestOffered, RequestsAre DEF Base
<1>6. ASSUME NEW u \in Task
      PROVE  /\ Empty(u) => Empty(u)'
             /\ \A r, o : exec[u] = Sole(r, o) =>
                   exec'[u] = Sole(IF u = t THEN "done" ELSE r, o \ {<<t, i>>})
  <2>1. exec'[u] = [k \in DOMAIN exec[u] |->
                  [state |-> IF u = t /\ k = i THEN "done" ELSE exec[u][k].state,
                   on |-> exec[u][k].on \ {<<t, i>>}]]
    BY <1>1
  <2>2. Empty(u) => Empty(u)'
    BY <2>1 DEF Empty
  <2>3. ASSUME NEW r, NEW o, exec[u] = Sole(r, o)
        PROVE  exec'[u] = Sole(IF u = t THEN "done" ELSE r, o \ {<<t, i>>})
    <3>1. exec[u] = <<[state |-> r, on |-> o]>>
      BY <2>3 DEF Sole
    <3>2. /\ DOMAIN exec[u] = {1} /\ exec[u][1] = [state |-> r, on |-> o]
      BY <3>1
    <3>3. exec[u][1].state = r /\ exec[u][1].on = o
      BY <3>2
    <3>4. PICK e : e = [state |-> IF u = t THEN "done" ELSE r, on |-> o \ {<<t, i>>}]
      OBVIOUS
    <3>5. exec'[u] = [k \in {1} |-> e]
      BY <1>3, <2>1, <3>2, <3>3, <3>4
    <3>6. [k \in {1} |-> e] = <<e>>
      OBVIOUS
    <3> QED BY <3>4, <3>5, <3>6 DEF Sole
  <2> QED BY <2>2, <2>3
<1>7. ASSUME NEW u \in Task, u # t
      PROVE  (Empty(u)' <=> Empty(u)) /\ \A r : At(u, r)' <=> At(u, r)
  <2>1. CASE Empty(u)
    <3>1. exec[u] = << >> /\ exec'[u] = << >>
      BY <1>6, <2>1 DEF Empty
    <3> QED BY <3>1 DEF Empty, At
  <2>2. CASE ~Empty(u)
    <3>1. PICK r, o : exec[u] = Sole(r, o)
      BY <2>2 DEF Places, TaskPlace, At
    <3>2. exec'[u] = Sole(r, o \ {<<t, i>>})
      BY <1>6, <1>7, <3>1
    <3> QED BY <3>1, <3>2, OneExecution DEF Empty, At
  <2> QED BY <2>1, <2>2
<1>8. At(t, "done")' /\ ~Empty(t)'
  <2>1. PICK o : exec[t] = Sole("running", o)
    BY <1>2, <1>3 DEF At
  <2>2. exec'[t] = Sole("done", o \ {<<t, i>>})
    BY <1>6, <2>1
  <2> QED BY <2>2, OneExecution DEF Empty, At
<1>9. ASSUME NEW u \in Task, u # t PROVE TaskPlace(u)' /\ (Settled(u)' <=> Settled(u))
  <2>1. Analyse(u) # TaskEnd(t) /\ TaskEnd(u) # TaskEnd(t)
    BY <1>9, RequestsDiffer
  <2>2. execCount'[u] = execCount[u]
    BY <1>1, <1>9 DEF Places
  <2>3. Unmoved(u)
    BY <1>1, <1>5, <1>7, <1>9, <2>1, <2>2 DEF Unmoved, Created
  <2>4. TaskPlace(u)'
    BY <2>3, UnmovedPlace DEF Places
  <2> QED BY <1>5, <1>7, <1>9, <2>1, <2>4 DEF Settled
<1>10. TaskPlace(t)' /\ (Settled(t)' <=> Settled(t))
  <2>1. Queued(TaskEnd(t))' /\ Once(apQueue, TaskEnd(t))'
    <3>1. Once(apQueue, TaskEnd(t))
      BY <1>4 DEF Once, Queued, ToSet
    <3> QED BY <1>4, <1>5, <3>1
  <2>2. Analyse(t) # TaskEnd(t)
    BY RequestsDiffer
  <2>3. t \in Created' /\ ~Queued(Analyse(t))' /\ t \notin ToSet(tdQueue')
    BY <1>1, <1>4, <1>5, <2>2 DEF Created
  <2>4. execCount'[t] = 0
    BY <1>1, <1>4 DEF Places
  <2>5. ~Settled(t) /\ ~Settled(t)'
    BY <1>4, <2>1 DEF Settled
  <2> QED BY <1>8, <2>1, <2>3, <2>4, <2>5 DEF TaskPlace
<1>11. CursorPlace'
  BY <1>1 DEF CursorPlace
<1>12. \A u \in Task : TaskPlace(u)' /\ (Settled(u)' <=> Settled(u))
  BY <1>9, <1>10
<1>13. DOMAIN exec' = Task /\ DOMAIN execCount' = Task /\ tdQueue' \in Seq(Task)
  BY <1>1 DEF Places
<1> QED BY <1>11, <1>12, <1>13 DEF Places

-----------------------------------------------------------------------------
(* The counts and the stopped programs.                                    *)

\* The tasks of an application are counted with a natural number.
LEMMA OpenIsFinite ==
    ASSUME Base, NEW a
    PROVE  IsFiniteSet(Open(a)) /\ Cardinality(Open(a)) \in Nat
<1>1. IsFiniteSet(1 .. MaxTasks)
  BY MaxTasksAssumption, FS_Interval
<1>2. Open(a) \subseteq 1 .. MaxTasks
  BY DEF Open, Base, Typed, Task
<1>3. IsFiniteSet(Open(a))
  BY <1>1, <1>2, FS_Subset
<1> QED BY <1>3, FS_CardinalityType

\* A step that neither analyses a task nor treats its end leaves the counts.
LEMMA CountsStay ==
    ASSUME Counted, taskCount' = taskCount, Created \subseteq Created',
           \A u \in Created : tasks'[u] = tasks[u],
           \A u \in Created : Queued(Analyse(u))' <=> Queued(Analyse(u)),
           \A u \in Created : Settled(u)' <=> Settled(u),
           \A u \in Created' : u \notin Created => Queued(Analyse(u))'
    PROVE  Counted'
<1>1. ASSUME NEW a \in Apps PROVE Open(a)' = Open(a)
  BY DEF Open
<1>2. ASSUME NEW a \in Apps PROVE CountOf(a)' = CountOf(a)
  BY DEF CountOf
<1> QED BY <1>1, <1>2 DEF Counted

\* What leaves a program where it is stopped.
Held(a) ==
    /\ TasksOf(a)' = TasksOf(a)
    /\ \A t \in TasksOf(a) : /\ Ahead(apQueue', Analyse(t), BarrierRequest(a))
                             /\ Ahead(apQueue', Analyse(t), EndOfApp(a))
                             /\ Queued(Analyse(t))' => Queued(Analyse(t))
                             /\ Settled(t) => Settled(t)'
    /\ a \in semaphore' => a \in semaphore
    /\ a \in permits' /\ main'[a].call \in {"barrier", "noMoreTasks"} =>
          a \in permits /\ main[a].call \in {"barrier", "noMoreTasks"}

\* A program that is held stays stopped.
LEMMA HeldStays ==
    ASSUME NEW a, Stopped(a), Held(a)
    PROVE  Stopped(a)'
<1>1. a \in semaphore' => \A t \in TasksOf(a)' : ~Queued(Analyse(t))'
  BY DEF Stopped, Held
<1>2. a \in permits' /\ main'[a].call \in {"barrier", "noMoreTasks"} =>
          \A t \in TasksOf(a)' : ~Queued(Analyse(t))' /\ Settled(t)'
  BY DEF Stopped, Held
<1>3. \A t \in TasksOf(a)' : /\ Ahead(apQueue, Analyse(t), BarrierRequest(a))'
                             /\ Ahead(apQueue, Analyse(t), EndOfApp(a))'
  BY DEF Held
<1> QED BY <1>1, <1>2, <1>3 DEF Stopped

\* The order of the queue when a request that is not an analysis is offered, or when one
\* is taken.
LEMMA OrderOfQueue ==
    ASSUME Base, NEW a \in Apps, NEW t \in Task, NEW x \in {BarrierRequest(a), EndOfApp(a)},
           Ahead(apQueue, Analyse(t), x),
           \/ apQueue' = apQueue
           \/ apQueue' = Tail(apQueue) /\ apQueue # << >>
           \/ \E r \in Request : apQueue' = Append(apQueue, r) /\ r # Analyse(t)
    PROVE  Ahead(apQueue', Analyse(t), x)
<1>1. apQueue \in Seq(Request)
  BY DEF Base, Typed
<1>2. CASE apQueue' = apQueue
  BY <1>2
<1>3. CASE apQueue' = Tail(apQueue) /\ apQueue # << >>
  BY <1>1, <1>3, TakenAhead
<1>4. CASE \E r \in Request : apQueue' = Append(apQueue, r) /\ r # Analyse(t)
  <2>1. PICK r \in Request : apQueue' = Append(apQueue, r) /\ r # Analyse(t)
    BY <1>4
  <2>2. Ahead(Append(apQueue, r), Analyse(t), x)
    BY <1>1, <2>1, OfferedAhead
  <2> QED BY <2>1, <2>2
<1> QED BY <1>2, <1>3, <1>4

\* A call of a program, or its return, with the request it offers if any.
LEMMA ProgramBarrier ==
    ASSUME BarrierInv, NEW a \in Apps,
           \/ apQueue' = apQueue
           \/ \E r \in {Register(a), WaitForTask(a), BarrierRequest(a), EndOfApp(a)} :
                 apQueue' = Append(apQueue, r),
           UNCHANGED <<tasks, exec, execCount, tdQueue, cursor, taskCount, semaphore>>,
           permits' = permits \/ permits' = permits \ {a},
           a \in permits' => main'[a].call \notin {"barrier", "noMoreTasks"},
           \A b \in Apps : b # a => main'[b] = main[b]
    PROVE  Places' /\ Counted' /\ \A b \in Apps : Stopped(b)'
<1>1. /\ \A u \in Task : /\ Queued(Analyse(u))' <=> Queued(Analyse(u))
                         /\ Queued(TaskEnd(u))' <=> Queued(TaskEnd(u))
                         /\ Once(apQueue, TaskEnd(u)) => Once(apQueue', TaskEnd(u))
  <2>1. CASE apQueue' = apQueue
    BY <2>1 DEF Queued
  <2>2. CASE \E r \in {Register(a), WaitForTask(a), BarrierRequest(a), EndOfApp(a)} :
                 apQueue' = Append(apQueue, r)
    <3>1. PICK r \in {Register(a), WaitForTask(a), BarrierRequest(a), EndOfApp(a)} :
                 apQueue' = Append(apQueue, r)
      BY <2>2
    <3>2. r \in Request /\ \A u \in Task : r # Analyse(u) /\ r # TaskEnd(u)
      BY RequestsAre, RequestsDiffer
    <3>3. /\ \A q : Queued(q)' <=> Queued(q) \/ q = r
          /\ \A q : Once(apQueue, q) /\ (q # r \/ ~Queued(q)) => Once(apQueue, q)'
      BY <3>1, <3>2, RequestOffered DEF BarrierInv, Base
    <3> QED BY <3>2, <3>3
  <2> QED BY <2>1, <2>2
<1>2. Created \subseteq Task /\ Created' = Created
  BY DEF BarrierInv, Base, Typed, Created
<1>3. Places'
  BY <1>1, <1>2, QueuePlaces DEF BarrierInv
<1>4. \A u \in Created : Settled(u)' <=> Settled(u)
  BY <1>1, <1>2 DEF Settled, At
<1>5. Counted'
  BY <1>1, <1>2, <1>4, CountsStay DEF BarrierInv
<1>6. ASSUME NEW b \in Apps PROVE Stopped(b)'
  <2>1. TasksOf(b)' = TasksOf(b) /\ TasksOf(b) \subseteq Created
    BY <1>2 DEF TasksOf
  <2>2. ASSUME NEW t \in TasksOf(b), NEW x \in {BarrierRequest(b), EndOfApp(b)}
        PROVE  Ahead(apQueue', Analyse(t), x)
    <3>1. \/ apQueue' = apQueue
          \/ \E r \in Request : apQueue' = Append(apQueue, r) /\ r # Analyse(t)
      BY RequestsAre, RequestsDiffer
    <3>2. t \in Task /\ Ahead(apQueue, Analyse(t), x)
      BY <1>2, <2>1 DEF BarrierInv, Stopped
    <3> QED BY <3>1, <3>2, OrderOfQueue DEF BarrierInv
  <2>3. b \in permits' /\ main'[b].call \in {"barrier", "noMoreTasks"} =>
          b \in permits /\ main[b].call \in {"barrier", "noMoreTasks"}
    BY DEF BarrierInv
  <2>4. Held(b)
    BY <1>1, <1>2, <1>4, <2>1, <2>2, <2>3 DEF Held
  <2> QED BY <2>4, HeldStays DEF BarrierInv
<1> QED BY <1>3, <1>5, <1>6

\* The calls and returns of the programs, but for the submission of a task.
LEMMA CallsBarrier ==
    ASSUME BarrierInv, NEW a \in Apps,
           \/ MainStep(a)
           \/ \E access \in MainAccesses : MainAccess(a, access)
           \/ CallBarrier(a)
           \/ CallNoMoreTasks(a)
    PROVE  Places' /\ Counted' /\ \A b \in Apps : Stopped(b)'
<1>1. main \in [Apps -> ProgramRecord] /\ OneCall(a)
  BY DEF BarrierInv, Base, Typed
<1>2. /\ UNCHANGED <<tasks, exec, execCount, tdQueue, cursor, taskCount, semaphore>>
      /\ \/ apQueue' = apQueue
         \/ \E r \in {Register(a), WaitForTask(a), BarrierRequest(a), EndOfApp(a)} :
                 apQueue' = Append(apQueue, r)
      /\ \A b \in Apps : b # a => main'[b] = main[b]
      /\ permits' = permits \/ permits' = permits \ {a}
      /\ a \notin permits'
  <2>1. CASE MainStep(a)
    BY <1>1, <2>1 DEF MainStep, Registration, WaitReturns, BarrierReturns, NoMoreTasksReturns,
       Resume, Stop, taskVars, dispatcherVars
  <2>2. CASE \E access \in MainAccesses : MainAccess(a, access)
    BY <1>1, <2>2 DEF MainAccess, Running, OneCall, taskVars, analyserVars, dispatcherVars
  <2>3. CASE CallBarrier(a)
    BY <1>1, <2>3 DEF CallBarrier, Running, Stop, OneCall, taskVars, analyserVars, dispatcherVars
  <2>4. CASE CallNoMoreTasks(a)
    BY <1>1, <2>4 DEF CallNoMoreTasks, Running, Stop, OneCall, taskVars, analyserVars, dispatcherVars
  <2> QED BY <2>1, <2>2, <2>3, <2>4
<1> QED BY <1>2, ProgramBarrier

\* The submission of a task: its program is not stopped, so nothing of it waits for a barrier.
LEMMA NewTaskBarrier ==
    ASSUME BarrierInv, NEW a \in Apps, NEW params \in Signatures, NEW copies \in Copies,
           NewTask(a, params, copies)
    PROVE  Places' /\ Counted' /\ \A b \in Apps : Stopped(b)'
<1> DEFINE t == Len(tasks) + 1
<1>1. /\ t \in Task /\ t \notin Created /\ Created' = Created \cup {t} /\ Created \subseteq Task
      /\ \A u \in Created : tasks'[u] = tasks[u]
      /\ tasks'[t].app = a
  <2>1. Typed
    BY DEF BarrierInv, Base
  <2>2. /\ t \in Task /\ t \notin Created /\ Created' = Created \cup {t}
        /\ \A u \in Created : tasks'[u] = tasks[u]
        /\ tasks'[t] = [app |-> a, params |-> params, copies |-> copies]
    BY <2>1, TaskRecorded
  <2>3. Created \subseteq Task
    BY <2>1 DEF Typed
  <2> QED BY <2>2, <2>3
<1>2. /\ apQueue' = Append(apQueue, Analyse(t)) /\ main[a].call = "running"
      /\ UNCHANGED <<exec, execCount, tdQueue, cursor, taskCount, semaphore, permits, main>>
  BY DEF NewTask, Running, analyserVars, dispatcherVars
<1> HIDE DEF t
<1>3. /\ \A q : Queued(q)' <=> Queued(q) \/ q = Analyse(t)
      /\ \A q : Once(apQueue, q) /\ (q # Analyse(t) \/ ~Queued(q)) => Once(apQueue, q)'
  BY <1>1, <1>2, RequestOffered, RequestsAre DEF BarrierInv, Base
<1>4. \A u \in Task : /\ Queued(Analyse(u))' <=> Queued(Analyse(u)) \/ u = t
                      /\ Queued(TaskEnd(u))' <=> Queued(TaskEnd(u))
                      /\ Once(apQueue, TaskEnd(u)) => Once(apQueue', TaskEnd(u))
  BY <1>3, RequestsDiffer
<1>5. Places'
  BY <1>1, <1>2, <1>4, QueuePlaces DEF BarrierInv
<1>6. \A u \in Created : Settled(u)' <=> Settled(u)
  BY <1>1, <1>2, <1>4 DEF Settled, At
<1>7. Counted'
  BY <1>1, <1>2, <1>4, <1>6, CountsStay DEF BarrierInv
<1>8. ASSUME NEW b \in Apps, b # a PROVE Stopped(b)'
  <2>1. TasksOf(b)' = TasksOf(b) /\ TasksOf(b) \subseteq Created
    BY <1>1, <1>8 DEF TasksOf
  <2>2. ASSUME NEW u \in TasksOf(b), NEW x \in {BarrierRequest(b), EndOfApp(b)}
        PROVE  Ahead(apQueue', Analyse(u), x)
    <3>1. Analyse(t) # Analyse(u) /\ Analyse(t) \in Request
      BY <1>1, <2>1, RequestsAre, RequestsDiffer
    <3>2. u \in Task /\ Ahead(apQueue, Analyse(u), x)
      BY <1>1, <2>1 DEF BarrierInv, Stopped
    <3> QED BY <1>2, <3>1, <3>2, OrderOfQueue DEF BarrierInv
  <2>3. Held(b)
    BY <1>1, <1>2, <1>4, <1>6, <2>1, <2>2 DEF Held
  <2> QED BY <2>3, HeldStays DEF BarrierInv
<1>9. Stopped(a)'
  <2>1. /\ ~Queued(BarrierRequest(a)) /\ ~Queued(EndOfApp(a)) /\ a \notin semaphore /\ a \notin permits
    BY <1>2 DEF BarrierInv, Base, OneCall, AsksForItsCall
  <2>2. ASSUME NEW u, NEW x \in {BarrierRequest(a), EndOfApp(a)}
        PROVE  Ahead(apQueue', Analyse(u), x)
    <3>1. x \notin ToSet(apQueue')
      BY <1>3, <2>1, RequestsDiffer DEF Queued
    <3> QED BY <3>1 DEF Ahead, ToSet
  <2> QED BY <1>2, <2>1, <2>2 DEF Stopped
<1> QED BY <1>5, <1>7, <1>8, <1>9

\* A request of the queue is served: the order of the rest is left.
LEMMA ServedOrder ==
    ASSUME BarrierInv, NEW kind, Serving(kind), tasks' = tasks, NEW b \in Apps
    PROVE  \A t \in TasksOf(b) : /\ Ahead(apQueue', Analyse(t), BarrierRequest(b))
                                 /\ Ahead(apQueue', Analyse(t), EndOfApp(b))
<1>1. ASSUME NEW t \in TasksOf(b), NEW x \in {BarrierRequest(b), EndOfApp(b)}
      PROVE  Ahead(apQueue', Analyse(t), x)
  <2>1. t \in Task /\ Ahead(apQueue, Analyse(t), x)
    BY DEF TasksOf, BarrierInv, Base, Typed, Stopped
  <2>2. apQueue' = Tail(apQueue) /\ apQueue # << >>
    BY DEF Serving
  <2> QED BY <2>1, <2>2, OrderOfQueue DEF BarrierInv
<1> QED BY <1>1

\* The analysis of a task adds it to the count of its application.
LEMMA ServeAnalyseBarrier ==
    ASSUME BarrierInv, ServeAnalyse
    PROVE  Places' /\ Counted' /\ \A b \in Apps : Stopped(b)'
<1>1. PICK t : t = Head(apQueue).task
  OBVIOUS
<1>2. PICK a : a = tasks[t].app
  OBVIOUS
<1>3. /\ Serving("ANALYSE_TASK") /\ taskCount' = PutCount(a, CountOf(a) + 1)
      /\ UNCHANGED <<tasks, exec, semaphore, permits, main>>
  BY <1>1, <1>2 DEF ServeAnalyse, ProcessTask
<1>4. /\ t \in Task /\ t \in Created /\ Head(apQueue) = Analyse(t) /\ a \in Apps
      /\ Analyse(t) \notin ToSet(apQueue')
  BY <1>1, <1>2, <1>3, AnalysedTask DEF BarrierInv, TaskRecord
<1>5. /\ \A q : Queued(q)' => Queued(q)
      /\ \A q : Queued(q) => Queued(q)' \/ q = Head(apQueue)
      /\ Queued(Head(apQueue))
  BY <1>3, RequestServed DEF BarrierInv, Base
<1>6. \A u : /\ Queued(Analyse(u))' <=> Queued(Analyse(u)) /\ u # t
             /\ Queued(TaskEnd(u))' <=> Queued(TaskEnd(u))
  BY <1>4, <1>5, RequestsDiffer DEF Queued
<1>7. Created' = Created /\ \A u : Settled(u)' <=> Settled(u)
  BY <1>3, <1>6 DEF Settled, At, Created
<1>8. Queued(Analyse(t)) /\ ~Settled(t)
  <2>1. Queued(Analyse(t))
    BY <1>4, <1>5
  <2>2. Empty(t)
    BY <1>4, <2>1 DEF BarrierInv, Places, TaskPlace
  <2> QED BY <2>1, <2>2, AtOne DEF Settled
<1>9. ASSUME NEW b \in Apps PROVE CountOf(b)' = Cardinality(Open(b)')
  <2>1. CountOf(b) = Cardinality(Open(b)) /\ IsFiniteSet(Open(b)) /\ Cardinality(Open(b)) \in Nat
    BY OpenIsFinite DEF BarrierInv, Counted
  <2>2. CASE b = a
    <3>1. CountOf(b)' = CountOf(b) + 1
      BY <1>3, <2>2 DEF CountOf, PutCount
    <3>2. Open(b)' = Open(b) \cup {t} /\ t \notin Open(b)
      BY <1>2, <1>3, <1>4, <1>6, <1>7, <1>8, <2>2 DEF Open
    <3>3. Cardinality(Open(b) \cup {t}) = Cardinality(Open(b)) + 1
      BY <2>1, <3>2, FS_AddElement
    <3> QED BY <2>1, <3>1, <3>2, <3>3
  <2>3. CASE b # a
    <3>1. CountOf(b)' = CountOf(b)
      BY <1>3, <2>3 DEF CountOf, PutCount
    <3>2. Open(b)' = Open(b)
      BY <1>2, <1>3, <1>6, <1>7, <2>3 DEF Open
    <3> QED BY <2>1, <3>1, <3>2
  <2> QED BY <2>2, <2>3
<1>10. ASSUME NEW b \in Apps PROVE Stopped(b)'
  <2>1. TasksOf(b)' = TasksOf(b)
    BY <1>3, <1>7 DEF TasksOf
  <2>2. Held(b)
    BY <1>3, <1>6, <1>7, <2>1, ServedOrder DEF Held
  <2> QED BY <2>2, HeldStays DEF BarrierInv
<1>11. Places'
  BY ServeAnalysePlaces DEF BarrierInv
<1> QED BY <1>9, <1>10, <1>11 DEF Counted

\* The count of an application after the end of one of its tasks.
LEMMA AppReleased ==
    ASSUME NEW a, NEW n, ReleaseApp(a, n)
    PROVE  /\ CountOf(a)' = n
           /\ \A b : b # a => CountOf(b)' = CountOf(b)
           /\ \A b : b \in semaphore' => b \in semaphore
           /\ \A b : b \in semaphore \ semaphore' => b = a /\ n = 0
<1>1. CASE n = 0 /\ a \in semaphore
  <2>1. taskCount' = RemoveCount(a) /\ semaphore' = semaphore \ {a}
    BY <1>1 DEF ReleaseApp
  <2> QED BY <1>1, <2>1 DEF CountOf, RemoveCount
<1>2. CASE ~(n = 0 /\ a \in semaphore)
  <2>1. taskCount' = PutCount(a, n) /\ semaphore' = semaphore
    BY <1>2 DEF ReleaseApp
  <2> QED BY <1>2, <2>1 DEF CountOf, PutCount
<1> QED BY <1>1, <1>2

\* The end of a task takes it from the count of its application, whose program goes on when
\* it was the last.
LEMMA ServeTaskEndBarrier ==
    ASSUME BarrierInv, ServeTaskEnd
    PROVE  Places' /\ Counted' /\ \A b \in Apps : Stopped(b)'
<1>1. PICK t : t = Head(apQueue).task
  OBVIOUS
<1>2. PICK a : a = tasks[t].app
  OBVIOUS
<1>3. /\ Serving("TASK_END") /\ EndTask(t)
      /\ UNCHANGED <<tasks, execCount, exec, tdQueue, cursor, main>>
  BY <1>1 DEF ServeTaskEnd, EndTask, dispatcherVars, taskVars
<1>4. /\ \A q : Queued(q)' => Queued(q)
      /\ \A q : Queued(q) => Queued(q)' \/ q = Head(apQueue)
      /\ \A q : Once(apQueue, q) => Once(apQueue, q)'
      /\ Once(apQueue, Head(apQueue)) => Head(apQueue) \notin ToSet(apQueue')
      /\ Queued(Head(apQueue)) /\ Head(apQueue) \in Request /\ Head(apQueue).type = "TASK_END"
  BY <1>3, RequestServed DEF BarrierInv, Base
<1>5. t \in Task /\ Head(apQueue) = TaskEnd(t) /\ Queued(TaskEnd(t))
  BY <1>1, <1>4, RequestKinds
<1>6. /\ At(t, "done") /\ Once(apQueue, TaskEnd(t)) /\ ~Empty(t) /\ t \in Created
      /\ ~Queued(Analyse(t)) /\ execCount[t] = 0
  <2>1. TaskPlace(t) /\ At(t, "done")
    BY <1>5 DEF BarrierInv, Places, TaskPlace
  <2>2. ~Empty(t)
    BY <2>1, AtOne
  <2> QED BY <1>5, <2>1, <2>2 DEF TaskPlace
<1>7. /\ \A u : Queued(Analyse(u))' <=> Queued(Analyse(u))
      /\ \A u : Queued(TaskEnd(u))' <=> Queued(TaskEnd(u)) /\ u # t
  BY <1>4, <1>5, <1>6, RequestsDiffer DEF Queued
<1>8. /\ Created' = Created /\ Created \subseteq Task
      /\ \A u : Settled(u)' <=> Settled(u) \/ u = t
      /\ ~Settled(t)
  BY <1>3, <1>5, <1>6, <1>7 DEF Settled, At, Created, BarrierInv, Base, Typed
<1>9. t \in Open(a) /\ a \in Apps
  <2>1. tasks[t] \in TaskRecord
    BY <1>6 DEF BarrierInv, Base, Typed, Created
  <2> QED BY <1>2, <1>6, <1>8, <2>1 DEF Open, TaskRecord
<1>10. /\ IsFiniteSet(Open(a)) /\ Cardinality(Open(a)) \in Nat /\ CountOf(a) = Cardinality(Open(a))
       /\ Cardinality(Open(a) \ {t}) = Cardinality(Open(a)) - 1
       /\ Cardinality(Open(a)) # 0
  <2>1. /\ IsFiniteSet(Open(a)) /\ Cardinality(Open(a)) \in Nat
        /\ CountOf(a) = Cardinality(Open(a))
    BY <1>9, OpenIsFinite DEF BarrierInv, Counted
  <2>2. Cardinality(Open(a) \ {t}) = Cardinality(Open(a)) - 1
    BY <1>9, <2>1, FS_RemoveElement
  <2>3. Cardinality(Open(a)) # 0
    BY <1>9, <2>1, FS_EmptySet
  <2> QED BY <2>1, <2>2, <2>3
<1>11. a \in DOMAIN taskCount /\ taskCount[a] = CountOf(a)
  BY <1>10 DEF CountOf
<1>12. /\ ReleaseApp(a, CountOf(a) - 1)
       /\ permits' = permits \cup (semaphore \ semaphore') \cup waited[t]
  BY <1>2, <1>3, <1>6, <1>11 DEF EndTask, IsFree
<1>13. PICK n : n = CountOf(a) - 1
  OBVIOUS
<1>14. /\ CountOf(a)' = n
       /\ \A b : b # a => CountOf(b)' = CountOf(b)
       /\ \A b : b \in semaphore' => b \in semaphore
       /\ \A b : b \in semaphore \ semaphore' => b = a /\ n = 0
  <2>1. ReleaseApp(a, n)
    BY <1>12, <1>13
  <2>2. /\ CountOf(a)' = n
        /\ \A b : b # a => CountOf(b)' = CountOf(b)
        /\ \A b : b \in semaphore' => b \in semaphore
        /\ \A b : b \in semaphore \ semaphore' => b = a /\ n = 0
    BY <2>1, AppReleased
  <2> QED BY <2>2
<1>15. Open(a)' = Open(a) \ {t}
  BY <1>3, <1>7, <1>8 DEF Open
<1>16. ASSUME NEW b \in Apps PROVE CountOf(b)' = Cardinality(Open(b)')
  <2>1. CASE b = a
    BY <1>10, <1>13, <1>14, <1>15, <2>1
  <2>2. CASE b # a
    <3>1. Open(b)' = Open(b)
      BY <1>2, <1>3, <1>7, <1>8, <2>2 DEF Open
    <3> QED BY <1>14, <2>2, <3>1 DEF BarrierInv, Counted
  <2> QED BY <2>1, <2>2
<1>17. ASSUME NEW b \in Apps PROVE Stopped(b)'
  <2>1. TasksOf(b)' = TasksOf(b) /\ TasksOf(b) \subseteq Created
    BY <1>3, <1>8 DEF TasksOf
  <2>2. /\ \A u \in TasksOf(b)' : /\ Ahead(apQueue, Analyse(u), BarrierRequest(b))'
                                  /\ Ahead(apQueue, Analyse(u), EndOfApp(b))'
    BY <1>3, <2>1, ServedOrder
  <2>3. b \in semaphore' => \A u \in TasksOf(b)' : ~Queued(Analyse(u))'
    BY <1>7, <1>14, <2>1 DEF BarrierInv, Stopped
  <2>4. ASSUME b \in permits', main'[b].call \in {"barrier", "noMoreTasks"},
               NEW u \in TasksOf(b)'
        PROVE  ~Queued(Analyse(u))' /\ Settled(u)'
    <3>1. main[b].call \in {"barrier", "noMoreTasks"} /\ u \in TasksOf(b)
      BY <1>3, <2>1, <2>4
    <3>2. b \notin waited[t]
      BY <1>5, <3>1 DEF BarrierInv, Base, OneCall
    <3>3. CASE b \in permits
      BY <1>7, <1>8, <3>1, <3>3 DEF BarrierInv, Stopped
    <3>4. CASE b \notin permits
      <4>1. b \in semaphore /\ b = a /\ n = 0
        BY <1>12, <1>14, <2>4, <3>2, <3>4
      <4>2. ~Queued(Analyse(u))
        BY <3>1, <4>1 DEF BarrierInv, Stopped
      <4>3. Open(a) \ {t} = {}
        <5>1. IsFiniteSet(Open(a) \ {t})
          BY <1>10, FS_RemoveElement
        <5>2. Cardinality(Open(a) \ {t}) = 0
          BY <1>10, <1>13, <4>1
        <5> QED BY <5>1, <5>2, FS_EmptySet
      <4>4. Settled(u) \/ u = t
        BY <3>1, <4>1, <4>2, <4>3 DEF Open, TasksOf
      <4> QED BY <1>7, <1>8, <4>2, <4>4
    <3> QED BY <3>3, <3>4
  <2> QED BY <2>2, <2>3, <2>4 DEF Stopped
<1>18. Places'
  BY <1>3, <1>4, <1>7, <1>8, QueuePlaces DEF BarrierInv
<1> QED BY <1>16, <1>17, <1>18 DEF Counted

\* The requests of a program that touch neither the executions nor the counts.
LEMMA ServedBarrier ==
    ASSUME BarrierInv, NEW kind, Serving(kind), kind \notin {"ANALYSE_TASK", "TASK_END"},
           UNCHANGED <<tasks, exec, execCount, tdQueue, cursor>>,
           \A b \in Apps : CountOf(b)' = CountOf(b)
    PROVE  /\ Places' /\ Counted' /\ Created' = Created
           /\ \A u : Queued(Analyse(u))' <=> Queued(Analyse(u))
           /\ \A u \in Created : Settled(u)' <=> Settled(u)
<1>1. /\ \A q : Queued(q)' => Queued(q)
      /\ \A q : Queued(q) => Queued(q)' \/ q = Head(apQueue)
      /\ \A q : Once(apQueue, q) => Once(apQueue, q)'
      /\ Head(apQueue).type = kind
  BY RequestServed DEF BarrierInv, Base
<1>2. \A u : Analyse(u) # Head(apQueue) /\ TaskEnd(u) # Head(apQueue)
  BY <1>1 DEF Analyse, TaskEnd
<1>3. \A u : /\ Queued(Analyse(u))' <=> Queued(Analyse(u))
             /\ Queued(TaskEnd(u))' <=> Queued(TaskEnd(u))
  BY <1>1, <1>2
<1>4. Created' = Created
  BY DEF Created
<1>5. \A u : Settled(u)' <=> Settled(u)
  BY <1>3 DEF Settled, At
<1>6. Places'
  BY <1>1, <1>3, <1>4, QueuePlaces DEF BarrierInv
<1>7. ASSUME NEW b \in Apps PROVE CountOf(b)' = Cardinality(Open(b)')
  <2>1. Open(b)' = Open(b)
    BY <1>3, <1>4, <1>5 DEF Open
  <2> QED BY <2>1 DEF BarrierInv, Counted
<1> QED BY <1>3, <1>4, <1>5, <1>6, <1>7 DEF Counted

\* The registration of an access and the search of its last writer, for a program that is
\* at no barrier.
LEMMA ServeAccessBarrier ==
    ASSUME BarrierInv, ServeRegister \/ ServeWaitForTask
    PROVE  Places' /\ Counted' /\ \A b \in Apps : Stopped(b)'
<1>1. PICK kind \in {"REGISTER_DATA_ACCESS", "WAIT_FOR_TASK"} : Serving(kind)
  BY DEF ServeRegister, ServeWaitForTask
<1>2. PICK a : a = Head(apQueue).app
  OBVIOUS
<1>3. main[a].call \in {"register", "wait"} /\ a \in Apps
  BY <1>1, <1>2, ServedProgram DEF BarrierInv
<1>4. /\ UNCHANGED <<tasks, exec, execCount, tdQueue, cursor, taskCount, semaphore>>
      /\ permits' \subseteq permits \cup {a}
      /\ \A b \in Apps : main'[b].call = main[b].call
  <2>1. main \in [Apps -> ProgramRecord]
    BY DEF BarrierInv, Base, Typed
  <2>2. CASE ServeRegister
    BY <1>2, <1>3, <2>1, <2>2 DEF ServeRegister, RegisterAccess, dispatcherVars, taskVars, ProgramRecord
  <2>3. CASE ServeWaitForTask
    BY <1>2, <2>3 DEF ServeWaitForTask, FindWaitedTask, dispatcherVars, taskVars
  <2> QED BY <2>2, <2>3
<1>5. \A b \in Apps : CountOf(b)' = CountOf(b)
  BY <1>4 DEF CountOf
<1>6. kind \notin {"ANALYSE_TASK", "TASK_END"}
  OBVIOUS
<1>7. /\ Places' /\ Counted' /\ Created' = Created
      /\ \A u : Queued(Analyse(u))' <=> Queued(Analyse(u))
      /\ \A u \in Created : Settled(u)' <=> Settled(u)
  BY <1>1, <1>4, <1>5, <1>6, ServedBarrier
<1>8. ASSUME NEW b \in Apps PROVE Stopped(b)'
  <2>1. TasksOf(b)' = TasksOf(b) /\ TasksOf(b) \subseteq Created
    BY <1>4, <1>7 DEF TasksOf
  <2>2. b \in permits' /\ main'[b].call \in {"barrier", "noMoreTasks"} =>
          b \in permits /\ main[b].call \in {"barrier", "noMoreTasks"}
    BY <1>3, <1>4
  <2>3. \A t \in TasksOf(b) : /\ Ahead(apQueue', Analyse(t), BarrierRequest(b))
                              /\ Ahead(apQueue', Analyse(t), EndOfApp(b))
    BY <1>1, <1>4, ServedOrder
  <2>4. Held(b)
    BY <1>4, <1>7, <2>1, <2>2, <2>3 DEF Held
  <2> QED BY <2>4, HeldStays DEF BarrierInv
<1> QED BY <1>7, <1>8

\* A barrier, or the end of the application: all the tasks it is for are analysed, and if
\* none is counted they have all ended.
LEMMA ServeSynchronisationBarrier ==
    ASSUME BarrierInv, ServeBarrier \/ ServeEndOfApp
    PROVE  Places' /\ Counted' /\ \A b \in Apps : Stopped(b)'
<1>1. PICK kind \in {"BARRIER", "END_OF_APP"} : Serving(kind)
  BY DEF ServeBarrier, ServeEndOfApp
<1>2. PICK a : a = Head(apQueue).app
  OBVIOUS
<1>3. PICK x : x = Head(apQueue)
  OBVIOUS
<1>4. a \in Apps /\ x \in {BarrierRequest(a), EndOfApp(a)} /\ apQueue \in Seq(Request)
  <2>1. Head(apQueue) \in Request /\ Head(apQueue).type = kind
    BY <1>1, RequestServed DEF BarrierInv, Base
  <2>2. apQueue \in Seq(Request)
    BY DEF BarrierInv, Base, Typed
  <2> QED BY <1>2, <1>3, <2>1, <2>2, RequestKinds
<1>5. /\ UNCHANGED <<tasks, exec, execCount, tdQueue, cursor, main>>
      /\ CountOf(a) = 0 => permits' = permits \cup {a} /\ semaphore' = semaphore
      /\ CountOf(a) # 0 => permits' = permits /\ semaphore' = semaphore \cup {a}
      /\ taskCount' = taskCount \/ (CountOf(a) = 0 /\ taskCount' = RemoveCount(a))
  BY <1>2 DEF ServeBarrier, ServeEndOfApp, Barrier, NoMoreTasks, dispatcherVars, taskVars
<1>6. \A b \in Apps : CountOf(b)' = CountOf(b)
  <2>1. CASE taskCount' = taskCount
    BY <2>1 DEF CountOf
  <2>2. CASE CountOf(a) = 0 /\ taskCount' = RemoveCount(a)
    BY <2>2 DEF CountOf, RemoveCount
  <2> QED BY <1>5, <2>1, <2>2
<1>7. kind \notin {"ANALYSE_TASK", "TASK_END"}
  OBVIOUS
<1>8. /\ Places' /\ Counted' /\ Created' = Created
      /\ \A u : Queued(Analyse(u))' <=> Queued(Analyse(u))
      /\ \A u \in Created : Settled(u)' <=> Settled(u)
  BY <1>1, <1>5, <1>6, <1>7, ServedBarrier
<1>9. \A t \in TasksOf(a) : ~Queued(Analyse(t))
  <2>1. ASSUME NEW t \in TasksOf(a) PROVE Ahead(apQueue, Analyse(t), x)
    BY <1>4 DEF BarrierInv, Stopped
  <2>2. apQueue # << >>
    BY <1>1 DEF Serving
  <2> QED BY <1>3, <1>4, <2>1, <2>2, TakenAhead DEF Queued
<1>10. CountOf(a) = 0 => \A t \in TasksOf(a) : Settled(t)
  <2>1. SUFFICES ASSUME CountOf(a) = 0 PROVE \A t \in TasksOf(a) : Settled(t)
    OBVIOUS
  <2>2. IsFiniteSet(Open(a)) /\ Cardinality(Open(a)) = 0
    BY <1>4, <2>1, OpenIsFinite DEF BarrierInv, Counted
  <2>3. Open(a) = {}
    BY <2>2, FS_EmptySet
  <2> QED BY <1>9, <2>3 DEF Open, TasksOf
<1>11. ASSUME NEW b \in Apps PROVE TasksOf(b)' = TasksOf(b) /\ TasksOf(b) \subseteq Created
  BY <1>5, <1>8 DEF TasksOf
<1>12. ASSUME NEW b \in Apps
       PROVE  \A t \in TasksOf(b) : /\ Ahead(apQueue', Analyse(t), BarrierRequest(b))
                                    /\ Ahead(apQueue', Analyse(t), EndOfApp(b))
  BY <1>1, <1>5, ServedOrder
<1>13. ASSUME NEW b \in Apps, b # a PROVE Stopped(b)'
  <2>1. Held(b)
    BY <1>5, <1>8, <1>11, <1>12, <1>13 DEF Held
  <2> QED BY <2>1, HeldStays DEF BarrierInv
<1>14. Stopped(a)'
  <2>1. a \notin permits
    BY <1>1, <1>2, ServedProgram DEF BarrierInv
  <2>2. \A t \in TasksOf(a)' : ~Queued(Analyse(t))'
    BY <1>4, <1>8, <1>9, <1>11
  <2>3. a \in permits' => \A t \in TasksOf(a)' : Settled(t)'
    BY <1>4, <1>5, <1>8, <1>10, <1>11, <2>1
  <2>4. \A t \in TasksOf(a)' : /\ Ahead(apQueue, Analyse(t), BarrierRequest(a))'
                               /\ Ahead(apQueue, Analyse(t), EndOfApp(a))'
    BY <1>4, <1>11, <1>12
  <2> QED BY <2>2, <2>3, <2>4 DEF Stopped
<1> QED BY <1>8, <1>13, <1>14

\* The Task Dispatcher and the executions: no task is settled or analysed by them.
LEMMA ExecutionBarrier ==
    ASSUME Copies = {1}, BarrierInv,
           \/ DispatcherStep
           \/ \E t \in Task : \E i \in DOMAIN exec[t] : LaunchExecution(t, i) \/ CompleteExecution(t, i)
    PROVE  Places' /\ Counted' /\ \A b \in Apps : Stopped(b)'
<1>1. /\ UNCHANGED <<tasks, taskCount, semaphore, permits, main>>
      /\ apQueue' = apQueue \/ \E t \in Task : apQueue' = Append(apQueue, TaskEnd(t))
  BY DEF DispatcherStep, TakeRequest, HasNext, EndOfPredecessors, NextPredecessor, DropRequest,
         LaunchExecution, Launch, CompleteExecution, Complete, taskVars, analyserVars, historyVars
<1>2. Base /\ Places
  BY DEF BarrierInv
<1>3. Places' /\ \A u \in Task : Settled(u)' <=> Settled(u)
  <2>1. CASE DispatcherStep
    <3>1. apQueue' = apQueue
      BY <2>1 DEF DispatcherStep
    <3>2. CASE TakeRequest
      BY <1>2, <3>1, <3>2, TakeRequestPlaces
    <3>3. CASE HasNext \/ NextPredecessor \/ DropRequest
      BY <1>2, <3>1, <3>3, IterationPlaces
    <3>4. CASE EndOfPredecessors
      BY <1>2, <3>1, <3>4, EndOfPredecessorsPlaces
    <3> QED BY <2>1, <3>2, <3>3, <3>4 DEF DispatcherStep
  <2>2. ASSUME NEW t \in Task, NEW i \in DOMAIN exec[t], LaunchExecution(t, i) \/ CompleteExecution(t, i)
        PROVE  Places' /\ \A u \in Task : Settled(u)' <=> Settled(u)
    BY <1>2, <2>2, LaunchPlaces, CompletePlaces
  <2> QED BY <2>1, <2>2
<1>4. \A u \in Task : Queued(Analyse(u))' <=> Queued(Analyse(u))
  <2>1. CASE apQueue' = apQueue
    BY <2>1 DEF Queued
  <2>2. CASE \E t \in Task : apQueue' = Append(apQueue, TaskEnd(t))
    <3>1. PICK t \in Task : apQueue' = Append(apQueue, TaskEnd(t))
      BY <2>2
    <3>2. \A q : Queued(q)' <=> Queued(q) \/ q = TaskEnd(t)
      BY <1>2, <3>1, RequestOffered, RequestsAre DEF Base
    <3> QED BY <3>2, RequestsDiffer
  <2> QED BY <1>1, <2>1, <2>2
<1>5. Created' = Created /\ Created \subseteq Task
  BY <1>1, <1>2 DEF Created, Base, Typed
<1>6. Counted'
  BY <1>1, <1>3, <1>4, <1>5, CountsStay DEF BarrierInv
<1>7. ASSUME NEW b \in Apps PROVE Stopped(b)'
  <2>1. TasksOf(b)' = TasksOf(b) /\ TasksOf(b) \subseteq Task
    BY <1>1, <1>5 DEF TasksOf
  <2>2. ASSUME NEW t \in TasksOf(b), NEW x \in {BarrierRequest(b), EndOfApp(b)}
        PROVE  Ahead(apQueue', Analyse(t), x)
    <3>1. \/ apQueue' = apQueue
          \/ \E r \in Request : apQueue' = Append(apQueue, r) /\ r # Analyse(t)
      BY <1>1, RequestsAre, RequestsDiffer
    <3>2. t \in Task /\ Ahead(apQueue, Analyse(t), x)
      BY <2>1 DEF BarrierInv, Stopped
    <3> QED BY <1>2, <3>1, <3>2, OrderOfQueue
  <2>3. Held(b)
    BY <1>1, <1>3, <1>4, <2>1, <2>2 DEF Held
  <2> QED BY <2>3, HeldStays DEF BarrierInv
<1> QED BY <1>3, <1>6, <1>7

-----------------------------------------------------------------------------
(* The barrier.                                                            *)

\* The runtime starts with no task.
LEMMA BarrierHoldsFirst == Init => BarrierInv
<1> SUFFICES ASSUME Init PROVE BarrierInv
  OBVIOUS
<1>1. Base
  BY BaseHoldsFirst
<1> USE DEF Init, AnalyserInit, DispatcherInit
<1>2. ToSet(apQueue) = {} /\ ToSet(tdQueue) = {} /\ Created = {}
  BY DEF ToSet, Created
<1>3. Places
  <2>1. \A t \in Task : TaskPlace(t)
    BY <1>2 DEF TaskPlace, Empty, Queued
  <2> QED BY <2>1 DEF Places, CursorPlace
<1>4. Counted
  <2>1. ASSUME NEW a \in Apps PROVE CountOf(a) = Cardinality(Open(a))
    <3>1. Open(a) = {} /\ CountOf(a) = 0
      BY <1>2 DEF Open, CountOf
    <3> QED BY <3>1, FS_EmptySet
  <2> QED BY <2>1 DEF Counted
<1>5. ASSUME NEW a \in Apps PROVE Stopped(a)
  BY <1>2 DEF Stopped, TasksOf
<1> QED BY <1>1, <1>3, <1>4, <1>5 DEF BarrierInv

\* Every step keeps the places, the counts and the stopped programs.
LEMMA BarrierStays ==
    ASSUME Copies = {1}
    PROVE  BarrierInv /\ [Next]_vars => BarrierInv'
<1> SUFFICES ASSUME BarrierInv, [Next]_vars PROVE BarrierInv'
  OBVIOUS
<1>1. Base'
  BY BaseStays DEF BarrierInv
<1>2. Places' /\ Counted' /\ \A b \in Apps : Stopped(b)'
  <2>1. ASSUME NEW a \in Apps,
               \/ MainStep(a)
               \/ \E access \in MainAccesses : MainAccess(a, access)
               \/ CallBarrier(a)
               \/ CallNoMoreTasks(a)
        PROVE  Places' /\ Counted' /\ \A b \in Apps : Stopped(b)'
    BY <2>1, CallsBarrier
  <2>2. ASSUME NEW a \in Apps, NEW params \in Signatures, NEW copies \in Copies,
               NewTask(a, params, copies)
        PROVE  Places' /\ Counted' /\ \A b \in Apps : Stopped(b)'
    BY <2>2, NewTaskBarrier
  <2>3. CASE Serve
    <3>1. CASE ServeAnalyse
      BY <3>1, ServeAnalyseBarrier
    <3>2. CASE ServeTaskEnd
      BY <3>2, ServeTaskEndBarrier
    <3>3. CASE ServeRegister \/ ServeWaitForTask
      BY <3>3, ServeAccessBarrier
    <3>4. CASE ServeBarrier \/ ServeEndOfApp
      BY <3>4, ServeSynchronisationBarrier
    <3> QED BY <2>3, <3>1, <3>2, <3>3, <3>4 DEF Serve
  <2>4. CASE \/ DispatcherStep
             \/ \E t \in Task : \E i \in DOMAIN exec[t] : LaunchExecution(t, i) \/ CompleteExecution(t, i)
    BY <2>4, ExecutionBarrier
  <2>5. CASE UNCHANGED vars
    <3> USE <2>5 DEF vars, taskVars, analyserVars, dispatcherVars, historyVars
    <3>1. Created' = Created /\ \A q : Queued(q)' <=> Queued(q)
      BY DEF Created, Queued
    <3>2. \A u : Settled(u)' <=> Settled(u)
      BY <3>1 DEF Settled, At
    <3>3. Places'
      BY <3>1, QueuePlaces DEF BarrierInv
    <3>4. Counted'
      BY <3>1, <3>2, CountsStay DEF BarrierInv
    <3>5. ASSUME NEW b \in Apps PROVE Stopped(b)'
      <4>1. TasksOf(b)' = TasksOf(b)
        BY <3>1 DEF TasksOf
      <4>2. Held(b)
        BY <3>1, <3>2, <4>1 DEF Held, BarrierInv, Stopped
      <4> QED BY <4>2, HeldStays DEF BarrierInv
    <3> QED BY <3>3, <3>4, <3>5
  <2> QED BY <2>1, <2>2, <2>3, <2>4, <2>5 DEF Next
<1> QED BY <1>1, <1>2 DEF BarrierInv

\* What the properties say of the queue and of the executions.
LEMMA InTheQueue ==
    ASSUME BarrierInv, Copies = {1}, NEW t \in Created
    PROVE  /\ \A r : Contains(apQueue, r) <=> Queued(r)
           /\ Finished(t) <=> At(t, "done")
<1>1. \A r : Contains(apQueue, r) <=> Queued(r)
  BY DEF Contains, Queued, ToSet
<1>2. t \in Task /\ tasks[t].copies = 1
  <2>1. tasks[t] \in TaskRecord /\ t \in Task
    BY DEF BarrierInv, Base, Typed, Created
  <2> QED BY <2>1 DEF TaskRecord
<1>3. ASSUME At(t, "done") PROVE Finished(t)
  BY <1>2, <1>3, AtOne DEF Finished
<1>4. ASSUME Finished(t) PROVE At(t, "done")
  <2>1. Len(exec[t]) = 1 /\ \A i \in DOMAIN exec[t] : exec[t][i].state = "done"
    BY <1>2, <1>4 DEF Finished
  <2>2. ~Empty(t)
    <3>1. Len(<< >>) = 0
      OBVIOUS
    <3> QED BY <2>1, <3>1 DEF Empty
  <2>3. PICK s : At(t, s)
    BY <1>2, <2>2 DEF BarrierInv, Places, TaskPlace
  <2>4. DOMAIN exec[t] = {1} /\ exec[t][1].state = s
    BY <2>3, AtOne
  <2> QED BY <2>1, <2>3, <2>4
<1> QED BY <1>1, <1>3, <1>4

\* The tasks of every program are where the counts, the queues and the executions agree
\* they are (TaskAnalyser, TaskDispatcher and the requests of AccessProcessor together).
THEOREM TasksInPlace ==
    ASSUME Copies = {1}
    PROVE  Spec => []BarrierInv
<1>1. Init => BarrierInv
  BY BarrierHoldsFirst
<1>2. BarrierInv /\ [Next]_vars => BarrierInv'
  BY BarrierStays
<1> QED BY <1>1, <1>2, PTL DEF Spec

\* When no task is replicated, the count of an application is exact, so that its last task
\* and no other releases its program (TaskAnalyser.processTask, endTask).
THEOREM CountsAreExact ==
    ASSUME Copies = {1}
    PROVE  Spec => []CountIsExact
<1>1. BarrierInv => CountIsExact
  <2> SUFFICES ASSUME BarrierInv, NEW a \in Apps
               PROVE  CountOf(a) =
                        Cardinality({t \in Created : tasks[t].app = a /\ Analysed(t) /\ ~Ended(t)})
    BY DEF CountIsExact
  <2>1. \A t \in Created : Analysed(t) /\ ~Ended(t) <=> ~Queued(Analyse(t)) /\ ~Settled(t)
    BY InTheQueue DEF Analysed, Ended, Settled
  <2>2. {t \in Created : tasks[t].app = a /\ Analysed(t) /\ ~Ended(t)} = Open(a)
    BY <2>1 DEF Open
  <2> QED BY <2>2 DEF BarrierInv, Counted
<1> QED BY <1>1, TasksInPlace, PTL

\* When no task is replicated, a program leaves a barrier, or its end, only when all its
\* tasks have finished (TaskAnalyser.barrier, noMoreTasks, endTask).
THEOREM BarriersWait ==
    ASSUME Copies = {1}
    PROVE  Spec => []BarrierWaitsForAll
<1>1. BarrierInv => BarrierWaitsForAll
  <2> SUFFICES ASSUME BarrierInv, NEW a \in Apps,
                      main[a].call \in {"barrier", "noMoreTasks"}, a \in permits,
                      NEW t \in Created, tasks[t].app = a
               PROVE  Finished(t)
    BY DEF BarrierWaitsForAll
  <2>1. Settled(t)
    BY DEF BarrierInv, Stopped, TasksOf
  <2> QED BY <2>1, InTheQueue DEF Settled
<1> QED BY <1>1, TasksInPlace, PTL
=============================================================================
