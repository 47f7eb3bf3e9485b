-------------------------- MODULE RefinementProofs --------------------------
(***************************************************************************)
(* Proofs that a program that synchronises sees the last writer of what it *)
(* fetches finished, and that the runtime implements TaskGraph, for every  *)
(* number of data and tasks, when tasks have one execution and there is    *)
(* one program.                                                            *)
(*                                                                         *)
(* A program that is alone generates nothing between the request to        *)
(* register its access and the request to wait, so the last writer the     *)
(* Task Analyser finds is that of the version registered.  A writer that   *)
(* is forgotten (an access in mode RW makes the program the writer) has    *)
(* finished or has a thread waiting for it.  With two programs another's   *)
(* task can become the last writer between the two requests, and the wait  *)
(* is for that one.                                                        *)
(*                                                                         *)
(* The refinement puts together what the other modules prove: the order of *)
(* the queue and the counts behind a barrier (AccessProcessorProofs), the  *)
(* dependencies (DependencyProofs) and the awaited writers.                *)
(***************************************************************************)
EXTENDS DependencyProofs, WellFoundedInduction

-----------------------------------------------------------------------------
(* The last task that wrote a datum, up to some version.                   *)

\* The last task among the first v authors s of a datum.
LastTask(s, v) ==
    LET versions == {w \in 1 .. v : s[w] \in Task}
    IN  IF versions = {} THEN NoTask
        ELSE s[CHOOSE w \in versions : \A x \in versions : x <= w]

\* A set of versions has a largest one.
LEMMA LargestVersion ==
    ASSUME NEW v \in Nat, NEW S \in SUBSET (1 .. v), S # {}
    PROVE  \E w \in S : \A x \in S : x <= w
<1> DEFINE Less == OpToRel(<, Nat)
           T == {v - x : x \in S}
<1>1. \A x \in S : x \in Nat /\ x <= v /\ v - x \in Nat
  OBVIOUS
<1>2. PICK n \in T : \A m \in T : <<m, n>> \notin Less
  <2>1. T \subseteq Nat /\ T # {}
    BY <1>1
  <2>2. IsWellFoundedOn(Less, Nat)
    BY NatLessThanWellFounded
  <2> HIDE DEF Less, T
  <2> QED BY <2>1, <2>2, WFMin
<1>3. PICK w \in S : n = v - w
  BY <1>2
<1>4. ASSUME NEW x \in S PROVE x <= w
  <2>1. v - x \in Nat /\ n \in Nat /\ x \in Nat /\ w \in Nat
    BY <1>1, <1>3
  <2>2. <<v - x, n>> \notin Less
    BY <1>2
  <2>3. ~(v - x < n)
    BY <2>1, <2>2 DEF OpToRel
  <2> QED BY <1>3, <2>1, <2>3
<1> QED BY <1>4

\* The last task is an author after which no task comes, or there is no task.
LEMMA LastTaskIs ==
    ASSUME NEW s, NEW v \in Nat
    PROVE  \/ LastTask(s, v) = NoTask /\ \A w \in 1 .. v : s[w] \notin Task
           \/ \E w \in 1 .. v : /\ LastTask(s, v) = s[w] /\ s[w] \in Task
                                /\ \A x \in w + 1 .. v : s[x] \notin Task
<1>1. PICK S : S = {w \in 1 .. v : s[w] \in Task}
  OBVIOUS
<1>2. CASE S = {}
  BY <1>1, <1>2 DEF LastTask
<1>3. CASE S # {}
  <2>1. S \in SUBSET (1 .. v)
    BY <1>1
  <2>2. \E w \in S : \A x \in S : x <= w
    BY <1>3, <2>1, LargestVersion
  <2>3. PICK w : w = CHOOSE z \in S : \A x \in S : x <= z
    OBVIOUS
  <2>4. w \in S /\ \A x \in S : x <= w
    BY <2>2, <2>3
  <2>5. LastTask(s, v) = s[w]
    BY <1>1, <1>3, <2>3 DEF LastTask
  <2>6. w \in 1 .. v /\ s[w] \in Task
    BY <1>1, <2>4
  <2>7. ASSUME NEW x \in w + 1 .. v PROVE s[x] \notin Task
    <3>1. x \in 1 .. v /\ ~(x <= w)
      BY <2>6
    <3> QED BY <1>1, <2>4, <3>1
  <2> QED BY <2>5, <2>6, <2>7
<1> QED BY <1>2, <1>3

\* Versions that no task generates change nothing.
LEMMA SameLastTask ==
    ASSUME NEW s, NEW r, NEW v \in Nat, NEW w \in Nat, v <= w,
           \A x \in 1 .. v : r[x] = s[x], \A x \in v + 1 .. w : r[x] \notin Task
    PROVE  LastTask(r, w) = LastTask(s, v)
<1>1. CASE \A x \in 1 .. v : s[x] \notin Task
  <2>1. LastTask(s, v) = NoTask
    BY <1>1, LastTaskIs
  <2>2. ASSUME NEW x \in 1 .. w PROVE r[x] \notin Task
    <3>1. x \in 1 .. v \/ x \in v + 1 .. w
      OBVIOUS
    <3> QED BY <1>1, <3>1
  <2>3. LastTask(r, w) = NoTask
    BY <2>2, LastTaskIs
  <2> QED BY <2>1, <2>3
<1>2. CASE \E x \in 1 .. v : s[x] \in Task
  <2>1. PICK x \in 1 .. v : /\ LastTask(s, v) = s[x] /\ s[x] \in Task
                            /\ \A y \in x + 1 .. v : s[y] \notin Task
    BY <1>2, LastTaskIs
  <2>2. x \in 1 .. w /\ r[x] = s[x]
    BY <2>1
  <2>3. PICK z \in 1 .. w : /\ LastTask(r, w) = r[z] /\ r[z] \in Task
                            /\ \A y \in z + 1 .. w : r[y] \notin Task
    BY <2>1, <2>2, LastTaskIs
  <2>4. z \in 1 .. v
    <3>1. z \notin v + 1 .. w
      BY <2>3
    <3> QED BY <3>1
  <2>5. s[z] \in Task /\ r[z] = s[z]
    BY <2>3, <2>4
  <2>6. z \notin x + 1 .. v /\ x \notin z + 1 .. w
    BY <2>1, <2>2, <2>3, <2>5
  <2>7. z = x
    BY <2>1, <2>2, <2>4, <2>6
  <2> QED BY <2>1, <2>2, <2>3, <2>7
<1> QED BY <1>1, <1>2

\* A task that generates the last version is the last.
LEMMA LastTaskGenerates ==
    ASSUME NEW s, NEW v \in Nat, v # 0, s[v] \in Task
    PROVE  LastTask(s, v) = s[v]
<1>1. v \in 1 .. v
  OBVIOUS
<1>2. PICK w \in 1 .. v : /\ LastTask(s, v) = s[w] /\ s[w] \in Task
                          /\ \A x \in w + 1 .. v : s[x] \notin Task
  BY <1>1, LastTaskIs
<1>3. v \notin w + 1 .. v
  BY <1>2
<1>4. w = v
  BY <1>2, <1>3
<1> QED BY <1>2, <1>4

-----------------------------------------------------------------------------
(* What the Task Analyser knows of the last writer.                        *)

\* The last task that wrote the current version of d, or one before it.
Current(d) == LastTask(authors[d], version[d])

\* The last writer is known, or whoever made it forgotten waits for its end.
KnownWriter(d) ==
    /\ writers[d] \in {Current(d), NoTask}
    /\ writers[d] = NoTask /\ Current(d) # NoTask =>
          Finished(Current(d)) \/ waited[Current(d)] # {}

StatusInv == \A t \in Task : status[t] = "FINISHED" => Finished(t)

WritersKnown ==
    /\ PlaceInv /\ OrderInv /\ AuthorInv /\ WriterInv
    /\ \A a \in Apps : CallInv(a)
    /\ StatusInv
    /\ \A d \in Data : KnownWriter(d)

\* The last writer is a task, or there is none.
LEMMA CurrentTyped ==
    ASSUME Typed, NEW d \in Data
    PROVE  Current(d) \in Task \cup {NoTask} /\ NoTask \notin Task
<1>1. version[d] \in Nat
  BY DEF Typed
<1>2. NoTask \notin Task
  BY DEF NoTask, Task
<1> QED BY <1>1, <1>2, LastTaskIs DEF Current

\* With one execution for each task, a task whose status is FINISHED has finished.
LEMMA StatusStays ==
    ASSUME Copies = {1}, PlaceInv, StatusInv, [Next]_vars
    PROVE  StatusInv'
<1>1. Base /\ ExecutionsTyped
  BY DEF PlaceInv, TypeInv, GraphInv
<1>2. ASSUME NEW t \in Task, status'[t] = status[t] PROVE status'[t] = "FINISHED" => Finished(t)'
  BY <1>2, FinishedStays DEF StatusInv
<1>3. CASE TakeRequest
  <2>1. PICK u : u = Head(tdQueue)
    OBVIOUS
  <2>2. status' = [status EXCEPT ![u] = "TO_EXECUTE"]
    BY <1>3, <2>1 DEF TakeRequest
  <2>3. ASSUME NEW t \in Task PROVE status'[t] = status[t] \/ status'[t] # "FINISHED"
    <3>1. CASE t = u
      BY <2>2, <3>1
    <3>2. CASE t # u
      BY <2>2, <3>2
    <3> QED BY <3>1, <3>2
  <2> QED BY <1>2, <2>3 DEF StatusInv
<1>4. CASE \E u \in Task : \E i \in DOMAIN exec[u] : Complete(u, i)
  <2>1. PICK u \in Task : \E i \in DOMAIN exec[u] : Complete(u, i)
    BY <1>4
  <2>2. PICK i \in DOMAIN exec[u] : Complete(u, i)
    BY <2>1
  <2>3. /\ exec[u] \in Seq(Execution) /\ exec[u] # << >> /\ CopyPlace(u)
    BY <1>1, <2>2 DEF ExecutionsTyped, PlaceInv
  <2>4. u \in Created /\ tasks[u].copies = 1
    <3>1. u \in Created
      BY <2>3 DEF CopyPlace, InGraph
    <3>2. tasks[u] \in TaskRecord
      BY <1>1, <3>1 DEF Base, Typed, Created
    <3> QED BY <3>1, <3>2 DEF TaskRecord
  <2>5. Len(exec[u]) = 1 /\ DOMAIN exec[u] = {1} /\ i = 1
    <3>1. PICK n : n = Len(exec[u])
      OBVIOUS
    <3>2. n \in Nat \ {0} /\ DOMAIN exec[u] = 1 .. n
      BY <2>3, <3>1
    <3>3. n <= 1
      BY <2>3, <2>4, <3>1 DEF CopyPlace
    <3>4. n = 1 /\ 1 .. n = {1}
      BY <3>2, <3>3
    <3> QED BY <2>2, <3>1, <3>2, <3>4
  <2>6. Len(exec'[u]) = 1 /\ DOMAIN exec'[u] = {1} /\ exec'[u][1].state = "done"
    <3>1. Len(exec'[u]) = Len(exec[u]) /\ DOMAIN exec'[u] = DOMAIN exec[u] /\ exec'[u][i].state = "done"
      BY <1>1, <2>2, CompleteMoves
    <3> QED BY <2>5, <3>1
  <2>7. u \in Created' /\ tasks'[u] = tasks[u]
    BY <1>1, <2>4, TasksKept
  <2>8. Finished(u)'
    BY <2>4, <2>6, <2>7 DEF Finished
  <2>9. \A t \in Task : t # u => status'[t] = status[t]
    BY <2>2 DEF Complete
  <2> QED BY <1>2, <2>8, <2>9 DEF StatusInv
<1>5. ASSUME status' = status PROVE StatusInv'
  BY <1>2, <1>5 DEF StatusInv
<1>6. CASE \E a \in Apps : \/ MainStep(a)
                           \/ \E access \in MainAccesses : MainAccess(a, access)
                           \/ CallBarrier(a)
                           \/ CallNoMoreTasks(a)
                           \/ \E params \in Signatures, copies \in Copies : NewTask(a, params, copies)
  BY <1>5, <1>6 DEF MainStep, Registration, WaitReturns, BarrierReturns, NoMoreTasksReturns, Resume, MainAccess,
                    CallBarrier, CallNoMoreTasks, NewTask, taskVars
<1>7. CASE Serve
  BY <1>5, <1>7 DEF Serve, ServeAnalyse, ServeTaskEnd, ServeRegister, ServeWaitForTask, ServeBarrier, ServeEndOfApp,
                    ProcessTask, EndTask, RegisterAccess, FindWaitedTask, Barrier, NoMoreTasks, taskVars
<1>8. CASE \/ HasNext \/ EndOfPredecessors \/ NextPredecessor \/ DropRequest \/ UNCHANGED vars
           \/ \E t \in Task : \E i \in DOMAIN exec[t] : Launch(t, i)
  BY <1>5, <1>8 DEF HasNext, EndOfPredecessors, NextPredecessor, DropRequest, Launch, taskVars, vars
<1> QED BY <1>3, <1>4, <1>6, <1>7, <1>8 DEF Next, DispatcherStep, LaunchExecution, CompleteExecution

\* Who waits for a task waits until it has finished.
LEMMA WaitedSteps ==
    ASSUME PlaceInv, [Next]_vars, NEW t \in Task
    PROVE  waited[t] \subseteq waited'[t] \/ Finished(t)
<1>1. Base /\ Typed
  BY DEF PlaceInv, TypeInv, GraphInv, Base
<1>2. CASE ServeTaskEnd
  <2>1. PICK u : u = Head(apQueue).task
    OBVIOUS
  <2>2. Serving("TASK_END") /\ EndTask(u)
    BY <1>2, <2>1 DEF ServeTaskEnd
  <2>3. u \in Task /\ Queued(TaskEnd(u))
    <3>1. Head(apQueue) \in Request /\ Head(apQueue).type = "TASK_END" /\ Queued(Head(apQueue))
      BY <1>1, <2>2, RequestServed
    <3> QED BY <2>1, <3>1, RequestKinds
  <2>4. waited' = waited \/ (IsFree(u) /\ waited' = [waited EXCEPT ![u] = {}])
    BY <2>2 DEF EndTask, analyserVars
  <2>5. exec[u] # << >>
    BY <2>3 DEF PlaceInv, CopyPlace
  <2>6. IsFree(u) => Finished(u)
    BY <2>3, <2>5, CountedOut
  <2>7. t # u /\ waited' = [waited EXCEPT ![u] = {}] => waited'[t] = waited[t]
    OBVIOUS
  <2> QED BY <2>4, <2>6, <2>7
<1>3. CASE ServeWaitForTask
  <2>1. waited' = waited \/ \E w, a : waited' = [waited EXCEPT ![w] = @ \cup {a}]
    BY <1>3 DEF ServeWaitForTask, FindWaitedTask
  <2>2. ASSUME NEW w, NEW a, waited' = [waited EXCEPT ![w] = @ \cup {a}]
        PROVE  waited[t] \subseteq waited'[t]
    <3>1. waited \in [Task -> SUBSET Apps]
      BY <1>1 DEF Typed
    <3> QED BY <2>2, <3>1
  <2> QED BY <2>1, <2>2
<1>4. CASE \E a \in Apps : \/ MainStep(a)
                           \/ \E access \in MainAccesses : MainAccess(a, access)
                           \/ CallBarrier(a)
                           \/ CallNoMoreTasks(a)
                           \/ \E params \in Signatures, copies \in Copies : NewTask(a, params, copies)
  BY <1>4 DEF MainStep, Registration, WaitReturns, BarrierReturns, NoMoreTasksReturns, Resume, MainAccess,
              CallBarrier, CallNoMoreTasks, NewTask, analyserVars
<1>5. CASE ServeAnalyse \/ ServeRegister \/ ServeBarrier \/ ServeEndOfApp
  BY <1>5 DEF ServeAnalyse, ServeRegister, ServeBarrier, ServeEndOfApp,
              ProcessTask, RegisterAccess, Barrier, NoMoreTasks
<1>6. CASE \/ DispatcherStep \/ UNCHANGED vars
           \/ \E u \in Task : \E i \in DOMAIN exec[u] : LaunchExecution(u, i) \/ CompleteExecution(u, i)
  BY <1>6 DEF DispatcherStep, TakeRequest, HasNext, EndOfPredecessors, NextPredecessor, DropRequest, LaunchExecution,
              Launch, CompleteExecution, Complete, analyserVars, vars
<1> QED BY <1>2, <1>3, <1>4, <1>5, <1>6 DEF Next, Serve

\* The last writer does not change while no task writes.
LEMMA CurrentStays ==
    ASSUME Typed, Typed', AuthorsKept, WriterInv, NEW d \in Data, version[d] <= version'[d],
           \A k \in version[d] + 1 .. version'[d] : authors'[d][k] \notin Task
    PROVE  Current(d)' = Current(d)
<1>1. version[d] \in Nat /\ version'[d] \in Nat /\ version[d] <= Len(authors[d])
  BY DEF Typed, WriterInv, WrittenLast
<1>2. Len(authors[d]) \in Nat /\ \A k \in 1 .. Len(authors[d]) : authors'[d][k] = authors[d][k]
  BY DEF AuthorsKept
<1>3. \A k \in 1 .. version[d] : authors'[d][k] = authors[d][k]
  <2> SUFFICES ASSUME NEW k \in 1 .. version[d] PROVE k \in 1 .. Len(authors[d])
    BY <1>2
  <2> QED BY <1>1, <1>2
<1>4. PICK s, r, v, w : s = authors[d] /\ r = authors'[d] /\ v = version[d] /\ w = version'[d]
  OBVIOUS
<1>5. /\ v \in Nat /\ w \in Nat /\ v <= w
      /\ \A x \in 1 .. v : r[x] = s[x]
      /\ \A x \in v + 1 .. w : r[x] \notin Task
  BY <1>1, <1>3, <1>4
<1>6. LastTask(r, w) = LastTask(s, v)
  BY <1>5, SameLastTask
<1> QED BY <1>4, <1>6 DEF Current

\* Nor does what is known of it.
LEMMA KnownStays ==
    ASSUME PlaceInv, [Next]_vars, NEW d \in Data, KnownWriter(d), Current(d)' = Current(d),
           writers'[d] = writers[d] \/ (writers'[d] = NoTask /\
               (Finished(Current(d)) \/ (Current(d) \in Task /\ waited'[Current(d)] # {})))
    PROVE  KnownWriter(d)'
<1>1. Typed
  BY DEF PlaceInv, TypeInv, GraphInv, Base
<1>2. PICK t : t = Current(d)
  OBVIOUS
<1>3. writers'[d] \in {t, NoTask}
  BY <1>2 DEF KnownWriter
<1>4. ASSUME writers'[d] = NoTask, t # NoTask PROVE Finished(t)' \/ waited'[t] # {}
  <2>1. t \in Task
    BY <1>1, <1>2, <1>4, CurrentTyped
  <2>2. Finished(t) => Finished(t)'
    BY <2>1, FinishedStays
  <2>3. waited[t] \subseteq waited'[t] \/ Finished(t)
    BY <2>1, WaitedSteps
  <2>4. Finished(t) \/ waited[t] # {} \/ waited'[t] # {}
    BY <1>2, <1>4 DEF KnownWriter
  <2> QED BY <2>2, <2>3, <2>4
<1>5. Current(d)' = t
  BY <1>2
<1> QED BY <1>3, <1>4, <1>5 DEF KnownWriter

\* A request that writes nothing, or that of a program, adds no task to the authors.
LEMMA NoTaskWrites ==
    ASSUME Typed, version' \in [Data -> Nat], NEW d \in Data, NEW r, Makes(version, version', r),
           AuthorOf(r) \notin Task \/ version'[d] <= RegisteredIn(version, d)
    PROVE  \A k \in version[d] + 1 .. version'[d] : authors[d][k] \notin Task
<1> SUFFICES ASSUME NEW k \in version[d] + 1 .. version'[d] PROVE authors[d][k] \notin Task
  OBVIOUS
<1>1. version[d] \in Nat /\ version'[d] \in Nat /\ k \in 1 .. version'[d] /\ version[d] < k /\ k \in Nat
  BY DEF Typed
<1>2. CASE RegisteredIn(version, d) < k
  <2>1. ~(version'[d] <= RegisteredIn(version, d))
    BY <1>1, <1>2 DEF RegisteredIn
  <2>2. authors[d][k] = AuthorOf(r)
    BY <1>1, <1>2 DEF Makes
  <2> QED BY <2>1, <2>2
<1>3. CASE ~(RegisteredIn(version, d) < k)
  <2>1. version[d] = 0 /\ k = 1 /\ version'[d] # 0
    BY <1>1, <1>3 DEF RegisteredIn
  <2>2. authors[d][1] = NoTask
    BY <2>1 DEF Makes
  <2> QED BY <2>1, <2>2 DEF NoTask, Task
<1> QED BY <1>2, <1>3

\* Every step keeps what is known of the last writers.
LEMMA KnownWritersStay ==
    ASSUME WritersKnown, [Next]_vars
    PROVE  \A d \in Data : KnownWriter(d)'
<1>1. /\ Base /\ Typed /\ Typed' /\ AuthorsKept /\ PlaceInv /\ OrderInv /\ WriterInv /\ StatusInv
      /\ \A d \in Data : KnownWriter(d)
  <2>1. Base' /\ AuthorsKept
    BY BaseStays, AuthorsStay DEF WritersKnown, OrderInv
  <2> QED BY <2>1 DEF WritersKnown, OrderInv, Base
<1>2. ASSUME NEW d \in Data, version'[d] = version[d] PROVE Current(d)' = Current(d)
  <2>1. version[d] \in Nat
    BY <1>1 DEF Typed
  <2>2. version[d] <= version'[d] /\ version[d] + 1 .. version'[d] = {}
    BY <1>2, <2>1
  <2> QED BY <1>1, <2>2, CurrentStays
<1>3. ASSUME NEW d \in Data, NEW r, Makes(version, version', r), authors' = authors,
             AuthorOf(r) \notin Task \/ version'[d] <= RegisteredIn(version, d), version[d] <= version'[d],
             writers'[d] = writers[d]
      PROVE  KnownWriter(d)'
  <2>1. version' \in [Data -> Nat]
    BY <1>1 DEF Typed
  <2>2. \A k \in version[d] + 1 .. version'[d] : authors[d][k] \notin Task
    BY <1>1, <1>3, <2>1, NoTaskWrites
  <2>3. Current(d)' = Current(d)
    BY <1>1, <1>3, <2>2, CurrentStays
  <2> QED BY <1>1, <1>3, <2>3, KnownStays
<1>4. CASE UNCHANGED <<version, writers>>
  <2> SUFFICES ASSUME NEW d \in Data PROVE KnownWriter(d)'
    OBVIOUS
  <2>1. Current(d)' = Current(d)
    BY <1>2, <1>4
  <2> QED BY <1>1, <1>4, <2>1, KnownStays
<1>5. CASE ServeAnalyse
  <2>1. PICK t : t = Head(apQueue).task
    OBVIOUS
  <2>2. /\ t \in Task /\ tasks[t] \in TaskRecord /\ version' = AfterTask(version, tasks[t].params)
        /\ writers' = RegisterOutputValues(t) /\ Makes(version, version', Analyse(t)) /\ authors' = authors
    BY <1>1, <1>5, <2>1, AnalysisMakes
  <2>3. tasks[t].params \in Seq(Parameter) /\ AuthorOf(Analyse(t)) = t
    BY <2>2 DEF TaskRecord, AuthorOf, Analyse
  <2> SUFFICES ASSUME NEW d \in Data PROVE KnownWriter(d)'
    OBVIOUS
  <2>4. CASE \E i \in DOMAIN tasks[t].params : tasks[t].params[i].datum = d /\ tasks[t].params[i].mode # "R"
    <3>1. writers'[d] = t
      BY <2>2, <2>4 DEF RegisterOutputValues
    <3>2. version'[d] > RegisteredIn(version, d)
      BY <1>1, <2>2, <2>3, <2>4, TaskWrites
    <3>3. version'[d] \in 1 .. Len(authors[d]) /\ authors[d][version'[d]] = t
      BY <1>1, <2>2, <2>3, <3>2, Written DEF Typed
    <3>4. PICK s, v : s = authors'[d] /\ v = version'[d]
      OBVIOUS
    <3>5. v \in Nat /\ v # 0 /\ s[v] = t
      BY <1>1, <2>2, <3>3, <3>4 DEF Typed
    <3>6. LastTask(s, v) = t
      BY <2>2, <3>5, LastTaskGenerates
    <3>7. Current(d)' = t
      BY <3>4, <3>6 DEF Current
    <3>8. t # NoTask
      BY <2>2 DEF Task, NoTask
    <3> QED BY <3>1, <3>7, <3>8 DEF KnownWriter
  <2>5. CASE ~\E i \in DOMAIN tasks[t].params : tasks[t].params[i].datum = d /\ tasks[t].params[i].mode # "R"
    <3>1. writers'[d] = writers[d]
      BY <2>2, <2>5 DEF RegisterOutputValues
    <3>2. version'[d] \in {version[d], RegisteredIn(version, d)}
      BY <1>1, <2>2, <2>3, <2>5, TaskWrites
    <3>3. version[d] \in Nat
      BY <1>1 DEF Typed
    <3>4. version'[d] <= RegisteredIn(version, d) /\ version[d] <= version'[d]
      BY <3>2, <3>3 DEF RegisteredIn
    <3> QED BY <1>3, <2>2, <3>1, <3>4
  <2> QED BY <2>4, <2>5
<1>6. CASE ServeRegister
  <2>1. PICK a, access : a = Head(apQueue).app /\ access = main[a].access
    OBVIOUS
  <2>2. /\ a \in Apps /\ access \in MainAccesses /\ version' = AfterAccess(version, access)
        /\ Makes(version, version', Register(a)) /\ UNCHANGED <<authors, writers>>
    BY <1>1, <1>6, <2>1, RegistrationMakes
  <2>3. AuthorOf(Register(a)) \notin Task
    BY <2>2, ProgramsAssumption DEF AuthorOf, Register
  <2> SUFFICES ASSUME NEW d \in Data PROVE KnownWriter(d)'
    OBVIOUS
  <2>4. version[d] \in Nat /\ version \in [Data -> Nat]
    BY <1>1 DEF Typed
  <2>5. version'[d] \in {version[d], RegisteredIn(version, d), RegisteredIn(version, d) + 1}
    BY <2>2, <2>4 DEF AfterAccess
  <2>6. version[d] <= version'[d]
    BY <2>4, <2>5 DEF RegisteredIn
  <2> QED BY <1>3, <2>2, <2>3, <2>6
<1>7. CASE ServeWaitForTask
  <2>1. PICK a, access : a = Head(apQueue).app /\ access = main[a].access
    OBVIOUS
  <2>2. FindWaitedTask(a, access.datum, WaitMode(access))
    BY <1>7, <2>1 DEF ServeWaitForTask
  <2> SUFFICES ASSUME NEW d \in Data PROVE KnownWriter(d)'
    OBVIOUS
  <2>3. Current(d)' = Current(d) /\ KnownWriter(d) /\ writers \in [Data -> Task \cup {NoTask}]
        /\ waited \in [Task -> SUBSET Apps]
    BY <1>1, <1>2, <2>2 DEF FindWaitedTask, Typed
  <2>4. CASE writers'[d] = writers[d]
    BY <1>1, <2>3, <2>4, KnownStays
  <2>5. CASE writers'[d] # writers[d]
    <3>1. d = access.datum /\ writers'[d] = NoTask /\ writers[d] # NoTask
      BY <2>2, <2>3, <2>5 DEF FindWaitedTask
    <3>2. writers[d] = Current(d) /\ Current(d) \in Task
      BY <2>3, <3>1 DEF KnownWriter
    <3>3. status[Current(d)] = "FINISHED" \/ waited' = [waited EXCEPT ![Current(d)] = @ \cup {a}]
      BY <2>2, <3>1, <3>2 DEF FindWaitedTask
    <3>4. Finished(Current(d)) \/ waited'[Current(d)] # {}
      BY <1>1, <2>3, <3>2, <3>3 DEF StatusInv
    <3> QED BY <1>1, <2>3, <3>1, <3>2, <3>4, KnownStays
  <2> QED BY <2>4, <2>5
<1> QED BY <1>4, <1>5, <1>6, <1>7, RegistrySteps

-----------------------------------------------------------------------------
(* A program that is alone waits for the last writer of what it registered. *)

\* The last task that wrote what the program reads.
Awaited(a) == LastTask(authors[main[a].in[1]], main[a].in[2])

SeesInv(a) ==
    /\ main[a].call = "wait" => main[a].access.mode # "W"
    /\ Synchronised(a) /\ main[a].access.mode # "W" =>
          /\ main[a].in[1] = main[a].access.datum /\ main[a].in[1] \in Data
          /\ main[a].in[2] \in 1 .. Len(authors[main[a].in[1]])
          /\ Asks(a) => Awaited(a) = Current(main[a].in[1])
          /\ \A t \in Task : a \in waited[t] => t = Awaited(a)
          /\ main[a].call = "wait" /\ a \in permits /\ Awaited(a) # NoTask => Finished(Awaited(a))

\* A program whose access is not registered waits for nobody.
LEMMA NotSynchronised ==
    ASSUME NEW a, main'[a].call # "wait", main'[a].call = "register" => a \notin permits'
    PROVE  SeesInv(a)'
BY DEF SeesInv, Synchronised

\* What is awaited is settled when the access is registered.
LEMMA AwaitedStays ==
    ASSUME Typed, AuthorsKept, NEW a, main'[a].in = main[a].in, main[a].in[1] \in Data,
           main[a].in[2] \in 1 .. Len(authors[main[a].in[1]])
    PROVE  /\ Awaited(a)' = Awaited(a) /\ Awaited(a) \in Task \cup {NoTask}
           /\ main[a].in[2] \in 1 .. Len(authors'[main[a].in[1]])
<1>1. PICK d, v : d = main[a].in[1] /\ v = main[a].in[2]
  OBVIOUS
<1>2. PICK s, r : s = authors[d] /\ r = authors'[d]
  OBVIOUS
<1>3. /\ Len(s) \in Nat /\ Len(r) \in Nat /\ Len(s) <= Len(r)
      /\ \A k \in 1 .. Len(s) : r[k] = s[k]
  BY <1>1, <1>2 DEF AuthorsKept
<1>4. v \in 1 .. Len(s)
  BY <1>1, <1>2
<1>5. v \in Nat /\ v <= v /\ v \in 1 .. Len(r)
  BY <1>3, <1>4
<1>6. \A x \in 1 .. v : r[x] = s[x]
  <2> SUFFICES ASSUME NEW x \in 1 .. v PROVE x \in 1 .. Len(s)
    BY <1>3
  <2> QED BY <1>3, <1>4
<1>7. \A x \in v + 1 .. v : r[x] \notin Task
  BY <1>5
<1>8. LastTask(r, v) = LastTask(s, v)
  BY <1>5, <1>6, <1>7, SameLastTask
<1>9. LastTask(s, v) \in Task \cup {NoTask}
  BY <1>5, LastTaskIs
<1> QED BY <1>1, <1>2, <1>5, <1>8, <1>9 DEF Awaited

\* What the steps that are not of its call leave of a synchronisation.
LEMMA SeesStays ==
    ASSUME WritersKnown, [Next]_vars, NEW a \in Apps, SeesInv(a), main' = main, version' = version,
           Asks(a)' => Asks(a), \A t \in Task : a \in waited'[t] => a \in waited[t],
           a \in permits' => \/ a \in permits
                             \/ main[a].call \notin {"register", "wait"}
                             \/ \E t \in Task : a \in waited[t] /\ Finished(t)
    PROVE  SeesInv(a)'
<1>1. Base /\ Typed /\ Typed' /\ AuthorsKept /\ PlaceInv /\ OneCall(a) /\ WriterInv
  <2>1. Base' /\ AuthorsKept
    BY BaseStays, AuthorsStay DEF WritersKnown, OrderInv
  <2> QED BY <2>1 DEF WritersKnown, OrderInv, Base
<1>2. Synchronised(a)' => Synchronised(a)
  BY <1>1 DEF Synchronised, OneCall
<1> SUFFICES ASSUME Synchronised(a)', main[a].access.mode # "W"
             PROVE  SeesInv(a)'
  BY DEF SeesInv
<1>3. PICK d : d = main[a].in[1]
  OBVIOUS
<1>4. /\ d = main[a].access.datum /\ d \in Data /\ main[a].in[2] \in 1 .. Len(authors[d])
      /\ Asks(a) => Awaited(a) = Current(d)
      /\ \A t \in Task : a \in waited[t] => t = Awaited(a)
      /\ main[a].call = "wait" /\ a \in permits /\ Awaited(a) # NoTask => Finished(Awaited(a))
  BY <1>2, <1>3 DEF SeesInv
<1>5. /\ Awaited(a)' = Awaited(a) /\ Awaited(a) \in Task \cup {NoTask}
      /\ main[a].in[2] \in 1 .. Len(authors'[d])
  BY <1>1, <1>3, <1>4, AwaitedStays
<1>6. Current(d)' = Current(d)
  <2>1. version[d] \in Nat
    BY <1>1, <1>4 DEF Typed
  <2>2. version[d] <= version'[d] /\ version[d] + 1 .. version'[d] = {}
    BY <2>1
  <2> QED BY <1>1, <1>4, <2>2, CurrentStays
<1>7. ASSUME main[a].call = "wait", a \in permits', Awaited(a) # NoTask PROVE Finished(Awaited(a))'
  <2>1. Finished(Awaited(a))
    BY <1>4, <1>7
  <2> QED BY <1>1, <1>5, <1>7, <2>1, FinishedStays
<1>8. Asks(a)' => Awaited(a)' = Current(d)'
  BY <1>4, <1>5, <1>6
<1>9. \A t \in Task : a \in waited'[t] => t = Awaited(a)'
  BY <1>4, <1>5
<1> QED BY <1>3, <1>4, <1>5, <1>7, <1>8, <1>9 DEF SeesInv

\* The calls of the program: an access that is registered is asked for next.
LEMMA ProgramSees ==
    ASSUME OneProgram, Base, Base', NEW a \in Apps, SeesInv(a), NEW b \in Apps,
           \/ MainStep(b)
           \/ \E access \in MainAccesses : MainAccess(b, access)
           \/ CallBarrier(b)
           \/ CallNoMoreTasks(b)
           \/ \E params \in Signatures, copies \in Copies : NewTask(b, params, copies)
    PROVE  SeesInv(a)'
<1>1. b = a
  BY DEF OneProgram
<1>2. main \in [Apps -> ProgramRecord] /\ OneCall(a) /\ OneCall(a)'
  BY DEF Base, Typed
<1>3. CASE \/ WaitReturns(a) \/ BarrierReturns(a) \/ NoMoreTasksReturns(a)
           \/ (Registration(a) /\ main[a].access.mode = "W")
           \/ CallBarrier(a)
           \/ CallNoMoreTasks(a)
           \/ \E params \in Signatures, copies \in Copies : NewTask(a, params, copies)
  <2>1. main'[a].call \notin {"register", "wait"}
    <3>1. \/ main' = main /\ main[a].call = "running"
          \/ main' = [main EXCEPT ![a] = [call |-> "running", access |-> NoAccess, in |-> NoVersion]]
          \/ \E call \in {"running", "ended", "barrier", "noMoreTasks"} : main' = [main EXCEPT ![a].call = call]
      BY <1>3 DEF WaitReturns, BarrierReturns, NoMoreTasksReturns, Registration, CallBarrier,
                  CallNoMoreTasks, NewTask, Stop, Running
    <3> QED BY <1>2, <3>1 DEF ProgramRecord
  <2> QED BY <2>1, NotSynchronised
<1>4. CASE \E access \in MainAccesses : MainAccess(a, access)
  <2>1. PICK access : main' = [main EXCEPT ![a].call = "register", ![a].access = access]
    BY <1>4 DEF MainAccess
  <2>2. main[a].call = "running" /\ permits' = permits
    BY <1>4 DEF MainAccess, Running, analyserVars
  <2>3. main'[a].call = "register" /\ a \notin permits'
    BY <1>2, <2>1, <2>2 DEF ProgramRecord, OneCall
  <2> QED BY <2>3, NotSynchronised
<1>5. CASE Registration(a) /\ main[a].access.mode # "W"
  <2>1. /\ main[a].call = "register" /\ a \in permits /\ permits' = permits \ {a}
        /\ main'[a].call = "wait" /\ main'[a].access = main[a].access /\ main'[a].in = main[a].in
        /\ UNCHANGED <<version, authors, waited>>
    BY <1>2, <1>5 DEF Registration, Resume, Stop, historyVars, ProgramRecord
  <2>2. Synchronised(a) /\ Asks(a)
    BY <2>1 DEF Synchronised, Asks
  <2>3. /\ main[a].in[1] = main[a].access.datum /\ main[a].in[1] \in Data
        /\ main[a].in[2] \in 1 .. Len(authors[main[a].in[1]])
        /\ Awaited(a) = Current(main[a].in[1])
    BY <1>5, <2>2 DEF SeesInv
  <2>4. Awaited(a)' = Awaited(a) /\ Current(main[a].in[1])' = Current(main'[a].in[1])
    BY <2>1 DEF Awaited, Current
  <2>5. \A t \in Task : a \notin waited'[t]
    BY <1>2, <2>1 DEF OneCall
  <2> QED BY <1>5, <2>1, <2>3, <2>4, <2>5 DEF SeesInv, Awaited, Current
<1> QED BY <1>1, <1>3, <1>4, <1>5 DEF MainStep

\* The registration gives the program the version whose last writer it will ask for.
LEMMA RegistrationSees ==
    ASSUME OneProgram, WritersKnown, [Next]_vars, NEW a \in Apps, SeesInv(a), ServeRegister
    PROVE  SeesInv(a)'
<1>1. Typed /\ Typed' /\ OneCall(a) /\ OrderInv /\ AuthorsKept /\ WriterInv
  <2>1. Base' /\ AuthorsKept
    BY BaseStays, AuthorsStay DEF WritersKnown, OrderInv
  <2> QED BY <2>1 DEF WritersKnown, OrderInv, Base
<1>2. PICK b, access, d : b = Head(apQueue).app /\ access = main[b].access /\ d = access.datum
  OBVIOUS
<1>3. /\ b \in Apps /\ access \in MainAccesses /\ version' = AfterAccess(version, access)
      /\ Makes(version, version', Register(b)) /\ UNCHANGED <<authors, waited>>
      /\ main[b].call = "register"
      /\ main' = [main EXCEPT ![b].in = IF access.mode = "W" THEN NoVersion ELSE <<d, Registered(d)>>]
  BY <1>1, <1>2, RegistrationMakes
<1>4. b = a
  BY <1>3 DEF OneProgram
<1>5. main'[a].call = "register" /\ main'[a].access = access
  <2>1. main \in [Apps -> ProgramRecord]
    BY <1>1 DEF Typed
  <2> QED BY <1>2, <1>3, <1>4, <2>1 DEF ProgramRecord
<1>6. CASE access.mode = "W"
  BY <1>5, <1>6 DEF SeesInv
<1>7. CASE access.mode # "W"
  <2>1. main'[a].in = <<d, Registered(d)>>
    <3>1. main \in [Apps -> ProgramRecord]
      BY <1>1 DEF Typed
    <3> QED BY <1>3, <1>4, <1>7, <3>1 DEF ProgramRecord
  <2>2. d \in Data /\ version[d] \in Nat /\ version \in [Data -> Nat] /\ version' \in [Data -> Nat]
    BY <1>1, <1>2, <1>3, MainAccessesAssumption DEF Typed
  <2>3. PICK v, w : v = Registered(d) /\ w = version'[d]
    OBVIOUS
  <2>4. v = RegisteredIn(version, d) /\ v \in Nat \ {0}
    BY <2>2, <2>3 DEF Registered, RegisteredIn
  <2>5. w \in {v, v + 1} /\ w \in Nat
    BY <1>2, <1>3, <2>2, <2>3, <2>4 DEF AfterAccess
  <2>6. w <= Len(authors[d]) /\ Len(authors[d]) \in Nat
    BY <1>1, <1>3, <2>2, <2>3 DEF Makes, AuthorsKept
  <2>7. v \in 1 .. Len(authors[d]) /\ v <= w
    BY <2>4, <2>5, <2>6
  <2>8. \A x \in v + 1 .. w : authors[d][x] \notin Task
    <3> SUFFICES ASSUME NEW x \in v + 1 .. w PROVE authors[d][x] \notin Task
      OBVIOUS
    <3>1. x \in 1 .. w /\ v < x
      BY <2>4, <2>5
    <3>2. authors[d][x] = AuthorOf(Register(a))
      BY <1>3, <1>4, <2>2, <2>3, <2>4, <3>1 DEF Makes
    <3> QED BY <3>2, ProgramsAssumption DEF AuthorOf, Register
  <2>9. PICK s : s = authors[d]
    OBVIOUS
  <2>10. LastTask(s, w) = LastTask(s, v)
    <3>1. \A x \in v + 1 .. w : s[x] \notin Task
      BY <2>8, <2>9
    <3>2. v \in Nat /\ w \in Nat /\ v <= w
      BY <2>4, <2>5, <2>7
    <3> QED BY <3>1, <3>2, SameLastTask
  <2>11. main'[a].in[1] = d /\ main'[a].in[2] = v
    BY <2>1, <2>3
  <2>12. Awaited(a)' = LastTask(s, v)
    BY <1>3, <2>9, <2>11 DEF Awaited
  <2>13. LastTask(authors'[d], version'[d]) = LastTask(s, w)
    BY <1>3, <2>3, <2>9
  <2>14. \A t \in Task : a \notin waited'[t]
    BY <1>1, <1>3, <1>4 DEF OneCall
  <2> QED BY <1>2, <1>3, <1>5, <2>2, <2>7, <2>10, <2>11, <2>12, <2>13, <2>14 DEF SeesInv, Current
<1> QED BY <1>6, <1>7

\* The program is told to go on when the last writer has finished, and waits for it if not.
LEMMA WaitSees ==
    ASSUME OneProgram, WritersKnown, [Next]_vars, NEW a \in Apps, SeesInv(a), ServeWaitForTask
    PROVE  SeesInv(a)'
<1>1. Base /\ Typed /\ OneCall(a) /\ PlaceInv /\ AuthorsKept /\ StatusInv
  <2>1. AuthorsKept
    BY AuthorsStay DEF WritersKnown, OrderInv
  <2> QED BY <2>1 DEF WritersKnown, OrderInv, Base
<1>2. PICK b, d : b = Head(apQueue).app /\ d = main[b].access.datum
  OBVIOUS
<1>3. Serving("WAIT_FOR_TASK") /\ FindWaitedTask(b, d, WaitMode(main[b].access)) /\ main' = main
  BY <1>2 DEF ServeWaitForTask
<1>4. b = a /\ main[a].call = "wait" /\ Queued(WaitForTask(a)) /\ ~Queued(WaitForTask(a))'
  <2>1. b \in Apps /\ main[b].call = "wait" /\ WaitForTask(b) \notin ToSet(apQueue')
    BY <1>1, <1>2, <1>3, ServedProgram
  <2>2. Head(apQueue) \in Request /\ Head(apQueue).type = "WAIT_FOR_TASK" /\ Queued(Head(apQueue))
    BY <1>1, <1>3, RequestServed
  <2>3. Head(apQueue) = WaitForTask(b)
    BY <1>2, <2>2, RequestKinds
  <2> QED BY <2>1, <2>2, <2>3 DEF OneProgram, Queued
<1>5. Synchronised(a) /\ Asks(a) /\ main[a].access.mode # "W" /\ ~Asks(a)'
  BY <1>3, <1>4 DEF Synchronised, Asks, SeesInv
<1>6. PICK u : u = Awaited(a)
  OBVIOUS
<1>7. /\ d = main[a].in[1] /\ d \in Data /\ main[a].in[2] \in 1 .. Len(authors[d])
      /\ u = Current(d)
  BY <1>2, <1>4, <1>5, <1>6 DEF SeesInv
<1>8. /\ Awaited(a)' = u /\ u \in Task \cup {NoTask}
      /\ main[a].in[2] \in 1 .. Len(authors'[d])
  <2>1. main'[a].in = main[a].in /\ main[a].in[1] \in Data /\ main[a].in[2] \in 1 .. Len(authors[main[a].in[1]])
    BY <1>3, <1>7
  <2> QED BY <1>1, <1>6, <1>7, <2>1, AwaitedStays
<1>9. writers[d] \in {u, NoTask} /\ (writers[d] = NoTask /\ u # NoTask => Finished(u) \/ waited[u] # {})
  BY <1>7 DEF WritersKnown, KnownWriter
<1>10. a \notin permits /\ \A t \in Task : waited[t] = {}
  <2>1. a \notin permits /\ \A t \in Task : a \notin waited[t]
    BY <1>1, <1>4 DEF OneCall, Asking
  <2>2. \A t \in Task : waited[t] \subseteq Apps
    BY <1>1 DEF Typed
  <2> QED BY <2>1, <2>2 DEF OneProgram
<1>11. \/ waited' = waited /\ (writers[d] = NoTask \/ status[writers[d]] = "FINISHED")
       \/ a \notin permits' /\ writers[d] # NoTask /\ waited' = [waited EXCEPT ![writers[d]] = @ \cup {a}]
  BY <1>3, <1>4, <1>10 DEF FindWaitedTask
<1>12. ASSUME u # NoTask, a \in permits' PROVE Finished(u)'
  <2>1. Finished(u)
    BY <1>1, <1>8, <1>9, <1>10, <1>11, <1>12 DEF StatusInv
  <2> QED BY <1>1, <1>8, <1>12, <2>1, FinishedStays
<1>13. ASSUME NEW t \in Task, a \in waited'[t] PROVE t = u
  BY <1>1, <1>9, <1>10, <1>11, <1>13 DEF Typed
<1> QED BY <1>2, <1>3, <1>4, <1>5, <1>7, <1>8, <1>12, <1>13 DEF SeesInv

\* Every step keeps what the program waits for.
LEMMA SeesStay ==
    ASSUME OneProgram, WritersKnown, [Next]_vars, NEW a \in Apps, SeesInv(a)
    PROVE  SeesInv(a)'
<1>1. Base /\ Base' /\ Typed /\ OrderInv /\ PlaceInv /\ OneCall(a) /\ CallInv(a)
  <2>1. Base'
    BY BaseStays DEF WritersKnown, OrderInv
  <2> QED BY <2>1 DEF WritersKnown, OrderInv, Base
<1>2. CASE \E b \in Apps : \/ MainStep(b)
                           \/ \E access \in MainAccesses : MainAccess(b, access)
                           \/ CallBarrier(b)
                           \/ CallNoMoreTasks(b)
                           \/ \E params \in Signatures, copies \in Copies : NewTask(b, params, copies)
  BY <1>1, <1>2, ProgramSees
<1>3. CASE ServeAnalyse
  <2>1. PICK t : t = Head(apQueue).task
    OBVIOUS
  <2>2. t \in Task /\ Head(apQueue) = Analyse(t) /\ UNCHANGED <<main, permits>>
    BY <1>1, <1>3, <2>1, AnalysisMakes
  <2>3. Queued(Analyse(t))
    BY <1>1, <1>3, <2>2, RequestServed DEF ServeAnalyse
  <2>4. ~Synchronised(a)
    BY <2>2, <2>3, <1>1 DEF CallInv
  <2> QED BY <2>2, <2>4, NotSynchronised DEF Synchronised
<1>4. CASE ServeTaskEnd
  <2>1. PICK t : t = Head(apQueue).task
    OBVIOUS
  <2>2. Serving("TASK_END") /\ EndTask(t) /\ main' = main /\ version' = version
    BY <1>4, <2>1 DEF ServeTaskEnd, EndTask, analyserVars
  <2>3. t \in Task /\ Queued(TaskEnd(t)) /\ \A q : Queued(q)' => Queued(q)
    <3>1. Head(apQueue) \in Request /\ Head(apQueue).type = "TASK_END" /\ Queued(Head(apQueue))
      BY <1>1, <2>2, RequestServed
    <3>2. \A q : Queued(q)' => Queued(q)
      BY <1>1, <2>2, RequestServed
    <3> QED BY <2>1, <3>1, <3>2, RequestKinds
  <2>4. \/ UNCHANGED <<waited, permits>>
        \/ /\ IsFree(t) /\ waited' = [waited EXCEPT ![t] = {}]
           /\ permits' = permits \cup (semaphore \ semaphore') \cup waited[t]
    BY <2>2 DEF EndTask, analyserVars
  <2>5. IsFree(t) => Finished(t)
    <3>1. exec[t] # << >>
      BY <1>1, <2>3 DEF PlaceInv, CopyPlace
    <3> QED BY <1>1, <2>3, <3>1, CountedOut
  <2>6. \A u \in Task : a \in waited'[u] => a \in waited[u]
    BY <1>1, <2>4 DEF Typed
  <2>7. a \in permits' => \/ a \in permits
                          \/ main[a].call \notin {"register", "wait"}
                          \/ \E u \in Task : a \in waited[u] /\ Finished(u)
    BY <1>1, <2>3, <2>4, <2>5 DEF OneCall
  <2>8. Asks(a)' => Asks(a)
    <3>1. a \in permits' /\ main[a].call = "register" => a \in permits
      BY <1>1, <2>3, <2>4 DEF OneCall
    <3> QED BY <2>2, <2>3, <3>1 DEF Asks
  <2> QED BY <2>2, <2>6, <2>7, <2>8, SeesStays
<1>5. CASE ServeRegister
  BY <1>5, RegistrationSees
<1>6. CASE ServeWaitForTask
  BY <1>6, WaitSees
<1>7. CASE ServeBarrier \/ ServeEndOfApp
  <2>1. PICK b : b = Head(apQueue).app
    OBVIOUS
  <2>2. main[b].call \in {"barrier", "noMoreTasks"} /\ b \in Apps
    BY <1>1, <1>7, <2>1, ServedProgram DEF ServeBarrier, ServeEndOfApp
  <2>3. b = a /\ main' = main
    BY <1>7, <2>2 DEF OneProgram, ServeBarrier, ServeEndOfApp
  <2>4. main'[a].call \notin {"wait", "register"}
    BY <2>2, <2>3
  <2> QED BY <2>4, NotSynchronised
<1>8. ASSUME UNCHANGED <<main, version, permits, waited>>,
             apQueue' = apQueue \/ \E t \in Task : apQueue' = Append(apQueue, TaskEnd(t))
      PROVE  SeesInv(a)'
  <2>1. Queued(WaitForTask(a))' => Queued(WaitForTask(a))
    <3>1. CASE apQueue' = apQueue
      BY <3>1 DEF Queued
    <3>2. CASE \E t \in Task : apQueue' = Append(apQueue, TaskEnd(t))
      <4>1. PICK t \in Task : apQueue' = Append(apQueue, TaskEnd(t))
        BY <3>2
      <4>2. TaskEnd(t) \in Request
        BY RequestsAre
      <4>3. \A q : Queued(q)' <=> Queued(q) \/ q = TaskEnd(t)
        BY <1>1, <4>1, <4>2, RequestOffered
      <4> QED BY <4>3, RequestsDiffer
    <3> QED BY <1>8, <3>1, <3>2
  <2>2. Asks(a)' => Asks(a)
    BY <1>8, <2>1 DEF Asks
  <2> QED BY <1>8, <2>2, SeesStays
<1>9. CASE \/ DispatcherStep \/ UNCHANGED vars
           \/ \E t \in Task : \E i \in DOMAIN exec[t] : LaunchExecution(t, i) \/ CompleteExecution(t, i)
  BY <1>8, <1>9 DEF DispatcherStep, TakeRequest, HasNext, EndOfPredecessors, NextPredecessor, DropRequest,
            LaunchExecution, CompleteExecution, Launch, Complete, analyserVars, historyVars, vars
<1> QED BY <1>2, <1>3, <1>4, <1>5, <1>6, <1>7, <1>9 DEF Next, Serve

SeesAll == WritersKnown /\ \A a \in Apps : SeesInv(a)

\* The runtime starts with no writer.
LEMMA SeesHoldFirst == Init => SeesAll
<1> SUFFICES ASSUME Init PROVE SeesAll
  OBVIOUS
<1>1. OrderInv /\ PlaceInv /\ AuthorInv /\ \A a \in Apps : CallInv(a)
  BY OrderHoldsFirst, PlacesHoldFirst, AuthorsHoldFirst, CallsHoldFirst
<1>2. WriterInv
  BY <1>1 DEF Init, AnalyserInit, WriterInv, WrittenLast, OrderInv, Base, Typed
<1>3. StatusInv
  BY DEF Init, AnalyserInit, StatusInv
<1>4. ASSUME NEW d \in Data PROVE KnownWriter(d)
  <2>1. version[d] = 0 /\ writers[d] = NoTask
    BY DEF Init, AnalyserInit
  <2>2. PICK s : s = authors[d]
    OBVIOUS
  <2>3. LastTask(s, 0) = NoTask
    <3>1. 0 \in Nat /\ 1 .. 0 = {}
      OBVIOUS
    <3> QED BY <3>1, LastTaskIs
  <2> QED BY <2>1, <2>2, <2>3 DEF KnownWriter, Current
<1>5. \A a \in Apps : SeesInv(a)
  BY DEF Init, SeesInv, Synchronised
<1> QED BY <1>1, <1>2, <1>3, <1>4, <1>5 DEF SeesAll, WritersKnown

\* Every step keeps what is known of the writers, and what the programs wait for.
LEMMA SeesAllStay ==
    ASSUME OneProgram, Copies = {1}
    PROVE  SeesAll /\ [Next]_vars => SeesAll'
<1> SUFFICES ASSUME SeesAll, [Next]_vars PROVE SeesAll'
  OBVIOUS
<1>1. WritersKnown /\ PlaceInv /\ OrderInv /\ AuthorInv /\ WriterInv /\ StatusInv /\ \A a \in Apps : CallInv(a)
  BY DEF SeesAll, WritersKnown
<1>2. OrderInv' /\ PlaceInv'
  BY <1>1, OrderStays, PlacesStay
<1>3. AuthorInv' /\ WriterInv'
  BY <1>1, AuthorsStay, WritersStay DEF OrderInv
<1>4. \A a \in Apps : CallInv(a)'
  BY <1>1, CallsStay
<1>5. StatusInv' /\ \A d \in Data : KnownWriter(d)'
  BY <1>1, StatusStays, KnownWritersStay
<1>6. \A a \in Apps : SeesInv(a)'
  BY <1>1, SeesStay DEF SeesAll
<1> QED BY <1>2, <1>3, <1>4, <1>5, <1>6 DEF SeesAll, WritersKnown

\* The last writer a program awaits is the one the property speaks of.
LEMMA AwaitedIs ==
    ASSUME NEW a
    PROVE  WriterUpTo(main[a].in[1], main[a].in[2]) = Awaited(a)
BY DEF WriterUpTo, Awaited, LastTask

\* A program that is alone, with tasks that have one execution, fetches a datum only when
\* the last task that writes it has finished (AccessProcessor.mainAccessToFile and
\* mainAcessToObject, TaskAnalyser.findWaitedTask and endTask, in the order of the queue).
THEOREM MainSees ==
    ASSUME OneProgram, Copies = {1}
    PROVE  Spec => []MainSeesLastWriter
<1>1. Init => SeesAll
  BY SeesHoldFirst
<1>2. SeesAll /\ [Next]_vars => SeesAll'
  BY SeesAllStay
<1>3. SeesAll => MainSeesLastWriter
  <2> SUFFICES ASSUME SeesAll, NEW a \in Apps, main[a].call = "wait", a \in permits
               PROVE  Generated(main[a].in[1], main[a].in[2])
    BY DEF MainSeesLastWriter
  <2>1. Awaited(a) # NoTask => Finished(Awaited(a))
    BY DEF SeesAll, SeesInv, Synchronised
  <2> QED BY <2>1, AwaitedIs DEF Generated
<1> QED BY <1>1, <1>2, <1>3, PTL DEF Spec

-----------------------------------------------------------------------------
(* The graph of tasks the runtime implements, when tasks have one          *)
(* execution and programs are alone.                                       *)

\* The abstract state: what the mapping makes of the tasks and of the programs.
Owners == [t \in Created |-> tasks[t].app]
NeedsAll == [t \in Created |-> NeedsOf(t)]
Phases == [t \in Created |-> PhaseOf(t)]
Awaiting == [a \in Apps |-> AwaitedBy(a)]

GraphStep == [Graph!GraphNext]_(Graph!graphVars)

\* The abstract actions, as conditions on the abstract state.
LEMMA GraphActions ==
  /\ Graph!GraphInit <=> /\ Owners = << >> /\ NeedsAll = << >> /\ Phases = << >>
                         /\ Awaiting = [p \in Apps |-> {}]
  /\ \A p : Graph!Generate(p) <=> /\ Awaiting[p] = {}
                                  /\ Owners' = Append(Owners, p)
                                  /\ \E results \in SUBSET (DOMAIN Owners) :
                                        NeedsAll' = Append(NeedsAll, results)
                                  /\ Phases' = Append(Phases, "generated")
                                  /\ UNCHANGED Awaiting
  /\ \A t : Graph!Start(t) <=> /\ Phases[t] = "generated"
                               /\ \A n \in NeedsAll[t] : Phases[n] = "finished"
                               /\ Phases' = [Phases EXCEPT ![t] = "running"]
                               /\ UNCHANGED <<Owners, NeedsAll, Awaiting>>
  /\ \A t : Graph!Finish(t) <=> /\ Phases[t] = "running"
                                /\ Phases' = [Phases EXCEPT ![t] = "finished"]
                                /\ UNCHANGED <<Owners, NeedsAll, Awaiting>>
  /\ \A p : Graph!Synchronise(p) <=> /\ Awaiting[p] = {}
                                     /\ \E awaited \in SUBSET (DOMAIN Owners) :
                                           Awaiting' = [Awaiting EXCEPT ![p] = awaited]
                                     /\ UNCHANGED <<Owners, NeedsAll, Phases>>
  /\ \A p : Graph!GoOn(p) <=> /\ \A t \in Awaiting[p] : Phases[t] = "finished"
                              /\ Awaiting' = [Awaiting EXCEPT ![p] = {}]
                              /\ UNCHANGED <<Owners, NeedsAll, Phases>>
BY DEF Owners, NeedsAll, Phases, Awaiting, Graph!GraphInit, Graph!Generate, Graph!Start,
       Graph!Finish, Graph!Synchronise, Graph!GoOn

\* A step of the graph is one of these, or leaves the abstract state alone.
LEMMA GraphMakes ==
  /\ \A p \in Apps : Graph!Generate(p) \/ Graph!Synchronise(p) \/ Graph!GoOn(p) => GraphStep
  /\ \A t \in DOMAIN Owners : Graph!Start(t) \/ Graph!Finish(t) => GraphStep
  /\ UNCHANGED <<Owners, NeedsAll, Phases, Awaiting>> => GraphStep
<1>1. GraphStep <=> Graph!GraphNext \/ UNCHANGED Graph!graphVars
  BY DEF GraphStep
<1>2. UNCHANGED Graph!graphVars <=> UNCHANGED <<Owners, NeedsAll, Phases, Awaiting>>
  BY DEF Graph!graphVars, Owners, NeedsAll, Phases, Awaiting
<1>3. Graph!GraphNext <=> \/ \E p \in Apps : Graph!Generate(p) \/ Graph!Synchronise(p) \/ Graph!GoOn(p)
                          \/ \E t \in DOMAIN Owners : Graph!Start(t) \/ Graph!Finish(t)
  BY DEF Graph!GraphNext, Owners
<1>4. ASSUME NEW p \in Apps, Graph!Generate(p) \/ Graph!Synchronise(p) \/ Graph!GoOn(p)
      PROVE  GraphStep
  BY <1>1, <1>3, <1>4
<1>5. ASSUME NEW t \in DOMAIN Owners, Graph!Start(t) \/ Graph!Finish(t)
      PROVE  GraphStep
  BY <1>1, <1>3, <1>5
<1>6. UNCHANGED <<Owners, NeedsAll, Phases, Awaiting>> => GraphStep
  BY <1>1, <1>2
<1> QED BY <1>4, <1>5, <1>6

\* How far a task with one execution is, given its executions.
OnePhase(list) ==
    IF list = << >> \/ list[1].state \in {"new", "waiting"} THEN "generated"
    ELSE IF list[1].state = "running" THEN "running" ELSE "finished"
OnePhases == \A t \in Created : PhaseOf(t) = OnePhase(exec[t]) /\ (exec[t] # << >> => DOMAIN exec[t] = {1})

\* The phase of a task is that of its one execution.
LEMMA PhasesAre ==
    ASSUME Copies = {1}
    PROVE  PlaceInv => OnePhases
<1> SUFFICES ASSUME PlaceInv, NEW t \in Created
             PROVE  PhaseOf(t) = OnePhase(exec[t]) /\ (exec[t] # << >> => DOMAIN exec[t] = {1})
  BY DEF OnePhases
<1>1. Typed /\ ExecutionsTyped /\ t \in Task
  BY DEF PlaceInv, TypeInv, GraphInv, Base, Typed
<1>2. exec[t] \in Seq(Execution)
  BY <1>1 DEF ExecutionsTyped
<1>3. tasks[t].copies = 1
  <2>1. tasks[t] \in TaskRecord
    BY <1>1 DEF Typed, Created
  <2> QED BY <2>1 DEF TaskRecord
<1>4. PICK n : n = Len(exec[t])
  OBVIOUS
<1>5. n \in Nat /\ DOMAIN exec[t] = 1 .. n /\ (n = 0 <=> exec[t] = << >>)
  BY <1>2, <1>4
<1>6. exec[t] = << >> \/ n <= 1
  BY <1>1, <1>3, <1>4 DEF PlaceInv, CopyPlace
<1>7. exec[t] = << >> \/ (n = 1 /\ 1 .. n = {1})
  BY <1>5, <1>6
<1>8. CASE exec[t] = << >>
  <2>1. DOMAIN exec[t] = {} /\ Len(exec[t]) # 1
    BY <1>8
  <2> QED BY <1>3, <1>8, <2>1 DEF PhaseOf, OnePhase, Finished, Started
<1>9. CASE exec[t] # << >>
  <2>1. DOMAIN exec[t] = {1} /\ Len(exec[t]) = 1
    BY <1>4, <1>5, <1>7, <1>9
  <2>2. exec[t][1].state \in {"new", "waiting", "running", "done"}
    <3>1. exec[t][1] \in Execution
      BY <1>2, <2>1
    <3> QED BY <3>1 DEF Execution
  <2> QED BY <1>3, <1>9, <2>1, <2>2 DEF PhaseOf, OnePhase, Finished, Started
<1> QED BY <1>8, <1>9

\* So it is after a step.
LEMMA PhasesAreNext ==
    ASSUME Copies = {1}
    PROVE  (PlaceInv => OnePhases)'
BY PhasesAre, PTL

\* What is needed of the tasks, of the executions and of the programs.
RefInv == DependInv /\ SeesAll /\ BarrierInv

\* The runtime starts with no task and no call.
LEMMA RefinementHoldsFirst == Init => RefInv
BY DependsHoldFirst, SeesHoldFirst, BarrierHoldsFirst DEF RefInv

\* Every step keeps it.
LEMMA RefinementStays ==
    ASSUME Copies = {1}, OneReadEach, OneProgram
    PROVE  RefInv /\ [Next]_vars => RefInv'
<1> SUFFICES ASSUME RefInv, [Next]_vars
             PROVE  RefInv'
  OBVIOUS
<1>1. DependInv'
  BY DependsStay DEF RefInv
<1>2. SeesAll'
  BY SeesAllStay DEF RefInv
<1>3. BarrierInv'
  BY BarrierStays DEF RefInv
<1> QED BY <1>1, <1>2, <1>3 DEF RefInv

\* The steps that generate no task leave whose the tasks are, and what they need.
LEMMA SameTasks ==
    ASSUME RefInv, [Next]_vars, tasks' = tasks
    PROVE  UNCHANGED <<Owners, NeedsAll>> /\ Created' = Created
<1>1. Base /\ AuthorInv /\ Created' = Created
  BY DEF RefInv, DependInv, OrderInv, Created
<1>2. \A t \in Created : NeedsOf(t)' = NeedsOf(t)
  BY <1>1, NeedsStay
<1>3. Owners' = Owners
  BY <1>1 DEF Owners
<1>4. NeedsAll' = NeedsAll
  BY <1>1, <1>2 DEF NeedsAll
<1> QED BY <1>1, <1>3, <1>4

\* A step that moves the executions of one task, or of none, makes no other go on.
LEMMA OtherPhases ==
    ASSUME OnePhases, OnePhases', Created' = Created, NEW t,
           \A u \in Created : u # t => OnePhase(exec'[u]) = OnePhase(exec[u])
    PROVE  /\ t \in Created => /\ Phases[t] = OnePhase(exec[t])
                               /\ Phases' = [Phases EXCEPT ![t] = OnePhase(exec'[t])]
           /\ t \notin Created \/ OnePhase(exec'[t]) = OnePhase(exec[t]) => Phases' = Phases
<1>1. \A u \in Created : PhaseOf(u) = OnePhase(exec[u]) /\ PhaseOf(u)' = OnePhase(exec'[u])
  BY DEF OnePhases
<1>2. t \in Created => Phases[t] = OnePhase(exec[t])
  BY <1>1 DEF Phases
<1>3. ASSUME t \in Created
      PROVE  Phases' = [Phases EXCEPT ![t] = OnePhase(exec'[t])]
  BY <1>1, <1>3 DEF Phases
<1>4. ASSUME t \notin Created \/ OnePhase(exec'[t]) = OnePhase(exec[t])
      PROVE  Phases' = Phases
  BY <1>1, <1>4 DEF Phases
<1> QED BY <1>2, <1>3, <1>4

\* A program that stays in its call awaits what it awaited.
LEMMA StillAwaited ==
    ASSUME RefInv, [Next]_vars, tasks' = tasks, NEW a \in Apps,
           main'[a].call = main[a].call, main'[a].in = main[a].in \/ main[a].call # "wait"
    PROVE  AwaitedBy(a)' = AwaitedBy(a)
<1>1. CASE main[a].call = "wait"
  <2>1. Typed /\ AuthorsKept
    BY AuthorsStay DEF RefInv, DependInv, OrderInv, Base
  <2>2. main[a].in[1] \in Data /\ main[a].in[2] \in 1 .. Len(authors[main[a].in[1]])
    BY <1>1 DEF RefInv, SeesAll, SeesInv, Synchronised
  <2>3. Awaited(a)' = Awaited(a)
    BY <1>1, <2>1, <2>2, AwaitedStays
  <2> QED BY <1>1, <2>3 DEF AwaitedBy, Awaited, WriterUpTo, LastTask
<1>2. CASE main[a].call # "wait"
  BY <1>2 DEF AwaitedBy, Created
<1> QED BY <1>1, <1>2

\* When one program goes on or stops, the others await what they awaited.
LEMMA OthersAwait ==
    ASSUME RefInv, [Next]_vars, tasks' = tasks, NEW a \in Apps,
           \A b \in Apps : b # a =>
               main'[b].call = main[b].call /\ (main'[b].in = main[b].in \/ main[b].call # "wait")
    PROVE  /\ Awaiting[a] = AwaitedBy(a)
           /\ Awaiting' = [Awaiting EXCEPT ![a] = AwaitedBy(a)']
           /\ AwaitedBy(a)' = AwaitedBy(a) => Awaiting' = Awaiting
<1>1. \A b \in Apps : b # a => AwaitedBy(b)' = AwaitedBy(b)
  BY StillAwaited
<1>2. Awaiting' = [Awaiting EXCEPT ![a] = AwaitedBy(a)']
  BY <1>1 DEF Awaiting
<1>3. AwaitedBy(a)' = AwaitedBy(a) => Awaiting' = Awaiting
  BY <1>1 DEF Awaiting
<1> QED BY <1>2, <1>3 DEF Awaiting

\* A step that moves no task and lets no program go on is none of the graph.
LEMMA NothingMakes ==
    ASSUME RefInv, [Next]_vars, OnePhases, OnePhases', tasks' = tasks,
           \A u \in Created : OnePhase(exec'[u]) = OnePhase(exec[u]),
           \A b \in Apps : /\ main'[b].call = main[b].call
                           /\ main'[b].in = main[b].in \/ main[b].call # "wait"
    PROVE  GraphStep
<1>1. UNCHANGED <<Owners, NeedsAll>> /\ Created' = Created
  BY SameTasks
<1>2. Phases' = Phases
  BY <1>1, OtherPhases
<1>3. \A b \in Apps : AwaitedBy(b)' = AwaitedBy(b)
  BY StillAwaited
<1>4. Awaiting' = Awaiting
  BY <1>3 DEF Awaiting
<1> QED BY <1>1, <1>2, <1>4, GraphMakes

\* A program that starts to await tasks synchronises.
LEMMA SynchroniseMakes ==
    ASSUME RefInv, [Next]_vars, OnePhases, OnePhases', UNCHANGED <<tasks, exec>>, NEW a \in Apps,
           \A b \in Apps : b # a => main'[b] = main[b],
           AwaitedBy(a) = {}, AwaitedBy(a)' \subseteq Created
    PROVE  GraphStep
<1>1. UNCHANGED <<Owners, NeedsAll>> /\ Created' = Created
  BY SameTasks
<1>2. Phases' = Phases
  BY <1>1, OtherPhases
<1>3. Awaiting[a] = AwaitedBy(a) /\ Awaiting' = [Awaiting EXCEPT ![a] = AwaitedBy(a)']
  BY OthersAwait
<1>4. AwaitedBy(a)' \in SUBSET (DOMAIN Owners)
  BY DEF Owners
<1>5. PICK S : S = AwaitedBy(a)'
  OBVIOUS
<1>6. S \in SUBSET (DOMAIN Owners) /\ Awaiting' = [Awaiting EXCEPT ![a] = S]
  BY <1>3, <1>4, <1>5
<1>7. Graph!Synchronise(a)
  BY <1>1, <1>2, <1>3, <1>6, GraphActions
<1> QED BY <1>7, GraphMakes

\* A program whose tasks have finished goes on.
LEMMA GoOnMakes ==
    ASSUME RefInv, [Next]_vars, OnePhases, OnePhases', UNCHANGED <<tasks, exec>>, NEW a \in Apps,
           \A b \in Apps : b # a => main'[b] = main[b],
           \A t \in AwaitedBy(a) : t \in Created /\ Finished(t), AwaitedBy(a)' = {}
    PROVE  GraphStep
<1>1. UNCHANGED <<Owners, NeedsAll>> /\ Created' = Created
  BY SameTasks
<1>2. Phases' = Phases
  BY <1>1, OtherPhases
<1>3. Awaiting[a] = AwaitedBy(a) /\ Awaiting' = [Awaiting EXCEPT ![a] = AwaitedBy(a)']
  BY OthersAwait
<1>4. \A t \in Awaiting[a] : Phases[t] = "finished"
  BY <1>3 DEF Phases, PhaseOf
<1>5. Awaiting' = [Awaiting EXCEPT ![a] = {}]
  BY <1>3
<1>6. Graph!GoOn(a)
  BY <1>1, <1>2, <1>4, <1>5, GraphActions
<1> QED BY <1>6, GraphMakes

\* The last writer of a version there is is a task that was generated.
LEMMA AwaitedCreated ==
    ASSUME Typed, AuthorInv, NEW a, main[a].in[1] \in Data,
           main[a].in[2] \in 1 .. Len(authors[main[a].in[1]])
    PROVE  Awaited(a) \in Created \cup {NoTask}
<1>1. PICK d : d = main[a].in[1]
  OBVIOUS
<1>2. PICK v : v = main[a].in[2]
  OBVIOUS
<1>3. d \in Data /\ v \in 1 .. Len(authors[d]) /\ authors[d] \in Seq(Author)
  BY <1>1, <1>2 DEF Typed
<1>4. v \in Nat /\ 1 .. v \subseteq 1 .. Len(authors[d])
  <2>1. PICK n : n = Len(authors[d])
    OBVIOUS
  <2>2. n \in Nat
    BY <1>3, <2>1
  <2> QED BY <1>3, <2>1, <2>2
<1>5. LastTask(authors[d], v) = Awaited(a)
  BY <1>1, <1>2 DEF Awaited
<1>6. \/ LastTask(authors[d], v) = NoTask
      \/ \E w \in 1 .. v : LastTask(authors[d], v) = authors[d][w] /\ authors[d][w] \in Task
  BY <1>4, LastTaskIs
<1>7. \A w \in 1 .. v : authors[d][w] \in Task => authors[d][w] \in Created
  BY <1>3, <1>4 DEF AuthorInv
<1> QED BY <1>5, <1>6, <1>7

\* The registered access is asked for: the program synchronises on the last writer, unless
\* it only writes.
LEMMA RegistrationGraph ==
    ASSUME RefInv, [Next]_vars, OnePhases, OnePhases', NEW a \in Apps, Registration(a)
    PROVE  GraphStep
<1>1. Typed /\ AuthorInv /\ SeesInv(a) /\ main \in [Apps -> ProgramRecord]
  BY DEF RefInv, DependInv, OrderInv, Base, Typed, SeesAll
<1>2. /\ main[a].call = "register" /\ a \in permits
      /\ UNCHANGED <<tasks, exec, authors>>
  BY DEF Registration, Resume, taskVars, dispatcherVars, historyVars
<1>3. AwaitedBy(a) = {}
  BY <1>2 DEF AwaitedBy
<1>4. CASE main[a].access.mode = "W"
  <2>1. main' = [main EXCEPT ![a] = [call |-> "running", access |-> NoAccess, in |-> NoVersion]]
    BY <1>4 DEF Registration
  <2>2. main'[a].call = "running" /\ \A b \in Apps : b # a => main'[b] = main[b]
    BY <1>1, <2>1
  <2>3. AwaitedBy(a)' = {}
    BY <2>2 DEF AwaitedBy
  <2> QED BY <1>2, <1>3, <2>2, <2>3, GoOnMakes
<1>5. CASE main[a].access.mode # "W"
  <2>1. main' = [main EXCEPT ![a].call = "wait"]
    BY <1>5 DEF Registration, Stop
  <2>2. /\ main'[a].call = "wait" /\ main'[a].in = main[a].in
        /\ \A b \in Apps : b # a => main'[b] = main[b]
    BY <1>1, <2>1 DEF ProgramRecord
  <2>3. main[a].in[1] \in Data /\ main[a].in[2] \in 1 .. Len(authors[main[a].in[1]])
    BY <1>1, <1>2, <1>5 DEF SeesInv, Synchronised
  <2>4. Awaited(a) \in Created \cup {NoTask}
    BY <1>1, <2>3, AwaitedCreated
  <2>5. Awaited(a)' = Awaited(a)
    BY <1>2, <2>2 DEF Awaited
  <2>6. AwaitedBy(a)' = {Awaited(a)'} \ {NoTask}
    BY <2>2 DEF AwaitedBy, Awaited, WriterUpTo, LastTask
  <2>7. AwaitedBy(a)' \subseteq Created
    BY <2>4, <2>5, <2>6
  <2> QED BY <1>2, <1>3, <2>2, <2>7, SynchroniseMakes
<1> QED BY <1>4, <1>5

\* The program that is told of the end of the last writer goes on: that has finished.
LEMMA WaitGraph ==
    ASSUME RefInv, [Next]_vars, OnePhases, OnePhases', NEW a \in Apps, WaitReturns(a)
    PROVE  GraphStep
<1>1. Typed /\ AuthorInv /\ SeesInv(a) /\ main \in [Apps -> ProgramRecord]
  BY DEF RefInv, DependInv, OrderInv, Base, Typed, SeesAll
<1>2. /\ main[a].call = "wait" /\ a \in permits
      /\ UNCHANGED <<tasks, exec, authors>>
      /\ main' = [main EXCEPT ![a] = [call |-> "running", access |-> NoAccess, in |-> NoVersion]]
  BY DEF WaitReturns, Resume, taskVars, dispatcherVars, historyVars
<1>3. main'[a].call = "running" /\ \A b \in Apps : b # a => main'[b] = main[b]
  BY <1>1, <1>2
<1>4. AwaitedBy(a)' = {}
  BY <1>3 DEF AwaitedBy
<1>5. AwaitedBy(a) = {Awaited(a)} \ {NoTask}
  BY <1>2 DEF AwaitedBy, Awaited, WriterUpTo, LastTask
<1>6. Awaited(a) # NoTask => Finished(Awaited(a))
  BY <1>1, <1>2 DEF SeesInv, Synchronised
<1>7. \A t \in AwaitedBy(a) : t \in Created /\ Finished(t)
  BY <1>5, <1>6 DEF Finished
<1> QED BY <1>2, <1>3, <1>4, <1>7, GoOnMakes

\* A barrier, or the end of the application: the program synchronises on all its tasks.
LEMMA CallsGraph ==
    ASSUME RefInv, [Next]_vars, OnePhases, OnePhases', NEW a \in Apps,
           CallBarrier(a) \/ CallNoMoreTasks(a)
    PROVE  GraphStep
<1>1. main \in [Apps -> ProgramRecord]
  BY DEF RefInv, DependInv, OrderInv, Base, Typed
<1>2. PICK call \in {"barrier", "noMoreTasks"} : main' = [main EXCEPT ![a].call = call]
  BY DEF CallBarrier, CallNoMoreTasks, Stop
<1>3. main[a].call = "running" /\ UNCHANGED <<tasks, exec>>
  BY DEF CallBarrier, CallNoMoreTasks, Running, taskVars, dispatcherVars
<1>4. main'[a].call = call /\ \A b \in Apps : b # a => main'[b] = main[b]
  BY <1>1, <1>2 DEF ProgramRecord
<1>5. AwaitedBy(a) = {}
  BY <1>3 DEF AwaitedBy
<1>6. AwaitedBy(a)' \subseteq Created
  <2>1. call # "wait" /\ AwaitedBy(a)' = {t \in Created : tasks[t].app = a}
    BY <1>3, <1>4 DEF AwaitedBy, Created
  <2> QED BY <2>1
<1> QED BY <1>3, <1>4, <1>5, <1>6, SynchroniseMakes

\* The program is released: its tasks have finished.
LEMMA ReturnsGraph ==
    ASSUME Copies = {1}, RefInv, [Next]_vars, OnePhases, OnePhases', NEW a \in Apps,
           BarrierReturns(a) \/ NoMoreTasksReturns(a)
    PROVE  GraphStep
<1>1. main \in [Apps -> ProgramRecord] /\ BarrierInv
  BY DEF RefInv, DependInv, OrderInv, Base, Typed
<1>2. PICK call \in {"running", "ended"} : main' = [main EXCEPT ![a].call = call]
  BY DEF BarrierReturns, NoMoreTasksReturns, Stop
<1>3. /\ main[a].call \in {"barrier", "noMoreTasks"} /\ a \in permits
      /\ UNCHANGED <<tasks, exec>>
  BY DEF BarrierReturns, NoMoreTasksReturns, Resume, taskVars, dispatcherVars
<1>4. main'[a].call = call /\ \A b \in Apps : b # a => main'[b] = main[b]
  BY <1>1, <1>2 DEF ProgramRecord
<1>5. AwaitedBy(a)' = {}
  BY <1>4 DEF AwaitedBy
<1>6. AwaitedBy(a) = TasksOf(a)
  BY <1>3 DEF AwaitedBy, TasksOf
<1>7. \A t \in TasksOf(a) : t \in Created /\ Settled(t)
  BY <1>1, <1>3 DEF BarrierInv, Stopped, TasksOf
<1>8. \A t \in AwaitedBy(a) : t \in Created /\ Finished(t)
  BY <1>1, <1>6, <1>7, InTheQueue DEF Settled
<1> QED BY <1>3, <1>4, <1>5, <1>8, GoOnMakes

\* A sequence that is another with one more element.
LEMMA AppendIs ==
    ASSUME NEW n \in Nat, NEW f, NEW g, NEW e,
           f = [i \in 1 .. n |-> f[i]], g = [i \in 1 .. n + 1 |-> g[i]],
           \A i \in 1 .. n : g[i] = f[i], g[n + 1] = e
    PROVE  g = Append(f, e)
<1> DEFINE S == {f[i] : i \in 1 .. n} \cup {e}
<1>1. f \in Seq(S) /\ Len(f) = n /\ e \in S
  OBVIOUS
<1> HIDE DEF S
<1>2. /\ DOMAIN Append(f, e) = 1 .. n + 1
      /\ Append(f, e)[n + 1] = e
      /\ \A i \in 1 .. n : Append(f, e)[i] = f[i]
  BY <1>1, AppendIndexes
<1>3. PICK h : h = Append(f, e)
  OBVIOUS
<1>4. h \in Seq(S)
  BY <1>1, <1>3
<1>5. h = [i \in 1 .. n + 1 |-> h[i]]
  BY <1>2, <1>3, <1>4
<1>6. \A i \in 1 .. n + 1 : i \in 1 .. n \/ i = n + 1
  OBVIOUS
<1>7. \A i \in 1 .. n + 1 : h[i] = g[i]
  BY <1>2, <1>3, <1>6
<1>8. h = g
  BY <1>5, <1>7
<1> QED BY <1>3, <1>8

\* An access of the program starts no synchronisation: its registration does.
LEMMA MainAccessGraph ==
    ASSUME RefInv, [Next]_vars, OnePhases, OnePhases', NEW a \in Apps, NEW access \in MainAccesses,
           MainAccess(a, access)
    PROVE  GraphStep
<1>1. main \in [Apps -> ProgramRecord]
  BY DEF RefInv, DependInv, OrderInv, Base, Typed
<1>2. /\ main[a].call = "running" /\ UNCHANGED <<tasks, exec>>
      /\ main' = [main EXCEPT ![a].call = "register", ![a].access = access]
  BY DEF MainAccess, Running, taskVars, dispatcherVars
<1>3. main'[a].call = "register" /\ \A b \in Apps : b # a => main'[b] = main[b]
  BY <1>1, <1>2 DEF ProgramRecord
<1>4. AwaitedBy(a) = {} /\ AwaitedBy(a)' = {}
  BY <1>2, <1>3 DEF AwaitedBy
<1> QED BY <1>2, <1>3, <1>4, GoOnMakes

\* The submission of a task generates it, with what the program has made it need.
LEMMA NewTaskGraph ==
    ASSUME OneProgram, RefInv, RefInv', [Next]_vars, OnePhases, OnePhases',
           NEW a \in Apps, NEW params \in Signatures, NEW copies \in Copies, NewTask(a, params, copies)
    PROVE  GraphStep
<1>1. /\ Base /\ Typed /\ Typed' /\ AuthorInv /\ AuthorInv' /\ PlaceInv
      /\ main \in [Apps -> ProgramRecord]
  BY DEF RefInv, DependInv, OrderInv, Base, Typed
<1>2. PICK n : n = Len(tasks)
  OBVIOUS
<1>3. /\ n \in Nat /\ Created = 1 .. n
      /\ main[a].call = "running" /\ n + 1 \in Task
      /\ tasks' = Append(tasks, [app |-> a, params |-> params, copies |-> copies])
      /\ UNCHANGED <<exec, main>>
  BY <1>1, <1>2 DEF NewTask, Running, dispatcherVars, Typed, Created
<1>4. [app |-> a, params |-> params, copies |-> copies] \in TaskRecord
  BY SignaturesAssumption DEF TaskRecord
<1>5. /\ Created' = 1 .. n + 1
      /\ tasks'[n + 1].app = a
      /\ \A u \in 1 .. n : tasks'[u] = tasks[u]
  BY <1>1, <1>2, <1>3, <1>4, AppendIndexes DEF Typed, Created
<1>6. exec[n + 1] = << >>
  BY <1>1, <1>3 DEF PlaceInv, CopyPlace, InGraph
<1>7. n + 1 \notin 1 .. n /\ n + 1 \in 1 .. n + 1 /\ 1 .. n \subseteq 1 .. n + 1
  BY <1>3
<1>8. Owners' = Append(Owners, a)
  <2>1. Owners = [i \in 1 .. n |-> Owners[i]] /\ \A i \in 1 .. n : Owners[i] = tasks[i].app
    BY <1>3 DEF Owners
  <2>2. Owners' = [i \in 1 .. n + 1 |-> Owners'[i]] /\ \A i \in 1 .. n + 1 : Owners'[i] = tasks'[i].app
    BY <1>5 DEF Owners
  <2>3. (\A i \in 1 .. n : Owners'[i] = Owners[i]) /\ Owners'[n + 1] = a
    BY <1>5, <1>7, <2>1, <2>2
  <2> HIDE DEF Owners
  <2> QED BY <1>3, <2>1, <2>2, <2>3, AppendIs
<1>9. Phases' = Append(Phases, "generated")
  <2>1. Phases = [i \in 1 .. n |-> Phases[i]] /\ \A i \in 1 .. n : Phases[i] = OnePhase(exec[i])
    BY <1>3 DEF Phases, OnePhases
  <2>2. /\ Phases' = [i \in 1 .. n + 1 |-> Phases'[i]]
        /\ \A i \in 1 .. n + 1 : Phases'[i] = OnePhase(exec'[i])
    BY <1>5 DEF Phases, OnePhases
  <2>3. Phases'[n + 1] = "generated"
    BY <1>3, <1>6, <1>7, <2>2 DEF OnePhase
  <2>4. \A i \in 1 .. n : Phases'[i] = Phases[i]
    BY <1>3, <1>7, <2>1, <2>2
  <2> QED BY <1>3, <2>1, <2>2, <2>3, <2>4, AppendIs
<1>10. PICK results : results = NeedsOf(n + 1)'
  OBVIOUS
<1>11. results \in SUBSET (DOMAIN Owners)
  <2>1. \A w \in results : w \in Created' /\ w # n + 1
    BY <1>1, <1>5, <1>7, <1>10 DEF NeedsOf, AuthorInv
  <2>2. \A w \in 1 .. n + 1 : w # n + 1 => w \in 1 .. n
    BY <1>3
  <2>3. results \subseteq 1 .. n
    BY <1>5, <2>1, <2>2
  <2> QED BY <1>3, <2>3 DEF Owners
<1>12. NeedsAll' = Append(NeedsAll, results)
  <2>1. NeedsAll = [i \in 1 .. n |-> NeedsAll[i]] /\ \A i \in 1 .. n : NeedsAll[i] = NeedsOf(i)
    BY <1>3 DEF NeedsAll
  <2>2. /\ NeedsAll' = [i \in 1 .. n + 1 |-> NeedsAll'[i]]
        /\ \A i \in 1 .. n + 1 : NeedsAll'[i] = NeedsOf(i)'
    BY <1>5 DEF NeedsAll
  <2>3. NeedsAll'[n + 1] = results
    BY <1>7, <1>10, <2>2
  <2>4. \A i \in 1 .. n : NeedsAll'[i] = NeedsAll[i]
    <3>1. \A i \in 1 .. n : NeedsOf(i)' = NeedsOf(i)
      BY <1>1, <1>3, NeedsStay
    <3> QED BY <1>7, <2>1, <2>2, <3>1
  <2> QED BY <1>3, <2>1, <2>2, <2>3, <2>4, AppendIs
<1>13. Awaiting' = Awaiting /\ Awaiting[a] = {}
  <2>1. \A b \in Apps : main[b].call = "running" /\ main'[b].call = "running"
    BY <1>3 DEF OneProgram
  <2>2. \A b \in Apps : AwaitedBy(b) = {} /\ AwaitedBy(b)' = {}
    BY <2>1 DEF AwaitedBy
  <2> QED BY <2>2 DEF Awaiting
<1>14. Graph!Generate(a)
  BY <1>8, <1>9, <1>11, <1>12, <1>13, GraphActions
<1> QED BY <1>14, GraphMakes

\* A request of the Access Processor moves no task and lets no program go on.
LEMMA ServeGraph ==
    ASSUME RefInv, [Next]_vars, OnePhases, OnePhases', Serve
    PROVE  GraphStep
<1>1. Typed /\ OrderInv /\ main \in [Apps -> ProgramRecord]
  BY DEF RefInv, DependInv, OrderInv, Base, Typed
<1>2. UNCHANGED <<tasks, exec>>
  BY DEF Serve, ServeAnalyse, ProcessTask, ServeTaskEnd, EndTask, ServeRegister, RegisterAccess,
         ServeWaitForTask, FindWaitedTask, ServeBarrier, Barrier, ServeEndOfApp, NoMoreTasks,
         taskVars, dispatcherVars
<1>3. \A b \in Apps : /\ main'[b].call = main[b].call
                      /\ main'[b].in = main[b].in \/ main[b].call # "wait"
  <2>1. CASE ServeRegister
    <3>1. PICK a : a = Head(apQueue).app
      OBVIOUS
    <3>2. PICK access : access = main[a].access
      OBVIOUS
    <3>3. PICK in : in = IF access.mode = "W" THEN NoVersion ELSE <<access.datum, Registered(access.datum)>>
      OBVIOUS
    <3>4. a \in Apps /\ main[a].call = "register" /\ main' = [main EXCEPT ![a].in = in]
      BY <1>1, <2>1, <3>1, <3>2, <3>3, RegistrationMakes
    <3> QED BY <1>1, <3>4 DEF ProgramRecord
  <2>2. CASE ~ServeRegister
    <3>1. main' = main
      BY <2>2 DEF Serve, ServeAnalyse, ServeTaskEnd, ServeWaitForTask, ServeBarrier, ServeEndOfApp
    <3> QED BY <3>1
  <2> QED BY <2>1, <2>2
<1> QED BY <1>2, <1>3, NothingMakes

\* Nor does the Task Dispatcher: the execution it makes waits for the scheduler.
LEMMA DispatcherGraph ==
    ASSUME RefInv, [Next]_vars, OnePhases, OnePhases', DispatcherStep
    PROVE  GraphStep
<1>1. PlaceInv /\ ExecutionsTyped /\ exec \in [Task -> Seq(Execution)] /\ preds \in [Task -> Seq(Task)]
  BY DEF RefInv, DependInv, PlaceInv, TypeInv, GraphInv, ExecutionsTyped
<1>2. main' = main /\ UNCHANGED tasks
  BY DEF DispatcherStep, TakeRequest, HasNext, EndOfPredecessors, NextPredecessor, DropRequest, taskVars
<1>3. \A u \in Created : OnePhase(exec'[u]) = OnePhase(exec[u])
  <2>1. CASE TakeRequest
    <3>1. PICK t : t = Head(tdQueue)
      OBVIOUS
    <3>2. PICK n : n = Len(exec[t])
      OBVIOUS
    <3>3. t \in Task /\ t \in ToSet(tdQueue) /\ Only(t) /\ exec'[t][n + 1] = NewOne
      BY <1>1, <2>1, <3>1, <3>2, TakeRequestMoves
    <3>4. exec[t] = << >> /\ n = 0
      BY <1>1, <3>2, <3>3 DEF PlaceInv, CopyPlace
    <3>5. OnePhase(exec'[t]) = OnePhase(exec[t])
      BY <3>3, <3>4 DEF OnePhase, NewOne
    <3> QED BY <3>3, <3>5 DEF Only, Created, RefInv, DependInv, OrderInv, Base, Typed
  <2>2. CASE EndOfPredecessors \/ NextPredecessor
    <3>1. PICK at, t, i, x :
            /\ cursor = Iterating(at, t, i, x) /\ t \in Task /\ i \in Nat
            /\ at = "next" /\ x = removals[t] => i < Len(preds[t])
      BY <2>2 DEF RefInv, DependInv, PlaceInv, TypeInv, IteratorInv, EndOfPredecessors, NextPredecessor, Idle
    <3>2. Serves(t) /\ LastIsNew(t) /\ exec[t] # << >> /\ CopyPlace(t)
      BY <1>1, <3>1 DEF Serves, PlaceInv, LastIsNew
    <3>3. PICK n : n = Len(exec[t])
      OBVIOUS
    <3>4. t \in Created /\ DOMAIN exec[t] = {1}
      BY <3>2 DEF CopyPlace, InGraph, OnePhases
    <3>5. n = 1
      BY <1>1, <3>1, <3>3, <3>4
    <3>6. OnePhase(exec[t]) = "generated"
      BY <3>2, <3>3, <3>5 DEF LastIsNew, OnePhase
    <3>7. CASE EndOfPredecessors
      <4>1. Only(t) /\ exec'[t][n].state = "waiting"
        BY <1>1, <3>1, <3>2, <3>3, <3>7, EndOfPredecessorsMoves
      <4>2. OnePhase(exec'[t]) = "generated"
        BY <3>5, <4>1 DEF OnePhase
      <4> QED BY <3>6, <4>1, <4>2 DEF Only, RefInv, DependInv, OrderInv, Base, Typed
    <3>8. CASE NextPredecessor
      <4>1. preds[t][i + 1] \in Task
        <5>1. x = removals[t] /\ at = "next"
          BY <3>1, <3>8 DEF NextPredecessor, Iterating
        <5>2. preds[t] \in Seq(Task) /\ i + 1 \in 1 .. Len(preds[t])
          BY <1>1, <3>1, <5>1
        <5> QED BY <5>2
      <4>2. /\ ExecutionsTyped /\ NextPredecessor /\ t \in Task /\ cursor = Iterating(at, t, i, x)
            /\ exec[t] # << >> /\ n = Len(exec[t]) /\ preds[t][i + 1] \in Task
        BY <1>1, <3>1, <3>2, <3>3, <3>8, <4>1
      <4>3. Only(t) /\ exec'[t][n].state = exec[t][n].state
        BY <4>2, NextPredecessorMoves
      <4>4. OnePhase(exec'[t]) = "generated"
        BY <3>2, <3>3, <3>5, <4>3 DEF OnePhase, LastIsNew
      <4> QED BY <3>6, <4>3, <4>4 DEF Only, RefInv, DependInv, OrderInv, Base, Typed
    <3> QED BY <2>2, <3>7, <3>8
  <2>3. CASE HasNext \/ DropRequest
    BY <2>3 DEF HasNext, DropRequest
  <2> QED BY <2>1, <2>2, <2>3 DEF DispatcherStep
<1> QED BY <1>2, <1>3, NothingMakes

\* An execution that starts is that of a task all whose needs have finished.
LEMMA LaunchGraph ==
    ASSUME RefInv, [Next]_vars, OnePhases, OnePhases', NEW t \in Task, NEW i \in DOMAIN exec[t],
           LaunchExecution(t, i)
    PROVE  GraphStep
<1>1. DependInv /\ PlaceInv /\ ExecutionsTyped /\ Created \subseteq Task
  BY DEF RefInv, DependInv, PlaceInv, TypeInv, OrderInv, Base, Typed
<1>2. Launch(t, i) /\ main' = main /\ tasks' = tasks
  BY DEF LaunchExecution, Launch, taskVars
<1>3. PICK n : n = Len(exec[t])
  OBVIOUS
<1>4. /\ exec[t][i].state = "waiting" /\ exec[t][i].on = {} /\ exec'[t][i].state = "running"
      /\ Only(t)
  BY <1>1, <1>2, <1>3, LaunchMoves
<1>5. t \in Created /\ DOMAIN exec[t] = {1} /\ i = 1
  <2>1. exec[t] # << >>
    OBVIOUS
  <2>2. t \in Created
    BY <1>1, <2>1 DEF PlaceInv, CopyPlace, InGraph
  <2> QED BY <2>1, <2>2 DEF OnePhases
<1>6. OnePhase(exec[t]) = "generated" /\ OnePhase(exec'[t]) = "running"
  <2>1. exec[t] # << >>
    BY <1>5
  <2>2. exec'[t] # << >>
    <3>1. Len(exec'[t]) = n /\ exec'[t] \in Seq(Execution)
      BY <1>1, <1>2, <1>3, LaunchMoves DEF Only
    <3>2. n # 0
      <4>1. exec[t] \in Seq(Execution)
        BY <1>1 DEF ExecutionsTyped
      <4>2. n \in Nat /\ DOMAIN exec[t] = 1 .. n
        BY <1>3, <4>1
      <4> QED BY <1>5, <4>2
    <3> QED BY <3>1, <3>2
  <2> QED BY <1>4, <1>5, <2>1, <2>2 DEF OnePhase
<1>7. UNCHANGED <<Owners, NeedsAll>> /\ Created' = Created
  BY <1>2, SameTasks
<1>8. Phases[t] = "generated" /\ Phases' = [Phases EXCEPT ![t] = "running"]
  <2>1. \A u \in Created : u # t => OnePhase(exec'[u]) = OnePhase(exec[u])
    BY <1>1, <1>4 DEF Only
  <2> QED BY <1>5, <1>6, <1>7, <2>1, OtherPhases
<1>9. Awaiting' = Awaiting
  <2>1. \A b \in Apps : AwaitedBy(b)' = AwaitedBy(b)
    BY <1>2, StillAwaited
  <2> QED BY <2>1 DEF Awaiting
<1>10. \A w \in NeedsAll[t] : Phases[w] = "finished"
  <2>1. NeedsAll[t] = NeedsOf(t)
    BY <1>5 DEF NeedsAll
  <2>2. \A w \in NeedsOf(t) : Finished(w)
    BY <1>1, <1>4, <1>5, NeededDone
  <2> QED BY <2>1, <2>2 DEF Phases, PhaseOf, Finished
<1>11. Graph!Start(t)
  BY <1>7, <1>8, <1>9, <1>10, GraphActions
<1> QED BY <1>5, <1>11, GraphMakes DEF Owners

\* The end of its one execution is that of the task.
LEMMA CompleteGraph ==
    ASSUME RefInv, [Next]_vars, OnePhases, OnePhases', NEW t \in Task, NEW i \in DOMAIN exec[t],
           CompleteExecution(t, i)
    PROVE  GraphStep
<1>1. PlaceInv /\ ExecutionsTyped /\ Created \subseteq Task
  BY DEF RefInv, DependInv, PlaceInv, TypeInv, OrderInv, Base, Typed
<1>2. Complete(t, i) /\ main' = main /\ tasks' = tasks
  BY DEF CompleteExecution, Complete
<1>3. t \in Created /\ DOMAIN exec[t] = {1} /\ i = 1 /\ exec[t] # << >>
  <2>1. exec[t] # << >>
    OBVIOUS
  <2>2. t \in Created
    BY <1>1, <2>1 DEF PlaceInv, CopyPlace, InGraph
  <2> QED BY <2>1, <2>2 DEF OnePhases
<1>4. exec[t][1].state = "running" /\ exec'[t][1].state = "done"
  BY <1>1, <1>2, <1>3, CompleteMoves
<1>5. exec'[t] # << >> /\ \A u \in Task : exec'[u] = << >> <=> exec[u] = << >>
  <2>1. \A u \in Task : DOMAIN exec'[u] = DOMAIN exec[u] /\ exec'[u] \in Seq(Execution)
    BY <1>1, <1>2, CompleteMoves
  <2>2. \A u \in Task : exec[u] \in Seq(Execution)
    BY <1>1 DEF ExecutionsTyped
  <2>3. \A s \in Seq(Execution) : s = << >> <=> DOMAIN s = {}
    OBVIOUS
  <2> QED BY <1>3, <2>1, <2>2, <2>3
<1>6. OnePhase(exec[t]) = "running" /\ OnePhase(exec'[t]) = "finished"
  BY <1>3, <1>4, <1>5 DEF OnePhase
<1>7. UNCHANGED <<Owners, NeedsAll>> /\ Created' = Created
  BY <1>2, SameTasks
<1>8. \A u \in Created : u # t => OnePhase(exec'[u]) = OnePhase(exec[u])
  <2>1. \A u \in Task : \A k \in DOMAIN exec[u] : u # t => exec'[u][k].state = exec[u][k].state
    BY <1>1, <1>2, CompleteMoves
  <2>2. \A u \in Created : exec[u] # << >> => 1 \in DOMAIN exec[u]
    BY DEF OnePhases
  <2> QED BY <1>1, <1>5, <2>1, <2>2 DEF OnePhase
<1>9. Phases[t] = "running" /\ Phases' = [Phases EXCEPT ![t] = "finished"]
  BY <1>3, <1>6, <1>7, <1>8, OtherPhases
<1>10. Awaiting' = Awaiting
  <2>1. \A b \in Apps : AwaitedBy(b)' = AwaitedBy(b)
    BY <1>2, StillAwaited
  <2> QED BY <2>1 DEF Awaiting
<1>11. Graph!Finish(t)
  BY <1>7, <1>9, <1>10, GraphActions
<1> QED BY <1>3, <1>11, GraphMakes DEF Owners

\* Every step of the runtime is one of the graph of tasks, or none.
LEMMA StepsGraph ==
    ASSUME Copies = {1}, OneProgram
    PROVE  RefInv /\ RefInv' /\ [Next]_vars => GraphStep
<1> SUFFICES ASSUME RefInv, RefInv', [Next]_vars
             PROVE  GraphStep
  OBVIOUS
<1>1. OnePhases /\ OnePhases'
  <2>1. PlaceInv /\ PlaceInv'
    BY DEF RefInv, DependInv
  <2> QED BY <2>1, PhasesAre, PhasesAreNext
<1>2. ASSUME NEW a \in Apps, MainStep(a)
      PROVE  GraphStep
  BY <1>1, <1>2, RegistrationGraph, WaitGraph, ReturnsGraph DEF MainStep
<1>3. ASSUME NEW a \in Apps, NEW params \in Signatures, NEW copies \in Copies,
             NewTask(a, params, copies)
      PROVE  GraphStep
  BY <1>1, <1>3, NewTaskGraph
<1>4. ASSUME NEW a \in Apps, NEW access \in MainAccesses, MainAccess(a, access)
      PROVE  GraphStep
  BY <1>1, <1>4, MainAccessGraph
<1>5. ASSUME NEW a \in Apps, CallBarrier(a) \/ CallNoMoreTasks(a)
      PROVE  GraphStep
  BY <1>1, <1>5, CallsGraph
<1>6. CASE Serve
  BY <1>1, <1>6, ServeGraph
<1>7. CASE DispatcherStep
  BY <1>1, <1>7, DispatcherGraph
<1>8. ASSUME NEW t \in Task, NEW i \in DOMAIN exec[t], LaunchExecution(t, i) \/ CompleteExecution(t, i)
      PROVE  GraphStep
  BY <1>1, <1>8, LaunchGraph, CompleteGraph
<1>9. CASE UNCHANGED vars
  <2>1. UNCHANGED <<tasks, exec, main>>
    BY <1>9 DEF vars, taskVars, dispatcherVars
  <2> QED BY <1>1, <2>1, NothingMakes
<1> QED BY <1>2, <1>3, <1>4, <1>5, <1>6, <1>7, <1>8, <1>9 DEF Next

\* The runtime starts with the empty graph.
LEMMA GraphStartsEmpty == Init => Graph!GraphInit
<1> SUFFICES ASSUME Init
             PROVE  Graph!GraphInit
  OBVIOUS
<1>1. Created = {} /\ \A a \in Apps : main[a].call = "running"
  BY DEF Init, AnalyserInit, Created
<1>2. Owners = << >> /\ NeedsAll = << >> /\ Phases = << >>
  BY <1>1 DEF Owners, NeedsAll, Phases
<1>3. \A a \in Apps : AwaitedBy(a) = {}
  BY <1>1 DEF AwaitedBy
<1>4. Awaiting = [p \in Apps |-> {}]
  BY <1>3 DEF Awaiting
<1> QED BY <1>2, <1>4, GraphActions

\* The runtime implements the graph of tasks, when tasks have one execution and read one
\* value at most, and the program is alone: a task runs once and after the tasks it needs,
\* the program goes on after the tasks it awaits, whatever the queues, the threads and the
\* iterators do (AccessProcessor, TaskAnalyser, TaskDispatcher and ExecutionAction together).
THEOREM GraphImplemented ==
    ASSUME Copies = {1}, OneReadEach, OneProgram
    PROVE  Spec => ImplementsTaskGraph
<1>1. Init => RefInv
  BY RefinementHoldsFirst
<1>2. RefInv /\ [Next]_vars => RefInv'
  BY RefinementStays
<1>3. RefInv /\ RefInv' /\ [Next]_vars => [Graph!GraphNext]_(Graph!graphVars)
  BY StepsGraph DEF GraphStep
<1>4. Init => Graph!GraphInit
  BY GraphStartsEmpty
<1> QED BY <1>1, <1>2, <1>3, <1>4, PTL DEF Spec, ImplementsTaskGraph, Graph!GraphSpec
=============================================================================
