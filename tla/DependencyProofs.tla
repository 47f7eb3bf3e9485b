-------------------------- MODULE DependencyProofs --------------------------
(***************************************************************************)
(* Proofs that a task runs after the tasks that generate what it reads,    *)
(* all their copies included, for every number of data, tasks and copies.  *)
(*                                                                         *)
(* A task of the graph has the tasks it needs among its predecessors until *)
(* they have finished, because the last writer the Task Analyser knows is  *)
(* the author of the version that is read.  Tasks are dispatched in order, *)
(* so the iterator of an execution finds what is left to run of those      *)
(* tasks: a predecessor leaves the list only when it has finished.         *)
(*                                                                         *)
(* Two hypotheses are those the code needs.  A task reads one value at     *)
(* most: with two predecessors, one that ends between two steps of the     *)
(* iterator hides the other, or the request is lost (runs show both).      *)
(* And there is one program, or the programs only wait for files: the wait *)
(* for an object forgets its last writer, whichever program asks.          *)
(***************************************************************************)
EXTENDS TaskGraphProofs

-----------------------------------------------------------------------------
(* The place of a task that may have copies.                               *)

Done(t) == {i \in DOMAIN exec[t] : exec[t][i].state = "done"}

LastIsNew(t) == exec[t] # << >> /\ exec[t][Len(exec[t])].state = "new"

\* A task of the graph waits to be dispatched or has executions; those to come follow one
\* that is new, and the count is of those that have not ended.
CopyPlace(t) ==
    /\ t \in ToSet(tdQueue) => exec[t] = << >> /\ Once(tdQueue, t)
    /\ InGraph(t) <=> t \in ToSet(tdQueue) \/ exec[t] # << >>
    /\ Queued(TaskEnd(t)) => exec[t] # << >>
    /\ exec[t] # << >> => /\ Len(exec[t]) <= tasks[t].copies
                          /\ Len(exec[t]) < tasks[t].copies => LastIsNew(t)
                          /\ execCount[t] = tasks[t].copies - Cardinality(Done(t))

Serves(t) == \E at, i, x : cursor = Iterating(at, t, i, x)

\* Tasks are dispatched in the order they are generated in.
DispatchOrder ==
    \A t, u \in Task : u < t =>
        /\ Ahead(tdQueue, u, t)
        /\ exec[t] # << >> => u \notin ToSet(tdQueue) /\ ~Serves(u)

PlaceInv ==
    /\ TypeInv
    /\ \A t \in Task : CopyPlace(t)
    /\ DispatchOrder
    /\ \A t \in Task : Serves(t) => LastIsNew(t)

\* The runtime starts with nothing to dispatch.
LEMMA PlacesHoldFirst == Init => PlaceInv
<1> SUFFICES ASSUME Init PROVE PlaceInv
  OBVIOUS
<1>1. TypeInv
  BY TypesHoldFirst
<1> USE DEF Init, AnalyserInit, DispatcherInit
<1>2. ToSet(tdQueue) = {} /\ ToSet(apQueue) = {} /\ Created = {}
  BY DEF ToSet, Created
<1>3. \A t \in Task : CopyPlace(t)
  BY <1>2 DEF CopyPlace, InGraph, Queued
<1>4. \A t : ~Serves(t)
  BY DEF Serves, Idle, Iterating
<1>5. DispatchOrder
  BY <1>2, <1>4 DEF DispatchOrder, Ahead
<1> QED BY <1>1, <1>3, <1>4, <1>5 DEF PlaceInv

\* The task that is served is one.
LEMMA IterationsDiffer ==
    /\ \A at, t, i, x : Iterating(at, t, i, x) # Idle
    /\ \A at, t, i, x, bt, u, j, y : Iterating(at, t, i, x) = Iterating(bt, u, j, y) =>
          at = bt /\ t = u /\ i = j /\ x = y
BY DEF Iterating, Idle

\* Only the analysis of a task lets it join the graph.
LEMMA OnlyAnalysisJoins ==
    ASSUME Base, InOrder, [Next]_vars, ~ServeAnalyse
    PROVE  \A t \in Task : InGraph(t)' <=> InGraph(t)
<1>1. ASSUME NEW t \in Task, InGraph(t)', ~InGraph(t) PROVE FALSE
  <2>1. Head(apQueue) = Analyse(t) /\ Head(apQueue).type = "ANALYSE_TASK"
    BY <1>1, InOrderStays DEF Analyse
  <2>2. CASE tasks' = tasks /\ apQueue' = apQueue
    BY <1>1, <2>2 DEF InGraph, Created, Queued
  <2>3. CASE tasks' = tasks /\ \E r \in Request : apQueue' = Append(apQueue, r) /\ \A u : r # Analyse(u)
    <3>1. PICK r \in Request : apQueue' = Append(apQueue, r) /\ \A u : r # Analyse(u)
      BY <2>3
    <3>2. \A q : Queued(q)' <=> Queued(q) \/ q = r
      BY <3>1, RequestOffered DEF Base
    <3> QED BY <1>1, <2>3, <3>2 DEF InGraph, Created
  <2>4. CASE \E u : Submits(u)
    <3>1. PICK u : Submits(u)
      BY <2>4
    <3>2. \A q : Queued(q)' <=> Queued(q) \/ q = Analyse(u)
      BY <3>1, RequestOffered, RequestsAre DEF Base, Submits
    <3>3. t # u
      BY <1>1, <3>2 DEF InGraph
    <3> QED BY <1>1, <3>1, <3>2, <3>3 DEF InGraph, Submits
  <2>5. CASE tasks' = tasks /\ apQueue # << >> /\ apQueue' = Tail(apQueue)
    <3>1. CASE ServeTaskEnd \/ ServeRegister \/ ServeWaitForTask \/ ServeBarrier \/ ServeEndOfApp
      BY <2>1, <3>1 DEF ServeTaskEnd, ServeRegister, ServeWaitForTask, ServeBarrier, ServeEndOfApp, Serving
    <3>2. CASE ~Serve
      <4>1. \A s \in Seq(Request) : \A r \in Request : s # << >> => Tail(s) # s /\ Tail(s) # Append(s, r)
        <5> SUFFICES ASSUME NEW s \in Seq(Request), NEW r \in Request, s # << >>
                     PROVE  Len(Tail(s)) # Len(s) /\ Len(Tail(s)) # Len(Append(s, r))
          OBVIOUS
        <5> QED OBVIOUS
      <4>2. /\ apQueue \in Seq(Request)
            /\ apQueue' = apQueue \/ \E r \in Request : apQueue' = Append(apQueue, r)
        <5>1. \/ apQueue' = apQueue
              \/ \E u \in Task : \E r \in {Analyse(u), TaskEnd(u)} : apQueue' = Append(apQueue, r)
              \/ \E a \in Apps : \E r \in {Register(a), WaitForTask(a), BarrierRequest(a), EndOfApp(a)} :
                    apQueue' = Append(apQueue, r)
          BY <3>2 DEF Next, MainStep, Registration, WaitReturns, BarrierReturns, NoMoreTasksReturns, CallBarrier,
                    CallNoMoreTasks, MainAccess, NewTask, DispatcherStep, LaunchExecution, CompleteExecution, vars
        <5> QED BY <5>1, RequestsAre DEF Base, Typed
      <4> QED BY <2>5, <4>1, <4>2
    <3> QED BY <3>1, <3>2 DEF Serve
  <2> QED BY <2>2, <2>3, <2>4, <2>5, QueueSteps
<1> QED BY <1>1, InOrderStays

SameStates(u) ==
    /\ exec[u] \in Seq(Execution) /\ exec'[u] \in Seq(Execution)
    /\ Len(exec'[u]) = Len(exec[u]) /\ DOMAIN exec'[u] = DOMAIN exec[u]
    /\ \A k \in DOMAIN exec[u] : exec'[u][k].state = exec[u][k].state

\* What a step that is not about the executions of u leaves of its place.
Still(u) ==
    /\ SameStates(u) /\ execCount'[u] = execCount[u]
    /\ u \in ToSet(tdQueue') <=> u \in ToSet(tdQueue)
    /\ Once(tdQueue, u) => Once(tdQueue', u)
    /\ InGraph(u)' <=> InGraph(u)
    /\ Queued(TaskEnd(u))' => Queued(TaskEnd(u))
    /\ u \in Created => tasks'[u] = tasks[u]

\* Such a task stays in its place.
LEMMA StillPlace ==
    ASSUME NEW u \in Task, CopyPlace(u), Still(u)
    PROVE  /\ CopyPlace(u)' /\ (LastIsNew(u)' <=> LastIsNew(u))
           /\ exec'[u] # << >> <=> exec[u] # << >>
<1> PICK n : n = Len(exec[u])
  OBVIOUS
<1>1. /\ n \in Nat /\ Len(exec'[u]) = n
      /\ exec[u] # << >> <=> n # 0
      /\ exec'[u] # << >> <=> n # 0
      /\ n # 0 => n \in DOMAIN exec[u]
  BY DEF Still, SameStates
<1>2. LastIsNew(u)' <=> LastIsNew(u)
  BY <1>1 DEF LastIsNew, Still, SameStates
<1>3. Done(u)' = Done(u)
  BY DEF Done, Still, SameStates
<1>4. exec[u] # << >> => tasks'[u] = tasks[u]
  BY DEF CopyPlace, InGraph, Still
<1>5. /\ u \in ToSet(tdQueue') => exec'[u] = << >> /\ Once(tdQueue', u)
      /\ InGraph(u)' <=> u \in ToSet(tdQueue') \/ exec'[u] # << >>
      /\ Queued(TaskEnd(u))' => exec'[u] # << >>
  BY <1>1 DEF CopyPlace, Still
<1>6. exec'[u] # << >> => /\ Len(exec'[u]) <= tasks'[u].copies
                          /\ Len(exec'[u]) < tasks'[u].copies => LastIsNew(u)'
                          /\ execCount'[u] = tasks'[u].copies - Cardinality(Done(u)')
  BY <1>1, <1>2, <1>3, <1>4 DEF CopyPlace, Still
<1> QED BY <1>1, <1>2, <1>5, <1>6 DEF CopyPlace

\* The tasks there are stay as they are.
LEMMA TasksKept ==
    ASSUME Base, [Next]_vars
    PROVE  \A u \in Created : u \in Created' /\ tasks'[u] = tasks[u]
BY QueueSteps DEF Submits, Created

\* A step that leaves the Task Dispatcher alone, but for its iterator, moves nothing.
LEMMA OtherPlaces ==
    ASSUME PlaceInv, [Next]_vars, TypeInv', UNCHANGED <<tdQueue, exec, execCount>>, ~ServeAnalyse,
           \A u \in Task : Serves(u)' => Serves(u),
           \A u \in Task : Queued(TaskEnd(u))' => Queued(TaskEnd(u))
    PROVE  PlaceInv'
<1>1. Base /\ InOrder
  BY DEF PlaceInv, TypeInv, GraphInv
<1>2. \A u \in Task : Still(u)
  BY <1>1, TasksKept, OnlyAnalysisJoins DEF Still, SameStates, PlaceInv, TypeInv, ExecutionsTyped
<1>3. \A u \in Task : CopyPlace(u)' /\ (LastIsNew(u)' <=> LastIsNew(u))
  BY <1>2, StillPlace DEF PlaceInv
<1>4. DispatchOrder'
  BY DEF PlaceInv, DispatchOrder
<1> QED BY <1>3, <1>4 DEF PlaceInv

\* A task that is analysed is dispatched after those of the graph.
LEMMA ServeAnalyseDispatch ==
    ASSUME PlaceInv, ServeAnalyse, [Next]_vars, TypeInv'
    PROVE  PlaceInv'
<1>1. PICK t : t = Head(apQueue).task
  OBVIOUS
<1>2. /\ Serving("ANALYSE_TASK") /\ tdQueue' = Append(tdQueue, t)
      /\ UNCHANGED <<tasks, exec, execCount, cursor>>
  BY <1>1 DEF ServeAnalyse, ProcessTask
<1>3. Base /\ InOrder /\ ExecutionsTyped /\ tdQueue \in Seq(Task)
  BY DEF PlaceInv, TypeInv, GraphInv, ExecutionsTyped
<1>4. /\ t \in Task /\ t \in Created /\ ~InGraph(t) /\ InGraph(t)'
      /\ \A u \in Task : InGraph(u) => u < t
  BY <1>1, <1>2, <1>3, NextOfGraph
<1>5. Head(apQueue) = Analyse(t)
  BY <1>1, <1>2, <1>3, AnalysedTask
<1>6. ToSet(tdQueue') = ToSet(tdQueue) \cup {t}
  BY <1>2, <1>3, <1>4, Offered
<1>7. t \notin ToSet(tdQueue) /\ exec[t] = << >>
  BY <1>4 DEF PlaceInv, CopyPlace
<1>8. \A u \in Task : Once(tdQueue, u) => Once(tdQueue', u)
  BY <1>2, <1>3, <1>4, <1>7, OfferedOnce
<1>9. \A q : Queued(q)' => Queued(q)
  BY <1>2, <1>3, RequestServed DEF Base
<1>10. \A u \in Task : u # t => (InGraph(u)' <=> InGraph(u))
  BY <1>3, <1>5, InOrderStays, RequestsDiffer
<1>11. ASSUME NEW u \in Task, u # t PROVE CopyPlace(u)'
  <2>1. Still(u)
    BY <1>2, <1>3, <1>6, <1>8, <1>9, <1>10, <1>11 DEF Still, SameStates, ExecutionsTyped
  <2> QED BY <2>1, StillPlace DEF PlaceInv
<1>12. CopyPlace(t)'
  <2>1. Once(tdQueue, t)
    BY <1>7 DEF Once, ToSet
  <2>2. ~Queued(TaskEnd(t))'
    BY <1>4, <1>7, <1>9 DEF PlaceInv, CopyPlace
  <2>3. Once(tdQueue', t) /\ t \in ToSet(tdQueue') /\ exec'[t] = << >>
    BY <1>2, <1>4, <1>6, <1>7, <1>8, <2>1
  <2> QED BY <1>4, <2>2, <2>3 DEF CopyPlace
<1>13. DispatchOrder'
  <2> SUFFICES ASSUME NEW x \in Task, NEW u \in Task, u < x
               PROVE  /\ Ahead(tdQueue', u, x)
                      /\ exec'[x] # << >> => u \notin ToSet(tdQueue') /\ ~Serves(u)'
    BY DEF DispatchOrder
  <2>1. Ahead(tdQueue, u, x) /\ (exec[x] # << >> => u \notin ToSet(tdQueue) /\ ~Serves(u))
    BY DEF PlaceInv, DispatchOrder
  <2>2. InGraph(x) => u # t
    BY <1>4 DEF Task
  <2>3. u = t => x # t /\ x \notin ToSet(tdQueue)
    BY <2>2 DEF PlaceInv, CopyPlace, Task
  <2>4. Ahead(tdQueue', u, x)
    BY <1>2, <1>3, <1>4, <2>1, <2>3, OfferedAhead
  <2>5. exec'[x] # << >> => exec[x] # << >> /\ InGraph(x) /\ u # t
    BY <1>2, <2>2 DEF PlaceInv, CopyPlace
  <2>6. Serves(u)' <=> Serves(u)
    BY <1>2 DEF Serves
  <2> QED BY <1>6, <2>1, <2>4, <2>5, <2>6
<1>14. \A u \in Task : Serves(u)' => LastIsNew(u)'
  BY <1>2 DEF PlaceInv, Serves, LastIsNew
<1> QED BY <1>11, <1>12, <1>13, <1>14 DEF PlaceInv

\* The first task to be dispatched gets its first execution.
LEMMA TakeRequestDispatch ==
    ASSUME PlaceInv, TakeRequest, apQueue' = apQueue, TypeInv'
    PROVE  PlaceInv'
<1>1. PICK t, n : t = Head(tdQueue) /\ n = Len(exec[t])
  OBVIOUS
<1>2. ExecutionsTyped /\ CountsTyped /\ Base /\ tdQueue \in Seq(Task)
  BY DEF PlaceInv, TypeInv, GraphInv, ExecutionsTyped
<1>3. /\ t \in Task /\ n \in Nat /\ tdQueue # << >> /\ Only(t)
      /\ Len(exec'[t]) = n + 1 /\ exec'[t][n + 1] = NewOne
  BY <1>1, <1>2, TakeRequestMoves
<1>4. tdQueue' = Tail(tdQueue) /\ ToSet(tdQueue) = ToSet(tdQueue') \cup {t}
  BY <1>1, <1>2, TakeRequestMoves
<1>5. /\ cursor' = Iterating("hasNext", t, 0, removals[t])
      /\ execCount' = [execCount EXCEPT ![t] = tasks[t].copies] /\ tasks' = tasks
  BY <1>1, <1>2, TakeRequestMoves
<1>6. exec[t] = << >> /\ Once(tdQueue, t) /\ InGraph(t) /\ n = 0
  BY <1>1, <1>3, <1>4 DEF PlaceInv, CopyPlace
<1>7. \A u : Once(tdQueue, u) => Once(tdQueue', u) /\ (u = t => u \notin ToSet(tdQueue'))
  BY <1>1, <1>2, <1>3, <1>4, TakenOnce
<1>8. \A u \in Task : (InGraph(u)' <=> InGraph(u)) /\ (Queued(TaskEnd(u))' <=> Queued(TaskEnd(u)))
  BY <1>5 DEF InGraph, Queued, Created
<1>9. \A u : Serves(u)' <=> u = t
  BY <1>5, IterationsDiffer DEF Serves
<1>10. LastIsNew(t)' /\ exec'[t] # << >> /\ Len(exec'[t]) = 1 /\ Done(t)' = {}
  <2>1. /\ Len(exec'[t]) = 1 /\ exec'[t][1].state = "new" /\ exec'[t] \in Seq(Execution)
    BY <1>3, <1>6 DEF Only, NewOne
  <2>2. exec'[t] # << >> /\ DOMAIN exec'[t] = {1}
    BY <2>1
  <2> QED BY <2>1, <2>2 DEF LastIsNew, Done
<1>11. CopyPlace(t)'
  <2>1. tasks[t] \in TaskRecord
    BY <1>2, <1>6 DEF InGraph, Base, Typed, Created
  <2>2. tasks[t].copies \in Nat \ {0}
    BY <2>1, CopiesAssumption DEF TaskRecord
  <2>3. Cardinality(Done(t)') = 0
    BY <1>10, FS_EmptySet
  <2>4. execCount'[t] = tasks'[t].copies - Cardinality(Done(t)')
    BY <1>2, <1>3, <1>5, <2>2, <2>3 DEF CountsTyped
  <2>5. Len(exec'[t]) <= tasks'[t].copies
    BY <1>5, <1>10, <2>2
  <2>6. t \notin ToSet(tdQueue') /\ InGraph(t)'
    BY <1>3, <1>6, <1>7, <1>8
  <2> QED BY <1>10, <2>4, <2>5, <2>6 DEF CopyPlace
<1>12. ASSUME NEW u \in Task, u # t PROVE CopyPlace(u)'
  <2>1. SameStates(u)
    BY <1>2, <1>3, <1>12 DEF SameStates, Only, ExecutionsTyped
  <2>2. Still(u)
    BY <1>2, <1>3, <1>4, <1>5, <1>7, <1>8, <1>12, <2>1 DEF Still, CountsTyped
  <2> QED BY <2>2, StillPlace DEF PlaceInv
<1>13. DispatchOrder'
  <2> SUFFICES ASSUME NEW x \in Task, NEW u \in Task, u < x
               PROVE  /\ Ahead(tdQueue', u, x)
                      /\ exec'[x] # << >> => u \notin ToSet(tdQueue') /\ ~Serves(u)'
    BY DEF DispatchOrder
  <2>1. Ahead(tdQueue, u, x) /\ (exec[x] # << >> => u \notin ToSet(tdQueue) /\ ~Serves(u))
    BY DEF PlaceInv, DispatchOrder
  <2>2. Ahead(tdQueue', u, x) /\ (x = t => u \notin ToSet(tdQueue))
    BY <1>1, <1>2, <1>3, <1>4, <2>1, TakenAhead
  <2>3. x = t => u # t
    BY DEF Task
  <2>4. x # t => exec'[x] = exec[x]
    BY <1>3 DEF Only
  <2>5. u = t => u \in ToSet(tdQueue)
    BY <1>4
  <2> QED BY <1>4, <1>9, <2>1, <2>2, <2>3, <2>4, <2>5
<1> QED BY <1>9, <1>10, <1>11, <1>12, <1>13 DEF PlaceInv

\* A step moves an execution of t, which stays in its place, and no other.
LEMMA MovedPlaces ==
    ASSUME PlaceInv, TypeInv', NEW t \in Task, exec[t] # << >>, CopyPlace(t)',
           \A u \in Task : u # t => SameStates(u) /\ execCount'[u] = execCount[u],
           UNCHANGED <<tasks, tdQueue>>,
           \A u \in Task : Queued(Analyse(u))' <=> Queued(Analyse(u)),
           \A u \in Task : Queued(TaskEnd(u))' => Queued(TaskEnd(u)) \/ u = t,
           \A u \in Task : Serves(u)' => Serves(u),
           Serves(t)' => LastIsNew(t)'
    PROVE  PlaceInv'
<1>1. \A u \in Task : InGraph(u)' <=> InGraph(u)
  BY DEF InGraph, Created
<1>2. ASSUME NEW u \in Task, u # t
      PROVE  CopyPlace(u)' /\ (LastIsNew(u)' <=> LastIsNew(u)) /\ (exec'[u] # << >> <=> exec[u] # << >>)
  <2>1. Still(u)
    BY <1>1, <1>2 DEF Still
  <2> QED BY <2>1, StillPlace DEF PlaceInv
<1>3. DispatchOrder'
  <2> SUFFICES ASSUME NEW x \in Task, NEW u \in Task, u < x
               PROVE  /\ Ahead(tdQueue', u, x)
                      /\ exec'[x] # << >> => u \notin ToSet(tdQueue') /\ ~Serves(u)'
    BY DEF DispatchOrder
  <2>1. Ahead(tdQueue, u, x) /\ (exec[x] # << >> => u \notin ToSet(tdQueue) /\ ~Serves(u))
    BY DEF PlaceInv, DispatchOrder
  <2>2. exec'[x] # << >> => exec[x] # << >>
    BY <1>2
  <2> QED BY <2>1, <2>2
<1>4. \A u \in Task : Serves(u)' => LastIsNew(u)'
  BY <1>2 DEF PlaceInv
<1> QED BY <1>2, <1>3, <1>4 DEF PlaceInv

\* The queue of the Access Processor is left alone by the steps of the Task Dispatcher.
LEMMA SameQueue ==
    ASSUME UNCHANGED <<tasks, apQueue>>
    PROVE  \A u \in Task : /\ Queued(Analyse(u))' <=> Queued(Analyse(u))
                           /\ Queued(TaskEnd(u))' <=> Queued(TaskEnd(u))
                           /\ InGraph(u)' <=> InGraph(u)
BY DEF Queued, InGraph, Created

\* An iteration leaves the execution new; its end submits it, and makes the next copy.
LEMMA IterationDispatch ==
    ASSUME PlaceInv, EndOfPredecessors \/ NextPredecessor, apQueue' = apQueue, TypeInv'
    PROVE  PlaceInv'
<1>1. ExecutionsTyped /\ CountsTyped /\ preds \in [Task -> Seq(Task)] /\ exec \in [Task -> Seq(Execution)]
  BY DEF PlaceInv, TypeInv, GraphInv, ExecutionsTyped
<1>2. PICK at, t, i, x :
        /\ cursor = Iterating(at, t, i, x) /\ t \in Task /\ i \in Nat
        /\ at = "next" /\ x = removals[t] => i < Len(preds[t])
  BY DEF PlaceInv, TypeInv, IteratorInv, EndOfPredecessors, NextPredecessor, Idle
<1>3. Serves(t) /\ LastIsNew(t) /\ exec[t] # << >> /\ CopyPlace(t)
  BY <1>2 DEF Serves, PlaceInv, LastIsNew
<1>4. PICK n : n = Len(exec[t])
  OBVIOUS
<1>5. /\ n \in Nat \ {0} /\ n \in DOMAIN exec[t] /\ exec[t][n].state = "new" /\ DOMAIN exec[t] = 1 .. n
      /\ n <= tasks[t].copies /\ t \notin ToSet(tdQueue) /\ InGraph(t)
      /\ execCount[t] = tasks[t].copies - Cardinality(Done(t))
  BY <1>1, <1>2, <1>3, <1>4 DEF LastIsNew, CopyPlace
<1>7. CASE NextPredecessor
  <2>1. preds[t][i + 1] \in Task
    <3>1. x = removals[t] /\ at = "next"
      BY <1>2, <1>7 DEF NextPredecessor, Iterating
    <3>2. preds[t] \in Seq(Task) /\ i + 1 \in 1 .. Len(preds[t])
      BY <1>1, <1>2, <3>1
    <3> QED BY <3>2
  <2>2. /\ Only(t) /\ Len(exec'[t]) = n /\ exec'[t][n].state = exec[t][n].state
        /\ \A j \in 1 .. n : j # n => exec'[t][j] = exec[t][j]
    <3>1. /\ ExecutionsTyped /\ NextPredecessor /\ t \in Task /\ cursor = Iterating(at, t, i, x)
          /\ exec[t] # << >> /\ n = Len(exec[t]) /\ preds[t][i + 1] \in Task
      BY <1>1, <1>2, <1>3, <1>4, <1>7, <2>1
    <3>2. Only(t) /\ Len(exec'[t]) = n
      BY <3>1, NextPredecessorMoves
    <3>3. exec'[t][n].state = exec[t][n].state
      BY <3>1, NextPredecessorMoves
    <3>4. \A j \in 1 .. n : j # n => exec'[t][j] = exec[t][j]
      BY <3>1, NextPredecessorMoves
    <3> QED BY <3>2, <3>3, <3>4
  <2>3. cursor' = Iterating("hasNext", t, i + 1, x) /\ UNCHANGED <<tasks, tdQueue, execCount>>
    BY <1>2, <1>7 DEF NextPredecessor, Iterating, taskVars
  <2>4. \A u \in Task : SameStates(u)
    <3>1. ASSUME NEW u \in Task, u # t PROVE SameStates(u)
      BY <1>1, <2>2, <3>1 DEF SameStates, Only
    <3>2. exec'[t] \in Seq(Execution) /\ exec[t] \in Seq(Execution) /\ Len(exec[t]) = Len(exec'[t])
      BY <1>1, <1>2, <1>4, <2>2 DEF Only
    <3>3. DOMAIN exec'[t] = 1 .. n
      BY <1>4, <3>2
    <3>4. \A j \in 1 .. n : exec'[t][j].state = exec[t][j].state
      BY <2>2
    <3>5. SameStates(t)
      BY <1>5, <3>2, <3>3, <3>4 DEF SameStates
    <3> QED BY <3>1, <3>5
  <2>5. \A u \in Task : Serves(u)' => u = t
    BY <2>3, IterationsDiffer DEF Serves
  <2>6. Still(t)
    <3>1. /\ InGraph(t)' <=> InGraph(t)
          /\ Queued(TaskEnd(t))' <=> Queued(TaskEnd(t))
      BY <1>2, <2>3, SameQueue
    <3>2. SameStates(t)
      BY <1>2, <2>4
    <3> QED BY <2>3, <3>1, <3>2 DEF Still
  <2>7. CopyPlace(t)' /\ (LastIsNew(t)' <=> LastIsNew(t))
    BY <1>2, <1>3, <2>6, StillPlace
  <2> QED BY <1>2, <1>3, <2>3, <2>4, <2>5, <2>7, SameQueue, MovedPlaces
<1>8. CASE EndOfPredecessors
  <2>1. /\ Only(t) /\ exec'[t][n].state = "waiting"
        /\ \A j \in 1 .. n : j # n => exec'[t][j] = exec[t][j]
        /\ n < tasks[t].copies => /\ Len(exec'[t]) = n + 1 /\ exec'[t][n + 1] = NewOne
                                  /\ cursor' = Iterating("hasNext", t, 0, removals[t])
        /\ ~(n < tasks[t].copies) => Len(exec'[t]) = n /\ cursor' = Idle
    BY <1>1, <1>2, <1>3, <1>4, <1>8, EndOfPredecessorsMoves
  <2>2. UNCHANGED <<tasks, tdQueue, execCount>>
    BY <1>8 DEF EndOfPredecessors, taskVars
  <2>3. tasks[t].copies \in Nat
    <3>1. tasks[t] \in TaskRecord
      BY <1>5 DEF InGraph, Typed, Created, PlaceInv, TypeInv, GraphInv, Base
    <3> QED BY <3>1, CopiesAssumption DEF TaskRecord
  <2>4. exec'[t] \in Seq(Execution) /\ \A u \in Task : u # t => SameStates(u)
    BY <1>1, <1>2, <2>1 DEF SameStates, Only
  <2>5. Done(t)' = Done(t)
    <3>1. \A j \in 1 .. n : exec'[t][j].state = "done" <=> exec[t][j].state = "done"
      BY <1>5, <2>1
    <3>2. CASE n < tasks[t].copies
      <4>1. DOMAIN exec'[t] = 1 .. n + 1 /\ exec'[t][n + 1].state = "new"
        BY <2>1, <2>4, <3>2 DEF NewOne
      <4>2. \A j \in 1 .. n + 1 : j \in 1 .. n \/ j = n + 1
        BY <1>5
      <4>3. \A j \in 1 .. n : j \in 1 .. n + 1
        BY <1>5
      <4> QED BY <1>5, <3>1, <4>1, <4>2, <4>3 DEF Done
    <3>3. CASE ~(n < tasks[t].copies)
      <4>1. DOMAIN exec'[t] = 1 .. n
        BY <2>1, <2>4, <3>3
      <4> QED BY <1>5, <3>1, <4>1 DEF Done
    <3> QED BY <3>2, <3>3
  <2>6. /\ n < tasks[t].copies => LastIsNew(t)'
        /\ Len(exec'[t]) <= tasks[t].copies /\ exec'[t] # << >>
        /\ Len(exec'[t]) < tasks[t].copies => LastIsNew(t)'
    <3>1. CASE n < tasks[t].copies
      <4>1. Len(exec'[t]) = n + 1 /\ exec'[t][n + 1].state = "new"
        BY <2>1, <3>1 DEF NewOne
      <4>2. exec'[t] # << >>
        BY <1>5, <2>4, <4>1
      <4>3. LastIsNew(t)'
        BY <4>1, <4>2 DEF LastIsNew
      <4> QED BY <1>5, <2>3, <3>1, <4>1, <4>2, <4>3
    <3>2. CASE ~(n < tasks[t].copies)
      <4>1. Len(exec'[t]) = n /\ n = tasks[t].copies
        BY <1>5, <2>1, <2>3, <3>2
      <4>2. exec'[t] # << >>
        BY <1>5, <2>4, <4>1
      <4> QED BY <1>5, <3>2, <4>1, <4>2
    <3> QED BY <3>1, <3>2
  <2>7. \A u \in Task : Serves(u)' => u = t /\ n < tasks[t].copies
    BY <2>1, IterationsDiffer DEF Serves
  <2>8. CopyPlace(t)'
    <3>1. t \notin ToSet(tdQueue') /\ InGraph(t)'
      BY <1>2, <1>5, <2>2, SameQueue
    <3> QED BY <1>5, <2>2, <2>5, <2>6, <3>1 DEF CopyPlace
  <2> QED BY <1>2, <1>3, <2>2, <2>4, <2>6, <2>7, <2>8, SameQueue, MovedPlaces
<1> QED BY <1>7, <1>8

\* An execution that starts is not the new one.
LEMMA LaunchDispatch ==
    ASSUME PlaceInv, NEW t \in Task, NEW i \in DOMAIN exec[t], Launch(t, i), apQueue' = apQueue, TypeInv'
    PROVE  PlaceInv'
<1>1. ExecutionsTyped /\ exec \in [Task -> Seq(Execution)]
  BY DEF PlaceInv, TypeInv, ExecutionsTyped
<1>2. PICK n : n = Len(exec[t])
  OBVIOUS
<1>3. /\ n \in Nat /\ i \in 1 .. n /\ exec[t][i].state = "waiting"
      /\ Only(t) /\ Len(exec'[t]) = n /\ exec'[t][i].state = "running"
      /\ \A j \in 1 .. n : j # i => exec'[t][j] = exec[t][j]
  BY <1>1, <1>2, LaunchMoves, SMTT(20)
<1>4. UNCHANGED <<tasks, tdQueue, cursor, execCount>>
  BY DEF Launch, taskVars
<1>5. exec[t] # << >> /\ exec'[t] # << >> /\ DOMAIN exec[t] = 1 .. n /\ DOMAIN exec'[t] = 1 .. n
      /\ exec'[t] \in Seq(Execution)
  BY <1>1, <1>2, <1>3 DEF Only
<1>6. \A u \in Task : u # t => SameStates(u)
  BY <1>1, <1>3 DEF SameStates, Only
<1>7. Done(t)' = Done(t)
  BY <1>3, <1>5 DEF Done
<1>8. LastIsNew(t) => LastIsNew(t)'
  <2> SUFFICES ASSUME exec[t][n].state = "new" PROVE LastIsNew(t)'
    BY <1>2 DEF LastIsNew
  <2>1. n # i /\ n \in 1 .. n
    BY <1>3
  <2> QED BY <1>3, <1>5, <2>1 DEF LastIsNew
<1>9. CopyPlace(t)'
  <2>1. CopyPlace(t)
    BY DEF PlaceInv
  <2>2. t \notin ToSet(tdQueue') /\ InGraph(t)'
    BY <1>4, <1>5, <2>1, SameQueue DEF CopyPlace
  <2>3. /\ Len(exec'[t]) <= tasks[t].copies /\ (Len(exec'[t]) < tasks[t].copies => LastIsNew(t)')
        /\ execCount[t] = tasks[t].copies - Cardinality(Done(t))
    BY <1>2, <1>3, <1>5, <1>8, <2>1 DEF CopyPlace
  <2> QED BY <1>4, <1>5, <1>7, <2>2, <2>3 DEF CopyPlace
<1>10. \A u \in Task : (Serves(u)' <=> Serves(u)) /\ (Serves(u) => LastIsNew(u))
  BY <1>4 DEF Serves, PlaceInv
<1> QED BY <1>4, <1>5, <1>6, <1>8, <1>9, <1>10, SameQueue, MovedPlaces

\* An execution that ends is counted.
LEMMA CompleteDispatch ==
    ASSUME PlaceInv, NEW t \in Task, NEW i \in DOMAIN exec[t], Complete(t, i),
           apQueue' = Append(apQueue, TaskEnd(t)), TypeInv'
    PROVE  PlaceInv'
<1>1. ExecutionsTyped /\ exec \in [Task -> Seq(Execution)] /\ CountsTyped /\ Base
  BY DEF PlaceInv, TypeInv, ExecutionsTyped, GraphInv
<1>2. /\ exec[t][i].state = "running" /\ exec'[t][i].state = "done" /\ cursor = Idle
      /\ exec' \in [Task -> Seq(Execution)]
  BY <1>1, CompleteMoves
<1>3. \A u \in Task : Len(exec'[u]) = Len(exec[u]) /\ DOMAIN exec'[u] = DOMAIN exec[u]
  BY <1>1, CompleteMoves
<1>4. \A u \in Task : \A k \in DOMAIN exec[u] : u # t \/ k # i => exec'[u][k].state = exec[u][k].state
  BY <1>1, CompleteMoves
<1>5. /\ execCount' = [execCount EXCEPT ![t] = @ - 1]
      /\ UNCHANGED <<tasks, tdQueue, cursor>>
  BY DEF Complete
<1>6. \A u \in Task : u # t => SameStates(u)
  BY <1>1, <1>2, <1>3, <1>4 DEF SameStates
<1>7. \A q : Queued(q)' <=> Queued(q) \/ q = TaskEnd(t)
  BY <1>1, RequestOffered, RequestsAre DEF Base
<1>8. PICK n : n = Len(exec[t])
  OBVIOUS
<1>9. n \in Nat /\ DOMAIN exec[t] = 1 .. n /\ exec[t] # << >> /\ exec'[t] # << >> /\ Len(exec'[t]) = n
  BY <1>1, <1>2, <1>3, <1>8
<1>10. Cardinality(Done(t)') = Cardinality(Done(t)) + 1 /\ Cardinality(Done(t)) \in Nat
  <2>1. Done(t)' = Done(t) \cup {i} /\ i \notin Done(t)
    BY <1>2, <1>3, <1>4 DEF Done
  <2>2. IsFiniteSet(1 .. n) /\ Done(t) \in SUBSET (1 .. n)
    BY <1>9, FS_Interval DEF Done
  <2>3. IsFiniteSet(Done(t))
    BY <2>2, FS_Subset
  <2> QED BY <2>1, <2>3, FS_AddElement, FS_CardinalityType
<1>11. LastIsNew(t) => LastIsNew(t)'
  <2> SUFFICES ASSUME exec[t][n].state = "new" PROVE LastIsNew(t)'
    BY <1>8 DEF LastIsNew
  <2>1. n # i /\ n \in DOMAIN exec[t]
    BY <1>2, <1>9
  <2> QED BY <1>4, <1>9, <2>1 DEF LastIsNew
<1>12. CopyPlace(t)'
  <2>1. CopyPlace(t)
    BY DEF PlaceInv
  <2>2. t \notin ToSet(tdQueue) /\ InGraph(t)
    BY <1>9, <2>1 DEF CopyPlace
  <2>3. InGraph(t)'
    BY <1>5, <1>7, <2>2, RequestsDiffer DEF InGraph, Created
  <2>4. /\ Len(exec'[t]) <= tasks[t].copies /\ (Len(exec'[t]) < tasks[t].copies => LastIsNew(t)')
        /\ execCount[t] = tasks[t].copies - Cardinality(Done(t))
    BY <1>8, <1>9, <1>11, <2>1 DEF CopyPlace
  <2>5. execCount'[t] = execCount[t] - 1 /\ execCount[t] \in Int
    BY <1>1, <1>5 DEF CountsTyped
  <2>6. tasks[t].copies \in Nat
    <3>1. tasks[t] \in TaskRecord
      BY <1>1, <2>2 DEF InGraph, Typed, Created, Base
    <3> QED BY <3>1, CopiesAssumption DEF TaskRecord
  <2>7. execCount'[t] = tasks'[t].copies - Cardinality(Done(t)')
    <3>1. \A c, k \in Nat : (c - k) - 1 = c - (k + 1)
      OBVIOUS
    <3>2. execCount[t] = tasks[t].copies - Cardinality(Done(t)) /\ tasks' = tasks
      BY <1>5, <2>4
    <3> QED BY <1>10, <2>5, <2>6, <3>1, <3>2
  <2> QED BY <1>5, <1>9, <2>2, <2>3, <2>4, <2>7 DEF CopyPlace
<1>13. \A u \in Task : ~Serves(u) /\ ~Serves(u)'
  BY <1>2, <1>5, IterationsDiffer DEF Serves
<1>14. \A u \in Task : /\ Queued(Analyse(u))' <=> Queued(Analyse(u))
                       /\ Queued(TaskEnd(u))' => Queued(TaskEnd(u)) \/ u = t
                       /\ u # t => execCount'[u] = execCount[u]
  BY <1>1, <1>5, <1>7, RequestsDiffer DEF CountsTyped
<1> QED BY <1>5, <1>6, <1>9, <1>12, <1>13, <1>14, MovedPlaces

\* Every step keeps the places.
LEMMA PlacesStay == PlaceInv /\ [Next]_vars => PlaceInv'
<1> SUFFICES ASSUME PlaceInv, [Next]_vars PROVE PlaceInv'
  OBVIOUS
<1>1. TypeInv'
  BY TypesStay DEF PlaceInv
<1>2. Base
  BY DEF PlaceInv, TypeInv, GraphInv
<1>3. CASE ServeAnalyse
  BY <1>1, <1>3, ServeAnalyseDispatch
<1>4. CASE TakeRequest /\ apQueue' = apQueue
  BY <1>1, <1>4, TakeRequestDispatch
<1>5. CASE (EndOfPredecessors \/ NextPredecessor) /\ apQueue' = apQueue
  BY <1>1, <1>5, IterationDispatch
<1>6. CASE \E t \in Task : \E i \in DOMAIN exec[t] : LaunchExecution(t, i) \/ CompleteExecution(t, i)
  BY <1>1, <1>6, LaunchDispatch, CompleteDispatch DEF LaunchExecution, CompleteExecution
<1>7. ASSUME UNCHANGED <<tdQueue, exec, execCount>>, ~ServeAnalyse,
             cursor' = cursor \/ cursor' = Idle \/ (cursor' = [cursor EXCEPT !.at = "next"] /\ HasNext),
             \/ apQueue' = apQueue
             \/ \E r \in Request : apQueue' = Append(apQueue, r) /\ \A u : r # TaskEnd(u)
             \/ \E kind : Serving(kind)
      PROVE  PlaceInv'
  <2>1. \A u \in Task : Serves(u)' => Serves(u)
    <3>1. CASE cursor' = cursor \/ cursor' = Idle
      BY <3>1, IterationsDiffer DEF Serves
    <3>2. CASE cursor' = [cursor EXCEPT !.at = "next"] /\ HasNext
      <4>1. PICK at, t, i, x : cursor = Iterating(at, t, i, x)
        BY <3>2 DEF HasNext, PlaceInv, TypeInv, IteratorInv, Idle
      <4>2. cursor' = Iterating("next", t, i, x)
        BY <3>2, <4>1 DEF Iterating
      <4> QED BY <4>1, <4>2, IterationsDiffer DEF Serves
    <3> QED BY <1>7, <3>1, <3>2
  <2>2. \A u \in Task : Queued(TaskEnd(u))' => Queued(TaskEnd(u))
    <3>1. CASE apQueue' = apQueue
      BY <3>1 DEF Queued
    <3>2. CASE \E r \in Request : apQueue' = Append(apQueue, r) /\ \A u : r # TaskEnd(u)
      BY <1>2, <3>2, RequestOffered DEF Base
    <3>3. CASE \E kind : Serving(kind)
      BY <1>2, <3>3, RequestServed DEF Base
    <3> QED BY <1>7, <3>1, <3>2, <3>3
  <2> QED BY <1>1, <1>7, <2>1, <2>2, OtherPlaces
<1>8. CASE \/ \E a \in Apps : \/ MainStep(a)
                              \/ \E access \in MainAccesses : MainAccess(a, access)
                              \/ CallBarrier(a)
                              \/ CallNoMoreTasks(a)
                              \/ \E params \in Signatures, copies \in Copies : NewTask(a, params, copies)
  <2>1. UNCHANGED <<tdQueue, exec, execCount, cursor>>
    BY <1>8 DEF MainStep, Registration, WaitReturns, BarrierReturns, NoMoreTasksReturns, CallBarrier,
              CallNoMoreTasks, MainAccess, NewTask, Resume, dispatcherVars, taskVars
  <2>2. \/ apQueue' = apQueue
        \/ \E u \in Task : apQueue' = Append(apQueue, Analyse(u))
        \/ \E a \in Apps : \E r \in {Register(a), WaitForTask(a), BarrierRequest(a), EndOfApp(a)} :
              apQueue' = Append(apQueue, r)
    BY <1>8 DEF MainStep, Registration, WaitReturns, BarrierReturns, NoMoreTasksReturns, CallBarrier,
              CallNoMoreTasks, MainAccess, NewTask
  <2>3. apQueue' = apQueue \/ \E r \in Request : apQueue' = Append(apQueue, r) /\ \A u : r # TaskEnd(u)
    BY <2>2, RequestsAre, RequestsDiffer
  <2>4. CASE ~ServeAnalyse
    BY <1>7, <2>1, <2>3, <2>4
  <2> QED BY <1>3, <2>4
<1>9. CASE Serve
  <2>1. CASE ~ServeAnalyse
    <3>1. UNCHANGED <<tdQueue, exec, execCount, cursor>>
      BY <1>9, <2>1 DEF Serve, ServeTaskEnd, ServeRegister, ServeWaitForTask, ServeBarrier, ServeEndOfApp,
                EndTask, RegisterAccess, FindWaitedTask, Barrier, NoMoreTasks, taskVars, dispatcherVars
    <3>2. \E kind : Serving(kind)
      BY <1>9 DEF Serve, ServeAnalyse, ServeTaskEnd, ServeRegister, ServeWaitForTask, ServeBarrier,
                  ServeEndOfApp
    <3> QED BY <1>7, <2>1, <3>1, <3>2
  <2> QED BY <1>3, <2>1
<1>10. CASE (HasNext \/ DropRequest) /\ apQueue' = apQueue
  <2>1. UNCHANGED <<tdQueue, exec, execCount>>
    BY <1>10 DEF HasNext, DropRequest, taskVars
  <2>2. cursor' = cursor \/ cursor' = Idle \/ (cursor' = [cursor EXCEPT !.at = "next"] /\ HasNext)
    BY <1>10 DEF HasNext, DropRequest
  <2>3. CASE ~ServeAnalyse
    BY <1>7, <1>10, <2>1, <2>2, <2>3
  <2> QED BY <1>3, <2>3
<1>11. CASE UNCHANGED vars
  <2>1. UNCHANGED <<tdQueue, exec, execCount, cursor, apQueue>>
    BY <1>11 DEF vars, dispatcherVars, taskVars
  <2> QED BY <1>3, <1>7, <2>1
<1> QED BY <1>4, <1>5, <1>6, <1>8, <1>9, <1>10, <1>11 DEF Next, DispatcherStep

-----------------------------------------------------------------------------
(* A task that has finished.                                               *)

\* What a step does to the executions.
LEMMA ExecutionSteps ==
    ASSUME [Next]_vars
    PROVE  \/ exec' = exec /\ (cursor' = cursor \/ cursor' = Idle \/ HasNext)
           \/ TakeRequest \/ EndOfPredecessors \/ NextPredecessor
           \/ \E t \in Task : \E i \in DOMAIN exec[t] : Launch(t, i) \/ Complete(t, i)
<1>1. CASE \/ \E a \in Apps : \/ MainStep(a)
                              \/ \E access \in MainAccesses : MainAccess(a, access)
                              \/ CallBarrier(a)
                              \/ CallNoMoreTasks(a)
                              \/ \E params \in Signatures, copies \in Copies : NewTask(a, params, copies)
  BY <1>1 DEF MainStep, Registration, WaitReturns, BarrierReturns, NoMoreTasksReturns, CallBarrier,
            CallNoMoreTasks, MainAccess, NewTask, dispatcherVars
<1>2. CASE Serve
  BY <1>2 DEF Serve, ServeAnalyse, ServeTaskEnd, ServeRegister, ServeWaitForTask, ServeBarrier,
            ServeEndOfApp, dispatcherVars
<1>3. CASE DispatcherStep
  BY <1>3 DEF DispatcherStep, HasNext, DropRequest
<1>4. CASE \E t \in Task : \E i \in DOMAIN exec[t] : LaunchExecution(t, i) \/ CompleteExecution(t, i)
  BY <1>4 DEF LaunchExecution, CompleteExecution
<1>5. CASE UNCHANGED vars
  BY <1>5 DEF vars, dispatcherVars
<1> QED BY <1>1, <1>2, <1>3, <1>4, <1>5 DEF Next

\* A task that has finished has no execution to run and none to come.
LEMMA FinishedStays ==
    ASSUME PlaceInv, [Next]_vars, NEW w \in Task, Finished(w)
    PROVE  Finished(w)'
<1>1. /\ Base /\ ExecutionsTyped /\ exec \in [Task -> Seq(Execution)] /\ CopyPlace(w)
      /\ preds \in [Task -> Seq(Task)] /\ IteratorInv
  BY DEF PlaceInv, TypeInv, GraphInv, ExecutionsTyped
<1>2. w \in Created /\ w \in Created' /\ tasks'[w] = tasks[w]
  BY <1>1, TasksKept DEF Finished
<1>3. /\ exec[w] # << >> /\ ~LastIsNew(w)
      /\ Len(exec[w]) = tasks[w].copies /\ \A i \in DOMAIN exec[w] : exec[w][i].state = "done"
  <2>1. tasks[w] \in TaskRecord
    BY <1>1, <1>2 DEF Base, Typed, Created
  <2>2. tasks[w].copies \in Nat \ {0}
    BY <2>1, CopiesAssumption DEF TaskRecord
  <2>3. Len(exec[w]) \in Nat \ {0} /\ exec[w] \in Seq(Execution)
    BY <1>1, <2>2 DEF Finished
  <2>4. exec[w] # << >> /\ Len(exec[w]) \in DOMAIN exec[w]
    BY <2>3
  <2> QED BY <2>4 DEF LastIsNew, Finished
<1>4. w \notin ToSet(tdQueue) /\ ~Serves(w)
  BY <1>1, <1>3 DEF CopyPlace, PlaceInv
<1>5. \A u \in Task : u # w /\ Only(u) => exec'[w] = exec[w]
  BY DEF Only
<1>6. CASE exec' = exec
  BY <1>2, <1>6 DEF Finished
<1>7. CASE TakeRequest
  <2>1. PICK t, n : t = Head(tdQueue) /\ n = Len(exec[t])
    OBVIOUS
  <2>2. t \in Task /\ Only(t) /\ ToSet(tdQueue) = ToSet(tdQueue') \cup {t}
    BY <1>1, <1>7, <2>1, TakeRequestMoves
  <2> QED BY <1>2, <1>4, <1>5, <2>2 DEF Finished
<1>8. CASE EndOfPredecessors \/ NextPredecessor
  <2>1. PICK at, t, i, x :
          /\ cursor = Iterating(at, t, i, x) /\ t \in Task /\ i \in Nat /\ exec[t] # << >>
          /\ at = "next" /\ x = removals[t] => i < Len(preds[t])
    BY <1>1, <1>8 DEF IteratorInv, EndOfPredecessors, NextPredecessor, Idle
  <2>2. t # w
    BY <1>4, <2>1 DEF Serves
  <2>3. PICK n : n = Len(exec[t])
    OBVIOUS
  <2>4. Only(t)
    <3>1. CASE EndOfPredecessors
      BY <1>1, <2>1, <2>3, <3>1, EndOfPredecessorsMoves
    <3>2. CASE NextPredecessor
      <4>1. x = removals[t] /\ at = "next"
        BY <2>1, <3>2 DEF NextPredecessor, Iterating
      <4>2. preds[t] \in Seq(Task) /\ i + 1 \in 1 .. Len(preds[t])
        BY <1>1, <2>1, <4>1
      <4>3. preds[t][i + 1] \in Task
        BY <4>2
      <4> QED BY <1>1, <2>1, <2>3, <3>2, <4>3, NextPredecessorMoves
    <3> QED BY <1>8, <3>1, <3>2
  <2> QED BY <1>2, <1>5, <2>1, <2>2, <2>4 DEF Finished
<1>9. CASE \E t \in Task : \E i \in DOMAIN exec[t] : Launch(t, i)
  <2>1. PICK t \in Task : \E i \in DOMAIN exec[t] : Launch(t, i)
    BY <1>9
  <2>2. PICK i \in DOMAIN exec[t] : Launch(t, i)
    BY <2>1
  <2>3. PICK n : n = Len(exec[t])
    OBVIOUS
  <2>4. Only(t) /\ exec[t][i].state = "waiting"
    BY <1>1, <2>2, <2>3, LaunchMoves
  <2>5. t # w
    BY <1>3, <2>4
  <2> QED BY <1>2, <1>5, <2>4, <2>5 DEF Finished
<1>10. CASE \E t \in Task : \E i \in DOMAIN exec[t] : Complete(t, i)
  <2>1. PICK t \in Task : \E i \in DOMAIN exec[t] : Complete(t, i)
    BY <1>10
  <2>2. PICK i \in DOMAIN exec[t] : Complete(t, i)
    BY <2>1
  <2>3. exec[t][i].state = "running"
    BY <1>1, <2>2, CompleteMoves
  <2>4. t # w
    BY <1>3, <2>3
  <2>5. Len(exec'[w]) = Len(exec[w]) /\ DOMAIN exec'[w] = DOMAIN exec[w]
    BY <1>1, <2>2, CompleteMoves
  <2>6. \A k \in DOMAIN exec[w] : exec'[w][k].state = exec[w][k].state
    BY <1>1, <2>2, <2>4, CompleteMoves
  <2> QED BY <1>2, <1>3, <2>5, <2>6 DEF Finished
<1> QED BY <1>6, <1>7, <1>8, <1>9, <1>10, ExecutionSteps

\* A task whose executions have all ended has finished once a later one has executions:
\* its turn to be dispatched has passed.
LEMMA AllDone ==
    ASSUME PlaceInv, NEW w \in Task, NEW t \in Task, w < t, exec[t] # << >>, InGraph(w),
           \A i \in DOMAIN exec[w] : exec[w][i].state = "done"
    PROVE  Finished(w)
<1>1. w \notin ToSet(tdQueue)
  BY DEF PlaceInv, DispatchOrder
<1>2. CopyPlace(w) /\ exec[w] # << >> /\ w \in Created /\ exec[w] \in Seq(Execution)
  BY <1>1 DEF PlaceInv, TypeInv, ExecutionsTyped, CopyPlace, InGraph
<1>3. ~LastIsNew(w)
  BY <1>2 DEF LastIsNew
<1>4. tasks[w].copies \in Nat
  <2>1. tasks[w] \in TaskRecord
    BY <1>2 DEF PlaceInv, TypeInv, GraphInv, Base, Typed, Created
  <2> QED BY <2>1, CopiesAssumption DEF TaskRecord
<1>5. Len(exec[w]) = tasks[w].copies
  BY <1>2, <1>3, <1>4 DEF CopyPlace
<1> QED BY <1>2, <1>5 DEF Finished

\* When the count of a task with executions is zero, it has finished.
LEMMA CountedOut ==
    ASSUME PlaceInv, NEW w \in Task, exec[w] # << >>, IsFree(w)
    PROVE  Finished(w)
<1>1. CopyPlace(w) /\ exec[w] \in Seq(Execution)
  BY DEF PlaceInv, TypeInv, ExecutionsTyped
<1>2. InGraph(w) /\ w \in Created
  BY <1>1 DEF CopyPlace, InGraph
<1>3. tasks[w].copies \in Nat
  <2>1. tasks[w] \in TaskRecord
    BY <1>2 DEF PlaceInv, TypeInv, GraphInv, Base, Typed, Created
  <2> QED BY <2>1, CopiesAssumption DEF TaskRecord
<1>4. PICK n : n = Len(exec[w])
  OBVIOUS
<1>5. /\ n \in Nat /\ DOMAIN exec[w] = 1 .. n /\ n <= tasks[w].copies
      /\ 0 = tasks[w].copies - Cardinality(Done(w))
  BY <1>1, <1>4 DEF CopyPlace, IsFree
<1>6. /\ IsFiniteSet(1 .. n) /\ Cardinality(1 .. n) = n /\ Done(w) \in SUBSET (1 .. n)
  BY <1>5, FS_Interval DEF Done
<1>7. /\ Cardinality(Done(w)) \in Nat /\ Cardinality(Done(w)) <= n
      /\ Cardinality(Done(w)) = n => Done(w) = 1 .. n
  BY <1>6, FS_Subset, FS_CardinalityType
<1>8. Done(w) = 1 .. n /\ n = tasks[w].copies
  BY <1>3, <1>5, <1>7
<1> QED BY <1>2, <1>4, <1>5, <1>8 DEF Done, Finished

-----------------------------------------------------------------------------
(* The tasks a task needs.                                                 *)

\* A version a task reads exists once its own writes are counted.
LEMMA ReadsWithin ==
    ASSUME NEW v \in [Data -> Nat], NEW params \in Seq(Parameter), NEW r \in ReadsIn(v, params)
    PROVE  \E i \in DOMAIN params :
              /\ params[i].mode # "W" /\ params[i].datum = r[1] /\ r[1] \in Data
              /\ Cardinality(EarlierWrites(params, i)) \in Nat
              /\ r[2] = RegisteredIn(v, r[1]) + Cardinality(EarlierWrites(params, i))
              /\ r[2] \in 1 .. AfterTask(v, params)[r[1]]
<1>1. PICK i \in DOMAIN params :
        /\ params[i].mode # "W"
        /\ r = <<params[i].datum,
                 RegisteredIn(v, params[i].datum) + Cardinality(EarlierWrites(params, i))>>
  BY DEF ReadsIn
<1>2. PICK d : d = params[i].datum
  OBVIOUS
<1>3. d \in Data /\ r[1] = d /\ r[2] = RegisteredIn(v, d) + Cardinality(EarlierWrites(params, i))
  BY <1>1, <1>2, ParametersCounted
<1>4. AfterTask(v, params)[d] = RegisteredIn(v, d) + WritesOf(params, d)
  BY <1>2, <1>3 DEF AfterTask
<1>5. PICK n : n = Len(params)
  OBVIOUS
<1>6. n \in Nat /\ DOMAIN params = 1 .. n
  BY <1>5
<1>7. PICK W : W = {j \in DOMAIN params : params[j].datum = d /\ params[j].mode # "R"}
  OBVIOUS
<1>8. EarlierWrites(params, i) \in SUBSET W
  <2>1. i \in 1 .. n /\ \A j \in 1 .. i - 1 : j \in 1 .. n
    BY <1>1, <1>6
  <2> QED BY <1>2, <1>6, <1>7, <2>1 DEF EarlierWrites
<1>9. IsFiniteSet(W)
  <2>1. IsFiniteSet(1 .. n) /\ W \in SUBSET (1 .. n)
    BY <1>6, <1>7, FS_Interval
  <2> QED BY <2>1, FS_Subset
<1>10. Cardinality(EarlierWrites(params, i)) <= Cardinality(W)
  BY <1>8, <1>9, FS_Subset
<1>11. Cardinality(EarlierWrites(params, i)) \in Nat /\ Cardinality(W) \in Nat
  BY <1>8, <1>9, FS_Subset, FS_CardinalityType
<1>12. RegisteredIn(v, d) \in Nat \ {0}
  BY <1>3 DEF RegisteredIn
<1>13. WritesOf(params, d) = Cardinality(W)
  BY <1>7 DEF WritesOf
<1>14. r[2] \in 1 .. AfterTask(v, params)[d]
  BY <1>3, <1>4, <1>10, <1>11, <1>12, <1>13
<1> QED BY <1>1, <1>2, <1>3, <1>11, <1>14

\* What a step does to the history.
LEMMA HistorySteps ==
    ASSUME [Next]_vars
    PROVE  \/ UNCHANGED <<tasks, authors, wanted>>
           \/ \E a \in Apps, access \in MainAccesses : MainAccess(a, access)
           \/ \E a \in Apps, params \in Signatures, copies \in Copies : NewTask(a, params, copies)
<1>1. CASE \/ \E a \in Apps : MainStep(a) \/ CallBarrier(a) \/ CallNoMoreTasks(a)
  BY <1>1 DEF MainStep, Registration, WaitReturns, BarrierReturns, NoMoreTasksReturns, CallBarrier,
            CallNoMoreTasks, Resume, historyVars, taskVars
<1>2. CASE Serve
  BY <1>2 DEF Serve, ServeAnalyse, ServeTaskEnd, ServeRegister, ServeWaitForTask, ServeBarrier,
            ServeEndOfApp, ProcessTask, EndTask, RegisterAccess, FindWaitedTask, Barrier, NoMoreTasks,
            historyVars, taskVars
<1>3. CASE DispatcherStep
  BY <1>3 DEF DispatcherStep, TakeRequest, HasNext, EndOfPredecessors, NextPredecessor, DropRequest,
            historyVars, taskVars
<1>4. CASE \E t \in Task : \E i \in DOMAIN exec[t] : LaunchExecution(t, i) \/ CompleteExecution(t, i)
  BY <1>4 DEF LaunchExecution, CompleteExecution, Launch, Complete, historyVars, taskVars
<1>5. CASE UNCHANGED vars
  BY <1>5 DEF vars, historyVars, taskVars
<1> QED BY <1>1, <1>2, <1>3, <1>4, <1>5 DEF Next

\* The authors are tasks that were generated, and a task reads what was written before it
\* or by itself.
AuthorInv ==
    /\ \A t \in Created : tasks[t].params \in Signatures
    /\ \A d \in Data : \A k \in 1 .. Len(authors[d]) : authors[d][k] \in Task => authors[d][k] \in Created
    /\ \A t \in Created : \A r \in wanted[t] :
          /\ r[1] \in Data /\ r[2] \in 1 .. Len(authors[r[1]])
          /\ authors[r[1]][r[2]] \in Task => authors[r[1]][r[2]] <= t

\* The runtime starts with no author.
LEMMA AuthorsHoldFirst == Init => AuthorInv
BY DEF Init, AnalyserInit, AuthorInv, Created

\* A task is the author of what it writes.
LEMMA NewTaskAuthors ==
    ASSUME Base, AuthorInv, NEW a \in Apps, NEW params \in Signatures, NEW copies \in Copies,
           NewTask(a, params, copies)
    PROVE  AuthorsKept /\ AuthorInv' /\ \A u \in Created : wanted'[u] = wanted[u]
<1>1. PICK t : t = Len(tasks) + 1
  OBVIOUS
<1>2. /\ t \in Task /\ t \notin Created /\ params \in Seq(Parameter) /\ Created' = Created \cup {t}
      /\ \A u \in Created : u < t /\ tasks'[u] = tasks[u]
  BY <1>1, TaskRecorded, NewTaskSubmits DEF Base, Submits
<1>3. tasks'[t] = [app |-> a, params |-> params, copies |-> copies]
  BY <1>1, TaskRecorded DEF Base
<1>4. /\ wanted' = [wanted EXCEPT ![t] = VersionsWanted(params)]
      /\ authors' = [d \in Data |-> AuthorsAfter(d, params, t)]
  BY <1>1 DEF NewTask
<1>5. PICK v : v = [d \in Data |-> Len(authors[d])]
  OBVIOUS
<1>6. v \in [Data -> Nat] /\ \A d \in Data : v[d] = Len(authors[d])
  <2>1. \A d \in Data : Len(authors[d]) \in Nat
    BY DEF Base, Typed
  <2> QED BY <1>5, <2>1
<1>7. PICK w : w = AfterTask(v, params)
  OBVIOUS
<1>8. AuthorsKept
  BY <1>2, <1>4, <1>6, <1>7, TaskMakes DEF Base
<1>9. Makes(v, w, Analyse(t))'
  BY <1>2, <1>4, <1>6, <1>7, TaskMakes DEF Base
<1>10. VersionsWanted(params) = ReadsIn(v, params) /\ \A d \in Data : w[d] = Len(authors'[d])
  <2>1. \A d \in Data : authors'[d] = AuthorsAfter(d, params, t)
    BY <1>4
  <2>2. VersionsWanted(params) = ReadsIn(v, params)
    BY <1>2, <1>6, EndOfHistory DEF Base
  <2>3. \A d \in Data : w[d] = Len(AuthorsAfter(d, params, t))
    BY <1>2, <1>6, <1>7, EndOfHistory DEF Base
  <2> QED BY <2>1, <2>2, <2>3
<1>11. \A u \in Created : wanted'[u] = wanted[u]
  BY <1>2, <1>4 DEF Base, Typed
<1>12. wanted'[t] = ReadsIn(v, params)
  BY <1>2, <1>4, <1>10 DEF Base, Typed
<1>13. ASSUME NEW d \in Data, NEW k \in 1 .. Len(authors'[d]), authors'[d][k] \in Task
       PROVE  authors'[d][k] \in Created'
  <2>1. CASE RegisteredIn(v, d) < k
    <3>1. AuthorOf(Analyse(t)) = t
      BY DEF AuthorOf, Analyse
    <3>2. authors'[d][k] = t
      BY <1>9, <1>10, <1>13, <2>1, <3>1 DEF Makes
    <3> QED BY <1>2, <3>2
  <2>2. CASE ~(RegisteredIn(v, d) < k) /\ v[d] = 0
    <3>1. k = 1 /\ w[d] # 0
      BY <1>6, <1>8, <1>10, <1>13, <2>2 DEF RegisteredIn, AuthorsKept
    <3>2. authors'[d][k] = NoTask
      BY <1>9, <2>2, <3>1 DEF Makes
    <3> QED BY <1>13, <3>2 DEF Task, NoTask
  <2>3. CASE ~(RegisteredIn(v, d) < k) /\ v[d] # 0
    <3>1. k \in 1 .. Len(authors[d])
      BY <1>6, <1>8, <1>13, <2>3 DEF RegisteredIn, AuthorsKept
    <3>2. authors'[d][k] = authors[d][k]
      BY <1>8, <3>1 DEF AuthorsKept
    <3> QED BY <1>2, <1>13, <3>1, <3>2 DEF AuthorInv
  <2> QED BY <2>1, <2>2, <2>3
<1>14. ASSUME NEW u \in Created', NEW r \in wanted'[u]
       PROVE  /\ r[1] \in Data /\ r[2] \in 1 .. Len(authors'[r[1]])
              /\ authors'[r[1]][r[2]] \in Task => authors'[r[1]][r[2]] <= u
  <2>1. CASE u \in Created
    <3>1. /\ r[1] \in Data /\ r[2] \in 1 .. Len(authors[r[1]])
          /\ authors[r[1]][r[2]] \in Task => authors[r[1]][r[2]] <= u
      BY <1>11, <1>14, <2>1 DEF AuthorInv
    <3>2. authors'[r[1]][r[2]] = authors[r[1]][r[2]] /\ r[2] \in 1 .. Len(authors'[r[1]])
      BY <1>8, <3>1 DEF AuthorsKept
    <3> QED BY <3>1, <3>2
  <2>2. CASE u = t
    <3>1. r \in ReadsIn(v, params)
      BY <1>12, <1>14, <2>2
    <3>2. r[1] \in Data /\ r[2] \in 1 .. w[r[1]]
      BY <1>2, <1>6, <1>7, <3>1, ReadsWithin
    <3>3. r[2] \in 1 .. Len(authors'[r[1]])
      BY <1>10, <3>2
    <3>4. ASSUME authors'[r[1]][r[2]] \in Task PROVE authors'[r[1]][r[2]] <= t
      <4>1. authors'[r[1]][r[2]] \in Created'
        BY <1>13, <3>2, <3>3, <3>4
      <4> QED BY <1>2, <3>4, <4>1 DEF Task
    <3> QED BY <2>2, <3>2, <3>3, <3>4
  <2> QED BY <1>2, <2>1, <2>2
<1>15. \A u \in Created' : tasks'[u].params \in Signatures
  BY <1>2, <1>3 DEF AuthorInv
<1> QED BY <1>8, <1>11, <1>13, <1>14, <1>15 DEF AuthorInv

\* A program is the author of what it writes.
LEMMA MainAccessAuthors ==
    ASSUME Base, AuthorInv, NEW a \in Apps, NEW access \in MainAccesses, MainAccess(a, access)
    PROVE  AuthorsKept /\ AuthorInv' /\ UNCHANGED <<tasks, wanted>>
<1>1. PICK d : d = access.datum
  OBVIOUS
<1>2. d \in Data
  BY <1>1, MainAccessesAssumption
<1>3. UNCHANGED <<tasks, wanted>>
  BY DEF MainAccess, taskVars
<1>4. authors' = [authors EXCEPT ![d] = IF access.mode = "R" THEN authors[d] ELSE Append(authors[d], a)]
  BY <1>1 DEF MainAccess
<1>5. PICK s : s = authors[d]
  OBVIOUS
<1>6. s \in Seq(Author) /\ a \in Author
  BY <1>2, <1>5 DEF Base, Typed, Author
<1>7. \A c \in Data : c # d \/ access.mode = "R" => authors'[c] = authors[c]
  BY <1>2, <1>4 DEF Base, Typed
<1>8. access.mode # "R" => authors'[d] = Append(s, a)
  BY <1>2, <1>4, <1>5 DEF Base, Typed
<1>9. /\ Len(s) \in Nat /\ Len(Append(s, a)) = Len(s) + 1 /\ Append(s, a)[Len(s) + 1] = a
      /\ \A k \in 1 .. Len(s) : Append(s, a)[k] = s[k]
  BY <1>6, AppendIndexes
<1>10. \A c \in Data : Len(authors[c]) \in Nat
  BY DEF Base, Typed
<1>11. AuthorsKept
  <2> SUFFICES ASSUME NEW c \in Data
               PROVE  /\ Len(authors[c]) \in Nat /\ Len(authors'[c]) \in Nat
                      /\ Len(authors[c]) <= Len(authors'[c])
                      /\ \A k \in 1 .. Len(authors[c]) : authors'[c][k] = authors[c][k]
    BY DEF AuthorsKept
  <2>1. CASE c # d \/ access.mode = "R"
    BY <1>7, <1>10, <2>1
  <2>2. CASE c = d /\ access.mode # "R"
    BY <1>5, <1>8, <1>9, <2>2
  <2> QED BY <2>1, <2>2
<1>12. ASSUME NEW c \in Data, NEW k \in 1 .. Len(authors'[c]), authors'[c][k] \in Task
       PROVE  authors'[c][k] \in Created
  <2>1. CASE c # d \/ access.mode = "R"
    BY <1>7, <1>12, <2>1 DEF AuthorInv
  <2>2. CASE c = d /\ access.mode # "R"
    <3>1. authors'[c][k] # a
      BY <1>12, ProgramsAssumption
    <3>2. authors'[c] = Append(s, a) /\ k \in 1 .. Len(s) + 1
      BY <1>8, <1>9, <1>12, <2>2
    <3>3. k \in 1 .. Len(s)
      BY <1>9, <3>1, <3>2
    <3> QED BY <1>5, <1>9, <1>12, <2>2, <3>2, <3>3 DEF AuthorInv
  <2> QED BY <2>1, <2>2
<1>13. ASSUME NEW u \in Created, NEW r \in wanted[u]
       PROVE  /\ r[1] \in Data /\ r[2] \in 1 .. Len(authors'[r[1]])
              /\ authors'[r[1]][r[2]] \in Task => authors'[r[1]][r[2]] <= u
  <2>1. /\ r[1] \in Data /\ r[2] \in 1 .. Len(authors[r[1]])
        /\ authors[r[1]][r[2]] \in Task => authors[r[1]][r[2]] <= u
    BY <1>13 DEF AuthorInv
  <2>2. authors'[r[1]][r[2]] = authors[r[1]][r[2]] /\ r[2] \in 1 .. Len(authors'[r[1]])
    BY <1>11, <2>1 DEF AuthorsKept
  <2> QED BY <2>1, <2>2
<1>14. Created' = Created
  BY <1>3 DEF Created
<1> QED BY <1>3, <1>11, <1>12, <1>13, <1>14 DEF AuthorInv

\* Every step keeps the authors of the versions there are, and what the tasks read.
LEMMA AuthorsStay ==
    ASSUME Base, AuthorInv, [Next]_vars
    PROVE  AuthorsKept /\ AuthorInv' /\ \A u \in Created : wanted'[u] = wanted[u]
<1>1. CASE UNCHANGED <<tasks, authors, wanted>>
  <2>1. \A d \in Data : Len(authors[d]) \in Nat
    BY DEF Base, Typed
  <2>2. AuthorsKept
    BY <1>1, <2>1 DEF AuthorsKept
  <2> QED BY <1>1, <2>2 DEF AuthorInv, Created
<1>2. CASE \E a \in Apps, access \in MainAccesses : MainAccess(a, access)
  BY <1>2, MainAccessAuthors
<1>3. CASE \E a \in Apps, params \in Signatures, copies \in Copies : NewTask(a, params, copies)
  BY <1>3, NewTaskAuthors
<1> QED BY <1>1, <1>2, <1>3, HistorySteps

\* A task needs tasks that were generated before it.
LEMMA NeedsEarlier ==
    ASSUME Typed, AuthorInv, NEW t \in Created, NEW w \in NeedsOf(t)
    PROVE  w \in Task /\ w \in Created /\ w < t
<1>1. w \in Task /\ w # t /\ t \in Task
  BY DEF NeedsOf, Typed
<1>2. PICK r \in wanted[t] : w = authors[r[1]][r[2]]
  BY DEF NeedsOf
<1>3. w \in Created /\ w <= t
  BY <1>1, <1>2 DEF AuthorInv
<1> QED BY <1>1, <1>3 DEF Task

\* What a task needs is settled when it is generated.
LEMMA NeedsStay ==
    ASSUME Base, AuthorInv, [Next]_vars, NEW t \in Created
    PROVE  NeedsOf(t)' = NeedsOf(t)
<1>1. wanted'[t] = wanted[t] /\ AuthorsKept
  BY AuthorsStay
<1>2. \A r \in wanted[t] : authors'[r[1]][r[2]] = authors[r[1]][r[2]]
  BY <1>1 DEF AuthorInv, AuthorsKept
<1>3. {authors'[r[1]][r[2]] : r \in wanted'[t]} = {authors[r[1]][r[2]] : r \in wanted[t]}
  BY <1>1, <1>2
<1> QED BY <1>3 DEF NeedsOf

-----------------------------------------------------------------------------
(* The last writer of a datum.                                             *)

OneProgram == \A a, b \in Apps : a = b

FilesOnly == \A access \in MainAccesses : access.kind = "file"

\* A task gets one value of at most one of its parameters.
OneReadEach ==
    \A params \in Signatures : \A i, j \in DOMAIN params :
        params[i].mode # "W" /\ params[j].mode # "W" => i = j

\* What the first request makes of the registry is its author's.
LEMMA FirstMakes ==
    ASSUME OrderInv, apQueue # << >>, version' = AfterRequest(version, Head(apQueue))
    PROVE  Makes(version, version', Head(apQueue))
<1>1. PICK h : History(h)
  BY DEF OrderInv
<1>2. 1 \in 1 .. Len(apQueue) /\ apQueue[1] = Head(apQueue) /\ apQueue \in Seq(Request)
  BY DEF OrderInv, Base, Typed
<1>3. h[1] = version /\ h[1 + 1] = AfterRequest(h[1], apQueue[1]) /\ Makes(h[1], h[1 + 1], apQueue[1])
  BY <1>1, <1>2 DEF History
<1> QED BY <1>2, <1>3

\* The analysis of a task makes the versions it writes, and their author the last writer.
LEMMA AnalysisMakes ==
    ASSUME OrderInv, ServeAnalyse, NEW t, t = Head(apQueue).task
    PROVE  /\ t \in Task /\ t \in Created /\ Head(apQueue) = Analyse(t) /\ tasks[t] \in TaskRecord
           /\ wanted[t] = ReadsIn(version, tasks[t].params)
           /\ version' = AfterTask(version, tasks[t].params)
           /\ writers' = RegisterOutputValues(t) /\ preds' = [preds EXCEPT ![t] = Predecessors(tasks[t].params)]
           /\ Makes(version, version', Analyse(t))
           /\ UNCHANGED <<tasks, authors, wanted, exec, execCount, cursor, main, permits, waited>>
<1>1. Base
  BY DEF OrderInv
<1>2. Serving("ANALYSE_TASK") /\ ProcessTask(t)
      /\ UNCHANGED <<exec, cursor, main, authors, wanted>>
  BY DEF ServeAnalyse, historyVars
<1>3. /\ version' = AfterTask(version, tasks[t].params)
      /\ writers' = RegisterOutputValues(t) /\ preds' = [preds EXCEPT ![t] = Predecessors(tasks[t].params)]
      /\ UNCHANGED <<tasks, execCount, permits, waited>>
  BY <1>2, VersionIs DEF ProcessTask
<1>4. t \in Task /\ t \in Created /\ Head(apQueue) = Analyse(t) /\ tasks[t] \in TaskRecord
  BY <1>1, <1>2, AnalysedTask
<1>5. apQueue # << >> /\ Head(apQueue).type = "ANALYSE_TASK"
  BY <1>2 DEF Serving
<1>6. version' = AfterRequest(version, Head(apQueue))
  BY <1>3, <1>5 DEF AfterRequest
<1>7. Makes(version, version', Analyse(t))
  BY <1>4, <1>5, <1>6, FirstMakes
<1>8. wanted[t] = ReadsIn(version, tasks[t].params)
  <2>1. PICK h : History(h)
    BY DEF OrderInv
  <2>2. 1 \in 1 .. Len(apQueue) /\ apQueue[1] = Head(apQueue)
    BY <1>1, <1>5 DEF Base, Typed
  <2> QED BY <1>5, <2>1, <2>2 DEF History
<1> QED BY <1>2, <1>3, <1>4, <1>7, <1>8

\* The registration of an access makes the version the program writes.
LEMMA RegistrationMakes ==
    ASSUME OrderInv, ServeRegister, NEW a, a = Head(apQueue).app, NEW access, access = main[a].access
    PROVE  /\ a \in Apps /\ Head(apQueue) = Register(a) /\ access \in MainAccesses
           /\ version' = AfterAccess(version, access)
           /\ Makes(version, version', Register(a))
           /\ main' = [main EXCEPT ![a].in = IF access.mode = "W" THEN NoVersion
                                             ELSE <<access.datum, Registered(access.datum)>>]
           /\ permits' = permits \cup {a} /\ main[a].call = "register"
           /\ UNCHANGED <<tasks, authors, wanted, writers, preds, exec, execCount, cursor, waited>>
<1>1. Base
  BY DEF OrderInv
<1>2. /\ Serving("REGISTER_DATA_ACCESS") /\ UNCHANGED <<tasks, authors, wanted, preds, execCount, exec, cursor>>
      /\ RegisterAccess(a, access.datum, access.mode)
      /\ main' = [main EXCEPT ![a].in = IF access.mode = "W" THEN NoVersion
                                        ELSE <<access.datum, Registered(access.datum)>>]
  BY DEF ServeRegister, RegisterAccess, historyVars, taskVars, dispatcherVars
<1>3. /\ apQueue # << >> /\ Head(apQueue).type = "REGISTER_DATA_ACCESS"
      /\ "REGISTER_DATA_ACCESS" # "ANALYSE_TASK"
  BY <1>2 DEF Serving
<1>4. Head(apQueue) \in Request
  BY <1>1, <1>2, RequestServed DEF Base
<1>5. a \in Apps /\ Head(apQueue) = Register(a)
  BY <1>3, <1>4, RequestKinds
<1>6. main[a].call = "register"
  BY <1>1, <1>2, ServedProgram
<1>7. access \in MainAccesses
  BY <1>1, <1>5, <1>6 DEF Base, OneCall
<1>8. version' = AfterAccess(version, access)
  BY <1>2, VersionIs DEF RegisterAccess, AfterAccess
<1>9. version' = AfterRequest(version, Head(apQueue))
  BY <1>3, <1>8 DEF AfterRequest
<1>10. Makes(version, version', Register(a))
  BY <1>3, <1>5, <1>9, FirstMakes
<1> QED BY <1>2, <1>5, <1>6, <1>7, <1>8, <1>10 DEF RegisterAccess

\* What a step does to the registry and to the last writers.
LEMMA RegistrySteps ==
    ASSUME [Next]_vars
    PROVE  \/ UNCHANGED <<version, writers>>
           \/ ServeAnalyse
           \/ ServeRegister
           \/ ServeWaitForTask
<1>1. CASE \/ \E a \in Apps : \/ MainStep(a)
                              \/ \E access \in MainAccesses : MainAccess(a, access)
                              \/ CallBarrier(a)
                              \/ CallNoMoreTasks(a)
                              \/ \E params \in Signatures, copies \in Copies : NewTask(a, params, copies)
  BY <1>1 DEF MainStep, Registration, WaitReturns, BarrierReturns, NoMoreTasksReturns, CallBarrier,
            CallNoMoreTasks, MainAccess, NewTask, Resume, analyserVars
<1>2. CASE ServeTaskEnd \/ ServeBarrier \/ ServeEndOfApp
  BY <1>2 DEF ServeTaskEnd, ServeBarrier, ServeEndOfApp, EndTask, Barrier, NoMoreTasks, analyserVars
<1>3. CASE DispatcherStep
  BY <1>3 DEF DispatcherStep, TakeRequest, HasNext, EndOfPredecessors, NextPredecessor, DropRequest,
            analyserVars
<1>4. CASE \E t \in Task : \E i \in DOMAIN exec[t] : LaunchExecution(t, i) \/ CompleteExecution(t, i)
  BY <1>4 DEF LaunchExecution, CompleteExecution, Launch, Complete, analyserVars
<1>5. CASE UNCHANGED vars
  BY <1>5 DEF vars, analyserVars
<1> QED BY <1>1, <1>2, <1>3, <1>4, <1>5 DEF Next, Serve

-----------------------------------------------------------------------------
(* A program that synchronises, when it is alone: what it has generated is *)
(* analysed before its access is registered, and nothing comes between the *)
(* registration and the wait.                                              *)

Synchronised(a) == main[a].call = "wait" \/ (main[a].call = "register" /\ a \in permits)

\* The program asks for the end of the last writer next.
Asks(a) == (main[a].call = "register" /\ a \in permits) \/ Queued(WaitForTask(a))

CallInv(a) ==
    /\ \A t \in Task : Ahead(apQueue, Analyse(t), Register(a))
    /\ Synchronised(a) => \A t \in Task : ~Queued(Analyse(t))
    /\ Asks(a) /\ main[a].access.kind = "object" =>
          /\ version[main[a].access.datum] \in 1 .. Len(authors[main[a].access.datum])
          /\ authors[main[a].access.datum][version[main[a].access.datum]] = a

\* The programs start with no access.
LEMMA CallsHoldFirst == Init => \A a \in Apps : CallInv(a)
<1> SUFFICES ASSUME Init, NEW a \in Apps PROVE CallInv(a)
  OBVIOUS
<1>1. main[a].call = "running" /\ apQueue = << >>
  BY DEF Init
<1> QED BY <1>1 DEF CallInv, Synchronised, Asks, Ahead, Queued, ToSet

\* A program that makes no access has nothing in the queue.
LEMMA NoAccessMade ==
    ASSUME NEW a \in Apps, OneCall(a)', main'[a].call \notin {"register", "wait"}
    PROVE  CallInv(a)'
<1>1. ~Queued(Register(a))' /\ ~Queued(WaitForTask(a))'
  BY DEF OneCall, AsksForItsCall
<1>2. \A t \in Task : Ahead(apQueue', Analyse(t), Register(a))
  BY <1>1 DEF Ahead, Queued, ToSet
<1> QED BY <1>1, <1>2 DEF CallInv, Synchronised, Asks

\* What the other steps leave of a call.
LEMMA CallStays ==
    ASSUME Base, NEW a \in Apps, CallInv(a), main'[a].call = main[a].call, main'[a].access = main[a].access,
           UNCHANGED <<version, authors>>,
           a \in permits' => a \in permits \/ main[a].call # "register",
           \A t \in Task : Queued(Analyse(t))' => Queued(Analyse(t)),
           \A t \in Task : Ahead(apQueue', Analyse(t), Register(a)),
           Queued(WaitForTask(a))' => Queued(WaitForTask(a))
    PROVE  CallInv(a)'
<1>1. Synchronised(a)' => Synchronised(a)
  BY DEF Synchronised
<1>2. Asks(a)' => Asks(a)
  BY DEF Asks
<1>3. Synchronised(a)' => \A t \in Task : ~Queued(Analyse(t))'
  BY <1>1 DEF CallInv
<1> QED BY <1>2, <1>3 DEF CallInv

\* A call of the program, which generates no task during one.
LEMMA ProgramCall ==
    ASSUME OneProgram, Base, Base', NEW a \in Apps, CallInv(a), NEW b \in Apps,
           \/ MainStep(b)
           \/ \E access \in MainAccesses : MainAccess(b, access)
           \/ CallBarrier(b)
           \/ CallNoMoreTasks(b)
           \/ \E params \in Signatures, copies \in Copies : NewTask(b, params, copies)
    PROVE  CallInv(a)'
<1>1. b = a
  BY DEF OneProgram
<1>2. main \in [Apps -> ProgramRecord] /\ OneCall(a) /\ OneCall(a)'
  BY DEF Base, Typed
<1>3. CASE \/ WaitReturns(a) \/ BarrierReturns(a) \/ NoMoreTasksReturns(a)
           \/ (Registration(a) /\ main[a].access.mode = "W")
           \/ CallBarrier(a)
           \/ CallNoMoreTasks(a)
           \/ \E params \in Signatures, copies \in Copies : NewTask(a, params, copies)
  <2>1. main'[a].call \notin {"register", "wait"}
    <3>1. \/ main' = main /\ main[a].call = "running"
          \/ main' = [main EXCEPT ![a] = [call |-> "running", access |-> NoAccess, in |-> NoVersion]]
          \/ \E call \in {"running", "ended", "barrier", "noMoreTasks"} : main' = [main EXCEPT ![a].call = call]
      BY <1>3 DEF WaitReturns, BarrierReturns, NoMoreTasksReturns, Registration, CallBarrier,
                  CallNoMoreTasks, NewTask, Stop, Running
    <3> QED BY <1>2, <3>1 DEF ProgramRecord
  <2> QED BY <1>2, <2>1, NoAccessMade
<1>4. CASE \E access \in MainAccesses : MainAccess(a, access)
  <2>1. PICK access : main' = [main EXCEPT ![a].call = "register", ![a].access = access]
    BY <1>4 DEF MainAccess
  <2>5. /\ apQueue' = Append(apQueue, Register(a)) /\ main[a].call = "running" /\ permits' = permits
    BY <1>4 DEF MainAccess, Running, analyserVars
  <2>6. main'[a].call = "register"
    BY <1>2, <2>1 DEF ProgramRecord
  <2>2. a \notin permits' /\ ~Queued(WaitForTask(a))'
    BY <1>2, <2>5, <2>6 DEF OneCall, AsksForItsCall
  <2>3. \A t \in Task : Ahead(apQueue', Analyse(t), Register(a))
    <3>1. apQueue \in Seq(Request) /\ Register(a) \in Request
      BY RequestsAre DEF Base, Typed
    <3> SUFFICES ASSUME NEW t \in Task PROVE Ahead(apQueue', Analyse(t), Register(a))
      OBVIOUS
    <3>2. Analyse(t) # Register(a) /\ Ahead(apQueue, Analyse(t), Register(a))
      BY RequestsDiffer DEF CallInv
    <3> QED BY <2>5, <3>1, <3>2, OfferedAhead
  <2> QED BY <2>2, <2>3, <2>6 DEF CallInv, Synchronised, Asks
<1>5. CASE Registration(a) /\ main[a].access.mode # "W"
  <2>1. /\ apQueue' = Append(apQueue, WaitForTask(a)) /\ main[a].call = "register" /\ a \in permits
        /\ main'[a].call = "wait" /\ main'[a].access = main[a].access
        /\ UNCHANGED <<version, authors>>
    BY <1>2, <1>5 DEF Registration, Resume, Stop, historyVars, ProgramRecord
  <2>2. Synchronised(a) /\ Asks(a)
    BY <2>1 DEF Synchronised, Asks
  <2>3. \A q : Queued(q)' <=> Queued(q) \/ q = WaitForTask(a)
    BY <2>1, RequestOffered, RequestsAre DEF Base
  <2>4. \A t \in Task : ~Queued(Analyse(t))'
    BY <2>2, <2>3, RequestsDiffer DEF CallInv
  <2>5. \A t \in Task : Ahead(apQueue', Analyse(t), Register(a))
    BY <2>4 DEF Ahead, Queued, ToSet
  <2> QED BY <2>1, <2>2, <2>4, <2>5 DEF CallInv
<1> QED BY <1>1, <1>3, <1>4, <1>5 DEF MainStep

\* Serving a request: the analyses are over when the access is registered.
LEMMA ProgramServed ==
    ASSUME OneProgram, OrderInv, Base', NEW a \in Apps, CallInv(a), Serve
    PROVE  CallInv(a)'
<1>1. Base /\ main \in [Apps -> ProgramRecord] /\ apQueue \in Seq(Request) /\ OneCall(a) /\ OneCall(a)'
  BY DEF OrderInv, Base, Typed
<1>2. PICK kind : Serving(kind)
  BY DEF Serve, ServeAnalyse, ServeTaskEnd, ServeRegister, ServeWaitForTask, ServeBarrier, ServeEndOfApp
<1>3. apQueue # << >> /\ apQueue' = Tail(apQueue)
  BY <1>2 DEF Serving
<1>4. \A q : Queued(q)' => Queued(q)
  BY <1>1, <1>2, RequestServed DEF Base
<1>5. \A t \in Task : /\ Ahead(apQueue', Analyse(t), Register(a))
                      /\ Register(a) = Head(apQueue) => ~Queued(Analyse(t))
  BY <1>1, <1>3, TakenAhead DEF CallInv, Queued
<1>6. CASE ServeAnalyse
  <2>1. PICK t : t = Head(apQueue).task
    OBVIOUS
  <2>2. t \in Task /\ Head(apQueue) = Analyse(t) /\ UNCHANGED <<main, permits>>
    BY <1>6, <2>1, AnalysisMakes
  <2>3. Queued(Analyse(t))
    BY <1>1, <1>2, <2>2, RequestServed DEF Base
  <2>4. ~Synchronised(a)
    BY <2>2, <2>3 DEF CallInv
  <2>5. ~Synchronised(a)' /\ ~Asks(a)'
    BY <1>1, <1>4, <2>2, <2>4 DEF Synchronised, Asks, OneCall, AsksForItsCall
  <2> QED BY <1>5, <2>5 DEF CallInv
<1>7. CASE ServeTaskEnd
  <2>1. UNCHANGED <<main, version, authors>>
    BY <1>7 DEF ServeTaskEnd, EndTask, analyserVars, historyVars
  <2>2. a \in permits' => a \in permits \/ main[a].call # "register"
    <3>1. PICK t : t = Head(apQueue).task
      OBVIOUS
    <3>2. t \in Task
      <4>1. Head(apQueue) \in Request /\ Head(apQueue).type = "TASK_END"
        BY <1>1, <1>7, RequestServed DEF ServeTaskEnd, Base
      <4> QED BY <3>1, <4>1, RequestKinds
    <3>3. permits' = permits \/ permits' = permits \cup (semaphore \ semaphore') \cup waited[t]
      BY <1>7, <3>1 DEF ServeTaskEnd, EndTask, analyserVars
    <3> QED BY <1>1, <3>2, <3>3 DEF OneCall
  <2> QED BY <1>1, <1>4, <1>5, <2>1, <2>2, CallStays
<1>8. CASE ServeRegister
  <2>1. PICK b, access : b = Head(apQueue).app /\ access = main[b].access
    OBVIOUS
  <2>2. /\ b \in Apps /\ Head(apQueue) = Register(b) /\ access \in MainAccesses
        /\ version' = AfterAccess(version, access)
        /\ Makes(version, version', Register(b)) /\ authors' = authors
        /\ main' = [main EXCEPT ![b].in = IF access.mode = "W" THEN NoVersion
                                          ELSE <<access.datum, Registered(access.datum)>>]
    BY <1>8, <2>1, RegistrationMakes
  <2>3. b = a
    BY <2>2 DEF OneProgram
  <2>4. \A t \in Task : ~Queued(Analyse(t))'
    BY <1>4, <1>5, <2>2, <2>3
  <2>5. main'[a].access = access
    BY <1>1, <2>1, <2>2, <2>3 DEF ProgramRecord
  <2>6. access.kind = "object" =>
          version'[access.datum] \in 1 .. Len(authors[access.datum]) /\ authors[access.datum][version'[access.datum]] = a
    <3> SUFFICES ASSUME access.kind = "object", NEW d, d = access.datum
                 PROVE  version'[d] \in 1 .. Len(authors[d]) /\ authors[d][version'[d]] = a
      OBVIOUS
    <3>1. d \in Data /\ access.mode = "RW"
      BY <2>2, MainAccessesAssumption
    <3>2. version[d] \in Nat /\ version \in [Data -> Nat]
      BY <1>1, <3>1 DEF Base, Typed
    <3>3. version'[d] = RegisteredIn(version, d) + 1
      BY <2>2, <3>1, <3>2 DEF AfterAccess
    <3>4. RegisteredIn(version, d) \in Nat
      BY <3>2 DEF RegisteredIn
    <3>5. version'[d] \in 1 .. version'[d] /\ RegisteredIn(version, d) < version'[d]
      BY <3>3, <3>4
    <3>6. AuthorOf(Register(a)) = a
      BY DEF AuthorOf, Register
    <3>7. version'[d] <= Len(authors[d]) /\ authors[d][version'[d]] = a
      BY <2>2, <2>3, <3>1, <3>5, <3>6 DEF Makes
    <3>8. Len(authors[d]) \in Nat
      BY <1>1, <3>1 DEF Base, Typed
    <3> QED BY <3>3, <3>4, <3>7, <3>8
  <2> QED BY <1>5, <2>2, <2>4, <2>5, <2>6 DEF CallInv
<1>9. CASE ServeWaitForTask
  <2>1. PICK b : b = Head(apQueue).app
    OBVIOUS
  <2>2. b = a /\ main[a].call = "wait" /\ ~Queued(WaitForTask(a))'
    <3>1. b \in Apps /\ main[b].call = "wait" /\ WaitForTask(b) \notin ToSet(apQueue')
      BY <1>1, <1>9, <2>1, ServedProgram DEF ServeWaitForTask
    <3> QED BY <3>1 DEF OneProgram, Queued
  <2>3. UNCHANGED <<main, version, authors>>
    BY <1>9 DEF ServeWaitForTask, FindWaitedTask, historyVars
  <2>4. a \in permits' => a \in permits \/ main[a].call # "register"
    BY <2>2
  <2> QED BY <1>1, <1>4, <1>5, <2>2, <2>3, <2>4, CallStays
<1>10. CASE ServeBarrier \/ ServeEndOfApp
  <2>1. PICK b : b = Head(apQueue).app
    OBVIOUS
  <2>2. main[b].call \in {"barrier", "noMoreTasks"} /\ b \in Apps
    BY <1>1, <1>10, <2>1, ServedProgram DEF ServeBarrier, ServeEndOfApp
  <2>3. b = a /\ main' = main
    BY <1>10, <2>2 DEF OneProgram, ServeBarrier, ServeEndOfApp
  <2> QED BY <1>1, <2>2, <2>3, NoAccessMade
<1> QED BY <1>6, <1>7, <1>8, <1>9, <1>10 DEF Serve

\* Every step keeps the calls of a program that is alone.
LEMMA CallsStay ==
    ASSUME OneProgram, OrderInv, [Next]_vars, NEW a \in Apps, CallInv(a)
    PROVE  CallInv(a)'
<1>1. Base /\ Base' /\ apQueue \in Seq(Request)
  BY BaseStays DEF OrderInv, Base, Typed
<1>2. CASE \E b \in Apps : \/ MainStep(b)
                           \/ \E access \in MainAccesses : MainAccess(b, access)
                           \/ CallBarrier(b)
                           \/ CallNoMoreTasks(b)
                           \/ \E params \in Signatures, copies \in Copies : NewTask(b, params, copies)
  BY <1>1, <1>2, ProgramCall
<1>3. CASE Serve
  BY <1>1, <1>3, ProgramServed
<1>4. ASSUME UNCHANGED <<main, version, authors, permits>>,
             apQueue' = apQueue \/ \E t \in Task : apQueue' = Append(apQueue, TaskEnd(t))
      PROVE  CallInv(a)'
  <2>1. \A t \in Task : Ahead(apQueue, Analyse(t), Register(a))
    BY DEF CallInv
  <2>2. CASE apQueue' = apQueue
    BY <1>1, <1>4, <2>1, <2>2, CallStays DEF Queued
  <2>3. CASE \E t \in Task : apQueue' = Append(apQueue, TaskEnd(t))
    <3>1. PICK t \in Task : apQueue' = Append(apQueue, TaskEnd(t))
      BY <2>3
    <3>2. TaskEnd(t) \in Request
      BY RequestsAre
    <3>3. \A q : Queued(q)' <=> Queued(q) \/ q = TaskEnd(t)
      BY <1>1, <3>1, <3>2, RequestOffered DEF Base
    <3>4. \A u \in Task : Ahead(apQueue', Analyse(u), Register(a))
      <4> SUFFICES ASSUME NEW u \in Task PROVE Ahead(apQueue', Analyse(u), Register(a))
        OBVIOUS
      <4>1. Analyse(u) # TaskEnd(t)
        BY RequestsDiffer
      <4> QED BY <1>1, <2>1, <3>1, <3>2, <4>1, OfferedAhead
    <3>5. /\ \A u \in Task : Queued(Analyse(u))' => Queued(Analyse(u))
          /\ Queued(WaitForTask(a))' => Queued(WaitForTask(a))
      BY <3>3, RequestsDiffer
    <3> QED BY <1>1, <1>4, <3>4, <3>5, CallStays
  <2> QED BY <1>4, <2>2, <2>3
<1>5. CASE DispatcherStep
  BY <1>4, <1>5 DEF DispatcherStep, TakeRequest, HasNext, EndOfPredecessors, NextPredecessor, DropRequest,
            analyserVars, historyVars
<1>6. CASE \E t \in Task : \E i \in DOMAIN exec[t] : LaunchExecution(t, i) \/ CompleteExecution(t, i)
  BY <1>4, <1>6 DEF LaunchExecution, CompleteExecution, Launch, Complete, analyserVars, historyVars
<1>7. CASE UNCHANGED vars
  BY <1>4, <1>7 DEF vars, analyserVars, historyVars
<1> QED BY <1>2, <1>3, <1>5, <1>6, <1>7 DEF Next

-----------------------------------------------------------------------------
(* The registry and the last writers, along the order of the programs.     *)

\* When a task generates the current version of a datum, it is its last writer.
WrittenLast(d) ==
    /\ version[d] <= Len(authors[d])
    /\ version[d] # 0 /\ authors[d][version[d]] \in Task => writers[d] = authors[d][version[d]]

WriterInv == \A d \in Data : WrittenLast(d)

\* A datum nobody writes keeps its version, or gets its first one.
LEMMA NotWritten ==
    ASSUME Typed, NEW d \in Data, WrittenLast(d), NEW r, Makes(version, version', r), authors' = authors,
           version'[d] = version[d] \/ version'[d] = RegisteredIn(version, d), writers'[d] = writers[d]
    PROVE  WrittenLast(d)'
<1>1. version'[d] <= Len(authors[d])
  BY DEF Makes
<1>2. CASE version'[d] = version[d]
  BY <1>2 DEF WrittenLast
<1>3. CASE version[d] = 0 /\ version'[d] = 1
  <2>1. authors[d][1] = NoTask
    BY <1>3 DEF Makes
  <2> QED BY <1>1, <1>3, <2>1 DEF WrittenLast, Task, NoTask
<1> QED BY <1>2, <1>3 DEF RegisteredIn

\* A datum that is written has a new version, of the author of the request.
LEMMA Written ==
    ASSUME Typed, version' \in [Data -> Nat], NEW d \in Data, NEW r, Makes(version, version', r),
           version'[d] > RegisteredIn(version, d)
    PROVE  /\ version'[d] \in 1 .. Len(authors[d]) /\ authors[d][version'[d]] = AuthorOf(r)
<1>1. RegisteredIn(version, d) \in Nat /\ version'[d] \in Nat /\ Len(authors[d]) \in Nat
  BY DEF RegisteredIn, Typed
<1>2. version'[d] <= Len(authors[d])
  BY DEF Makes
<1>3. version'[d] \in 1 .. version'[d]
  BY <1>1
<1> QED BY <1>1, <1>2, <1>3 DEF Makes

\* The data a task writes, and those it does not.
LEMMA TaskWrites ==
    ASSUME Typed, NEW params \in Seq(Parameter), NEW d \in Data
    PROVE  IF \E i \in DOMAIN params : params[i].datum = d /\ params[i].mode # "R"
           THEN AfterTask(version, params)[d] > RegisteredIn(version, d)
           ELSE AfterTask(version, params)[d] \in {version[d], RegisteredIn(version, d)}
<1>1. PICK W : W = {i \in DOMAIN params : params[i].datum = d /\ params[i].mode # "R"}
  OBVIOUS
<1>2. IsFiniteSet(W)
  <2>1. PICK n : n = Len(params)
    OBVIOUS
  <2>2. n \in Nat /\ DOMAIN params = 1 .. n
    BY <2>1
  <2>3. IsFiniteSet(1 .. n) /\ W \in SUBSET (1 .. n)
    BY <1>1, <2>2, FS_Interval
  <2> QED BY <2>3, FS_Subset
<1>3. Cardinality(W) \in Nat /\ (Cardinality(W) = 0 <=> W = {})
  BY <1>2, FS_CardinalityType, FS_EmptySet
<1>4. WritesOf(params, d) = Cardinality(W) /\ RegisteredIn(version, d) \in Nat
  BY <1>1 DEF WritesOf, RegisteredIn, Typed
<1>5. CASE \E i \in DOMAIN params : params[i].datum = d /\ params[i].mode # "R"
  <2>1. AfterTask(version, params)[d] = RegisteredIn(version, d) + Cardinality(W)
    BY <1>4, <1>5 DEF AfterTask
  <2>2. Cardinality(W) # 0
    BY <1>1, <1>3, <1>5
  <2> QED BY <1>3, <1>4, <1>5, <2>1, <2>2
<1>6. CASE ~\E i \in DOMAIN params : params[i].datum = d /\ params[i].mode # "R"
  <2>1. Cardinality(W) = 0
    BY <1>1, <1>3, <1>6
  <2>2. AfterTask(version, params)[d] \in {version[d], RegisteredIn(version, d) + Cardinality(W)}
    BY <1>4 DEF AfterTask
  <2> QED BY <1>4, <1>6, <2>1, <2>2
<1> QED BY <1>5, <1>6

\* Every step keeps the last writers, if no wait for an object erases another's.
LEMMA WritersStay ==
    ASSUME OrderInv, AuthorInv, WriterInv, FilesOnly \/ \A a \in Apps : CallInv(a), [Next]_vars
    PROVE  WriterInv'
<1>1. Base /\ Base' /\ Typed /\ Typed'
  BY BaseStays DEF OrderInv, Base
<1>2. ASSUME NEW d \in Data, version'[d] = version[d],
             version[d] # 0 /\ authors[d][version[d]] \in Task => writers'[d] = writers[d]
      PROVE  WrittenLast(d)'
  <2>1. /\ Len(authors[d]) \in Nat /\ Len(authors'[d]) \in Nat /\ Len(authors[d]) <= Len(authors'[d])
        /\ \A k \in 1 .. Len(authors[d]) : authors'[d][k] = authors[d][k]
    BY <1>1, AuthorsStay DEF AuthorsKept
  <2>2. version[d] \in Nat /\ WrittenLast(d)
    BY <1>1 DEF WriterInv, Typed
  <2>3. version[d] # 0 => version[d] \in 1 .. Len(authors[d])
    BY <2>1, <2>2 DEF WrittenLast
  <2>4. version[d] # 0 => authors'[d][version[d]] = authors[d][version[d]]
    BY <2>1, <2>3
  <2>5. version'[d] <= Len(authors'[d])
    BY <1>2, <2>1, <2>2 DEF WrittenLast
  <2> QED BY <1>2, <2>2, <2>4, <2>5 DEF WrittenLast
<1>3. CASE UNCHANGED <<version, writers>>
  BY <1>2, <1>3 DEF WriterInv
<1>4. CASE ServeAnalyse
  <2>1. PICK t : t = Head(apQueue).task
    OBVIOUS
  <2>2. /\ t \in Task /\ tasks[t] \in TaskRecord /\ version' = AfterTask(version, tasks[t].params)
        /\ writers' = RegisterOutputValues(t) /\ Makes(version, version', Analyse(t)) /\ authors' = authors
    BY <1>4, <2>1, AnalysisMakes
  <2>3. tasks[t].params \in Seq(Parameter) /\ AuthorOf(Analyse(t)) = t
    BY <2>2 DEF TaskRecord, AuthorOf, Analyse
  <2> SUFFICES ASSUME NEW d \in Data PROVE WrittenLast(d)'
    BY DEF WriterInv
  <2>4. CASE \E i \in DOMAIN tasks[t].params : tasks[t].params[i].datum = d /\ tasks[t].params[i].mode # "R"
    <3>1. writers'[d] = t
      BY <2>2, <2>4 DEF RegisterOutputValues
    <3>2. version'[d] > RegisteredIn(version, d)
      BY <1>1, <2>2, <2>3, <2>4, TaskWrites
    <3>3. version'[d] \in 1 .. Len(authors[d]) /\ authors[d][version'[d]] = t
      BY <1>1, <2>2, <2>3, <3>2, Written DEF Typed
    <3>4. version'[d] <= Len(authors[d])
      BY <2>2 DEF Makes
    <3> QED BY <2>2, <3>1, <3>3, <3>4 DEF WrittenLast
  <2>5. CASE ~\E i \in DOMAIN tasks[t].params : tasks[t].params[i].datum = d /\ tasks[t].params[i].mode # "R"
    <3>1. writers'[d] = writers[d]
      BY <2>2, <2>5 DEF RegisterOutputValues
    <3>2. version'[d] \in {version[d], RegisteredIn(version, d)}
      BY <1>1, <2>2, <2>3, <2>5, TaskWrites
    <3> QED BY <1>1, <2>2, <3>1, <3>2, NotWritten DEF WriterInv
  <2> QED BY <2>4, <2>5
<1>5. CASE ServeRegister
  <2>1. PICK a, access : a = Head(apQueue).app /\ access = main[a].access
    OBVIOUS
  <2>2. /\ a \in Apps /\ access \in MainAccesses /\ version' = AfterAccess(version, access)
        /\ Makes(version, version', Register(a)) /\ UNCHANGED <<authors, writers>>
    BY <1>5, <2>1, RegistrationMakes
  <2>3. AuthorOf(Register(a)) = a
    BY DEF AuthorOf, Register
  <2> SUFFICES ASSUME NEW d \in Data PROVE WrittenLast(d)'
    BY DEF WriterInv
  <2>4. CASE d = access.datum /\ access.mode # "R"
    <3>1. version'[d] = RegisteredIn(version, d) + 1 /\ RegisteredIn(version, d) \in Nat
      BY <1>1, <2>2, <2>4 DEF AfterAccess, Typed, RegisteredIn
    <3>2. version'[d] > RegisteredIn(version, d)
      BY <3>1
    <3>3. version'[d] \in 1 .. Len(authors[d]) /\ authors[d][version'[d]] = a
      BY <1>1, <2>2, <2>3, <3>2, Written DEF Typed
    <3>4. version'[d] <= Len(authors[d]) /\ a \notin Task
      BY <2>2, ProgramsAssumption DEF Makes
    <3> QED BY <2>2, <3>3, <3>4 DEF WrittenLast
  <2>5. CASE ~(d = access.datum /\ access.mode # "R")
    <3>1. version'[d] \in {version[d], RegisteredIn(version, d)}
      BY <1>1, <2>2, <2>5 DEF AfterAccess, Typed
    <3> QED BY <1>1, <2>2, <3>1, NotWritten DEF WriterInv
  <2> QED BY <2>4, <2>5
<1>6. CASE ServeWaitForTask
  <2>1. PICK a, access : a = Head(apQueue).app /\ access = main[a].access
    OBVIOUS
  <2>2. /\ version' = version
        /\ writers' = IF WaitMode(access) = "RW" THEN [writers EXCEPT ![access.datum] = NoTask] ELSE writers
    BY <1>6, <2>1 DEF ServeWaitForTask, FindWaitedTask
  <2>3. a \in Apps /\ access \in MainAccesses /\ Queued(WaitForTask(a))
    <3>1. Head(apQueue) \in Request /\ Head(apQueue).type = "WAIT_FOR_TASK" /\ Queued(Head(apQueue))
      BY <1>1, <1>6, RequestServed DEF ServeWaitForTask
    <3>2. a \in Apps /\ Head(apQueue) = WaitForTask(a)
      BY <2>1, <3>1, RequestKinds
    <3> QED BY <1>1, <2>1, <3>1, <3>2 DEF Base, OneCall, AsksForItsCall
  <2>4. CASE access.kind # "object"
    BY <1>3, <2>2, <2>4 DEF WaitMode
  <2>5. CASE access.kind = "object"
    <3>1. CallInv(a)
      BY <2>3, <2>5 DEF FilesOnly
    <3>2. authors[access.datum][version[access.datum]] = a
      BY <2>1, <2>3, <2>5, <3>1 DEF CallInv, Asks
    <3>3. a \notin Task
      BY <2>3, ProgramsAssumption
    <3>4. \A d \in Data : d # access.datum => writers'[d] = writers[d]
      BY <1>1, <2>2 DEF Typed
    <3>5. \A d \in Data : version[d] # 0 /\ authors[d][version[d]] \in Task => writers'[d] = writers[d]
      BY <3>2, <3>3, <3>4
    <3> QED BY <1>2, <2>2, <3>5 DEF WriterInv
  <2> QED BY <2>4, <2>5
<1> QED BY <1>3, <1>4, <1>5, <1>6, RegistrySteps

-----------------------------------------------------------------------------
(* The tasks a task needs are its predecessors until they finish, and then *)
(* its executions depend on theirs.                                        *)

\* The execution depends on all that is to run of the tasks its task needs.
Covered(t, k) ==
    \A w \in NeedsOf(t) : \A i \in DOMAIN exec[w] :
        exec[w][i].state # "done" => <<w, i>> \in exec[t][k].on

Follows(t) ==
    /\ InGraph(t) => \A w \in NeedsOf(t) : w \in ToSet(preds[t]) \/ Finished(w)
    /\ Len(preds[t]) <= 1

Waits(t) ==
    \A k \in DOMAIN exec[t] :
        /\ exec[t][k].state # "new" => Covered(t, k)
        /\ exec[t][k].state \in {"running", "done"} => exec[t][k].on = {}

\* Once the iterator has given a predecessor, there is no other.
Gathers == \A t, i, x : cursor = Iterating("hasNext", t, i, x) /\ i # 0 => Covered(t, Len(exec[t]))

DependInv ==
    /\ OrderInv /\ PlaceInv /\ AuthorInv /\ WriterInv
    /\ FilesOnly \/ \A a \in Apps : CallInv(a)
    /\ \A t \in Task : Follows(t) /\ Waits(t)
    /\ Gathers

\* The tasks that end leave the lists of predecessors only when they have finished.
LEMMA TaskEndPredecessors ==
    ASSUME PlaceInv, ServeTaskEnd, NEW t, t = Head(apQueue).task
    PROVE  \A u \in Task : preds'[u] = preds[u] \/ (preds'[u] = Without(preds[u], t) /\ Finished(t))
<1>1. Base /\ Typed
  BY DEF PlaceInv, TypeInv, GraphInv, Base
<1>2. Serving("TASK_END") /\ EndTask(t)
  BY DEF ServeTaskEnd
<1>3. t \in Task /\ Queued(TaskEnd(t))
  <2>1. Head(apQueue) \in Request /\ Head(apQueue).type = "TASK_END" /\ Queued(Head(apQueue))
    BY <1>1, <1>2, RequestServed
  <2> QED BY <2>1, RequestKinds
<1>4. CASE UNCHANGED preds
  BY <1>4
<1>5. CASE IsFree(t) /\ ReleaseDataDependents(t)
  <2>1. exec[t] # << >>
    BY <1>3 DEF PlaceInv, CopyPlace
  <2>2. Finished(t)
    BY <1>3, <1>5, <2>1, CountedOut
  <2>3. \A u \in Task : preds'[u] = preds[u] \/ preds'[u] = Without(preds[u], t)
    BY <1>5 DEF ReleaseDataDependents
  <2> QED BY <2>2, <2>3
<1> QED BY <1>2, <1>4, <1>5 DEF EndTask, taskVars

\* A task that is analysed gets as predecessors the tasks it needs.
LEMMA AnalysedFollows ==
    ASSUME OneReadEach, DependInv, ServeAnalyse, NEW t, t = Head(apQueue).task
    PROVE  /\ \A w \in NeedsOf(t) : w \in ToSet(preds'[t])
           /\ Len(preds'[t]) <= 1
<1>1. /\ t \in Task /\ t \in Created /\ tasks[t] \in TaskRecord
      /\ wanted[t] = ReadsIn(version, tasks[t].params) /\ version' = AfterTask(version, tasks[t].params)
      /\ preds' = [preds EXCEPT ![t] = Predecessors(tasks[t].params)]
      /\ Makes(version, version', Analyse(t))
  BY AnalysisMakes DEF DependInv
<1>2. Typed /\ preds \in [Task -> Seq(Task)]
  BY DEF DependInv, PlaceInv, TypeInv, GraphInv, Base
<1>3. PICK params : params = tasks[t].params
  OBVIOUS
<1>4. params \in Seq(Parameter) /\ params \in Signatures
  BY <1>1, <1>3 DEF TaskRecord, DependInv, AuthorInv
<1>5. preds'[t] = Predecessors(params)
  BY <1>1, <1>2, <1>3
<1>6. writers \in [Data -> Task \cup {NoTask}] /\ version \in [Data -> Nat]
  BY <1>2 DEF Typed
<1>7. ASSUME NEW w \in NeedsOf(t) PROVE w \in ToSet(preds'[t])
  <2>1. w \in Task /\ w # t
    BY DEF NeedsOf
  <2>2. PICK r \in wanted[t] : w = authors[r[1]][r[2]]
    BY DEF NeedsOf
  <2>3. r \in ReadsIn(version, params)
    BY <1>1, <1>3
  <2>4. PICK i \in DOMAIN params :
          /\ params[i].mode # "W" /\ params[i].datum = r[1] /\ r[1] \in Data
          /\ Cardinality(EarlierWrites(params, i)) \in Nat
          /\ r[2] = RegisteredIn(version, r[1]) + Cardinality(EarlierWrites(params, i))
          /\ r[2] \in 1 .. AfterTask(version, params)[r[1]]
    BY <1>4, <1>6, <2>3, ReadsWithin
  <2>5. PICK d, v : d = r[1] /\ v = r[2]
    OBVIOUS
  <2>6. d \in Data /\ w = authors[d][v] /\ v \in 1 .. version'[d] /\ RegisteredIn(version, d) \in Nat
    BY <1>1, <1>3, <1>6, <2>2, <2>4, <2>5 DEF RegisteredIn
  <2>7. AuthorOf(Analyse(t)) = t
    BY DEF AuthorOf, Analyse
  <2>8. ~(RegisteredIn(version, d) < v)
    BY <1>1, <2>1, <2>6, <2>7 DEF Makes
  <2>9. Cardinality(EarlierWrites(params, i)) = 0 /\ v = RegisteredIn(version, d)
    BY <2>4, <2>5, <2>6, <2>8
  <2>10. EarlierWrites(params, i) = {}
    <3>1. PICK n : n = Len(params)
      OBVIOUS
    <3>2. n \in Nat /\ DOMAIN params = 1 .. n
      BY <1>4, <3>1
    <3>3. IsFiniteSet(1 .. n) /\ EarlierWrites(params, i) \in SUBSET (1 .. n)
      <4>1. i \in 1 .. n /\ \A j \in 1 .. i - 1 : j \in 1 .. n
        BY <2>4, <3>2
      <4>2. EarlierWrites(params, i) \in SUBSET (1 .. n)
        BY <4>1 DEF EarlierWrites
      <4> QED BY <3>2, <4>2, FS_Interval
    <3>4. IsFiniteSet(EarlierWrites(params, i))
      BY <3>3, FS_Subset
    <3> QED BY <2>9, <3>4, FS_EmptySet
  <2>11. version[d] # 0
    <3> SUFFICES ASSUME version[d] = 0 PROVE FALSE
      OBVIOUS
    <3>1. v = 1
      BY <2>9 DEF RegisteredIn
    <3>2. authors[d][1] = NoTask
      BY <1>1, <2>6, <3>1 DEF Makes
    <3> QED BY <2>1, <2>6, <3>1, <3>2 DEF Task, NoTask
  <2>12. writers[d] = w
    BY <2>1, <2>6, <2>9, <2>11 DEF DependInv, WriterInv, WrittenLast, RegisteredIn
  <2>13. DependsOnWriter(params, i)
    BY <2>1, <2>4, <2>5, <2>10, <2>12 DEF DependsOnWriter, Task, NoTask
  <2> QED BY <1>4, <1>5, <1>6, <2>4, <2>5, <2>12, <2>13, PredecessorsAre
<1>8. Len(preds'[t]) <= 1
  <2>1. PICK D : D = {i \in DOMAIN params : DependsOnWriter(params, i)}
    OBVIOUS
  <2>2. \A i, j \in D : i = j
    BY <1>4, <2>1 DEF OneReadEach, DependsOnWriter
  <2>3. CASE D = {}
    BY <1>4, <1>5, <1>6, <2>1, <2>3, PredecessorsAre, FS_EmptySet
  <2>4. CASE D # {}
    <3>1. PICK i : D = {i}
      BY <2>2, <2>4
    <3>2. Cardinality(D) = 1
      BY <3>1, FS_Singleton
    <3> QED BY <1>4, <1>5, <1>6, <2>1, <3>2, PredecessorsAre
  <2> QED BY <2>3, <2>4
<1> QED BY <1>7, <1>8

\* Every step keeps the predecessors that have not finished.
LEMMA FollowsStay ==
    ASSUME OneReadEach, DependInv, [Next]_vars
    PROVE  \A t \in Task : Follows(t)'
<1>1. /\ Base /\ InOrder /\ Typed /\ AuthorInv /\ PlaceInv
      /\ preds \in [Task -> Seq(Task)] /\ \A t \in Task : Follows(t)
  BY DEF DependInv, PlaceInv, TypeInv, GraphInv, Base
<1>2. \A w \in Task : Finished(w) => Finished(w)'
  BY <1>1, FinishedStays
<1>3. \A t \in Created : NeedsOf(t)' = NeedsOf(t)
  BY <1>1, NeedsStay
<1>4. ASSUME NEW t \in Task, InGraph(t)' => InGraph(t),
             preds[t] \in Seq(Task), preds'[t] \in Seq(Task), Len(preds'[t]) <= Len(preds[t]),
             \A w \in Task : w \in ToSet(preds[t]) => w \in ToSet(preds'[t]) \/ Finished(w)
      PROVE  Follows(t)'
  <2>1. Len(preds'[t]) <= 1
    BY <1>1, <1>4 DEF Follows
  <2>2. ASSUME InGraph(t)', NEW w \in NeedsOf(t)' PROVE w \in ToSet(preds'[t]) \/ Finished(w)'
    <3>1. w \in NeedsOf(t) /\ w \in Task
      BY <1>3, <1>4, <2>2 DEF InGraph, NeedsOf
    <3> QED BY <1>1, <1>2, <1>4, <2>2, <3>1 DEF Follows
  <2> QED BY <2>1, <2>2 DEF Follows
<1>5. CASE ServeAnalyse
  <2>1. PICK t : t = Head(apQueue).task
    OBVIOUS
  <2>2. /\ t \in Task /\ t \in Created /\ Head(apQueue) = Analyse(t)
        /\ preds' = [preds EXCEPT ![t] = Predecessors(tasks[t].params)]
    BY <1>5, <2>1, AnalysisMakes DEF DependInv
  <2>3. Follows(t)'
    <3>1. NeedsOf(t)' = NeedsOf(t)
      BY <1>3, <2>2
    <3>2. Len(preds'[t]) <= 1 /\ \A w \in NeedsOf(t) : w \in ToSet(preds'[t])
      BY <1>5, <2>1, AnalysedFollows
    <3> QED BY <3>1, <3>2 DEF Follows
  <2>4. ASSUME NEW u \in Task, u # t PROVE Follows(u)'
    <3>1. preds'[u] = preds[u]
      BY <1>1, <2>2, <2>4
    <3>2. InGraph(u)' => InGraph(u)
      BY <1>1, <2>2, <2>4, InOrderStays, RequestsDiffer
    <3>3. preds[u] \in Seq(Task) /\ Len(preds[u]) \in Nat
      BY <1>1
    <3> QED BY <1>4, <3>1, <3>2, <3>3
  <2> QED BY <2>3, <2>4
<1>6. CASE ServeTaskEnd /\ ~ServeAnalyse
  <2>1. PICK t : t = Head(apQueue).task
    OBVIOUS
  <2> SUFFICES ASSUME NEW u \in Task PROVE Follows(u)'
    OBVIOUS
  <2>2. InGraph(u)' => InGraph(u)
    BY <1>1, <1>6, OnlyAnalysisJoins
  <2>3. preds'[u] = preds[u] \/ (preds'[u] = Without(preds[u], t) /\ Finished(t))
    BY <1>1, <1>6, <2>1, TaskEndPredecessors
  <2>4. preds[u] \in Seq(Task) /\ Len(preds[u]) \in Nat
    BY <1>1
  <2>5. CASE preds'[u] = preds[u]
    BY <1>4, <2>2, <2>4, <2>5
  <2>6. CASE preds'[u] = Without(preds[u], t) /\ Finished(t)
    <3>1. preds'[u] \in Seq(Task) /\ Len(preds'[u]) <= Len(preds[u])
      BY <2>4, <2>6, WithoutIs
    <3>2. ASSUME NEW w \in Task, w \in ToSet(preds[u]), w # t PROVE w \in ToSet(preds'[u])
      <4>1. Cardinality(Occurrences(preds'[u], w)) = Cardinality(Occurrences(preds[u], w))
        BY <2>4, <2>6, <3>2, WithoutIs
      <4>2. Cardinality(Occurrences(preds[u], w)) # 0
        BY <2>4, <3>2, OccurrencesAre
      <4> QED BY <3>1, <4>1, <4>2, OccurrencesAre
    <3> QED BY <1>4, <2>2, <2>4, <2>6, <3>1, <3>2
  <2> QED BY <2>3, <2>5, <2>6
<1>7. CASE UNCHANGED preds /\ ~ServeAnalyse
  <2> SUFFICES ASSUME NEW u \in Task PROVE Follows(u)'
    OBVIOUS
  <2>1. InGraph(u)' => InGraph(u)
    BY <1>1, <1>7, OnlyAnalysisJoins
  <2>2. preds[u] \in Seq(Task) /\ Len(preds[u]) \in Nat
    BY <1>1
  <2> QED BY <1>4, <1>7, <2>1, <2>2
<1> QED BY <1>1, <1>5, <1>6, <1>7, GraphSteps

\* An execution that is covered stays so while what it waits for remains.
LEMMA CoveredStays ==
    ASSUME NEW t, NEW k, Covered(t, k), NeedsOf(t)' = NeedsOf(t),
           \A w \in NeedsOf(t) : \A i \in DOMAIN exec'[w] : exec'[w][i].state # "done" =>
               /\ i \in DOMAIN exec[w] /\ exec[w][i].state # "done"
               /\ <<w, i>> \in exec[t][k].on => <<w, i>> \in exec'[t][k].on
    PROVE  Covered(t, k)'
BY DEF Covered

\* The steps that make the executions of a task are of interest to no later one.
LEMMA OthersWait ==
    ASSUME DependInv, [Next]_vars, NEW u \in Task, Only(u), u \in ToSet(tdQueue) \/ Serves(u)
    PROVE  /\ \A t \in Task : t # u => Waits(t)'
           /\ \A k : Covered(u, k) /\ exec[u] # << >> /\ exec'[u][k] = exec[u][k] => Covered(u, k)'
<1>1. /\ Typed /\ Base /\ AuthorInv /\ PlaceInv /\ exec \in [Task -> Seq(Execution)]
  BY DEF DependInv, PlaceInv, TypeInv, GraphInv, Base, ExecutionsTyped
<1>2. ASSUME NEW t \in Task, exec[t] # << >>, NEW k, Covered(t, k), exec'[t][k].on = exec[t][k].on
      PROVE  Covered(t, k)'
  <2>1. t \in Created
    BY <1>1, <1>2 DEF PlaceInv, CopyPlace, InGraph
  <2>2. NeedsOf(t)' = NeedsOf(t)
    BY <1>1, <2>1, NeedsStay
  <2>3. ASSUME NEW w \in NeedsOf(t) PROVE exec'[w] = exec[w]
    <3>1. w \in Task /\ w < t
      BY <1>1, <2>1, <2>3, NeedsEarlier
    <3>2. w # u
      BY <1>1, <1>2, <3>1 DEF PlaceInv, DispatchOrder
    <3> QED BY <3>1, <3>2 DEF Only
  <2> QED BY <1>2, <2>2, <2>3, CoveredStays
<1>3. ASSUME NEW t \in Task, t # u PROVE Waits(t)'
  <2>1. exec'[t] = exec[t] /\ exec[t] \in Seq(Execution)
    BY <1>1, <1>3 DEF Only
  <2>2. ASSUME NEW k \in DOMAIN exec[t] PROVE exec[t] # << >>
    BY <2>1, <2>2
  <2>3. Waits(t)
    BY DEF DependInv
  <2> QED BY <1>2, <2>1, <2>2, <2>3 DEF Waits
<1> QED BY <1>2, <1>3

\* The first execution of a task depends on nothing yet.
LEMMA TakeRequestWaits ==
    ASSUME DependInv, [Next]_vars, TakeRequest
    PROVE  (\A t \in Task : Waits(t)') /\ Gathers'
<1>1. PICK u, n : u = Head(tdQueue) /\ n = Len(exec[u])
  OBVIOUS
<1>2. ExecutionsTyped /\ PlaceInv
  BY DEF DependInv, PlaceInv, TypeInv
<1>3. /\ u \in Task /\ Only(u) /\ Len(exec'[u]) = n + 1 /\ exec'[u][n + 1] = NewOne
      /\ ToSet(tdQueue) = ToSet(tdQueue') \cup {u} /\ cursor' = Iterating("hasNext", u, 0, removals[u])
  BY <1>1, <1>2, TakeRequestMoves
<1>4. u \in ToSet(tdQueue) /\ n = 0
  BY <1>1, <1>2, <1>3 DEF PlaceInv, CopyPlace
<1>5. \A t \in Task : t # u => Waits(t)'
  BY <1>3, <1>4, OthersWait
<1>6. Waits(u)'
  <2>1. exec'[u] \in Seq(Execution) /\ Len(exec'[u]) = 1 /\ exec'[u][1].state = "new"
    BY <1>3, <1>4 DEF Only, NewOne
  <2>2. DOMAIN exec'[u] = {1}
    BY <2>1
  <2> QED BY <2>1, <2>2 DEF Waits
<1>7. Gathers'
  BY <1>3, IterationsDiffer DEF Gathers
<1> QED BY <1>5, <1>6, <1>7

\* At the end of the loop, the execution depends on all that is to run of the tasks needed:
\* on those of the one predecessor, or there is none left.
LEMMA EndOfPredecessorsWaits ==
    ASSUME DependInv, [Next]_vars, EndOfPredecessors
    PROVE  (\A t \in Task : Waits(t)') /\ Gathers'
<1>1. /\ ExecutionsTyped /\ PlaceInv /\ exec \in [Task -> Seq(Execution)] /\ preds \in [Task -> Seq(Task)]
      /\ \A t \in Task : Follows(t) /\ Waits(t)
  BY DEF DependInv, PlaceInv, TypeInv, GraphInv, ExecutionsTyped
<1>2. PICK at, u, i, x :
        cursor = Iterating(at, u, i, x) /\ u \in Task /\ i \in Nat /\ exec[u] # << >> /\ InGraph(u)
  BY DEF DependInv, PlaceInv, TypeInv, IteratorInv, EndOfPredecessors, Idle
<1>3. PICK n : n = Len(exec[u])
  OBVIOUS
<1>4. /\ n \in Nat \ {0} /\ at = "hasNext" /\ i >= Len(preds[u])
      /\ Only(u) /\ exec'[u][n].state = "waiting" /\ exec'[u][n].on = exec[u][n].on
      /\ \A j \in 1 .. n : j # n => exec'[u][j] = exec[u][j]
  <2>1. /\ ExecutionsTyped /\ EndOfPredecessors /\ u \in Task /\ cursor = Iterating(at, u, i, x)
        /\ exec[u] # << >> /\ n = Len(exec[u])
    BY <1>1, <1>2, <1>3
  <2>2. n \in Nat \ {0} /\ at = "hasNext" /\ i >= Len(preds[u])
    BY <2>1, EndOfPredecessorsMoves
  <2>3. Only(u) /\ exec'[u][n].state = "waiting" /\ exec'[u][n].on = exec[u][n].on
    BY <2>1, EndOfPredecessorsMoves
  <2>4. \A j \in 1 .. n : j # n => exec'[u][j] = exec[u][j]
    BY <2>1, EndOfPredecessorsMoves
  <2> QED BY <2>2, <2>3, <2>4
<1>5. /\ n < tasks[u].copies => /\ Len(exec'[u]) = n + 1 /\ exec'[u][n + 1] = NewOne
                                /\ cursor' = Iterating("hasNext", u, 0, removals[u])
      /\ ~(n < tasks[u].copies) => Len(exec'[u]) = n /\ cursor' = Idle
  BY <1>1, <1>2, <1>3, EndOfPredecessorsMoves
<1>6. Serves(u)
  BY <1>2 DEF Serves
<1>7. \A t \in Task : t # u => Waits(t)'
  BY <1>2, <1>4, <1>6, OthersWait
<1>8. Covered(u, n)
  <2>1. CASE i # 0
    BY <1>2, <1>3, <1>4, <2>1 DEF DependInv, Gathers
  <2>2. CASE i = 0
    <3>1. preds[u] \in Seq(Task) /\ Len(preds[u]) = 0
      BY <1>1, <1>2, <1>4, <2>2
    <3>2. ToSet(preds[u]) = {}
      BY <3>1 DEF ToSet
    <3>3. \A w \in NeedsOf(u) : Finished(w)
      BY <1>1, <1>2, <3>2 DEF Follows
    <3> QED BY <3>3 DEF Covered, Finished
  <2> QED BY <2>1, <2>2
<1>9. u \in Created /\ NeedsOf(u)' = NeedsOf(u)
  <2>1. u \in Created
    BY <1>2 DEF InGraph
  <2> QED BY <2>1, NeedsStay DEF DependInv, OrderInv
<1>10. ASSUME NEW w \in NeedsOf(u) PROVE exec'[w] = exec[w]
  <2>1. w \in Task /\ w < u
    BY <1>9, <1>10, NeedsEarlier DEF DependInv, OrderInv, Base
  <2> QED BY <1>2, <1>4, <2>1 DEF Only, Task
<1>11. Covered(u, n)'
  BY <1>4, <1>8, <1>9, <1>10, CoveredStays
<1>12. Waits(u)'
  <2>1. exec'[u] \in Seq(Execution) /\ DOMAIN exec[u] = 1 .. n
    BY <1>1, <1>2, <1>3, <1>4 DEF Only
  <2>2. (Len(exec'[u]) = n + 1 /\ exec'[u][n + 1].state = "new") \/ Len(exec'[u]) = n
    BY <1>5 DEF NewOne
  <2>3. \A k \in DOMAIN exec'[u] : k \in 1 .. n \/ exec'[u][k].state = "new"
    BY <1>4, <2>1, <2>2
  <2>4. ASSUME NEW k \in 1 .. n, k # n
        PROVE  /\ exec'[u][k].state # "new" => Covered(u, k)'
               /\ exec'[u][k].state \in {"running", "done"} => exec'[u][k].on = {}
    <3>1. exec'[u][k] = exec[u][k] /\ k \in DOMAIN exec[u] /\ Waits(u)
      BY <1>1, <1>2, <1>4, <2>1, <2>4
    <3>2. Covered(u, k) => Covered(u, k)'
      BY <1>2, <1>4, <1>6, <3>1, OthersWait
    <3> QED BY <3>1, <3>2 DEF Waits
  <2> QED BY <1>4, <1>11, <2>3, <2>4 DEF Waits
<1>13. Gathers'
  BY <1>5, IterationsDiffer DEF Gathers
<1> QED BY <1>7, <1>12, <1>13

\* The one predecessor is given to the iterator with all it has to run.
LEMMA NextPredecessorWaits ==
    ASSUME DependInv, [Next]_vars, NextPredecessor
    PROVE  (\A t \in Task : Waits(t)') /\ Gathers'
<1>1. /\ ExecutionsTyped /\ PlaceInv /\ exec \in [Task -> Seq(Execution)] /\ preds \in [Task -> Seq(Task)]
      /\ \A t \in Task : Follows(t) /\ Waits(t)
  BY DEF DependInv, PlaceInv, TypeInv, GraphInv, ExecutionsTyped
<1>2. PICK at, u, i, x :
        /\ cursor = Iterating(at, u, i, x) /\ u \in Task /\ i \in Nat /\ exec[u] # << >> /\ InGraph(u)
        /\ at = "next" /\ x = removals[u] => i < Len(preds[u])
  BY DEF DependInv, PlaceInv, TypeInv, IteratorInv, NextPredecessor, Idle
<1>3. PICK n : n = Len(exec[u])
  OBVIOUS
<1>4. /\ preds[u] \in Seq(Task) /\ Len(preds[u]) = 1 /\ i = 0 /\ preds[u][1] \in Task
      /\ ToSet(preds[u]) = {preds[u][1]}
  <2>1. x = removals[u] /\ at = "next"
    BY <1>2 DEF NextPredecessor, Iterating
  <2>2. preds[u] \in Seq(Task) /\ i < Len(preds[u]) /\ Len(preds[u]) <= 1 /\ Len(preds[u]) \in Nat
    BY <1>1, <1>2, <2>1 DEF Follows
  <2>3. Len(preds[u]) = 1 /\ i = 0
    <3>1. PICK m : m = Len(preds[u])
      OBVIOUS
    <3>2. i \in Nat /\ m \in Nat /\ i < m /\ m <= 1
      BY <1>2, <2>2, <3>1
    <3>3. m = 1 /\ i = 0
      BY <3>2
    <3> QED BY <3>1, <3>3
  <2>4. DOMAIN preds[u] = {1}
    BY <2>2, <2>3
  <2> QED BY <2>2, <2>3, <2>4 DEF ToSet
<1>5. preds[u][i + 1] = preds[u][1] /\ preds[u][i + 1] \in Task
  BY <1>4
<1>6. /\ ExecutionsTyped /\ NextPredecessor /\ u \in Task /\ cursor = Iterating(at, u, i, x)
       /\ exec[u] # << >> /\ n = Len(exec[u]) /\ preds[u][i + 1] \in Task
  BY <1>1, <1>2, <1>3, <1>5
<1>7. Only(u) /\ Len(exec'[u]) = n /\ n \in Nat \ {0}
  BY <1>6, NextPredecessorMoves
<1>8. exec'[u][n].state = exec[u][n].state /\ exec'[u][n].on = exec[u][n].on \cup Pending(preds[u][1])
  BY <1>5, <1>6, NextPredecessorMoves
<1>9. \A j \in 1 .. n : j # n => exec'[u][j] = exec[u][j]
  BY <1>6, NextPredecessorMoves
<1>10. cursor' = Iterating("hasNext", u, i + 1, x)
  BY <1>6, NextPredecessorMoves
<1>11. Serves(u)
  BY <1>2 DEF Serves
<1>12. \A t \in Task : t # u => Waits(t)'
  BY <1>2, <1>7, <1>11, OthersWait
<1>13. u \in Created /\ NeedsOf(u)' = NeedsOf(u)
  <2>1. u \in Created
    BY <1>2 DEF InGraph
  <2> QED BY <2>1, NeedsStay DEF DependInv, OrderInv
<1>14. ASSUME NEW w \in NeedsOf(u) PROVE exec'[w] = exec[w] /\ (w = preds[u][1] \/ Finished(w))
  <2>1. w \in Task /\ w < u
    BY <1>13, <1>14, NeedsEarlier DEF DependInv, OrderInv, Base
  <2>2. exec'[w] = exec[w]
    BY <1>2, <1>7, <2>1 DEF Only, Task
  <2> QED BY <1>1, <1>2, <1>4, <1>14, <2>2 DEF Follows
<1>15. Covered(u, n)'
  <2> SUFFICES ASSUME NEW w \in NeedsOf(u), NEW j \in DOMAIN exec[w], exec[w][j].state # "done"
               PROVE  <<w, j>> \in exec'[u][n].on
    BY <1>13, <1>14 DEF Covered
  <2>1. w = preds[u][1]
    BY <1>14 DEF Finished
  <2>2. <<w, j>> \in Pending(w)
    BY DEF Pending
  <2> QED BY <1>8, <2>1, <2>2
<1>16. Waits(u)'
  <2>1. exec'[u] \in Seq(Execution) /\ DOMAIN exec[u] = 1 .. n /\ DOMAIN exec'[u] = 1 .. n
    BY <1>1, <1>2, <1>3, <1>7 DEF Only
  <2>2. exec'[u][n].state = "new"
    BY <1>3, <1>8, <1>1, <1>2, <1>11 DEF PlaceInv, LastIsNew
  <2>3. ASSUME NEW k \in 1 .. n, k # n
        PROVE  /\ exec'[u][k].state # "new" => Covered(u, k)'
               /\ exec'[u][k].state \in {"running", "done"} => exec'[u][k].on = {}
    <3>1. exec'[u][k] = exec[u][k] /\ k \in DOMAIN exec[u] /\ Waits(u)
      BY <1>1, <1>2, <1>9, <2>1, <2>3
    <3>2. Covered(u, k) => Covered(u, k)'
      BY <1>2, <1>7, <1>11, <3>1, OthersWait
    <3> QED BY <3>1, <3>2 DEF Waits
  <2> QED BY <2>1, <2>2, <2>3 DEF Waits
<1>17. Gathers'
  BY <1>7, <1>10, <1>15, IterationsDiffer DEF Gathers
<1> QED BY <1>12, <1>16, <1>17

\* An execution that starts depended on nothing; one that ends is waited for no longer.
LEMMA RunsWait ==
    ASSUME DependInv, [Next]_vars, NEW u \in Task, NEW i \in DOMAIN exec[u], Launch(u, i) \/ Complete(u, i)
    PROVE  (\A t \in Task : Waits(t)') /\ Gathers'
<1>1. /\ ExecutionsTyped /\ exec \in [Task -> Seq(Execution)] /\ \A t \in Task : Waits(t)
  BY DEF DependInv, PlaceInv, TypeInv, ExecutionsTyped
<1>2. /\ exec[u][i].on = {} /\ exec'[u][i].on = {} /\ exec[u][i].state # "new" /\ exec[u][i].state # "done"
      /\ cursor' = cursor /\ exec' \in [Task -> Seq(Execution)]
      /\ \A t \in Task : Len(exec'[t]) = Len(exec[t]) /\ DOMAIN exec'[t] = DOMAIN exec[t]
      /\ \A t \in Task : \A k \in DOMAIN exec[t] :
            /\ t # u \/ k # i => exec'[t][k].state = exec[t][k].state
            /\ exec[t][k].on \subseteq exec'[t][k].on \cup {<<u, i>>}
            /\ exec'[t][k].on \subseteq exec[t][k].on
      /\ exec'[u][i].state # "done" => \A t \in Task : \A k \in DOMAIN exec[t] : exec'[t][k].on = exec[t][k].on
  <2>1. CASE Launch(u, i)
    <3>1. PICK n : n = Len(exec[u])
      OBVIOUS
    <3>2. /\ n \in Nat /\ i \in 1 .. n /\ exec[u][i].state = "waiting" /\ exec[u][i].on = {}
          /\ Only(u) /\ Len(exec'[u]) = n /\ exec'[u][i].state = "running" /\ exec'[u][i].on = {}
          /\ \A j \in 1 .. n : j # i => exec'[u][j] = exec[u][j]
      BY <1>1, <2>1, <3>1, LaunchMoves
    <3>3. cursor' = cursor
      BY <2>1 DEF Launch
    <3>4. exec'[u] \in Seq(Execution) /\ DOMAIN exec[u] = 1 .. n /\ DOMAIN exec'[u] = 1 .. n
      BY <1>1, <3>1, <3>2 DEF Only
    <3>5. \A t \in Task : t # u => exec'[t] = exec[t]
      BY <3>2 DEF Only
    <3> QED BY <3>1, <3>2, <3>3, <3>4, <3>5 DEF Only
  <2>2. CASE Complete(u, i)
    <3>1. /\ exec[u][i].state = "running" /\ exec'[u][i].state = "done"
          /\ exec' \in [Task -> Seq(Execution)]
      BY <1>1, <2>2, CompleteMoves
    <3>2. \A t \in Task : Len(exec'[t]) = Len(exec[t]) /\ DOMAIN exec'[t] = DOMAIN exec[t]
      BY <1>1, <2>2, CompleteMoves
    <3>3. \A t \in Task : \A k \in DOMAIN exec[t] :
            /\ exec'[t][k].on = exec[t][k].on \ {<<u, i>>}
            /\ t # u \/ k # i => exec'[t][k].state = exec[t][k].state
      BY <1>1, <2>2, CompleteMoves
    <3>4. cursor' = cursor
      BY <2>2 DEF Complete
    <3>5. exec[u][i].on = {}
      BY <1>1, <3>1 DEF Waits
    <3> QED BY <3>1, <3>2, <3>3, <3>4, <3>5
  <2> QED BY <2>1, <2>2
<1>3. ASSUME NEW t \in Task, NEW k \in DOMAIN exec[t], Covered(t, k) PROVE Covered(t, k)'
  <2>1. t \in Created
    <3>1. exec[t] # << >>
      BY <1>1, <1>3
    <3> QED BY <3>1 DEF DependInv, PlaceInv, CopyPlace, InGraph
  <2>2. NeedsOf(t)' = NeedsOf(t)
    BY <2>1, NeedsStay DEF DependInv, OrderInv
  <2>3. ASSUME NEW w \in NeedsOf(t), NEW j \in DOMAIN exec'[w], exec'[w][j].state # "done"
        PROVE  /\ j \in DOMAIN exec[w] /\ exec[w][j].state # "done"
               /\ <<w, j>> \in exec[t][k].on => <<w, j>> \in exec'[t][k].on
    <3>1. w \in Task /\ j \in DOMAIN exec[w]
      BY <1>2, <2>1, <2>3, NeedsEarlier DEF DependInv, OrderInv, Base
    <3>2. CASE w = u /\ j = i
      BY <1>2, <1>3, <2>3, <3>1, <3>2
    <3>3. CASE ~(w = u /\ j = i)
      <4>1. exec'[w][j].state = exec[w][j].state /\ <<w, j>> # <<u, i>>
        BY <1>2, <3>1, <3>3
      <4> QED BY <1>2, <1>3, <2>3, <3>1, <4>1
    <3> QED BY <3>2, <3>3
  <2> QED BY <1>3, <2>2, <2>3, CoveredStays
<1>4. ASSUME NEW t \in Task PROVE Waits(t)'
  <2> SUFFICES ASSUME NEW k \in DOMAIN exec[t]
               PROVE  /\ exec'[t][k].state # "new" => Covered(t, k)'
                      /\ exec'[t][k].state \in {"running", "done"} => exec'[t][k].on = {}
    BY <1>2 DEF Waits
  <2>1. CASE t = u /\ k = i
    BY <1>1, <1>2, <1>3, <2>1 DEF Waits
  <2>2. CASE ~(t = u /\ k = i)
    <3>1. exec'[t][k].state = exec[t][k].state /\ exec'[t][k].on \subseteq exec[t][k].on
      BY <1>2, <2>2
    <3> QED BY <1>1, <1>3, <3>1 DEF Waits
  <2> QED BY <2>1, <2>2
<1>5. Gathers'
  <2> SUFFICES ASSUME NEW t, NEW j, NEW x, cursor = Iterating("hasNext", t, j, x), j # 0
               PROVE  Covered(t, Len(exec[t]))'
    BY <1>2 DEF Gathers
  <2>1. t \in Task /\ exec[t] # << >>
    BY IterationsDiffer DEF DependInv, PlaceInv, TypeInv, IteratorInv
  <2>2. Covered(t, Len(exec[t]))
    BY DEF DependInv, Gathers
  <2>3. Len(exec[t]) \in DOMAIN exec[t]
    BY <1>1, <2>1
  <2>4. PICK n : n = Len(exec[t])
    OBVIOUS
  <2>5. Covered(t, n)' /\ n = Len(exec'[t])
    BY <1>2, <1>3, <2>1, <2>2, <2>3, <2>4
  <2> QED BY <2>5
<1> QED BY <1>4, <1>5

\* Every step keeps what the executions wait for.
LEMMA WaitsStay ==
    ASSUME DependInv, [Next]_vars
    PROVE  (\A t \in Task : Waits(t)') /\ Gathers'
<1>1. CASE exec' = exec /\ (cursor' = cursor \/ cursor' = Idle \/ HasNext)
  <2>1. exec \in [Task -> Seq(Execution)] /\ \A t \in Task : Waits(t)
    BY DEF DependInv, PlaceInv, TypeInv, ExecutionsTyped
  <2>2. ASSUME NEW t \in Task, exec[t] # << >>, NEW k, Covered(t, k) PROVE Covered(t, k)'
    <3>1. t \in Created
      BY <2>2 DEF DependInv, PlaceInv, CopyPlace, InGraph
    <3>2. NeedsOf(t)' = NeedsOf(t)
      BY <3>1, NeedsStay DEF DependInv, OrderInv
    <3> QED BY <1>1, <2>2, <3>2, CoveredStays
  <2>3. ASSUME NEW t \in Task PROVE Waits(t)'
    <3>1. ASSUME NEW k \in DOMAIN exec[t] PROVE exec[t] # << >>
      BY <2>1, <3>1
    <3> QED BY <1>1, <2>1, <2>2, <3>1 DEF Waits
  <2>4. Gathers'
    <3> SUFFICES ASSUME NEW t, NEW i, NEW x, cursor' = Iterating("hasNext", t, i, x), i # 0
                 PROVE  Covered(t, Len(exec[t]))'
      BY <1>1 DEF Gathers
    <3>1. cursor = Iterating("hasNext", t, i, x)
      <4>1. CASE HasNext
        <5>1. PICK at, u, j, y : cursor = Iterating(at, u, j, y)
          BY <4>1 DEF HasNext, DependInv, PlaceInv, TypeInv, IteratorInv, Idle
        <5>2. cursor' = Iterating("next", u, j, y)
          BY <4>1, <5>1 DEF HasNext, Iterating
        <5> QED BY <5>2, IterationsDiffer
      <4> QED BY <1>1, <4>1, IterationsDiffer
    <3>2. t \in Task /\ exec[t] # << >>
      BY <3>1, IterationsDiffer DEF DependInv, PlaceInv, TypeInv, IteratorInv
    <3> QED BY <1>1, <2>2, <3>1, <3>2 DEF DependInv, Gathers
  <2> QED BY <2>3, <2>4
<1> QED BY <1>1, ExecutionSteps, TakeRequestWaits, EndOfPredecessorsWaits, NextPredecessorWaits, RunsWait

\* Every step keeps the dependencies, when a task has one value to wait for.
LEMMA DependsStay ==
    ASSUME OneReadEach, OneProgram \/ FilesOnly, DependInv, [Next]_vars
    PROVE  DependInv'
<1>1. OrderInv'
  BY OrderStays DEF DependInv
<1>2. PlaceInv'
  BY PlacesStay DEF DependInv
<1>3. AuthorInv' /\ WriterInv'
  BY AuthorsStay, WritersStay DEF DependInv, OrderInv
<1>4. FilesOnly \/ \A a \in Apps : CallInv(a)'
  BY CallsStay DEF DependInv
<1>5. (\A t \in Task : Follows(t)' /\ Waits(t)') /\ Gathers'
  BY FollowsStay, WaitsStay
<1> QED BY <1>1, <1>2, <1>3, <1>4, <1>5 DEF DependInv

\* The programs start with no task.
LEMMA DependsHoldFirst == Init => DependInv
<1> SUFFICES ASSUME Init PROVE DependInv
  OBVIOUS
<1>1. OrderInv /\ PlaceInv /\ AuthorInv /\ \A a \in Apps : CallInv(a)
  BY OrderHoldsFirst, PlacesHoldFirst, AuthorsHoldFirst, CallsHoldFirst
<1>2. WriterInv
  BY <1>1 DEF Init, AnalyserInit, WriterInv, WrittenLast, OrderInv, Base, Typed
<1>3. \A t \in Task : Follows(t) /\ Waits(t)
  BY DEF Init, AnalyserInit, DispatcherInit, Follows, Waits, InGraph, Created
<1>4. Gathers
  BY IterationsDiffer DEF Init, DispatcherInit, Gathers
<1> QED BY <1>1, <1>2, <1>3, <1>4 DEF DependInv

\* When an execution depends on nothing, all its task needs has finished.
LEMMA NeededDone ==
    ASSUME DependInv, NEW t \in Created, NEW k \in DOMAIN exec[t], exec[t][k].state # "new",
           exec[t][k].on = {}, NEW w \in NeedsOf(t)
    PROVE  Finished(w)
<1>1. Typed /\ InOrder /\ AuthorInv /\ PlaceInv /\ t \in Task /\ exec \in [Task -> Seq(Execution)]
  BY DEF DependInv, OrderInv, Base, Typed, PlaceInv, TypeInv, GraphInv, ExecutionsTyped
<1>2. w \in Task /\ w \in Created /\ w < t
  BY <1>1, NeedsEarlier
<1>3. exec[t] # << >> /\ InGraph(t)
  BY <1>1 DEF PlaceInv, CopyPlace
<1>4. InGraph(w)
  BY <1>1, <1>2, <1>3 DEF InOrder, InGraph
<1>5. Covered(t, k)
  BY <1>1 DEF DependInv, Waits
<1>6. \A i \in DOMAIN exec[w] : exec[w][i].state = "done"
  BY <1>5 DEF Covered
<1> QED BY <1>1, <1>2, <1>3, <1>4, <1>6, AllDone

\* A task that has started depends on nothing, so all it needs has finished.
LEMMA NeededFinished ==
    ASSUME DependInv, NEW t \in Created, Started(t), NEW w \in NeedsOf(t)
    PROVE  Finished(w)
<1>1. t \in Task
  BY DEF DependInv, OrderInv, Base, Typed
<1>2. PICK k \in DOMAIN exec[t] : exec[t][k].state \in {"running", "done"}
  BY DEF Started
<1>3. exec[t][k].on = {}
  BY <1>1, <1>2 DEF DependInv, Waits
<1> QED BY <1>2, <1>3, NeededDone

\* When a task reads one value, and no wait of a program for an object can hide the last
\* writer of another's (there is one program, or files only), a task runs after all the
\* copies of the tasks that generate what it reads (TaskAnalyser.checkDependencyForRead,
\* the constructor of ExecutionAction, the iterator notwithstanding).
THEOREM ReadsGenerated ==
    ASSUME OneReadEach, OneProgram \/ FilesOnly
    PROVE  Spec => []ReadsAreGenerated
<1>1. Init => DependInv
  BY DependsHoldFirst
<1>2. DependInv /\ [Next]_vars => DependInv'
  BY DependsStay
<1>3. DependInv => ReadsAreGenerated
  <2> SUFFICES ASSUME DependInv, NEW t \in Created, Started(t), NEW r \in wanted[t],
                      authors[r[1]][r[2]] \in Task \ {t}
               PROVE  Finished(authors[r[1]][r[2]])
    BY DEF ReadsAreGenerated
  <2>1. authors[r[1]][r[2]] \in NeedsOf(t)
    BY DEF NeedsOf
  <2> QED BY <2>1, NeededFinished
<1> QED BY <1>1, <1>2, <1>3, PTL DEF Spec
=============================================================================
