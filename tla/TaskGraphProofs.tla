-------------------------- MODULE TaskGraphProofs --------------------------
(***************************************************************************)
(* Proofs about the graph of tasks and about what becomes of it in the     *)
(* Task Dispatcher, for every number of applications, data and tasks.      *)
(*                                                                         *)
(* Predecessors and successors mirror each other because a task enters     *)
(* both when it is analysed, after all it depends on, and leaves both when *)
(* its end is treated: the lists are subsequences, whose elements are      *)
(* counted.  Type correctness needs that mirror: the iterator of an        *)
(* execution may stay behind a list that got shorter, but one that lost    *)
(* nothing since hasNext has the element it asked for, so what next reads  *)
(* is a task.                                                              *)
(***************************************************************************)
EXTENDS AccessProcessorProofs

-----------------------------------------------------------------------------
(* Subsequences: the elements of a list that stay when some leave.         *)

Rank(indexes, i) == Cardinality({j \in indexes : j <= i})

\* Among indexes, ranks count from 1 and grow.
LEMMA Ranks ==
    ASSUME NEW n \in Nat, NEW K \in SUBSET (1 .. n)
    PROVE  /\ IsFiniteSet(K) /\ Cardinality(K) \in Nat
           /\ \A i \in K : Rank(K, i) \in 1 .. Cardinality(K)
           /\ \A i, j \in K : i < j => Rank(K, i) < Rank(K, j)
<1>1. IsFiniteSet(1 .. n)
  BY FS_Interval
<1>2. IsFiniteSet(K) /\ Cardinality(K) \in Nat
  BY <1>1, FS_Subset, FS_CardinalityType
<1>3. \A i \in K : /\ IsFiniteSet({j \in K : j <= i}) /\ Rank(K, i) \in Nat
                   /\ Rank(K, i) <= Cardinality(K)
  <2> TAKE i \in K
  <2>1. {j \in K : j <= i} \in SUBSET K
    OBVIOUS
  <2> QED BY <1>2, <2>1, FS_Subset, FS_CardinalityType DEF Rank
<1>4. \A i \in K : Rank(K, i) # 0
  <2> TAKE i \in K
  <2>1. i \in {j \in K : j <= i}
    OBVIOUS
  <2> QED BY <1>3, <2>1, FS_EmptySet DEF Rank
<1>5. ASSUME NEW i \in K, NEW j \in K, i < j PROVE Rank(K, i) < Rank(K, j)
  <2> K \in SUBSET Int
    OBVIOUS
  <2>1. {k \in K : k <= i} \in SUBSET {k \in K : k <= j}
    <3>1. i \in Int /\ j \in Int /\ \A k \in K : k \in Int
      OBVIOUS
    <3>2. \A k \in K : k <= i => k <= j
      BY <1>5, <3>1
    <3> QED BY <3>2
  <2>2. {k \in K : k <= i} # {k \in K : k <= j}
    BY <1>5
  <2>3. Rank(K, i) <= Rank(K, j) /\ Rank(K, i) # Rank(K, j)
    BY <1>3, <2>1, <2>2, FS_Subset DEF Rank
  <2>4. Rank(K, i) \in Nat /\ Rank(K, j) \in Nat
    BY <1>3
  <2> QED BY <2>3, <2>4
<1>6. \A i \in K : Rank(K, i) \in 1 .. Cardinality(K)
  <2> TAKE i \in K
  <2>1. Rank(K, i) \in Nat /\ Rank(K, i) <= Cardinality(K) /\ Rank(K, i) # 0
    BY <1>3, <1>4
  <2> QED BY <1>2, <2>1
<1> QED BY <1>2, <1>5, <1>6

\* The places are the indexes, each once and in their order.
LEMMA PlacesAre ==
    ASSUME NEW n \in Nat, NEW K \in SUBSET (1 .. n)
    PROVE  /\ Cardinality(K) \in Nat
           /\ \A k \in 1 .. Cardinality(K) : Place(K, k) \in K /\ Rank(K, Place(K, k)) = k
           /\ \A i \in K : Rank(K, i) \in 1 .. Cardinality(K) /\ Place(K, Rank(K, i)) = i
<1>1. /\ IsFiniteSet(K) /\ Cardinality(K) \in Nat
      /\ \A i \in K : Rank(K, i) \in 1 .. Cardinality(K)
      /\ \A i, j \in K : i < j => Rank(K, i) < Rank(K, j)
  BY Ranks
<1> DEFINE T == 1 .. Cardinality(K)
           f == [i \in K |-> Rank(K, i)]
<1>2. IsFiniteSet(T) /\ Cardinality(T) = Cardinality(K)
  BY <1>1, FS_Interval
<1>3. ASSUME NEW i \in K, NEW j \in K, Rank(K, i) = Rank(K, j) PROVE i = j
  <2>1. i \in Int /\ j \in Int /\ Rank(K, i) \in Int
    BY <1>1
  <2>2. ~(i < j) /\ ~(j < i)
    BY <1>1, <1>3, <2>1
  <2> QED BY <2>1, <2>2
<1>4. f \in Injection(K, T)
  BY <1>1, <1>3 DEF Injection, IsInjective
<1>5. f \in Surjection(K, T)
  BY <1>1, <1>2, <1>4, FS_Injection
<1>6. \A k \in T : \E i \in K : Rank(K, i) = k
  BY <1>5 DEF Surjection
<1> HIDE DEF f
<1>7. \A k \in T : Place(K, k) \in K /\ Rank(K, Place(K, k)) = k
  BY <1>6 DEF Place, Rank
<1>8. ASSUME NEW i \in K PROVE Place(K, Rank(K, i)) = i
  <2>1. Place(K, Rank(K, i)) \in K /\ Rank(K, Place(K, Rank(K, i))) = Rank(K, i)
    BY <1>1, <1>7
  <2> QED BY <1>3, <2>1
<1> QED BY <1>1, <1>7, <1>8

\* A subsequence is the list of the elements of s at the indexes.
LEMMA SubsequenceIs ==
    ASSUME NEW S, NEW s \in Seq(S), NEW K \in SUBSET DOMAIN s
    PROVE  /\ Subsequence(s, K) \in Seq(S)
           /\ Cardinality(K) \in Nat /\ Len(Subsequence(s, K)) = Cardinality(K)
           /\ \A k \in 1 .. Cardinality(K) : Place(K, k) \in K /\ Rank(K, Place(K, k)) = k
           /\ \A i \in K : Rank(K, i) \in 1 .. Cardinality(K) /\ Place(K, Rank(K, i)) = i
           /\ DOMAIN Subsequence(s, K) = 1 .. Cardinality(K)
           /\ \A k \in 1 .. Cardinality(K) : Subsequence(s, K)[k] = s[Place(K, k)]
<1> PICK n \in Nat : n = Len(s)
  OBVIOUS
<1>1. n \in Nat /\ DOMAIN s = 1 .. n /\ \A i \in 1 .. n : s[i] \in S
  OBVIOUS
<1>2. K \in SUBSET (1 .. n)
  BY <1>1
<1>3. /\ Cardinality(K) \in Nat
      /\ \A k \in 1 .. Cardinality(K) : Place(K, k) \in K /\ Rank(K, Place(K, k)) = k
      /\ \A i \in K : Rank(K, i) \in 1 .. Cardinality(K) /\ Place(K, Rank(K, i)) = i
  BY <1>1, <1>2, PlacesAre
<1>4. \A k \in 1 .. Cardinality(K) : s[Place(K, k)] \in S
  BY <1>1, <1>3
<1> PICK q : q = Subsequence(s, K)
  OBVIOUS
<1>5. q \in [1 .. Cardinality(K) -> S] /\ \A k \in 1 .. Cardinality(K) : q[k] = s[Place(K, k)]
  BY <1>4 DEF Subsequence
<1>6. q \in Seq(S) /\ Len(q) = Cardinality(K) /\ DOMAIN q = 1 .. Cardinality(K)
  BY <1>3, <1>5
<1> QED BY <1>3, <1>5, <1>6

\* An element is in a subsequence as many times as at the indexes.
LEMMA SubsequenceCounts ==
    ASSUME NEW S, NEW s \in Seq(S), NEW K \in SUBSET DOMAIN s, NEW x,
           NEW A, A = Occurrences(s, x) \cap K
    PROVE  Cardinality(Occurrences(Subsequence(s, K), x)) = Cardinality(A)
<1> PICK n \in Nat : n = Len(s)
  OBVIOUS
<1> PICK q, B : q = Subsequence(s, K) /\ B = Occurrences(q, x)
  OBVIOUS
<1>1. /\ \A k \in 1 .. Cardinality(K) : Place(K, k) \in K /\ Rank(K, Place(K, k)) = k
      /\ \A i \in K : Rank(K, i) \in 1 .. Cardinality(K) /\ Place(K, Rank(K, i)) = i
      /\ DOMAIN q = 1 .. Cardinality(K)
      /\ \A k \in 1 .. Cardinality(K) : q[k] = s[Place(K, k)]
  BY SubsequenceIs
<1>2. IsFiniteSet(A)
  <2>1. A \in SUBSET (1 .. n)
    BY DEF Occurrences
  <2>2. IsFiniteSet(1 .. n)
    BY FS_Interval
  <2> QED BY <2>1, <2>2, FS_Subset
<1> DEFINE f == [i \in A |-> Rank(K, i)]
<1>3. \A i \in A : Rank(K, i) \in B
  BY <1>1 DEF Occurrences
<1>4. \A i, j \in A : Rank(K, i) = Rank(K, j) => i = j
  BY <1>1
<1>5. ASSUME NEW k \in B PROVE Place(K, k) \in A /\ Rank(K, Place(K, k)) = k
  BY <1>1, <1>5 DEF Occurrences
<1>6. f \in [A -> B] /\ \A i \in A : f[i] = Rank(K, i)
  BY <1>3
<1> HIDE DEF f
<1>7. f \in Injection(A, B)
  BY <1>4, <1>6 DEF Injection, IsInjective
<1>8. f \in Surjection(A, B)
  BY <1>5, <1>6 DEF Surjection
<1>9. ExistsBijection(A, B)
  BY <1>7, <1>8 DEF ExistsBijection, Bijection
<1> QED BY <1>2, <1>9, FS_Bijection

\* When x leaves a list, no other element does.
LEMMA WithoutIs ==
    ASSUME NEW S, NEW s \in Seq(S), NEW x
    PROVE  /\ Without(s, x) \in Seq(S)
           /\ Occurrences(Without(s, x), x) = {}
           /\ \A y : y # x => Cardinality(Occurrences(Without(s, x), y)) = Cardinality(Occurrences(s, y))
           /\ Len(Without(s, x)) <= Len(s)
<1> PICK n \in Nat : n = Len(s)
  OBVIOUS
<1> PICK K, q : K = DOMAIN s \ Occurrences(s, x) /\ q = Subsequence(s, K)
  OBVIOUS
<1>1. Without(s, x) = q
  BY DEF Without
<1>2. K \in SUBSET DOMAIN s /\ IsFiniteSet(DOMAIN s) /\ Cardinality(DOMAIN s) = n
  <2>1. 1 \in Int /\ n \in Int
    OBVIOUS
  <2>2. IsFiniteSet(1 .. n) /\ Cardinality(1 .. n) = IF 1 > n THEN 0 ELSE n - 1 + 1
    BY <2>1, FS_Interval
  <2>3. DOMAIN s = 1 .. n
    OBVIOUS
  <2> QED BY <2>2, <2>3
<1>3. q \in Seq(S) /\ Cardinality(K) \in Nat /\ Len(q) = Cardinality(K)
  BY <1>2, SubsequenceIs
<1>4. ASSUME NEW y, y # x PROVE Cardinality(Occurrences(q, y)) = Cardinality(Occurrences(s, y))
  <2>1. Occurrences(s, y) = Occurrences(s, y) \cap K
    BY <1>4 DEF Occurrences
  <2> QED BY <1>2, <2>1, SubsequenceCounts
<1>5. Occurrences(q, x) = {}
  <2>1. {} = Occurrences(s, x) \cap K
    OBVIOUS
  <2>2. Cardinality(Occurrences(q, x)) = Cardinality({})
    BY <1>2, <2>1, SubsequenceCounts
  <2>3. IsFiniteSet(DOMAIN q)
    <3>1. IsFiniteSet(1 .. Cardinality(K))
      BY <1>3, FS_Interval
    <3> QED BY <1>3, <3>1
  <2>4. IsFiniteSet(Occurrences(q, x))
    BY <2>3, FS_Subset DEF Occurrences
  <2> QED BY <2>2, <2>4, FS_EmptySet
<1>6. Cardinality(K) <= n
  BY <1>2, FS_Subset
<1> QED BY <1>1, <1>3, <1>4, <1>5, <1>6

Added(s, x, m) == s \o [i \in 1 .. m |-> x]

\* A list and the m times x that are added to it.
LEMMA AddedIs ==
    ASSUME NEW S, NEW s \in Seq(S), NEW x \in S, NEW m \in Nat
    PROVE  /\ Added(s, x, m) \in Seq(S)
           /\ \A y : y # x => Occurrences(Added(s, x, m), y) = Occurrences(s, y)
           /\ Occurrences(s, x) = {} => Cardinality(Occurrences(Added(s, x, m), x)) = m
           /\ \A y \in ToSet(Added(s, x, m)) : y \in ToSet(s) \/ (y = x /\ m # 0)
<1> PICK n \in Nat : n = Len(s)
  OBVIOUS
<1>0. PICK r : r = [i \in 1 .. m |-> x]
  OBVIOUS
<1> PICK q : q = Added(s, x, m)
  OBVIOUS
<1>1. r \in Seq(S) /\ Len(r) = m /\ q = s \o r /\ \A i \in 1 .. m : r[i] = x
  BY <1>0 DEF Added
<1>2. /\ q \in Seq(S) /\ DOMAIN q = 1 .. n + m /\ DOMAIN s = 1 .. n
      /\ \A i \in 1 .. n : q[i] = s[i]
      /\ \A i \in 1 .. m : q[n + i] = x
  <2>1. q \in Seq(S) /\ Len(q) = n + m /\ DOMAIN q = 1 .. n + m /\ DOMAIN s = 1 .. n
    <3>1. q \in Seq(S) /\ Len(q) = n + m
      BY <1>1, ConcatProperties
    <3> QED BY <3>1
  <2>2. \A i \in 1 .. n + m : q[i] = IF i <= n THEN s[i] ELSE r[i - n]
    BY <1>1, ConcatProperties
  <2>3. \A i \in 1 .. m : n + i \in 1 .. n + m /\ ~(n + i <= n) /\ n + i - n = i
    OBVIOUS
  <2> QED BY <1>1, <2>1, <2>2, <2>3
<1>3. \A i \in DOMAIN q : i \in 1 .. n \/ (q[i] = x /\ i \in n + 1 .. n + m /\ m # 0)
  <2> TAKE i \in DOMAIN q
  <2>1. i \in 1 .. n + m
    BY <1>2
  <2>2. i \in 1 .. n \/ (i - n \in 1 .. m /\ n + (i - n) = i /\ m # 0 /\ i \in n + 1 .. n + m)
    BY <2>1
  <2> QED BY <1>2, <2>2
<1>4. ASSUME NEW y, y # x PROVE Occurrences(q, y) = Occurrences(s, y)
  <2>1. DOMAIN s \subseteq DOMAIN q
    BY <1>2
  <2> QED BY <1>2, <1>3, <1>4, <2>1 DEF Occurrences
<1>5. ASSUME Occurrences(s, x) = {} PROVE Cardinality(Occurrences(q, x)) = m
  <2>1. \A i \in n + 1 .. n + m : i \in DOMAIN q /\ q[i] = x
    <3> TAKE i \in n + 1 .. n + m
    <3>1. i - n \in 1 .. m /\ n + (i - n) = i /\ i \in 1 .. n + m
      OBVIOUS
    <3> QED BY <1>2, <3>1
  <2>2. \A i \in 1 .. n : q[i] # x
    BY <1>2, <1>5 DEF Occurrences
  <2>3. Occurrences(q, x) = n + 1 .. n + m
    BY <1>3, <2>1, <2>2 DEF Occurrences
  <2> PICK b, e : b = n + 1 /\ e = n + m
    OBVIOUS
  <2>4. b \in Int /\ e \in Int /\ (IF b > e THEN 0 ELSE e - b + 1) = m
    OBVIOUS
  <2>5. Cardinality(b .. e) = IF b > e THEN 0 ELSE e - b + 1
    BY <2>4, FS_Interval
  <2> QED BY <2>3, <2>4, <2>5
<1>6. ASSUME NEW y \in ToSet(q) PROVE y \in ToSet(s) \/ (y = x /\ m # 0)
  <2>1. PICK i \in DOMAIN q : y = q[i]
    BY <1>6 DEF ToSet
  <2> QED BY <1>2, <1>3, <2>1 DEF ToSet
<1> QED BY <1>2, <1>4, <1>5, <1>6

\* The occurrences in a list can be counted; there is none when the element is not in it.
LEMMA OccurrencesAre ==
    ASSUME NEW S, NEW s \in Seq(S), NEW x
    PROVE  /\ Cardinality(Occurrences(s, x)) \in Nat
           /\ Cardinality(Occurrences(s, x)) = 0 <=> Occurrences(s, x) = {}
           /\ Occurrences(s, x) = {} <=> x \notin ToSet(s)
           /\ Contains(s, x) <=> x \in ToSet(s)
<1>1. DOMAIN s = 1 .. Len(s) /\ IsFiniteSet(1 .. Len(s))
  BY FS_Interval
<1>2. IsFiniteSet(Occurrences(s, x))
  BY <1>1, FS_Subset DEF Occurrences
<1> QED BY <1>1, <1>2, FS_CardinalityType, FS_EmptySet DEF Occurrences, ToSet, Contains

-----------------------------------------------------------------------------
(* The tasks that have been analysed.                                      *)

InGraph(t) == t \in Created /\ ~Queued(Analyse(t))

\* Tasks are analysed in the order they are generated in.
InOrder ==
    \A t, u \in Task : t < u =>
        /\ Ahead(apQueue, Analyse(t), Analyse(u))
        /\ Queued(Analyse(t)) /\ u \in Created => Queued(Analyse(u))

Submits(t) ==
    /\ t \in Task /\ t \notin Created /\ Created' = Created \cup {t}
    /\ \A u \in Created : u < t /\ tasks'[u] = tasks[u]
    /\ apQueue' = Append(apQueue, Analyse(t))

\* A program submits a task.
LEMMA NewTaskSubmits ==
    ASSUME Typed, NEW a \in Apps, NEW params \in Signatures, NEW copies \in Copies,
           NewTask(a, params, copies)
    PROVE  Submits(Len(tasks) + 1)
<1>1. /\ Len(tasks) + 1 \in Task /\ Len(tasks) + 1 \notin Created
      /\ Created' = Created \cup {Len(tasks) + 1}
      /\ \A u \in Created : tasks'[u] = tasks[u]
  BY TaskRecorded
<1>2. \A u \in Created : u < Len(tasks) + 1
  BY DEF Typed, Created
<1> QED BY <1>1, <1>2 DEF Submits, NewTask

\* What a step does to the queue of the Access Processor.
LEMMA QueueSteps ==
    ASSUME Base, [Next]_vars
    PROVE  \/ tasks' = tasks /\ apQueue' = apQueue
           \/ tasks' = tasks /\ \E r \in Request : /\ apQueue' = Append(apQueue, r)
                                                   /\ \A t : r # Analyse(t)
           \/ tasks' = tasks /\ apQueue # << >> /\ apQueue' = Tail(apQueue)
           \/ \E t : Submits(t)
<1>1. ASSUME NEW a \in Apps, NEW params \in Signatures, NEW copies \in Copies,
             NewTask(a, params, copies)
      PROVE  \E t : Submits(t)
  BY <1>1, NewTaskSubmits DEF Base
<1>2. ASSUME NEW a \in Apps,
             \/ MainStep(a)
             \/ \E access \in MainAccesses : MainAccess(a, access)
             \/ CallBarrier(a)
             \/ CallNoMoreTasks(a)
      PROVE  tasks' = tasks /\ (\/ apQueue' = apQueue
                                \/ \E r \in Request : apQueue' = Append(apQueue, r) /\ \A t : r # Analyse(t))
  <2>1. /\ tasks' = tasks
        /\ \/ apQueue' = apQueue
           \/ \E r \in {Register(a), WaitForTask(a), BarrierRequest(a), EndOfApp(a)} :
                 apQueue' = Append(apQueue, r)
    BY <1>2 DEF MainStep, Registration, WaitReturns, BarrierReturns, NoMoreTasksReturns, CallBarrier,
                CallNoMoreTasks, MainAccess, Resume, taskVars
  <2> QED BY <2>1, RequestsAre, RequestsDiffer
<1>3. CASE Serve
  BY <1>3 DEF Serve, ServeAnalyse, ServeTaskEnd, ServeRegister, ServeWaitForTask, ServeBarrier,
              ServeEndOfApp, ProcessTask, EndTask, RegisterAccess, FindWaitedTask, Barrier, NoMoreTasks,
              Serving, taskVars
<1>4. CASE \/ DispatcherStep
           \/ \E t \in Task : \E i \in DOMAIN exec[t] : LaunchExecution(t, i) \/ CompleteExecution(t, i)
  <2>1. /\ tasks' = tasks
        /\ apQueue' = apQueue \/ \E t \in Task : apQueue' = Append(apQueue, TaskEnd(t))
    BY <1>4 DEF DispatcherStep, TakeRequest, HasNext, EndOfPredecessors, NextPredecessor, DropRequest,
                LaunchExecution, Launch, CompleteExecution, Complete, taskVars
  <2>2. \A t \in Task : TaskEnd(t) \in Request /\ \A u : TaskEnd(t) # Analyse(u)
    BY RequestsAre, RequestsDiffer
  <2> QED BY <2>1, <2>2
<1>5. CASE UNCHANGED vars
  BY <1>5 DEF vars, taskVars
<1> QED BY <1>1, <1>2, <1>3, <1>4, <1>5 DEF Next

\* A step keeps the order of the analyses, and keeps in the graph the tasks that are there;
\* only the task of the first request may join them.
LEMMA InOrderStays ==
    ASSUME Base, InOrder, [Next]_vars
    PROVE  /\ InOrder'
           /\ \A t \in Task : InGraph(t) => InGraph(t)'
           /\ \A t \in Task : InGraph(t)' => InGraph(t) \/ Head(apQueue) = Analyse(t)
<1>1. /\ apQueue \in Seq(Request) /\ Created \subseteq Task /\ Typed
      /\ \A t \in Task : Queued(Analyse(t)) => t \in Created
  BY DEF Base, Typed, Unrepeated
<1>2. CASE tasks' = tasks /\ apQueue' = apQueue
  BY <1>2 DEF InOrder, InGraph, Queued, Created
<1>3. CASE tasks' = tasks /\ \E r \in Request : apQueue' = Append(apQueue, r) /\ \A t : r # Analyse(t)
  <2>1. PICK r \in Request : apQueue' = Append(apQueue, r) /\ \A t : r # Analyse(t)
    BY <1>3
  <2>2. \A t \in Task : Queued(Analyse(t))' <=> Queued(Analyse(t))
    BY <1>1, <2>1, RequestOffered
  <2>3. ASSUME NEW t \in Task, NEW u \in Task, t < u PROVE Ahead(apQueue', Analyse(t), Analyse(u))
    <3>1. Ahead(apQueue, Analyse(t), Analyse(u)) /\ Analyse(t) # r
      BY <2>1, <2>3 DEF InOrder
    <3> QED BY <1>1, <2>1, <3>1, OfferedAhead
  <2> QED BY <1>3, <2>2, <2>3 DEF InOrder, InGraph, Created
<1>4. CASE tasks' = tasks /\ apQueue # << >> /\ apQueue' = Tail(apQueue)
  <2>1. ToSet(apQueue) = ToSet(apQueue') \cup {Head(apQueue)}
    BY <1>1, <1>4, Taken
  <2>2. \A q : (Queued(q)' => Queued(q)) /\ (Queued(q) => Queued(q)' \/ q = Head(apQueue))
    BY <2>1 DEF Queued
  <2>3. ASSUME NEW t \in Task, NEW u \in Task, t < u
        PROVE  /\ Ahead(apQueue', Analyse(t), Analyse(u))
               /\ Queued(Analyse(t))' /\ u \in Created' => Queued(Analyse(u))'
    <3>1. Ahead(apQueue, Analyse(t), Analyse(u)) /\ (Queued(Analyse(t)) /\ u \in Created => Queued(Analyse(u)))
      BY <2>3 DEF InOrder
    <3>2. /\ Ahead(apQueue', Analyse(t), Analyse(u))
          /\ Analyse(u) = Head(apQueue) => Analyse(t) \notin ToSet(apQueue)
      BY <1>1, <1>4, <3>1, TakenAhead
    <3> QED BY <1>4, <2>2, <3>1, <3>2 DEF Queued, Created
  <2> QED BY <1>4, <2>2, <2>3 DEF InOrder, InGraph, Created
<1>5. CASE \E t : Submits(t)
  <2>1. PICK x : Submits(x)
    BY <1>5
  <2>2. x \in Task /\ x \notin Created /\ apQueue' = Append(apQueue, Analyse(x)) /\ Analyse(x) \in Request
    BY <2>1, RequestsAre DEF Submits
  <2>3. \A t \in Task : Queued(Analyse(t))' <=> Queued(Analyse(t)) \/ t = x
    BY <1>1, <2>2, RequestOffered, RequestsDiffer
  <2>4. ASSUME NEW t \in Task, NEW u \in Task, t < u PROVE Ahead(apQueue', Analyse(t), Analyse(u))
    <3>1. Ahead(apQueue, Analyse(t), Analyse(u))
      BY <2>4 DEF InOrder
    <3>2. Analyse(t) = Analyse(x) => Analyse(u) # Analyse(x) /\ Analyse(u) \notin ToSet(apQueue)
      <4> SUFFICES ASSUME t = x PROVE u # x /\ ~Queued(Analyse(u))
        BY RequestsDiffer DEF Queued
      <4>1. u # x /\ u \in Int /\ x \in Int
        BY <2>2, <2>4 DEF Task
      <4>2. \A v \in Created : v < x
        BY <2>1 DEF Submits
      <4>3. u \notin Created
        BY <2>4, <4>1, <4>2
      <4> QED BY <1>1, <4>1, <4>3
    <3> QED BY <1>1, <2>2, <3>1, <3>2, OfferedAhead
  <2>5. ASSUME NEW t \in Task, NEW u \in Task, t < u, Queued(Analyse(t))', u \in Created'
        PROVE  Queued(Analyse(u))'
    <3>1. CASE u = x
      BY <2>3, <3>1
    <3>2. CASE u # x
      <4>1. u \in Created
        BY <2>1, <2>5, <3>2 DEF Submits
      <4>2. t # x
        <5>1. u < x /\ u \in Int /\ x \in Int
          BY <2>1, <2>2, <4>1 DEF Submits, Task
        <5> QED BY <2>5, <5>1
      <4> QED BY <2>3, <2>5, <4>1, <4>2 DEF InOrder
    <3> QED BY <3>1, <3>2
  <2>6. InOrder'
    BY <2>4, <2>5 DEF InOrder
  <2>7. \A t \in Task : InGraph(t)' <=> InGraph(t)
    BY <2>1, <2>2, <2>3 DEF InGraph, Submits
  <2> QED BY <2>6, <2>7
<1> QED BY <1>2, <1>3, <1>4, <1>5, QueueSteps

\* The task that is served is the next of the graph: all that are there come before it.
LEMMA NextOfGraph ==
    ASSUME Base, InOrder, Serving("ANALYSE_TASK"), tasks' = tasks, NEW t, t = Head(apQueue).task
    PROVE  /\ t \in Task /\ t \in Created /\ ~InGraph(t) /\ InGraph(t)'
           /\ \A u \in Task : InGraph(u) => u < t
           /\ \A u \in Created : u < t => InGraph(u)
           /\ tasks[t] \in TaskRecord
<1>1. /\ t \in Task /\ t \in Created /\ Head(apQueue) = Analyse(t) /\ tasks[t] \in TaskRecord
      /\ Analyse(t) \notin ToSet(apQueue')
  BY AnalysedTask
<1>2. Queued(Analyse(t)) /\ ~Queued(Analyse(t))' /\ apQueue # << >> /\ apQueue \in Seq(Request)
  BY <1>1, RequestServed DEF Base, Queued, Serving, Typed
<1>3. ASSUME NEW u \in Task, InGraph(u) PROVE u < t
  <2>1. u # t /\ ~(t < u)
    BY <1>1, <1>2, <1>3 DEF InOrder, InGraph
  <2> QED BY <1>1, <2>1 DEF Task
<1>4. ASSUME NEW u \in Created, u < t PROVE InGraph(u)
  <2>1. u \in Task /\ Ahead(apQueue, Analyse(u), Analyse(t))
    BY <1>1, <1>4 DEF InOrder, Base, Typed
  <2>2. Analyse(u) \notin ToSet(apQueue)
    BY <1>1, <1>2, <2>1, TakenAhead
  <2> QED BY <2>2 DEF InGraph, Queued
<1> QED BY <1>1, <1>2, <1>3, <1>4 DEF InGraph, Created

-----------------------------------------------------------------------------
(* The graph.                                                              *)

\* Only tasks in the graph have predecessors, and only they are last writers.
GraphInv ==
    /\ Base /\ InOrder
    /\ preds \in [Task -> Seq(Task)] /\ succs \in [Task -> Seq(Task)] /\ removals \in [Task -> Nat]
    /\ \A t \in Task : InGraph(t) \/ preds[t] = << >>
    /\ \A d \in Data : \A w \in Task : writers[d] = w => InGraph(w)
    /\ GraphIsSymmetric

\* The runtime starts with no task.
LEMMA GraphHoldsFirst == Init => GraphInv
<1> SUFFICES ASSUME Init PROVE GraphInv
  OBVIOUS
<1> USE DEF Init, AnalyserInit
<1>1. Base
  BY BaseHoldsFirst
<1>2. InOrder
  BY DEF InOrder, Ahead, Queued, ToSet
<1>3. /\ preds \in [Task -> Seq(Task)] /\ succs \in [Task -> Seq(Task)] /\ removals \in [Task -> Nat]
      /\ \A t \in Task : preds[t] = << >> /\ succs[t] = << >>
  <2>1. << >> \in Seq(Task) /\ 0 \in Nat
    OBVIOUS
  <2> QED BY <2>1
<1>4. GraphIsSymmetric
  BY <1>3 DEF GraphIsSymmetric, Occurrences, Contains
<1>5. \A d \in Data : \A w \in Task : writers[d] # w
  BY DEF Task, NoTask
<1> QED BY <1>1, <1>2, <1>3, <1>4, <1>5 DEF GraphInv

\* The predecessors of a task are last writers.
LEMMA PredecessorsAre ==
    ASSUME writers \in [Data -> Task \cup {NoTask}], NEW params \in Seq(Parameter)
    PROVE  /\ Predecessors(params) \in Seq(Task)
           /\ Len(Predecessors(params)) = Cardinality({i \in DOMAIN params : DependsOnWriter(params, i)})
           /\ \A w \in ToSet(Predecessors(params)) : \E d \in Data : writers[d] = w /\ w # NoTask
           /\ \A i \in DOMAIN params : DependsOnWriter(params, i) =>
                 writers[params[i].datum] \in ToSet(Predecessors(params))
<1>1. PICK s, K, S : /\ s = [i \in DOMAIN params |-> writers[params[i].datum]]
                     /\ K = {i \in DOMAIN params : DependsOnWriter(params, i)}
                     /\ S = Task \cup {NoTask}
  OBVIOUS
<1>2. PICK q, c : q = Subsequence(s, K) /\ c = Cardinality(K)
  OBVIOUS
<1>3. \A i \in DOMAIN params : params[i].datum \in Data
  BY ParametersCounted
<1>4. s \in Seq(S)
  <2>1. \A i \in 1 .. Len(params) : writers[params[i].datum] \in S
    BY <1>1, <1>3
  <2>2. [i \in 1 .. Len(params) |-> writers[params[i].datum]] \in Seq(S)
    BY <2>1
  <2> QED BY <1>1, <2>2
<1>5. K \in SUBSET DOMAIN s
  BY <1>1
<1>6. /\ q \in Seq(S) /\ c \in Nat /\ Len(q) = c /\ DOMAIN q = 1 .. c
      /\ \A k \in 1 .. c : Place(K, k) \in K /\ q[k] = s[Place(K, k)]
      /\ \A i \in K : Rank(K, i) \in 1 .. c /\ Place(K, Rank(K, i)) = i
  BY <1>2, <1>4, <1>5, SubsequenceIs
<1>7. \A i \in K : s[i] = writers[params[i].datum] /\ s[i] # NoTask /\ params[i].datum \in Data
  BY <1>1, <1>3 DEF DependsOnWriter
<1>8. \A k \in 1 .. c : q[k] # NoTask /\ \E d \in Data : writers[d] = q[k]
  <2> TAKE k \in 1 .. c
  <2>1. Place(K, k) \in K /\ q[k] = s[Place(K, k)]
    BY <1>6
  <2> QED BY <1>7, <2>1
<1>9. q \in Seq(Task)
  <2>1. \A k \in 1 .. c : q[k] \in Task
    BY <1>8
  <2>2. \A k \in 1 .. Len(q) : q[k] \in Task
    BY <1>6, <2>1
  <2> QED BY <1>6, <2>2
<1>10. \A i \in K : s[i] \in ToSet(q)
  <2> TAKE i \in K
  <2>1. Rank(K, i) \in DOMAIN q /\ q[Rank(K, i)] = s[i]
    BY <1>6
  <2> QED BY <2>1 DEF ToSet
<1>11. \A w \in ToSet(q) : \E d \in Data : writers[d] = w /\ w # NoTask
  BY <1>6, <1>8 DEF ToSet
<1>12. q = Predecessors(params)
  BY <1>1, <1>2 DEF Predecessors
<1> QED BY <1>1, <1>2, <1>6, <1>7, <1>9, <1>10, <1>11, <1>12

\* What a step does to the graph.
LEMMA GraphSteps ==
    ASSUME Base, [Next]_vars
    PROVE  \/ ServeAnalyse
           \/ ServeTaskEnd
           \/ /\ UNCHANGED <<preds, succs, removals>>
              /\ \A d \in Data : writers'[d] \in {writers[d], NoTask}
<1>1. CASE \/ \E a \in Apps : \/ MainStep(a)
                              \/ \E access \in MainAccesses : MainAccess(a, access)
                              \/ CallBarrier(a)
                              \/ CallNoMoreTasks(a)
                              \/ \E params \in Signatures, copies \in Copies : NewTask(a, params, copies)
           \/ ServeRegister \/ ServeBarrier \/ ServeEndOfApp
  BY <1>1, ZenonT(40) DEF MainStep, Registration, WaitReturns, BarrierReturns, NoMoreTasksReturns, CallBarrier,
              CallNoMoreTasks, MainAccess, Resume, NewTask, ServeRegister, ServeBarrier, ServeEndOfApp,
              RegisterAccess, Barrier, NoMoreTasks, taskVars, analyserVars
<1>2. CASE ServeWaitForTask
  <2>1. /\ UNCHANGED <<preds, succs, removals>>
        /\ \E d : writers' = writers \/ writers' = [writers EXCEPT ![d] = NoTask]
    BY <1>2 DEF ServeWaitForTask, FindWaitedTask, taskVars
  <2>2. writers \in [Data -> Task \cup {NoTask}]
    BY DEF Base, Typed
  <2> QED BY <2>1, <2>2
<1>3. CASE \/ DispatcherStep
           \/ \E t \in Task : \E i \in DOMAIN exec[t] : LaunchExecution(t, i) \/ CompleteExecution(t, i)
  BY <1>3 DEF DispatcherStep, TakeRequest, HasNext, EndOfPredecessors, NextPredecessor, DropRequest,
              LaunchExecution, Launch, CompleteExecution, Complete, taskVars, analyserVars
<1>4. CASE UNCHANGED vars
  BY <1>4 DEF vars, taskVars, analyserVars
<1> QED BY <1>1, <1>2, <1>3, <1>4 DEF Next, Serve

\* A task that joins the graph is the successor of its predecessors, which came before.
LEMMA ServeAnalyseGraph ==
    ASSUME GraphInv, ServeAnalyse, Base', InOrder', \A t \in Task : InGraph(t) => InGraph(t)'
    PROVE  GraphInv'
<1>1. PICK t : t = Head(apQueue).task
  OBVIOUS
<1>2. PICK params, new : params = tasks[t].params /\ new = Predecessors(params)
  OBVIOUS
<1>3. /\ Serving("ANALYSE_TASK") /\ tasks' = tasks /\ removals' = removals
      /\ preds' = [preds EXCEPT ![t] = new]
      /\ succs' = [s \in Task |-> succs[s] \o [i \in 1 .. Cardinality(Occurrences(new, s)) |-> t]]
      /\ writers' = RegisterOutputValues(t)
  BY <1>1, <1>2 DEF ServeAnalyse, ProcessTask
<1>4. Base /\ InOrder /\ writers \in [Data -> Task \cup {NoTask}]
  BY DEF GraphInv, Base, Typed
<1>5. /\ t \in Task /\ ~InGraph(t) /\ InGraph(t)' /\ tasks[t] \in TaskRecord
      /\ \A u \in Task : InGraph(u) => u < t
  BY <1>1, <1>3, <1>4, NextOfGraph
<1>6. /\ new \in Seq(Task)
      /\ \A w \in ToSet(new) : InGraph(w) /\ w \in Task
  <2>1. params \in Seq(Parameter)
    BY <1>2, <1>5 DEF TaskRecord
  <2>2. new \in Seq(Task) /\ \A w \in ToSet(new) : \E d \in Data : writers[d] = w /\ w # NoTask
    BY <1>2, <1>4, <2>1, PredecessorsAre
  <2> QED BY <1>4, <2>2 DEF GraphInv
<1>7. preds' \in [Task -> Seq(Task)] /\ preds'[t] = new /\ \A u \in Task : u # t => preds'[u] = preds[u]
  BY <1>3, <1>5, <1>6 DEF GraphInv
<1>8. preds[t] = << >>
  BY <1>5 DEF GraphInv
<1>9. ASSUME NEW s \in Task
      PROVE  /\ succs'[s] \in Seq(Task)
             /\ \A y : y # t => Occurrences(succs'[s], y) = Occurrences(succs[s], y)
             /\ Cardinality(Occurrences(succs'[s], t)) = Cardinality(Occurrences(new, s))
             /\ \A y \in ToSet(succs'[s]) : y \in ToSet(succs[s]) \/ (y = t /\ s \in ToSet(new))
  <2>1. PICK m, p, q : m = Cardinality(Occurrences(new, s)) /\ p = succs[s] /\ q = succs'[s]
    OBVIOUS
  <2>2. m \in Nat /\ (m # 0 => s \in ToSet(new))
    BY <1>6, <2>1, OccurrencesAre
  <2>3. p \in Seq(Task) /\ q = Added(p, t, m)
    BY <1>3, <2>1 DEF GraphInv, Added
  <2>4. Occurrences(p, t) = {}
    <3>1. Cardinality(Occurrences(succs[s], t)) = Cardinality(Occurrences(preds[t], s))
      BY <1>5 DEF GraphInv, GraphIsSymmetric
    <3>2. Occurrences(preds[t], s) = {}
      BY <1>8 DEF Occurrences
    <3>3. Cardinality(Occurrences(p, t)) = 0
      BY <2>1, <3>1, <3>2, FS_EmptySet
    <3> QED BY <2>3, <3>3, OccurrencesAre
  <2>5. /\ q \in Seq(Task)
        /\ \A y : y # t => Occurrences(q, y) = Occurrences(p, y)
        /\ Occurrences(p, t) = {} => Cardinality(Occurrences(q, t)) = m
        /\ \A y \in ToSet(q) : y \in ToSet(p) \/ (y = t /\ m # 0)
    <3>1. t \in Task /\ p \in Seq(Task) /\ m \in Nat
      BY <1>5, <2>2, <2>3
    <3>2. Added(p, t, m) \in Seq(Task)
      BY <3>1, AddedIs
    <3>3. \A y : y # t => Occurrences(Added(p, t, m), y) = Occurrences(p, y)
      BY <3>1, AddedIs
    <3>4. Occurrences(p, t) = {} => Cardinality(Occurrences(Added(p, t, m), t)) = m
      BY <3>1, AddedIs
    <3>5. \A y \in ToSet(Added(p, t, m)) : y \in ToSet(p) \/ (y = t /\ m # 0)
      BY <3>1, AddedIs
    <3> QED BY <2>3, <3>2, <3>3, <3>4, <3>5
  <2> QED BY <2>1, <2>2, <2>4, <2>5
<1>10. GraphIsSymmetric'
  <2> SUFFICES ASSUME NEW s \in Task, NEW u \in Task
               PROVE  /\ Cardinality(Occurrences(succs'[s], u)) = Cardinality(Occurrences(preds'[u], s))
                      /\ Contains(succs'[s], u) => s < u
    BY DEF GraphIsSymmetric
  <2>1. /\ Cardinality(Occurrences(succs[s], u)) = Cardinality(Occurrences(preds[u], s))
        /\ Contains(succs[s], u) => s < u
    BY DEF GraphInv, GraphIsSymmetric
  <2>2. Cardinality(Occurrences(succs'[s], u)) = Cardinality(Occurrences(preds'[u], s))
    BY <1>7, <1>9, <2>1
  <2>3. ASSUME Contains(succs'[s], u) PROVE s < u
    <3>1. succs[s] \in Seq(Task) /\ succs'[s] \in Seq(Task)
      BY <1>9 DEF GraphInv
    <3>2. u \in ToSet(succs'[s])
      BY <2>3, <3>1, OccurrencesAre
    <3>3. u \in ToSet(succs[s]) \/ (u = t /\ s \in ToSet(new))
      BY <1>9, <3>2
    <3>4. Contains(succs[s], u) \/ (u = t /\ s \in ToSet(new))
      BY <3>1, <3>3, OccurrencesAre
    <3> QED BY <1>5, <1>6, <2>1, <3>4
  <2> QED BY <2>2, <2>3
<1>11. \A u \in Task : InGraph(u)' \/ preds'[u] = << >>
  BY <1>5, <1>7 DEF GraphInv
<1>12. \A d \in Data : \A w \in Task : writers'[d] = w => InGraph(w)'
  <2> SUFFICES ASSUME NEW d \in Data, NEW w \in Task, w = writers'[d] PROVE InGraph(w)'
    OBVIOUS
  <2>1. w = t \/ w = writers[d]
    BY <1>3 DEF RegisterOutputValues
  <2> QED BY <1>4, <1>5, <2>1 DEF GraphInv
<1>13. succs' \in [Task -> Seq(Task)] /\ removals' \in [Task -> Nat]
  BY <1>3, <1>9 DEF GraphInv
<1> QED BY <1>7, <1>10, <1>11, <1>12, <1>13 DEF GraphInv

\* A task that ends leaves the predecessors of its successors, all of them.
LEMMA ServeTaskEndGraph ==
    ASSUME GraphInv, ServeTaskEnd, Base', InOrder', \A t \in Task : InGraph(t) => InGraph(t)'
    PROVE  GraphInv'
<1>1. PICK t : t = Head(apQueue).task
  OBVIOUS
<1>2. Serving("TASK_END") /\ EndTask(t)
  BY <1>1 DEF ServeTaskEnd
<1>3. t \in Task
  <2>1. Head(apQueue) \in Request /\ Head(apQueue).type = "TASK_END"
    BY <1>2, RequestServed DEF GraphInv, Base
  <2> QED BY <1>1, <2>1, RequestKinds
<1>4. writers' = writers
  BY <1>2 DEF EndTask, analyserVars
<1>5. /\ preds \in [Task -> Seq(Task)] /\ succs \in [Task -> Seq(Task)] /\ removals \in [Task -> Nat]
      /\ \A s, u \in Task : Cardinality(Occurrences(succs[s], u)) = Cardinality(Occurrences(preds[u], s))
      /\ \A s, u \in Task : Contains(succs[s], u) => s < u
  BY DEF GraphInv, GraphIsSymmetric
<1>6. CASE UNCHANGED <<preds, succs, removals>>
  BY <1>4, <1>6 DEF GraphInv, GraphIsSymmetric
<1>7. CASE ReleaseDataDependents(t)
  <2>1. /\ preds' = [s \in Task |-> IF Occurrences(succs[t], s) = {} THEN preds[s] ELSE Without(preds[s], t)]
        /\ removals' = [s \in Task |-> removals[s] + Cardinality(Occurrences(succs[t], s))]
        /\ succs' = [succs EXCEPT ![t] = << >>]
    BY <1>7 DEF ReleaseDataDependents
  <2>2. ASSUME NEW u \in Task
        PROVE  /\ preds'[u] \in Seq(Task)
               /\ Occurrences(preds'[u], t) = {}
               /\ \A s \in Task \ {t} : Cardinality(Occurrences(preds'[u], s)) = Cardinality(Occurrences(preds[u], s))
               /\ preds[u] = << >> => preds'[u] = << >>
    <3>1. preds[u] \in Seq(Task) /\ succs[t] \in Seq(Task)
      BY <1>3, <1>5
    <3>2. CASE Occurrences(succs[t], u) = {}
      <4>1. Cardinality(Occurrences(succs[t], u)) = Cardinality(Occurrences(preds[u], t))
        BY <1>3, <1>5
      <4>2. Cardinality(Occurrences(preds[u], t)) = 0
        BY <3>2, <4>1, FS_EmptySet
      <4>3. Occurrences(preds[u], t) = {}
        BY <3>1, <4>2, OccurrencesAre
      <4> QED BY <2>1, <3>1, <3>2, <4>3
    <3>3. CASE Occurrences(succs[t], u) # {}
      <4>1. preds'[u] = Without(preds[u], t)
        BY <2>1, <3>3
      <4>2. /\ Without(preds[u], t) \in Seq(Task) /\ Occurrences(Without(preds[u], t), t) = {}
            /\ \A y : y # t => Cardinality(Occurrences(Without(preds[u], t), y)) = Cardinality(Occurrences(preds[u], y))
            /\ Len(Without(preds[u], t)) <= Len(preds[u])
        BY <3>1, WithoutIs
      <4>3. preds[u] = << >> => Without(preds[u], t) = << >>
        <5> SUFFICES ASSUME preds[u] = << >>, NEW q, q = Without(preds[u], t) PROVE q = << >>
          OBVIOUS
        <5>1. q \in Seq(Task) /\ Len(q) <= 0
          BY <4>2
        <5> QED BY <5>1
      <4> QED BY <4>1, <4>2, <4>3
    <3> QED BY <3>2, <3>3
  <2>3. preds' \in [Task -> Seq(Task)]
    BY <2>1, <2>2
  <2>4. removals' \in [Task -> Nat]
    <3>1. \A s \in Task : Cardinality(Occurrences(succs[t], s)) \in Nat
      BY <1>3, <1>5, OccurrencesAre
    <3>2. \A s \in Task : removals[s] + Cardinality(Occurrences(succs[t], s)) \in Nat
      BY <1>5, <3>1
    <3> QED BY <2>1, <3>2
  <2>5. /\ succs' \in [Task -> Seq(Task)] /\ succs'[t] = << >>
        /\ \A s \in Task : s # t => succs'[s] = succs[s]
    <3>1. << >> \in Seq(Task)
      OBVIOUS
    <3> QED BY <1>3, <1>5, <2>1, <3>1
  <2>6. GraphIsSymmetric'
    <3> SUFFICES ASSUME NEW s \in Task, NEW u \in Task
                 PROVE  /\ Cardinality(Occurrences(succs'[s], u)) = Cardinality(Occurrences(preds'[u], s))
                        /\ Contains(succs'[s], u) => s < u
      BY DEF GraphIsSymmetric
    <3>1. CASE s = t
      <4>1. Occurrences(succs'[s], u) = {} /\ Occurrences(preds'[u], s) = {} /\ ~Contains(succs'[s], u)
        BY <2>2, <2>5, <3>1 DEF Occurrences, Contains
      <4> QED BY <4>1
    <3>2. CASE s # t
      BY <1>5, <2>2, <2>5, <3>2
    <3> QED BY <3>1, <3>2
  <2>7. \A u \in Task : InGraph(u)' \/ preds'[u] = << >>
    BY <2>2 DEF GraphInv
  <2>8. \A d \in Data : \A w \in Task : writers'[d] = w => InGraph(w)'
    BY <1>4 DEF GraphInv
  <2> QED BY <2>3, <2>4, <2>5, <2>6, <2>7, <2>8 DEF GraphInv
<1> QED BY <1>2, <1>6, <1>7 DEF EndTask, taskVars

\* Every step keeps the graph.
LEMMA GraphStays == GraphInv /\ [Next]_vars => GraphInv'
<1> SUFFICES ASSUME GraphInv, [Next]_vars PROVE GraphInv'
  OBVIOUS
<1>1. Base /\ InOrder /\ Base'
  BY BaseStays DEF GraphInv
<1>2. InOrder' /\ \A t \in Task : InGraph(t) => InGraph(t)'
  BY <1>1, InOrderStays
<1>3. CASE ServeAnalyse
  BY <1>1, <1>2, <1>3, ServeAnalyseGraph
<1>4. CASE ServeTaskEnd
  BY <1>1, <1>2, <1>4, ServeTaskEndGraph
<1>5. CASE /\ UNCHANGED <<preds, succs, removals>>
           /\ \A d \in Data : writers'[d] \in {writers[d], NoTask}
  <2>1. \A d \in Data : \A w \in Task : writers'[d] = w => InGraph(w)'
    <3> SUFFICES ASSUME NEW d \in Data, NEW w \in Task, writers'[d] = w PROVE InGraph(w)'
      OBVIOUS
    <3>1. w = writers[d]
      BY <1>5 DEF NoTask, Task
    <3> QED BY <1>2, <3>1 DEF GraphInv
  <2> QED BY <1>1, <1>2, <1>5, <2>1 DEF GraphInv, GraphIsSymmetric
<1> QED BY <1>1, <1>3, <1>4, <1>5, GraphSteps

\* The graph of tasks is the same seen from the predecessors and from the successors, and
\* goes forward (Task.addDataDependency and releaseDataDependents, from the Access
\* Processor thread, in the order of submission).
THEOREM GraphMirrored == Spec => []GraphIsSymmetric
<1>1. Init => GraphInv
  BY GraphHoldsFirst
<1>2. GraphInv /\ [Next]_vars => GraphInv'
  BY GraphStays
<1>3. GraphInv => GraphIsSymmetric
  BY DEF GraphInv
<1> QED BY <1>1, <1>2, <1>3, PTL DEF Spec

-----------------------------------------------------------------------------
(* The types.  The iterator of the Task Dispatcher is the one that could   *)
(* leave them: it must not look beyond the predecessors that are left.     *)

\* The iterator, of a task of the graph, notices every removal made since it was created,
\* and has a predecessor to give if there was none.
IteratorInv ==
    \/ cursor = Idle
    \/ \E at, t, i, x :
          /\ cursor = Iterating(at, t, i, x)
          /\ at \in {"hasNext", "next"} /\ t \in Task /\ i \in Nat /\ x \in Nat
          /\ InGraph(t) /\ exec[t] # << >>
          /\ x <= removals[t]
          /\ at = "next" /\ x = removals[t] => i < Len(preds[t])

CountsTyped ==
    /\ status \in [Task -> {"TO_ANALYSE", "TO_EXECUTE", "FINISHED"}]
    /\ execCount \in [Task -> Int]
    /\ DOMAIN taskCount \subseteq Apps /\ \A a \in DOMAIN taskCount : taskCount[a] \in Int
    /\ barrierFlags \subseteq Apps

ExecutionsTyped ==
    /\ tdQueue \in Seq(Task) /\ \A t \in ToSet(tdQueue) : InGraph(t)
    /\ exec \in [Task -> Seq(Execution)]
    /\ lost \subseteq Task

TypeInv == GraphInv /\ CountsTyped /\ ExecutionsTyped /\ IteratorInv

\* The runtime starts with nothing to execute.
LEMMA TypesHoldFirst == Init => TypeInv
<1> SUFFICES ASSUME Init PROVE TypeInv
  OBVIOUS
<1> USE DEF Init, AnalyserInit, DispatcherInit
<1>1. GraphInv
  BY GraphHoldsFirst
<1>2. CountsTyped
  BY DEF CountsTyped
<1>3. ExecutionsTyped
  BY DEF ExecutionsTyped, ToSet
<1> QED BY <1>1, <1>2, <1>3 DEF TypeInv, IteratorInv

\* The types follow from the invariant.
LEMMA TypesAre == TypeInv => TypeOK
<1> SUFFICES ASSUME TypeInv PROVE TypeOK
  OBVIOUS
<1>1. Typed /\ GraphInv /\ CountsTyped /\ ExecutionsTyped
  BY DEF TypeInv, GraphInv, Base
<1>2. ASSUME NEW t \in Created
      PROVE  tasks[t].app \in Apps /\ tasks[t].params \in Seq(Parameter) /\ tasks[t].copies \in Nat \ {0}
  <2>1. tasks[t] \in TaskRecord
    BY <1>1 DEF Typed, Created
  <2> QED BY <2>1, CopiesAssumption DEF TaskRecord
<1>3. AnalyserTypeOK
  BY <1>1, <1>2 DEF AnalyserTypeOK, Typed, GraphInv, CountsTyped
<1>4. cursor \in [at : {"hasNext", "next"}, task : Task, index : Nat, expected : Nat] \cup {Idle}
  BY DEF TypeInv, IteratorInv, Iterating
<1>5. DispatcherTypeOK
  BY <1>1, <1>4 DEF DispatcherTypeOK, ExecutionsTyped
<1> QED BY <1>1, <1>3, <1>5 DEF TypeOK, Typed, ProgramRecord, Author

\* The counts of the applications and of the executions are numbers.
LEMMA CountsTypedStay ==
    ASSUME TypeInv, [Next]_vars
    PROVE  CountsTyped'
<1>1. CountsTyped /\ Base /\ ExecutionsTyped
  BY DEF TypeInv, GraphInv
<1>2. \A a \in Apps : /\ CountOf(a) \in Int
                      /\ \A n \in Int : /\ DOMAIN PutCount(a, n) \subseteq Apps
                                        /\ \A b \in DOMAIN PutCount(a, n) : PutCount(a, n)[b] \in Int
                      /\ DOMAIN RemoveCount(a) \subseteq Apps
                      /\ \A b \in DOMAIN RemoveCount(a) : RemoveCount(a)[b] \in Int
  BY <1>1 DEF CountsTyped, CountOf, PutCount, RemoveCount
<1>3. ASSUME NEW a \in Apps,
             \/ MainStep(a)
             \/ \E access \in MainAccesses : MainAccess(a, access)
             \/ CallBarrier(a) \/ CallNoMoreTasks(a)
             \/ \E params \in Signatures, copies \in Copies : NewTask(a, params, copies)
      PROVE  CountsTyped'
  <2>1. UNCHANGED <<status, execCount, taskCount, barrierFlags>>
    BY <1>3 DEF MainStep, Registration, WaitReturns, BarrierReturns, NoMoreTasksReturns, CallBarrier,
              CallNoMoreTasks, MainAccess, Resume, NewTask, taskVars, analyserVars
  <2> QED BY <1>1, <2>1 DEF CountsTyped
<1>4. CASE ServeAnalyse
  <2>1. PICK t : t = Head(apQueue).task
    OBVIOUS
  <2>2. /\ Serving("ANALYSE_TASK") /\ UNCHANGED <<status, execCount, barrierFlags>>
        /\ taskCount' = PutCount(tasks[t].app, CountOf(tasks[t].app) + 1)
    BY <1>4, <2>1 DEF ServeAnalyse, ProcessTask
  <2>3. tasks[t].app \in Apps
    BY <1>1, <2>1, <2>2, AnalysedTask DEF TaskRecord
  <2>4. CountOf(tasks[t].app) + 1 \in Int
    BY <1>2, <2>3
  <2>5. DOMAIN taskCount' \subseteq Apps /\ \A b \in DOMAIN taskCount' : taskCount'[b] \in Int
    BY <1>2, <2>2, <2>3, <2>4
  <2> QED BY <1>1, <2>2, <2>5 DEF CountsTyped
<1>5. CASE ServeTaskEnd
  <2>1. PICK t, a : t = Head(apQueue).task /\ a = tasks[t].app
    OBVIOUS
  <2>2. UNCHANGED <<status, execCount>>
    BY <1>5, <2>1 DEF ServeTaskEnd, EndTask, taskVars
  <2>3. UNCHANGED <<taskCount, barrierFlags>> \/ (a \in DOMAIN taskCount /\ ReleaseApp(a, taskCount[a] - 1))
    BY <1>5, <2>1 DEF ServeTaskEnd, EndTask, analyserVars
  <2>4. CASE UNCHANGED <<taskCount, barrierFlags>>
    BY <1>1, <2>2, <2>4 DEF CountsTyped
  <2>5. CASE a \in DOMAIN taskCount /\ ReleaseApp(a, taskCount[a] - 1)
    <3>1. a \in Apps /\ taskCount[a] - 1 \in Int
      BY <1>1, <2>5 DEF CountsTyped
    <3>2. /\ taskCount' = RemoveCount(a) \/ taskCount' = PutCount(a, taskCount[a] - 1)
          /\ barrierFlags' \subseteq barrierFlags
      BY <2>5 DEF ReleaseApp
    <3>3. DOMAIN taskCount' \subseteq Apps /\ \A b \in DOMAIN taskCount' : taskCount'[b] \in Int
      BY <1>2, <3>1, <3>2
    <3> QED BY <1>1, <2>2, <3>2, <3>3 DEF CountsTyped
  <2> QED BY <2>3, <2>4, <2>5
<1>6. CASE ServeRegister \/ ServeWaitForTask
  <2>1. UNCHANGED <<status, execCount, taskCount, barrierFlags>>
    BY <1>6 DEF ServeRegister, ServeWaitForTask, RegisterAccess, FindWaitedTask, taskVars
  <2> QED BY <1>1, <2>1 DEF CountsTyped
<1>7. CASE ServeBarrier \/ ServeEndOfApp
  <2>1. PICK a : a = Head(apQueue).app
    OBVIOUS
  <2>2. \E kind \in {"BARRIER", "END_OF_APP"} : Serving(kind)
    BY <1>7 DEF ServeBarrier, ServeEndOfApp
  <2>3. a \in Apps
    BY <1>1, <2>1, <2>2, ServedProgram
  <2>4. /\ UNCHANGED <<status, execCount>>
        /\ taskCount' \in {taskCount, RemoveCount(a)}
        /\ barrierFlags' \subseteq barrierFlags \cup {a}
    BY <1>7, <2>1 DEF ServeBarrier, ServeEndOfApp, Barrier, NoMoreTasks, taskVars
  <2>5. DOMAIN taskCount' \subseteq Apps /\ \A b \in DOMAIN taskCount' : taskCount'[b] \in Int
    <3>1. CASE taskCount' = taskCount
      BY <1>1, <3>1 DEF CountsTyped
    <3>2. CASE taskCount' = RemoveCount(a)
      BY <1>2, <2>3, <3>2
    <3> QED BY <2>4, <3>1, <3>2
  <2> QED BY <1>1, <2>3, <2>4, <2>5 DEF CountsTyped
<1>8. CASE TakeRequest
  <2>1. PICK t : t = Head(tdQueue)
    OBVIOUS
  <2>2. /\ tdQueue # << >> /\ UNCHANGED <<taskCount, barrierFlags>>
        /\ status' = [status EXCEPT ![t] = "TO_EXECUTE"]
        /\ execCount' = [execCount EXCEPT ![t] = tasks[t].copies]
    BY <1>8, <2>1 DEF TakeRequest, analyserVars
  <2>3. t \in ToSet(tdQueue)
    BY <1>1, <2>1, <2>2, Taken DEF ExecutionsTyped
  <2>4. tasks[t] \in TaskRecord
    BY <1>1, <2>3 DEF ExecutionsTyped, InGraph, Base, Typed, Created
  <2>5. tasks[t].copies \in Int
    <3>1. tasks[t].copies \in Copies
      BY <2>4 DEF TaskRecord
    <3>2. Copies \subseteq Int
      BY CopiesAssumption
    <3> QED BY <3>1, <3>2
  <2> QED BY <1>1, <2>2, <2>5 DEF CountsTyped
<1>9. CASE \/ HasNext \/ EndOfPredecessors \/ NextPredecessor \/ DropRequest
           \/ \E t \in Task : \E i \in DOMAIN exec[t] : LaunchExecution(t, i)
           \/ UNCHANGED vars
  <2>1. UNCHANGED <<status, execCount, taskCount, barrierFlags>>
    BY <1>9 DEF HasNext, EndOfPredecessors, NextPredecessor, DropRequest, LaunchExecution, Launch,
                vars, taskVars, analyserVars
  <2> QED BY <1>1, <2>1 DEF CountsTyped
<1>10. CASE \E t \in Task : \E i \in DOMAIN exec[t] : CompleteExecution(t, i)
  <2>1. PICK t \in Task : /\ execCount' = [execCount EXCEPT ![t] = @ - 1]
                          /\ status' = [status EXCEPT ![t] = "FINISHED"]
                          /\ UNCHANGED <<taskCount, barrierFlags>>
    BY <1>10 DEF CompleteExecution, Complete, analyserVars
  <2> QED BY <1>1, <2>1 DEF CountsTyped
<1> QED BY <1>3, <1>4, <1>5, <1>6, <1>7, <1>8, <1>9, <1>10 DEF Next, Serve, DispatcherStep

-----------------------------------------------------------------------------
(* What the steps of the Task Dispatcher do to the executions.             *)

NewOne == [state |-> "new", on |-> {}]

\* The executions of the other tasks are left alone.
Only(t) == exec' \in [Task -> Seq(Execution)] /\ \A u \in Task : u # t => exec'[u] = exec[u]

\* A list of which one element is replaced.
LEMMA Replaced ==
    ASSUME NEW S, NEW s \in Seq(S), NEW i \in DOMAIN s, NEW e \in S, NEW q, q = [s EXCEPT ![i] = e]
    PROVE  /\ q \in Seq(S) /\ Len(q) = Len(s) /\ DOMAIN q = DOMAIN s /\ q[i] = e
           /\ \A j \in DOMAIN s : j # i => q[j] = s[j]
OBVIOUS

\* An execution of which one component is replaced.
LEMMA ExecutionReplaced ==
    ASSUME NEW e \in Execution, NEW y
    PROVE  /\ [e EXCEPT !.state = y] = [state |-> y, on |-> e.on]
           /\ [e EXCEPT !.on = y] = [state |-> e.state, on |-> y]
BY DEF Execution

\* The first request of the Task Dispatcher gets one more execution, the new one.
LEMMA TakeRequestMoves ==
    ASSUME ExecutionsTyped, TakeRequest, NEW t, t = Head(tdQueue), NEW n, n = Len(exec[t])
    PROVE  /\ t \in Task /\ n \in Nat /\ tdQueue # << >>
           /\ Only(t) /\ Len(exec'[t]) = n + 1 /\ exec'[t][n + 1] = NewOne
           /\ \A i \in 1 .. n : exec'[t][i] = exec[t][i]
           /\ tdQueue' = Tail(tdQueue) /\ tdQueue' \in Seq(Task)
           /\ ToSet(tdQueue) = ToSet(tdQueue') \cup {t}
           /\ cursor = Idle /\ cursor' = Iterating("hasNext", t, 0, removals[t])
           /\ execCount' = [execCount EXCEPT ![t] = tasks[t].copies]
           /\ UNCHANGED <<tasks, preds, succs, removals, lost>>
<1>1. /\ cursor = Idle /\ tdQueue # << >> /\ tdQueue' = Tail(tdQueue)
      /\ exec' = [exec EXCEPT ![t] = Append(exec[t], NewOne)]
      /\ cursor' = Iterating("hasNext", t, 0, removals[t])
      /\ execCount' = [execCount EXCEPT ![t] = tasks[t].copies]
      /\ UNCHANGED <<tasks, preds, succs, removals, lost>>
  BY DEF TakeRequest, NewExecution, NewOne, Iterator, Iterating
<1>2. t \in Task /\ tdQueue' \in Seq(Task) /\ exec \in [Task -> Seq(Execution)] /\ tdQueue \in Seq(Task)
  BY <1>1 DEF ExecutionsTyped
<1>3. ToSet(tdQueue) = ToSet(tdQueue') \cup {t}
  BY <1>1, <1>2, Taken
<1>4. NewOne \in Execution
  BY DEF NewOne, Execution
<1> PICK p, q : p = exec[t] /\ q = Append(p, NewOne)
  OBVIOUS
<1>5. p \in Seq(Execution) /\ Len(p) = n
  BY <1>2
<1>6. q \in Seq(Execution) /\ Len(q) = n + 1 /\ q[n + 1] = NewOne /\ n \in Nat
      /\ \A i \in 1 .. n : q[i] = p[i]
  BY <1>4, <1>5
<1>7. exec'[t] = q /\ Only(t)
  BY <1>1, <1>2, <1>6 DEF Only
<1> QED BY <1>1, <1>2, <1>3, <1>6, <1>7

\* At the end of the loop the execution goes to the scheduler, and the next copy is made.
LEMMA EndOfPredecessorsMoves ==
    ASSUME ExecutionsTyped, EndOfPredecessors, NEW t \in Task, NEW at, NEW i, NEW x,
           cursor = Iterating(at, t, i, x), exec[t] # << >>, NEW n, n = Len(exec[t])
    PROVE  /\ n \in Nat \ {0} /\ at = "hasNext" /\ i >= Len(preds[t])
           /\ Only(t) /\ exec'[t][n].state = "waiting" /\ exec'[t][n].on = exec[t][n].on
           /\ \A j \in 1 .. n : j # n => exec'[t][j] = exec[t][j]
           /\ n < tasks[t].copies => /\ Len(exec'[t]) = n + 1 /\ exec'[t][n + 1] = NewOne
                                     /\ cursor' = Iterating("hasNext", t, 0, removals[t])
           /\ ~(n < tasks[t].copies) => Len(exec'[t]) = n /\ cursor' = Idle
           /\ UNCHANGED <<tasks, preds, succs, removals, lost, tdQueue, execCount>>
<1> PICK s : s = exec[t]
  OBVIOUS
<1>1. PICK w : w = [s EXCEPT ![n].state = "waiting"]
  OBVIOUS
<1>2. /\ cursor.at = at /\ cursor.task = t /\ cursor.index = i
      /\ UNCHANGED <<tasks, preds, succs, removals, lost, tdQueue, execCount>>
  BY DEF Iterating, EndOfPredecessors, taskVars
<1>3. /\ at = "hasNext" /\ i >= Len(preds[t])
      /\ IF n < tasks[t].copies
         THEN exec' = [exec EXCEPT ![t] = Append(w, NewOne)] /\ cursor' = Iterator(t)
         ELSE exec' = [exec EXCEPT ![t] = w] /\ cursor' = Idle
  BY <1>1, <1>2 DEF EndOfPredecessors, NewOne
<1>4. exec \in [Task -> Seq(Execution)] /\ s \in Seq(Execution) /\ n \in Nat \ {0} /\ n \in DOMAIN s
  BY DEF ExecutionsTyped
<1>5. NewOne \in Execution
  BY DEF NewOne, Execution
<1>6. PICK e : e = [state |-> "waiting", on |-> s[n].on]
  OBVIOUS
<1>7. e \in Execution /\ w = [s EXCEPT ![n] = e]
  <2>1. s[n] \in Execution
    BY <1>4
  <2>2. [s[n] EXCEPT !.state = "waiting"] = e
    BY <1>6, <2>1 DEF Execution
  <2> QED BY <1>1, <1>6, <2>1, <2>2 DEF Execution
<1>8. /\ w \in Seq(Execution) /\ Len(w) = n /\ w[n] = e
      /\ \A j \in 1 .. n : j # n => w[j] = s[j]
  BY <1>4, <1>7, Replaced
<1>9. /\ Append(w, NewOne) \in Seq(Execution) /\ Len(Append(w, NewOne)) = n + 1
      /\ Append(w, NewOne)[n + 1] = NewOne /\ \A j \in 1 .. n : Append(w, NewOne)[j] = w[j]
  BY <1>4, <1>5, <1>8
<1>10. e.state = "waiting" /\ e.on = s[n].on /\ n \in 1 .. n
  BY <1>4, <1>6
<1>11. CASE n < tasks[t].copies
  <2>1. PICK q : q = Append(w, NewOne)
    OBVIOUS
  <2>2. exec'[t] = q /\ Only(t) /\ cursor' = Iterating("hasNext", t, 0, removals[t])
    BY <1>3, <1>4, <1>9, <1>11, <2>1 DEF Only, Iterator, Iterating
  <2>3. Len(q) = n + 1 /\ q[n + 1] = NewOne /\ \A j \in 1 .. n : q[j] = w[j]
    BY <1>9, <2>1
  <2> QED BY <1>2, <1>3, <1>4, <1>8, <1>10, <1>11, <2>2, <2>3
<1>12. CASE ~(n < tasks[t].copies)
  <2>1. exec'[t] = w /\ Only(t) /\ cursor' = Idle
    BY <1>3, <1>4, <1>8, <1>12 DEF Only
  <2> QED BY <1>2, <1>3, <1>4, <1>8, <1>10, <1>12, <2>1
<1> QED BY <1>11, <1>12

\* The new execution depends on the executions of one more predecessor.
LEMMA NextPredecessorMoves ==
    ASSUME ExecutionsTyped, NextPredecessor, NEW t \in Task, NEW at, NEW i, NEW x,
           cursor = Iterating(at, t, i, x), exec[t] # << >>, NEW n, n = Len(exec[t]),
           preds[t][i + 1] \in Task
    PROVE  /\ n \in Nat \ {0} /\ at = "next" /\ x = removals[t]
           /\ Only(t) /\ Len(exec'[t]) = n /\ exec'[t][n].state = exec[t][n].state
           /\ exec'[t][n].on = exec[t][n].on \cup Pending(preds[t][i + 1])
           /\ \A j \in 1 .. n : j # n => exec'[t][j] = exec[t][j]
           /\ cursor' = Iterating("hasNext", t, i + 1, x)
           /\ UNCHANGED <<tasks, preds, succs, removals, lost, tdQueue, execCount>>
<1> PICK s, p : s = exec[t] /\ p = preds[t][i + 1]
  OBVIOUS
<1>1. PICK e : e = [state |-> s[n].state, on |-> s[n].on \cup Pending(p)]
  OBVIOUS
<1>2. /\ cursor.at = at /\ cursor.task = t /\ cursor.index = i /\ cursor.expected = x
      /\ UNCHANGED <<tasks, preds, succs, removals, lost, tdQueue, execCount>>
  BY DEF Iterating, NextPredecessor, taskVars
<1>3. /\ at = "next" /\ x = removals[t]
      /\ exec' = [exec EXCEPT ![t][n].on = @ \cup Pending(p)]
      /\ cursor' = Iterating("hasNext", t, i + 1, x)
  BY <1>2 DEF NextPredecessor, Iterating
<1>4. exec \in [Task -> Seq(Execution)] /\ s \in Seq(Execution) /\ n \in Nat \ {0} /\ n \in DOMAIN s
  BY DEF ExecutionsTyped
<1>5. Pending(p) \subseteq Task \X Nat
  <2>1. DOMAIN exec[p] \subseteq Nat
    BY <1>4
  <2> QED BY <2>1 DEF Pending
<1>6. s[n] \in Execution
  BY <1>4
<1>7. e \in Execution /\ [s[n] EXCEPT !.on = s[n].on \cup Pending(p)] = e
  <2>1. [s[n] EXCEPT !.on = s[n].on \cup Pending(p)] = e
    <3>1. PICK r, y : r = s[n] /\ y = r.on \cup Pending(p)
      OBVIOUS
    <3>2. r \in Execution
      BY <1>6, <3>1
    <3>3. [r EXCEPT !.on = y] = [state |-> r.state, on |-> y]
      BY <3>2, ExecutionReplaced
    <3> QED BY <1>1, <3>1, <3>3
  <2> QED BY <1>1, <1>5, <1>6, <2>1 DEF Execution
<1>8. PICK q : q = [s EXCEPT ![n] = e]
  OBVIOUS
<1>9. exec' = [exec EXCEPT ![t] = q]
  <2>1. exec' = [exec EXCEPT ![t] = [s EXCEPT ![n] = [s[n] EXCEPT !.on = s[n].on \cup Pending(p)]]]
    BY <1>3, <1>4
  <2> QED BY <1>7, <1>8, <2>1
<1>10. /\ q \in Seq(Execution) /\ Len(q) = n /\ q[n] = e
       /\ \A j \in 1 .. n : j # n => q[j] = s[j]
  BY <1>4, <1>7, <1>8, Replaced
<1>11. exec'[t] = q /\ Only(t)
  BY <1>4, <1>9, <1>10 DEF Only
<1>12. e.state = s[n].state /\ e.on = s[n].on \cup Pending(p)
  BY <1>1
<1> QED BY <1>2, <1>3, <1>4, <1>10, <1>11, <1>12

\* The scheduler runs an execution that depends on nothing.
LEMMA LaunchMoves ==
    ASSUME ExecutionsTyped, NEW t \in Task, NEW i \in DOMAIN exec[t], Launch(t, i), NEW n, n = Len(exec[t])
    PROVE  /\ n \in Nat /\ i \in 1 .. n /\ exec[t][i].state = "waiting" /\ exec[t][i].on = {}
           /\ Only(t) /\ Len(exec'[t]) = n /\ exec'[t][i].state = "running" /\ exec'[t][i].on = {}
           /\ \A j \in 1 .. n : j # i => exec'[t][j] = exec[t][j]
           /\ UNCHANGED <<tasks, preds, succs, removals, lost, tdQueue, cursor, execCount>>
<1> PICK s : s = exec[t]
  OBVIOUS
<1>1. PICK e : e = [state |-> "running", on |-> {}]
  OBVIOUS
<1>2. /\ s[i].state = "waiting" /\ s[i].on = {}
      /\ exec' = [exec EXCEPT ![t][i].state = "running"]
      /\ UNCHANGED <<tasks, preds, succs, removals, lost, tdQueue, cursor, execCount>>
  BY DEF Launch, taskVars
<1>3. exec \in [Task -> Seq(Execution)] /\ s \in Seq(Execution) /\ n \in Nat /\ i \in DOMAIN s /\ i \in 1 .. n
  BY DEF ExecutionsTyped
<1>4. s[i] \in Execution
  BY <1>3
<1>5. e \in Execution /\ [s[i] EXCEPT !.state = "running"] = e
  <2>1. [s[i] EXCEPT !.state = "running"] = e
    BY <1>1, <1>2, <1>4, ExecutionReplaced
  <2> QED BY <1>1, <2>1 DEF Execution
<1>6. PICK q : q = [s EXCEPT ![i] = e]
  OBVIOUS
<1>7. exec' = [exec EXCEPT ![t] = q]
  <2>1. exec' = [exec EXCEPT ![t] = [s EXCEPT ![i] = [s[i] EXCEPT !.state = "running"]]]
    BY <1>2, <1>3
  <2> QED BY <1>5, <1>6, <2>1
<1>8. /\ q \in Seq(Execution) /\ Len(q) = n /\ q[i] = e /\ DOMAIN s = 1 .. n
      /\ \A j \in DOMAIN s : j # i => q[j] = s[j]
  BY <1>3, <1>5, <1>6, Replaced
<1>9. exec'[t] = q /\ Only(t)
  BY <1>3, <1>7, <1>8 DEF Only
<1>10. e.state = "running" /\ e.on = {}
  BY <1>1
<1> QED BY <1>2, <1>3, <1>8, <1>9, <1>10

\* An execution ends, and none depends on it any more.
LEMMA CompleteMoves ==
    ASSUME ExecutionsTyped, NEW t \in Task, NEW i \in DOMAIN exec[t], Complete(t, i)
    PROVE  /\ exec[t][i].state = "running" /\ exec'[t][i].state = "done" /\ cursor = Idle
           /\ exec' \in [Task -> Seq(Execution)]
           /\ \A u \in Task : Len(exec'[u]) = Len(exec[u]) /\ DOMAIN exec'[u] = DOMAIN exec[u]
           /\ \A u \in Task : \A k \in DOMAIN exec[u] :
                 /\ exec'[u][k].on = exec[u][k].on \ {<<t, i>>}
                 /\ u # t \/ k # i => exec'[u][k].state = exec[u][k].state
           /\ execCount' = [execCount EXCEPT ![t] = @ - 1]
           /\ UNCHANGED <<tasks, preds, succs, removals, lost, tdQueue, cursor>>
<1>1. /\ exec[t][i].state = "running" /\ cursor = Idle
      /\ exec' = [s \in Task |-> [k \in DOMAIN exec[s] |->
                    [state |-> IF s = t /\ k = i THEN "done" ELSE exec[s][k].state,
                     on |-> exec[s][k].on \ {<<t, i>>}]]]
      /\ execCount' = [execCount EXCEPT ![t] = @ - 1]
      /\ UNCHANGED <<tasks, preds, succs, removals, lost, tdQueue, cursor>>
  BY DEF Complete
<1>2. ASSUME NEW u \in Task
      PROVE  /\ exec'[u] \in Seq(Execution) /\ Len(exec'[u]) = Len(exec[u]) /\ DOMAIN exec'[u] = DOMAIN exec[u]
             /\ \A k \in DOMAIN exec[u] :
                   /\ exec'[u][k].on = exec[u][k].on \ {<<t, i>>}
                   /\ exec'[u][k].state = IF u = t /\ k = i THEN "done" ELSE exec[u][k].state
  <2> PICK s, n : s = exec[u] /\ n = Len(s)
    OBVIOUS
  <2>1. s \in Seq(Execution) /\ n \in Nat /\ DOMAIN s = 1 .. n
    BY DEF ExecutionsTyped
  <2>2. PICK f : f = [k \in 1 .. n |-> [state |-> IF u = t /\ k = i THEN "done" ELSE s[k].state,
                                       on |-> s[k].on \ {<<t, i>>}]]
    OBVIOUS
  <2>3. exec'[u] = f
    BY <1>1, <2>1, <2>2
  <2>4. \A k \in 1 .. n : /\ f[k].on = s[k].on \ {<<t, i>>}
                          /\ f[k].state = IF u = t /\ k = i THEN "done" ELSE s[k].state
    BY <2>2
  <2>5. \A k \in 1 .. n : f[k] \in Execution
    <3> TAKE k \in 1 .. n
    <3>1. s[k] \in Execution
      BY <2>1
    <3>2. s[k].state \in {"new", "waiting", "running", "done"} /\ s[k].on \ {<<t, i>>} \subseteq Task \X Nat
      BY <3>1 DEF Execution
    <3> QED BY <2>2, <3>2 DEF Execution
  <2>6. f \in [1 .. n -> Execution]
    BY <2>2, <2>5
  <2>7. f \in Seq(Execution) /\ Len(f) = n /\ DOMAIN f = 1 .. n
    BY <2>1, <2>6
  <2> QED BY <2>1, <2>3, <2>4, <2>7
<1>3. exec' \in [Task -> Seq(Execution)]
  <2>1. DOMAIN exec' = Task /\ exec' = [u \in Task |-> exec'[u]]
    BY <1>1
  <2> QED BY <1>2, <2>1
<1> QED BY <1>1, <1>2, <1>3

\* The requests of the Task Dispatcher are of tasks of the graph, and its executions what
\* the steps make of them.
LEMMA ExecutionsTypedStay ==
    ASSUME TypeInv, [Next]_vars, \A t \in Task : InGraph(t) => InGraph(t)'
    PROVE  ExecutionsTyped'
<1>1. ExecutionsTyped /\ Base /\ InOrder /\ \A t \in Task : InGraph(t) => InGraph(t)'
  BY DEF TypeInv, GraphInv
<1>2. /\ tdQueue \in Seq(Task) /\ \A t \in ToSet(tdQueue) : InGraph(t)
      /\ exec \in [Task -> Seq(Execution)] /\ lost \subseteq Task /\ ToSet(tdQueue) \subseteq Task
  <2>1. tdQueue \in Seq(Task)
    BY <1>1 DEF ExecutionsTyped
  <2>2. ToSet(tdQueue) \subseteq Task
    BY <2>1 DEF ToSet
  <2> QED BY <1>1, <2>1, <2>2 DEF ExecutionsTyped
<1>3. CASE UNCHANGED dispatcherVars
  BY <1>1, <1>2, <1>3 DEF ExecutionsTyped, dispatcherVars
<1>4. CASE ServeAnalyse
  <2>1. PICK t : t = Head(apQueue).task
    OBVIOUS
  <2>2. /\ Serving("ANALYSE_TASK") /\ tasks' = tasks /\ UNCHANGED <<exec, lost>>
        /\ tdQueue' = Append(tdQueue, t)
    BY <1>4, <2>1 DEF ServeAnalyse, ProcessTask
  <2>3. t \in Task /\ InGraph(t)'
    BY <1>1, <2>1, <2>2, NextOfGraph
  <2>4. ToSet(tdQueue') = ToSet(tdQueue) \cup {t} /\ tdQueue' \in Seq(Task)
    <3>1. ToSet(tdQueue') = ToSet(tdQueue) \cup {t}
      BY <1>2, <2>2, <2>3, Offered
    <3> QED BY <1>2, <2>2, <2>3, <3>1
  <2> QED BY <1>1, <1>2, <2>2, <2>3, <2>4 DEF ExecutionsTyped
<1>5. CASE TakeRequest
  <2>1. PICK t, n : t = Head(tdQueue) /\ n = Len(exec[t])
    OBVIOUS
  <2>2. Only(t) /\ lost' = lost
    BY <1>1, <1>5, <2>1, TakeRequestMoves
  <2>3. tdQueue' \in Seq(Task)
    BY <1>1, <1>5, <2>1, TakeRequestMoves
  <2>4. ToSet(tdQueue) = ToSet(tdQueue') \cup {t}
    BY <1>1, <1>5, <2>1, TakeRequestMoves
  <2> QED BY <1>1, <1>2, <2>2, <2>3, <2>4 DEF ExecutionsTyped, Only
<1>6. ASSUME HasNext \/ EndOfPredecessors \/ NextPredecessor \/ DropRequest
      PROVE  ExecutionsTyped'
  <2>1. PICK at, t, i, x :
          /\ cursor = Iterating(at, t, i, x)
          /\ at \in {"hasNext", "next"} /\ t \in Task /\ i \in Nat /\ x \in Nat
          /\ InGraph(t) /\ exec[t] # << >>
          /\ x <= removals[t]
          /\ at = "next" /\ x = removals[t] => i < Len(preds[t])
    BY <1>6 DEF TypeInv, IteratorInv, HasNext, EndOfPredecessors, NextPredecessor, DropRequest, Idle
  <2>2. cursor.at = at /\ cursor.task = t /\ cursor.expected = x
    BY <2>1 DEF Iterating
  <2>3. PICK n : n = Len(exec[t])
    OBVIOUS
  <2>4. tdQueue' = tdQueue /\ exec' \in [Task -> Seq(Execution)] /\ lost' \subseteq Task
    <3>1. CASE HasNext
      BY <1>2, <3>1 DEF HasNext
    <3>2. CASE EndOfPredecessors
      BY <1>1, <1>2, <2>1, <2>3, <3>2, EndOfPredecessorsMoves DEF Only
    <3>3. CASE NextPredecessor
      <4>1. x = removals[t] /\ at = "next"
        BY <2>2, <3>3 DEF NextPredecessor
      <4>2. preds[t][i + 1] \in Task
        <5>1. preds[t] \in Seq(Task) /\ i + 1 \in 1 .. Len(preds[t])
          BY <2>1, <4>1 DEF TypeInv, GraphInv
        <5> QED BY <5>1
      <4> QED BY <1>1, <1>2, <2>1, <2>3, <3>3, <4>2, NextPredecessorMoves DEF Only
    <3>4. CASE DropRequest
      BY <1>2, <2>1, <2>2, <3>4 DEF DropRequest
    <3> QED BY <1>6, <3>1, <3>2, <3>3, <3>4
  <2> QED BY <1>1, <1>2, <2>4 DEF ExecutionsTyped
<1>7. ASSUME NEW t \in Task, NEW i \in DOMAIN exec[t], Launch(t, i) PROVE ExecutionsTyped'
  <2>1. PICK n : n = Len(exec[t])
    OBVIOUS
  <2> QED BY <1>1, <1>2, <1>7, <2>1, LaunchMoves DEF Only, ExecutionsTyped
<1>8. ASSUME NEW t \in Task, NEW i \in DOMAIN exec[t], Complete(t, i) PROVE ExecutionsTyped'
  BY <1>1, <1>2, <1>8, CompleteMoves DEF ExecutionsTyped
<1>9. CASE \/ \E a \in Apps : \/ MainStep(a)
                              \/ \E access \in MainAccesses : MainAccess(a, access)
                              \/ CallBarrier(a)
                              \/ CallNoMoreTasks(a)
                              \/ \E params \in Signatures, copies \in Copies : NewTask(a, params, copies)
           \/ ServeTaskEnd \/ ServeRegister \/ ServeWaitForTask \/ ServeBarrier \/ ServeEndOfApp
           \/ UNCHANGED vars
  <2>1. UNCHANGED dispatcherVars
    BY <1>9 DEF MainStep, Registration, WaitReturns, BarrierReturns, NoMoreTasksReturns, CallBarrier,
              CallNoMoreTasks, MainAccess, NewTask, ServeTaskEnd, ServeRegister, ServeWaitForTask,
              ServeBarrier, ServeEndOfApp, vars
  <2> QED BY <1>3, <2>1
<1> QED BY <1>4, <1>5, <1>6, <1>7, <1>8, <1>9
        DEF Next, Serve, DispatcherStep, LaunchExecution, CompleteExecution

\* While the iterator waits, the Access Processor may remove predecessors, which the
\* iterator notices, and gives predecessors to other tasks only.
LEMMA IteratorWaits ==
    ASSUME TypeInv, [Next]_vars, cursor' = cursor, \A t \in Task : InGraph(t) => InGraph(t)',
           \A t \in Task : exec[t] # << >> => exec'[t] # << >>
    PROVE  IteratorInv'
<1>1. CASE cursor = Idle
  BY <1>1 DEF IteratorInv
<1>2. CASE cursor # Idle
  <2>1. PICK at, t, i, x :
          /\ cursor = Iterating(at, t, i, x)
          /\ at \in {"hasNext", "next"} /\ t \in Task /\ i \in Nat /\ x \in Nat
          /\ InGraph(t) /\ exec[t] # << >>
          /\ x <= removals[t]
          /\ at = "next" /\ x = removals[t] => i < Len(preds[t])
    BY <1>2 DEF TypeInv, IteratorInv
  <2>2. Base /\ InOrder /\ removals \in [Task -> Nat] /\ preds \in [Task -> Seq(Task)]
        /\ succs \in [Task -> Seq(Task)]
    BY DEF TypeInv, GraphInv
  <2>3. x <= removals'[t] /\ (at = "next" /\ x = removals'[t] => i < Len(preds'[t]))
    <3>1. CASE ServeAnalyse
      <4>1. PICK u, new : u = Head(apQueue).task /\ new = Predecessors(tasks[u].params)
        OBVIOUS
      <4>2. /\ Serving("ANALYSE_TASK") /\ tasks' = tasks /\ removals' = removals
            /\ preds' = [preds EXCEPT ![u] = new]
        BY <3>1, <4>1 DEF ServeAnalyse, ProcessTask
      <4>3. ~InGraph(u)
        BY <2>2, <4>1, <4>2, NextOfGraph
      <4>4. preds'[t] = preds[t]
        BY <2>1, <2>2, <4>2, <4>3
      <4> QED BY <2>1, <4>2, <4>4
    <3>2. CASE ServeTaskEnd
      <4>1. PICK u : u = Head(apQueue).task
        OBVIOUS
      <4>2. Serving("TASK_END") /\ EndTask(u)
        BY <3>2, <4>1 DEF ServeTaskEnd
      <4>3. u \in Task
        <5>1. Head(apQueue) \in Request /\ Head(apQueue).type = "TASK_END"
          BY <2>2, <4>2, RequestServed DEF Base
        <5> QED BY <4>1, <5>1, RequestKinds
      <4>4. CASE UNCHANGED <<preds, removals>>
        BY <2>1, <4>4
      <4>5. CASE ReleaseDataDependents(u)
        <5>1. PICK c : c = Cardinality(Occurrences(succs[u], t))
          OBVIOUS
        <5>2. /\ preds' = [s \in Task |-> IF Occurrences(succs[u], s) = {} THEN preds[s]
                                          ELSE Without(preds[s], u)]
              /\ removals'[t] = removals[t] + c
          BY <2>1, <4>5, <5>1 DEF ReleaseDataDependents
        <5>3. c \in Nat /\ (c = 0 <=> Occurrences(succs[u], t) = {})
          <6>1. succs[u] \in Seq(Task)
            BY <2>2, <4>3
          <6> QED BY <5>1, <6>1, OccurrencesAre
        <5>4. c = 0 => preds'[t] = preds[t]
          BY <2>1, <5>2, <5>3
        <5>5. removals[t] \in Nat
          BY <2>1, <2>2
        <5> QED BY <2>1, <5>2, <5>3, <5>4, <5>5
      <4> QED BY <4>2, <4>4, <4>5 DEF EndTask, taskVars
    <3>3. CASE UNCHANGED <<preds, succs, removals>>
      BY <2>1, <3>3
    <3> QED BY <2>2, <3>1, <3>2, <3>3, GraphSteps
  <2>4. cursor' = Iterating(at, t, i, x) /\ InGraph(t)' /\ exec'[t] # << >>
    BY <2>1
  <2> QED BY <2>1, <2>3, <2>4 DEF IteratorInv
<1> QED BY <1>1, <1>2

\* The iterator stays within the predecessors, or notices that they are fewer.
LEMMA IteratorStays ==
    ASSUME TypeInv, [Next]_vars, \A t \in Task : InGraph(t) => InGraph(t)'
    PROVE  IteratorInv'
<1>1. ExecutionsTyped /\ Base /\ preds \in [Task -> Seq(Task)] /\ removals \in [Task -> Nat]
      /\ exec \in [Task -> Seq(Execution)]
  BY DEF TypeInv, GraphInv, ExecutionsTyped
<1>2. CASE cursor' = cursor /\ exec' = exec
  BY <1>2, IteratorWaits
<1>3. CASE TakeRequest
  <2>1. PICK t, n : t = Head(tdQueue) /\ n = Len(exec[t])
    OBVIOUS
  <2>2. t \in Task /\ n \in Nat /\ Only(t) /\ Len(exec'[t]) = n + 1
    BY <1>1, <1>3, <2>1, TakeRequestMoves
  <2>3. cursor' = Iterating("hasNext", t, 0, removals[t]) /\ removals' = removals
    BY <1>1, <1>3, <2>1, TakeRequestMoves
  <2>4. ToSet(tdQueue) = ToSet(tdQueue') \cup {t}
    BY <1>1, <1>3, <2>1, TakeRequestMoves
  <2>5. InGraph(t)'
    BY <2>2, <2>4 DEF TypeInv, ExecutionsTyped
  <2>6. exec'[t] # << >>
    BY <2>2 DEF Only
  <2>7. removals'[t] \in Nat /\ removals'[t] = removals[t] /\ 0 \in Nat
    BY <1>1, <2>2, <2>3
  <2>8. removals[t] <= removals'[t]
    BY <2>7
  <2> QED BY <2>2, <2>3, <2>5, <2>6, <2>7, <2>8 DEF IteratorInv
<1>4. ASSUME HasNext \/ EndOfPredecessors \/ NextPredecessor \/ DropRequest
      PROVE  IteratorInv'
  <2>1. PICK at, t, i, x :
          /\ cursor = Iterating(at, t, i, x)
          /\ at \in {"hasNext", "next"} /\ t \in Task /\ i \in Nat /\ x \in Nat
          /\ InGraph(t) /\ exec[t] # << >>
          /\ x <= removals[t]
          /\ at = "next" /\ x = removals[t] => i < Len(preds[t])
    BY <1>4 DEF TypeInv, IteratorInv, HasNext, EndOfPredecessors, NextPredecessor, DropRequest, Idle
  <2>2. cursor.at = at /\ cursor.task = t /\ cursor.index = i /\ cursor.expected = x
    BY <2>1 DEF Iterating
  <2>3. PICK n : n = Len(exec[t])
    OBVIOUS
  <2>4. InGraph(t)' /\ removals[t] \in Nat
    BY <1>1, <2>1
  <2>5. CASE HasNext
    <3>1. /\ i < Len(preds[t]) /\ cursor' = Iterating("next", t, i, x)
          /\ UNCHANGED <<preds, removals, exec>>
      BY <2>1, <2>2, <2>5 DEF HasNext, Iterating, taskVars
    <3> QED BY <2>1, <2>4, <3>1 DEF IteratorInv
  <2>6. CASE EndOfPredecessors
    <3>1. /\ n \in Nat \ {0} /\ Only(t) /\ removals' = removals
          /\ n < tasks[t].copies => /\ Len(exec'[t]) = n + 1
                                    /\ cursor' = Iterating("hasNext", t, 0, removals[t])
          /\ ~(n < tasks[t].copies) => cursor' = Idle
      BY <1>1, <2>1, <2>3, <2>6, EndOfPredecessorsMoves
    <3>2. CASE n < tasks[t].copies
      <4>1. exec'[t] # << >>
        BY <2>1, <3>1, <3>2 DEF Only
      <4>2. removals[t] <= removals'[t] /\ removals[t] \in Nat /\ 0 \in Nat
        BY <2>4, <3>1
      <4> QED BY <2>1, <2>4, <3>1, <3>2, <4>1, <4>2 DEF IteratorInv
    <3>3. CASE ~(n < tasks[t].copies)
      BY <3>1, <3>3 DEF IteratorInv
    <3> QED BY <3>2, <3>3
  <2>7. CASE NextPredecessor
    <3>1. x = removals[t] /\ at = "next"
      BY <2>2, <2>7 DEF NextPredecessor
    <3>2. preds[t][i + 1] \in Task
      <4>1. preds[t] \in Seq(Task) /\ i + 1 \in 1 .. Len(preds[t])
        BY <1>1, <2>1, <3>1
      <4> QED BY <4>1
    <3>3. n \in Nat \ {0} /\ Only(t) /\ Len(exec'[t]) = n
      BY <1>1, <2>1, <2>3, <2>7, <3>2, NextPredecessorMoves
    <3>6. cursor' = Iterating("hasNext", t, i + 1, x) /\ removals' = removals
      BY <2>1, <2>2, <2>7 DEF NextPredecessor, Iterating, taskVars
    <3>4. exec'[t] # << >>
      BY <2>1, <3>3 DEF Only
    <3>5. i + 1 \in Nat /\ x <= removals'[t]
      BY <2>1, <3>6
    <3> QED BY <2>1, <2>4, <3>4, <3>5, <3>6 DEF IteratorInv
  <2>8. CASE DropRequest
    BY <2>8 DEF DropRequest, IteratorInv
  <2> QED BY <1>4, <2>5, <2>6, <2>7, <2>8
<1>5. ASSUME NEW t \in Task, NEW i \in DOMAIN exec[t], Launch(t, i) PROVE IteratorInv'
  <2>1. PICK n : n = Len(exec[t])
    OBVIOUS
  <2>4. ExecutionsTyped /\ t \in Task /\ i \in DOMAIN exec[t] /\ Launch(t, i)
    BY <1>1, <1>5
  <2>5. Only(t)
    BY <2>1, <2>4, LaunchMoves
  <2>6. Len(exec'[t]) = n
    BY <2>1, <2>4, LaunchMoves
  <2>2. n \in Nat /\ i \in 1 .. n /\ Only(t) /\ Len(exec'[t]) = n
    BY <1>1, <2>1, <2>4, <2>5, <2>6
  <2>0. cursor' = cursor
    BY <1>5 DEF Launch
  <2>3. \A u \in Task : exec[u] # << >> => exec'[u] # << >>
    BY <1>1, <2>2 DEF Only
  <2> QED BY <2>0, <2>3, IteratorWaits
<1>6. ASSUME NEW t \in Task, NEW i \in DOMAIN exec[t], Complete(t, i) PROVE IteratorInv'
  <2>1. cursor' = cursor /\ exec' \in [Task -> Seq(Execution)]
    BY <1>1, <1>6, CompleteMoves
  <2>2. \A u \in Task : Len(exec'[u]) = Len(exec[u])
    BY <1>1, <1>6, CompleteMoves
  <2>3. \A u \in Task : exec[u] # << >> => exec'[u] # << >>
    BY <1>1, <2>1, <2>2
  <2> QED BY <2>1, <2>3, IteratorWaits
<1>7. CASE \/ \E a \in Apps : \/ MainStep(a)
                              \/ \E access \in MainAccesses : MainAccess(a, access)
                              \/ CallBarrier(a)
                              \/ CallNoMoreTasks(a)
                              \/ \E params \in Signatures, copies \in Copies : NewTask(a, params, copies)
           \/ Serve \/ UNCHANGED vars
  <2>1. UNCHANGED <<cursor, exec>>
    BY <1>7 DEF MainStep, Registration, WaitReturns, BarrierReturns, NoMoreTasksReturns, CallBarrier,
              CallNoMoreTasks, MainAccess, NewTask, Serve, ServeAnalyse, ServeTaskEnd, ServeRegister,
              ServeWaitForTask, ServeBarrier, ServeEndOfApp, vars, dispatcherVars
  <2> QED BY <1>2, <2>1
<1> QED BY <1>3, <1>4, <1>5, <1>6, <1>7 DEF Next, DispatcherStep, LaunchExecution, CompleteExecution

\* Every step keeps the types.
LEMMA TypesStay == TypeInv /\ [Next]_vars => TypeInv'
<1> SUFFICES ASSUME TypeInv, [Next]_vars PROVE TypeInv'
  OBVIOUS
<1>1. GraphInv'
  BY GraphStays DEF TypeInv
<1>2. \A t \in Task : InGraph(t) => InGraph(t)'
  BY InOrderStays DEF TypeInv, GraphInv
<1>3. CountsTyped'
  BY CountsTypedStay
<1>4. ExecutionsTyped'
  BY <1>2, ExecutionsTypedStay
<1>5. IteratorInv'
  BY <1>2, IteratorStays
<1> QED BY <1>1, <1>3, <1>4, <1>5 DEF TypeInv

\* Every variable keeps its type: the calls keep the lists and the registry well formed, and
\* the iterator of the Task Dispatcher gives no predecessor that is not there.
THEOREM TypeCorrect == Spec => []TypeOK
<1>1. Init => TypeInv
  BY TypesHoldFirst
<1>2. TypeInv /\ [Next]_vars => TypeInv'
  BY TypesStay
<1>3. TypeInv => TypeOK
  BY TypesAre
<1> QED BY <1>1, <1>2, <1>3, PTL DEF Spec
=============================================================================
