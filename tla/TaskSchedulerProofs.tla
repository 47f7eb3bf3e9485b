------------------------ MODULE TaskSchedulerProofs ------------------------
(***************************************************************************)
(* Proofs about TaskScheduler, for any number of tasks, workers, transfers *)
(* and chances, and any sizes of the workers.                              *)
(*                                                                         *)
(* A request first changes the actions it is about and gives back what     *)
(* they had reserved, then resumes and launches others.  What must hold in *)
(* between is Sound, about arbitrary values of the state of the actions,   *)
(* their workers, the counts and the executions; what the second half does *)
(* is a Change, and every Change keeps it.  A handler is proved by showing *)
(* that its first half is Sound and its second half a Change.              *)
(***************************************************************************)
EXTENDS TaskScheduler, FiniteSetTheorems, TLAPS

EndTypes == {"COMPLETED", "ERROR"}

\* The requests that hand over task t.
Ordered(t) ==
    {i \in DOMAIN tdQueue : tdQueue[i] = [type |-> "EXECUTE_TASKS", action |-> t]}

Waits(r) == r.toAdd > 0 \/ r.operations > 0 \/ ~r.enabled

\* An action in state s, with the listener and jobs of r and the updates at
\* these places of the queue: it runs when one thing is to end it, and only one is.
Phase(s, r, updates) ==
    /\ r.toAdd + r.operations <= Operations
    /\ r.enabled => r.toAdd = 0
    /\ \A i, j \in updates : i = j
    /\ Waits(r) => r.jobs = 0 /\ updates = {}
    /\ r.jobs = 1 => updates = {}
    /\ s = "RUNNING" <=> Waits(r) \/ r.jobs = 1 \/ updates # {}

Phases(st, rn) == \A a \in Action : Phase(st[a], rn[a], UpdatesOf(a))

\* A task waits to be created in the queue, once, and is created once.
Submissions(st) ==
    /\ \A t \in Task :
          /\ Ordered(t) # {} <=> st[t] = "none" /\ t <= submitted
          /\ \A i, j \in Ordered(t) : i = j
          /\ t > submitted => st[t] = "none"
    /\ \A w \in Workers \ workers : st[w] = "none"

\* Who depends on what: a task that was launched has no predecessor left, a
\* task failed by its predecessor keeps it, and none is dropped before its end.
Dependencies(st) ==
    /\ preds \in [Task -> SUBSET Task] /\ deps \in [Task -> SUBSET Task]
    /\ \A t \in Task :
          /\ st[t] \in {"none", "WAITING", "RUNNING", "FINISHED"} => preds[t] = {}
          /\ st[t] = "FAILED" => preds[t] = {} \/ \E p \in preds[t] : st[p] = "FAILED"
          /\ st[t] # "none" => \A p \in deps[t] : st[p] \in {"FINISHED", "FAILED"} \/ p \in preds[t]

\* Where actions are; a worker that starts has nothing left and runs nothing else.
Placement(st, res, counts) ==
    /\ \A a \in Action : res[a] \in workers \cup {NoWorker}
    /\ \A a \in Action : st[a] \in {"WAITING", "RUNNING"} => res[a] # NoWorker
    /\ \A w \in Workers : st[w] # "WAITING"
    /\ \A w \in Workers : st[w] = "RUNNING" =>
          /\ res[w] = w
          /\ counts[w].available = 0
          /\ \A t \in Task : st[t] = "RUNNING" => res[t] # w

Runs(st, res, w) == {a \in Action : st[a] = "RUNNING" /\ res[a] = w}
Load(st, res, w) ==
    Cardinality(Runs(st, res, w) \cap Task) + (IF w \in Runs(st, res, w) THEN Units ELSE 0)

\* What a worker has reserved is at most what its actions need, since a total
\* failure releases too much; without one it is exactly that, and fits.
Ledger(st, res, counts) == \A w \in Workers :
    /\ counts[w].used <= Cardinality(Runs(st, res, w))
    /\ counts[w].available >= Units - Load(st, res, w)
    /\ (\A a \in Action : st[a] # "FAILED") =>
          /\ counts[w].used = Cardinality(Runs(st, res, w))
          /\ counts[w].available = Units - Load(st, res, w)
          /\ counts[w].used <= LimitOfTasks
          /\ counts[w].available >= 0

\* A task that is neither launched nor ended is kept for another worker, or
\* by a predecessor, and then has its worker.
Kept == \A t \in Task : state[t] = "RUNNABLE" =>
    \/ t \in blocked /\ workers \subseteq tried[t]
    \/ preds[t] # {} /\ resource[t] # NoWorker

Counts == [Workers -> [used : Int, available : Int]]

\* All of it, of the actions as a request leaves them before it resumes and launches others.
Sound(st, res, counts, rn) ==
    /\ st \in [Action -> States]
    /\ res \in [Action -> Workers \cup {NoWorker}]
    /\ counts \in Counts
    /\ rn \in [Action -> Run]
    /\ Phases(st, rn)
    /\ Submissions(st)
    /\ Dependencies(st)
    /\ Placement(st, res, counts)
    /\ Ledger(st, res, counts)

\* The inductive invariant.
IInv == TypeOK /\ Sound(state, resource, count, run) /\ WaitersHaveRunners /\ Kept

\* The actions that a request resumes or launches on w.
LaunchedAt(resumed, running, res, w) == {a \in resumed \cup running : res[a] = w}

\* Those that it leaves waiting on w.
LeftAt(st, res, resumed, free, running, w) ==
    {a \in Action : res[a] = w /\ ((st[a] = "WAITING" /\ a \notin resumed) \/ a \in free \ running)}

\* They wait for one that runs, and if no task failed there is no room for them.
Filled(st, res, counts, resumed, free, running) == \A w \in Workers :
    LeftAt(st, res, resumed, free, running, w) # {} =>
        /\ Runs(st, res, w) \cup LaunchedAt(resumed, running, res, w) # {}
        /\ (\A a \in Action : st[a] # "FAILED") =>
              Cardinality(LaunchedAt(resumed, running, res, w)) = Room(counts[w])

\* The tasks that it does not try to launch are kept.
Keeping(st, res, free) == \A t \in Task : st[t] = "RUNNABLE" =>
    \/ t \in free
    \/ t \in blocked' /\ workers' \subseteq tried[t]
    \/ preds'[t] # {} /\ res[t] # NoWorker

\* A request resumes and launches others, as it should.
Change(st, res, counts, rn, resumed, free, running) ==
    /\ Become(st, res, counts, rn, resumed, free, running)
    /\ resumed \subseteq Task /\ free \subseteq Task /\ running \subseteq free
    /\ \A a \in resumed : st[a] = "WAITING"
    /\ \A a \in free : st[a] = "RUNNABLE" /\ preds'[a] = {} /\ res[a] # NoWorker
    /\ \A w \in Workers : Cardinality(LaunchedAt(resumed, running, res, w)) <= Room(counts[w])
    /\ Filled(st, res, counts, resumed, free, running)
    /\ Keeping(st, res, free)

\* On w nothing has ended or was given back.
Undisturbed(st, res, counts, w) ==
    /\ Runs(state, resource, w) # {} => Runs(st, res, w) # {}
    /\ (\A a \in Action : st[a] # "FAILED") => Failures = {} /\ counts[w] = count[w]

\* Action a has given back what it had reserved, and nothing else if no task failed.
GivesBack(a, st, counts) ==
    LET w0 == resource[a]
    IN  /\ counts \in Counts
        /\ counts[w0].used <= count[w0].used - 1
        /\ counts[w0].available >= count[w0].available + Needs(a)
        /\ \A w \in Workers : w # w0 => /\ counts[w].used <= count[w].used
                                       /\ counts[w].available = count[w].available
        /\ (\A b \in Action : st[b] # "FAILED") => counts = Release(count, w0, a)

-----------------------------------------------------------------------------
(* The smallest and the largest of two numbers, and of a set.              *)

\* The smallest of two numbers.
LEMMA MinOfTwo ==
    ASSUME NEW a \in Int, NEW b \in Int
    PROVE  Min({a, b}) = IF a <= b THEN a ELSE b
<1> DEFINE m == IF a <= b THEN a ELSE b
<1>1. m \in {a, b} /\ \A y \in {a, b} : m =< y
  OBVIOUS
<1>2. \A x \in {a, b} : (\A y \in {a, b} : x =< y) => x = m
  OBVIOUS
<1>3. Min({a, b}) \in {a, b} /\ \A y \in {a, b} : Min({a, b}) =< y
  BY <1>1 DEF Min
<1> QED BY <1>2, <1>3

\* The largest of two numbers.
LEMMA MaxOfTwo ==
    ASSUME NEW a \in Int, NEW b \in Int
    PROVE  Max({a, b}) = IF a >= b THEN a ELSE b
<1> DEFINE m == IF a >= b THEN a ELSE b
<1>1. m \in {a, b} /\ \A y \in {a, b} : m >= y
  OBVIOUS
<1>2. \A x \in {a, b} : (\A y \in {a, b} : x >= y) => x = m
  OBVIOUS
<1>3. Max({a, b}) \in {a, b} /\ \A y \in {a, b} : Max({a, b}) >= y
  BY <1>1 DEF Max
<1> QED BY <1>2, <1>3

\* The smallest task of a set is in it.
LEMMA MinOfSet ==
    ASSUME NEW S, S \subseteq Nat, S # {}
    PROVE  Min(S) \in S
<1> DEFINE Less == OpToRel(<, Nat)
<1>1. PICK n \in S : \A m \in S : <<m, n>> \notin Less
  <2>1. IsWellFoundedOn(Less, Nat)
    BY NatLessThanWellFounded
  <2> HIDE DEF Less
  <2> QED BY <2>1, WFMin
<1>2. \A m \in S : m \in Nat /\ n \in Nat
  OBVIOUS
<1>3. ASSUME NEW m \in S
      PROVE  ~(m < n)
  BY <1>1, <1>2 DEF OpToRel
<1>4. \A m \in S : n =< m
  BY <1>2, <1>3
<1> QED BY <1>4 DEF Min

\* canRunNow on the counts of a worker.
LEMMA RoomOf ==
    ASSUME NEW load, load.used \in Int, load.available \in Int
    PROVE  /\ Room(load) \in Nat
           /\ Room(load) > 0 => Room(load) <= LimitOfTasks - load.used /\ Room(load) <= load.available
           /\ Room(load) = 0 => load.used >= LimitOfTasks \/ load.available <= 0
           /\ load.used < LimitOfTasks /\ load.available > 0 =>
                 Room(load) \in {LimitOfTasks - load.used, load.available}
           /\ load.available <= 0 => Room(load) = 0
           /\ load.used >= LimitOfTasks => Room(load) = 0
<1>1. LimitOfTasks - load.used \in Int
  BY SchedulerAssumption
<1>2. Min({LimitOfTasks - load.used, load.available})
        = IF LimitOfTasks - load.used <= load.available THEN LimitOfTasks - load.used
          ELSE load.available
  BY <1>1, MinOfTwo
<1> DEFINE m == Min({LimitOfTasks - load.used, load.available})
<1>3. m \in Int
  BY <1>1, <1>2
<1>4. Room(load) = IF 0 >= m THEN 0 ELSE m
  <2> HIDE DEF m
  <2>1. Max({0, m}) = IF 0 >= m THEN 0 ELSE m
    BY <1>3, MaxOfTwo
  <2> QED BY <2>1 DEF Room, m
<1> QED BY <1>1, <1>2, <1>4, SchedulerAssumption

\* A worker that has less reserved has no less room.
LEMMA RoomGrows ==
    ASSUME NEW load, load.used \in Int, load.available \in Int,
           NEW other, other.used \in Int, other.available \in Int,
           load.used >= other.used, load.available <= other.available
    PROVE  Room(load) <= Room(other)
<1>1. Room(load) \in Nat /\ Room(other) \in Nat
  BY RoomOf
<1>2. CASE Room(load) = 0
  BY <1>1, <1>2
<1>3. CASE Room(load) > 0
  <2>1. Room(load) <= LimitOfTasks - load.used /\ Room(load) <= load.available
    BY <1>3, RoomOf
  <2>2. Room(other) = LimitOfTasks - other.used \/ Room(other) = other.available
    BY <1>3, <2>1, RoomOf, SchedulerAssumption
  <2> QED BY <1>1, <2>1, <2>2, SchedulerAssumption
<1> QED BY <1>1, <1>2, <1>3

\* As many executions as there was room for leave no room.
LEMMA RoomTaken ==
    ASSUME NEW load, load.used \in Int, load.available \in Int,
           NEW other, other.used = load.used + Room(load), other.available = load.available - Room(load)
    PROVE  Room(other) = 0
<1>1. PICK n : n = Room(load)
  OBVIOUS
<1>2. n \in Nat /\ other.used \in Int /\ other.available \in Int /\ LimitOfTasks \in Nat
  BY <1>1, RoomOf, SchedulerAssumption
<1>3. /\ n > 0 => n <= LimitOfTasks - load.used /\ n <= load.available
      /\ n = 0 => load.used >= LimitOfTasks \/ load.available <= 0
      /\ load.used < LimitOfTasks /\ load.available > 0 => n \in {LimitOfTasks - load.used, load.available}
  BY <1>1, RoomOf
<1>4. other.used >= LimitOfTasks \/ other.available <= 0
  BY <1>1, <1>2, <1>3
<1> QED BY <1>2, <1>4, RoomOf

\* There are finitely many actions.
LEMMA FiniteActions == IsFiniteSet(Task) /\ IsFiniteSet(Action)
<1>1. IsFiniteSet(Task)
  BY FS_Interval, ExecutionAssumption DEF Task
<1> QED BY <1>1, FS_Union, ExecutionAssumption DEF Action

\* Sets of actions can be counted.
LEMMA FiniteCount ==
    ASSUME NEW S, S \subseteq Action
    PROVE  /\ IsFiniteSet(S)
           /\ Cardinality(S) \in Nat
           /\ Cardinality(S) = 0 <=> S = {}
<1>1. IsFiniteSet(S)
  BY FiniteActions, FS_Subset
<1> QED BY <1>1, FS_CardinalityType, FS_EmptySet

\* Sets of actions are counted as any finite set.
LEMMA CountWithout ==
    ASSUME NEW S, S \subseteq Action, NEW a \in S
    PROVE  Cardinality(S \ {a}) = Cardinality(S) - 1
<1>1. IsFiniteSet(S)
  BY FiniteCount
<1> QED BY <1>1, FS_RemoveElement

\* Two sets without a common action are counted apart.
LEMMA CountUnion ==
    ASSUME NEW S, NEW T, S \subseteq Action, T \subseteq Action, S \cap T = {}
    PROVE  Cardinality(S \cup T) = Cardinality(S) + Cardinality(T)
<1>1. IsFiniteSet(S) /\ IsFiniteSet(T) /\ Cardinality(S) \in Nat /\ Cardinality(T) \in Nat
  BY FiniteCount
<1>2. Cardinality(S \cup T) = Cardinality(S) + Cardinality(T) - Cardinality(S \cap T)
  BY <1>1, FS_Union
<1>3. Cardinality(S \cap T) = 0
  BY FS_EmptySet
<1> QED BY <1>1, <1>2, <1>3

\* What runs on a worker can be counted.
LEMMA LoadOf ==
    ASSUME NEW st, NEW res, NEW w
    PROVE  /\ Runs(st, res, w) \subseteq Action
           /\ IsFiniteSet(Runs(st, res, w)) /\ Cardinality(Runs(st, res, w)) \in Nat
           /\ IsFiniteSet(Runs(st, res, w) \cap Task) /\ Cardinality(Runs(st, res, w) \cap Task) \in Nat
           /\ Load(st, res, w) \in Nat
           /\ w \in Runs(st, res, w) => Load(st, res, w) = Cardinality(Runs(st, res, w) \cap Task) + Units
           /\ w \notin Runs(st, res, w) => Load(st, res, w) = Cardinality(Runs(st, res, w) \cap Task)
<1>1. Runs(st, res, w) \subseteq Action /\ Runs(st, res, w) \cap Task \subseteq Action
  BY DEF Runs
<1>2. PICK n : n = Cardinality(Runs(st, res, w) \cap Task)
  OBVIOUS
<1>3. n \in Nat /\ Units \in Nat
  BY <1>1, <1>2, FiniteCount, SchedulerAssumption
<1>4. Load(st, res, w) = n + (IF w \in Runs(st, res, w) THEN Units ELSE 0)
  BY <1>2 DEF Load
<1> QED BY <1>1, <1>2, <1>3, <1>4, FiniteCount

\* Only what runs matters.
LEMMA SameRuns ==
    ASSUME NEW st, NEW res, NEW st1, NEW res1, NEW w,
           \A a \in Action : (st[a] = "RUNNING" /\ res[a] = w) <=> (st1[a] = "RUNNING" /\ res1[a] = w)
    PROVE  Runs(st, res, w) = Runs(st1, res1, w) /\ Load(st, res, w) = Load(st1, res1, w)
BY DEF Runs, Load

\* The same in the next state.
LEMMA LedgerNext ==
    ASSUME NEW st, NEW res, NEW counts, Ledger(st, res, counts),
           st = state', res = resource', counts = count'
    PROVE  Ledger(state, resource, count)'
<1>1. \A w : Runs(state, resource, w)' = Runs(st, res, w)
  BY DEF Runs
<1>2. \A w : Load(state, resource, w)' = Load(st, res, w)
  BY <1>1 DEF Load
<1> QED BY <1>1, <1>2 DEF Ledger

\* What leaves the actions and the counts alone keeps the ledger.
LEMMA LedgerStays ==
    ASSUME Ledger(state, resource, count), UNCHANGED <<state, resource, count>>
    PROVE  Ledger(state, resource, count)'
<1>1. PICK st, res, counts : st = state /\ res = resource /\ counts = count
  OBVIOUS
<1>2. Ledger(st, res, counts)
  BY <1>1
<1> QED BY <1>1, <1>2, LedgerNext

\* The counts follow an action that ends.
LEMMA LedgerEnds ==
    ASSUME NEW st, NEW res, NEW counts \in Counts, Ledger(st, res, counts),
           NEW a \in Action, st[a] = "RUNNING", NEW w0 \in Workers, res[a] = w0, a \in Workers => a = w0,
           NEW st1, \A b \in Action : st1[b] = "RUNNING" <=> b # a /\ st[b] = "RUNNING",
           (\A b \in Action : st1[b] # "FAILED") => (\A b \in Action : st[b] # "FAILED"),
           NEW counts1 \in Counts,
           counts1[w0].used <= counts[w0].used - 1,
           counts1[w0].available >= counts[w0].available + Needs(a),
           \A w \in Workers : w # w0 => /\ counts1[w].used <= counts[w].used
                                       /\ counts1[w].available >= counts[w].available,
           (\A b \in Action : st1[b] # "FAILED") =>
               /\ counts1[w0].used = counts[w0].used - 1
               /\ counts1[w0].available = counts[w0].available + Needs(a)
               /\ \A w \in Workers : w # w0 => counts1[w] = counts[w]
    PROVE  Ledger(st1, res, counts1)
<1> SUFFICES ASSUME NEW w \in Workers
             PROVE  /\ counts1[w].used <= Cardinality(Runs(st1, res, w))
                    /\ counts1[w].available >= Units - Load(st1, res, w)
                    /\ (\A b \in Action : st1[b] # "FAILED") =>
                          /\ counts1[w].used = Cardinality(Runs(st1, res, w))
                          /\ counts1[w].available = Units - Load(st1, res, w)
                          /\ counts1[w].used <= LimitOfTasks
                          /\ counts1[w].available >= 0
  BY DEF Ledger
<1>1. /\ counts[w].used <= Cardinality(Runs(st, res, w))
      /\ counts[w].available >= Units - Load(st, res, w)
      /\ (\A b \in Action : st1[b] # "FAILED") =>
            /\ counts[w].used = Cardinality(Runs(st, res, w))
            /\ counts[w].available = Units - Load(st, res, w)
            /\ counts[w].used <= LimitOfTasks
            /\ counts[w].available >= 0
  BY DEF Ledger
<1>2. /\ counts[w].used \in Int /\ counts[w].available \in Int
      /\ counts1[w].used \in Int /\ counts1[w].available \in Int
      /\ Units \in Nat /\ LimitOfTasks \in Nat /\ Needs(a) \in Nat
  BY SchedulerAssumption DEF Counts, Needs
<1>3. /\ Cardinality(Runs(st, res, w)) \in Nat /\ Load(st, res, w) \in Nat
      /\ Cardinality(Runs(st1, res, w)) \in Nat /\ Load(st1, res, w) \in Nat
  BY LoadOf
<1>4. CASE w # w0
  <2>1. Runs(st, res, w) = Runs(st1, res, w) /\ Load(st, res, w) = Load(st1, res, w)
    BY <1>4, SameRuns
  <2> QED BY <1>1, <1>2, <1>3, <1>4, <2>1
<1>5. CASE w = w0
  <2>1. a \in Runs(st, res, w0) /\ Runs(st1, res, w0) = Runs(st, res, w0) \ {a}
    BY DEF Runs
  <2>2. Cardinality(Runs(st1, res, w0)) = Cardinality(Runs(st, res, w0)) - 1
    <3>1. Runs(st, res, w0) \subseteq Action
      BY LoadOf
    <3> QED BY <2>1, <3>1, CountWithout
  <2>3. PICK n, n1, l, l1 :
          /\ n = Cardinality(Runs(st, res, w0) \cap Task) /\ n1 = Cardinality(Runs(st1, res, w0) \cap Task)
          /\ l = Load(st, res, w0) /\ l1 = Load(st1, res, w0)
    OBVIOUS
  <2>4. /\ n \in Nat /\ n1 \in Nat
        /\ w0 \in Runs(st, res, w0) => l = n + Units
        /\ w0 \notin Runs(st, res, w0) => l = n
        /\ w0 \in Runs(st1, res, w0) => l1 = n1 + Units
        /\ w0 \notin Runs(st1, res, w0) => l1 = n1
    <3>1. /\ n \in Nat
          /\ w0 \in Runs(st, res, w0) => l = n + Units
          /\ w0 \notin Runs(st, res, w0) => l = n
      BY ONLY <2>3, LoadOf
    <3>2. /\ n1 \in Nat
          /\ w0 \in Runs(st1, res, w0) => l1 = n1 + Units
          /\ w0 \notin Runs(st1, res, w0) => l1 = n1
      BY ONLY <2>3, LoadOf
    <3> QED BY <3>1, <3>2
  <2>5. l1 = l - Needs(a)
    <3>1. CASE a \in Task
      <4>1. /\ Runs(st1, res, w0) \cap Task = (Runs(st, res, w0) \cap Task) \ {a}
            /\ a \in Runs(st, res, w0) \cap Task
            /\ w0 # a /\ (w0 \in Runs(st1, res, w0) <=> w0 \in Runs(st, res, w0))
            /\ Needs(a) = 1
        BY <2>1, <3>1, ExecutionAssumption DEF Needs
      <4>2. n1 = n - 1
        <5>1. Runs(st, res, w0) \cap Task \subseteq Action
          BY DEF Action
        <5> QED BY <2>3, <4>1, <5>1, CountWithout
      <4> QED BY <1>2, <2>4, <4>1, <4>2
    <3>2. CASE a \in Workers
      <4>1. /\ Runs(st1, res, w0) \cap Task = Runs(st, res, w0) \cap Task
            /\ w0 \in Runs(st, res, w0) /\ w0 \notin Runs(st1, res, w0)
            /\ Needs(a) = Units
        BY <2>1, <3>2, ExecutionAssumption DEF Needs
      <4>2. n1 = n
        BY <2>3, <4>1
      <4> QED BY <1>2, <2>4, <4>1, <4>2
    <3> QED BY <3>1, <3>2 DEF Action
  <2> QED BY <1>1, <1>2, <1>3, <1>5, <2>2, <2>3, <2>5
<1> QED BY <1>4, <1>5

\* The counts follow the actions that are launched, if there is room for them.
LEMMA LedgerGrows ==
    ASSUME NEW st, NEW res, NEW counts \in Counts, Ledger(st, res, counts),
           NEW st1, NEW counts1, NEW more,
           \A w \in Workers : more[w] \subseteq Task /\ more[w] \cap Runs(st, res, w) = {},
           \A w \in Workers : Runs(st1, res, w) = Runs(st, res, w) \cup more[w],
           (\A b \in Action : st1[b] # "FAILED") => (\A b \in Action : st[b] # "FAILED"),
           \A w \in Workers : /\ counts1[w].used = counts[w].used + Cardinality(more[w])
                              /\ counts1[w].available = counts[w].available - Cardinality(more[w])
                              /\ Cardinality(more[w]) <= Room(counts[w])
    PROVE  Ledger(st1, res, counts1)
<1> SUFFICES ASSUME NEW w \in Workers
             PROVE  /\ counts1[w].used <= Cardinality(Runs(st1, res, w))
                    /\ counts1[w].available >= Units - Load(st1, res, w)
                    /\ (\A b \in Action : st1[b] # "FAILED") =>
                          /\ counts1[w].used = Cardinality(Runs(st1, res, w))
                          /\ counts1[w].available = Units - Load(st1, res, w)
                          /\ counts1[w].used <= LimitOfTasks
                          /\ counts1[w].available >= 0
  BY DEF Ledger
<1>1. /\ counts[w].used <= Cardinality(Runs(st, res, w))
      /\ counts[w].available >= Units - Load(st, res, w)
      /\ (\A b \in Action : st1[b] # "FAILED") =>
            /\ counts[w].used = Cardinality(Runs(st, res, w))
            /\ counts[w].available = Units - Load(st, res, w)
            /\ counts[w].used <= LimitOfTasks
            /\ counts[w].available >= 0
  BY DEF Ledger
<1>2. /\ counts[w].used \in Int /\ counts[w].available \in Int
      /\ Units \in Nat /\ LimitOfTasks \in Nat
  BY SchedulerAssumption DEF Counts
<1> DEFINE n == Cardinality(more[w])
<1>3. IsFiniteSet(more[w]) /\ n \in Nat /\ more[w] \subseteq Action
  <2>1. more[w] \subseteq Action
    BY DEF Action
  <2> QED BY <2>1, FiniteCount
<1>4. Cardinality(Runs(st1, res, w)) = Cardinality(Runs(st, res, w)) + n
  <2>1. Runs(st, res, w) \subseteq Action /\ Runs(st, res, w) \cap more[w] = {}
    BY LoadOf
  <2>2. Cardinality(Runs(st, res, w) \cup more[w]) = Cardinality(Runs(st, res, w)) + n
    BY <1>3, <2>1, CountUnion
  <2> QED BY <2>2
<1>5. Load(st1, res, w) = Load(st, res, w) + n
  <2>1. Runs(st1, res, w) \cap Task = (Runs(st, res, w) \cap Task) \cup more[w]
    OBVIOUS
  <2>2. w \in Runs(st1, res, w) <=> w \in Runs(st, res, w)
    BY ExecutionAssumption
  <2>3. PICK m, m1, l, l1 :
          /\ m = Cardinality(Runs(st, res, w) \cap Task) /\ m1 = Cardinality(Runs(st1, res, w) \cap Task)
          /\ l = Load(st, res, w) /\ l1 = Load(st1, res, w)
    OBVIOUS
  <2>4. /\ m \in Nat /\ m1 \in Nat
        /\ w \in Runs(st, res, w) => l = m + Units
        /\ w \notin Runs(st, res, w) => l = m
        /\ w \in Runs(st1, res, w) => l1 = m1 + Units
        /\ w \notin Runs(st1, res, w) => l1 = m1
    BY <2>3, LoadOf
  <2>5. m1 = m + n
    <3>1. Runs(st, res, w) \cap Task \subseteq Action /\ (Runs(st, res, w) \cap Task) \cap more[w] = {}
      BY DEF Action
    <3> QED BY <1>3, <2>1, <2>3, <3>1, CountUnion
  <2>6. l1 = l + n
    <3> HIDE DEF n
    <3> QED BY <1>2, <1>3, <2>2, <2>4, <2>5
  <2> QED BY <2>3, <2>6
<1>6. n > 0 => n <= LimitOfTasks - counts[w].used /\ n <= counts[w].available
  <2>1. n <= Room(counts[w])
    OBVIOUS
  <2>2. /\ Room(counts[w]) \in Nat
        /\ Room(counts[w]) > 0 => /\ Room(counts[w]) <= LimitOfTasks - counts[w].used
                                  /\ Room(counts[w]) <= counts[w].available
    BY <1>2, RoomOf
  <2> HIDE DEF n
  <2> QED BY <1>2, <1>3, <2>1, <2>2
<1>7. /\ Cardinality(Runs(st, res, w)) \in Nat /\ Load(st, res, w) \in Nat
  BY LoadOf
<1>8. counts1[w].used = counts[w].used + n /\ counts1[w].available = counts[w].available - n
  OBVIOUS
<1> HIDE DEF n
<1> QED BY <1>1, <1>2, <1>3, <1>4, <1>5, <1>6, <1>7, <1>8

\* Where nothing runs there is room.
LEMMA RoomWhereNothingRuns ==
    ASSUME NEW st, NEW res, NEW counts \in Counts, Ledger(st, res, counts), NEW w \in Workers,
           Runs(st, res, w) = {}
    PROVE  Room(counts[w]) > 0
<1>1. counts[w].used \in Int /\ counts[w].available \in Int
  BY DEF Counts
<1>2. /\ Cardinality(Runs(st, res, w)) = 0 /\ Cardinality(Runs(st, res, w) \cap Task) = 0
      /\ w \notin Runs(st, res, w)
  BY FS_EmptySet
<1>3. Load(st, res, w) = 0
  BY <1>2, LoadOf
<1>4. Units \in Nat \ {0} /\ LimitOfTasks \in Nat \ {0}
  BY SchedulerAssumption
<1>5. counts[w].used <= 0 /\ counts[w].available >= Units
  BY <1>2, <1>3, <1>4 DEF Ledger
<1> QED BY <1>1, <1>4, <1>5, RoomOf

-----------------------------------------------------------------------------
(* The queue.                                                              *)

\* Taking a request moves the others one place.
LEMMA Taken ==
    ASSUME tdQueue \in Seq(Request), tdQueue # << >>, tdQueue' = Tail(tdQueue)
    PROVE  /\ tdQueue' \in Seq(Request)
           /\ \A a : UpdatesOf(a)' = {i \in Nat \ {0} : i + 1 \in UpdatesOf(a)}
           /\ \A t : Ordered(t)' = {i \in Nat \ {0} : i + 1 \in Ordered(t)}
<1>1. /\ tdQueue' \in Seq(Request)
      /\ Len(tdQueue') = Len(tdQueue) - 1
      /\ DOMAIN tdQueue' = 1 .. Len(tdQueue) - 1
      /\ \A i \in DOMAIN tdQueue' : tdQueue'[i] = tdQueue[i + 1]
  OBVIOUS
<1>2. DOMAIN tdQueue = 1 .. Len(tdQueue) /\ Len(tdQueue) \in Nat
  OBVIOUS
<1>3. \A i \in Nat \ {0} : i \in DOMAIN tdQueue' <=> i + 1 \in DOMAIN tdQueue
  BY <1>1, <1>2
<1>4. ASSUME NEW a
      PROVE  UpdatesOf(a)' = {i \in Nat \ {0} : i + 1 \in UpdatesOf(a)}
  BY <1>1, <1>3 DEF UpdatesOf
<1>5. ASSUME NEW t
      PROVE  Ordered(t)' = {i \in Nat \ {0} : i + 1 \in Ordered(t)}
  BY <1>1, <1>3 DEF Ordered
<1> QED BY <1>1, <1>4, <1>5

\* The update of a is taken: it was the only one, and every other stays.
LEMMA TakeUpdate ==
    ASSUME TypeOK, Phases(state, run), Submissions(state),
           NEW type \in EndTypes, NEW a \in Action, Take(type, a)
    PROVE  /\ state[a] = "RUNNING" /\ ~Waits(run[a]) /\ run[a].jobs = 0
           /\ tdQueue' \in Seq(Request)
           /\ UpdatesOf(a)' = {}
           /\ \A b \in Action : \A i, j \in UpdatesOf(b)' : i = j
           /\ \A b \in Action : b # a => (UpdatesOf(b)' = {} <=> UpdatesOf(b) = {})
           /\ \A t \in Task : Ordered(t)' = {} <=> Ordered(t) = {}
           /\ \A t \in Task : \A i, j \in Ordered(t)' : i = j
<1>1. tdQueue \in Seq(Request) /\ tdQueue # << >> /\ tdQueue' = Tail(tdQueue)
  BY DEF TypeOK, ExecutionTypeOK, Take
<1>2. 1 \in DOMAIN tdQueue /\ tdQueue[1] = [type |-> type, action |-> a]
  BY <1>1 DEF Take
<1>3. 1 \in UpdatesOf(a) /\ \A b \in Action : b # a => 1 \notin UpdatesOf(b)
  BY <1>2 DEF UpdatesOf, EndTypes
<1>4. \A t \in Task : 1 \notin Ordered(t)
  BY <1>2 DEF Ordered, EndTypes
<1>5. \A b \in Action : \A i \in UpdatesOf(b) : i \in Nat \ {0}
  BY <1>1 DEF UpdatesOf
<1>6. \A t \in Task : \A i \in Ordered(t) : i \in Nat \ {0}
  BY <1>1 DEF Ordered
<1>7. \A b \in Action : \A i, j \in UpdatesOf(b) : i = j
  BY DEF Phases, Phase
<1>8. state[a] = "RUNNING" /\ ~Waits(run[a]) /\ run[a].jobs = 0
  BY <1>3 DEF Phases, Phase, TypeOK, ExecutionTypeOK, Run
<1>9. \A b \in Action : UpdatesOf(b)' = {i \in Nat \ {0} : i + 1 \in UpdatesOf(b)}
  BY <1>1, Taken
<1>10. \A t \in Task : Ordered(t)' = {i \in Nat \ {0} : i + 1 \in Ordered(t)}
  BY <1>1, Taken
<1>11. UpdatesOf(a)' = {}
  BY <1>3, <1>7, <1>9
<1>12. \A b \in Action : \A i, j \in UpdatesOf(b)' : i = j
  BY <1>7, <1>9
<1>13. ASSUME NEW b \in Action, b # a
       PROVE  UpdatesOf(b)' = {} <=> UpdatesOf(b) = {}
  <2>1. \A i \in UpdatesOf(b) : i - 1 \in Nat \ {0} /\ (i - 1) + 1 = i
    BY <1>3, <1>5, <1>13
  <2> QED BY <1>9, <2>1
<1>14. ASSUME NEW t \in Task
       PROVE  Ordered(t)' = {} <=> Ordered(t) = {}
  <2>1. \A i \in Ordered(t) : i - 1 \in Nat \ {0} /\ (i - 1) + 1 = i
    BY <1>4, <1>6
  <2> QED BY <1>10, <2>1
<1>15. \A t \in Task : \A i, j \in Ordered(t)' : i = j
  BY <1>10 DEF Submissions
<1> QED BY <1>1, <1>8, <1>11, <1>12, <1>13, <1>14, <1>15, Taken

\* The request that hands over t is taken.
LEMMA TakeOrder ==
    ASSUME TypeOK, Phases(state, run), Submissions(state),
           NEW t \in Task, Take("EXECUTE_TASKS", t)
    PROVE  /\ state[t] = "none"
           /\ t <= submitted
           /\ tdQueue' \in Seq(Request)
           /\ Ordered(t)' = {}
           /\ \A s \in Task : s # t => (Ordered(s)' = {} <=> Ordered(s) = {})
           /\ \A s \in Task : \A i, j \in Ordered(s)' : i = j
           /\ \A b \in Action : UpdatesOf(b)' = {} <=> UpdatesOf(b) = {}
           /\ \A b \in Action : \A i, j \in UpdatesOf(b)' : i = j
<1>1. tdQueue \in Seq(Request) /\ tdQueue # << >> /\ tdQueue' = Tail(tdQueue)
  BY DEF TypeOK, ExecutionTypeOK, Take
<1>2. 1 \in DOMAIN tdQueue /\ tdQueue[1] = [type |-> "EXECUTE_TASKS", action |-> t]
  BY <1>1 DEF Take
<1>3. 1 \in Ordered(t) /\ \A s \in Task : s # t => 1 \notin Ordered(s)
  BY <1>2 DEF Ordered
<1>4. \A b \in Action : 1 \notin UpdatesOf(b)
  BY <1>2 DEF UpdatesOf
<1>5. \A b \in Action : \A i \in UpdatesOf(b) : i \in Nat \ {0}
  BY <1>1 DEF UpdatesOf
<1>6. \A s \in Task : \A i \in Ordered(s) : i \in Nat \ {0}
  BY <1>1 DEF Ordered
<1>7. \A s \in Task : \A i, j \in Ordered(s) : i = j
  BY DEF Submissions
<1>9. \A b \in Action : UpdatesOf(b)' = {i \in Nat \ {0} : i + 1 \in UpdatesOf(b)}
  BY <1>1, Taken
<1>10. \A s \in Task : Ordered(s)' = {i \in Nat \ {0} : i + 1 \in Ordered(s)}
  BY <1>1, Taken
<1>11. Ordered(t)' = {}
  BY <1>3, <1>7, <1>10
<1>12. \A s \in Task : \A i, j \in Ordered(s)' : i = j
  BY <1>7, <1>10
<1>13. ASSUME NEW s \in Task, s # t
       PROVE  Ordered(s)' = {} <=> Ordered(s) = {}
  <2>1. \A i \in Ordered(s) : i - 1 \in Nat \ {0} /\ (i - 1) + 1 = i
    BY <1>3, <1>6, <1>13
  <2> QED BY <1>10, <2>1
<1>14. ASSUME NEW b \in Action
       PROVE  UpdatesOf(b)' = {} <=> UpdatesOf(b) = {}
  <2>1. \A i \in UpdatesOf(b) : i - 1 \in Nat \ {0} /\ (i - 1) + 1 = i
    BY <1>4, <1>5
  <2> QED BY <1>9, <2>1
<1>15. \A b \in Action : \A i, j \in UpdatesOf(b)' : i = j
  BY <1>9 DEF Phases, Phase
<1>16. state[t] = "none" /\ t <= submitted
  BY <1>3 DEF Submissions
<1> QED BY <1>1, <1>11, <1>12, <1>13, <1>14, <1>15, <1>16, Taken

\* A request is added at the end.
LEMMA Appended ==
    ASSUME tdQueue \in Seq(Request), NEW type \in {"EXECUTE_TASKS", "COMPLETED", "ERROR"},
           NEW a \in Action, tdQueue' = Append(tdQueue, [type |-> type, action |-> a])
    PROVE  /\ tdQueue' \in Seq(Request)
           /\ \A b \in Action : UpdatesOf(b)' = IF b = a /\ type # "EXECUTE_TASKS"
                                  THEN UpdatesOf(b) \cup {Len(tdQueue) + 1} ELSE UpdatesOf(b)
           /\ \A t \in Task : Ordered(t)' = IF t = a /\ type = "EXECUTE_TASKS"
                                  THEN Ordered(t) \cup {Len(tdQueue) + 1} ELSE Ordered(t)
<1> DEFINE n == Len(tdQueue) + 1
<1>1. /\ tdQueue' \in Seq(Request)
      /\ DOMAIN tdQueue' = DOMAIN tdQueue \cup {n}
      /\ n \notin DOMAIN tdQueue
      /\ tdQueue'[n] = [type |-> type, action |-> a]
      /\ \A i \in DOMAIN tdQueue : tdQueue'[i] = tdQueue[i]
  <2>1. [type |-> type, action |-> a] \in Request
    BY DEF Request
  <2> QED BY <2>1
<1> HIDE DEF n
<1>2. ASSUME NEW b \in Action
      PROVE  UpdatesOf(b)' = IF b = a /\ type # "EXECUTE_TASKS"
                             THEN UpdatesOf(b) \cup {n} ELSE UpdatesOf(b)
  BY <1>1 DEF UpdatesOf
<1>3. ASSUME NEW t \in Task
      PROVE  Ordered(t)' = IF t = a /\ type = "EXECUTE_TASKS"
                           THEN Ordered(t) \cup {n} ELSE Ordered(t)
  <2>1. \A i \in DOMAIN tdQueue' : i \in Ordered(t)' <=>
           tdQueue'[i] = [type |-> "EXECUTE_TASKS", action |-> t]
    BY DEF Ordered
  <2>2. [type |-> type, action |-> a] = [type |-> "EXECUTE_TASKS", action |-> t]
          <=> t = a /\ type = "EXECUTE_TASKS"
    <3>1. [type |-> type, action |-> a] = [type |-> "EXECUTE_TASKS", action |-> t]
            => [type |-> type, action |-> a].type = "EXECUTE_TASKS" /\ [type |-> type, action |-> a].action = t
      OBVIOUS
    <3> QED BY <3>1
  <2> QED BY <1>1, <2>2 DEF Ordered
<1> QED BY <1>1, <1>2, <1>3 DEF n

-----------------------------------------------------------------------------
(* What happens outside the Task Dispatcher.                               *)

\* What a step of the adaptors on action a must show.
ExecutionKept ==
    /\ run' \in [Action -> Run]
    /\ tdQueue' \in Seq(Request)
    /\ Phases(state, run)'
    /\ Submissions(state)'

\* The action goes on, with its listener and jobs as in r.
LEMMA ContinueKeeps ==
    ASSUME TypeOK, Phases(state, run), Submissions(state), UNCHANGED <<state, submitted, workers>>,
           NEW a \in Action, NEW r \in Run, Continue(a, r), Phase(state[a], r, UpdatesOf(a))
    PROVE  ExecutionKept
<1>1. run' = [run EXCEPT ![a] = r] /\ UNCHANGED <<tdQueue, state, submitted, workers>>
  BY DEF Continue
<1>2. run' \in [Action -> Run] /\ tdQueue' \in Seq(Request)
  BY <1>1 DEF TypeOK, ExecutionTypeOK
<1>3. \A b \in Action : UpdatesOf(b)' = UpdatesOf(b)
  BY <1>1 DEF UpdatesOf
<1>4. \A b \in Action : run'[b] = IF b = a THEN r ELSE run[b]
  BY <1>1 DEF TypeOK, ExecutionTypeOK
<1>5. ASSUME NEW b \in Action
      PROVE  Phase(state'[b], run'[b], UpdatesOf(b)')
  BY <1>1, <1>3, <1>4 DEF Phases
<1>6. Phases(state, run)'
  BY <1>5 DEF Phases
<1>7. Submissions(state)'
  BY <1>1 DEF Submissions, Ordered
<1> QED BY <1>2, <1>6, <1>7 DEF ExecutionKept

\* The end of the action is notified.
LEMMA NotifyKeeps ==
    ASSUME TypeOK, Phases(state, run), Submissions(state), UNCHANGED <<state, submitted, workers>>,
           NEW a \in Action, NEW r \in Run, NEW end \in EndTypes, Notify(a, r, end),
           state[a] = "RUNNING", UpdatesOf(a) = {}, ~Waits(r), r.jobs = 0
    PROVE  ExecutionKept
<1> DEFINE r2 == [r EXCEPT !.transferErrors = 0, !.executionErrors = 0]
<1>1. run' = [run EXCEPT ![a] = r2] /\ UNCHANGED <<state, submitted, workers>>
  BY DEF Notify
<1>2. /\ r2 \in Run /\ ~Waits(r2) /\ r2.jobs = 0
      /\ r2.toAdd = 0 /\ r2.operations = 0
  <2>1. 0 \in 0 .. TransferChances - 1 /\ 0 \in 0 .. SubmissionChances - 1
    BY ExecutionAssumption
  <2>2. r2 \in Run
    BY <2>1 DEF Run
  <2>3. ~Waits(r2) /\ r2.jobs = 0
    BY DEF Run, Waits
  <2>4. r2.toAdd = 0 /\ r2.operations = 0
    BY ExecutionAssumption DEF Run, Waits
  <2> QED BY <2>2, <2>3, <2>4
<1> HIDE DEF r2
<1>3. tdQueue' = Append(tdQueue, [type |-> end, action |-> a]) /\ tdQueue \in Seq(Request)
  BY DEF Notify, Update, TypeOK, ExecutionTypeOK
<1>4. /\ tdQueue' \in Seq(Request)
      /\ \A b \in Action : UpdatesOf(b)' = IF b = a THEN UpdatesOf(b) \cup {Len(tdQueue) + 1}
                                           ELSE UpdatesOf(b)
      /\ \A t \in Task : Ordered(t)' = Ordered(t)
  BY <1>3, Appended DEF EndTypes
<1>5. run' \in [Action -> Run] /\ \A b \in Action : run'[b] = IF b = a THEN r2 ELSE run[b]
  BY <1>1, <1>2 DEF TypeOK, ExecutionTypeOK
<1>6. ASSUME NEW b \in Action
      PROVE  Phase(state'[b], run'[b], UpdatesOf(b)')
  <2>1. CASE b = a
    <3>1. UpdatesOf(a)' = {Len(tdQueue) + 1}
      BY <1>4
    <3>2. r2.toAdd + r2.operations <= Operations
      BY <1>2, ExecutionAssumption
    <3> QED BY <1>1, <1>2, <1>5, <2>1, <3>1, <3>2 DEF Phase
  <2>2. CASE b # a
    BY <1>1, <1>4, <1>5, <2>2 DEF Phases
  <2> QED BY <2>1, <2>2
<1>7. Phases(state, run)'
  BY <1>6 DEF Phases
<1>8. Submissions(state)'
  BY <1>1, <1>4 DEF Submissions
<1> QED BY <1>4, <1>5, <1>7, <1>8 DEF ExecutionKept

\* A synchronised block of the listener of an action that nothing else is to end.
LEMMA ListenerKeeps ==
    ASSUME TypeOK, Phases(state, run), Submissions(state), UNCHANGED <<state, submitted, workers>>,
           NEW a \in Action, NEW r \in Run, Listener(a, r),
           state[a] = "RUNNING", UpdatesOf(a) = {}, r.jobs = 0,
           r.toAdd + r.operations <= Operations, r.enabled => r.toAdd = 0
    PROVE  ExecutionKept
<1>1. CASE ~(r.operations = 0 /\ r.enabled)
  <2>1. Continue(a, r) /\ Waits(r)
    BY <1>1 DEF Listener, Waits, Run
  <2>2. Phase(state[a], r, UpdatesOf(a))
    BY <2>1 DEF Phase
  <2> QED BY <2>1, <2>2, ContinueKeeps
<1>2. CASE r.operations = 0 /\ r.enabled /\ ~r.failed
  <2> DEFINE r2 == [r EXCEPT !.jobs = @ + 1]
  <2>1. Continue(a, r2)
    BY <1>2 DEF Listener, TransfersEnd, Submit
  <2>2. r2 \in Run /\ r2.jobs = 1 /\ ~Waits(r2)
    BY <1>2 DEF Run, Waits
  <2>3. Phase(state[a], r2, UpdatesOf(a))
    BY <1>2, <2>2 DEF Phase
  <2> HIDE DEF r2
  <2> QED BY <2>1, <2>2, <2>3, ContinueKeeps
<1>3. CASE r.operations = 0 /\ r.enabled /\ r.failed
  <2>1. FailedTransfers(a, r)
    BY <1>3 DEF Listener, TransfersEnd
  <2>2. CASE r.transferErrors + 1 < TransferChances
    <3> DEFINE r2 == InputTransfers([r EXCEPT !.transferErrors = @ + 1])
    <3>1. Continue(a, r2)
      BY <2>1, <2>2 DEF FailedTransfers
    <3>2. r2 \in Run /\ r2.jobs = 0 /\ Waits(r2)
      <4>1. /\ Operations \in 0 .. Operations /\ 0 \in 0 .. Operations
            /\ r.transferErrors + 1 \in 0 .. TransferChances - 1
        BY <2>2, ExecutionAssumption DEF Run
      <4>2. r2 \in Run
        BY <4>1 DEF InputTransfers, Run
      <4>3. r2.jobs = 0 /\ Waits(r2)
        BY DEF InputTransfers, Run, Waits
      <4> QED BY <4>2, <4>3
    <3>3. r2.toAdd = Operations /\ r2.operations = 0 /\ ~r2.enabled
      BY DEF InputTransfers, Run
    <3>4. Phase(state[a], r2, UpdatesOf(a))
      BY <3>2, <3>3, ExecutionAssumption DEF Phase
    <3> HIDE DEF r2
    <3> QED BY <3>1, <3>2, <3>4, ContinueKeeps
  <2>3. CASE ~(r.transferErrors + 1 < TransferChances)
    <3>1. Notify(a, r, "ERROR") /\ ~Waits(r)
      BY <1>3, <2>1, <2>3 DEF FailedTransfers, Waits, Run
    <3> QED BY <3>1, NotifyKeeps DEF EndTypes
  <2> QED BY <2>2, <2>3
<1> QED BY <1>1, <1>2, <1>3

\* The steps of a launched execution, and of the start of a worker.
LEMMA RunSteps ==
    ASSUME TypeOK, Phases(state, run), Submissions(state), UNCHANGED <<state, submitted, workers>>,
           NEW a \in Action, NEW down \in BOOLEAN,
           \/ AddOperation(a) \/ Enable(a) \/ NotifyEnd(a) \/ NotifyFailure(a, down)
           \/ Succeed(a) \/ FailedJob(a, down) \/ (a \in Workers /\ WorkerDoesNotStart(a))
    PROVE  ExecutionKept /\ faults' \in 0 .. MaxFaults
<1>1. /\ run[a] \in Run /\ Phase(state[a], run[a], UpdatesOf(a))
      /\ faults \in 0 .. MaxFaults /\ MaxFaults \in Nat
  BY ExecutionAssumption DEF TypeOK, ExecutionTypeOK, Phases
<1>2. Waits(run[a]) => state[a] = "RUNNING" /\ UpdatesOf(a) = {} /\ run[a].jobs = 0
  BY <1>1 DEF Phase
<1>3. run[a].jobs > 0 => /\ state[a] = "RUNNING" /\ UpdatesOf(a) = {} /\ run[a].jobs = 1
                         /\ ~Waits(run[a])
  BY <1>1 DEF Phase, Run
<1>4. CASE AddOperation(a)
  <2> DEFINE r == [run[a] EXCEPT !.toAdd = @ - 1, !.operations = @ + 1]
  <2>1. Continue(a, r) /\ run[a].toAdd > 0 /\ faults' = faults
    BY <1>4 DEF AddOperation, NoFault
  <2>2. Waits(run[a]) /\ run[a].toAdd + run[a].operations <= Operations /\ ~run[a].enabled
    BY <1>1, <2>1 DEF Waits, Phase
  <2>3. r \in Run /\ Waits(r) /\ r.jobs = run[a].jobs /\ r.enabled = run[a].enabled
        /\ r.toAdd + r.operations <= Operations
    <3>1. /\ run[a].toAdd - 1 \in 0 .. Operations
          /\ run[a].operations + 1 \in 0 .. Operations
          /\ run[a].toAdd - 1 + run[a].operations + 1 <= Operations
          /\ run[a].operations + 1 > 0
      BY <1>1, <2>1, <2>2, ExecutionAssumption DEF Run
    <3>2. r \in Run
      BY <1>1, <3>1 DEF Run
    <3>3. /\ r.toAdd = run[a].toAdd - 1 /\ r.operations = run[a].operations + 1
          /\ r.jobs = run[a].jobs /\ r.enabled = run[a].enabled
      BY <1>1 DEF Run
    <3>4. r.toAdd + r.operations <= Operations
      BY <1>1, <2>2, <3>3, ExecutionAssumption DEF Run
    <3> QED BY <3>1, <3>2, <3>3, <3>4 DEF Waits
  <2>4. Phase(state[a], r, UpdatesOf(a))
    BY <1>2, <2>2, <2>3 DEF Phase
  <2> HIDE DEF r
  <2> QED BY <1>1, <2>1, <2>3, <2>4, ContinueKeeps
<1>5. CASE Enable(a)
  <2> DEFINE r == [run[a] EXCEPT !.enabled = TRUE]
  <2>1. Listener(a, r) /\ run[a].toAdd = 0 /\ ~run[a].enabled /\ faults' = faults
    BY <1>5 DEF Enable, NoFault
  <2>2. Waits(run[a])
    BY <2>1 DEF Waits
  <2>3. r \in Run /\ r.jobs = 0 /\ r.toAdd = 0 /\ r.toAdd + r.operations <= Operations
    BY <1>1, <1>2, <2>1, <2>2 DEF Run, Phase
  <2> HIDE DEF r
  <2> QED BY <1>1, <1>2, <2>1, <2>2, <2>3, ListenerKeeps
<1>6. ASSUME NEW r \in {[run[a] EXCEPT !.operations = @ - 1],
                        [run[a] EXCEPT !.operations = @ - 1, !.failed = TRUE]},
             Listener(a, r), run[a].operations > 0
      PROVE  ExecutionKept
  <2>1. Waits(run[a])
    BY <1>6 DEF Waits
  <2>2. r \in Run /\ r.jobs = run[a].jobs /\ r.toAdd = run[a].toAdd
        /\ r.enabled = run[a].enabled /\ r.operations = run[a].operations - 1
    <3>1. run[a].operations - 1 \in 0 .. Operations
      BY <1>1, <1>6, ExecutionAssumption DEF Run
    <3>2. r \in Run
      BY <1>1, <1>6, <3>1 DEF Run
    <3> QED BY <1>1, <1>6, <3>2 DEF Run
  <2>3. r.toAdd + r.operations <= Operations /\ (r.enabled => r.toAdd = 0)
    BY <1>1, <2>2, ExecutionAssumption DEF Phase, Run
  <2> QED BY <1>2, <1>6, <2>1, <2>2, <2>3, ListenerKeeps
<1>7. CASE NotifyEnd(a)
  BY <1>1, <1>6, <1>7 DEF NotifyEnd, NoFault
<1>8. CASE NotifyFailure(a, down)
  BY <1>1, <1>6, <1>8 DEF NotifyFailure, Fault
<1>9. ASSUME NEW end \in EndTypes, run[a].jobs > 0,
             Notify(a, [run[a] EXCEPT !.jobs = @ - 1], end)
      PROVE  ExecutionKept
  <2> DEFINE r == [run[a] EXCEPT !.jobs = @ - 1]
  <2>1. r \in Run /\ r.jobs = 0 /\ ~Waits(r)
    BY <1>1, <1>3, <1>9 DEF Run, Waits
  <2>2. Notify(a, r, end)
    BY <1>9
  <2> HIDE DEF r
  <2> QED BY <1>3, <1>9, <2>1, <2>2, NotifyKeeps
<1>10. CASE Succeed(a)
  BY <1>1, <1>9, <1>10 DEF Succeed, NoFault, EndTypes
<1>11. CASE a \in Workers /\ WorkerDoesNotStart(a)
  BY <1>1, <1>9, <1>11 DEF WorkerDoesNotStart, Fault, EndTypes
<1>12. CASE FailedJob(a, down)
  <2>1. faults' \in 0 .. MaxFaults /\ run[a].jobs > 0
    BY <1>1, <1>12 DEF FailedJob, Fault
  <2>2. CASE run[a].transferErrors + run[a].executionErrors + 1 < SubmissionChances
    <3> DEFINE r == [run[a] EXCEPT !.executionErrors = @ + 1]
    <3>1. Continue(a, r)
      BY <1>12, <2>2 DEF FailedJob
    <3>2. r \in Run /\ r.jobs = 1 /\ ~Waits(r) /\ r.toAdd = run[a].toAdd
          /\ r.operations = run[a].operations /\ r.enabled = run[a].enabled
      BY <1>1, <1>3, <2>1, <2>2, ExecutionAssumption DEF Run, Waits
    <3>3. Phase(state[a], r, UpdatesOf(a))
      BY <1>1, <1>3, <2>1, <3>2 DEF Phase
    <3> HIDE DEF r
    <3> QED BY <2>1, <3>1, <3>2, <3>3, ContinueKeeps
  <2>3. CASE ~(run[a].transferErrors + run[a].executionErrors + 1 < SubmissionChances)
    BY <1>9, <1>12, <2>1, <2>3 DEF FailedJob, EndTypes
  <2> QED BY <2>2, <2>3
<1> QED BY <1>4, <1>5, <1>7, <1>8, <1>10, <1>11, <1>12

-----------------------------------------------------------------------------
(* What the Task Dispatcher does.                                          *)

\* Each action after a request has resumed and launched others.
LEMMA ChangeValues ==
    ASSUME NEW st \in [Action -> States], NEW res \in [Action -> Workers \cup {NoWorker}],
           NEW counts \in Counts, NEW rn \in [Action -> Run],
           NEW resumed, NEW free, NEW running, TypeOK,
           Change(st, res, counts, rn, resumed, free, running)
    PROVE  /\ state' \in [Action -> States]
           /\ resource' = res
           /\ tried' \in [Task -> SUBSET Workers]
           /\ count' \in Counts
           /\ run' \in [Action -> Run]
           /\ \A a \in Action : state'[a] = IF a \in resumed \cup running THEN "RUNNING"
                                            ELSE IF a \in free THEN "WAITING" ELSE st[a]
           /\ \A a \in Action : run'[a] = IF a \in resumed \cup running
                                          THEN InputTransfers(Idle) ELSE rn[a]
           /\ \A w \in Workers : Cardinality(LaunchedAt(resumed, running, res, w)) \in Nat
           /\ \A w \in Workers :
                 /\ count'[w].used = counts[w].used + Cardinality(LaunchedAt(resumed, running, res, w))
                 /\ count'[w].available
                      = counts[w].available - Cardinality(LaunchedAt(resumed, running, res, w))
<1>1. InputTransfers(Idle) \in Run
  <2>1. /\ Operations \in 0 .. Operations /\ 0 \in 0 .. Operations
        /\ 0 \in 0 .. TransferChances - 1 /\ 0 \in 0 .. SubmissionChances - 1
    BY ExecutionAssumption
  <2> QED BY <2>1 DEF InputTransfers, Idle, Run
<1>2. resumed \cup running \subseteq Task /\ Task \subseteq Action
  BY DEF Change, Action
<1>3. \A a \in resumed \cup running : DoAction(a) = InputTransfers(Idle)
  BY <1>2 DEF DoAction
<1>4. state' \in [Action -> States]
      /\ \A a \in Action : state'[a] = IF a \in resumed \cup running THEN "RUNNING"
                                       ELSE IF a \in free THEN "WAITING" ELSE st[a]
  BY DEF Change, Become, States
<1>5. run' \in [Action -> Run]
      /\ \A a \in Action : run'[a] = IF a \in resumed \cup running
                                     THEN InputTransfers(Idle) ELSE rn[a]
  BY <1>1, <1>3 DEF Change, Become
<1>6. resource' = res
  BY DEF Change, Become
<1>7. \A t \in running : res[t] \in Workers
  BY <1>2 DEF Change
<1>8. tried' \in [Task -> SUBSET Workers]
  BY <1>7 DEF Change, Become, TypeOK
<1>9. \A w \in Workers : Cardinality(LaunchedAt(resumed, running, res, w)) \in Nat
  BY <1>2, FiniteCount DEF LaunchedAt
<1>10. count' = [w \in Workers |->
          [used |-> counts[w].used + Cardinality(LaunchedAt(resumed, running, res, w)),
           available |-> counts[w].available - Cardinality(LaunchedAt(resumed, running, res, w))]]
  BY DEF Change, Become, LaunchedAt
<1>11. \A w \in Workers : counts[w].used \in Int /\ counts[w].available \in Int
  BY DEF Counts
<1>12. count' \in Counts
  BY <1>9, <1>10, <1>11 DEF Counts
<1>13. ASSUME NEW w \in Workers
       PROVE  /\ count'[w].used = counts[w].used + Cardinality(LaunchedAt(resumed, running, res, w))
              /\ count'[w].available
                   = counts[w].available - Cardinality(LaunchedAt(resumed, running, res, w))
  BY <1>9, <1>10
<1> QED BY <1>4, <1>5, <1>6, <1>8, <1>9, <1>12, <1>13

\* Resuming and launching as it should keeps what was so before.
LEMMA ChangeKeeps ==
    ASSUME NEW st, NEW res, NEW counts, NEW rn, NEW resumed, NEW free, NEW running, TypeOK,
           Sound(st, res, counts, rn)', Change(st, res, counts, rn, resumed, free, running)
    PROVE  Sound(state, resource, count, run)' /\ tried' \in [Task -> SUBSET Workers]
<1>1. /\ st \in [Action -> States] /\ res \in [Action -> Workers \cup {NoWorker}]
      /\ counts \in Counts /\ rn \in [Action -> Run]
  BY DEF Sound
<1>2. /\ state' \in [Action -> States]
      /\ resource' = res
      /\ tried' \in [Task -> SUBSET Workers]
      /\ count' \in Counts
      /\ run' \in [Action -> Run]
      /\ \A a \in Action : state'[a] = IF a \in resumed \cup running THEN "RUNNING"
                                       ELSE IF a \in free THEN "WAITING" ELSE st[a]
      /\ \A a \in Action : run'[a] = IF a \in resumed \cup running
                                     THEN InputTransfers(Idle) ELSE rn[a]
      /\ \A w \in Workers : Cardinality(LaunchedAt(resumed, running, res, w)) \in Nat
      /\ \A w \in Workers :
            /\ count'[w].used = counts[w].used + Cardinality(LaunchedAt(resumed, running, res, w))
            /\ count'[w].available
                 = counts[w].available - Cardinality(LaunchedAt(resumed, running, res, w))
  BY <1>1, ChangeValues
<1>3. /\ resumed \subseteq Task /\ free \subseteq Task /\ running \subseteq free
      /\ Task \subseteq Action /\ Workers \subseteq Action /\ Workers \cap Task = {}
      /\ \A a \in resumed : st[a] = "WAITING"
      /\ \A a \in free : st[a] = "RUNNABLE" /\ preds'[a] = {} /\ res[a] # NoWorker
  BY ExecutionAssumption DEF Change, Action
<1>4. Phases(state, run)'
  <2>1. Phases(st, rn)'
    BY DEF Sound
  <2> SUFFICES ASSUME NEW a \in Action
               PROVE  Phase(state'[a], run'[a], UpdatesOf(a)')
    BY DEF Phases
  <2>2. Phase(st[a], rn[a], UpdatesOf(a)')
    BY <2>1 DEF Phases
  <2>3. CASE a \in resumed \cup running
    <3>1. st[a] \in {"WAITING", "RUNNABLE"}
      BY <1>3, <2>3
    <3>2. UpdatesOf(a)' = {}
      BY <2>2, <3>1 DEF Phase
    <3>3. state'[a] = "RUNNING" /\ run'[a] = InputTransfers(Idle)
      BY <1>2, <2>3
    <3>4. LET r == InputTransfers(Idle)
          IN  /\ Waits(r) /\ ~r.enabled /\ r.jobs = 0 /\ r.toAdd = Operations /\ r.operations = 0
      BY DEF InputTransfers, Idle, Waits
    <3> QED BY <3>2, <3>3, <3>4, ExecutionAssumption DEF Phase
  <2>4. CASE a \notin resumed \cup running
    <3>1. run'[a] = rn[a] /\ (state'[a] = "RUNNING" <=> st[a] = "RUNNING")
      BY <1>2, <1>3, <2>4
    <3> QED BY <2>2, <3>1 DEF Phase
  <2> QED BY <2>3, <2>4
<1>5. \A a \in Action : \A s \in {"none", "FINISHED", "FAILED"} : state'[a] = s <=> st[a] = s
  BY <1>2, <1>3
<1>6. Submissions(state)'
  <2>1. Submissions(st)'
    BY DEF Sound
  <2> QED BY <1>3, <1>5, <2>1 DEF Submissions
<1>7. Dependencies(state)'
  <2>1. Dependencies(st)'
    BY DEF Sound
  <2>2. preds' \in [Task -> SUBSET Task] /\ deps' \in [Task -> SUBSET Task]
    BY <2>1 DEF Dependencies
  <2>3. ASSUME NEW t \in Task
        PROVE  /\ state'[t] \in {"none", "WAITING", "RUNNING", "FINISHED"} => preds'[t] = {}
               /\ state'[t] = "FAILED" => preds'[t] = {} \/ \E p \in preds'[t] : state'[p] = "FAILED"
               /\ state'[t] # "none" => \A p \in deps'[t] :
                     state'[p] \in {"FINISHED", "FAILED"} \/ p \in preds'[t]
    <3>1. /\ st[t] \in {"none", "WAITING", "RUNNING", "FINISHED"} => preds'[t] = {}
          /\ st[t] = "FAILED" => preds'[t] = {} \/ \E p \in preds'[t] : st[p] = "FAILED"
          /\ st[t] # "none" => \A p \in deps'[t] : st[p] \in {"FINISHED", "FAILED"} \/ p \in preds'[t]
      BY <2>1 DEF Dependencies
    <3>2. preds'[t] \subseteq Action /\ deps'[t] \subseteq Action /\ t \in Action
      BY <1>3, <2>2
    <3>3. state'[t] \in {"none", "WAITING", "RUNNING", "FINISHED"} => preds'[t] = {}
      BY <1>2, <1>3, <3>1, <3>2
    <3>4. state'[t] = "FAILED" => preds'[t] = {} \/ \E p \in preds'[t] : state'[p] = "FAILED"
      BY <1>5, <3>1, <3>2
    <3>5. state'[t] # "none" => \A p \in deps'[t] :
              state'[p] \in {"FINISHED", "FAILED"} \/ p \in preds'[t]
      BY <1>5, <3>1, <3>2
    <3> QED BY <3>3, <3>4, <3>5
  <2> QED BY <2>2, <2>3 DEF Dependencies
<1>8. Placement(state, resource, count)'
  <2>1. Placement(st, res, counts)'
    BY DEF Sound
  <2>2. ASSUME NEW w \in Workers, st[w] = "RUNNING"
        PROVE  /\ count'[w].available = 0
               /\ \A t \in Task : state'[t] = "RUNNING" => res[t] # w
    <3>1. counts[w].available = 0 /\ counts[w].used \in Int
      BY <1>1, <2>1, <2>2 DEF Placement, Counts
    <3>2. Room(counts[w]) = 0
      BY <3>1, RoomOf
    <3>3. Cardinality(LaunchedAt(resumed, running, res, w)) = 0
      <4>1. Cardinality(LaunchedAt(resumed, running, res, w)) <= 0
        BY <3>2 DEF Change
      <4>2. Cardinality(LaunchedAt(resumed, running, res, w)) \in Nat
        BY <1>2
      <4> QED BY <4>1, <4>2
    <3>4. LaunchedAt(resumed, running, res, w) = {}
      BY <1>3, <3>3, FiniteCount DEF LaunchedAt
    <3>5. count'[w].available = 0
      BY <1>2, <3>1, <3>3
    <3>6. \A t \in Task : st[t] = "RUNNING" => res[t] # w
      BY <2>1, <2>2 DEF Placement
    <3> QED BY <1>2, <1>3, <3>4, <3>5, <3>6 DEF LaunchedAt
  <2>3. \A w \in Workers : state'[w] = st[w]
    BY <1>2, <1>3
  <2>4. \A a \in Action : state'[a] \in {"WAITING", "RUNNING"} => res[a] # NoWorker
    BY <1>2, <1>3, <2>1 DEF Placement
  <2> QED BY <1>2, <2>1, <2>2, <2>3, <2>4 DEF Placement
<1>9. Ledger(state, resource, count)'
  <2>1. PICK st1, counts1, more :
          /\ st1 = state' /\ counts1 = count'
          /\ more = [w \in Workers |-> LaunchedAt(resumed, running, res, w)]
    OBVIOUS
  <2>2. Ledger(st, res, counts)
    BY DEF Sound, Ledger, Runs, Load
  <2>3. ASSUME NEW w \in Workers
        PROVE  /\ more[w] \subseteq Task /\ more[w] \cap Runs(st, res, w) = {}
               /\ Runs(st1, res, w) = Runs(st, res, w) \cup more[w]
    <3>1. more[w] = {a \in resumed \cup running : res[a] = w}
      BY <2>1 DEF LaunchedAt
    <3>2. \A a \in resumed \cup running : a \in Task /\ st[a] # "RUNNING"
      BY <1>3
    <3>3. \A a \in Action : st1[a] = "RUNNING" <=> a \in resumed \cup running \/ st[a] = "RUNNING"
      BY <1>2, <1>3, <2>1
    <3> QED BY <1>3, <3>1, <3>2, <3>3 DEF Runs
  <2>4. ASSUME NEW w \in Workers
        PROVE  /\ counts1[w].used = counts[w].used + Cardinality(more[w])
               /\ counts1[w].available = counts[w].available - Cardinality(more[w])
               /\ Cardinality(more[w]) <= Room(counts[w])
    BY <1>2, <2>1 DEF Change
  <2>5. (\A b \in Action : st1[b] # "FAILED") => (\A b \in Action : st[b] # "FAILED")
    BY <1>5, <2>1
  <2>6. Ledger(st1, res, counts1)
    BY <1>1, <2>2, <2>3, <2>4, <2>5, LedgerGrows
  <2>7. res = resource'
    BY <1>2
  <2> QED BY <2>1, <2>6, <2>7, LedgerNext
<1> QED BY <1>2, <1>4, <1>6, <1>7, <1>8, <1>9 DEF Sound

\* Those that are left waiting have something to wait for.
LEMMA ChangeWaiters ==
    ASSUME NEW st, NEW res, NEW counts, NEW rn, NEW resumed, NEW free, NEW running, TypeOK,
           Sound(st, res, counts, rn)', Change(st, res, counts, rn, resumed, free, running)
    PROVE  WaitersHaveRunners'
<1>1. /\ st \in [Action -> States] /\ res \in [Action -> Workers \cup {NoWorker}]
      /\ counts \in Counts /\ rn \in [Action -> Run]
  BY DEF Sound
<1>2. /\ resource' = res
      /\ \A a \in Action : state'[a] = IF a \in resumed \cup running THEN "RUNNING"
                                       ELSE IF a \in free THEN "WAITING" ELSE st[a]
      /\ \A w \in Workers :
            /\ count'[w].used = counts[w].used + Cardinality(LaunchedAt(resumed, running, res, w))
            /\ count'[w].available
                 = counts[w].available - Cardinality(LaunchedAt(resumed, running, res, w))
  BY <1>1, ChangeValues
<1>3. /\ resumed \subseteq Action /\ free \subseteq Action /\ running \subseteq free
      /\ \A a \in resumed : st[a] = "WAITING"
      /\ \A a \in free : st[a] = "RUNNABLE"
  BY DEF Change, Action
<1> SUFFICES ASSUME NEW w \in Workers, Waiting(w)' # {}
             PROVE  Hosted(w)' # {} /\ (Failures' = {} => Room(count'[w]) = 0)
  BY DEF WaitersHaveRunners
<1>4. PICK a \in Action : state'[a] = "WAITING" /\ res[a] = w
  BY <1>2 DEF Waiting
<1>5. a \in LeftAt(st, res, resumed, free, running, w)
  BY <1>2, <1>4 DEF LeftAt
<1>6. /\ Runs(st, res, w) \cup LaunchedAt(resumed, running, res, w) # {}
      /\ (\A b \in Action : st[b] # "FAILED") =>
            Cardinality(LaunchedAt(resumed, running, res, w)) = Room(counts[w])
  BY <1>5 DEF Change, Filled
<1>7. Hosted(w)' # {}
  <2>1. PICK b : b \in Runs(st, res, w) \/ b \in LaunchedAt(resumed, running, res, w)
    BY <1>6
  <2>2. b \in Action /\ res[b] = w /\ state'[b] = "RUNNING"
    BY <1>2, <1>3, <2>1 DEF Runs, LaunchedAt
  <2> QED BY <1>2, <2>2 DEF Hosted
<1>8. ASSUME Failures' = {}
      PROVE  Room(count'[w]) = 0
  <2>1. \A b \in Action : state'[b] # "FAILED"
    BY <1>8 DEF Failures
  <2>2. \A b \in Action : st[b] # "FAILED"
    BY <1>2, <1>3, <2>1
  <2>3. counts[w].used \in Int /\ counts[w].available \in Int
    BY <1>1 DEF Counts
  <2> QED BY <1>2, <1>6, <2>2, <2>3, RoomTaken
<1> QED BY <1>7, <1>8

\* The tasks that are not launched are kept.
LEMMA ChangeKept ==
    ASSUME NEW st, NEW res, NEW counts, NEW rn, NEW resumed, NEW free, NEW running, TypeOK,
           Sound(st, res, counts, rn)', Change(st, res, counts, rn, resumed, free, running)
    PROVE  Kept'
<1>1. /\ st \in [Action -> States] /\ res \in [Action -> Workers \cup {NoWorker}]
      /\ counts \in Counts /\ rn \in [Action -> Run]
  BY DEF Sound
<1>2. /\ resource' = res
      /\ \A a \in Action : state'[a] = IF a \in resumed \cup running THEN "RUNNING"
                                       ELSE IF a \in free THEN "WAITING" ELSE st[a]
  BY <1>1, ChangeValues
<1> SUFFICES ASSUME NEW t \in Task, state'[t] = "RUNNABLE"
             PROVE  \/ t \in blocked' /\ workers' \subseteq tried'[t]
                    \/ preds'[t] # {} /\ resource'[t] # NoWorker
  BY DEF Kept
<1>3. st[t] = "RUNNABLE" /\ t \notin free
  BY <1>2 DEF Action
<1>4. tried[t] \subseteq tried'[t]
  BY DEF Change, Become
<1> QED BY <1>2, <1>3, <1>4 DEF Change, Keeping

\* Neither is concerned by what the actions do while they run.
LEMMA WaitersStay ==
    ASSUME WaitersHaveRunners, UNCHANGED <<state, resource, count>>
    PROVE  WaitersHaveRunners'
<1>1. \A w : Waiting(w)' = Waiting(w) /\ Hosted(w)' = Hosted(w)
  BY DEF Waiting, Hosted
<1>2. Failures' = Failures
  BY DEF Failures
<1>3. \A w : Room(count[w])' = Room(count[w])
  BY DEF Room
<1> QED BY <1>1, <1>2, <1>3 DEF WaitersHaveRunners

\* The tasks stay kept.
LEMMA KeptStays ==
    ASSUME Kept, UNCHANGED <<state, resource, workers, blocked, tried, preds>>
    PROVE  Kept'
BY DEF Kept

\* The waiting actions that w resumes are executions, and as many as it has room for.
LEMMA ResumedFits ==
    ASSUME IInv, NEW counts \in Counts, NEW w \in Workers, NEW resumed \in Resumed(w, counts)
    PROVE  /\ resumed \subseteq Waiting(w) /\ resumed \subseteq Task
           /\ IsFiniteSet(resumed)
           /\ Cardinality(resumed) \in Nat
           /\ Cardinality(resumed) <= Room(counts[w])
           /\ Cardinality(resumed) < Room(counts[w]) => resumed = Waiting(w)
<1> DEFINE waiting == Waiting(w)
<1>1. Room(counts[w]) \in Nat
  BY RoomOf DEF Counts
<1>2. waiting \subseteq Action /\ IsFiniteSet(waiting) /\ Cardinality(waiting) \in Nat
  BY FiniteCount DEF Waiting
<1>3. /\ resumed \subseteq waiting
      /\ Cardinality(resumed) = Min({Cardinality(waiting), Room(counts[w])})
  BY DEF Resumed, kSubset
<1>4. Min({Cardinality(waiting), Room(counts[w])})
        = IF Cardinality(waiting) <= Room(counts[w]) THEN Cardinality(waiting) ELSE Room(counts[w])
  <2>1. Cardinality(waiting) \in Int /\ Room(counts[w]) \in Int
    BY <1>1, <1>2
  <2> HIDE DEF waiting
  <2> QED BY <2>1, MinOfTwo
<1>5. resumed \subseteq Task
  BY <1>3 DEF Waiting, IInv, Sound, Placement, Action
<1>6. IsFiniteSet(resumed) /\ (Cardinality(resumed) = Cardinality(waiting) => resumed = waiting)
  <2>1. resumed \in SUBSET waiting
    BY <1>3
  <2> HIDE DEF waiting
  <2> QED BY <1>2, <2>1, FS_Subset
<1> HIDE DEF waiting
<1>7. Cardinality(resumed) < Room(counts[w]) => Cardinality(resumed) = Cardinality(waiting)
  BY <1>1, <1>2, <1>3, <1>4
<1> QED BY <1>1, <1>2, <1>3, <1>4, <1>5, <1>6, <1>7 DEF waiting

\* What a request resumes and launches fits, on every worker.
LEMMA LaunchFits ==
    ASSUME IInv, NEW counts \in Counts, NEW w0 \in Workers,
           NEW resumed, resumed = {} \/ resumed \in Resumed(w0, counts),
           NEW res, \A a \in resumed : res[a] = resource[a],
           NEW free \in SUBSET Task, NEW running,
           (free = {} /\ running = {}) \/ running \in Launched(free, res, resumed, counts)
    PROVE  /\ resumed \subseteq Task /\ running \subseteq free
           /\ \A a \in resumed : state[a] = "WAITING"
           /\ \A w \in Workers : Cardinality(LaunchedAt(resumed, running, res, w)) <= Room(counts[w])
<1>1. resumed \subseteq Waiting(w0) /\ resumed \subseteq Task /\ running \subseteq free
  BY ResumedFits DEF Launched
<1>2. \A a \in resumed : state[a] = "WAITING" /\ resource[a] = w0
  BY <1>1 DEF Waiting
<1>3. ASSUME NEW w \in Workers
      PROVE  Cardinality(LaunchedAt(resumed, running, res, w)) <= Room(counts[w])
  <2> DEFINE back == resumed \cap Waiting(w)
             here == {a \in free : res[a] = w}
             new == running \cap here
  <2>1. LaunchedAt(resumed, running, res, w) = back \cup new
    <3>1. \A a \in resumed : res[a] = w <=> a \in Waiting(w)
      BY <1>1, <1>2 DEF Waiting, Action
    <3> QED BY <1>1, <3>1 DEF LaunchedAt
  <2>2. Room(counts[w]) \in Nat
    BY RoomOf DEF Counts
  <2>3. Task \subseteq Action
    BY DEF Action
  <2>4. /\ IsFiniteSet(back) /\ Cardinality(back) \in Nat
        /\ IsFiniteSet(here) /\ Cardinality(here) \in Nat
        /\ IsFiniteSet(new) /\ Cardinality(new) \in Nat
        /\ IsFiniteSet(back \cap new) /\ Cardinality(back \cap new) \in Nat
    <3>1. back \subseteq Action /\ here \subseteq Action /\ new \subseteq Action
      BY <1>1, <2>3
    <3> HIDE DEF back, here, new
    <3>2. back \cap new \subseteq Action
      BY <3>1
    <3> QED BY <3>1, <3>2, FiniteCount
  <2>5. Cardinality(back) <= Room(counts[w])
    <3>1. CASE resumed # {} /\ w = w0
      <4>1. back = resumed
        BY <1>1, <3>1
      <4> QED BY <3>1, <4>1, ResumedFits
    <3>2. CASE resumed = {} \/ w # w0
      <4>1. back = {}
        BY <1>2, <3>2 DEF Waiting
      <4> QED BY <2>2, <4>1, FS_EmptySet
    <3> QED BY <3>1, <3>2
  <2>6. Cardinality(new) <= Room(counts[w]) - Cardinality(back)
    <3>1. CASE running = {}
      <4>1. new = {}
        BY <3>1
      <4>2. Cardinality(new) = 0
        BY <4>1, FS_EmptySet
      <4> HIDE DEF new, back
      <4> QED BY <2>2, <2>4, <2>5, <4>2
    <3>2. CASE running \in Launched(free, res, resumed, counts)
      <4> DEFINE left == Room(counts[w]) - Cardinality(back)
      <4>1. Cardinality(new) = IF Waiting(w) \subseteq resumed THEN Min({Cardinality(here), left}) ELSE 0
        BY <3>2 DEF Launched
      <4>2. left \in Int /\ left >= 0
        BY <2>2, <2>4, <2>5
      <4> HIDE DEF left, new, here, back
      <4>3. Min({Cardinality(here), left}) <= left
        BY <2>4, <4>2, MinOfTwo
      <4>4. Cardinality(new) <= left
        BY <4>1, <4>2, <4>3
      <4> QED BY <4>4 DEF left
    <3> QED BY <3>1, <3>2
  <2>7. Cardinality(back \cup new) = Cardinality(back) + Cardinality(new) - Cardinality(back \cap new)
    <3> HIDE DEF back, new
    <3> QED BY <2>4, FS_Union
  <2> HIDE DEF back, new, here
  <2> QED BY <2>1, <2>2, <2>4, <2>6, <2>7
<1> QED BY <1>1, <1>2, <1>3

\* What a request resumes and launches leaves none waiting that could run.
LEMMA LaunchFills ==
    ASSUME IInv, NEW st, NEW res, NEW counts \in Counts, NEW before \in Counts, NEW w0 \in Workers,
           NEW resumed, resumed = {} \/ resumed \in Resumed(w0, before),
           NEW free \in SUBSET Task, resumed \cap free = {}, NEW running,
           (free = {} /\ running = {})
              \/ (before = counts /\ running \in Launched(free, res, resumed, counts)),
           \A a \in Action : st[a] = "WAITING" => state[a] = "WAITING",
           \A a \in Action : state[a] = "WAITING" => res[a] = resource[a],
           Ledger(st, res, before),
           before = counts \/ \E a \in Action : st[a] = "FAILED",
           \A w \in Workers : Undisturbed(st, res, counts, w) \/ (w = w0 /\ resumed \in Resumed(w0, before))
    PROVE  Filled(st, res, counts, resumed, free, running)
<1> SUFFICES ASSUME NEW w \in Workers, LeftAt(st, res, resumed, free, running, w) # {}
             PROVE  /\ Runs(st, res, w) \cup LaunchedAt(resumed, running, res, w) # {}
                    /\ (\A a \in Action : st[a] # "FAILED") =>
                          Cardinality(LaunchedAt(resumed, running, res, w)) = Room(counts[w])
  BY DEF Filled
<1>1. resumed \subseteq Waiting(w0) /\ resumed \subseteq Task /\ running \subseteq free
  BY ResumedFits DEF Launched
<1>2. \A a \in resumed : a \in Action /\ state[a] = "WAITING" /\ resource[a] = w0 /\ res[a] = w0
  BY <1>1 DEF Waiting
<1> DEFINE here == {a \in free : res[a] = w}
           back == resumed \cap Waiting(w)
           new == running \cap here
<1>3. LaunchedAt(resumed, running, res, w) = back \cup new
  <2>1. \A a \in resumed : res[a] = w <=> a \in Waiting(w)
    BY <1>2 DEF Waiting
  <2> QED BY <1>1, <2>1 DEF LaunchedAt
<1>4. /\ back \subseteq Action /\ here \subseteq Action /\ new \subseteq here /\ back \cap new = {}
      /\ IsFiniteSet(back) /\ Cardinality(back) \in Nat
      /\ IsFiniteSet(here) /\ Cardinality(here) \in Nat
      /\ IsFiniteSet(new) /\ Cardinality(new) \in Nat
  <2>1. back \subseteq Action /\ here \subseteq Action /\ new \subseteq Action
    BY <1>2 DEF Action
  <2> HIDE DEF back, here, new
  <2>2. /\ IsFiniteSet(back) /\ Cardinality(back) \in Nat
        /\ IsFiniteSet(here) /\ Cardinality(here) \in Nat
        /\ IsFiniteSet(new) /\ Cardinality(new) \in Nat
    BY <2>1, FiniteCount
  <2>3. new \subseteq here /\ back \cap new = {}
    BY DEF back, here, new
  <2> QED BY <2>1, <2>2, <2>3
<1>5. running # {} /\ ~(Waiting(w) \subseteq resumed) => Cardinality(new) = 0
  BY DEF Launched
<1>6. ~(Waiting(w) \subseteq resumed) => new = {}
  <2> HIDE DEF new, here
  <2>1. running = {} => new = {}
    BY DEF new
  <2> QED BY <1>4, <1>5, <2>1, FS_EmptySet
<1>7. before[w].used \in Int /\ before[w].available \in Int /\ Room(before[w]) \in Nat
  BY RoomOf DEF Counts
<1>8. (\A a \in Action : st[a] # "FAILED") => before = counts
  OBVIOUS
<1>9. ASSUME Cardinality(LaunchedAt(resumed, running, res, w)) = Room(before[w])
      PROVE  Runs(st, res, w) \cup LaunchedAt(resumed, running, res, w) # {}
  <2>1. Runs(st, res, w) = {} => Room(before[w]) > 0
    BY RoomWhereNothingRuns
  <2>2. LaunchedAt(resumed, running, res, w) = {} => Room(before[w]) = 0
    BY <1>9, FS_EmptySet
  <2> QED BY <1>7, <2>1, <2>2
<1>10. CASE ~(Waiting(w) \subseteq resumed) /\ w = w0 /\ resumed \in Resumed(w0, before)
  <2>1. back = resumed
    BY <1>1, <1>10
  <2>2. /\ Cardinality(resumed) \in Nat
        /\ Cardinality(resumed) <= Room(before[w])
        /\ Cardinality(resumed) < Room(before[w]) => resumed = Waiting(w)
    BY <1>10, ResumedFits
  <2>3. LaunchedAt(resumed, running, res, w) = resumed
    BY <1>3, <1>6, <1>10, <2>1
  <2>4. Cardinality(resumed) = Room(before[w])
    BY <1>7, <1>10, <2>2
  <2> QED BY <1>8, <1>9, <2>3, <2>4
<1>11. CASE ~(Waiting(w) \subseteq resumed) /\ ~(w = w0 /\ resumed \in Resumed(w0, before))
  <2>1. Undisturbed(st, res, counts, w) /\ (w # w0 \/ resumed = {})
    BY <1>11
  <2>2. LaunchedAt(resumed, running, res, w) = {}
    <3>1. back = {}
      BY <1>2, <2>1 DEF Waiting
    <3> QED BY <1>3, <1>6, <1>11, <3>1
  <2>3. Waiting(w) # {}
    BY <1>11
  <2>4. Hosted(w) # {} /\ (Failures = {} => Room(count[w]) = 0)
    BY <2>3 DEF IInv, WaitersHaveRunners
  <2>5. Runs(state, resource, w) # {}
    BY <2>4 DEF Hosted, Runs
  <2>6. Cardinality(LaunchedAt(resumed, running, res, w)) = 0
    BY <2>2, FS_EmptySet
  <2> QED BY <2>1, <2>4, <2>5, <2>6 DEF Undisturbed
<1>12. CASE Waiting(w) \subseteq resumed
  <2>1. PICK a \in Action : /\ res[a] = w
                            /\ (st[a] = "WAITING" /\ a \notin resumed) \/ a \in free \ running
    BY DEF LeftAt
  <2>2. a \in here /\ a \notin new
    <3>1. st[a] = "WAITING" => a \in Waiting(w)
      BY <2>1 DEF Waiting
    <3> QED BY <1>12, <2>1, <3>1
  <2>3. before = counts /\ running \in Launched(free, res, resumed, counts)
    BY <2>2
  <2> DEFINE left == Room(counts[w]) - Cardinality(back)
  <2>4. Cardinality(new) = Min({Cardinality(here), left})
    BY <1>12, <2>3 DEF Launched
  <2>5. left \in Int
    BY <1>4, <1>7, <2>3
  <2>6. Cardinality(new) = left
    <3> HIDE DEF left, new, here, back
    <3>1. Cardinality(new) # Cardinality(here)
      BY <1>4, <2>2, FS_Subset
    <3> QED BY <1>4, <2>4, <2>5, <3>1, MinOfTwo
  <2>7. Cardinality(back \cup new) = Cardinality(back) + Cardinality(new)
    <3> HIDE DEF new, here, back
    <3> QED BY <1>4, CountUnion
  <2>8. Cardinality(LaunchedAt(resumed, running, res, w)) = Room(counts[w])
    <3>1. Room(counts[w]) \in Nat
      BY <1>7, <2>3
    <3> HIDE DEF new, here, back
    <3> QED BY <1>3, <1>4, <2>6, <2>7, <3>1
  <2> QED BY <1>9, <2>3, <2>8
<1> QED BY <1>10, <1>11, <1>12

\* The counts of a worker after an action has released what it took.
LEMMA Released ==
    ASSUME NEW counts \in Counts, NEW w \in Workers, NEW a \in Action
    PROVE  /\ Needs(a) \in Nat
           /\ Release(counts, w, a) \in Counts
           /\ Release(counts, w, a)[w].used = counts[w].used - 1
           /\ Release(counts, w, a)[w].available = counts[w].available + Needs(a)
           /\ \A v \in Workers : v # w => Release(counts, w, a)[v] = counts[v]
<1>1. Needs(a) \in Nat
  BY SchedulerAssumption DEF Needs
<1>2. counts[w].used \in Int /\ counts[w].available \in Int
  BY DEF Counts
<1> QED BY <1>1, <1>2 DEF Release, Counts

\* The worker of an action whose end is treated.
LEMMA EndsOn ==
    ASSUME IInv, NEW type \in EndTypes, NEW a \in Action, Take(type, a)
    PROVE  /\ state[a] = "RUNNING"
           /\ resource[a] \in Workers
           /\ a \in Workers => resource[a] = a
           /\ a \in Task => preds[a] = {}
           /\ tdQueue' \in Seq(Request)
<1>1. state[a] = "RUNNING" /\ tdQueue' \in Seq(Request)
  BY TakeUpdate DEF IInv, Sound
<1> QED BY <1>1 DEF IInv, TypeOK, Sound, Placement, Dependencies

\* An action that releases once gives back what it had reserved.
LEMMA ReleaseGivesBack ==
    ASSUME IInv, NEW a \in Action, resource[a] \in Workers, NEW st,
           NEW counts, counts = Release(count, resource[a], a)
    PROVE  GivesBack(a, st, counts)
<1>1. count \in Counts
  BY DEF IInv, Sound
<1>2. PICK w \in Workers : w = resource[a]
  OBVIOUS
<1>3. /\ counts \in Counts /\ Needs(a) \in Nat
      /\ counts[w].used = count[w].used - 1
      /\ counts[w].available = count[w].available + Needs(a)
      /\ \A v \in Workers : v # w => counts[v] = count[v]
  BY <1>1, <1>2, Released
<1>4. \A v \in Workers : /\ count[v].used \in Int /\ count[v].available \in Int
                         /\ counts[v].used \in Int /\ counts[v].available \in Int
  BY <1>1, <1>3 DEF Counts
<1> QED BY <1>2, <1>3, <1>4 DEF GivesBack

\* The request that ends action a leaves everything as it should, if its handler
\* changes no other state than to fail those that wait for data.
LEMMA EndSound ==
    ASSUME IInv, NEW type \in EndTypes, NEW a \in Action, Take(type, a),
           UNCHANGED <<submitted, workers>>,
           NEW st \in [Action -> States], NEW res, res = resource, NEW rn, rn = run,
           NEW counts, GivesBack(a, st, counts),
           st[a] \in {"FINISHED", "FAILED", "RUNNABLE"},
           \A b \in Action : b # a => \/ st[b] = state[b]
                                      \/ state[b] \in {"RUNNABLE", "FAILED"} /\ st[b] = "FAILED",
           Dependencies(st)'
    PROVE  /\ Sound(st, res, counts, rn)' /\ Ledger(st, res, counts)
           /\ \A w \in Workers : w # resource[a] => Undisturbed(st, res, counts, w)
           /\ \A b \in Action : st[b] = "WAITING" => state[b] = "WAITING"
<1>1. TypeOK /\ Phases(state, run) /\ Submissions(state)
  BY DEF IInv, Sound
<1>2. /\ state[a] = "RUNNING" /\ ~Waits(run[a]) /\ run[a].jobs = 0
      /\ UpdatesOf(a)' = {}
      /\ \A b \in Action : \A i, j \in UpdatesOf(b)' : i = j
      /\ \A b \in Action : b # a => (UpdatesOf(b)' = {} <=> UpdatesOf(b) = {})
      /\ \A t \in Task : Ordered(t)' = {} <=> Ordered(t) = {}
      /\ \A t \in Task : \A i, j \in Ordered(t)' : i = j
  BY <1>1, TakeUpdate
<1>3. Phases(st, rn)'
  <2> SUFFICES ASSUME NEW b \in Action
               PROVE  Phase(st[b], rn[b], UpdatesOf(b)')
    BY DEF Phases
  <2>1. Phase(state[b], run[b], UpdatesOf(b))
    BY <1>1 DEF Phases
  <2>2. CASE b = a
    BY <1>2, <2>1, <2>2 DEF Phase
  <2>3. CASE b # a
    <3>1. st[b] = "RUNNING" <=> state[b] = "RUNNING"
      BY <2>3
    <3> QED BY <1>2, <2>1, <2>3, <3>1 DEF Phase
  <2> QED BY <2>2, <2>3
<1>4. \A b \in Action : st[b] = "none" <=> state[b] = "none"
  BY <1>2
<1>5. Submissions(st)'
  BY <1>1, <1>2, <1>4 DEF Submissions, Action
<1>6. Placement(st, res, counts)'
  <2>1. Placement(state, resource, count)
    BY DEF IInv, Sound
  <2>2. \A b \in Action : st[b] \in {"WAITING", "RUNNING"} => st[b] = state[b]
    BY <1>2
  <2>3. ASSUME NEW w \in Workers, st[w] = "RUNNING"
        PROVE  /\ res[w] = w /\ counts[w].available = 0
               /\ \A t \in Task : st[t] = "RUNNING" => res[t] # w
    <3>1. state[w] = "RUNNING" /\ w # a
      BY <2>2, <2>3 DEF Action
    <3>2. /\ resource[w] = w /\ count[w].available = 0
          /\ \A t \in Task : state[t] = "RUNNING" => resource[t] # w
      BY <2>1, <3>1 DEF Placement
    <3>3. resource[a] # w
      <4>1. CASE a \in Task
        BY <1>2, <3>2, <4>1
      <4>2. CASE a \in Workers
        BY <1>2, <2>1, <3>1, <4>2 DEF Placement
      <4> QED BY <4>1, <4>2 DEF Action
    <3>4. \A t \in Task : st[t] = "RUNNING" => state[t] = "RUNNING"
      BY <2>2 DEF Action
    <3>5. counts[w].available = count[w].available
      BY <3>3 DEF GivesBack
    <3> QED BY <3>2, <3>3, <3>4, <3>5
  <2>4. \A w \in Workers : st[w] # "WAITING"
    BY <2>1, <2>2 DEF Placement, Action
  <2>5. \A b \in Action : st[b] \in {"WAITING", "RUNNING"} => res[b] # NoWorker
    BY <2>1, <2>2 DEF Placement
  <2> QED BY <2>1, <2>3, <2>4, <2>5 DEF Placement
<1>7. Ledger(st, res, counts)
  <2>1. PICK st0, count0, w0 : st0 = state /\ count0 = count /\ w0 = resource[a]
    OBVIOUS
  <2>2. /\ count0 \in Counts /\ counts \in Counts /\ Ledger(st0, res, count0)
        /\ w0 \in Workers /\ res[a] = w0 /\ (a \in Workers => a = w0)
    BY <2>1, EndsOn DEF IInv, Sound, GivesBack
  <2>3. st0[a] = "RUNNING" /\ \A b \in Action : st[b] = "RUNNING" <=> b # a /\ st0[b] = "RUNNING"
    BY <1>2, <2>1
  <2>4. (\A b \in Action : st[b] # "FAILED") => (\A b \in Action : st0[b] # "FAILED")
    BY <1>2, <2>1
  <2>5. /\ counts[w0].used <= count0[w0].used - 1
        /\ counts[w0].available >= count0[w0].available + Needs(a)
    BY <2>1 DEF GivesBack
  <2>6. \A w \in Workers : /\ counts[w].used \in Int /\ counts[w].available \in Int
                           /\ count0[w].used \in Int /\ count0[w].available \in Int
    BY <2>2 DEF Counts
  <2>7. \A w \in Workers : w # w0 => /\ counts[w].used <= count0[w].used
                                     /\ counts[w].available >= count0[w].available
    BY <2>1, <2>6 DEF GivesBack
  <2>8. (\A b \in Action : st[b] # "FAILED") =>
            /\ counts[w0].used = count0[w0].used - 1
            /\ counts[w0].available = count0[w0].available + Needs(a)
            /\ \A w \in Workers : w # w0 => counts[w] = count0[w]
    BY <2>1, <2>2, Released DEF GivesBack
  <2> QED BY <2>2, <2>3, <2>4, <2>5, <2>7, <2>8, LedgerEnds
<1>8. Ledger(st, res, counts)' /\ counts \in Counts
  BY <1>7 DEF Ledger, Runs, Load, GivesBack
<1>9. ASSUME NEW w \in Workers, w # resource[a]
      PROVE  Undisturbed(st, res, counts, w)
  <2>1. Runs(state, resource, w) # {} => Runs(st, res, w) # {}
    BY <1>2, <1>9 DEF Runs
  <2>2. ASSUME \A b \in Action : st[b] # "FAILED"
        PROVE  Failures = {} /\ counts[w] = count[w]
    <3>1. \A b \in Action : state[b] # "FAILED"
      BY <1>2, <2>2
    <3>2. counts = Release(count, resource[a], a) /\ count \in Counts
      BY <2>2 DEF GivesBack, IInv, Sound
    <3> QED BY <1>9, <3>1, <3>2 DEF Failures, Release, Counts
  <2> QED BY <2>1, <2>2 DEF Undisturbed
<1>10. \A b \in Action : st[b] = "WAITING" => state[b] = "WAITING"
  OBVIOUS
<1> QED BY <1>3, <1>5, <1>6, <1>7, <1>8, <1>9, <1>10 DEF Sound, IInv, TypeOK, ExecutionTypeOK

\* A request keeps the invariant if what it resumes and launches does.
LEMMA DispatchKeeps ==
    ASSUME IInv, NEW st, NEW res, NEW counts, NEW rn, NEW resumed, NEW free, NEW running,
           Sound(st, res, counts, rn)', Change(st, res, counts, rn, resumed, free, running),
           workers' \subseteq Workers, submitted' \in 0 .. MaxTasks, blocked' \subseteq Task,
           reported' \in [Task -> {"none", "FINISHED", "FAILED"}],
           tdQueue' \in Seq(Request), UNCHANGED faults
    PROVE  IInv'
<1>1. TypeOK
  BY DEF IInv
<1>2. /\ Sound(state, resource, count, run)' /\ tried' \in [Task -> SUBSET Workers]
      /\ WaitersHaveRunners' /\ Kept'
  BY <1>1, ChangeKeeps, ChangeWaiters, ChangeKept
<1>3. TypeOK'
  BY <1>1, <1>2 DEF TypeOK, ExecutionTypeOK, Sound, Dependencies, Counts
<1> QED BY <1>2, <1>3 DEF IInv

\* A task that neither runs nor waits may be given another worker.
LEMMA Reassigned ==
    ASSUME NEW st, NEW res, NEW counts, NEW rn, Sound(st, res, counts, rn)',
           workers' \subseteq Workers,
           NEW res1 \in [Action -> Workers \cup {NoWorker}],
           \A a \in Action : \/ res1[a] = res[a]
                             \/ a \in Task /\ st[a] = "RUNNABLE" /\ res1[a] \in workers'
    PROVE  Sound(st, res1, counts, rn)'
<1>1. Placement(st, res, counts)'
  BY DEF Sound
<1>2. \A a \in Action : st[a] \in {"WAITING", "RUNNING"} => res1[a] = res[a]
  OBVIOUS
<1>3. \A a \in Action : res1[a] \in workers' \cup {NoWorker}
  BY <1>1 DEF Placement
<1>4. \A w \in Workers : st[w] = "RUNNING" =>
          /\ res1[w] = w
          /\ counts[w].available = 0
          /\ \A t \in Task : st[t] = "RUNNING" => res1[t] # w
  BY <1>1, <1>2 DEF Placement, Action
<1>5. Placement(st, res1, counts)'
  BY <1>1, <1>2, <1>3, <1>4 DEF Placement
<1>6. \A w \in Workers : Runs(st, res, w) = Runs(st, res1, w) /\ Load(st, res, w) = Load(st, res1, w)
  BY <1>2, SameRuns
<1>7. Ledger(st, res1, counts)
  BY <1>6 DEF Sound, Ledger
<1> QED BY <1>5, <1>7 DEF Sound

\* Schedule, with the set of what it launches given.
Scheduling(t, st, counts, resumed, free) ==
    \/ /\ workers \subseteq tried[t]
       /\ Become(st, resource, counts, run, resumed, {}, {})
       /\ AddToBlocked(t)
    \/ \E w, res, running :
          /\ w \in workers
          /\ res = [resource EXCEPT ![t] = w]
          /\ running \in Launched(free, res, resumed, counts)
          /\ Become(st, res, counts, run, resumed, free, running)
          /\ UNCHANGED blocked

\* The request is a change as it should be, in which t may be given a worker.
Scheduled(t, st, counts, resumed) ==
    \E res, launched, running :
        /\ res \in [Action -> Workers \cup {NoWorker}]
        /\ Change(st, res, counts, run, resumed, launched, running)
        /\ \A a \in Action : res[a] = resource[a] \/ (a = t /\ res[a] \in workers)

\* What scheduleAction and tryToLaunch of task t do is a change as it should be.
LEMMA ScheduleChanges ==
    ASSUME IInv, NEW t \in Task, NEW st, st[t] = "RUNNABLE", state[t] # "WAITING",
           NEW counts \in Counts, NEW w0 \in Workers,
           NEW resumed, resumed = {} \/ resumed \in Resumed(w0, counts),
           \A a \in Action : a # t => st[a] = state[a],
           Ledger(st, resource, counts),
           \A w \in Workers : \/ Undisturbed(st, resource, counts, w)
                              \/ w = w0 /\ resumed \in Resumed(w0, counts),
           workers' = workers, \A s \in Task : s # t => preds'[s] = preds[s],
           NEW free, (free = {} /\ preds'[t] # {}) \/ (free = {t} /\ preds'[t] = {}),
           Scheduling(t, st, counts, resumed, free)
    PROVE  blocked' \subseteq Task /\ Scheduled(t, st, counts, resumed)
<1>1. /\ resource \in [Action -> Workers \cup {NoWorker}] /\ workers \subseteq Workers
      /\ blocked \subseteq Task /\ t \in Action /\ Task \subseteq Action
      /\ NoWorker \notin Workers
  BY SchedulerAssumption DEF IInv, TypeOK, Action
<1>2. resumed \subseteq Task /\ \A a \in resumed : state[a] = "WAITING" /\ a # t /\ st[a] = "WAITING"
  BY <1>1, ResumedFits DEF Waiting
<1> DEFINE mine == \A s \in Task : s # t /\ st[s] = "RUNNABLE" =>
                      \/ s \in blocked /\ workers' \subseteq tried[s]
                      \/ preds'[s] # {} /\ resource[s] # NoWorker
<1>3. mine
  BY <1>1 DEF IInv, Kept
<1> HIDE DEF mine
<1>4. CASE /\ workers \subseteq tried[t]
           /\ Become(st, resource, counts, run, resumed, {}, {})
           /\ AddToBlocked(t)
  <2>1. \A w \in Workers : Cardinality(LaunchedAt(resumed, {}, resource, w)) <= Room(counts[w])
    BY <1>2, LaunchFits
  <2>2. blocked' = blocked \cup {t}
    BY <1>4 DEF AddToBlocked
  <2>3. Keeping(st, resource, {})
    BY <1>3, <1>4, <2>2 DEF Keeping, mine
  <2>4. Filled(st, resource, counts, resumed, {}, {})
    <3>1. PICK res : res = resource
      OBVIOUS
    <3>2. /\ \A a \in Action : st[a] = "WAITING" => state[a] = "WAITING"
          /\ \A a \in Action : state[a] = "WAITING" => res[a] = resource[a]
          /\ Ledger(st, res, counts)
          /\ \A w \in Workers : Undisturbed(st, res, counts, w) \/ (w = w0 /\ resumed \in Resumed(w0, counts))
      BY <3>1
    <3>3. {} \in SUBSET Task /\ resumed \cap {} = {} /\ (resumed = {} \/ resumed \in Resumed(w0, counts))
      OBVIOUS
    <3>4. Filled(st, res, counts, resumed, {}, {})
      BY <3>2, <3>3, LaunchFills
    <3> QED BY <3>1, <3>4
  <2>5. Change(st, resource, counts, run, resumed, {}, {})
    BY <1>2, <1>4, <2>1, <2>3, <2>4 DEF Change
  <2>6. blocked' \subseteq Task
    BY <1>1, <2>2
  <2> QED BY <1>1, <2>5, <2>6 DEF Scheduled
<1>5. CASE \E w, res, running :
             /\ w \in workers
             /\ res = [resource EXCEPT ![t] = w]
             /\ running \in Launched(free, res, resumed, counts)
             /\ Become(st, res, counts, run, resumed, free, running)
             /\ UNCHANGED blocked
  <2>1. PICK w, res, running :
             /\ w \in workers
             /\ res = [resource EXCEPT ![t] = w]
             /\ running \in Launched(free, res, resumed, counts)
             /\ Become(st, res, counts, run, resumed, free, running)
             /\ UNCHANGED blocked
    BY <1>5
  <2>2. /\ res \in [Action -> Workers \cup {NoWorker}] /\ res[t] = w
        /\ w \in workers /\ w # NoWorker
        /\ \A a \in Action : a # t => res[a] = resource[a]
    BY <1>1, <2>1
  <2>3. free \in SUBSET Task /\ \A a \in free : a = t /\ preds'[a] = {}
    OBVIOUS
  <2>4. \A a \in resumed : res[a] = resource[a]
    BY <1>1, <1>2, <2>2
  <2>5. /\ running \subseteq free
        /\ \A v \in Workers : Cardinality(LaunchedAt(resumed, running, res, v)) <= Room(counts[v])
    <3>1. running \in Launched(free, res, resumed, counts) /\ free \in SUBSET Task
      BY <2>1, <2>3
    <3>2. resumed = {} \/ resumed \in Resumed(w0, counts)
      OBVIOUS
    <3> QED BY <2>4, <3>1, <3>2, LaunchFits
  <2>6. \A a \in free : st[a] = "RUNNABLE" /\ preds'[a] = {} /\ res[a] # NoWorker
    BY <1>1, <2>2, <2>3
  <2>7. Filled(st, res, counts, resumed, free, running)
    <3>1. PICK res0 : res0 = resource
      OBVIOUS
    <3>2. \A w1 \in Workers : Runs(st, res0, w1) = Runs(st, res, w1) /\ Load(st, res0, w1) = Load(st, res, w1)
      BY <2>2, <3>1, SameRuns
    <3>3. Ledger(st, res, counts)
      BY <3>1, <3>2 DEF Ledger
    <3>4. \A w1 \in Workers : Undisturbed(st, res, counts, w1) \/ (w1 = w0 /\ resumed \in Resumed(w0, counts))
      BY <3>1, <3>2 DEF Undisturbed
    <3>5. /\ \A a \in Action : st[a] = "WAITING" => state[a] = "WAITING"
          /\ \A a \in Action : state[a] = "WAITING" => res[a] = resource[a]
      BY <2>2
    <3>6. resumed \cap free = {} /\ free \in SUBSET Task /\ (resumed = {} \/ resumed \in Resumed(w0, counts))
      BY <1>2, <2>3
    <3>7. running \in Launched(free, res, resumed, counts)
      BY <2>1
    <3> QED BY <3>3, <3>4, <3>5, <3>6, <3>7, LaunchFills
  <2>8. Keeping(st, res, free)
    BY <1>1, <1>3, <2>1, <2>2, <2>3 DEF Keeping, mine
  <2>9. Change(st, res, counts, run, resumed, free, running)
    BY <1>2, <2>1, <2>3, <2>5, <2>6, <2>7, <2>8 DEF Change
  <2>10. \A a \in Action : res[a] = resource[a] \/ (a = t /\ res[a] \in workers)
    BY <2>2
  <2> QED BY <1>1, <2>1, <2>2, <2>9, <2>10 DEF Scheduled
<1> QED BY <1>4, <1>5 DEF Scheduling

\* The request is a change as it should be, in which tasks without a worker are given
\* one of those that are known.
Reassigning(known, st, res, counts, rn, resumed) ==
    \E res1, free, running :
        /\ res1 \in [Action -> Workers \cup {NoWorker}]
        /\ Change(st, res1, counts, rn, resumed, free, running)
        /\ \A a \in Action : \/ res1[a] = res[a]
                             \/ a \in Task /\ st[a] = "RUNNABLE" /\ res1[a] \in known

\* What the second half of updatedWorker does is a change as it should be.
LEMMA ScheduleBlockedChanges ==
    ASSUME IInv, NEW known \in SUBSET Workers, NEW st,
           NEW res \in [Action -> Workers \cup {NoWorker}], NEW rn,
           NEW counts \in Counts, NEW w0 \in Workers,
           NEW resumed, resumed = {} \/ resumed \in Resumed(w0, counts),
           \A t \in Task : st[t] = state[t] /\ res[t] = resource[t], preds' = preds,
           \A w \in Workers : st[w] # "WAITING" /\ state[w] # "WAITING",
           Ledger(st, res, counts),
           \A w \in Workers : \/ Undisturbed(st, res, counts, w)
                              \/ w = w0 /\ resumed \in Resumed(w0, counts),
           workers' = known,
           ScheduleBlocked(known, st, res, counts, rn, resumed)
    PROVE  blocked' \subseteq Task /\ Reassigning(known, st, res, counts, rn, resumed)
<1>1. blocked \subseteq Task /\ Task \subseteq Action /\ NoWorker \notin Workers
  BY SchedulerAssumption DEF IInv, TypeOK, Action
<1>2. resumed \subseteq Task /\ \A a \in resumed : state[a] = "WAITING" /\ st[a] = "WAITING"
  BY <1>1, ResumedFits DEF Waiting
<1> DEFINE taken == {t \in blocked : known \ tried[t] # {}}
           assigned == {t \in taken : state[t] = "RUNNABLE"}
           free == {t \in assigned : preds[t] = {}}
<1>3. PICK plan \in [assigned -> known] :
          \E running \in Launched(free, [a \in Action |-> IF a \in assigned THEN plan[a] ELSE res[a]],
                                  resumed, counts) :
             Become(st, [a \in Action |-> IF a \in assigned THEN plan[a] ELSE res[a]],
                    counts, rn, resumed, free, running)
  BY DEF ScheduleBlocked
<1>4. PICK res1 : res1 = [a \in Action |-> IF a \in assigned THEN plan[a] ELSE res[a]]
  OBVIOUS
<1>5. PICK running \in Launched(free, res1, resumed, counts) :
          Become(st, res1, counts, rn, resumed, free, running)
  BY <1>3, <1>4
<1>6. \A a \in assigned : a \in Task /\ st[a] = "RUNNABLE" /\ plan[a] \in known
  BY <1>1
<1>7. /\ res1 \in [Action -> Workers \cup {NoWorker}]
      /\ \A a \in Action : \/ res1[a] = res[a]
                           \/ a \in Task /\ st[a] = "RUNNABLE" /\ res1[a] \in known
      /\ \A a \in assigned : res1[a] \in Workers
      /\ \A a \in Action : a \notin assigned => res1[a] = res[a]
  BY <1>1, <1>4, <1>6
<1>8. \A a \in resumed : res1[a] = resource[a]
  BY <1>1, <1>2, <1>7
<1>9. free \in SUBSET Task /\ \A a \in free : a \in assigned /\ preds'[a] = {}
  BY <1>6
<1> HIDE DEF free, assigned
<1>10. /\ running \subseteq free
       /\ \A v \in Workers : Cardinality(LaunchedAt(resumed, running, res1, v)) <= Room(counts[v])
  <2>1. running \in Launched(free, res1, resumed, counts) /\ free \in SUBSET Task
    BY <1>5, <1>9
  <2>2. resumed = {} \/ resumed \in Resumed(w0, counts)
    OBVIOUS
  <2> QED BY <1>8, <2>1, <2>2, LaunchFits, ZenonT(40)
<1>11. \A a \in free : st[a] = "RUNNABLE" /\ preds'[a] = {} /\ res1[a] # NoWorker
  BY <1>1, <1>6, <1>7, <1>9
<1>12. Filled(st, res1, counts, resumed, free, running)
  <2>1. \A w \in Workers : Runs(st, res, w) = Runs(st, res1, w) /\ Load(st, res, w) = Load(st, res1, w)
    <3>1. \A a \in Action : st[a] = "RUNNING" => res1[a] = res[a]
      BY <1>7
    <3> QED BY <3>1, SameRuns
  <2>2. Ledger(st, res1, counts)
    BY <2>1 DEF Ledger
  <2>3. \A w \in Workers : Undisturbed(st, res1, counts, w) \/ (w = w0 /\ resumed \in Resumed(w0, counts))
    BY <2>1 DEF Undisturbed
  <2>4. /\ \A a \in Action : st[a] = "WAITING" => state[a] = "WAITING"
        /\ \A a \in Action : state[a] = "WAITING" => res1[a] = resource[a]
    BY <1>7 DEF Action
  <2>5. resumed \cap free = {} /\ free \in SUBSET Task /\ (resumed = {} \/ resumed \in Resumed(w0, counts))
    BY <1>2, <1>6, <1>9
  <2>6. running \in Launched(free, res1, resumed, counts)
    BY <1>5
  <2> QED BY <2>2, <2>3, <2>4, <2>5, <2>6, LaunchFills
<1>13. Keeping(st, res1, free)
  <2> SUFFICES ASSUME NEW t \in Task, st[t] = "RUNNABLE", t \notin free
               PROVE  \/ t \in blocked' /\ workers' \subseteq tried[t]
                      \/ preds'[t] # {} /\ res1[t] # NoWorker
    BY DEF Keeping
  <2>1. CASE t \in assigned
    BY <1>1, <1>7, <2>1 DEF free
  <2>2. CASE t \notin assigned /\ t \in blocked
    <3>1. t \notin taken /\ known \subseteq tried[t]
      BY <2>2 DEF assigned
    <3>2. t \in blocked'
      BY <2>2, <3>1 DEF ScheduleBlocked
    <3> QED BY <3>1, <3>2
  <2>3. CASE t \notin assigned /\ t \notin blocked
    <3>1. preds[t] # {} /\ resource[t] # NoWorker
      BY <2>3 DEF IInv, Kept
    <3> QED BY <1>1, <1>7, <2>3, <3>1
  <2> QED BY <2>1, <2>2, <2>3
<1>14. Change(st, res1, counts, rn, resumed, free, running)
  BY <1>2, <1>5, <1>9, <1>10, <1>11, <1>12, <1>13 DEF Change
<1>15. blocked' \subseteq Task
  BY <1>1 DEF ScheduleBlocked
<1> QED BY <1>7, <1>14, <1>15 DEF Reassigning

-----------------------------------------------------------------------------
(* The actions.                                                            *)

\* The Access Processor hands over a task (executeTask).
LEMMA SubmitInv ==
    ASSUME IInv, SubmitTask
    PROVE  IInv'
<1>1. PICK t : t = submitted + 1 /\ t \in Task
  BY DEF SubmitTask
<1>2. /\ submitted' = t /\ tdQueue' = Append(tdQueue, [type |-> "EXECUTE_TASKS", action |-> t])
      /\ UNCHANGED <<state, resource, tried, count, run, workers, preds, blocked, reported, faults>>
      /\ \E earlier \in SUBSET (1 .. submitted) : deps' = [deps EXCEPT ![t] = earlier]
  BY <1>1 DEF SubmitTask, actionVars
<1>3. TypeOK /\ Sound(state, resource, count, run) /\ t \in Action /\ submitted \in 0 .. MaxTasks
      /\ t \in 1 .. MaxTasks /\ MaxTasks \in Nat
  BY <1>1, ExecutionAssumption DEF IInv, Action, TypeOK, Task
<1>4. /\ tdQueue' \in Seq(Request)
      /\ \A b \in Action : UpdatesOf(b)' = UpdatesOf(b)
      /\ \A s \in Task : Ordered(s)' = IF s = t THEN Ordered(s) \cup {Len(tdQueue) + 1} ELSE Ordered(s)
  BY <1>2, <1>3, Appended DEF TypeOK, ExecutionTypeOK
<1>5. Phases(state, run)'
  BY <1>2, <1>3, <1>4 DEF Sound, Phases
<1>6. Submissions(state)'
  <2>1. Submissions(state)
    BY <1>3 DEF Sound
  <2>2. state[t] = "none" /\ Ordered(t) = {}
    BY <1>1, <1>3, <2>1 DEF Submissions
  <2>3. \A s \in Task : s # t => (s <= submitted' <=> s <= submitted)
    BY <1>1, <1>2, <1>3 DEF Task
  <2>4. Ordered(t)' # {} /\ \A i, j \in Ordered(t)' : i = j
    BY <1>1, <1>4, <2>2
  <2>5. \A s \in Task : s > submitted' => s > submitted
    BY <1>1, <1>2, <1>3 DEF Task
  <2>6. t <= submitted'
    BY <1>1, <1>2, <1>3
  <2> QED BY <1>2, <1>4, <2>1, <2>2, <2>3, <2>4, <2>5, <2>6 DEF Submissions
<1>7. Dependencies(state)'
  <2>1. Dependencies(state) /\ state[t] = "none"
    BY <1>1, <1>3 DEF Sound, Submissions
  <2>2. deps' \in [Task -> SUBSET Task] /\ \A s \in Task : s # t => deps'[s] = deps[s]
    BY <1>1, <1>2, <1>3, <2>1 DEF Dependencies, Task
  <2> QED BY <1>2, <2>1, <2>2 DEF Dependencies
<1>8. Placement(state, resource, count)'
  BY <1>2, <1>3 DEF Sound, Placement
<1>9. submitted' \in 0 .. MaxTasks
  BY <1>2, <1>3
<1>10. Ledger(state, resource, count)'
  BY <1>2, <1>3, LedgerStays DEF Sound
<1>11. WaitersHaveRunners' /\ Kept'
  BY <1>2, WaitersStay, KeptStays DEF IInv
<1> QED BY <1>2, <1>3, <1>4, <1>5, <1>6, <1>7, <1>8, <1>9, <1>10, <1>11
        DEF IInv, Sound, TypeOK, ExecutionTypeOK, Dependencies

\* The task is created, and given a worker or blocked (ExecuteTasksRequest).
LEMMA ExecuteInv ==
    ASSUME IInv, NEW t \in Task, ExecuteTask(t)
    PROVE  IInv'
<1>1. /\ TypeOK /\ Sound(state, resource, count, run) /\ t \in Action /\ Task \subseteq Action
      /\ workers \subseteq Workers
  BY DEF IInv, Action, TypeOK
<1>2. /\ Take("EXECUTE_TASKS", t)
      /\ preds' = [preds EXCEPT ![t] = {p \in deps[t] : IsPending(p)}]
      /\ Schedule(t, [state EXCEPT ![t] = "RUNNABLE"], count, {}, preds'[t] = {})
      /\ UNCHANGED <<deps, submitted, workers, reported, faults>>
  BY DEF ExecuteTask, taskVars
<1>3. /\ state[t] = "none" /\ t <= submitted
      /\ tdQueue' \in Seq(Request)
      /\ Ordered(t)' = {}
      /\ \A s \in Task : s # t => (Ordered(s)' = {} <=> Ordered(s) = {})
      /\ \A s \in Task : \A i, j \in Ordered(s)' : i = j
      /\ \A b \in Action : UpdatesOf(b)' = {} <=> UpdatesOf(b) = {}
      /\ \A b \in Action : \A i, j \in UpdatesOf(b)' : i = j
  BY <1>1, <1>2, TakeOrder DEF Sound
<1>4. PICK st, res0, counts, rn :
        /\ st = [state EXCEPT ![t] = "RUNNABLE"] /\ res0 = resource /\ counts = count /\ rn = run
  OBVIOUS
<1>5. /\ st \in [Action -> States] /\ st[t] = "RUNNABLE"
      /\ \A a \in Action : a # t => st[a] = state[a]
  BY <1>1, <1>4 DEF TypeOK, States
<1>6. Sound(st, res0, counts, rn)'
  <2>1. Phases(st, rn)'
    <3> SUFFICES ASSUME NEW a \in Action
                 PROVE  Phase(st[a], rn[a], UpdatesOf(a)')
      BY DEF Phases
    <3>1. Phase(state[a], run[a], UpdatesOf(a))
      BY <1>1 DEF Sound, Phases
    <3>2. st[a] = "RUNNING" <=> state[a] = "RUNNING"
      BY <1>3, <1>5
    <3> QED BY <1>3, <1>4, <3>1, <3>2 DEF Phase
  <2>2. Submissions(st)'
    <3>1. Submissions(state)
      BY <1>1 DEF Sound
    <3>2. \A w \in Workers : st[w] = state[w]
      BY <1>5, ExecutionAssumption DEF Action
    <3>3. \A s \in Task : s # t => st[s] = state[s]
      BY <1>1, <1>5
    <3>4. submitted' = submitted /\ workers' = workers /\ submitted \in Nat /\ t \in Nat
      BY <1>1, <1>2 DEF TypeOK, Task
    <3>5. ASSUME NEW s \in Task
          PROVE  /\ Ordered(s)' # {} <=> st[s] = "none" /\ s <= submitted'
                 /\ \A i, j \in Ordered(s)' : i = j
                 /\ s > submitted' => st[s] = "none"
      <4>1. CASE s = t
        BY <1>3, <1>5, <3>4, <4>1
      <4>2. CASE s # t
        BY <1>3, <3>1, <3>3, <3>4, <4>2 DEF Submissions
      <4> QED BY <4>1, <4>2
    <3> QED BY <3>1, <3>2, <3>4, <3>5 DEF Submissions
  <2>3. Dependencies(st)'
    <3>1. Dependencies(state)
      BY <1>1 DEF Sound
    <3>2. preds' \in [Task -> SUBSET Task] /\ deps' \in [Task -> SUBSET Task]
      BY <1>2, <3>1 DEF Dependencies
    <3>3. ASSUME NEW s \in Task
          PROVE  /\ st[s] \in {"none", "WAITING", "RUNNING", "FINISHED"} => preds'[s] = {}
                 /\ st[s] = "FAILED" => preds'[s] = {} \/ \E p \in preds'[s] : st[p] = "FAILED"
                 /\ st[s] # "none" => \A p \in deps'[s] : st[p] \in {"FINISHED", "FAILED"} \/ p \in preds'[s]
      <4>1. \A p \in Task : st[p] \in {"FINISHED", "FAILED"} <=> state[p] \in {"FINISHED", "FAILED"}
        BY <1>1, <1>3, <1>5
      <4>2. \A p \in Task : st[p] = "FAILED" <=> state[p] = "FAILED"
        BY <1>1, <1>3, <1>5
      <4>3. CASE s = t
        <5>1. preds'[t] = {p \in deps[t] : state[p] \notin {"FINISHED", "FAILED"}}
          BY <1>2, <3>1 DEF Dependencies, IsPending
        <5>2. \A p \in deps[t] : p \in Task
          BY <3>1 DEF Dependencies
        <5> QED BY <1>2, <1>5, <4>1, <4>3, <5>1, <5>2
      <4>4. CASE s # t
        <5>1. preds'[s] = preds[s] /\ st[s] = state[s] /\ deps'[s] = deps[s]
              /\ preds[s] \subseteq Task /\ deps[s] \subseteq Task
          BY <1>1, <1>2, <1>5, <3>1, <4>4 DEF Dependencies
        <5> QED BY <3>1, <4>1, <4>2, <5>1 DEF Dependencies
      <4> QED BY <4>3, <4>4
    <3> QED BY <3>2, <3>3 DEF Dependencies
  <2>4. Placement(st, res0, counts)'
    <3>1. \A a \in Action : st[a] \in {"WAITING", "RUNNING"} => st[a] = state[a]
      BY <1>5
    <3>2. \A w \in Workers : st[w] = state[w]
      BY <1>5, ExecutionAssumption DEF Action
    <3> QED BY <1>1, <1>2, <1>4, <3>1, <3>2 DEF Sound, Placement, Action
  <2>5. Ledger(st, res0, counts)
    <3>1. PICK st0 : st0 = state
      OBVIOUS
    <3>2. \A a \in Action : /\ st[a] = "RUNNING" <=> st0[a] = "RUNNING"
                            /\ st[a] = "FAILED" <=> st0[a] = "FAILED"
      BY <1>3, <1>5, <3>1
    <3>3. \A w \in Workers : Runs(st0, res0, w) = Runs(st, res0, w) /\ Load(st0, res0, w) = Load(st, res0, w)
      BY <3>2, SameRuns
    <3>4. Ledger(st0, res0, counts)
      BY <1>1, <1>4, <3>1 DEF Sound
    <3> QED BY <3>2, <3>3, <3>4 DEF Ledger
  <2>6. Ledger(st, res0, counts)'
    BY <2>5 DEF Ledger, Runs, Load
  <2> QED BY <1>1, <1>4, <1>5, <2>1, <2>2, <2>3, <2>4, <2>6 DEF Sound, TypeOK, ExecutionTypeOK
<1>7. CASE Workers = {}
  <2>1. Schedule(t, st, counts, {}, preds'[t] = {}) /\ workers = {}
    BY <1>1, <1>2, <1>4, <1>7
  <2>2. Become(st, res0, counts, rn, {}, {}, {}) /\ blocked' = blocked \cup {t}
    BY <1>4, <2>1 DEF Schedule, AddToBlocked
  <2>3. Keeping(st, res0, {})
    <3>1. \A s \in Task : s # t /\ st[s] = "RUNNABLE" =>
              s \in blocked \/ (preds'[s] # {} /\ res0[s] # NoWorker)
      BY <1>1, <1>2, <1>4, <1>5 DEF IInv, Kept, TypeOK
    <3> QED BY <1>2, <2>1, <2>2, <3>1 DEF Keeping
  <2>4. Change(st, res0, counts, rn, {}, {}, {})
    BY <1>7, <2>2, <2>3 DEF Change, Filled
  <2>5. blocked' \subseteq Task
    BY <1>1, <2>2 DEF TypeOK
  <2> QED BY <1>1, <1>2, <1>3, <1>6, <2>4, <2>5, DispatchKeeps DEF TypeOK
<1>8. CASE Workers # {}
  <2>1. PICK w0 \in Workers : TRUE
    BY <1>8
  <2>2. PICK resumed, free : resumed = {} /\ free = IF preds'[t] = {} THEN {t} ELSE {}
    OBVIOUS
  <2>3. Scheduling(t, st, counts, resumed, free)
    BY <1>2, <1>4, <2>2 DEF Schedule, Scheduling
  <2>4. counts \in Counts /\ state[t] # "WAITING" /\ workers' = workers
    BY <1>1, <1>2, <1>3, <1>4 DEF Sound
  <2>5. \A s \in Task : s # t => preds'[s] = preds[s]
    BY <1>1, <1>2 DEF TypeOK
  <2>6. (free = {} /\ preds'[t] # {}) \/ (free = {t} /\ preds'[t] = {})
    BY <2>2
  <2>7. Ledger(st, resource, counts)
    BY <1>4, <1>6 DEF Sound
  <2>8. \A w \in Workers : Undisturbed(st, resource, counts, w)
    <3>1. \A a \in Action : /\ state[a] = "RUNNING" => st[a] = "RUNNING"
                            /\ state[a] = "FAILED" => st[a] = "FAILED"
      BY <1>3, <1>5
    <3> QED BY <1>4, <3>1 DEF Undisturbed, Runs, Failures
  <2>9. resumed = {} \/ resumed \in Resumed(w0, counts)
    BY <2>2
  <2>10. \A w \in Workers : \/ Undisturbed(st, resource, counts, w)
                            \/ w = w0 /\ resumed \in Resumed(w0, counts)
    BY <2>8
  <2>11. blocked' \subseteq Task /\ Scheduled(t, st, counts, resumed)
    BY <1>5, <2>1, <2>3, <2>4, <2>5, <2>6, <2>7, <2>9, <2>10, ScheduleChanges
  <2>12. PICK res, launched, running :
              /\ res \in [Action -> Workers \cup {NoWorker}]
              /\ Change(st, res, counts, rn, resumed, launched, running)
              /\ \A a \in Action : res[a] = res0[a] \/ (a = t /\ res[a] \in workers)
    BY <1>4, <2>11 DEF Scheduled
  <2>13. Sound(st, res, counts, rn)'
    BY <1>1, <1>2, <1>5, <1>6, <2>12, Reassigned
  <2> QED BY <1>1, <1>2, <1>3, <2>11, <2>12, <2>13, DispatchKeeps DEF TypeOK
<1> QED BY <1>7, <1>8

\* A task completes and releases those that wait for it (actionCompleted).
LEMMA TaskCompletedInv ==
    ASSUME IInv, NEW t \in Task, TaskCompleted(t)
    PROVE  IInv'
<1> DEFINE free == {s \in Successors(t) : preds[s] = {t} /\ resource[s] # NoWorker}
<1>1. /\ TypeOK /\ Sound(state, resource, count, run) /\ t \in Action /\ Task \subseteq Action
      /\ Take("COMPLETED", t) /\ UNCHANGED <<deps, submitted, workers, blocked, faults>>
      /\ preds' = [s \in Task |-> preds[s] \ {t}]
      /\ reported' = [reported EXCEPT ![t] = "FINISHED"]
  BY DEF IInv, Action, TaskCompleted, taskVars
<1>2. /\ state[t] = "RUNNING" /\ resource[t] \in Workers /\ preds[t] = {}
      /\ tdQueue' \in Seq(Request)
  BY <1>1, EndsOn DEF EndTypes
<1>3. PICK w, st, res, counts, rn :
        /\ w = resource[t] /\ st = [state EXCEPT ![t] = "FINISHED"] /\ res = resource
        /\ counts = Release(count, w, t) /\ rn = run
  OBVIOUS
<1>4. PICK resumed, running :
        /\ resumed \in Resumed(w, counts)
        /\ running \in Launched(free, res, resumed, counts)
        /\ Become(st, res, counts, rn, resumed, free, running)
  BY <1>3 DEF TaskCompleted
<1>5. /\ st \in [Action -> States] /\ st[t] = "FINISHED"
      /\ \A a \in Action : a # t => st[a] = state[a]
  BY <1>1, <1>3 DEF TypeOK, States
<1>6. w \in Workers /\ counts \in Counts /\ GivesBack(t, st, counts)
  BY <1>1, <1>2, <1>3, ReleaseGivesBack DEF GivesBack
<1>7. Dependencies(state)
  BY <1>1 DEF Sound
<1>8. /\ preds' \in [Task -> SUBSET Task] /\ deps' \in [Task -> SUBSET Task]
      /\ \A s \in Task : preds'[s] = preds[s] \ {t} /\ deps'[s] = deps[s]
      /\ \A s \in Task : preds[s] \subseteq Task /\ deps[s] \subseteq Task
  BY <1>1, <1>7 DEF Dependencies
<1>9. Dependencies(st)'
  <2>1. ASSUME NEW s \in Task
        PROVE  /\ st[s] \in {"none", "WAITING", "RUNNING", "FINISHED"} => preds'[s] = {}
               /\ st[s] = "FAILED" => preds'[s] = {} \/ \E p \in preds'[s] : st[p] = "FAILED"
               /\ st[s] # "none" => \A p \in deps'[s] : st[p] \in {"FINISHED", "FAILED"} \/ p \in preds'[s]
    <3>1. \A p \in Task : state[p] \in {"FINISHED", "FAILED"} => st[p] = state[p] /\ p # t
      BY <1>1, <1>2, <1>5
    <3>2. \A p \in Task : p # t => st[p] = state[p]
      BY <1>1, <1>5
    <3>3. /\ state[s] \in {"none", "WAITING", "RUNNING", "FINISHED"} => preds[s] = {}
          /\ state[s] = "FAILED" => preds[s] = {} \/ \E p \in preds[s] : state[p] = "FAILED"
          /\ state[s] # "none" => \A p \in deps[s] : state[p] \in {"FINISHED", "FAILED"} \/ p \in preds[s]
      BY <1>7 DEF Dependencies
    <3>4. st[s] # "none" => state[s] # "none"
      BY <1>2, <3>2
    <3>5. st[s] # "none" => \A p \in deps'[s] : st[p] \in {"FINISHED", "FAILED"} \/ p \in preds'[s]
      BY <1>5, <1>8, <3>1, <3>3, <3>4
    <3>6. st[s] = "FAILED" => preds'[s] = {} \/ \E p \in preds'[s] : st[p] = "FAILED"
      BY <1>5, <1>8, <3>1, <3>2, <3>3
    <3>7. st[s] \in {"none", "WAITING", "RUNNING", "FINISHED"} => preds'[s] = {}
      BY <1>2, <1>5, <1>8, <3>2, <3>3
    <3> QED BY <3>5, <3>6, <3>7
  <2> QED BY <1>8, <2>1 DEF Dependencies
<1>10. /\ Sound(st, res, counts, rn)' /\ Ledger(st, res, counts)
       /\ \A v \in Workers : v # w => Undisturbed(st, res, counts, v)
       /\ \A b \in Action : st[b] = "WAITING" => state[b] = "WAITING"
  BY <1>1, <1>3, <1>5, <1>6, <1>9, EndSound DEF EndTypes
<1>11. free \in SUBSET Task
       /\ \A s \in free : st[s] = "RUNNABLE" /\ preds'[s] = {} /\ res[s] # NoWorker
  <2>1. ASSUME NEW s \in free
        PROVE  s \in Task /\ st[s] = "RUNNABLE" /\ preds'[s] = {} /\ res[s] # NoWorker
    <3>1. s \in Task /\ preds[s] = {t} /\ res[s] # NoWorker
      BY <1>3 DEF Successors
    <3>2. state[s] \in States /\ s # t
      BY <1>1, <1>2, <3>1 DEF TypeOK
    <3>3. state[s] = "RUNNABLE"
      BY <1>2, <1>7, <3>1, <3>2 DEF Dependencies, States
    <3> QED BY <1>1, <1>5, <1>8, <3>1, <3>2, <3>3
  <2> QED BY <2>1
<1>12. Keeping(st, res, free)
  <2> SUFFICES ASSUME NEW s \in Task, st[s] = "RUNNABLE", s \notin free
               PROVE  \/ s \in blocked' /\ workers' \subseteq tried[s]
                      \/ preds'[s] # {} /\ res[s] # NoWorker
    BY DEF Keeping
  <2>1. state[s] = "RUNNABLE" /\ s # t
    BY <1>1, <1>5
  <2>2. (s \in blocked /\ workers \subseteq tried[s]) \/ (preds[s] # {} /\ resource[s] # NoWorker)
    BY <2>1 DEF IInv, Kept
  <2>3. resource[s] # NoWorker => preds[s] # {t}
    BY DEF Successors
  <2> QED BY <1>1, <1>3, <1>8, <2>2, <2>3
<1> HIDE DEF free
<1>13. /\ resumed \subseteq Task /\ running \subseteq free
       /\ \A a \in resumed : state[a] = "WAITING"
       /\ \A v \in Workers : Cardinality(LaunchedAt(resumed, running, res, v)) <= Room(counts[v])
  <2>1. running \in Launched(free, res, resumed, counts) /\ free \in SUBSET Task
    BY <1>4, <1>11
  <2>2. resumed = {} \/ resumed \in Resumed(w, counts)
    BY <1>4
  <2> QED BY <1>3, <1>6, <2>1, <2>2, LaunchFits, ZenonT(40)
<1>14. \A a \in resumed : st[a] = "WAITING"
  BY <1>1, <1>2, <1>5, <1>13
<1>15. Filled(st, res, counts, resumed, free, running)
  <2>1. running \in Launched(free, res, resumed, counts) /\ free \in SUBSET Task
    BY <1>4, <1>11
  <2>2. resumed = {} \/ resumed \in Resumed(w, counts)
    BY <1>4
  <2>3. resumed \cap free = {}
    BY <1>11, <1>14
  <2>4. \A a \in Action : state[a] = "WAITING" => res[a] = resource[a]
    BY <1>3
  <2>5. \A v \in Workers : Undisturbed(st, res, counts, v) \/ (v = w /\ resumed \in Resumed(w, counts))
    BY <1>4, <1>10
  <2> QED BY <1>6, <1>10, <2>1, <2>2, <2>3, <2>4, <2>5, LaunchFills
<1>16. Change(st, res, counts, rn, resumed, free, running)
  BY <1>4, <1>11, <1>13, <1>14, <1>12, <1>15 DEF Change
<1> QED BY <1>1, <1>2, <1>10, <1>16, DispatchKeeps DEF TypeOK

\* The end of an action that no other one waits for: it only resumes those that wait for
\* room, and hands over nothing.
LEMMA ResumeInv ==
    ASSUME IInv, NEW a \in Action, NEW type \in EndTypes, Take(type, a),
           UNCHANGED <<deps, submitted, workers, preds, faults>>,
           NEW st \in [Action -> States], st[a] \in {"FINISHED", "FAILED", "RUNNABLE"},
           \A b \in Action : b # a => \/ st[b] = state[b]
                                      \/ state[b] \in {"RUNNABLE", "FAILED"} /\ st[b] = "FAILED",
           \A b \in Task : st[b] = "FAILED" /\ state[b] # "FAILED" =>
                              preds[b] = {} \/ \E p \in preds[b] : st[p] = "FAILED",
           NEW counts, GivesBack(a, st, counts),
           a \in Task => st[a] # "RUNNABLE", blocked \subseteq blocked',
           NEW before \in Counts, NEW resumed \in Resumed(resource[a], before),
           GivesBack(a, st, before), before = counts \/ \E b \in Action : st[b] = "FAILED",
           \A w \in Workers : before[w].used >= counts[w].used /\ before[w].available <= counts[w].available,
           Become(st, resource, counts, run, resumed, {}, {}),
           blocked' \subseteq Task, reported' \in [Task -> {"none", "FINISHED", "FAILED"}]
    PROVE  IInv'
<1>1. /\ TypeOK /\ Sound(state, resource, count, run) /\ Dependencies(state)
      /\ Task \subseteq Action
  BY DEF IInv, Sound, Action
<1>2. /\ state[a] = "RUNNING" /\ resource[a] \in Workers /\ (a \in Task => preds[a] = {})
      /\ tdQueue' \in Seq(Request)
  BY EndsOn
<1>3. PICK w, res, rn : w = resource[a] /\ res = resource /\ rn = run
  OBVIOUS
<1>4. Dependencies(st)'
  <2>1. /\ preds' \in [Task -> SUBSET Task] /\ deps' \in [Task -> SUBSET Task]
        /\ preds' = preds /\ deps' = deps
    BY <1>1 DEF Dependencies
  <2>2. ASSUME NEW s \in Task
        PROVE  /\ st[s] \in {"none", "WAITING", "RUNNING", "FINISHED"} => preds'[s] = {}
               /\ st[s] = "FAILED" => preds'[s] = {} \/ \E p \in preds'[s] : st[p] = "FAILED"
               /\ st[s] # "none" => \A p \in deps'[s] : st[p] \in {"FINISHED", "FAILED"} \/ p \in preds'[s]
    <3>1. \A p \in Task : state[p] \in {"FINISHED", "FAILED"} => st[p] \in {"FINISHED", "FAILED"}
      BY <1>1, <1>2
    <3>2. \A p \in Task : state[p] = "FAILED" => st[p] = "FAILED"
      BY <1>1, <1>2
    <3>3. /\ state[s] \in {"none", "WAITING", "RUNNING", "FINISHED"} => preds[s] = {}
          /\ state[s] = "FAILED" => preds[s] = {} \/ \E p \in preds[s] : state[p] = "FAILED"
          /\ state[s] # "none" => \A p \in deps[s] : state[p] \in {"FINISHED", "FAILED"} \/ p \in preds[s]
      BY <1>1 DEF Dependencies
    <3>4. preds[s] \subseteq Task /\ deps[s] \subseteq Task
      BY <1>1 DEF Dependencies
    <3>5. st[s] # "none" => state[s] # "none"
      BY <1>1, <1>2
    <3>6. st[s] # "none" => \A p \in deps'[s] : st[p] \in {"FINISHED", "FAILED"} \/ p \in preds'[s]
      BY <2>1, <3>1, <3>3, <3>4, <3>5
    <3>7. st[s] = "FAILED" => preds'[s] = {} \/ \E p \in preds'[s] : st[p] = "FAILED"
      BY <2>1, <3>2, <3>3, <3>4
    <3>8. st[s] \in {"none", "WAITING", "RUNNING", "FINISHED"} => preds'[s] = {}
      BY <1>1, <1>2, <2>1, <3>3
    <3> QED BY <3>6, <3>7, <3>8
  <2> QED BY <2>1, <2>2 DEF Dependencies
<1>5. /\ Sound(st, res, counts, rn)'
      /\ \A v \in Workers : v # w => Undisturbed(st, res, counts, v)
      /\ \A b \in Action : st[b] = "WAITING" => state[b] = "WAITING"
  BY <1>3, <1>4, EndSound
<1>6. Ledger(st, res, before)
  BY <1>3, <1>4, EndSound
<1>7. /\ resumed \subseteq Task
      /\ \A b \in resumed : state[b] = "WAITING"
      /\ \A v \in Workers : Cardinality(LaunchedAt(resumed, {}, res, v)) <= Room(counts[v])
  <2>1. resumed = {} \/ resumed \in Resumed(w, before)
    BY <1>3
  <2>2. \A b \in resumed : res[b] = resource[b]
    BY <1>3
  <2>3. w \in Workers
    BY <1>2, <1>3
  <2>4. /\ resumed \subseteq Task
        /\ \A b \in resumed : state[b] = "WAITING"
        /\ \A v \in Workers : Cardinality(LaunchedAt(resumed, {}, res, v)) <= Room(before[v])
    BY <2>1, <2>2, <2>3, LaunchFits, ZenonT(40)
  <2>5. ASSUME NEW v \in Workers
        PROVE  Cardinality(LaunchedAt(resumed, {}, res, v)) <= Room(counts[v])
    <3>1. Room(before[v]) <= Room(counts[v]) /\ Room(before[v]) \in Nat /\ Room(counts[v]) \in Nat
      <4>1. /\ before[v].used \in Int /\ before[v].available \in Int
            /\ counts[v].used \in Int /\ counts[v].available \in Int
        BY DEF Counts, GivesBack
      <4> QED BY <4>1, RoomGrows, RoomOf
    <3>2. LaunchedAt(resumed, {}, res, v) \subseteq Action
      BY <1>1, <2>4 DEF LaunchedAt
    <3>3. Cardinality(LaunchedAt(resumed, {}, res, v)) \in Nat
      BY <3>2, FiniteCount
    <3> QED BY <2>4, <3>1, <3>3
  <2> QED BY <2>4, <2>5
<1>8. \A b \in resumed : st[b] = "WAITING"
  BY <1>1, <1>2, <1>7
<1>9. Filled(st, res, counts, resumed, {}, {})
  <2>1. resumed = {} \/ resumed \in Resumed(w, before)
    BY <1>3
  <2>2. {} \in SUBSET Task /\ resumed \cap {} = {} /\ w \in Workers /\ counts \in Counts
    BY <1>2, <1>3 DEF GivesBack
  <2>3. \A b \in Action : state[b] = "WAITING" => res[b] = resource[b]
    BY <1>3
  <2>4. \A v \in Workers : Undisturbed(st, res, counts, v) \/ (v = w /\ resumed \in Resumed(w, before))
    BY <1>3, <1>5
  <2> QED BY <1>5, <1>6, <2>1, <2>2, <2>3, <2>4, LaunchFills
<1>10. Keeping(st, res, {})
  <2> SUFFICES ASSUME NEW s \in Task, st[s] = "RUNNABLE"
               PROVE  \/ s \in blocked' /\ workers' \subseteq tried[s]
                      \/ preds'[s] # {} /\ res[s] # NoWorker
    BY DEF Keeping
  <2>1. state[s] = "RUNNABLE"
    BY <1>1
  <2> QED BY <1>3, <2>1 DEF IInv, Kept
<1>11. Change(st, res, counts, rn, resumed, {}, {})
  BY <1>3, <1>7, <1>8, <1>9, <1>10 DEF Change
<1> QED BY <1>1, <1>2, <1>5, <1>11, DispatchKeeps DEF TypeOK

\* A task without successors fails for good (errorOnAction).
LEMMA TaskFailedInv ==
    ASSUME IInv, NEW t \in Task, TaskFailed(t)
    PROVE  IInv'
<1>1. /\ TypeOK /\ count \in Counts /\ t \in Action /\ Take("ERROR", t)
      /\ UNCHANGED <<deps, submitted, workers, preds, faults>>
      /\ blocked' = blocked \cup {t} /\ reported' = [reported EXCEPT ![t] = "FAILED"]
  BY DEF IInv, Sound, Action, TaskFailed, taskVars, AddToBlocked
<1>2. resource[t] \in Workers /\ preds[t] = {}
  BY <1>1, EndsOn DEF EndTypes
<1>3. PICK st, before, counts :
        /\ st = [state EXCEPT ![t] = "FAILED"]
        /\ before = Release(count, resource[t], t)
        /\ counts = Release(before, resource[t], t)
  OBVIOUS
<1>4. PICK resumed \in Resumed(resource[t], before) : Become(st, resource, counts, run, resumed, {}, {})
  BY <1>3 DEF TaskFailed
<1>5. /\ before \in Counts /\ GivesBack(t, st, before) /\ GivesBack(t, st, counts)
      /\ \A v \in Workers : before[v].used >= counts[v].used /\ before[v].available <= counts[v].available
  <2>1. before \in Counts
    BY <1>1, <1>2, <1>3, Released
  <2>2. counts \in Counts
    BY <1>1, <1>2, <1>3, <2>1, Released
  <2>3. /\ Needs(t) \in Nat
        /\ counts[resource[t]].used = before[resource[t]].used - 1
        /\ counts[resource[t]].available = before[resource[t]].available + Needs(t)
        /\ before[resource[t]].used = count[resource[t]].used - 1
        /\ before[resource[t]].available = count[resource[t]].available + Needs(t)
        /\ \A v \in Workers : v # resource[t] => counts[v] = before[v] /\ before[v] = count[v]
    BY <1>1, <1>2, <1>3, <2>1, Released
  <2>4. \A v \in Workers : /\ before[v].used \in Int /\ before[v].available \in Int
                           /\ count[v].used \in Int /\ count[v].available \in Int
    BY <1>1, <2>1 DEF Counts
  <2>5. st[t] = "FAILED"
    BY <1>1, <1>3 DEF TypeOK
  <2>6. GivesBack(t, st, counts)
    BY <1>1, <1>2, <2>2, <2>3, <2>4, <2>5 DEF GivesBack
  <2>7. GivesBack(t, st, before)
    BY <1>1, <1>2, <1>3, ReleaseGivesBack
  <2> QED BY <2>1, <2>3, <2>4, <2>6, <2>7
<1>6. /\ st \in [Action -> States] /\ st[t] = "FAILED"
      /\ \A b \in Action : b # t => st[b] = state[b]
  BY <1>1, <1>3 DEF TypeOK, States
<1>7. \A b \in Task : st[b] = "FAILED" /\ state[b] # "FAILED" =>
                              preds[b] = {} \/ \E p \in preds[b] : st[p] = "FAILED"
  BY <1>2, <1>6 DEF Action
<1>8. blocked' \subseteq Task /\ reported' \in [Task -> {"none", "FINISHED", "FAILED"}]
  BY <1>1 DEF TypeOK
<1>9. "ERROR" \in EndTypes
  BY DEF EndTypes
<1> QED BY <1>1, <1>4, <1>5, <1>6, <1>7, <1>8, <1>9, ResumeInv

\* A task with successors fails for good, and the handler ends half-way.
LEMMA TaskFailsWithSuccessorsInv ==
    ASSUME IInv, NEW t \in Task, TaskFailsWithSuccessors(t)
    PROVE  IInv'
<1>1. /\ TypeOK /\ count \in Counts /\ t \in Action /\ Take("ERROR", t)
      /\ UNCHANGED <<deps, submitted, workers, preds, faults, reported>>
      /\ blocked' = blocked \cup {t} /\ Successors(t) # {} /\ Task \subseteq Action
      /\ Dependencies(state)
  BY DEF IInv, Sound, Action, TaskFailsWithSuccessors, taskVars, AddToBlocked
<1>2. resource[t] \in Workers /\ preds[t] = {} /\ state[t] = "RUNNING"
  BY <1>1, EndsOn DEF EndTypes
<1>3. PICK first, st, before, again, counts :
        /\ first = Min(Successors(t))
        /\ st = [state EXCEPT ![t] = "FAILED", ![first] = "FAILED"]
        /\ before = Release(count, resource[t], t)
        /\ again = Release(before, resource[t], t)
        /\ counts = IF resource[first] = NoWorker THEN again
                    ELSE [again EXCEPT ![resource[first]].used = @ - 1]
  OBVIOUS
<1>4. PICK resumed \in Resumed(resource[t], before) : Become(st, resource, counts, run, resumed, {}, {})
  BY <1>3 DEF TaskFailsWithSuccessors
<1>5. first \in Task /\ t \in preds[first] /\ first # t /\ state[first] \in {"RUNNABLE", "FAILED"}
  <2>1. first \in Successors(t)
    BY <1>1, <1>3, MinOfSet, ExecutionAssumption DEF Successors, Task
  <2>2. first \in Task /\ t \in preds[first]
    BY <2>1 DEF Successors
  <2>3. state[first] \in States
    BY <1>1, <2>2 DEF TypeOK
  <2> QED BY <1>1, <1>2, <2>2, <2>3 DEF Dependencies, States
<1>6. /\ before \in Counts /\ GivesBack(t, st, before) /\ GivesBack(t, st, counts)
      /\ \A v \in Workers : before[v].used >= counts[v].used /\ before[v].available <= counts[v].available
  <2>1. before \in Counts
    BY <1>1, <1>2, <1>3, Released
  <2>2. again \in Counts
    BY <1>1, <1>2, <1>3, <2>1, Released
  <2>3. /\ Needs(t) \in Nat
        /\ again[resource[t]].used = before[resource[t]].used - 1
        /\ again[resource[t]].available = before[resource[t]].available + Needs(t)
        /\ before[resource[t]].used = count[resource[t]].used - 1
        /\ before[resource[t]].available = count[resource[t]].available + Needs(t)
        /\ \A v \in Workers : v # resource[t] => again[v] = before[v] /\ before[v] = count[v]
    BY <1>1, <1>2, <1>3, <2>1, Released
  <2>4. \A v \in Workers : /\ before[v].used \in Int /\ before[v].available \in Int
                           /\ again[v].used \in Int /\ again[v].available \in Int
                           /\ count[v].used \in Int /\ count[v].available \in Int
    BY <1>1, <2>1, <2>2 DEF Counts
  <2>5. /\ counts \in Counts
        /\ \A v \in Workers : counts[v].used <= again[v].used /\ counts[v].available = again[v].available
    <3>1. CASE resource[first] = NoWorker
      BY <1>3, <2>2, <2>4, <3>1
    <3>2. CASE resource[first] # NoWorker
      <4>1. resource[first] \in Workers
        BY <1>1, <1>5, <3>2 DEF TypeOK
      <4>2. counts = [again EXCEPT ![resource[first]].used = @ - 1]
        BY <1>3, <3>2
      <4>3. \A v \in Workers : again[v] \in [used : Int, available : Int]
        BY <2>2 DEF Counts
      <4>4. /\ DOMAIN counts = Workers
            /\ \A v \in Workers : v # resource[first] => counts[v] = again[v]
        BY <2>2, <4>1, <4>2 DEF Counts
      <4>5. counts[resource[first]] = [again[resource[first]] EXCEPT !.used = again[resource[first]].used - 1]
        BY <2>2, <4>1, <4>2 DEF Counts
      <4>6. /\ counts[resource[first]] \in [used : Int, available : Int]
            /\ counts[resource[first]].used = again[resource[first]].used - 1
            /\ counts[resource[first]].available = again[resource[first]].available
        BY <4>1, <4>3, <4>5
      <4>7. counts = [v \in Workers |-> counts[v]]
        BY <2>2, <4>2, <4>4 DEF Counts
      <4>8. \A v \in Workers : counts[v] \in [used : Int, available : Int]
        BY <4>3, <4>4, <4>6
      <4>9. counts \in Counts
        BY <4>7, <4>8 DEF Counts
      <4> QED BY <2>4, <4>4, <4>6, <4>9
    <3> QED BY <3>1, <3>2
  <2>6. \A v \in Workers : counts[v].used \in Int
    BY <2>5 DEF Counts
  <2>7. st[t] = "FAILED"
    BY <1>1, <1>3 DEF TypeOK
  <2>8. GivesBack(t, st, counts)
    BY <1>1, <1>2, <2>3, <2>4, <2>5, <2>6, <2>7 DEF GivesBack
  <2>9. GivesBack(t, st, before)
    BY <1>1, <1>2, <1>3, ReleaseGivesBack
  <2> QED BY <2>1, <2>3, <2>4, <2>5, <2>6, <2>8, <2>9
<1>7. /\ st \in [Action -> States] /\ st[t] = "FAILED" /\ st[first] = "FAILED"
      /\ \A b \in Action : b # t /\ b # first => st[b] = state[b]
  BY <1>1, <1>3, <1>5 DEF TypeOK, States
<1>8. \A b \in Task : st[b] = "FAILED" /\ state[b] # "FAILED" =>
                              preds[b] = {} \/ \E p \in preds[b] : st[p] = "FAILED"
  BY <1>1, <1>2, <1>5, <1>7
<1>9. blocked' \subseteq Task /\ reported' \in [Task -> {"none", "FINISHED", "FAILED"}]
  BY <1>1 DEF TypeOK
<1>10. "ERROR" \in EndTypes
  BY DEF EndTypes
<1> QED BY <1>1, <1>4, <1>5, <1>6, <1>7, <1>8, <1>9, <1>10, ResumeInv

\* A worker cannot be started.
LEMMA WorkerNotStartedInv ==
    ASSUME IInv, NEW w \in Workers, WorkerNotStarted(w)
    PROVE  IInv'
<1>1. /\ TypeOK /\ count \in Counts /\ w \in Action /\ Take("ERROR", w) /\ w \notin Task
      /\ UNCHANGED <<deps, submitted, workers, preds, faults, blocked, reported>>
  BY ExecutionAssumption DEF IInv, Sound, Action, WorkerNotStarted, taskVars
<1>2. resource[w] = w
  BY <1>1, EndsOn DEF EndTypes
<1>3. PICK st, counts : st = [state EXCEPT ![w] = "RUNNABLE"] /\ counts = Release(count, w, w)
  OBVIOUS
<1>4. PICK resumed \in Resumed(w, counts) : Become(st, resource, counts, run, resumed, {}, {})
  BY <1>3 DEF WorkerNotStarted
<1>5. counts \in Counts /\ GivesBack(w, st, counts)
  BY <1>1, <1>2, <1>3, ReleaseGivesBack DEF GivesBack
<1>6. \A v \in Workers : counts[v].used >= counts[v].used /\ counts[v].available <= counts[v].available
  BY <1>5 DEF Counts
<1>7. /\ st \in [Action -> States] /\ st[w] = "RUNNABLE"
      /\ \A b \in Action : b # w => st[b] = state[b]
  BY <1>1, <1>3 DEF TypeOK, States
<1>8. \A b \in Task : st[b] = "FAILED" /\ state[b] # "FAILED" =>
                              preds[b] = {} \/ \E p \in preds[b] : st[p] = "FAILED"
  BY <1>1, <1>7 DEF Action
<1>9. blocked' \subseteq Task /\ reported' \in [Task -> {"none", "FINISHED", "FAILED"}]
      /\ "ERROR" \in EndTypes
  BY <1>1 DEF TypeOK, EndTypes
<1> QED BY <1>1, <1>2, <1>4, <1>5, <1>6, <1>7, <1>8, <1>9, ResumeInv

\* A task is scheduled again after an error.
LEMMA TaskRescheduledInv ==
    ASSUME IInv, NEW t \in Task, TaskRescheduled(t)
    PROVE  IInv'
<1>1. /\ TypeOK /\ Sound(state, resource, count, run) /\ t \in Action /\ Take("ERROR", t)
      /\ UNCHANGED <<deps, submitted, workers, preds, faults, reported>>
      /\ workers \subseteq Workers
  BY DEF IInv, TypeOK, Action, TaskRescheduled, taskVars
<1>2. /\ resource[t] \in Workers /\ preds[t] = {} /\ state[t] = "RUNNING"
      /\ tdQueue' \in Seq(Request)
  BY <1>1, EndsOn DEF EndTypes
<1>3. PICK w0, st, res0, counts, rn, free :
        /\ w0 = resource[t] /\ st = [state EXCEPT ![t] = "RUNNABLE"] /\ res0 = resource
        /\ counts = Release(count, w0, t) /\ rn = run /\ free = {t}
  OBVIOUS
<1>4. PICK resumed \in Resumed(w0, counts) : Schedule(t, st, counts, resumed, TRUE)
  BY <1>3 DEF TaskRescheduled
<1>5. /\ st \in [Action -> States] /\ st[t] = "RUNNABLE"
      /\ \A a \in Action : a # t => st[a] = state[a]
  BY <1>1, <1>3 DEF TypeOK, States
<1>6. w0 \in Workers /\ counts \in Counts /\ GivesBack(t, st, counts)
  BY <1>1, <1>2, <1>3, ReleaseGivesBack DEF GivesBack
<1>7. Dependencies(st)'
  <2>1. Dependencies(state)
    BY <1>1 DEF Sound
  <2>2. /\ preds' \in [Task -> SUBSET Task] /\ deps' \in [Task -> SUBSET Task]
        /\ preds' = preds /\ deps' = deps /\ Task \subseteq Action
    BY <1>1, <2>1 DEF Dependencies, Action
  <2>3. ASSUME NEW s \in Task
        PROVE  /\ st[s] \in {"none", "WAITING", "RUNNING", "FINISHED"} => preds'[s] = {}
               /\ st[s] = "FAILED" => preds'[s] = {} \/ \E p \in preds'[s] : st[p] = "FAILED"
               /\ st[s] # "none" => \A p \in deps'[s] : st[p] \in {"FINISHED", "FAILED"} \/ p \in preds'[s]
    <3>1. \A p \in Task : state[p] \in {"FINISHED", "FAILED"} => st[p] = state[p]
      BY <1>2, <1>5, <2>2
    <3>2. preds[s] \subseteq Task /\ deps[s] \subseteq Task
      BY <2>1 DEF Dependencies
    <3>3. /\ state[s] \in {"none", "WAITING", "RUNNING", "FINISHED"} => preds[s] = {}
          /\ state[s] = "FAILED" => preds[s] = {} \/ \E p \in preds[s] : state[p] = "FAILED"
          /\ state[s] # "none" => \A p \in deps[s] : state[p] \in {"FINISHED", "FAILED"} \/ p \in preds[s]
      BY <2>1 DEF Dependencies
    <3>4. st[s] # "none" => state[s] # "none"
      BY <1>2, <1>5, <2>2
    <3>5. st[s] # "none" => \A p \in deps'[s] : st[p] \in {"FINISHED", "FAILED"} \/ p \in preds'[s]
      BY <2>2, <3>1, <3>2, <3>3, <3>4
    <3>6. st[s] = "FAILED" => preds'[s] = {} \/ \E p \in preds'[s] : st[p] = "FAILED"
      BY <1>5, <2>2, <3>1, <3>2, <3>3
    <3>7. st[s] \in {"none", "WAITING", "RUNNING", "FINISHED"} => preds'[s] = {}
      BY <1>2, <1>5, <2>2, <3>3
    <3> QED BY <3>5, <3>6, <3>7
  <2> QED BY <2>2, <2>3 DEF Dependencies
<1>8. /\ Sound(st, res0, counts, rn)' /\ Ledger(st, res0, counts)
      /\ \A v \in Workers : v # resource[t] => Undisturbed(st, res0, counts, v)
  <2>1. "ERROR" \in EndTypes /\ \A b \in Action : b # t => st[b] = state[b]
    BY <1>5 DEF EndTypes
  <2> QED BY <1>1, <1>3, <1>5, <1>6, <1>7, <2>1, EndSound
<1>9. Scheduling(t, st, counts, resumed, free)
  BY <1>3, <1>4 DEF Schedule, Scheduling
<1>10. blocked' \subseteq Task /\ Scheduled(t, st, counts, resumed)
  <2>1. /\ (free = {} /\ preds'[t] # {}) \/ (free = {t} /\ preds'[t] = {})
        /\ workers' = workers /\ \A s \in Task : s # t => preds'[s] = preds[s]
    BY <1>1, <1>2, <1>3
  <2>2. resumed = {} \/ resumed \in Resumed(w0, counts)
    BY <1>4
  <2>3. state[t] # "WAITING" /\ Ledger(st, resource, counts)
    BY <1>2, <1>3, <1>8
  <2>4. \A v \in Workers : Undisturbed(st, resource, counts, v) \/ (v = w0 /\ resumed \in Resumed(w0, counts))
    BY <1>3, <1>4, <1>8
  <2> QED BY <1>5, <1>6, <1>9, <2>1, <2>2, <2>3, <2>4, ScheduleChanges
<1>11. PICK res, launched, running :
             /\ res \in [Action -> Workers \cup {NoWorker}]
             /\ Change(st, res, counts, rn, resumed, launched, running)
             /\ \A a \in Action : res[a] = res0[a] \/ (a = t /\ res[a] \in workers)
  BY <1>3, <1>10 DEF Scheduled
<1>12. Sound(st, res, counts, rn)'
  BY <1>1, <1>5, <1>8, <1>11, Reassigned
<1> QED BY <1>1, <1>2, <1>10, <1>11, <1>12, DispatchKeeps DEF TypeOK

\* A worker has started, and the blocked actions are scheduled.
LEMMA WorkerStartedInv ==
    ASSUME IInv, NEW w \in Workers, WorkerStarted(w)
    PROVE  IInv'
<1>1. /\ TypeOK /\ Sound(state, resource, count, run) /\ w \in Action /\ Take("COMPLETED", w)
      /\ UNCHANGED <<deps, submitted, workers, preds, faults, reported>>
      /\ workers \in SUBSET Workers /\ w \notin Task /\ Task \subseteq Action
  BY ExecutionAssumption DEF IInv, TypeOK, Action, WorkerStarted, taskVars
<1>2. state[w] = "RUNNING" /\ resource[w] = w /\ tdQueue' \in Seq(Request)
  BY <1>1, EndsOn DEF EndTypes
<1>3. PICK st, res0, counts, rn, known :
        /\ st = [state EXCEPT ![w] = "FINISHED"] /\ res0 = resource
        /\ counts = Release(count, w, w) /\ rn = run /\ known = workers
  OBVIOUS
<1>4. PICK resumed \in Resumed(w, counts) : ScheduleBlocked(known, st, res0, counts, rn, resumed)
  BY <1>3 DEF WorkerStarted
<1>5. /\ st \in [Action -> States] /\ st[w] = "FINISHED"
      /\ \A a \in Action : a # w => st[a] = state[a]
  BY <1>1, <1>3 DEF TypeOK, States
<1>6. counts \in Counts /\ GivesBack(w, st, counts)
  BY <1>1, <1>2, <1>3, ReleaseGivesBack DEF GivesBack
<1>7. \A t \in Task : st[t] = state[t] /\ res0[t] = resource[t]
  BY <1>1, <1>3, <1>5
<1>8. Dependencies(st)'
  <2>1. Dependencies(state)
    BY <1>1 DEF Sound
  <2>2. \A t \in Task : preds[t] \subseteq Task /\ deps[t] \subseteq Task
    BY <2>1 DEF Dependencies
  <2> QED BY <1>1, <1>7, <2>1, <2>2 DEF Dependencies
<1>9. /\ Sound(st, res0, counts, rn)' /\ Ledger(st, res0, counts)
      /\ \A v \in Workers : v # resource[w] => Undisturbed(st, res0, counts, v)
  <2>1. "COMPLETED" \in EndTypes
    BY DEF EndTypes
  <2> QED BY <1>1, <1>3, <1>5, <1>6, <1>8, <2>1, EndSound
<1>10. blocked' \subseteq Task /\ Reassigning(known, st, res0, counts, rn, resumed)
  <2>1. resumed = {} \/ resumed \in Resumed(w, counts)
    BY <1>4
  <2>2. /\ res0 \in [Action -> Workers \cup {NoWorker}] /\ known \in SUBSET Workers
        /\ preds' = preds /\ workers' = known
    BY <1>1, <1>3 DEF TypeOK
  <2>3. \A v \in Workers : st[v] # "WAITING" /\ state[v] # "WAITING"
    BY <1>1, <1>5 DEF Sound, Placement, Action
  <2>4. \A v \in Workers : Undisturbed(st, res0, counts, v) \/ (v = w /\ resumed \in Resumed(w, counts))
    BY <1>2, <1>4, <1>9
  <2> QED BY <1>4, <1>6, <1>7, <1>9, <2>1, <2>2, <2>3, <2>4, ScheduleBlockedChanges
<1>11. PICK res1, free, running :
             /\ res1 \in [Action -> Workers \cup {NoWorker}]
             /\ Change(st, res1, counts, rn, resumed, free, running)
             /\ \A a \in Action : \/ res1[a] = res0[a]
                                  \/ a \in Task /\ st[a] = "RUNNABLE" /\ res1[a] \in known
  BY <1>10 DEF Reassigning
<1>12. Sound(st, res1, counts, rn)'
  <2>1. workers' \subseteq Workers /\ workers' = known
    BY <1>1, <1>3
  <2> QED BY <1>9, <1>11, <2>1, Reassigned
<1> QED BY <1>1, <1>2, <1>10, <1>11, <1>12, DispatchKeeps DEF TypeOK

\* A worker is inserted (updatedWorker).
LEMMA UpdatedWorkerInv ==
    ASSUME IInv, NEW w \in Workers, UpdatedWorker(w)
    PROVE  IInv'
<1>1. /\ TypeOK /\ Sound(state, resource, count, run) /\ w \in Action
      /\ UNCHANGED <<deps, submitted, preds, faults, reported, tdQueue>>
      /\ workers' = workers \cup {w} /\ workers' \in SUBSET Workers /\ w \notin workers
      /\ w \notin Task /\ Task \subseteq Action
  BY ExecutionAssumption DEF IInv, TypeOK, Action, UpdatedWorker, taskVars
<1>2. state[w] = "none" /\ Phase(state[w], run[w], UpdatesOf(w))
  BY <1>1 DEF Sound, Submissions, Phases
<1>3. PICK st, res0, counts, rn, known, resumed :
        /\ st = [state EXCEPT ![w] = "RUNNING"] /\ res0 = [resource EXCEPT ![w] = w]
        /\ counts = [count EXCEPT ![w] = [used |-> 1, available |-> Units - Needs(w)]]
        /\ rn = [run EXCEPT ![w] = DoAction(w)] /\ known = workers' /\ resumed = {}
  OBVIOUS
<1>4. ScheduleBlocked(known, st, res0, counts, rn, resumed)
  BY <1>3 DEF UpdatedWorker
<1>5. /\ st \in [Action -> States] /\ st[w] = "RUNNING"
      /\ \A a \in Action : a # w => st[a] = state[a]
  BY <1>1, <1>3 DEF TypeOK, States
<1>6. /\ res0 \in [Action -> Workers \cup {NoWorker}] /\ res0[w] = w
      /\ \A a \in Action : a # w => res0[a] = resource[a]
  BY <1>1, <1>3 DEF TypeOK
<1>7. /\ counts \in Counts /\ counts[w].available = 0
      /\ \A v \in Workers : v # w => counts[v] = count[v]
  <2>1. Needs(w) = Units /\ Units \in Nat
    BY SchedulerAssumption DEF Needs
  <2> QED BY <1>1, <1>3, <2>1 DEF Sound, Counts
<1>8. /\ rn \in [Action -> Run] /\ rn[w] = DoAction(w)
      /\ \A a \in Action : a # w => rn[a] = run[a]
      /\ ~Waits(DoAction(w)) /\ DoAction(w).jobs = 1 /\ DoAction(w).enabled
      /\ DoAction(w).toAdd = 0 /\ DoAction(w).operations = 0
  <2>1. DoAction(w) = [Idle EXCEPT !.jobs = 1]
    BY <1>1 DEF DoAction
  <2>2. /\ 0 \in 0 .. Operations /\ 0 \in 0 .. TransferChances - 1 /\ 0 \in 0 .. SubmissionChances - 1
    BY ExecutionAssumption
  <2>3. DoAction(w) \in Run
    BY <2>1, <2>2 DEF Idle, Run
  <2> QED BY <1>1, <1>3, <2>1, <2>3 DEF Idle, Waits, TypeOK, ExecutionTypeOK
<1>9. Sound(st, res0, counts, rn)'
  <2>1. Phases(st, rn)'
    <3> SUFFICES ASSUME NEW a \in Action
                 PROVE  Phase(st[a], rn[a], UpdatesOf(a)')
      BY DEF Phases
    <3>1. UpdatesOf(a)' = UpdatesOf(a)
      BY <1>1 DEF UpdatesOf
    <3>2. CASE a = w
      <4>1. UpdatesOf(w) = {}
        BY <1>2 DEF Phase
      <4> QED BY <1>5, <1>8, <3>1, <3>2, <4>1, ExecutionAssumption DEF Phase
    <3>3. CASE a # w
      BY <1>1, <1>5, <1>8, <3>1, <3>3 DEF Sound, Phases
    <3> QED BY <3>2, <3>3
  <2>2. Submissions(st)'
    <3>1. \A t \in Task : st[t] = state[t] /\ Ordered(t)' = Ordered(t)
      BY <1>1, <1>5 DEF Ordered
    <3>2. \A v \in Workers : v \notin workers' => v \notin workers /\ st[v] = state[v]
      BY <1>1, <1>5 DEF Action
    <3> QED BY <1>1, <3>1, <3>2 DEF Sound, Submissions
  <2>3. Dependencies(st)'
    <3>1. Dependencies(state)
      BY <1>1 DEF Sound
    <3>2. \A t \in Task : preds[t] \subseteq Task /\ deps[t] \subseteq Task /\ st[t] = state[t]
      BY <1>1, <1>5, <3>1 DEF Dependencies
    <3> QED BY <1>1, <3>1, <3>2 DEF Dependencies
  <2>4. Placement(st, res0, counts)'
    <3>1. Placement(state, resource, count)
      BY <1>1 DEF Sound
    <3>2. \A a \in Action : res0[a] \in workers' \cup {NoWorker}
      BY <1>1, <1>6, <3>1 DEF Placement
    <3>3. \A a \in Action : st[a] \in {"WAITING", "RUNNING"} => res0[a] # NoWorker
      BY <1>5, <1>6, <3>1, SchedulerAssumption DEF Placement
    <3>4. \A v \in Workers : st[v] # "WAITING"
      BY <1>5, <3>1 DEF Placement, Action
    <3>5. ASSUME NEW v \in Workers, st[v] = "RUNNING"
          PROVE  /\ res0[v] = v /\ counts[v].available = 0
                 /\ \A t \in Task : st[t] = "RUNNING" => res0[t] # v
      <4>1. CASE v = w
        <5>1. \A t \in Task : resource[t] # w
          BY <1>1, <3>1, SchedulerAssumption DEF Placement
        <5> QED BY <1>1, <1>6, <1>7, <4>1, <5>1
      <4>2. CASE v # w
        <5>1. v \in Action /\ state[v] = "RUNNING"
          BY <1>5, <3>5, <4>2 DEF Action
        <5>2. /\ resource[v] = v /\ count[v].available = 0
              /\ \A t \in Task : state[t] = "RUNNING" => resource[t] # v
          BY <3>1, <5>1 DEF Placement
        <5> QED BY <1>1, <1>5, <1>6, <1>7, <4>2, <5>1, <5>2
      <4> QED BY <4>1, <4>2
    <3> QED BY <3>2, <3>3, <3>4, <3>5 DEF Placement
  <2>5. Ledger(st, res0, counts)
    <3>1. Ledger(state, resource, count) /\ Placement(state, resource, count)
      BY <1>1 DEF Sound
    <3>2. PICK st1, res1 : st1 = state /\ res1 = resource
      OBVIOUS
    <3>3. ASSUME NEW v \in Workers, v # w
          PROVE  Runs(st, res0, v) = Runs(st1, res1, v) /\ Load(st, res0, v) = Load(st1, res1, v)
      <4>1. \A a \in Action : (st[a] = "RUNNING" /\ res0[a] = v) <=> (st1[a] = "RUNNING" /\ res1[a] = v)
        BY <1>2, <1>5, <1>6, <3>2, <3>3
      <4> QED BY <4>1, SameRuns
    <3>4. /\ Cardinality(Runs(st, res0, w)) = 1 /\ Load(st, res0, w) = Units
          /\ Units \in Nat /\ LimitOfTasks \in Nat \ {0}
      <4>1. \A a \in Action : resource[a] # w
        BY <1>1, <3>1, SchedulerAssumption DEF Placement
      <4>2. Runs(st, res0, w) = {w}
        BY <1>1, <1>5, <1>6, <4>1 DEF Runs
      <4>3. Runs(st, res0, w) \cap Task = {}
        BY <1>1, <4>2
      <4> QED BY <4>2, <4>3, FS_Singleton, FS_EmptySet, SchedulerAssumption, SMTT(20) DEF Load
    <3>5. counts[w].used = 1 /\ counts[w].available = 0
      BY <1>1, <1>3, <1>7 DEF Sound, Counts
    <3>6. (\A a \in Action : st[a] # "FAILED") => (\A a \in Action : state[a] # "FAILED")
      BY <1>2, <1>5
    <3> QED BY <1>7, <3>1, <3>2, <3>3, <3>4, <3>5, <3>6 DEF Ledger
  <2>6. Ledger(st, res0, counts)'
    BY <2>5 DEF Ledger, Runs, Load
  <2> QED BY <1>5, <1>6, <1>7, <1>8, <2>1, <2>2, <2>3, <2>4, <2>6 DEF Sound
<1>10. blocked' \subseteq Task /\ Reassigning(known, st, res0, counts, rn, resumed)
  <2>1. resumed = {} \/ resumed \in Resumed(w, counts)
    BY <1>3
  <2>2. /\ known \in SUBSET Workers /\ preds' = preds /\ workers' = known
        /\ \A t \in Task : st[t] = state[t] /\ res0[t] = resource[t]
    BY <1>1, <1>3, <1>5, <1>6
  <2>3. Placement(state, resource, count) /\ Ledger(st, res0, counts)
    BY <1>1, <1>9 DEF Sound
  <2>4. \A v \in Workers : st[v] # "WAITING" /\ state[v] # "WAITING"
    BY <1>5, <2>3 DEF Placement, Action
  <2>5. \A v \in Workers : v # w => Undisturbed(st, res0, counts, v)
    <3>1. \A a \in Action : state[a] \in {"RUNNING", "FAILED"} => st[a] = state[a] /\ res0[a] = resource[a]
      BY <1>2, <1>5, <1>6
    <3> QED BY <1>7, <3>1 DEF Undisturbed, Runs, Failures
  <2>6. resumed \in Resumed(w, counts)
    <3>1. \A a \in Action : resource[a] # w
      BY <1>1, <2>3, SchedulerAssumption DEF Placement
    <3>2. Waiting(w) = {} /\ Cardinality({}) = 0
      BY <3>1, FS_EmptySet DEF Waiting
    <3>3. counts[w].used \in Int /\ counts[w].available \in Int
      BY <1>7 DEF Counts
    <3>4. Room(counts[w]) = 0
      BY <1>7, <3>3, RoomOf
    <3>5. Min({Cardinality(Waiting(w)), Room(counts[w])}) = 0
      BY <3>2, <3>4, MinOfTwo
    <3> QED BY <1>3, <3>2, <3>5 DEF Resumed, kSubset
  <2> QED BY <1>4, <1>6, <1>7, <2>1, <2>2, <2>3, <2>4, <2>5, <2>6, ScheduleBlockedChanges
<1>11. PICK res1, free, running :
             /\ res1 \in [Action -> Workers \cup {NoWorker}]
             /\ Change(st, res1, counts, rn, resumed, free, running)
             /\ \A a \in Action : \/ res1[a] = res0[a]
                                  \/ a \in Task /\ st[a] = "RUNNABLE" /\ res1[a] \in known
  BY <1>10 DEF Reassigning
<1>12. Sound(st, res1, counts, rn)'
  <2>1. workers' \subseteq Workers /\ workers' = known
    BY <1>1, <1>3
  <2> QED BY <1>9, <1>11, <2>1, Reassigned
<1>13. tdQueue' \in Seq(Request)
  BY <1>1 DEF TypeOK, ExecutionTypeOK
<1> QED BY <1>1, <1>10, <1>11, <1>12, <1>13, DispatchKeeps DEF TypeOK

\* The steps of the executions change no decision of the scheduler.
LEMMA ExecutionInv ==
    ASSUME IInv, (\E t \in Task : ExecutionStep(t)) \/ (\E w \in Workers : StarterStep(w))
    PROVE  IInv'
<1>1. TypeOK /\ Sound(state, resource, count, run)
  BY DEF IInv
<1>2. ExecutionKept /\ faults' \in 0 .. MaxFaults
      /\ UNCHANGED <<taskVars, workers, state, resource, tried, count, preds, blocked, reported>>
  <2>1. ASSUME NEW t \in Task, ExecutionStep(t)
        PROVE  ExecutionKept /\ faults' \in 0 .. MaxFaults
               /\ UNCHANGED <<taskVars, workers, state, resource, tried, count, preds, blocked, reported>>
    <3>1. PICK down \in BOOLEAN : down <=> Down(resource[t])
      OBVIOUS
    <3>2. /\ \/ AddOperation(t) \/ Enable(t) \/ NotifyEnd(t) \/ Succeed(t)
             \/ NotifyFailure(t, Down(resource[t])) \/ FailedJob(t, Down(resource[t]))
          /\ UNCHANGED <<taskVars, workers, state, resource, tried, count, preds, blocked, reported>>
      BY <2>1 DEF ExecutionStep
    <3>3. t \in Action /\ UNCHANGED <<state, submitted, workers>>
      BY <3>2 DEF Action, taskVars
    <3>4. NotifyFailure(t, Down(resource[t])) => NotifyFailure(t, down)
      BY <3>1 DEF NotifyFailure, Fault
    <3>5. FailedJob(t, Down(resource[t])) => FailedJob(t, down)
      BY <3>1 DEF FailedJob, Fault
    <3> QED BY <1>1, <3>2, <3>3, <3>4, <3>5, RunSteps DEF Sound
  <2>2. ASSUME NEW w \in Workers, StarterStep(w)
        PROVE  ExecutionKept /\ faults' \in 0 .. MaxFaults
               /\ UNCHANGED <<taskVars, workers, state, resource, tried, count, preds, blocked, reported>>
    <3>1. /\ Succeed(w) \/ WorkerDoesNotStart(w)
          /\ UNCHANGED <<taskVars, workers, state, resource, tried, count, preds, blocked, reported>>
      BY <2>2 DEF StarterStep
    <3>2. w \in Action /\ UNCHANGED <<state, submitted, workers>>
      BY <3>1 DEF Action, taskVars
    <3> QED BY <1>1, <3>1, <3>2, RunSteps DEF Sound
  <2> QED BY <2>1, <2>2
<1>3. Dependencies(state)' /\ Placement(state, resource, count)'
  BY <1>1, <1>2 DEF Sound, Dependencies, Placement, taskVars
<1>4. Ledger(state, resource, count)' /\ WaitersHaveRunners' /\ Kept'
  BY <1>1, <1>2, LedgerStays, WaitersStay, KeptStays DEF IInv, Sound
<1> QED BY <1>1, <1>2, <1>3, <1>4 DEF IInv, TypeOK, ExecutionTypeOK, ExecutionKept, Sound, taskVars

\* The invariant holds at the start.
LEMMA InitInv == Init => IInv
<1> SUFFICES ASSUME Init
             PROVE  IInv
  OBVIOUS
<1>1. /\ tdQueue = << >> /\ run = [a \in Action |-> Idle] /\ faults = 0
      /\ state = [a \in Action |-> "none"] /\ submitted = 0
  BY DEF Init, ExecutionInit
<1>2. Idle \in Run /\ ~Waits(Idle) /\ Idle.jobs = 0 /\ Idle.toAdd = 0 /\ Idle.operations = 0
  <2>1. /\ 0 \in 0 .. Operations /\ 0 \in 0 .. TransferChances - 1 /\ 0 \in 0 .. SubmissionChances - 1
    BY ExecutionAssumption
  <2> QED BY <2>1 DEF Idle, Run, Waits
<1>3. count \in Counts
  BY SchedulerAssumption DEF Init, Counts
<1>4. TypeOK
  BY <1>1, <1>2, <1>3, ExecutionAssumption
     DEF Init, TypeOK, ExecutionTypeOK, States, Counts
<1>5. \A a \in Action : UpdatesOf(a) = {}
  BY <1>1 DEF UpdatesOf
<1>6. \A t \in Task : Ordered(t) = {}
  BY <1>1 DEF Ordered
<1>7. Phases(state, run)
  <2> SUFFICES ASSUME NEW a \in Action
               PROVE  Phase("none", Idle, UpdatesOf(a))
    BY <1>1 DEF Phases
  <2> QED BY <1>2, <1>5, ExecutionAssumption DEF Phase
<1>8. Submissions(state)
  <2>1. \A t \in Task : ~(t <= submitted) /\ t \in Action
    BY <1>1, ExecutionAssumption DEF Task, Action
  <2> QED BY <1>1, <1>6, <2>1 DEF Submissions, Action
<1>9. Dependencies(state)
  BY DEF Init, Dependencies, Action
<1>10. Placement(state, resource, count)
  BY DEF Init, Placement, Action
<1>11. Ledger(state, resource, count)
  <2> SUFFICES ASSUME NEW w \in Workers
               PROVE  /\ count[w].used = 0 /\ count[w].available = Units
                      /\ Cardinality(Runs(state, resource, w)) = 0 /\ Load(state, resource, w) = 0
                      /\ Units \in Nat /\ LimitOfTasks \in Nat
    BY DEF Ledger
  <2>1. Runs(state, resource, w) = {} /\ Runs(state, resource, w) \cap Task = {}
    BY <1>1 DEF Runs
  <2> QED BY <2>1, FS_EmptySet, SchedulerAssumption, SMTT(20) DEF Init, Load
<1>12. WaitersHaveRunners /\ Kept
  BY <1>1 DEF WaitersHaveRunners, Waiting, Kept, Action
<1> QED BY <1>3, <1>4, <1>7, <1>8, <1>9, <1>10, <1>11, <1>12
        DEF IInv, Sound, TypeOK, ExecutionTypeOK

\* The actions are where they should be, wait for what they should and are ended once:
\* an invariant of the scheduler and of the executions it launches.
THEOREM SchedulerInvariant == Spec => []IInv
<1>1. IInv /\ UNCHANGED vars => IInv'
  <2> SUFFICES ASSUME IInv, UNCHANGED vars
               PROVE  IInv'
    OBVIOUS
  <2>1. Ledger(state, resource, count)' /\ WaitersHaveRunners' /\ Kept'
    BY LedgerStays, WaitersStay, KeptStays DEF IInv, Sound, vars, actionVars
  <2>2. TypeOK' /\ Phases(state, run)' /\ Submissions(state)'
    BY DEF IInv, TypeOK, ExecutionTypeOK, Sound, Phases, Phase, Submissions, UpdatesOf, Ordered, Waits,
           vars, taskVars, actionVars
  <2>3. Dependencies(state)' /\ Placement(state, resource, count)'
    BY DEF IInv, Sound, Dependencies, Placement, vars, taskVars, actionVars
  <2> QED BY <2>1, <2>2, <2>3 DEF IInv, Sound, TypeOK, ExecutionTypeOK, vars, actionVars
<1>2. IInv /\ [Next]_vars => IInv'
  BY <1>1, SubmitInv, ExecuteInv, TaskCompletedInv, TaskRescheduledInv, TaskFailedInv,
     TaskFailsWithSuccessorsInv, WorkerStartedInv, WorkerNotStartedInv, UpdatedWorkerInv,
     ExecutionInv DEF Next, DispatcherStep
<1> QED BY <1>2, InitInv, PTL DEF Spec

\* The types are as declared, whatever fails.
THEOREM SchedulerTypes == Spec => []TypeOK
<1>1. IInv => TypeOK
  BY DEF IInv
<1> QED BY <1>1, SchedulerInvariant, PTL

\* An action that runs is ended by one thing, and no other is: no second update
\* releases its resources and its successors again.
THEOREM OneEnd == Spec => []OneEndPerRun
<1>1. IInv => OneEndPerRun
  <2> SUFFICES ASSUME IInv, NEW a \in Action
               PROVE  Cardinality(UpdatesOf(a)) + run[a].jobs + (IF Listening(a) THEN 1 ELSE 0)
                         = (IF state[a] = "RUNNING" THEN 1 ELSE 0)
    BY DEF OneEndPerRun
  <2>1. Phase(state[a], run[a], UpdatesOf(a)) /\ run[a].jobs \in {0, 1}
    BY DEF IInv, TypeOK, ExecutionTypeOK, Run, Sound, Phases
  <2>2. Listening(a) <=> Waits(run[a])
    BY DEF Listening, Waits
  <2>3. Cardinality(UpdatesOf(a)) = IF UpdatesOf(a) = {} THEN 0 ELSE 1
    <3>1. CASE UpdatesOf(a) = {}
      BY <3>1, FS_EmptySet
    <3>2. CASE UpdatesOf(a) # {}
      <4>1. PICK i : UpdatesOf(a) = {i}
        BY <2>1, <3>2 DEF Phase
      <4> QED BY <3>2, <4>1, FS_Singleton
    <3> QED BY <3>1, <3>2
  <2> QED BY <2>1, <2>2, <2>3 DEF Phase
<1> QED BY <1>1, SchedulerInvariant, PTL

\* No task runs on a worker while the action that starts the worker runs, whatever was
\* resumed, retried or assigned meanwhile.
THEOREM StartsFirst == Spec => []StartedBeforeUse
<1>1. IInv => StartedBeforeUse
  BY DEF IInv, Sound, Placement, StartedBeforeUse, Hosted, Action
<1> QED BY <1>1, SchedulerInvariant, PTL

\* A task is launched only when those it depends on have ended, whatever was retried,
\* blocked or resumed in between.
THEOREM DependenciesEnd == Spec => []DependenciesFirst
<1>1. IInv => DependenciesFirst
  <2> SUFFICES ASSUME IInv, NEW t \in Task, state[t] \in {"WAITING", "RUNNING", "FINISHED"},
                      NEW p \in deps[t]
               PROVE  state[p] \in {"FINISHED", "FAILED"}
    BY DEF DependenciesFirst
  <2> QED BY DEF IInv, Sound, Dependencies
<1> QED BY <1>1, SchedulerInvariant, PTL

\* As long as nothing has failed for good, what a worker has reserved is what it runs, and
\* fits, whatever was launched, resumed, completed or retried.
THEOREM ResourcesBalance == Spec => []ResourcesAccounted
<1>1. IInv => ResourcesAccounted
  <2> SUFFICES ASSUME IInv, Failures = {}, NEW w \in Workers
               PROVE  /\ count[w].used = Cardinality(Hosted(w))
                      /\ count[w].available = Units - Cardinality(Hosted(w) \cap Task)
                                                     - (IF w \in Hosted(w) THEN Units ELSE 0)
                      /\ count[w].used <= LimitOfTasks
                      /\ count[w].available >= 0
    BY DEF ResourcesAccounted
  <2>1. Ledger(state, resource, count) /\ \A a \in Action : state[a] # "FAILED"
    BY DEF IInv, Sound, Failures
  <2>2. PICK st, res : st = state /\ res = resource
    OBVIOUS
  <2>3. Hosted(w) = Runs(st, res, w)
    BY <2>2 DEF Hosted, Runs
  <2>4. /\ count[w].used = Cardinality(Runs(st, res, w))
        /\ count[w].available = Units - Load(st, res, w)
        /\ count[w].used <= LimitOfTasks
        /\ count[w].available >= 0
    BY <2>1, <2>2 DEF Ledger
  <2>5. /\ Cardinality(Runs(st, res, w) \cap Task) \in Nat
        /\ Load(st, res, w) = Cardinality(Runs(st, res, w) \cap Task)
                                 + (IF w \in Runs(st, res, w) THEN Units ELSE 0)
    BY LoadOf DEF Load
  <2>6. Units \in Nat
    BY SchedulerAssumption
  <2> QED BY <2>3, <2>4, <2>5, <2>6
<1> QED BY <1>1, SchedulerInvariant, PTL

\* An action waits only for actions that run on its worker, and as long as nothing has failed
\* for good only while there is no room: no end or retry forgets those who wait.
THEOREM WaitersAreServed == Spec => []WaitersHaveRunners
<1>1. IInv => WaitersHaveRunners
  BY DEF IInv
<1> QED BY <1>1, SchedulerInvariant, PTL

\* When nothing is left to happen no task is forgotten: each has ended, or was failed, or
\* has failed on every worker, or depends on such a task.
THEOREM TasksAreKept == Spec => []NoTaskForgotten
<1>1. IInv => NoTaskForgotten
  <2> SUFFICES ASSUME IInv, tdQueue = << >>, workers = Workers, \A a \in Action : state[a] # "RUNNING",
                      NEW t \in 1 .. submitted
               PROVE  \/ state[t] \in {"FINISHED", "FAILED"}
                      \/ t \in blocked /\ tried[t] = Workers
                      \/ preds[t] # {}
    BY DEF NoTaskForgotten
  <2>1. t \in Task /\ t \in Action /\ t <= submitted
    BY ExecutionAssumption DEF IInv, TypeOK, Task, Action
  <2>2. state[t] \in States /\ tried[t] \subseteq Workers
    BY <2>1 DEF IInv, TypeOK
  <2>3. state[t] # "none"
    <3>1. Ordered(t) = {}
      BY DEF Ordered
    <3> QED BY <2>1, <3>1 DEF IInv, Sound, Submissions
  <2>4. state[t] # "WAITING"
    <3> SUFFICES ASSUME state[t] = "WAITING"
                 PROVE  FALSE
      OBVIOUS
    <3>1. resource[t] \in Workers /\ t \in Waiting(resource[t])
      BY <2>1 DEF IInv, TypeOK, Sound, Placement, Waiting
    <3>2. Hosted(resource[t]) # {}
      BY <3>1 DEF IInv, WaitersHaveRunners
    <3> QED BY <3>2 DEF Hosted
  <2>5. CASE state[t] = "RUNNABLE"
    BY <2>1, <2>2, <2>5 DEF IInv, Kept
  <2> QED BY <2>1, <2>2, <2>3, <2>4, <2>5 DEF States
<1> QED BY <1>1, SchedulerInvariant, PTL
=============================================================================
