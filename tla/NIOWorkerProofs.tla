-------------------------- MODULE NIOWorkerProofs --------------------------
(***************************************************************************)
(* Proofs about NIOWorker, for any jobs, parameters, threads and slots:    *)
(* its types (WorkerTypes), the receive slots (SlotsBalance), one transfer *)
(* for all the requests for a datum (TransfersShared), the count of what   *)
(* each job misses (MissingExact), one answer to each job (JobsInOnePlace) *)
(* and no job without its files (FilesWhole).                              *)
(*                                                                         *)
(* The requests and their transfers (RequestsInv) come first, since the    *)
(* steps of the agent say all there is about them; then what jobs miss     *)
(* (MissingCounted), where each job is (JobsInv), the files (FilesInv),    *)
(* what the master is told (MasterInv) and in which order it sends the     *)
(* jobs (OrderInv): a version is written under its name only while nobody  *)
(* may read it, which is why no file is replaced while a job uses it.      *)
(***************************************************************************)
EXTENDS NIOWorker, FiniteSetTheorems, NaturalsInduction, WellFoundedInduction, TLAPS

-----------------------------------------------------------------------------
(* The inductive invariant.                                                *)

\* A list without repetition.
Injective(s) == \A i, k \in DOMAIN s : s[i] = s[k] => i = k

\* A set of transfers that are pending, under way or refused, each in one place, with
\* the receive slots those under way and refused have taken.
Placed(transfers, pending, ongoing, failed, taken) ==
    /\ pending \in Seq(transfers) /\ ongoing \subseteq transfers /\ failed \subseteq transfers
    /\ IsFiniteSet(ongoing) /\ IsFiniteSet(failed)
    /\ transfers = ToSet(pending) \cup ongoing \cup failed
    /\ ongoing \cap failed = {} /\ ToSet(pending) \cap (ongoing \cup failed) = {}
    /\ Injective(pending)
    /\ taken = Cardinality(ongoing) + Cardinality(failed) /\ taken <= MaxReceive

\* Each datum of a set of requests has one transfer, which one of them asked for.
Shared(requests, transfers) ==
    /\ transfers \subseteq requests
    /\ \A q \in requests : \E r \in transfers : r.data = q.data
    /\ \A q, r \in transfers : q.data = r.data => q = r

Transfers == ToSet(pendingRequests) \cup ongoingTransfers \cup refused

RequestsOf(j) == {Request(j, i) : i \in DOMAIN ParamsOf[j]}
IsRequest(q) == q.job \in Jobs /\ q \in RequestsOf(q.job)

RequestsInv ==
    /\ IsFiniteSet(dataToRequests) /\ dataToRequests \cap lost = {}
    /\ \A q \in dataToRequests \cup lost : IsRequest(q) /\ q.job \in DOMAIN params
    /\ Placed(Transfers, pendingRequests, ongoingTransfers, refused, receiveTransfers)
    /\ Shared(dataToRequests, Transfers)

SendsInv == sendTransfers \in 0 .. MaxSend /\ sending \in 0 .. sendTransfers

ToWorker == [kind : {"job"}, job : Jobs, hosted : SUBSET Names]
                \cup {Command("executorShutdown"), Command("shutdown")}
ToMaster == [kind : {"taskDone"}, job : Jobs, successful : BOOLEAN]
                \cup {DataReceived(j) : j \in Jobs}
                \cup {Command("executorShutdownACK"), Command("shutdownACK")}

Typed ==
    /\ submitted \subseteq Jobs /\ RUNNING_JOBS \subseteq submitted
    /\ toWorker \subseteq ToWorker /\ toMaster \subseteq ToMaster
    /\ params \in [DOMAIN params -> Nat] /\ DOMAIN params \subseteq submitted
    /\ error \subseteq DOMAIN params
    /\ known \subseteq Names /\ files \subseteq Names
    /\ queue \in Seq(Jobs) /\ running \subseteq Jobs
    /\ IsFiniteSet(running) /\ Cardinality(running) <= Pool
    /\ pool \in {"up", "stopping", "down"}
    /\ stop \in {"no", "executors", "worker", "done"}

\* A job on its way to the worker, one that misses files, one that waits for a thread, and
\* one whose answer is on its way.
Sent(j) == \E m \in toWorker : m.kind = "job" /\ m.job = j
Waits(j) == j \in DOMAIN params /\ params[j] > 0
Enqueued(j) == \E i \in DOMAIN queue : queue[i] = j
Answered(j) == \E m \in toMaster : m.kind = "taskDone" /\ m.job = j

\* A job without an answer is in one of these places, or with a thread.
JobInv(j) ==
    /\ Sent(j) => j \in submitted \ DOMAIN params
    /\ Enqueued(j) \/ j \in running \/ Answered(j) => j \in DOMAIN params /\ params[j] = 0
    /\ Enqueued(j) \/ j \in running => j \notin error
    /\ ~(Enqueued(j) /\ j \in running) /\ ~(Enqueued(j) /\ Answered(j)) /\ ~(j \in running /\ Answered(j))
    /\ j \in RUNNING_JOBS <=> Sent(j) \/ Waits(j) \/ Enqueued(j) \/ j \in running \/ Answered(j)

JobsInv ==
    /\ \A j \in Jobs : JobInv(j)
    /\ \A m, n \in toWorker : m.kind = "job" /\ n.kind = "job" /\ m.job = n.job => m = n
    /\ Injective(queue)

FilesInv ==
    /\ known \subseteq files
    /\ \A m \in toWorker : m.kind = "job" => m.hosted \subseteq files
    /\ \A r \in Transfers : r.target = r.data => r.data \notin files
    /\ \A j \in DOMAIN params \ error : \A q \in RequestsOf(j) :
          q.target \in files \/ q \in dataToRequests \cup lost

\* The files of a job are there when it is executed, and when it has ended well.
Present(m) == m.job \in DOMAIN params /\ Targets(m.job) \subseteq files

MasterInv ==
    /\ \A m, n \in toMaster : m.kind = "taskDone" /\ n.kind = "taskDone" /\ m.job = n.job => m = n
    /\ \A m \in toMaster : m.kind = "dataReceived" => Present(m)
    /\ \A m \in toMaster : m.kind = "taskDone" /\ m.successful => Present(m)

\* Jobs are submitted after those whose results they read: the master knows a result when the
\* job has ended.
OrderInv ==
    /\ \A j \in submitted : \A k \in Jobs : DataOf(j) \cap Results(k) \subseteq known
    /\ \A k \in Jobs : Results(k) \cap known # {} => k \in submitted \ RUNNING_JOBS

IInv ==
    /\ RequestsInv /\ SendsInv /\ Typed
    /\ MissingCounted /\ JobsInv /\ FilesInv /\ MasterInv /\ OrderInv

-----------------------------------------------------------------------------
(* Lists without repetition.                                               *)

\* What a list holds.
LEMMA ElementOf ==
    ASSUME NEW S, NEW s \in Seq(S), NEW i \in DOMAIN s
    PROVE  s[i] \in S
OBVIOUS

\* A list without repetition has as many elements as places.
LEMMA ImageSize ==
    ASSUME NEW n \in Nat, NEW s, DOMAIN s = 1 .. n, Injective(s)
    PROVE  IsFiniteSet(ToSet(s)) /\ Cardinality(ToSet(s)) = n
<1>1. IsFiniteSet(1 .. n) /\ Cardinality(1 .. n) = n
  BY FS_Interval
<1>2. PICK f : f = [i \in 1 .. n |-> s[i]]
  OBVIOUS
<1>3. f \in Bijection(1 .. n, ToSet(s))
  BY <1>2 DEF Bijection, Injection, Surjection, IsInjective, Injective, ToSet
<1>4. ExistsBijection(1 .. n, ToSet(s))
  BY <1>3 DEF ExistsBijection
<1> QED BY <1>1, <1>4, FS_Bijection

\* SetToSeqs has the orders of a finite set: lists without repetition of all its elements.
LEMMA Orders ==
    ASSUME NEW S, IsFiniteSet(S), NEW s \in SetToSeqs(S)
    PROVE  /\ s \in Seq(S) /\ ToSet(s) = S /\ Injective(s)
           /\ Len(s) = Cardinality(S) /\ DOMAIN s = 1 .. Len(s)
<1> PICK n : n = Cardinality(S)
  OBVIOUS
<1>1. n \in Nat
  BY FS_CardinalityType
<1>2. s \in [1 .. n -> S] /\ Injective(s)
  BY DEF SetToSeqs, Injective
<1>3. IsFiniteSet(1 .. n) /\ Cardinality(1 .. n) = n
  BY <1>1, FS_Interval
<1>4. s \in Injection(1 .. n, S)
  BY <1>2 DEF Injection, IsInjective, Injective
<1>5. s \in Surjection(1 .. n, S)
  BY <1>3, <1>4, FS_Injection
<1>6. ToSet(s) = S
  BY <1>2, <1>5 DEF Surjection, ToSet
<1>7. s \in Seq(S) /\ Len(s) = n
  BY <1>1, <1>2
<1> QED BY <1>2, <1>6, <1>7

\* Two lists that share nothing.
LEMMA Joined ==
    ASSUME NEW S, NEW s \in Seq(S), NEW t \in Seq(S), Injective(s), Injective(t),
           ToSet(s) \cap ToSet(t) = {}
    PROVE  s \o t \in Seq(S) /\ Injective(s \o t) /\ ToSet(s \o t) = ToSet(s) \cup ToSet(t)
<1>0. PICK m, n, u : m = Len(s) /\ n = Len(t) /\ u = s \o t
  OBVIOUS
<1>1. /\ m \in Nat /\ n \in Nat /\ DOMAIN s = 1 .. m /\ DOMAIN t = 1 .. n
      /\ DOMAIN u = 1 .. m + n /\ u \in Seq(S)
      /\ \A i \in 1 .. m + n : u[i] = IF i <= m THEN s[i] ELSE t[i - m]
  BY <1>0
<1>2. \A i \in 1 .. m : i \in 1 .. m + n /\ u[i] = s[i]
  BY <1>1
<1>3. \A i \in 1 .. n : m + i \in 1 .. m + n /\ u[m + i] = t[i]
  BY <1>1
<1>4. \A i \in 1 .. m + n : i \in 1 .. m \/ \E k \in 1 .. n : i = m + k
  <2> TAKE i \in 1 .. m + n
  <2>1. CASE i <= m
    BY <1>1, <2>1
  <2>2. CASE ~(i <= m)
    <3>1. i - m \in 1 .. n /\ i = m + (i - m)
      BY <1>1, <2>2
    <3> QED BY <3>1
  <2> QED BY <2>1, <2>2
<1>5. ToSet(u) = ToSet(s) \cup ToSet(t)
  <2>1. \A x : x \in ToSet(u) <=> \E i \in 1 .. m + n : u[i] = x
    BY <1>1 DEF ToSet
  <2>2. \A x : x \in ToSet(s) <=> \E i \in 1 .. m : s[i] = x
    BY <1>1 DEF ToSet
  <2>3. \A x : x \in ToSet(t) <=> \E i \in 1 .. n : t[i] = x
    BY <1>1 DEF ToSet
  <2> QED BY <1>2, <1>3, <1>4, <2>1, <2>2, <2>3
<1>6. Injective(u)
  <2> SUFFICES ASSUME NEW i \in 1 .. m + n, NEW k \in 1 .. m + n, u[i] = u[k] PROVE i = k
    BY <1>1 DEF Injective
  <2>1. \A v, w : v \in 1 .. m /\ w \in 1 .. n => s[v] # t[w]
    BY <1>1 DEF ToSet
  <2>2. CASE i \in 1 .. m /\ k \in 1 .. m
    BY <1>1, <1>2, <2>2 DEF Injective
  <2>3. ASSUME NEW v \in 1 .. n, i = m + v
        PROVE  i = k
    <3>1. k \notin 1 .. m
      BY <1>2, <1>3, <2>1, <2>3
    <3>2. PICK w \in 1 .. n : k = m + w
      BY <1>4, <3>1
    <3>3. t[v] = t[w]
      BY <1>3, <2>3, <3>2
    <3> QED BY <1>1, <2>3, <3>2, <3>3 DEF Injective
  <2>4. ASSUME NEW v \in 1 .. n, k = m + v, i \in 1 .. m
        PROVE  i = k
    BY <1>2, <1>3, <2>1, <2>4
  <2> QED BY <1>4, <2>2, <2>3, <2>4
<1> QED BY <1>0, <1>1, <1>5, <1>6

FirstOnes(s, k) == {s[i] : i \in 1 .. k}
Others(s, k) == SubSeq(s, k + 1, Len(s))

\* What is left of a list when its first elements are taken.
LEMMA Taken ==
    ASSUME NEW S, NEW s \in Seq(S), Injective(s), NEW k \in 0 .. Len(s)
    PROVE  /\ Others(s, k) \in Seq(S) /\ Injective(Others(s, k))
           /\ ToSet(s) = FirstOnes(s, k) \cup ToSet(Others(s, k))
           /\ FirstOnes(s, k) \cap ToSet(Others(s, k)) = {}
           /\ IsFiniteSet(FirstOnes(s, k)) /\ Cardinality(FirstOnes(s, k)) = k
<1>0. PICK n, first, rest : n = Len(s) /\ first = FirstOnes(s, k) /\ rest = Others(s, k)
  OBVIOUS
<1>1. n \in Nat /\ k \in Nat /\ k <= n /\ DOMAIN s = 1 .. n
  BY <1>0
<1>2. /\ DOMAIN rest = 1 .. n - k /\ rest \in Seq(S)
      /\ \A i \in 1 .. n - k : rest[i] = s[k + i]
  BY <1>0, <1>1 DEF Others
<1>3. \A i \in 1 .. n - k : k + i \in 1 .. n /\ k + i \notin 1 .. k
  BY <1>1
<1>4. Injective(rest)
  <2> SUFFICES ASSUME NEW i \in 1 .. n - k, NEW j \in 1 .. n - k, rest[i] = rest[j] PROVE i = j
    BY <1>2 DEF Injective
  <2>1. k + i = k + j
    BY <1>1, <1>2, <1>3 DEF Injective
  <2> QED BY <1>1, <2>1
<1>5. \A i \in 1 .. n : i \in 1 .. k \/ \E j \in 1 .. n - k : i = k + j
  <2> TAKE i \in 1 .. n
  <2>1. i <= k \/ (i - k \in 1 .. n - k /\ i = k + (i - k))
    BY <1>1
  <2> QED BY <1>1, <2>1
<1>6. \A i \in 1 .. k : i \in 1 .. n
  BY <1>1
<1>7. ToSet(s) = first \cup ToSet(rest)
  <2>1. \A x : x \in ToSet(s) <=> \E i \in 1 .. n : s[i] = x
    BY <1>1 DEF ToSet
  <2>2. \A x : x \in first <=> \E i \in 1 .. k : s[i] = x
    BY <1>0 DEF FirstOnes
  <2>3. \A x : x \in ToSet(rest) <=> \E i \in 1 .. n - k : s[k + i] = x
    BY <1>2 DEF ToSet
  <2> QED BY <1>3, <1>5, <1>6, <2>1, <2>2, <2>3
<1>8. first \cap ToSet(rest) = {}
  <2> SUFFICES ASSUME NEW x \in first, x \in ToSet(rest) PROVE FALSE
    OBVIOUS
  <2>1. PICK i \in 1 .. k : s[i] = x
    BY <1>0 DEF FirstOnes
  <2>2. PICK j \in 1 .. n - k : s[k + j] = x
    BY <1>2 DEF ToSet
  <2> QED BY <1>1, <1>3, <1>6, <2>1, <2>2 DEF Injective
<1>9. IsFiniteSet(first) /\ Cardinality(first) = k
  <2>1. PICK f : f = [i \in 1 .. k |-> s[i]]
    OBVIOUS
  <2>2. DOMAIN f = 1 .. k /\ Injective(f)
    BY <1>1, <1>6, <2>1 DEF Injective
  <2>3. ToSet(f) = first
    BY <1>0, <2>1 DEF FirstOnes, ToSet
  <2> QED BY <1>1, <2>2, <2>3, ImageSize
<1> QED BY <1>0, <1>2, <1>4, <1>7, <1>8, <1>9

-----------------------------------------------------------------------------
(* The transfers of the agent.                                             *)

\* requestTransfers moves the first of the pending transfers, which take free slots.
LEMMA Requested ==
    ASSUME NEW T, NEW pending, NEW ongoing, NEW taken,
           Placed(T, pending, ongoing, refused, taken), RequestTransfers(pending, ongoing, taken)
    PROVE  Placed(T, pendingRequests', ongoingTransfers', refused', receiveTransfers')
<1>1. PICK k : k = IF Len(pending) < MaxReceive - taken THEN Len(pending) ELSE MaxReceive - taken
  OBVIOUS
<1>2. /\ Cardinality(ongoing) \in Nat /\ Cardinality(refused) \in Nat
      /\ taken = Cardinality(ongoing) + Cardinality(refused) /\ taken <= MaxReceive
      /\ MaxReceive \in Nat
  BY AgentAssumption, FS_CardinalityType DEF Placed
<1>3. k \in 0 .. Len(pending) /\ k \in Nat /\ taken + k <= MaxReceive
  <2>1. Len(pending) \in Nat
    BY DEF Placed
  <2>2. \A n, t, m, l \in Nat : t <= m /\ n = (IF l < m - t THEN l ELSE m - t) =>
                                    n \in 0 .. l /\ t + n <= m
    OBVIOUS
  <2>3. taken \in Nat /\ k \in Nat
    BY <1>1, <1>2, <2>1
  <2> QED BY <1>1, <1>2, <2>1, <2>2, <2>3
<1>4. PICK first, rest : /\ first = FirstOnes(pending, k) /\ rest = Others(pending, k)
                         /\ rest \in Seq(T) /\ Injective(rest)
                         /\ ToSet(pending) = first \cup ToSet(rest) /\ first \cap ToSet(rest) = {}
                         /\ IsFiniteSet(first) /\ Cardinality(first) = k
  <2>1. pending \in Seq(T) /\ Injective(pending)
    BY DEF Placed
  <2> QED BY <1>3, <2>1, Taken
<1>5. PICK fail \in SUBSET first : /\ refused' = refused \cup fail
                                   /\ ongoingTransfers' = ongoing \cup (first \ fail)
                                   /\ receiveTransfers' = taken + k
                                   /\ pendingRequests' = rest
  BY <1>1, <1>4 DEF RequestTransfers, FirstOnes, Others
<1>6. /\ IsFiniteSet(fail) /\ Cardinality(fail) \in Nat
      /\ IsFiniteSet(first \ fail) /\ Cardinality(first \ fail) = k - Cardinality(fail)
  <2>1. first \cap fail = fail
    BY <1>5
  <2>2. IsFiniteSet(fail)
    BY <1>4, <1>5, FS_Subset
  <2>3. Cardinality(fail) \in Nat
    BY <2>2, FS_CardinalityType
  <2>4. IsFiniteSet(first \ fail) /\ Cardinality(first \ fail) = Cardinality(first) - Cardinality(first \cap fail)
    BY <1>4, FS_Difference
  <2> QED BY <1>4, <2>1, <2>2, <2>3, <2>4
<1>7. /\ IsFiniteSet(refused') /\ Cardinality(refused') = Cardinality(refused) + Cardinality(fail)
      /\ IsFiniteSet(ongoingTransfers')
      /\ Cardinality(ongoingTransfers') = Cardinality(ongoing) + (k - Cardinality(fail))
  <2>1. refused \cap fail = {} /\ ongoing \cap (first \ fail) = {}
    BY <1>4 DEF Placed
  <2>2. Cardinality({}) = 0 /\ IsFiniteSet(refused) /\ IsFiniteSet(ongoing)
    BY FS_EmptySet DEF Placed
  <2>3. IsFiniteSet(refused') /\ Cardinality(refused') = Cardinality(refused) + Cardinality(fail) - 0
    BY <1>5, <1>6, <2>1, <2>2, FS_Union
  <2>4. /\ IsFiniteSet(ongoingTransfers')
        /\ Cardinality(ongoingTransfers') = Cardinality(ongoing) + Cardinality(first \ fail) - 0
    <3>1. PICK others : others = first \ fail
      OBVIOUS
    <3>2. IsFiniteSet(others) /\ ongoing \cap others = {} /\ ongoingTransfers' = ongoing \cup others
      BY <1>5, <1>6, <2>1, <3>1
    <3>3. /\ IsFiniteSet(ongoing \cup others)
          /\ Cardinality(ongoing \cup others)
               = Cardinality(ongoing) + Cardinality(others) - Cardinality(ongoing \cap others)
      BY <2>2, <3>2, FS_Union
    <3> QED BY <2>2, <3>1, <3>2, <3>3
  <2> QED BY <1>2, <1>3, <1>6, <2>3, <2>4
<1>8. /\ receiveTransfers' = Cardinality(ongoingTransfers') + Cardinality(refused')
      /\ receiveTransfers' <= MaxReceive
  BY <1>2, <1>3, <1>5, <1>6, <1>7
<1>9. /\ pendingRequests' \in Seq(T) /\ ongoingTransfers' \subseteq T /\ refused' \subseteq T
      /\ T = ToSet(pendingRequests') \cup ongoingTransfers' \cup refused'
      /\ ongoingTransfers' \cap refused' = {}
      /\ ToSet(pendingRequests') \cap (ongoingTransfers' \cup refused') = {}
      /\ Injective(pendingRequests')
  BY <1>4, <1>5 DEF Placed
<1> QED BY <1>7, <1>8, <1>9 DEF Placed

\* The end of a transfer takes it, and the requests for its datum, away.
LEMMA Ended ==
    ASSUME RequestsInv, NEW r \in ongoingTransfers, TransferEnds(r)
    PROVE  /\ dataToRequests' = dataToRequests \ Requests(r)
           /\ Transfers' = Transfers \ {r}
           /\ Placed(Transfers', pendingRequests', ongoingTransfers', refused', receiveTransfers')
           /\ Shared(dataToRequests', Transfers')
<1>1. /\ dataToRequests' = dataToRequests \ Requests(r)
      /\ RequestTransfers(pendingRequests, ongoingTransfers \ {r}, receiveTransfers - 1)
  BY DEF TransferEnds, RemoveRequests, Requests
<1>2. Placed(Transfers \ {r}, pendingRequests, ongoingTransfers \ {r}, refused, receiveTransfers - 1)
  <2>1. Placed(Transfers, pendingRequests, ongoingTransfers, refused, receiveTransfers)
    BY DEF RequestsInv
  <2>2. /\ IsFiniteSet(ongoingTransfers \ {r})
        /\ Cardinality(ongoingTransfers \ {r}) = Cardinality(ongoingTransfers) - 1
        /\ Cardinality(ongoingTransfers) \in Nat /\ Cardinality(refused) \in Nat
    BY <2>1, FS_RemoveElement, FS_CardinalityType DEF Placed
  <2>3. r \notin ToSet(pendingRequests) /\ r \notin refused
    BY <2>1 DEF Placed
  <2>4. pendingRequests \in Seq(Transfers \ {r})
    <3>1. pendingRequests \in Seq(Transfers) /\ \A i \in DOMAIN pendingRequests : pendingRequests[i] # r
      BY <2>1, <2>3 DEF Placed, ToSet
    <3> QED BY <3>1
  <2>5. /\ receiveTransfers - 1 = Cardinality(ongoingTransfers \ {r}) + Cardinality(refused)
        /\ receiveTransfers - 1 <= MaxReceive
    BY <2>1, <2>2, AgentAssumption DEF Placed
  <2> QED BY <2>1, <2>2, <2>3, <2>4, <2>5 DEF Placed
<1>3. Placed(Transfers \ {r}, pendingRequests', ongoingTransfers', refused', receiveTransfers')
  BY <1>1, <1>2, Requested
<1>4. Transfers' = Transfers \ {r}
  BY <1>3 DEF Placed, Transfers
<1>5. Shared(dataToRequests', Transfers')
  <2>1. Shared(dataToRequests, Transfers) /\ r \in Transfers
    BY DEF RequestsInv, Transfers
  <2>2. \A q \in Transfers \ {r} : q \in dataToRequests' /\ q.data # r.data
    BY <1>1, <2>1 DEF Shared, Requests
  <2>3. \A q \in dataToRequests' : q \in dataToRequests /\ q.data # r.data
    BY <1>1 DEF Requests
  <2> QED BY <1>4, <2>1, <2>2, <2>3 DEF Shared
<1> QED BY <1>1, <1>3, <1>4, <1>5

\* A set of numbers has a least one.
LEMMA LeastOf ==
    ASSUME NEW S, S \subseteq Nat, S # {}
    PROVE  \E n \in S : \A m \in S : n <= m
<1> DEFINE Less == OpToRel(<, Nat)
<1>1. PICK n \in S : \A m \in S : <<m, n>> \notin Less
  <2>1. IsWellFoundedOn(Less, Nat)
    BY NatLessThanWellFounded
  <2> HIDE DEF Less
  <2> QED BY <2>1, WFMin
<1>2. ASSUME NEW m \in S PROVE n <= m
  <2>1. m \in Nat /\ n \in Nat /\ ~(m < n)
    BY <1>1 DEF OpToRel
  <2> QED BY <2>1
<1> QED BY <1>2

\* The requests of a job: one for each parameter, in their order.
Asked(asked) ==
    /\ IsFiniteSet(asked)
    /\ \A q \in asked : q.param \in Nat
    /\ \A q, r \in asked : q.param = r.param => q = r

\* The first requests have different data, none of which has a list, and leave out none.
LEMMA FirstsShare ==
    ASSUME NEW asked, Asked(asked), RequestsInv
    PROVE  /\ FirstRequests(asked) \subseteq asked
           /\ Shared(dataToRequests \cup asked, Transfers \cup FirstRequests(asked))
<1> DEFINE firsts == FirstRequests(asked)
<1>1. /\ firsts \subseteq asked
      /\ \A r \in firsts : \A q \in dataToRequests : q.data # r.data
      /\ \A q, r \in firsts : q.data = r.data => q = r
  <2>1. \A q, r \in firsts : q.data = r.data => q.param <= r.param /\ r.param <= q.param
    BY DEF FirstRequests
  <2>2. \A q, r \in firsts : q.param \in Nat /\ r.param \in Nat
    BY DEF FirstRequests, Asked
  <2>3. \A m, n \in Nat : m <= n /\ n <= m => m = n
    OBVIOUS
  <2> QED BY <2>1, <2>2, <2>3 DEF FirstRequests, Asked
<1>2. ASSUME NEW q \in asked, \A p \in dataToRequests : p.data # q.data
      PROVE  \E r \in firsts : r.data = q.data
  <2> DEFINE same == {p \in asked : p.data = q.data}
             numbers == {p.param : p \in same}
  <2>1. numbers \subseteq Nat /\ numbers # {}
    BY DEF Asked
  <2>2. PICK n \in numbers : \A m \in numbers : n <= m
    <3> HIDE DEF numbers
    <3> QED BY <2>1, LeastOf
  <2>3. PICK r \in same : r.param = n
    BY <2>2
  <2>4. \A p \in asked : p.data = r.data => r.param <= p.param
    BY <2>2, <2>3
  <2>5. r \in firsts
    BY <1>2, <2>3, <2>4 DEF FirstRequests
  <2> QED BY <2>3, <2>5
<1>3. Shared(dataToRequests, Transfers)
  BY DEF RequestsInv
<1> HIDE DEF firsts
<1>4. \A q \in dataToRequests \cup asked : \E r \in Transfers \cup firsts : r.data = q.data
  BY <1>2, <1>3 DEF Shared
<1>5. \A q, r \in Transfers \cup firsts : q.data = r.data => q = r
  BY <1>1, <1>3 DEF Shared
<1>6. Transfers \cup firsts \subseteq dataToRequests \cup asked
  BY <1>1, <1>3 DEF Shared
<1> QED BY <1>1, <1>4, <1>5, <1>6 DEF Shared, firsts

\* addTransferRequest: the first requests become transfers.
LEMMA Added ==
    ASSUME NEW asked, Asked(asked), RequestsInv, AddRequests(asked)
    PROVE  /\ dataToRequests' = dataToRequests \cup asked
           /\ Transfers' = Transfers \cup FirstRequests(asked)
           /\ Placed(Transfers', pendingRequests', ongoingTransfers', refused', receiveTransfers')
           /\ Shared(dataToRequests', Transfers')
<1> DEFINE firsts == FirstRequests(asked)
           T == Transfers \cup firsts
<1>1. firsts \subseteq asked /\ Shared(dataToRequests \cup asked, T)
  BY FirstsShare
<1>2. IsFiniteSet(firsts)
  BY <1>1, FS_Subset DEF Asked
<1>3. dataToRequests' = dataToRequests \cup asked
  BY DEF AddRequests
<1>4. PICK new \in SetToSeqs(firsts) :
          RequestTransfers(pendingRequests \o new, ongoingTransfers, receiveTransfers)
  BY DEF AddRequests, InOrder
<1>5. new \in Seq(firsts) /\ ToSet(new) = firsts /\ Injective(new)
  BY <1>2, <1>4, Orders
<1>6. Transfers \cap firsts = {}
  BY DEF RequestsInv, Shared, FirstRequests
<1>7. Placed(Transfers, pendingRequests, ongoingTransfers, refused, receiveTransfers)
  BY DEF RequestsInv
<1> HIDE DEF firsts
<1>8. Placed(T, pendingRequests \o new, ongoingTransfers, refused, receiveTransfers)
  <2>1. pendingRequests \in Seq(T) /\ new \in Seq(T) /\ Injective(pendingRequests)
    BY <1>5, <1>7 DEF Placed
  <2>2. ToSet(pendingRequests) \cap ToSet(new) = {}
    BY <1>5, <1>6, <1>7 DEF Placed
  <2> HIDE DEF T
  <2>3. /\ pendingRequests \o new \in Seq(T) /\ Injective(pendingRequests \o new)
        /\ ToSet(pendingRequests \o new) = ToSet(pendingRequests) \cup ToSet(new)
    BY <1>5, <2>1, <2>2, Joined
  <2> QED BY <1>5, <1>6, <1>7, <2>3 DEF Placed, T
<1>9. Placed(T, pendingRequests', ongoingTransfers', refused', receiveTransfers')
  BY <1>4, <1>8, Requested
<1>10. Transfers' = T
  BY <1>9 DEF Placed, Transfers
<1> QED BY <1>1, <1>3, <1>9, <1>10 DEF firsts

-----------------------------------------------------------------------------
(* What each job misses.                                                   *)

\* The requests of a job are as many as its parameters, each for one of them.
LEMMA RequestsAre ==
    ASSUME NEW j \in Jobs
    PROVE  /\ ParamsOf[j] \in Seq([data : Names, target : Names])
           /\ DOMAIN ParamsOf[j] = 1 .. Len(ParamsOf[j]) /\ Len(ParamsOf[j]) \in Nat
           /\ IsFiniteSet(RequestsOf(j)) /\ Asked(RequestsOf(j))
           /\ \A q \in RequestsOf(j) : q.job = j /\ q.param \in DOMAIN ParamsOf[j] /\ q = Request(j, q.param)
<1>1. /\ ParamsOf[j] \in Seq([data : Names, target : Names])
      /\ DOMAIN ParamsOf[j] = 1 .. Len(ParamsOf[j]) /\ Len(ParamsOf[j]) \in Nat
  <2>1. ParamsOf[j] \in Seq([data : Names, target : Names])
    BY WorkerAssumption
  <2> QED BY <2>1
<1>2. /\ \A q \in RequestsOf(j) : q.job = j /\ q.param \in DOMAIN ParamsOf[j] /\ q = Request(j, q.param)
      /\ \A i, k \in DOMAIN ParamsOf[j] : Request(j, i) = Request(j, k) => i = k
  BY DEF RequestsOf, Request
<1>3. IsFiniteSet(RequestsOf(j))
  <2>1. PICK n, s : n = Len(ParamsOf[j]) /\ s = [i \in 1 .. n |-> Request(j, i)]
    OBVIOUS
  <2>2. n \in Nat /\ DOMAIN s = 1 .. n /\ Injective(s) /\ ToSet(s) = RequestsOf(j)
    BY <1>1, <1>2, <2>1 DEF Injective, ToSet, RequestsOf
  <2> QED BY <2>2, ImageSize
<1>4. Asked(RequestsOf(j))
  <2>1. \A q \in RequestsOf(j) : q.param \in Nat
    BY <1>1, <1>2
  <2>2. \A q, r \in RequestsOf(j) : q.param = r.param => q = r
    BY <1>2
  <2> QED BY <1>3, <2>1, <2>2 DEF Asked
<1> QED BY <1>1, <1>2, <1>3, <1>4

\* Some of the requests of a job.
LEMMA SomeAsked ==
    ASSUME NEW j \in Jobs, NEW asked \in SUBSET RequestsOf(j)
    PROVE  IsFiniteSet(asked) /\ Cardinality(asked) \in Nat /\ Asked(asked)
<1>1. IsFiniteSet(RequestsOf(j)) /\ Asked(RequestsOf(j))
  BY RequestsAre
<1>2. IsFiniteSet(asked) /\ Cardinality(asked) \in Nat
  BY <1>1, FS_Subset, FS_CardinalityType
<1> QED BY <1>1, <1>2 DEF Asked

OfJob(requests, j) == {q \in requests : q.job = j}

\* Requests with the job and the parameter they say are counted.
LEMMA Counts ==
    ASSUME NEW requests, \A q \in requests : IsRequest(q), NEW j \in Jobs
    PROVE  /\ OfJob(requests, j) \subseteq RequestsOf(j) /\ IsFiniteSet(OfJob(requests, j))
           /\ CountOf(requests, j) = Cardinality(OfJob(requests, j)) /\ CountOf(requests, j) \in Nat
           /\ CountOf(requests, j) = 0 <=> \A q \in requests : q.job # j
<1>1. OfJob(requests, j) \in SUBSET RequestsOf(j)
  BY DEF OfJob, IsRequest
<1>2. IsFiniteSet(OfJob(requests, j)) /\ Cardinality(OfJob(requests, j)) \in Nat
  BY <1>1, SomeAsked
<1>3. CountOf(requests, j) = Cardinality(OfJob(requests, j))
  BY DEF CountOf, OfJob
<1>4. Cardinality(OfJob(requests, j)) = 0 <=> OfJob(requests, j) = {}
  BY <1>2, FS_EmptySet
<1>5. OfJob(requests, j) = {} <=> \A q \in requests : q.job # j
  BY DEF OfJob
<1> QED BY <1>1, <1>2, <1>3, <1>4, <1>5

Open == dataToRequests \cup lost

Counted == RequestsInv /\ MissingCounted /\ DOMAIN params \subseteq Jobs

\* A job misses nothing when it has no request left.
LEMMA Misses ==
    ASSUME Counted, NEW j \in DOMAIN params
    PROVE  /\ params[j] \in Nat /\ params[j] = CountOf(Open, j)
           /\ params[j] = 0 <=> \A q \in Open : q.job # j
<1>1. j \in Jobs /\ params[j] = CountOf(Open, j)
  BY DEF Counted, MissingCounted, Open
<1>2. \A q \in Open : IsRequest(q)
  BY DEF Counted, RequestsInv, Open
<1> QED BY <1>1, <1>2, Counts

\* Requests that are answered are no longer missed.
LEMMA AnswersCount ==
    ASSUME Counted, NEW answered \in SUBSET dataToRequests, NEW j \in DOMAIN params
    PROVE  /\ CountOf(Open \ answered, j) = params[j] - CountOf(answered, j)
           /\ CountOf(Open \ answered, j) \in Nat /\ CountOf(answered, j) \in Nat
           /\ CountOf(answered, j) > 0 <=> \E q \in answered : q.job = j
<1>1. PICK all, some : all = OfJob(Open, j) /\ some = OfJob(answered, j)
  OBVIOUS
<1>2. j \in Jobs /\ \A q \in Open : IsRequest(q)
  BY DEF Counted, RequestsInv, Open
<1>3. answered \subseteq Open
  BY DEF Open
<1>4. /\ IsFiniteSet(all) /\ params[j] = Cardinality(all) /\ params[j] \in Nat
  BY <1>1, <1>2, Counts, Misses
<1>5. /\ IsFiniteSet(some) /\ CountOf(answered, j) = Cardinality(some)
      /\ CountOf(answered, j) \in Nat /\ (CountOf(answered, j) = 0 <=> \A q \in answered : q.job # j)
  BY <1>1, <1>2, <1>3, Counts
<1>6. CountOf(Open \ answered, j) = Cardinality(all \ some)
  <2>1. OfJob(Open \ answered, j) = all \ some
    BY <1>1 DEF OfJob
  <2> QED BY <1>2, <2>1, Counts
<1>7. CountOf(Open \ answered, j) \in Nat
  BY <1>2, Counts
<1>8. Cardinality(all \ some) = Cardinality(all) - Cardinality(some)
  <2>1. all \cap some = some
    BY <1>1, <1>3 DEF OfJob
  <2>2. Cardinality(all \ some) = Cardinality(all) - Cardinality(all \cap some)
    BY <1>4, FS_Difference
  <2> QED BY <2>1, <2>2
<1> QED BY <1>4, <1>5, <1>6, <1>7, <1>8

-----------------------------------------------------------------------------
(* The requests, step by step.                                             *)

\* A step that leaves the requests and the transfers alone.
LEMMA RequestsStay ==
    ASSUME RequestsInv, UNCHANGED <<receiveVars, params, lost>>
    PROVE  RequestsInv' /\ Transfers' = Transfers /\ (MissingCounted => MissingCounted')
  BY DEF RequestsInv, Placed, Shared, Transfers, receiveVars, IsRequest, MissingCounted, CountOf

\* What the worker asks for when a job arrives.
AskedBy(j, there, hosted) ==
    {Request(j, i) : i \in {k \in DOMAIN ParamsOf[j] : AsksFor(j, k, there, hosted)}}
CopiedFor(j, begun, hosted) ==
    {p.target : p \in {q \in ToSet(ParamsOf[j]) : q.data \in hosted}} \ begun

Arrives(j, begun, hosted, asked) ==
    /\ begun \in SUBSET {r.target : r \in ongoingTransfers}
    /\ asked = AskedBy(j, files \cup begun, hosted)
    /\ AddRequests(asked)
    /\ files' = files \cup CopiedFor(j, begun, hosted)
    /\ params' = [i \in DOMAIN params \cup {j} |-> IF i = j THEN Cardinality(asked) ELSE params[i]]
    /\ ExecuteTasks(IF asked = {} THEN {j} ELSE {}, {})

\* The parts of receivedNewTask.
LEMMA NewTaskIs ==
    ASSUME NEW m, ReceivedNewTask(m)
    PROVE  /\ m.kind = "job" /\ UNCHANGED <<sendVars, finish, error, lost, threadVars, ended>>
           /\ \E begun, asked : Arrives(m.job, begun, m.hosted, asked)
  BY DEF ReceivedNewTask, Arrives, AskedBy, CopiedFor

\* A job that arrives misses what it asks for.
LEMMA NewTaskRequests ==
    ASSUME Counted, NEW j \in Jobs, j \notin DOMAIN params, NEW begun, NEW hosted, NEW asked,
           Arrives(j, begun, hosted, asked), UNCHANGED lost
    PROVE  /\ Counted' /\ asked \subseteq RequestsOf(j)
           /\ dataToRequests' = dataToRequests \cup asked
           /\ Transfers' = Transfers \cup FirstRequests(asked)
           /\ FirstRequests(asked) \subseteq asked
           /\ DOMAIN params' = DOMAIN params \cup {j}
           /\ params'[j] = Cardinality(asked) /\ params'[j] \in Nat
           /\ params'[j] = 0 <=> asked = {}
           /\ \A k \in DOMAIN params : params'[k] = params[k]
<1>1. asked \in SUBSET RequestsOf(j)
  BY DEF Arrives, AskedBy, RequestsOf
<1>2. IsFiniteSet(asked) /\ Cardinality(asked) \in Nat /\ Asked(asked)
  BY <1>1, SomeAsked
<1>3. /\ DOMAIN params' = DOMAIN params \cup {j} /\ params'[j] = Cardinality(asked)
      /\ \A k \in DOMAIN params : params'[k] = params[k]
  BY DEF Arrives
<1>4. RequestsInv /\ AddRequests(asked)
  BY DEF Counted, Arrives
<1>5. /\ dataToRequests' = dataToRequests \cup asked
      /\ Transfers' = Transfers \cup FirstRequests(asked)
      /\ Placed(Transfers', pendingRequests', ongoingTransfers', refused', receiveTransfers')
      /\ Shared(dataToRequests', Transfers')
  BY <1>2, <1>4, Added
<1>6. \A q \in asked : q.job = j /\ IsRequest(q)
  BY <1>1, RequestsAre DEF IsRequest
<1>7. \A q \in Open : IsRequest(q) /\ q.job \in DOMAIN params
  BY <1>4 DEF RequestsInv, Open
<1>8. asked \cap Open = {}
  BY <1>6, <1>7
<1>9. Open' = Open \cup asked
  BY <1>5 DEF Open
<1>10. RequestsInv'
  <2>1. IsFiniteSet(dataToRequests')
    BY <1>2, <1>4, <1>5, FS_Union DEF RequestsInv
  <2>2. dataToRequests' \cap lost' = {}
    BY <1>4, <1>5, <1>8 DEF RequestsInv, Open
  <2>3. \A q \in (dataToRequests \cup lost)' : IsRequest(q)' /\ q.job \in DOMAIN params'
    BY <1>3, <1>5, <1>6, <1>7 DEF Open, IsRequest
  <2> QED BY <1>5, <2>1, <2>2, <2>3 DEF RequestsInv
<1>11. MissingCounted'
  <2> SUFFICES ASSUME NEW k \in DOMAIN params' PROVE params'[k] = CountOf(Open \cup asked, k)
    BY <1>9 DEF MissingCounted, Open
  <2>1. CASE k = j
    <3>1. {q \in Open \cup asked : q.job = j} = asked
      BY <1>6, <1>7
    <3> QED BY <1>3, <2>1, <3>1 DEF CountOf
  <2>2. CASE k # j
    <3>1. {q \in Open \cup asked : q.job = k} = {q \in Open : q.job = k}
      BY <1>6, <2>2
    <3>2. params'[k] = params[k] /\ params[k] = CountOf(Open, k)
      BY <1>3, <2>2, Misses
    <3> QED BY <3>1, <3>2 DEF CountOf
  <2> QED BY <2>1, <2>2
<1>12. Cardinality(asked) = 0 <=> asked = {}
  BY <1>2, FS_EmptySet
<1>13. FirstRequests(asked) \subseteq asked
  BY DEF FirstRequests
<1> QED BY <1>1, <1>2, <1>3, <1>5, <1>10, <1>11, <1>12, <1>13 DEF Counted

\* The end of a transfer: the requests for its datum leave, answered or lost.
Leaves(r, answered) ==
    /\ r \in ongoingTransfers /\ TransferEnds(r)
    /\ answered \subseteq Requests(r)
    /\ lost' = lost \cup (Requests(r) \ answered)
    /\ params' = [j \in DOMAIN params |-> params[j] - CountOf(answered, j)]

\* The jobs of the requests that are answered miss less, the others what they missed.
LEMMA LeavesRequests ==
    ASSUME Counted, NEW r, NEW answered, Leaves(r, answered)
    PROVE  /\ Counted' /\ answered \subseteq dataToRequests /\ Requests(r) \subseteq dataToRequests
           /\ dataToRequests' = dataToRequests \ Requests(r)
           /\ Transfers' = Transfers \ {r}
           /\ DOMAIN params' = DOMAIN params
           /\ \A j \in DOMAIN params :
                 /\ params'[j] \in Nat /\ CountOf(answered, j) \in Nat
                 /\ CountOf(answered, j) > 0 <=> \E q \in answered : q.job = j
                 /\ CountOf(answered, j) = 0 => params'[j] = params[j]
                 /\ CountOf(answered, j) > 0 => params[j] > 0
<1>1. /\ dataToRequests' = dataToRequests \ Requests(r)
      /\ Transfers' = Transfers \ {r}
      /\ Placed(Transfers', pendingRequests', ongoingTransfers', refused', receiveTransfers')
      /\ Shared(dataToRequests', Transfers')
  BY Ended DEF Leaves, Counted
<1>2. Requests(r) \subseteq dataToRequests /\ answered \subseteq Requests(r)
  BY DEF Requests, Leaves
<1>3. dataToRequests \cap lost = {} /\ \A q \in Open : IsRequest(q) /\ q.job \in DOMAIN params
  BY DEF Counted, RequestsInv, Open
<1>4. Open' = Open \ answered /\ dataToRequests' \cap lost' = {}
  BY <1>1, <1>2, <1>3 DEF Open, Leaves
<1>5. DOMAIN params' = DOMAIN params
  BY DEF Leaves
<1>6. ASSUME NEW j \in DOMAIN params
      PROVE  /\ params'[j] = CountOf(Open', j)
             /\ params'[j] \in Nat /\ CountOf(answered, j) \in Nat
             /\ CountOf(answered, j) > 0 <=> \E q \in answered : q.job = j
             /\ CountOf(answered, j) = 0 => params'[j] = params[j]
             /\ CountOf(answered, j) > 0 => params[j] > 0
  <2>1. answered \in SUBSET dataToRequests
    BY <1>2
  <2>2. /\ CountOf(Open \ answered, j) = params[j] - CountOf(answered, j)
        /\ CountOf(Open \ answered, j) \in Nat /\ CountOf(answered, j) \in Nat
        /\ CountOf(answered, j) > 0 <=> \E q \in answered : q.job = j
    BY <2>1, AnswersCount
  <2>3. params'[j] = params[j] - CountOf(answered, j) /\ params[j] \in Nat
    BY Misses DEF Leaves
  <2>4. \A a, b \in Nat : a - b \in Nat => (b = 0 => a - b = a) /\ (b > 0 => a > 0)
    OBVIOUS
  <2> QED BY <1>4, <2>2, <2>3, <2>4
<1>7. RequestsInv'
  <2>1. IsFiniteSet(dataToRequests')
    BY <1>1, FS_Subset DEF Counted, RequestsInv
  <2>2. \A q \in (dataToRequests \cup lost)' : IsRequest(q)' /\ q.job \in DOMAIN params'
    BY <1>3, <1>4, <1>5 DEF Open, IsRequest
  <2> QED BY <1>1, <1>4, <2>1, <2>2 DEF RequestsInv
<1>8. MissingCounted'
  <2>1. \A j \in DOMAIN params : params'[j] = CountOf(Open', j)
    BY <1>6
  <2> QED BY <1>5, <2>1 DEF MissingCounted, Open, CountOf
<1> QED BY <1>1, <1>2, <1>5, <1>6, <1>7, <1>8 DEF Counted

-----------------------------------------------------------------------------
(* Messages and places.                                                    *)

\* Messages of different kinds differ.
LEMMA MessagesDiffer ==
    ASSUME NEW j, NEW successful, NEW c, NEW hosted
    PROVE  /\ TaskDone(j, successful).kind = "taskDone" /\ TaskDone(j, successful).job = j
           /\ TaskDone(j, successful).successful = successful
           /\ DataReceived(j).kind = "dataReceived" /\ DataReceived(j).job = j
           /\ Command(c).kind = c
           /\ Job(j, hosted).kind = "job" /\ Job(j, hosted).job = j /\ Job(j, hosted).hosted = hosted
  BY DEF TaskDone, DataReceived, Command, Job

\* What the messages to the worker are.
LEMMA WorkerMessages ==
    ASSUME NEW m \in ToWorker
    PROVE  /\ m.kind = "job" => m.job \in Jobs /\ m.hosted \subseteq Names /\ m = Job(m.job, m.hosted)
           /\ m.kind # "job" => m \in {Command("executorShutdown"), Command("shutdown")}
  BY DEF ToWorker, Command, Job

\* What the messages to the master are.
LEMMA MasterMessages ==
    ASSUME NEW m \in ToMaster
    PROVE  /\ m.kind = "taskDone" => m.job \in Jobs /\ m.successful \in BOOLEAN
           /\ m.kind = "dataReceived" => m.job \in Jobs /\ m = DataReceived(m.job)
  BY DEF ToMaster, Command, DataReceived

SamePlace(j) ==
    /\ Sent(j)' <=> Sent(j)
    /\ j \in submitted' <=> j \in submitted
    /\ j \in DOMAIN params' <=> j \in DOMAIN params
    /\ j \in DOMAIN params => params'[j] = params[j]
    /\ Enqueued(j)' <=> Enqueued(j)
    /\ j \in running' <=> j \in running
    /\ Answered(j)' <=> Answered(j)
    /\ j \in error' => j \in error
    /\ j \in RUNNING_JOBS' <=> j \in RUNNING_JOBS

\* A job that stays where it is.
LEMMA PlaceStays ==
    ASSUME NEW j, JobInv(j), SamePlace(j)
    PROVE  JobInv(j)'
<1>1. /\ Sent(j)' <=> Sent(j)
      /\ Enqueued(j)' <=> Enqueued(j)
      /\ Answered(j)' <=> Answered(j)
      /\ Waits(j)' <=> Waits(j)
  BY DEF SamePlace, Waits
<1> QED BY <1>1 DEF JobInv, SamePlace

\* The messages that are sent at the end of a step of the worker.
LEMMA Sends ==
    ASSUME Typed, NEW messages \in SUBSET ToMaster, Send(messages)
    PROVE  /\ toMaster' \subseteq ToMaster
           /\ \A m : m.kind \in {"taskDone", "dataReceived"} =>
                 (m \in toMaster' <=> m \in toMaster \cup messages)
<1>1. PICK more : /\ more \subseteq {Command("shutdownACK")}
                  /\ toMaster' = (toMaster \cup messages) \cup more
  BY DEF Send
<1>2. Command("shutdownACK") \in ToMaster /\ Command("shutdownACK").kind = "shutdownACK"
  BY DEF ToMaster, Command
<1>3. toMaster' \subseteq ToMaster
  BY <1>1, <1>2 DEF Typed
<1>4. ASSUME NEW m, m.kind \in {"taskDone", "dataReceived"}
      PROVE  m \in toMaster' <=> m \in toMaster \cup messages
  BY <1>1, <1>2, <1>4
<1> QED BY <1>3, <1>4

\* executeTask and sendTaskDone for sets of jobs.
LEMMA Executes ==
    ASSUME Typed, Injective(queue), NEW jobs \in SUBSET Jobs, IsFiniteSet(jobs),
           \A j \in jobs : ~Enqueued(j), NEW failed \in SUBSET Jobs, ExecuteTasks(jobs, failed)
    PROVE  /\ queue' \in Seq(Jobs) /\ Injective(queue') /\ toMaster' \subseteq ToMaster
           /\ \A j : Enqueued(j)' <=> Enqueued(j) \/ j \in jobs
           /\ \A j : Answered(j)' <=> Answered(j) \/ j \in failed
           /\ \A m \in toMaster' : m.kind = "dataReceived" => m \in toMaster \/ m.job \in jobs
           /\ \A m \in toMaster' : m.kind = "taskDone" =>
                 m \in toMaster \/ (m.job \in failed /\ m = TaskDone(m.job, FALSE))
<1>1. PICK order \in SetToSeqs(jobs) : queue' = queue \o order
  BY DEF ExecuteTasks
<1>2. order \in Seq(Jobs) /\ ToSet(order) = jobs /\ Injective(order)
  <2>1. order \in Seq(jobs) /\ ToSet(order) = jobs /\ Injective(order)
    BY <1>1, Orders
  <2> QED BY <2>1
<1>3. queue \in Seq(Jobs) /\ \A j : Enqueued(j) <=> j \in ToSet(queue)
  BY DEF Typed, Enqueued, ToSet
<1>4. ToSet(queue) \cap ToSet(order) = {}
  BY <1>2, <1>3
<1>5. queue' \in Seq(Jobs) /\ Injective(queue') /\ ToSet(queue') = ToSet(queue) \cup jobs
  <2>1. /\ queue \o order \in Seq(Jobs) /\ Injective(queue \o order)
        /\ ToSet(queue \o order) = ToSet(queue) \cup ToSet(order)
    BY <1>2, <1>3, <1>4, Joined
  <2> QED BY <1>1, <1>2, <2>1
<1>6. \A j : Enqueued(j)' <=> j \in ToSet(queue')
  BY DEF Enqueued, ToSet
<1>7. PICK messages : messages = {DataReceived(j) : j \in jobs} \cup {TaskDone(j, FALSE) : j \in failed}
  OBVIOUS
<1>8. messages \in SUBSET ToMaster /\ Send(messages)
  <2>1. \A j \in failed : TaskDone(j, FALSE) \in ToMaster
    BY DEF ToMaster, TaskDone
  <2>2. \A j \in jobs : DataReceived(j) \in ToMaster
    BY DEF ToMaster
  <2>3. Send(messages)
    BY <1>7 DEF ExecuteTasks
  <2> QED BY <1>7, <2>1, <2>2, <2>3
<1>9. /\ toMaster' \subseteq ToMaster
      /\ \A m : m.kind \in {"taskDone", "dataReceived"} =>
            (m \in toMaster' <=> m \in toMaster \cup messages)
  BY <1>8, Sends
<1>10. /\ \A m \in messages : m.kind = "dataReceived" => m.job \in jobs
       /\ \A m \in messages : m.kind = "taskDone" => m.job \in failed /\ m = TaskDone(m.job, FALSE)
       /\ \A j \in failed : TaskDone(j, FALSE) \in messages
  <2>1. \A j : /\ TaskDone(j, FALSE).kind = "taskDone" /\ TaskDone(j, FALSE).job = j
               /\ DataReceived(j).kind = "dataReceived" /\ DataReceived(j).job = j
    BY DEF TaskDone, DataReceived
  <2>2. \A m : m \in messages => (\E j \in jobs : m = DataReceived(j)) \/ \E j \in failed : m = TaskDone(j, FALSE)
    BY <1>7
  <2>3. \A j \in failed : TaskDone(j, FALSE) \in messages
    BY <1>7
  <2>4. ASSUME NEW m \in messages
        PROVE  \/ m.kind = "dataReceived" /\ m.job \in jobs
               \/ m.kind = "taskDone" /\ m.job \in failed /\ m = TaskDone(m.job, FALSE)
    <3>1. ASSUME NEW j \in jobs, m = DataReceived(j)
          PROVE  m.kind = "dataReceived" /\ m.job \in jobs
      <4>1. DataReceived(j).kind = "dataReceived" /\ DataReceived(j).job = j
        BY <2>1
      <4> QED BY <3>1, <4>1
    <3>2. ASSUME NEW j \in failed, m = TaskDone(j, FALSE)
          PROVE  m.kind = "taskDone" /\ m.job \in failed /\ m = TaskDone(m.job, FALSE)
      <4>1. TaskDone(j, FALSE).kind = "taskDone" /\ TaskDone(j, FALSE).job = j
        BY <2>1
      <4> QED BY <3>2, <4>1
    <3>3. CASE \E j \in jobs : m = DataReceived(j)
      BY <3>1, <3>3
    <3>4. CASE \E j \in failed : m = TaskDone(j, FALSE)
      BY <3>2, <3>4
    <3> QED BY <2>2, <3>3, <3>4
  <2> QED BY <2>3, <2>4
<1>11. \A j : Answered(j)' <=> Answered(j) \/ j \in failed
  <2>1. \A j : TaskDone(j, FALSE).kind = "taskDone" /\ TaskDone(j, FALSE).job = j
    BY DEF TaskDone
  <2>2. \A m : m.kind = "taskDone" => (m \in toMaster' <=> m \in toMaster \/ m \in messages)
    BY <1>9
  <2> QED BY <1>10, <2>1, <2>2 DEF Answered
<1>12. \A m \in toMaster' : m.kind \in {"taskDone", "dataReceived"} => m \in toMaster \/ m \in messages
  BY <1>9
<1>13. \A j : Enqueued(j)' <=> Enqueued(j) \/ j \in jobs
  BY <1>3, <1>5, <1>6
<1> QED BY <1>5, <1>9, <1>10, <1>11, <1>12, <1>13

\* The files that are copied for a job, and those it is to have.
LEMMA FilesOf ==
    ASSUME NEW j \in Jobs
    PROVE  /\ Targets(j) = {q.target : q \in RequestsOf(j)}
           /\ \A q \in RequestsOf(j) : IsRequest(q)
           /\ \A begun, hosted : \A f \in CopiedFor(j, begun, hosted) :
                 \E q \in RequestsOf(j) : q.target = f /\ q.data \in hosted
<1>1. ASSUME NEW p PROVE p \in ToSet(ParamsOf[j]) =>
        \E q \in RequestsOf(j) : q.target = p.target /\ q.data = p.data
  <2>1. \A i : Request(j, i).target = ParamsOf[j][i].target /\ Request(j, i).data = ParamsOf[j][i].data
    BY DEF Request
  <2> QED BY <2>1 DEF ToSet, RequestsOf
<1>2. ASSUME NEW q \in RequestsOf(j)
      PROVE  IsRequest(q) /\ \E p \in ToSet(ParamsOf[j]) : q.target = p.target
  BY DEF ToSet, RequestsOf, Request, IsRequest
<1>3. Targets(j) = {q.target : q \in RequestsOf(j)}
  BY <1>1, <1>2 DEF Targets
<1>4. ASSUME NEW begun, NEW hosted, NEW f \in CopiedFor(j, begun, hosted)
      PROVE  \E q \in RequestsOf(j) : q.target = f /\ q.data \in hosted
  BY <1>1 DEF CopiedFor
<1> QED BY <1>2, <1>3, <1>4

\* A job that misses nothing, and did not fail, has all its files.
Whole ==
    \A j \in DOMAIN params \ error :
        params[j] = 0 => Targets(j) \subseteq files /\ \A q \in Open : q.job # j

\* So it is in every state,
LEMMA FilesThere == Counted /\ FilesInv => Whole
<1> SUFFICES ASSUME Counted, FilesInv, NEW j \in DOMAIN params \ error, params[j] = 0
             PROVE  Targets(j) \subseteq files /\ \A q \in Open : q.job # j
  BY DEF Whole
<1>1. j \in Jobs
  BY DEF Counted
<1>2. \A q \in Open : q.job # j
  BY Misses
<1>3. \A q \in RequestsOf(j) : q.job = j
  BY <1>1, RequestsAre
<1>4. \A q \in RequestsOf(j) : q.target \in files
  BY <1>2, <1>3 DEF FilesInv, Open
<1> QED BY <1>1, <1>2, <1>4, FilesOf

\* and after a step.
LEMMA FilesThereNext == (Counted /\ FilesInv => Whole)'
BY FilesThere, PTL

\* New messages to the master: answers to jobs that had none, for jobs that failed, and data
\* that have come for a job that has all its files.
LEMMA MessagesCome ==
    ASSUME MasterInv, Whole', files \subseteq files', DOMAIN params \subseteq DOMAIN params',
           \A m \in toMaster' : m.kind = "taskDone" =>
              m \in toMaster \/ (~Answered(m.job) /\ m = TaskDone(m.job, FALSE)),
           \A m \in toMaster' : m.kind = "dataReceived" =>
              m \in toMaster \/ (m.job \in DOMAIN params' \ error' /\ params'[m.job] = 0)
    PROVE  MasterInv'
<1>1. \A m : Present(m) => Present(m)'
  BY DEF Present, Targets
<1>2. ASSUME NEW m \in toMaster', NEW n \in toMaster',
             m.kind = "taskDone", n.kind = "taskDone", m.job = n.job
      PROVE  m = n
  <2>1. CASE m \in toMaster /\ n \in toMaster
    BY <1>2, <2>1 DEF MasterInv
  <2>2. CASE Answered(m.job)
    BY <1>2, <2>1, <2>2
  <2>3. CASE ~Answered(m.job)
    <3>1. m \notin toMaster /\ n \notin toMaster
      BY <1>2, <2>3 DEF Answered
    <3> QED BY <1>2, <3>1
  <2> QED BY <2>2, <2>3
<1>3. ASSUME NEW m \in toMaster', m.kind = "dataReceived" PROVE Present(m)'
  <2>1. CASE m \in toMaster
    BY <1>1, <1>3, <2>1 DEF MasterInv
  <2>2. CASE m.job \in DOMAIN params' \ error' /\ params'[m.job] = 0
    BY <2>2 DEF Present, Whole
  <2> QED BY <1>3, <2>1, <2>2
<1>4. ASSUME NEW m \in toMaster', m.kind = "taskDone", m.successful PROVE Present(m)'
  <2>1. TaskDone(m.job, FALSE).successful = FALSE
    BY DEF TaskDone
  <2>2. m \in toMaster
    BY <1>4, <2>1
  <2> QED BY <1>1, <1>4, <2>2 DEF MasterInv
<1> QED BY <1>2, <1>3, <1>4 DEF MasterInv

-----------------------------------------------------------------------------
(* The steps that leave the requests and the files alone.                  *)

\* What such a step has to keep.
LEMMA QuietStep ==
    ASSUME IInv, UNCHANGED <<receiveVars, params, error, files, lost>>,
           SendsInv', Typed', JobsInv', MasterInv', OrderInv', known' \subseteq files,
           \A m \in toWorker' : m.kind = "job" => m.hosted \subseteq files
    PROVE  IInv'
<1>1. RequestsInv' /\ MissingCounted' /\ Transfers' = Transfers
  BY RequestsStay DEF IInv
<1>2. FilesInv'
  BY <1>1 DEF IInv, FilesInv, receiveVars
<1> QED BY <1>1, <1>2 DEF IInv

\* Messages to the master that say nothing of a job.
LEMMA MessagesStay ==
    ASSUME MasterInv, UNCHANGED <<params, files>>,
           \A m \in toMaster' : m.kind \in {"taskDone", "dataReceived"} => m \in toMaster
    PROVE  MasterInv'
<1>1. \A m : Present(m)' <=> Present(m)
  BY DEF Present, Targets
<1> QED BY <1>1 DEF MasterInv

\* What the master knows stays.
LEMMA OrderStays ==
    ASSUME OrderInv, UNCHANGED <<submitted, known, RUNNING_JOBS>>
    PROVE  OrderInv'
  BY DEF OrderInv, DataOf, Results

\* submitTask: the job is on its way.
LEMMA SubmitStep ==
    ASSUME IInv, NEW j \in Jobs, SubmitTask(j)
    PROVE  IInv'
<1> PICK new : new = Job(j, known \cap DataOf(j))
  OBVIOUS
<1>1. /\ j \notin submitted /\ submitted' = submitted \cup {j} /\ RUNNING_JOBS' = RUNNING_JOBS \cup {j}
      /\ \A k \in Jobs : DataOf(j) \cap Results(k) \subseteq known
      /\ toWorker' = toWorker \cup {new}
      /\ UNCHANGED <<receiveVars, sendVars, known, stop, toMaster, params, error, files, queue, lost>>
      /\ UNCHANGED <<running, pool>>
  BY DEF SubmitTask, agentVars, taskVars, threadVars
<1>2. Typed /\ JobsInv /\ FilesInv /\ SendsInv
  BY DEF IInv
<1>3. new.kind = "job" /\ new.job = j /\ new.hosted = known \cap DataOf(j)
  BY MessagesDiffer
<1>4. new \in ToWorker
  BY <1>2 DEF Typed, Job, ToWorker
<1>5. Typed'
  BY <1>1, <1>2, <1>4 DEF Typed
<1>6. ASSUME NEW k \in Jobs PROVE JobInv(k)'
  <2>1. JobInv(k)
    BY <1>2 DEF JobsInv
  <2>2. Sent(k)' <=> Sent(k) \/ k = j
    BY <1>1, <1>3 DEF Sent
  <2>3. CASE k # j
    BY <1>1, <2>1, <2>2, <2>3, PlaceStays DEF SamePlace, Enqueued, Answered
  <2>4. CASE k = j
    <3>1. j \notin DOMAIN params /\ ~Enqueued(j) /\ j \notin running /\ ~Answered(j)
      BY <1>1, <1>2, <2>1, <2>4 DEF Typed, JobInv
    <3>2. Sent(j)' /\ ~Waits(j)' /\ ~Enqueued(j)' /\ j \notin running' /\ ~Answered(j)'
      BY <1>1, <2>2, <2>4, <3>1 DEF Enqueued, Answered, Waits
    <3> QED BY <1>1, <2>4, <3>1, <3>2 DEF JobInv
  <2> QED BY <2>3, <2>4
<1>7. JobsInv'
  <2>1. \A m \in toWorker : m.kind = "job" => m.job # j
    BY <1>1, <1>2 DEF JobsInv, JobInv, Sent
  <2>2. \A m, n \in toWorker : m.kind = "job" /\ n.kind = "job" /\ m.job = n.job => m = n
    BY <1>2 DEF JobsInv
  <2>3. \A m, n \in toWorker' : m.kind = "job" /\ n.kind = "job" /\ m.job = n.job => m = n
    BY <1>1, <1>3, <2>1, <2>2
  <2>4. Injective(queue')
    BY <1>1, <1>2 DEF JobsInv
  <2> QED BY <1>6, <2>3, <2>4 DEF JobsInv
<1>8. SendsInv'
  BY <1>1, <1>2 DEF SendsInv, sendVars
<1>9. \A m \in toWorker' : m.kind = "job" => m.hosted \subseteq files
  BY <1>1, <1>2, <1>3 DEF FilesInv
<1>10. MasterInv'
  BY <1>1, MessagesStay DEF IInv
<1>11. OrderInv'
  <2>1. \A i \in submitted' : \A k \in Jobs : DataOf(i) \cap Results(k) \subseteq known
    BY <1>1 DEF IInv, OrderInv
  <2>2. \A k \in Jobs : Results(k) \cap known # {} => k \in submitted' \ RUNNING_JOBS'
    BY <1>1 DEF IInv, OrderInv
  <2> QED BY <1>1, <2>1, <2>2 DEF OrderInv, DataOf, Results
<1> QED BY <1>1, <1>2, <1>5, <1>7, <1>8, <1>9, <1>10, <1>11, QuietStep DEF FilesInv

\* A command changes the place of no job.
LEMMA CommandSent ==
    ASSUME IInv, NEW c \in {"executorShutdown", "shutdown"}, toWorker' = toWorker \cup {Command(c)}
    PROVE  /\ toWorker' \subseteq ToWorker /\ \A j : Sent(j)' <=> Sent(j)
           /\ \A m \in toWorker' : m.kind = "job" => m \in toWorker
<1>1. Command(c) \in ToWorker /\ Command(c).kind # "job"
  BY DEF ToWorker, Command
<1> QED BY <1>1 DEF Sent, IInv, Typed

\* What a step has to keep for the jobs when none changes its place.
LEMMA PlacesStay ==
    ASSUME IInv, \A j \in Jobs : Sent(j)' <=> Sent(j),
           \A j \in Jobs : Answered(j)' <=> Answered(j),
           \A m \in toWorker' : m.kind = "job" => m \in toWorker,
           UNCHANGED <<RUNNING_JOBS, submitted, params, error, queue, running>>
    PROVE  JobsInv'
<1>1. ASSUME NEW j \in Jobs PROVE JobInv(j)'
  <2>1. JobInv(j)
    BY DEF IInv, JobsInv
  <2>2. Enqueued(j)' <=> Enqueued(j)
    BY DEF Enqueued
  <2> QED BY <2>1, <2>2, PlaceStays DEF SamePlace
<1>2. \A m, n \in toWorker' : m.kind = "job" /\ n.kind = "job" /\ m.job = n.job => m = n
  BY DEF IInv, JobsInv
<1>3. Injective(queue')
  BY DEF IInv, JobsInv
<1> QED BY <1>1, <1>2, <1>3 DEF JobsInv

\* The runtime begins to stop the worker.
LEMMA StopStep ==
    ASSUME IInv, StopWorker
    PROVE  IInv'
<1>1. /\ stop' = "executors" /\ toWorker' = toWorker \cup {Command("executorShutdown")}
      /\ UNCHANGED <<receiveVars, sendVars, RUNNING_JOBS, submitted, known, toMaster>>
      /\ UNCHANGED <<params, error, files, queue, lost, running, pool>>
  BY DEF StopWorker, agentVars, taskVars, threadVars
<1>2. /\ toWorker' \subseteq ToWorker /\ \A j : Sent(j)' <=> Sent(j)
      /\ \A m \in toWorker' : m.kind = "job" => m \in toWorker
  BY <1>1, CommandSent
<1>3. JobsInv'
  BY <1>1, <1>2, PlacesStay DEF Answered
<1>4. Typed'
  BY <1>1, <1>2 DEF IInv, Typed
<1>5. SendsInv'
  BY <1>1 DEF IInv, SendsInv, sendVars
<1>6. /\ known' \subseteq files /\ \A m \in toWorker' : m.kind = "job" => m.hosted \subseteq files
  BY <1>1, <1>2 DEF IInv, FilesInv
<1>7. MasterInv' /\ OrderInv'
  BY <1>1, MessagesStay, OrderStays DEF IInv
<1> QED BY <1>1, <1>3, <1>4, <1>5, <1>6, <1>7, QuietStep

\* A version is the result of one job.
LEMMA ResultsDiffer ==
    ASSUME NEW j \in Jobs, NEW k \in Jobs, Results(j) \cap Results(k) # {}
    PROVE  j = k
<1>1. PICK p \in ToSet(ParamsOf[j]), q \in ToSet(ParamsOf[k]) :
         p.target # p.data /\ q.target # q.data /\ p.target = q.target
  BY DEF Results
<1> QED BY <1>1, TargetsAssumption

\* What the master comes to know of a job that has ended, or whose data have come.
LEMMA OrderLearns ==
    ASSUME OrderInv, UNCHANGED submitted, RUNNING_JOBS' \subseteq RUNNING_JOBS,
           NEW j \in submitted, submitted \subseteq Jobs,
           \/ known' = known \cup (DataOf(j) \cap Targets(j))
           \/ known' = known \cup Results(j) /\ j \notin RUNNING_JOBS'
           \/ known' = known
    PROVE  OrderInv'
<1>1. /\ \A i \in submitted : \A k \in Jobs : DataOf(i) \cap Results(k) \subseteq known
      /\ \A k \in Jobs : Results(k) \cap known # {} => k \in submitted \ RUNNING_JOBS
  BY DEF OrderInv
<1>2. \A i \in submitted : \A k \in Jobs : DataOf(i) \cap Results(k) \subseteq known'
  BY <1>1
<1>3. ASSUME NEW k \in Jobs, Results(k) \cap known' # {} PROVE k \in submitted \ RUNNING_JOBS'
  <2>1. CASE Results(k) \cap known # {}
    BY <1>1, <2>1
  <2>2. CASE Results(k) \cap (DataOf(j) \cap Targets(j)) # {}
    BY <1>1, <2>2
  <2>3. CASE Results(k) \cap Results(j) # {} /\ j \notin RUNNING_JOBS'
    BY <2>3, ResultsDiffer
  <2> QED BY <1>3, <2>1, <2>2, <2>3
<1> QED BY <1>2, <1>3 DEF OrderInv, DataOf, Results

\* The messages of the worker that the master receives.
LEMMA MasterStep ==
    ASSUME IInv, MasterReceives
    PROVE  IInv'
<1>1. PICK m \in toMaster :
        /\ toMaster' = toMaster \ {m}
        /\ ReceivedTaskDone(m) \/ CopiedData(m) \/ ExecutorsStopped(m) \/ ShutdownNotification(m)
        /\ UNCHANGED <<receiveVars, sendVars, params, error, files, queue, lost, running, pool>>
  BY DEF MasterReceives, agentVars, taskVars, threadVars
<1>2. Typed /\ JobsInv /\ FilesInv /\ SendsInv /\ MasterInv /\ OrderInv
  BY DEF IInv
<1>3. m \in ToMaster /\ toMaster' \subseteq ToMaster
  BY <1>1, <1>2 DEF Typed
<1>4. SendsInv'
  BY <1>1, <1>2 DEF SendsInv, sendVars
<1>5. MasterInv'
  BY <1>1, <1>2, MessagesStay
<1>6. CASE ReceivedTaskDone(m)
  <2>1. /\ m.kind = "taskDone" /\ RUNNING_JOBS' = RUNNING_JOBS \ {m.job}
        /\ known' = IF m.successful THEN known \cup Results(m.job) ELSE known
        /\ UNCHANGED <<submitted, stop, toWorker>>
    BY <1>6 DEF ReceivedTaskDone
  <2>2. PICK j \in Jobs : m.job = j
    BY <1>3, <2>1, MasterMessages
  <2>3. Answered(j) /\ ~Answered(j)' /\ \A k : k # j => (Answered(k)' <=> Answered(k))
    BY <1>1, <1>2, <2>1, <2>2 DEF MasterInv, Answered
  <2>4. JobInv(j) /\ j \in RUNNING_JOBS /\ j \in submitted
    BY <1>2, <2>3 DEF JobsInv, JobInv, Typed
  <2>5. ASSUME NEW k \in Jobs PROVE JobInv(k)'
    <3>1. JobInv(k) /\ (Sent(k)' <=> Sent(k)) /\ (Enqueued(k)' <=> Enqueued(k))
      BY <1>1, <1>2, <2>1 DEF JobsInv, Sent, Enqueued
    <3>2. CASE k # j
      BY <1>1, <2>1, <2>2, <2>3, <3>1, <3>2, PlaceStays DEF SamePlace
    <3>3. CASE k = j
      <4>1. k \in DOMAIN params /\ params[k] = 0 /\ ~Sent(k) /\ ~Enqueued(k) /\ k \notin running
        BY <2>3, <2>4, <3>3 DEF JobInv
      <4>2. ~Waits(k)' /\ k \notin RUNNING_JOBS'
        BY <1>1, <2>1, <2>2, <3>3, <4>1 DEF Waits
      <4> QED BY <1>1, <2>3, <3>1, <3>3, <4>1, <4>2 DEF JobInv
    <3> QED BY <3>2, <3>3
  <2>6. JobsInv'
    BY <1>1, <1>2, <2>1, <2>5 DEF JobsInv, Injective
  <2>7. known' \subseteq files
    <3>1. m.successful => Targets(j) \subseteq files
      BY <1>2, <2>1, <2>2 DEF MasterInv, Present
    <3>2. Results(j) \subseteq Targets(j)
      BY DEF Results, Targets
    <3> QED BY <1>2, <2>1, <2>2, <3>1, <3>2 DEF FilesInv
  <2>8. Typed'
    BY <1>1, <1>2, <1>3, <2>1, <2>7 DEF Typed
  <2>9. OrderInv'
    <3>1. known' = known \/ (known' = known \cup Results(j) /\ j \notin RUNNING_JOBS')
      BY <2>1, <2>2
    <3>2. RUNNING_JOBS' \subseteq RUNNING_JOBS /\ submitted \subseteq Jobs /\ UNCHANGED submitted
      BY <1>2, <2>1 DEF Typed
    <3> QED BY <1>2, <2>4, <3>1, <3>2, OrderLearns
  <2> QED BY <1>1, <1>2, <1>4, <1>5, <2>1, <2>6, <2>7, <2>8, <2>9, QuietStep DEF FilesInv
<1>7. CASE ~ReceivedTaskDone(m)
  <2>1. m.kind # "taskDone" /\ UNCHANGED <<RUNNING_JOBS, submitted>>
    BY <1>1, <1>7 DEF CopiedData, ExecutorsStopped, ShutdownNotification
  <2>2. \A j \in Jobs : Answered(j)' <=> Answered(j)
    BY <1>1, <2>1 DEF Answered
  <2>3. /\ toWorker' \subseteq ToWorker /\ \A j : Sent(j)' <=> Sent(j)
        /\ \A n \in toWorker' : n.kind = "job" => n \in toWorker
    <3>1. CASE toWorker' = toWorker
      BY <1>2, <3>1 DEF Typed, Sent
    <3>2. CASE toWorker' = toWorker \cup {Command("shutdown")}
      BY <3>2, CommandSent
    <3> QED BY <1>1, <1>7, <3>1, <3>2 DEF CopiedData, ExecutorsStopped, ShutdownNotification
  <2>4. JobsInv'
    BY <1>1, <2>1, <2>2, <2>3, PlacesStay
  <2>5. known' \subseteq files /\ OrderInv'
    <3>1. CASE CopiedData(m)
      <4>1. m.kind = "dataReceived" /\ known' = known \cup (DataOf(m.job) \cap Targets(m.job))
        BY <3>1 DEF CopiedData
      <4>2. m.job \in DOMAIN params /\ Targets(m.job) \subseteq files
        BY <1>2, <4>1 DEF MasterInv, Present
      <4>3. m.job \in submitted /\ submitted \subseteq Jobs /\ UNCHANGED submitted
        BY <1>2, <2>1, <4>2 DEF Typed
      <4>4. RUNNING_JOBS' \subseteq RUNNING_JOBS
        BY <2>1
      <4>5. OrderInv'
        BY <1>2, <4>1, <4>3, <4>4, OrderLearns
      <4> QED BY <1>2, <4>1, <4>2, <4>5 DEF FilesInv
    <3>2. CASE known' = known
      BY <1>2, <2>1, <3>2, OrderStays DEF FilesInv
    <3> QED BY <1>1, <1>7, <3>1, <3>2 DEF ExecutorsStopped, ShutdownNotification
  <2>6. stop' \in {"no", "executors", "worker", "done"}
    BY <1>1, <1>2, <1>7 DEF CopiedData, ExecutorsStopped, ShutdownNotification, Typed
  <2>7. Typed'
    BY <1>1, <1>2, <1>3, <2>1, <2>3, <2>5, <2>6 DEF Typed
  <2> QED BY <1>1, <1>2, <1>4, <1>5, <2>3, <2>4, <2>5, <2>7, QuietStep DEF FilesInv
<1> QED BY <1>6, <1>7

\* A command that is received changes the place of no job.
LEMMA CommandTaken ==
    ASSUME IInv, NEW m \in toWorker, m.kind # "job", toWorker' = toWorker \ {m}
    PROVE  /\ toWorker' \subseteq ToWorker /\ \A j : Sent(j)' <=> Sent(j)
           /\ \A n \in toWorker' : n.kind = "job" => n \in toWorker
BY DEF Sent, IInv, Typed

\* The steps that only send messages that are no answers.
LEMMA SendsOnly ==
    ASSUME IInv, Send({}), SendsInv', pool' \in {"up", "stopping", "down"},
           toWorker' \subseteq ToWorker, \A j : Sent(j)' <=> Sent(j),
           \A n \in toWorker' : n.kind = "job" => n \in toWorker,
           UNCHANGED <<receiveVars, masterVars, taskVars, running>>
    PROVE  IInv'
<1>1. Typed /\ JobsInv /\ FilesInv
  BY DEF IInv
<1>2. /\ toMaster' \subseteq ToMaster
      /\ \A m : m.kind \in {"taskDone", "dataReceived"} => (m \in toMaster' <=> m \in toMaster)
  BY <1>1, Sends
<1>3. /\ UNCHANGED <<RUNNING_JOBS, submitted, params, error, queue, running>>
      /\ UNCHANGED <<known, stop, files, lost>>
  BY DEF masterVars, taskVars
<1>4. JobsInv'
  <2>1. \A j \in Jobs : Answered(j)' <=> Answered(j)
    BY <1>2 DEF Answered
  <2> QED BY <1>3, <2>1, PlacesStay
<1>5. Typed'
  BY <1>1, <1>2, <1>3 DEF Typed
<1>6. /\ known' \subseteq files /\ \A m \in toWorker' : m.kind = "job" => m.hosted \subseteq files
  BY <1>1, <1>3 DEF FilesInv
<1>7. MasterInv' /\ OrderInv'
  BY <1>2, <1>3, MessagesStay, OrderStays DEF IInv
<1> QED BY <1>2, <1>3, <1>4, <1>5, <1>6, <1>7, QuietStep

\* The commands the worker receives.
LEMMA CommandStep ==
    ASSUME IInv, NEW m \in toWorker, toWorker' = toWorker \ {m}, UNCHANGED masterVars,
           ShutdownExecutionManager(m) \/ ReceivedShutdown(m)
    PROVE  IInv'
<1>1. m.kind # "job"
  BY DEF ShutdownExecutionManager, ReceivedShutdown
<1>2. /\ toWorker' \subseteq ToWorker /\ \A j : Sent(j)' <=> Sent(j)
      /\ \A n \in toWorker' : n.kind = "job" => n \in toWorker
  BY <1>1, CommandTaken
<1>3. UNCHANGED <<receiveVars, taskVars, running>> /\ UNCHANGED <<sendTransfers, sending>>
  BY DEF ShutdownExecutionManager, ReceivedShutdown, agentVars, threadVars, sendVars
<1>4. pool' \in {"up", "stopping", "down"}
  BY DEF IInv, Typed, ShutdownExecutionManager, ReceivedShutdown, threadVars
<1>5. SendsInv'
  BY <1>3 DEF IInv, SendsInv
<1>6. Send({})
  <2>1. CASE ShutdownExecutionManager(m)
    BY <2>1 DEF ShutdownExecutionManager, Send
  <2>2. CASE ReceivedShutdown(m)
    BY <2>2 DEF ReceivedShutdown
  <2> QED BY <2>1, <2>2
<1> QED BY <1>2, <1>3, <1>4, <1>5, <1>6, SendsOnly

\* The data that others demand take send slots and give them back.
LEMMA DemandStep ==
    ASSUME IInv, SendDemanded \/ SendEnds
    PROVE  IInv'
<1>1. /\ UNCHANGED <<receiveVars, masterVars, taskVars, running>> /\ UNCHANGED <<toWorker, pool>>
  BY DEF SendDemanded, SendEnds, threadVars
<1>2. Send({})
  <2>1. CASE SendDemanded
    BY <2>1 DEF SendDemanded, Send
  <2>2. CASE SendEnds
    BY <2>2 DEF SendEnds
  <2> QED BY <2>1, <2>2
<1>3. sendTransfers \in 0 .. MaxSend /\ sending \in 0 .. sendTransfers /\ MaxSend \in Nat
  BY AgentAssumption DEF IInv, SendsInv
<1>4. SendsInv'
  <2>1. CASE \E exists \in BOOLEAN : SendData(exists)
    BY <1>3, <2>1 DEF SendData, SendsInv
  <2>2. CASE ReleaseSendSlot
    BY <1>3, <2>2 DEF ReleaseSendSlot, SendsInv
  <2>3. CASE ExtraSendEnds
    BY <1>3, <2>3 DEF ExtraSendEnds, SendsInv
  <2> QED BY <2>1, <2>2, <2>3 DEF SendDemanded, SendEnds
<1>5. pool' \in {"up", "stopping", "down"} /\ toWorker' \subseteq ToWorker
  BY <1>1 DEF IInv, Typed
<1>6. /\ \A j : Sent(j)' <=> Sent(j)
      /\ \A n \in toWorker' : n.kind = "job" => n \in toWorker
  BY <1>1 DEF Sent
<1> QED BY <1>1, <1>2, <1>4, <1>5, <1>6, SendsOnly

\* The threads end.
LEMMA ThreadsStep ==
    ASSUME IInv, ThreadsEnd
    PROVE  IInv'
<1>1. /\ pool' = "down" /\ toMaster' = toMaster \cup {Command("executorShutdownACK")}
      /\ UNCHANGED <<receiveVars, sendVars, RUNNING_JOBS, submitted, known, stop, toWorker>>
      /\ UNCHANGED <<params, error, files, queue, lost, running>>
  BY DEF ThreadsEnd, agentVars, masterVars, taskVars
<1>2. /\ Command("executorShutdownACK") \in ToMaster
      /\ Command("executorShutdownACK").kind = "executorShutdownACK"
  BY DEF ToMaster, Command
<1>3. \A j : (Sent(j)' <=> Sent(j)) /\ (Answered(j)' <=> Answered(j))
  BY <1>1, <1>2 DEF Sent, Answered
<1>4. \A m \in toWorker' : m.kind = "job" => m \in toWorker
  BY <1>1
<1>5. JobsInv'
  BY <1>1, <1>3, <1>4, PlacesStay
<1>6. Typed'
  BY <1>1, <1>2 DEF IInv, Typed
<1>7. SendsInv'
  BY <1>1 DEF IInv, SendsInv, sendVars
<1>8. /\ known' \subseteq files /\ \A m \in toWorker' : m.kind = "job" => m.hosted \subseteq files
  BY <1>1 DEF IInv, FilesInv
<1>9. MasterInv' /\ OrderInv'
  BY <1>1, <1>2, MessagesStay, OrderStays DEF IInv
<1> QED BY <1>1, <1>5, <1>6, <1>7, <1>8, <1>9, QuietStep

\* The first of a list without repetition, and the others.
LEMMA FirstTaken ==
    ASSUME NEW S, NEW s \in Seq(S), Injective(s), s # <<>>
    PROVE  /\ Head(s) \in ToSet(s) /\ Head(s) \in S
           /\ Tail(s) \in Seq(S) /\ Injective(Tail(s)) /\ ToSet(Tail(s)) = ToSet(s) \ {Head(s)}
<1>1. /\ Len(s) \in Nat \ {0} /\ DOMAIN s = 1 .. Len(s) /\ Head(s) = s[1]
      /\ Tail(s) \in Seq(S) /\ DOMAIN Tail(s) = 1 .. Len(s) - 1
      /\ \A i \in 1 .. Len(s) - 1 : Tail(s)[i] = s[i + 1]
  OBVIOUS
<1>2. Injective(Tail(s))
  BY <1>1 DEF Injective
<1>3. ASSUME NEW x PROVE x \in ToSet(Tail(s)) <=> x \in ToSet(s) /\ x # Head(s)
  <2>1. ASSUME x \in ToSet(Tail(s)) PROVE x \in ToSet(s) /\ x # Head(s)
    BY <1>1, <2>1 DEF Injective, ToSet
  <2>2. ASSUME x \in ToSet(s), x # Head(s) PROVE x \in ToSet(Tail(s))
    <3>1. PICK i \in 1 .. Len(s) : s[i] = x
      BY <1>1, <2>2 DEF ToSet
    <3>2. i - 1 \in 1 .. Len(s) - 1 /\ Tail(s)[i - 1] = s[i]
      BY <1>1, <2>2, <3>1
    <3> QED BY <1>1, <3>1, <3>2 DEF ToSet
  <2> QED BY <2>1, <2>2
<1>4. Head(s) \in ToSet(s) /\ Head(s) \in S
  BY <1>1 DEF ToSet
<1> QED BY <1>1, <1>2, <1>3, <1>4

\* A thread takes a job.
LEMMA DequeueStep ==
    ASSUME IInv, Dequeue
    PROVE  IInv'
<1> PICK j : j = Head(queue)
  OBVIOUS
<1>1. /\ queue # <<>> /\ Cardinality(running) < Pool
      /\ running' = running \cup {j} /\ queue' = Tail(queue)
      /\ UNCHANGED <<receiveVars, sendVars, RUNNING_JOBS, submitted, known, stop, toWorker, toMaster>>
      /\ UNCHANGED <<params, error, files, lost, pool>>
  BY DEF Dequeue, agentVars, masterVars
<1>2. Typed /\ JobsInv /\ FilesInv /\ SendsInv
  BY DEF IInv
<1>3. queue \in Seq(Jobs) /\ Injective(queue)
  BY <1>2 DEF Typed, JobsInv
<1>4. /\ j \in ToSet(queue) /\ j \in Jobs
      /\ queue' \in Seq(Jobs) /\ Injective(queue') /\ ToSet(queue') = ToSet(queue) \ {j}
  BY <1>1, <1>3, FirstTaken
<1>5. Enqueued(j) /\ ~Enqueued(j)' /\ \A k : k # j => (Enqueued(k)' <=> Enqueued(k))
  <2>1. \A k : (Enqueued(k) <=> k \in ToSet(queue)) /\ (Enqueued(k)' <=> k \in ToSet(queue'))
    BY DEF Enqueued, ToSet
  <2> QED BY <1>4, <2>1
<1>6. IsFiniteSet(running') /\ Cardinality(running') <= Pool
  <2>1. j \notin running
    BY <1>2, <1>4, <1>5 DEF JobsInv, JobInv
  <2>2. IsFiniteSet(running) /\ Cardinality(running) \in Nat /\ Pool \in Nat
    BY <1>2, FS_CardinalityType, WorkerAssumption DEF Typed
  <2>3. IsFiniteSet(running') /\ Cardinality(running') = Cardinality(running) + 1
    BY <1>1, <2>1, <2>2, FS_AddElement
  <2> QED BY <1>1, <2>2, <2>3
<1>7. Typed'
  <2>1. running' \subseteq Jobs
    BY <1>1, <1>2, <1>4 DEF Typed
  <2> QED BY <1>1, <1>2, <1>4, <1>6, <2>1 DEF Typed
<1>8. ASSUME NEW k \in Jobs PROVE JobInv(k)'
  <2>1. JobInv(k) /\ (Sent(k)' <=> Sent(k)) /\ (Answered(k)' <=> Answered(k)) /\ (Waits(k)' <=> Waits(k))
    BY <1>1, <1>2 DEF JobsInv, Sent, Answered, Waits
  <2>2. CASE k # j
    BY <1>1, <1>5, <2>1, <2>2, PlaceStays DEF SamePlace
  <2>3. CASE k = j
    <3>1. Enqueued(k) /\ ~Enqueued(k)' /\ k \in running' /\ k \notin running
      BY <1>1, <1>5, <2>1, <2>3 DEF JobInv
    <3> QED BY <1>1, <2>1, <3>1 DEF JobInv
  <2> QED BY <2>2, <2>3
<1>9. JobsInv'
  <2>1. \A m, n \in toWorker' : m.kind = "job" /\ n.kind = "job" /\ m.job = n.job => m = n
    BY <1>1, <1>2 DEF JobsInv
  <2> QED BY <1>4, <1>8, <2>1 DEF JobsInv
<1>10. SendsInv'
  BY <1>1, <1>2 DEF SendsInv, sendVars
<1>11. /\ known' \subseteq files
       /\ \A m \in toWorker' : m.kind = "job" => m.hosted \subseteq files
  BY <1>1, <1>2 DEF FilesInv
<1>12. MasterInv' /\ OrderInv'
  BY <1>1, MessagesStay, OrderStays DEF IInv
<1> QED BY <1>1, <1>7, <1>9, <1>10, <1>11, <1>12, QuietStep

\* A job ends.
LEMMA ExecuteStep ==
    ASSUME IInv, NEW j \in Jobs, ExecuteJob(j)
    PROVE  IInv'
<1> PICK new : /\ \E successful \in BOOLEAN : new = TaskDone(j, successful)
               /\ toMaster' = toMaster \cup {new}
  BY DEF ExecuteJob
<1>1. /\ j \in running /\ running' = running \ {j} /\ toMaster' = toMaster \cup {new}
      /\ UNCHANGED <<receiveVars, sendVars, RUNNING_JOBS, submitted, known, stop, toWorker>>
      /\ UNCHANGED <<params, error, files, queue, lost, pool>>
  BY DEF ExecuteJob, agentVars, masterVars, taskVars
<1>2. /\ Typed /\ JobsInv /\ FilesInv /\ SendsInv /\ MasterInv
      /\ new \in ToMaster /\ new.kind = "taskDone" /\ new.job = j
  BY MessagesDiffer DEF IInv, ToMaster, TaskDone
<1>3. IsFiniteSet(running') /\ Cardinality(running') <= Pool
  <2>1. /\ IsFiniteSet(running) /\ Cardinality(running) \in Nat /\ Pool \in Nat
        /\ Cardinality(running) <= Pool
    BY <1>2, FS_CardinalityType, WorkerAssumption DEF Typed
  <2>2. IsFiniteSet(running') /\ Cardinality(running') = Cardinality(running) - 1
    BY <1>1, <2>1, FS_RemoveElement
  <2> QED BY <2>1, <2>2
<1>4. Typed'
  <2>1. running' \subseteq Jobs /\ toMaster' \subseteq ToMaster
    BY <1>1, <1>2 DEF Typed
  <2> QED BY <1>1, <1>2, <1>3, <2>1 DEF Typed
<1>5. ASSUME NEW k \in Jobs PROVE JobInv(k)'
  <2>1. JobInv(k) /\ (Sent(k)' <=> Sent(k)) /\ (Enqueued(k)' <=> Enqueued(k)) /\ (Waits(k)' <=> Waits(k))
    BY <1>1, <1>2 DEF JobsInv, Sent, Enqueued, Waits
  <2>2. CASE k # j
    <3>1. Answered(k)' <=> Answered(k)
      BY <1>1, <1>2, <2>2 DEF Answered
    <3> QED BY <1>1, <2>1, <2>2, <3>1, PlaceStays DEF SamePlace
  <2>3. CASE k = j
    <3>1. Answered(k)' /\ k \notin running' /\ k \in running /\ ~Answered(k) /\ ~Enqueued(k)
      BY <1>1, <1>2, <2>1, <2>3 DEF JobInv, Answered
    <3> QED BY <1>1, <2>1, <3>1 DEF JobInv
  <2> QED BY <2>2, <2>3
<1>6. JobsInv'
  <2>1. \A m, n \in toWorker' : m.kind = "job" /\ n.kind = "job" /\ m.job = n.job => m = n
    BY <1>1, <1>2 DEF JobsInv
  <2>2. Injective(queue')
    BY <1>1, <1>2 DEF JobsInv
  <2> QED BY <1>5, <2>1, <2>2 DEF JobsInv
<1>7. SendsInv'
  BY <1>1, <1>2 DEF SendsInv, sendVars
<1>8. /\ known' \subseteq files
      /\ \A m \in toWorker' : m.kind = "job" => m.hosted \subseteq files
  BY <1>1, <1>2 DEF FilesInv
<1>9. MasterInv'
  <2>1. JobInv(j) /\ Counted
    BY <1>2 DEF JobsInv, IInv, Counted, Typed
  <2>2. ~Answered(j) /\ j \in DOMAIN params \ error /\ params[j] = 0
    BY <1>1, <2>1 DEF JobInv
  <2>3. Targets(j) \subseteq files
    BY <1>2, <2>1, <2>2, FilesThere DEF Whole
  <2>4. Present(new)' /\ \A m : Present(m) => Present(m)'
    BY <1>1, <1>2, <2>2, <2>3 DEF Present, Targets
  <2>5. \A m \in toMaster : m.kind = "taskDone" => m.job # j
    BY <2>2 DEF Answered
  <2>6. \A m, n \in toMaster' : m.kind = "taskDone" /\ n.kind = "taskDone" /\ m.job = n.job => m = n
    BY <1>1, <1>2, <2>5 DEF MasterInv
  <2> QED BY <1>1, <1>2, <2>4, <2>6 DEF MasterInv
<1>10. OrderInv'
  BY <1>1, OrderStays DEF IInv
<1> QED BY <1>1, <1>4, <1>6, <1>7, <1>8, <1>9, <1>10, QuietStep

-----------------------------------------------------------------------------
(* A job arrives.                                                          *)

\* Requests of jobs without an answer.
Live(q) == IsRequest(q) /\ q.job \in RUNNING_JOBS

\* What a job without an answer writes, no job reads, nor writes another one.
LEMMA Apart ==
    ASSUME OrderInv, RUNNING_JOBS \subseteq submitted, NEW q, NEW r, Live(q), Live(r)
    PROVE  /\ q.target \in Names /\ q.data \in Names
           /\ q.target = r.target => q.data = r.data
           /\ q.target = r.data => q.target = q.data
           /\ q.data = r.data /\ q.target # q.data /\ r.target # r.data =>
                 q.job = r.job /\ q.target = r.target
<1>1. ASSUME NEW s, IsRequest(s)
      PROVE  \E p \in ToSet(ParamsOf[s.job]) :
                p.data = s.data /\ p.target = s.target /\ p \in [data : Names, target : Names]
  <2>1. s.job \in Jobs /\ s \in RequestsOf(s.job)
    BY <1>1 DEF IsRequest
  <2>2. /\ ParamsOf[s.job] \in Seq([data : Names, target : Names])
        /\ s.param \in DOMAIN ParamsOf[s.job] /\ s = Request(s.job, s.param)
    BY <2>1, RequestsAre
  <2>3. s.data = ParamsOf[s.job][s.param].data /\ s.target = ParamsOf[s.job][s.param].target
    BY <2>2 DEF Request
  <2>4. PICK p : p = ParamsOf[s.job][s.param]
    OBVIOUS
  <2>5. p \in ToSet(ParamsOf[s.job])
    BY <2>2, <2>4 DEF ToSet
  <2>6. p \in [data : Names, target : Names]
    <3>1. /\ ParamsOf[s.job] \in Seq([data : Names, target : Names])
          /\ s.param \in DOMAIN ParamsOf[s.job]
      BY <2>2
    <3> QED BY <2>4, <3>1, ElementOf
  <2> QED BY <2>3, <2>4, <2>5, <2>6
<1>2. ASSUME NEW s, NEW t, Live(s), Live(t),
             NEW p \in ToSet(ParamsOf[s.job]), NEW o \in ToSet(ParamsOf[t.job]), p.target # p.data
      PROVE  /\ p.target # o.data
             /\ o.target # o.data /\ (p.target = o.target \/ p.data = o.data) => s.job = t.job /\ p = o
  <2>1. s.job \in Jobs /\ t.job \in Jobs /\ s.job \in RUNNING_JOBS /\ t.job \in submitted
    BY <1>2 DEF Live, IsRequest
  <2>2. /\ s.job = t.job => p.target # o.data
        /\ o.target # o.data /\ (p.target = o.target \/ p.data = o.data) => s.job = t.job /\ p = o
    BY <1>2, <2>1, TargetsAssumption
  <2>3. ASSUME p.target = o.data PROVE FALSE
    <3>1. p.target \in Results(s.job) /\ o.data \in DataOf(t.job)
      BY <1>2 DEF Results, DataOf
    <3>2. p.target \in known
      BY <2>1, <2>3, <3>1 DEF OrderInv
    <3> QED BY <2>1, <3>1, <3>2 DEF OrderInv
  <2> QED BY <2>2, <2>3
<1>3. PICK p \in ToSet(ParamsOf[q.job]) :
        p.data = q.data /\ p.target = q.target /\ p \in [data : Names, target : Names]
  BY <1>1 DEF Live
<1>4. PICK o \in ToSet(ParamsOf[r.job]) :
        o.data = r.data /\ o.target = r.target /\ o \in [data : Names, target : Names]
  BY <1>1 DEF Live
<1>5. p.target # p.data =>
        /\ p.target # o.data
        /\ o.target # o.data /\ (p.target = o.target \/ p.data = o.data) => q.job = r.job /\ p = o
  BY <1>2, <1>3, <1>4
<1>6. o.target # o.data => o.target # p.data
  BY <1>2, <1>3, <1>4
<1>7. q.target \in Names /\ q.data \in Names
  BY <1>3
<1> QED BY <1>3, <1>4, <1>5, <1>6, <1>7

\* A request that has not been answered.
LEMMA OpenIsLive ==
    ASSUME IInv, NEW q \in dataToRequests
    PROVE  Live(q)
<1>1. IsRequest(q) /\ q.job \in DOMAIN params /\ q.job \in Jobs
  BY DEF IInv, RequestsInv, IsRequest
<1>2. Counted /\ JobInv(q.job)
  BY <1>1 DEF IInv, Counted, Typed, JobsInv
<1>3. params[q.job] \in Nat /\ params[q.job] # 0
  BY <1>1, <1>2, Misses DEF Open
<1>4. Waits(q.job)
  BY <1>1, <1>3 DEF Waits
<1> QED BY <1>1, <1>2, <1>4 DEF JobInv, Live

\* The first of the requests for a datum is for a file that is missing: the worker asks for
\* one that is there only after another request for the datum.
LEMMA FirstsMiss ==
    ASSUME NEW j \in Jobs, NEW there, NEW hosted, NEW r \in FirstRequests(AskedBy(j, there, hosted))
    PROVE  r.target \notin there /\ r.data \notin hosted
<1> PICK asked : asked = AskedBy(j, there, hosted)
  OBVIOUS
<1>1. /\ r \in asked /\ \A q \in dataToRequests : q.data # r.data
      /\ \A q \in asked : q.data = r.data => r.param <= q.param
  BY DEF FirstRequests
<1>2. PICK i \in DOMAIN ParamsOf[j] : r = Request(j, i) /\ AsksFor(j, i, there, hosted)
  BY <1>1 DEF AskedBy
<1>3. r.data = ParamsOf[j][i].data /\ r.target = ParamsOf[j][i].target /\ r.param = i
  BY <1>2 DEF Request
<1>4. DOMAIN ParamsOf[j] = 1 .. Len(ParamsOf[j]) /\ Len(ParamsOf[j]) \in Nat
  BY RequestsAre
<1>5. ASSUME NEW k \in 1 .. i - 1, ParamsOf[j][k].data = r.data, Missing(ParamsOf[j][k], there, hosted)
      PROVE  FALSE
  <2>1. k \in DOMAIN ParamsOf[j] /\ ~(i <= k)
    BY <1>4
  <2>2. Request(j, k) \in asked
    BY <1>5, <2>1 DEF AskedBy, AsksFor
  <2>3. Request(j, k).data = r.data /\ Request(j, k).param = k
    BY <1>5 DEF Request
  <2> QED BY <1>1, <1>3, <2>1, <2>2, <2>3
<1>6. Missing(ParamsOf[j][i], there, hosted)
  BY <1>1, <1>2, <1>3, <1>5 DEF AsksFor
<1> QED BY <1>3, <1>6 DEF Missing

\* When a job arrives each of its files is there, or asked for, and what is being transferred
\* under its own name is not there.
LEMMA NewTaskFiles ==
    ASSUME IInv, NEW j \in Jobs, j \in RUNNING_JOBS, NEW begun, NEW hosted, hosted \subseteq files, NEW asked,
           Arrives(j, begun, hosted, asked)
    PROVE  /\ files \subseteq files' /\ files' \subseteq Names
           /\ \A q \in RequestsOf(j) : q.target \in files' \/ q \in asked
           /\ \A r \in Transfers \cup FirstRequests(asked) : r.target = r.data => r.data \notin files'
<1> PICK copied : copied = CopiedFor(j, begun, hosted)
  OBVIOUS
<1>0. OrderInv /\ RUNNING_JOBS \subseteq submitted
  BY DEF IInv, Typed
<1>1. /\ begun \subseteq {r.target : r \in ongoingTransfers}
      /\ asked = AskedBy(j, files \cup begun, hosted)
      /\ files' = files \cup copied
  BY DEF Arrives
<1>2. /\ files \subseteq Names
      /\ \A r \in Transfers : r.target = r.data => r.data \notin files
  BY DEF IInv, Typed, FilesInv
<1>3. \A r \in Transfers : r \in dataToRequests /\ Live(r)
  BY OpenIsLive DEF IInv, RequestsInv, Shared
<1>4. /\ \A q \in RequestsOf(j) : Live(q)
      /\ \A f \in copied : \E q \in RequestsOf(j) : q.target = f /\ q.data \in hosted
  BY FilesOf, RequestsAre DEF Live
<1>5. \A f \in copied : f \in Names
  BY <1>4, <1>0, Apart
<1>6. ASSUME NEW q \in RequestsOf(j), q \notin asked PROVE q.target \in files'
  <2>1. PICK i \in DOMAIN ParamsOf[j] : q = Request(j, i)
    BY DEF RequestsOf
  <2>2. PICK p : p = ParamsOf[j][i]
    OBVIOUS
  <2>3. q.target = p.target /\ q.data = p.data
    BY <2>1, <2>2 DEF Request
  <2>4. ~AsksFor(j, i, files \cup begun, hosted)
    BY <1>1, <1>6, <2>1 DEF AskedBy
  <2>5. ASSUME p.target \in begun, p.target \notin files PROVE FALSE
    <3>1. PICK r \in ongoingTransfers : r.target = p.target
      BY <1>1, <2>5
    <3>2. r \in dataToRequests /\ Live(r)
      BY <1>3 DEF Transfers
    <3>3. r.data = p.data
      BY <1>0, <1>4, <2>3, <3>1, <3>2, Apart
    <3> QED BY <2>2, <2>4, <2>5, <3>2, <3>3 DEF AsksFor
  <2>6. ASSUME p.target \notin begun, p.target \notin files PROVE p.target \in copied
    <3>1. p.data \in hosted
      BY <2>2, <2>4, <2>6 DEF AsksFor, Missing
    <3>2. p \in ToSet(ParamsOf[j])
      BY <2>1, <2>2 DEF ToSet
    <3> QED BY <2>6, <3>1, <3>2 DEF CopiedFor
  <2> QED BY <1>1, <2>3, <2>5, <2>6
<1>7. ASSUME NEW r, Live(r), r.target = r.data, r.data \notin files, r.data \notin hosted
      PROVE  r.data \notin files'
  <2>1. SUFFICES ASSUME r.data \in copied PROVE FALSE
    BY <1>1, <1>7
  <2>2. PICK q \in RequestsOf(j) : q.target = r.data /\ q.data \in hosted
    BY <1>4, <2>1
  <2>3. q.target = q.data
    BY <1>0, <1>4, <1>7, <2>2, Apart
  <2> QED BY <1>7, <2>2, <2>3
<1>8. ASSUME NEW r \in FirstRequests(asked)
      PROVE  Live(r) /\ r.target \notin files /\ r.data \notin hosted
  <2>1. r.target \notin files /\ r.data \notin hosted
    BY <1>1, FirstsMiss
  <2>2. r \in RequestsOf(j)
    BY <1>1 DEF FirstRequests, AskedBy, RequestsOf
  <2> QED BY <1>4, <2>1, <2>2
<1>9. ASSUME NEW r \in Transfers \cup FirstRequests(asked), r.target = r.data
      PROVE  r.data \notin files'
  <2>1. CASE r \in Transfers
    BY <1>2, <1>3, <1>7, <1>9, <2>1
  <2>2. CASE r \in FirstRequests(asked)
    BY <1>7, <1>8, <1>9, <2>2
  <2> QED BY <2>1, <2>2
<1> QED BY <1>1, <1>2, <1>5, <1>6, <1>9

\* receivedNewTask.
LEMMA NewTaskStep ==
    ASSUME IInv, NEW m \in toWorker, toWorker' = toWorker \ {m}, UNCHANGED masterVars,
           ReceivedNewTask(m)
    PROVE  IInv'
<1>1. /\ m.kind = "job" /\ UNCHANGED <<sendVars, error, lost, running, pool>>
      /\ UNCHANGED <<RUNNING_JOBS, submitted, known, stop>>
      /\ \E begun, asked : Arrives(m.job, begun, m.hosted, asked)
  BY NewTaskIs DEF threadVars, masterVars
<1> PICK j, hosted : j = m.job /\ hosted = m.hosted
  OBVIOUS
<1>2. PICK begun, asked : Arrives(j, begun, hosted, asked)
  BY <1>1
<1>3. /\ RequestsInv /\ MissingCounted /\ Typed /\ JobsInv /\ FilesInv /\ SendsInv
      /\ MasterInv /\ OrderInv
  BY DEF IInv
<1>4. j \in Jobs /\ hosted \subseteq files
  BY <1>1, <1>3, WorkerMessages DEF Typed, FilesInv
<1>5. JobInv(j) /\ Sent(j) /\ j \in submitted /\ j \in RUNNING_JOBS /\ j \notin DOMAIN params
  BY <1>1, <1>3, <1>4 DEF JobsInv, JobInv, Sent
<1>6. Counted
  BY <1>3 DEF Counted, Typed
<1>7. /\ Counted' /\ asked \subseteq RequestsOf(j)
      /\ dataToRequests' = dataToRequests \cup asked
      /\ Transfers' = Transfers \cup FirstRequests(asked)
      /\ DOMAIN params' = DOMAIN params \cup {j}
      /\ params'[j] \in Nat
      /\ params'[j] = 0 <=> asked = {}
      /\ \A k \in DOMAIN params : params'[k] = params[k]
  <2>1. UNCHANGED lost
    BY <1>1
  <2>2. j \in Jobs /\ j \notin DOMAIN params
    BY <1>4, <1>5
  <2> QED BY <1>2, <1>6, <2>1, <2>2, NewTaskRequests
<1>8. /\ files \subseteq files' /\ files' \subseteq Names
      /\ \A q \in RequestsOf(j) : q.target \in files' \/ q \in asked
      /\ \A r \in Transfers \cup FirstRequests(asked) : r.target = r.data => r.data \notin files'
  BY <1>2, <1>4, <1>5, NewTaskFiles
<1> PICK ready : ready = IF asked = {} THEN {j} ELSE {}
  OBVIOUS
<1>9. ready \in SUBSET Jobs /\ IsFiniteSet(ready) /\ \A k \in ready : ~Enqueued(k)
  BY <1>4, <1>5, FS_EmptySet, FS_Singleton DEF JobInv
<1>10. ExecuteTasks(ready, {})
  BY <1>2 DEF Arrives
<1>11. /\ queue' \in Seq(Jobs) /\ Injective(queue') /\ toMaster' \subseteq ToMaster
       /\ \A k : Enqueued(k)' <=> Enqueued(k) \/ k \in ready
       /\ \A k : Answered(k)' <=> Answered(k) \/ k \in {}
       /\ \A n \in toMaster' : n.kind = "dataReceived" => n \in toMaster \/ n.job \in ready
       /\ \A n \in toMaster' : n.kind = "taskDone" => n \in toMaster \/ n.job \in {}
  <2>1. Injective(queue)
    BY <1>3 DEF JobsInv
  <2>2. {} \in SUBSET Jobs
    OBVIOUS
  <2> QED BY <1>3, <1>9, <1>10, <2>1, <2>2, Executes
<1>12. Typed'
  <2>1. params' \in [DOMAIN params' -> Nat]
    <3>1. params' = [k \in DOMAIN params' |-> params'[k]]
      BY <1>2 DEF Arrives
    <3>2. \A k \in DOMAIN params' : params'[k] \in Nat
      BY <1>3, <1>7 DEF Typed
    <3> QED BY <3>1, <3>2
  <2>2. DOMAIN params' \subseteq submitted' /\ error' \subseteq DOMAIN params' /\ toWorker' \subseteq ToWorker
    BY <1>1, <1>3, <1>5, <1>7 DEF Typed
  <2> QED BY <1>1, <1>3, <1>8, <1>11, <2>1, <2>2 DEF Typed
<1>13. \A k : Sent(k)' <=> Sent(k) /\ k # j
  <2>1. \A n \in toWorker : n.kind = "job" /\ n.job = j => n = m
    BY <1>1, <1>3 DEF JobsInv
  <2> QED BY <1>1, <2>1 DEF Sent
<1>14. ASSUME NEW k \in Jobs PROVE JobInv(k)'
  <2>1. JobInv(k)
    BY <1>3 DEF JobsInv
  <2>2. CASE k # j
    <3>1. Enqueued(k)' <=> Enqueued(k)
      BY <1>11, <2>2
    <3> QED BY <1>1, <1>7, <1>11, <1>13, <2>1, <2>2, <3>1, PlaceStays DEF SamePlace
  <2>3. CASE k = j
    <3>1. ~Enqueued(j) /\ j \notin running /\ ~Answered(j) /\ j \in RUNNING_JOBS
      BY <1>5 DEF JobInv
    <3>2. j \notin error
      BY <1>3, <1>5 DEF Typed
    <3>3. /\ ~Sent(j)' /\ j \in DOMAIN params' /\ j \notin running' /\ ~Answered(j)'
          /\ j \in RUNNING_JOBS' /\ j \notin error'
      BY <1>1, <1>7, <1>11, <1>13, <3>1, <3>2
    <3>4. Enqueued(j)' <=> asked = {}
      BY <1>11, <3>1
    <3>5. Waits(j)' <=> asked # {}
      BY <1>7, <3>3 DEF Waits
    <3> QED BY <1>7, <2>3, <3>3, <3>4, <3>5 DEF JobInv
  <2> QED BY <2>2, <2>3
<1>15. JobsInv'
  <2>1. \A n, o \in toWorker' : n.kind = "job" /\ o.kind = "job" /\ n.job = o.job => n = o
    BY <1>3 DEF JobsInv
  <2> QED BY <1>11, <1>14, <2>1 DEF JobsInv
<1>16. SendsInv'
  BY <1>1, <1>3 DEF SendsInv, sendVars
<1>17. FilesInv'
  <2>1. known' \subseteq files' /\ \A n \in toWorker' : n.kind = "job" => n.hosted \subseteq files'
    BY <1>1, <1>3, <1>8 DEF FilesInv
  <2>2. \A r \in Transfers' : r.target = r.data => r.data \notin files'
    BY <1>7, <1>8
  <2>3. ASSUME NEW k \in DOMAIN params' \ error', NEW q \in RequestsOf(k)
        PROVE  q.target \in files' \/ q \in dataToRequests' \cup lost'
    <3>1. CASE k = j
      BY <1>7, <1>8, <2>3, <3>1
    <3>2. CASE k # j
      <4>1. k \in DOMAIN params \ error
        BY <1>1, <1>7, <2>3, <3>2
      <4>2. q.target \in files \/ q \in dataToRequests \cup lost
        BY <1>3, <2>3, <4>1 DEF FilesInv
      <4> QED BY <1>1, <1>7, <1>8, <4>2
    <3> QED BY <3>1, <3>2
  <2>4. \A k \in DOMAIN params' \ error' : \A q \in RequestsOf(k)' :
          q.target \in files' \/ q \in dataToRequests' \cup lost'
    BY <2>3 DEF RequestsOf, Request
  <2> QED BY <2>1, <2>2, <2>4 DEF FilesInv
<1>18. MasterInv'
  <2>1. Whole'
    BY <1>7, <1>17, FilesThereNext
  <2>2. j \notin error'
    BY <1>1, <1>3, <1>5 DEF Typed
  <2>3. \A n \in toMaster' : n.kind = "dataReceived" =>
          n \in toMaster \/ (n.job \in DOMAIN params' \ error' /\ params'[n.job] = 0)
    BY <1>7, <1>11, <2>2
  <2>4. \A n \in toMaster' : n.kind = "taskDone" =>
          n \in toMaster \/ (~Answered(n.job) /\ n = TaskDone(n.job, FALSE))
    BY <1>11
  <2>5. DOMAIN params \subseteq DOMAIN params'
    BY <1>7
  <2> QED BY <1>3, <1>8, <2>1, <2>3, <2>4, <2>5, MessagesCome
<1>19. OrderInv'
  BY <1>1, <1>3, OrderStays
<1> QED BY <1>7, <1>12, <1>15, <1>16, <1>17, <1>18, <1>19 DEF IInv, Counted

-----------------------------------------------------------------------------
(* A transfer ends.                                                        *)

JobsAnsweredBy(answered) == {q.job : q \in answered}
Complete(answered) == {j \in DOMAIN params : CountOf(answered, j) > 0 /\ params'[j] = 0}

\* What the end of a transfer does to the jobs: those it answers miss less, and those that
\* miss nothing any more are executed, or reported to have failed.
Answers(answered, failed) ==
    /\ failed \subseteq JobsAnsweredBy(answered)
    /\ error' = error \cup failed
    /\ ExecuteTasks(Complete(answered) \ error', Complete(answered) \cap error')

\* The jobs of finitely many requests are finitely many.
LEMMA JobsFinite ==
    ASSUME NEW answered, IsFiniteSet(answered)
    PROVE  IsFiniteSet(JobsAnsweredBy(answered))
<1> PICK f : f = [q \in answered |-> q.job]
  OBVIOUS
<1>1. f \in Surjection(answered, JobsAnsweredBy(answered))
  BY DEF Surjection, JobsAnsweredBy
<1> QED BY <1>1, FS_Surjection

\* What the end of a transfer keeps for the requests and the counts.
LEMMA LeavesCounted ==
    ASSUME IInv, NEW r, NEW answered, Leaves(r, answered)
    PROVE  /\ RequestsInv' /\ MissingCounted' /\ Counted'
           /\ answered \subseteq dataToRequests /\ Requests(r) \subseteq dataToRequests
           /\ dataToRequests' = dataToRequests \ Requests(r)
           /\ Transfers' = Transfers \ {r}
           /\ DOMAIN params' = DOMAIN params
           /\ params' \in [DOMAIN params' -> Nat]
           /\ IsFiniteSet(JobsAnsweredBy(answered))
           /\ \A j \in DOMAIN params :
                 /\ params'[j] \in Nat
                 /\ CountOf(answered, j) > 0 <=> j \in JobsAnsweredBy(answered)
                 /\ j \in JobsAnsweredBy(answered) => params[j] > 0
                 /\ j \notin JobsAnsweredBy(answered) => params'[j] = params[j]
<1>1. Counted
  BY DEF IInv, Counted, Typed
<1>2. /\ Counted' /\ answered \subseteq dataToRequests /\ Requests(r) \subseteq dataToRequests
      /\ dataToRequests' = dataToRequests \ Requests(r)
      /\ Transfers' = Transfers \ {r}
      /\ DOMAIN params' = DOMAIN params
      /\ \A j \in DOMAIN params :
            /\ params'[j] \in Nat /\ CountOf(answered, j) \in Nat
            /\ CountOf(answered, j) > 0 <=> \E q \in answered : q.job = j
            /\ CountOf(answered, j) = 0 => params'[j] = params[j]
            /\ CountOf(answered, j) > 0 => params[j] > 0
  BY <1>1, LeavesRequests
<1>3. \A j : j \in JobsAnsweredBy(answered) <=> \E q \in answered : q.job = j
  BY DEF JobsAnsweredBy
<1>4. params' \in [DOMAIN params' -> Nat]
  <2>1. params' = [j \in DOMAIN params' |-> params'[j]]
    BY DEF Leaves
  <2> QED BY <1>2, <2>1
<1>5. IsFiniteSet(JobsAnsweredBy(answered))
  <2>1. IsFiniteSet(answered)
    BY <1>2, FS_Subset DEF IInv, RequestsInv
  <2> QED BY <2>1, JobsFinite
<1>6. ASSUME NEW j \in DOMAIN params
      PROVE  /\ params'[j] \in Nat
             /\ CountOf(answered, j) > 0 <=> j \in JobsAnsweredBy(answered)
             /\ j \in JobsAnsweredBy(answered) => params[j] > 0
             /\ j \notin JobsAnsweredBy(answered) => params'[j] = params[j]
  <2>1. /\ params'[j] \in Nat /\ CountOf(answered, j) \in Nat
        /\ CountOf(answered, j) > 0 <=> \E q \in answered : q.job = j
        /\ CountOf(answered, j) = 0 => params'[j] = params[j]
        /\ CountOf(answered, j) > 0 => params[j] > 0
    BY <1>2
  <2>2. CountOf(answered, j) > 0 \/ CountOf(answered, j) = 0
    BY <2>1
  <2> QED BY <1>3, <2>1, <2>2
<1> QED BY <1>2, <1>4, <1>5, <1>6 DEF Counted

\* The jobs at the end of a transfer.
LEMMA AnswersJobs ==
    ASSUME IInv, NEW r, NEW answered, Leaves(r, answered), NEW failed, Answers(answered, failed),
           UNCHANGED <<RUNNING_JOBS, submitted, known, stop, toWorker, running, pool>>,
           files' \subseteq Names
    PROVE  /\ Typed' /\ JobsInv'
           /\ \A m \in toMaster' : m.kind = "dataReceived" =>
                 m \in toMaster \/ (m.job \in DOMAIN params' \ error' /\ params'[m.job] = 0)
           /\ \A m \in toMaster' : m.kind = "taskDone" =>
                 m \in toMaster \/ (~Answered(m.job) /\ m = TaskDone(m.job, FALSE))
<1> PICK complete : complete = Complete(answered)
  OBVIOUS
<1>1. Typed /\ JobsInv /\ DOMAIN params \subseteq Jobs
  BY DEF IInv, Typed
<1>2. /\ DOMAIN params' = DOMAIN params /\ params' \in [DOMAIN params' -> Nat]
      /\ IsFiniteSet(JobsAnsweredBy(answered)) /\ answered \subseteq dataToRequests
      /\ \A j \in DOMAIN params :
            /\ params'[j] \in Nat
            /\ CountOf(answered, j) > 0 <=> j \in JobsAnsweredBy(answered)
            /\ j \in JobsAnsweredBy(answered) => params[j] > 0
            /\ j \notin JobsAnsweredBy(answered) => params'[j] = params[j]
  BY LeavesCounted
<1>3. JobsAnsweredBy(answered) \subseteq DOMAIN params
  BY <1>2 DEF IInv, RequestsInv, JobsAnsweredBy
<1>4. \A j : j \in complete <=> j \in JobsAnsweredBy(answered) /\ params'[j] = 0
  BY <1>2, <1>3 DEF Complete
<1>5. failed \subseteq JobsAnsweredBy(answered) /\ error' = error \cup failed
  BY DEF Answers
<1>6. \A j \in Jobs : JobInv(j)
  BY <1>1 DEF JobsInv
<1>7. \A j \in JobsAnsweredBy(answered) :
         j \in Jobs /\ Waits(j) /\ ~Sent(j) /\ ~Enqueued(j) /\ j \notin running /\ ~Answered(j)
  <2>1. ASSUME NEW j \in JobsAnsweredBy(answered)
        PROVE  j \in Jobs /\ Waits(j) /\ ~Sent(j) /\ ~Enqueued(j) /\ j \notin running /\ ~Answered(j)
    <3>1. j \in DOMAIN params /\ j \in Jobs /\ params[j] > 0
      BY <1>1, <1>2, <1>3
    <3>2. params[j] # 0
      BY <3>1
    <3> QED BY <1>6, <3>1, <3>2 DEF JobInv, Waits
  <2> QED BY <2>1
<1> PICK executed, reported : executed = complete \ error' /\ reported = complete \cap error'
  OBVIOUS
<1>8. executed \in SUBSET Jobs /\ reported \in SUBSET Jobs /\ IsFiniteSet(executed)
  <2>1. executed \subseteq JobsAnsweredBy(answered) /\ reported \subseteq JobsAnsweredBy(answered)
    BY <1>4
  <2> QED BY <1>2, <1>7, <2>1, FS_Subset
<1>9. \A j \in executed : ~Enqueued(j)
  BY <1>4, <1>7
<1>10. /\ queue' \in Seq(Jobs) /\ Injective(queue') /\ toMaster' \subseteq ToMaster
       /\ \A j : Enqueued(j)' <=> Enqueued(j) \/ j \in executed
       /\ \A j : Answered(j)' <=> Answered(j) \/ j \in reported
       /\ \A m \in toMaster' : m.kind = "dataReceived" => m \in toMaster \/ m.job \in executed
       /\ \A m \in toMaster' : m.kind = "taskDone" =>
             m \in toMaster \/ (m.job \in reported /\ m = TaskDone(m.job, FALSE))
  <2>1. Injective(queue) /\ Typed
    BY <1>1 DEF JobsInv
  <2>2. ExecuteTasks(executed, reported)
    BY DEF Answers
  <2> QED BY <1>8, <1>9, <2>1, <2>2, Executes
<1>11. Typed'
  <2>1. error' \subseteq DOMAIN params'
    BY <1>1, <1>2, <1>3, <1>5 DEF Typed
  <2> QED BY <1>1, <1>2, <1>10, <2>1 DEF Typed
<1>12. ASSUME NEW j \in Jobs PROVE JobInv(j)'
  <2>1. JobInv(j) /\ (Sent(j)' <=> Sent(j))
    BY <1>6 DEF Sent
  <2>2. CASE j \notin JobsAnsweredBy(answered)
    <3>1. j \notin executed /\ j \notin reported /\ j \notin failed
      BY <1>4, <1>5, <2>2
    <3>2. j \in DOMAIN params => params'[j] = params[j]
      BY <1>2, <2>2
    <3> QED BY <1>2, <1>5, <1>10, <2>1, <3>1, <3>2, PlaceStays DEF SamePlace
  <2>3. CASE j \in JobsAnsweredBy(answered)
    <3>1. j \in RUNNING_JOBS /\ j \in submitted /\ j \in DOMAIN params' /\ params'[j] \in Nat
      BY <1>1, <1>2, <1>3, <1>7, <2>1, <2>3 DEF JobInv, Typed
    <3>2. ~Sent(j)' /\ j \notin running'
      BY <1>7, <2>1, <2>3
    <3>3. /\ Enqueued(j)' <=> params'[j] = 0 /\ j \notin error'
          /\ Answered(j)' <=> params'[j] = 0 /\ j \in error'
      BY <1>4, <1>7, <1>10, <2>3
    <3>4. Waits(j)' <=> params'[j] # 0
      BY <3>1 DEF Waits
    <3>5. j \in RUNNING_JOBS'
      BY <3>1
    <3> QED BY <3>1, <3>2, <3>3, <3>4, <3>5 DEF JobInv
  <2> QED BY <2>2, <2>3
<1>13. JobsInv'
  <2>1. \A m, n \in toWorker' : m.kind = "job" /\ n.kind = "job" /\ m.job = n.job => m = n
    BY <1>1 DEF JobsInv
  <2> QED BY <1>10, <1>12, <2>1 DEF JobsInv
<1>14. \A m \in toMaster' : m.kind = "dataReceived" =>
          m \in toMaster \/ (m.job \in DOMAIN params' \ error' /\ params'[m.job] = 0)
  BY <1>2, <1>3, <1>4, <1>10
<1>15. \A m \in toMaster' : m.kind = "taskDone" =>
          m \in toMaster \/ (~Answered(m.job) /\ m = TaskDone(m.job, FALSE))
  BY <1>4, <1>7, <1>10
<1> QED BY <1>11, <1>13, <1>14, <1>15

\* The files at the end of a transfer: new ones are targets of the requests for its datum,
\* and a job whose request is answered has the file, or failed.
LEMMA AnswersFiles ==
    ASSUME IInv, NEW r, NEW answered, Leaves(r, answered),
           files \subseteq files', \A f \in files' : f \in files \/ \E q \in Requests(r) : q.target = f,
           error \subseteq error', \A q \in answered : q.target \in files' \/ q.job \in error',
           UNCHANGED <<known, toWorker>>
    PROVE  FilesInv'
<1>1. /\ RequestsInv /\ FilesInv /\ r \in ongoingTransfers
      /\ lost' = lost \cup (Requests(r) \ answered)
      /\ OrderInv /\ RUNNING_JOBS \subseteq submitted
  BY DEF IInv, Typed, Leaves
<1>2. /\ Requests(r) \subseteq dataToRequests
      /\ dataToRequests' = dataToRequests \ Requests(r)
      /\ Transfers' = Transfers \ {r} /\ DOMAIN params' = DOMAIN params
  BY LeavesCounted
<1>3. known' \subseteq files' /\ \A n \in toWorker' : n.kind = "job" => n.hosted \subseteq files'
  BY <1>1 DEF FilesInv
<1>4. ASSUME NEW j \in DOMAIN params' \ error', NEW q \in RequestsOf(j)
      PROVE  q.target \in files' \/ q \in dataToRequests' \cup lost'
  <2>1. q.target \in files \/ q \in dataToRequests \cup lost
    BY <1>1, <1>2, <1>4 DEF FilesInv
  <2>2. ASSUME q \in answered PROVE q.target \in files'
    <3>1. q.job = j
      <4>1. IsRequest(q) /\ j \in Jobs
        BY <1>1, <1>2, <2>2 DEF RequestsInv, Leaves, IInv, Typed
      <4> QED BY <4>1, RequestsAre
    <3> QED BY <1>4, <2>2, <3>1
  <2> QED BY <1>1, <1>2, <2>1, <2>2
<1>5. \A j \in DOMAIN params' \ error' : \A q \in RequestsOf(j)' :
         q.target \in files' \/ q \in dataToRequests' \cup lost'
  BY <1>4 DEF RequestsOf, Request
<1>6. ASSUME NEW x \in Transfers', x.target = x.data PROVE x.data \notin files'
  <2>1. SUFFICES ASSUME x.data \in files' PROVE FALSE
    OBVIOUS
  <2>2. x \in Transfers /\ x # r /\ r \in Transfers
    BY <1>1, <1>2, <1>6 DEF Transfers
  <2>3. x.data \notin files
    BY <1>1, <1>6, <2>2 DEF FilesInv
  <2>4. PICK q \in Requests(r) : q.target = x.data
    BY <2>1, <2>3
  <2>5. Live(q) /\ Live(x) /\ q.data = r.data
    BY <1>1, <1>2, <2>2, <2>4, OpenIsLive DEF RequestsInv, Shared, Requests
  <2>6. q.target = q.data
    BY <1>1, <1>6, <2>4, <2>5, Apart
  <2>7. x.data = r.data
    BY <2>4, <2>5, <2>6
  <2> QED BY <1>1, <2>2, <2>7 DEF RequestsInv, Shared
<1> QED BY <1>3, <1>5, <1>6 DEF FilesInv

\* The two ways a transfer ends, as answers.
LEMMA EndIs ==
    ASSUME NEW r \in ongoingTransfers, TransferEnds(r), RequestsInv, ReceivedData(r) \/ DataNotAvailable(r)
    PROVE  \E answered, failed :
              /\ Leaves(r, answered) /\ Answers(answered, failed)
              /\ files \subseteq files' /\ \A f \in files' : f \in files \/ \E q \in Requests(r) : q.target = f
              /\ \A q \in answered : q.target \in files' \/ q.job \in failed
<1>1. CASE ReceivedData(r)
  <2> PICK copies : copies = {q.target : q \in Requests(r)} \ (files \cup {r.target})
    OBVIOUS
  <2> PICK answered : answered = {q \in Requests(r) : q.target \in copies \cup {r.target}}
    OBVIOUS
  <2>1. /\ files' = files \cup {r.target} \cup copies
        /\ lost' = lost \cup (Requests(r) \ answered)
        /\ AnswerRequests(answered, {})
    BY <1>1 DEF ReceivedData
  <2>2. Leaves(r, answered)
    BY <2>1 DEF Leaves, AnswerRequests
  <2>3. Answers(answered, {})
    BY <2>1 DEF Answers, AnswerRequests, Complete
  <2>4. r \in Requests(r)
    BY DEF Requests, RequestsInv, Shared, Transfers
  <2>5. files \subseteq files' /\ \A f \in files' : f \in files \/ \E q \in Requests(r) : q.target = f
    BY <2>1, <2>4
  <2>6. \A q \in answered : q.target \in files'
    BY <2>1
  <2> QED BY <2>2, <2>3, <2>5, <2>6
<1>2. CASE DataNotAvailable(r)
  <2> PICK answered : answered = Requests(r)
    OBVIOUS
  <2> PICK failed : failed = {q.job : q \in answered}
    OBVIOUS
  <2>1. UNCHANGED <<files, lost>> /\ AnswerRequests(answered, failed)
    BY <1>2 DEF DataNotAvailable
  <2>2. Leaves(r, answered)
    BY <2>1 DEF Leaves, AnswerRequests
  <2>3. Answers(answered, failed)
    BY <2>1 DEF Answers, AnswerRequests, Complete, JobsAnsweredBy
  <2>4. files \subseteq files' /\ \A f \in files' : f \in files \/ \E q \in Requests(r) : q.target = f
    BY <2>1
  <2>5. \A q \in answered : q.target \in files' \/ q.job \in failed
    OBVIOUS
  <2> QED BY <2>2, <2>3, <2>4, <2>5
<1> QED BY <1>1, <1>2

\* receivedData, receivedRequestedDataNotAvailableError.
LEMMA TransferStep ==
    ASSUME IInv, EndOfTransfer
    PROVE  IInv'
<1>1. PICK r \in ongoingTransfers :
        /\ TransferEnds(r)
        /\ ReceivedData(r) \/ DataNotAvailable(r)
        /\ UNCHANGED <<sendVars, masterVars, toWorker, threadVars>>
  BY DEF EndOfTransfer
<1>2. PICK answered, failed :
        /\ Leaves(r, answered) /\ Answers(answered, failed)
        /\ files \subseteq files' /\ \A f \in files' : f \in files \/ \E q \in Requests(r) : q.target = f
        /\ \A q \in answered : q.target \in files' \/ q.job \in failed
  BY <1>1, EndIs DEF IInv
<1>3. /\ UNCHANGED <<RUNNING_JOBS, submitted, known, stop, toWorker, running, pool>>
      /\ UNCHANGED <<sendTransfers, sending>>
  BY <1>1 DEF masterVars, threadVars, sendVars
<1>4. /\ RequestsInv' /\ MissingCounted' /\ Counted' /\ Requests(r) \subseteq dataToRequests
      /\ DOMAIN params' = DOMAIN params
  BY <1>2, LeavesCounted
<1>5. files' \subseteq Names
  <2>1. \A q \in Requests(r) : Live(q)
    BY <1>4, OpenIsLive
  <2>2. \A q \in Requests(r) : q.target \in Names
    BY <2>1, Apart DEF IInv, Typed
  <2> QED BY <1>2, <2>2 DEF IInv, Typed
<1>6. /\ Typed' /\ JobsInv'
      /\ \A m \in toMaster' : m.kind = "dataReceived" =>
            m \in toMaster \/ (m.job \in DOMAIN params' \ error' /\ params'[m.job] = 0)
      /\ \A m \in toMaster' : m.kind = "taskDone" =>
            m \in toMaster \/ (~Answered(m.job) /\ m = TaskDone(m.job, FALSE))
  BY <1>2, <1>3, <1>5, AnswersJobs
<1>7. error \subseteq error' /\ failed \subseteq error'
  BY <1>2 DEF Answers
<1>8. UNCHANGED <<known, toWorker>>
  BY <1>3
<1>9. \A q \in answered : q.target \in files' \/ q.job \in error'
  BY <1>2, <1>7
<1>10. FilesInv'
  BY <1>2, <1>7, <1>8, <1>9, AnswersFiles
<1>11. MasterInv'
  <2>1. Whole'
    BY <1>4, <1>10, FilesThereNext
  <2>2. DOMAIN params \subseteq DOMAIN params' /\ MasterInv
    BY <1>4 DEF IInv
  <2> QED BY <1>2, <1>6, <2>1, <2>2, MessagesCome
<1>12. SendsInv'
  BY <1>3 DEF IInv, SendsInv
<1>13. OrderInv'
  BY <1>3, OrderStays DEF IInv
<1> QED BY <1>4, <1>6, <1>10, <1>11, <1>12, <1>13 DEF IInv

-----------------------------------------------------------------------------
(* The invariant, and what it implies.                                     *)

\* Nothing has been sent or asked for.
LEMMA InitInv ==
    ASSUME Init
    PROVE  IInv
<1>1. /\ dataToRequests = {} /\ pendingRequests = <<>> /\ ongoingTransfers = {}
      /\ receiveTransfers = 0 /\ refused = {} /\ sendTransfers = 0 /\ sending = 0
      /\ RUNNING_JOBS = {} /\ submitted = {} /\ known = {} /\ toWorker = {} /\ toMaster = {}
      /\ params = <<>> /\ error = {} /\ files = {} /\ queue = <<>> /\ lost = {}
      /\ running = {} /\ pool = "up" /\ stop = "no"
  BY DEF Init, AgentInit
<1>2. DOMAIN params = {} /\ DOMAIN queue = {} /\ ToSet(pendingRequests) = {}
  BY <1>1 DEF ToSet
<1>3. IsFiniteSet({}) /\ Cardinality({}) = 0
  BY FS_EmptySet
<1>4. RequestsInv
  <2>1. Transfers = {}
    BY <1>1, <1>2 DEF Transfers
  <2>2. Placed(Transfers, pendingRequests, ongoingTransfers, refused, receiveTransfers)
    BY <1>1, <1>2, <1>3, <2>1, AgentAssumption DEF Placed, Injective
  <2> QED BY <1>1, <1>3, <2>1, <2>2 DEF RequestsInv, Shared
<1>5. SendsInv
  BY <1>1, AgentAssumption DEF SendsInv
<1>6. Typed
  <2>1. params \in [DOMAIN params -> Nat] /\ queue \in Seq(Jobs)
    BY <1>1, <1>2
  <2>2. Cardinality(running) <= Pool
    BY <1>1, <1>3, WorkerAssumption
  <2> QED BY <1>1, <1>2, <1>3, <2>1, <2>2 DEF Typed
<1>7. MissingCounted
  BY <1>2 DEF MissingCounted
<1>8. JobsInv
  BY <1>1, <1>2 DEF JobsInv, JobInv, Injective, Sent, Waits, Enqueued, Answered
<1>9. FilesInv
  <2>1. Transfers = {}
    BY <1>1, <1>2 DEF Transfers
  <2> QED BY <1>1, <1>2, <2>1 DEF FilesInv
<1>10. MasterInv /\ OrderInv
  BY <1>1 DEF MasterInv, OrderInv
<1> QED BY <1>4, <1>5, <1>6, <1>7, <1>8, <1>9, <1>10 DEF IInv

\* A step that changes nothing.
LEMMA StutterStep ==
    ASSUME IInv, UNCHANGED vars
    PROVE  IInv'
<1>1. /\ UNCHANGED <<receiveVars, sendVars, params, error, files, lost, toWorker, toMaster>>
      /\ UNCHANGED <<RUNNING_JOBS, submitted, known, stop, queue, running, pool>>
  BY DEF vars, agentVars, masterVars, taskVars, threadVars
<1>2. SendsInv' /\ Typed'
  BY <1>1 DEF IInv, SendsInv, sendVars, Typed
<1>3. \A j : (Sent(j)' <=> Sent(j)) /\ (Answered(j)' <=> Answered(j))
  BY <1>1 DEF Sent, Answered
<1>4. \A m \in toWorker' : m.kind = "job" => m \in toWorker
  BY <1>1
<1>5. JobsInv'
  BY <1>1, <1>3, <1>4, PlacesStay
<1>6. known' \subseteq files /\ \A m \in toWorker' : m.kind = "job" => m.hosted \subseteq files
  BY <1>1 DEF IInv, FilesInv
<1>7. MasterInv' /\ OrderInv'
  BY <1>1, MessagesStay, OrderStays DEF IInv
<1> QED BY <1>1, <1>2, <1>5, <1>6, <1>7, QuietStep

\* Each step of the master, of the communications and of the threads keeps the invariant.
LEMMA NextInv ==
    ASSUME IInv, [Next]_vars
    PROVE  IInv'
<1>1. ASSUME NEW j \in Jobs, SubmitTask(j) PROVE IInv'
  BY <1>1, SubmitStep
<1>2. CASE StopWorker
  BY <1>2, StopStep
<1>3. CASE MasterReceives
  BY <1>3, MasterStep
<1>4. CASE WorkerReceives
  <2>1. PICK m \in toWorker : /\ toWorker' = toWorker \ {m}
                              /\ ReceivedNewTask(m) \/ ShutdownExecutionManager(m) \/ ReceivedShutdown(m)
    BY <1>4 DEF WorkerReceives
  <2>2. UNCHANGED masterVars
    BY <1>4 DEF WorkerReceives
  <2>3. CASE ReceivedNewTask(m)
    BY <2>1, <2>2, <2>3, NewTaskStep
  <2>4. CASE ShutdownExecutionManager(m) \/ ReceivedShutdown(m)
    BY <2>1, <2>2, <2>4, CommandStep
  <2> QED BY <2>1, <2>3, <2>4
<1>5. CASE EndOfTransfer
  BY <1>5, TransferStep
<1>6. CASE SendDemanded \/ SendEnds
  BY <1>6, DemandStep
<1>7. CASE Dequeue
  BY <1>7, DequeueStep
<1>8. ASSUME NEW j \in Jobs, ExecuteJob(j) PROVE IInv'
  BY <1>8, ExecuteStep
<1>9. CASE ThreadsEnd
  BY <1>9, ThreadsStep
<1>10. CASE UNCHANGED vars
  BY <1>10, StutterStep
<1> QED BY <1>1, <1>2, <1>3, <1>4, <1>5, <1>6, <1>7, <1>8, <1>9, <1>10 DEF Next, Progress

\* Every state of the worker and the master satisfies the inductive invariant.
THEOREM Invariance == Spec => []IInv
<1>1. Init => IInv
  BY InitInv
<1>2. IInv /\ [Next]_vars => IInv'
  BY NextInv
<1> QED BY <1>1, <1>2, PTL DEF Spec

\* Requests name a job and one of its parameters, and slots and threads are within their bounds
\* (the fields of NIOAgent, NIOWorker and NIOAdaptor).
THEOREM WorkerTypes == Spec => []TypeOK
<1>1. IInv => TypeOK
  <2> SUFFICES ASSUME IInv PROVE TypeOK
    OBVIOUS
  <2>1. RequestsInv /\ Typed /\ SendsInv
    BY DEF IInv
  <2>2. ASSUME NEW q \in dataToRequests \cup lost
        PROVE  q.job \in Jobs /\ q.param \in DOMAIN ParamsOf[q.job] /\ q = Request(q.job, q.param)
    <3>1. q.job \in Jobs /\ q \in RequestsOf(q.job)
      BY <2>1 DEF RequestsInv, IsRequest
    <3> QED BY <3>1, RequestsAre
  <2>3. receiveTransfers \in 0 .. MaxReceive
    <3>1. /\ receiveTransfers = Cardinality(ongoingTransfers) + Cardinality(refused)
          /\ receiveTransfers <= MaxReceive /\ MaxReceive \in Nat
          /\ IsFiniteSet(ongoingTransfers) /\ IsFiniteSet(refused)
      BY <2>1, AgentAssumption DEF RequestsInv, Placed
    <3>2. Cardinality(ongoingTransfers) \in Nat /\ Cardinality(refused) \in Nat
      BY <3>1, FS_CardinalityType
    <3> QED BY <3>1, <3>2
  <2>4. \A j \in DOMAIN params : params[j] \in Nat
    BY <2>1 DEF Typed
  <2>5. DOMAIN params \subseteq Jobs
    BY <2>1 DEF Typed
  <2> QED BY <2>1, <2>2, <2>3, <2>4, <2>5 DEF TypeOK, Typed, SendsInv
<1> QED BY <1>1, Invariance, PTL

\* A receive slot is taken by a transfer under way or by one whose connection was refused, never
\* twice and never by none (receiveTransfers of NIOAgent).
THEOREM SlotsBalance == Spec => []SlotsAccounted
<1>1. IInv => SlotsAccounted
  BY DEF IInv, RequestsInv, Placed, SlotsAccounted
<1> QED BY <1>1, Invariance, PTL

\* Sets that share nothing.
LEMMA DisjointUnion ==
    ASSUME NEW S, NEW T, IsFiniteSet(S), IsFiniteSet(T), S \cap T = {}
    PROVE  IsFiniteSet(S \cup T) /\ Cardinality(S \cup T) = Cardinality(S) + Cardinality(T)
<1>1. /\ IsFiniteSet(S \cup T)
      /\ Cardinality(S \cup T) = Cardinality(S) + Cardinality(T) - Cardinality(S \cap T)
  BY FS_Union
<1>2. Cardinality(S \cap T) = 0
  BY FS_EmptySet
<1>3. Cardinality(S) \in Nat /\ Cardinality(T) \in Nat
  BY FS_CardinalityType
<1> QED BY <1>1, <1>2, <1>3

\* All requests for a datum share one transfer, and no list is left without one
\* (dataToRequests, pendingRequests and ongoingTransfers of NIOAgent).
THEOREM TransfersShared == Spec => []OneTransferPerDatum
<1>1. IInv => OneTransferPerDatum
  <2> SUFFICES ASSUME IInv PROVE OneTransferPerDatum
    OBVIOUS
  <2>1. /\ Placed(Transfers, pendingRequests, ongoingTransfers, refused, receiveTransfers)
        /\ Shared(dataToRequests, Transfers) /\ IsFiniteSet(dataToRequests)
    BY DEF IInv, RequestsInv
  <2> PICK listed : listed = {q.data : q \in dataToRequests}
    OBVIOUS
  <2>2. Transfers \subseteq dataToRequests
    BY <2>1 DEF Shared
  <2>3. listed = {r.data : r \in Transfers}
    BY <2>1 DEF Shared
  <2>4. IsFiniteSet(Transfers)
    BY <2>1, <2>2, FS_Subset
  <2>5. Cardinality(listed) = Cardinality(Transfers)
    <3> PICK f : f = [r \in Transfers |-> r.data]
      OBVIOUS
    <3>1. f \in Surjection(Transfers, listed)
      BY <2>3 DEF Surjection
    <3>2. f \in Injection(Transfers, listed)
      BY <2>1, <2>3 DEF Injection, IsInjective, Shared
    <3> QED BY <2>4, <3>1, <3>2, FS_Surjection
  <2>6. Cardinality(Transfers)
          = Len(pendingRequests) + Cardinality(ongoingTransfers) + Cardinality(refused)
    <3> PICK pending, others : pending = ToSet(pendingRequests) /\ others = ongoingTransfers \cup refused
      OBVIOUS
    <3>1. /\ IsFiniteSet(ongoingTransfers) /\ IsFiniteSet(refused)
          /\ ongoingTransfers \cap refused = {} /\ pending \cap others = {}
          /\ Transfers = pending \cup others
          /\ pendingRequests \in Seq(Transfers) /\ Injective(pendingRequests)
      BY <2>1 DEF Placed
    <3>2. IsFiniteSet(pending) /\ Cardinality(pending) = Len(pendingRequests)
      <4>1. DOMAIN pendingRequests = 1 .. Len(pendingRequests) /\ Len(pendingRequests) \in Nat
        BY <3>1
      <4> QED BY <3>1, <4>1, ImageSize
    <3>3. /\ Cardinality(ongoingTransfers) \in Nat /\ Cardinality(refused) \in Nat
          /\ Cardinality(pending) \in Nat
      BY <3>1, <3>2, FS_CardinalityType
    <3>4. IsFiniteSet(others) /\ Cardinality(others) = Cardinality(ongoingTransfers) + Cardinality(refused)
      BY <3>1, DisjointUnion
    <3>5. Cardinality(Transfers) = Cardinality(pending) + Cardinality(others)
      BY <3>1, <3>2, <3>4, DisjointUnion
    <3> QED BY <3>2, <3>3, <3>4, <3>5
  <2> QED BY <2>2, <2>3, <2>5, <2>6 DEF OneTransferPerDatum, Transfers
<1> QED BY <1>1, Invariance, PTL

\* What a job is said to miss is what it has asked for and not got
\* (transfers of the task in NIOWorker, receivedNewTask and receivedValue).
THEOREM MissingExact == Spec => []MissingCounted
<1>1. IInv => MissingCounted
  BY DEF IInv
<1> QED BY <1>1, Invariance, PTL

\* A set of at most one element.
LEMMA AtMostOne ==
    ASSUME NEW S, \A x, y \in S : x = y
    PROVE  Cardinality(S) = IF S = {} THEN 0 ELSE 1
<1>1. CASE S = {}
  BY <1>1, FS_EmptySet
<1>2. ASSUME NEW x \in S PROVE Cardinality(S) = 1
  <2>1. S = {x}
    OBVIOUS
  <2> QED BY <2>1, FS_Singleton
<1> QED BY <1>1, <1>2

\* A job without an answer is in one place, on its way to one (RUNNING_JOBS of NIOAdaptor, the
\* messages, and what NIOWorker and its threads have).
THEOREM JobsInOnePlace == Spec => []OneAnswerPerJob
<1>1. IInv => OneAnswerPerJob
  <2> SUFFICES ASSUME IInv, NEW j \in submitted
               PROVE  Cardinality({m \in toWorker : m.kind = "job" /\ m.job = j})
                      + (IF j \in DOMAIN params /\ params[j] > 0 THEN 1 ELSE 0)
                      + Cardinality({i \in DOMAIN queue : queue[i] = j})
                      + Cardinality({j} \cap running)
                      + Cardinality({m \in toMaster : m.kind = "taskDone" /\ m.job = j})
                      = (IF j \in RUNNING_JOBS THEN 1 ELSE 0)
    BY DEF OneAnswerPerJob
  <2>1. Typed /\ JobsInv /\ j \in Jobs
    BY DEF IInv, Typed
  <2>2. JobInv(j)
    BY <2>1 DEF JobsInv
  <2>3. Cardinality({m \in toWorker : m.kind = "job" /\ m.job = j}) = IF Sent(j) THEN 1 ELSE 0
    <3> PICK S : S = {m \in toWorker : m.kind = "job" /\ m.job = j}
      OBVIOUS
    <3>1. \A x, y \in S : x = y
      BY <2>1 DEF JobsInv
    <3>2. S = {} <=> ~Sent(j)
      BY DEF Sent
    <3> QED BY <3>1, <3>2, AtMostOne
  <2>4. Cardinality({i \in DOMAIN queue : queue[i] = j}) = IF Enqueued(j) THEN 1 ELSE 0
    <3> PICK S : S = {i \in DOMAIN queue : queue[i] = j}
      OBVIOUS
    <3>1. \A x, y \in S : x = y
      BY <2>1 DEF JobsInv, Injective
    <3>2. S = {} <=> ~Enqueued(j)
      BY DEF Enqueued
    <3> QED BY <3>1, <3>2, AtMostOne
  <2>5. Cardinality({j} \cap running) = IF j \in running THEN 1 ELSE 0
    <3> PICK S : S = {j} \cap running
      OBVIOUS
    <3>1. (\A x, y \in S : x = y) /\ (S = {} <=> j \notin running)
      OBVIOUS
    <3> QED BY <3>1, AtMostOne
  <2>6. Cardinality({m \in toMaster : m.kind = "taskDone" /\ m.job = j}) = IF Answered(j) THEN 1 ELSE 0
    <3> PICK S : S = {m \in toMaster : m.kind = "taskDone" /\ m.job = j}
      OBVIOUS
    <3>1. \A m, n \in S : m = n
      BY DEF IInv, MasterInv
    <3>2. S = {} <=> ~Answered(j)
      BY DEF Answered
    <3> QED BY <3>1, <3>2, AtMostOne
  <2>7. (j \in DOMAIN params /\ params[j] > 0) <=> Waits(j)
    BY DEF Waits
  <2>8. /\ Sent(j) => ~Waits(j)
        /\ Enqueued(j) \/ j \in running \/ Answered(j) => ~Sent(j) /\ ~Waits(j)
    BY <2>2 DEF JobInv, Waits
  <2>9. /\ ~(Enqueued(j) /\ j \in running) /\ ~(Enqueued(j) /\ Answered(j)) /\ ~(j \in running /\ Answered(j))
        /\ j \in RUNNING_JOBS <=> Sent(j) \/ Waits(j) \/ Enqueued(j) \/ j \in running \/ Answered(j)
    BY <2>2 DEF JobInv
  <2> QED BY <2>3, <2>4, <2>5, <2>6, <2>7, <2>8, <2>9
<1> QED BY <1>1, Invariance, PTL

\* No job is executed without one of its files, or while one of them is being received
\* (askForFile and receivedValue of NIOWorker).
THEOREM FilesWhole == Spec => []WholeFiles
<1>1. IInv => WholeFiles
  <2> SUFFICES ASSUME IInv, NEW j \in ToSet(queue) \cup running
               PROVE  /\ j \notin error
                      /\ Targets(j) \subseteq files
                      /\ \A r \in ongoingTransfers : r.target \notin Targets(j)
    BY DEF WholeFiles
  <2>1. RequestsInv /\ Typed /\ JobsInv /\ FilesInv
    BY DEF IInv
  <2>2. j \in Jobs /\ (Enqueued(j) \/ j \in running)
    <3>1. CASE j \in ToSet(queue)
      <4>1. PICK i \in DOMAIN queue : queue[i] = j
        BY <3>1 DEF ToSet
      <4> QED BY <2>1, <4>1, ElementOf DEF Typed, Enqueued
    <3>2. CASE j \in running
      BY <2>1, <3>2 DEF Typed
    <3> QED BY <3>1, <3>2
  <2>3. j \in DOMAIN params /\ params[j] = 0 /\ j \notin error
    BY <2>1, <2>2 DEF JobsInv, JobInv
  <2>4. Targets(j) \subseteq files /\ \A q \in Open : q.job # j
    <3>1. Counted
      BY DEF IInv, Counted, Typed
    <3> QED BY <2>1, <2>3, <3>1, FilesThere DEF Whole
  <2>5. \A q \in RequestsOf(j) : q.job = j /\ Live(q)
    <3>1. j \in RUNNING_JOBS
      BY <2>1, <2>2 DEF JobsInv, JobInv
    <3> QED BY <2>2, <3>1, RequestsAre, FilesOf DEF Live
  <2>6. Targets(j) = {q.target : q \in RequestsOf(j)}
    BY <2>2, FilesOf
  <2>7. ASSUME NEW r \in ongoingTransfers, NEW q \in RequestsOf(j), r.target = q.target PROVE FALSE
    <3>1. r \in Transfers /\ r \in dataToRequests /\ Live(r)
      BY <2>1, OpenIsLive DEF RequestsInv, Shared, Transfers
    <3>2. OrderInv /\ RUNNING_JOBS \subseteq submitted
      BY <2>1 DEF IInv, Typed
    <3>3. r.data = q.data
      BY <2>5, <2>7, <3>1, <3>2, Apart
    <3>4. r.target # r.data
      BY <2>1, <2>4, <2>6, <2>7, <3>1 DEF FilesInv
    <3>5. r.job = q.job
      BY <2>5, <2>7, <3>1, <3>2, <3>3, <3>4, Apart
    <3> QED BY <2>4, <2>5, <3>1, <3>5 DEF Open
  <2> QED BY <2>3, <2>4, <2>6, <2>7
<1> QED BY <1>1, Invariance, PTL

=============================================================================
