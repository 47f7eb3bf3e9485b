------------------------- MODULE PiperWorkerProofs --------------------------
(***************************************************************************)
(* Proofs about PiperWorker and the PersistentCache in it, for every       *)
(* number of workers, objects, tasks, attempts and cache size: what the    *)
(* operations of the cache preserve; the types, the order of the cache and *)
(* the objects it holds; the size of the cache and what it evicts; and     *)
(* that the processes stay in step with each other and the segments.       *)
(*                                                                         *)
(* That last invariant has two halves.  InStep says of one worker what its *)
(* place in the program, the queue, its pipe and the place of the cache    *)
(* process tell of each other; a step concerns one worker, and leaves the  *)
(* others in step.  Segments says who attaches which segment, what it      *)
(* holds and who is to remove it; a step changes the managers of one       *)
(* process.                                                                *)
(***************************************************************************)
EXTENDS PiperWorker, FiniteSetTheorems, SequenceTheorems, WellFoundedInduction, TLAPS

-----------------------------------------------------------------------------
(* The operations of a PersistentCache: the map and the ordered set hold   *)
(* the same entries, whatever the objects and their sizes.                 *)

\* What each operation needs of a cache: its two views agree, and priorities
\* are numbers.
CacheInv(c) ==
    /\ Agree(c)
    /\ c.time \in Nat
    /\ DOMAIN c.H \subseteq Nat
    /\ \A n \in DOMAIN c.H : c.H[n].hits \in Nat /\ c.H[n].last \in Nat

\* The empty cache has it.
LEMMA EmptyCacheInv == CacheInv(EmptyCache)
BY DEF CacheInv, Agree, EmptyCache, Cache

\* Entries with different last hits are told apart by the comparison.
LEMMA Comparable ==
    ASSUME NEW a, NEW b, a.hits \in Nat, b.hits \in Nat, a.last \in Nat, b.last \in Nat,
           a.last # b.last
    PROVE  Before(a, b) \/ Before(b, a)
BY DEF Before

\* No entry is before itself.
LEMMA Irreflexive ==
    ASSUME NEW a, a.hits \in Nat, a.last \in Nat, a.id \in Nat
    PROVE  ~Before(a, a)
BY DEF Before

\* Erasing an entry of the cache takes this one out of the set, and no other.
LEMMA EraseEntry ==
    ASSUME NEW c, CacheInv(c), NEW id \in DOMAIN c.H
    PROVE  Erase(c.S, c.H[id]) = {c.H[n] : n \in DOMAIN c.H \ {id}}
<1>1. ~Before(c.H[id], c.H[id])
  BY Irreflexive DEF CacheInv, Agree
<1>2. ASSUME NEW n \in DOMAIN c.H \ {id}
      PROVE  Before(c.H[n], c.H[id]) \/ Before(c.H[id], c.H[n])
  BY Comparable DEF CacheInv, Agree
<1>3. c.S = {c.H[n] : n \in DOMAIN c.H}
  BY DEF CacheInv, Agree
<1> QED BY <1>1, <1>2, <1>3 DEF Erase

\* Evicting entries keeps the views in agreement, whichever go.
LEMMA EvictInv ==
    ASSUME NEW c, CacheInv(c)
    PROVE  CacheInv(Evict(c)) /\ DOMAIN Evict(c).H \subseteq DOMAIN c.H
<1>1. CASE c.size < SizeLimit
  BY <1>1 DEF Evict
<1>2. CASE ~(c.size < SizeLimit)
  <2> DEFINE gone == Evicted(c)
             stay == DOMAIN c.H \ {e.id : e \in gone}
             d == Cache([i \in stay |-> c.H[i]], c.S \ gone, c.time, c.size - SizeOf(gone))
  <2>1. Evict(c) = d
    BY <1>2 DEF Evict
  <2>2. gone \subseteq c.S
    BY DEF Evicted
  <2>3. /\ d.H = [i \in stay |-> c.H[i]] /\ d.S = c.S \ gone /\ d.time = c.time
    BY DEF Cache
  <2>4. /\ DOMAIN d.H = stay /\ stay \subseteq DOMAIN c.H
        /\ \A n \in stay : d.H[n] = c.H[n]
    BY <2>3
  <2> HIDE DEF gone, d
  <2>5. \A n \in DOMAIN c.H : c.H[n].id = n
    BY DEF CacheInv, Agree
  <2>6. \A n \in DOMAIN c.H : c.H[n] \in gone <=> n \notin stay
    BY <2>2, <2>5 DEF CacheInv, Agree
  <2> HIDE DEF stay
  <2>7. d.S = {d.H[n] : n \in DOMAIN d.H}
    <3>1. c.S = {c.H[n] : n \in DOMAIN c.H}
      BY DEF CacheInv, Agree
    <3>2. \A e : e \in d.S <=> e \in c.S /\ e \notin gone
      BY <2>3
    <3>3. \A e : e \in d.S <=> \E n \in stay : e = c.H[n]
      BY <3>1, <3>2, <2>4, <2>6
    <3> QED BY <3>3, <2>4
  <2>8. CacheInv(d)
    BY <2>3, <2>4, <2>7 DEF CacheInv, Agree
  <2> QED BY <2>1, <2>4, <2>8
<1> QED BY <1>1, <1>2

\* Putting an entry whose last hit differs from those of the others.
LEMMA PutInv ==
    ASSUME NEW c, CacheInv(c), NEW e, NEW S, NEW size, NEW time \in Nat,
           e.id \in Nat, e.hits \in Nat, e.last \in Nat, e.last < time, c.time =< time,
           \A n \in DOMAIN c.H \ {e.id} : c.H[n].last # e.last,
           S = {c.H[n] : n \in DOMAIN c.H \ {e.id}}
    PROVE  CacheInv(Cache(Put(c.H, e), Insert(S, e), time, size))
<1> DEFINE d == Cache(Put(c.H, e), Insert(S, e), time, size)
           others == DOMAIN c.H \ {e.id}
<1>1. \A n \in others : Before(c.H[n], e) \/ Before(e, c.H[n])
  BY Comparable DEF CacheInv
<1>2. Insert(S, e) = S \cup {e}
  BY <1>1 DEF Insert, Erase
<1>3. d.H = Put(c.H, e) /\ d.S = S \cup {e} /\ d.time = time
  BY <1>2 DEF Cache
<1>4. /\ DOMAIN d.H = others \cup {e.id} /\ d.H[e.id] = e
      /\ \A n \in others : d.H[n] = c.H[n]
  BY <1>3 DEF Put
<1> HIDE DEF d
<1>5. d.S = {d.H[n] : n \in DOMAIN d.H}
  <2>1. \A x : x \in d.S <=> x = e \/ \E n \in others : x = c.H[n]
    BY <1>3
  <2> QED BY <1>4, <2>1
<1>6. \A n \in others : c.H[n].id = n /\ c.H[n].last < time
  BY DEF CacheInv, Agree
<1>7. \A m, n \in others : m # n => c.H[m].last # c.H[n].last
  BY DEF CacheInv, Agree
<1>8. Agree(d)
  BY <1>3, <1>4, <1>5, <1>6, <1>7 DEF Agree
<1>9. DOMAIN d.H \subseteq Nat
  BY <1>4 DEF CacheInv
<1>10. \A n \in DOMAIN d.H : d.H[n].hits \in Nat /\ d.H[n].last \in Nat
  BY <1>4 DEF CacheInv
<1>11. CacheInv(d)
  BY <1>3, <1>8, <1>9, <1>10 DEF CacheInv
<1> QED BY <1>11 DEF d

\* A new object is added, or left out.
LEMMA AddInv ==
    ASSUME NEW c, CacheInv(c), NEW id \in Nat, NEW obj, NEW size, ~Has(c, id)
    PROVE  CacheInv(Add(c, id, obj, size))
<1> DEFINE d == Evict(c)
           e == Entry(id, obj, size, 1, d.time)
<1>1. CacheInv(d) /\ id \notin DOMAIN d.H
  BY EvictInv DEF Has
<1> HIDE DEF d
<1>2. e.id = id /\ e.hits = 1 /\ e.last = d.time
  BY DEF Entry
<1> HIDE DEF e
<1>3. CASE d.size + size =< SizeLimit
  <2>1. DOMAIN d.H \ {e.id} = DOMAIN d.H
    BY <1>1, <1>2
  <2>2. /\ d.time \in Nat /\ d.S = {d.H[n] : n \in DOMAIN d.H}
        /\ \A n \in DOMAIN d.H : d.H[n].last < d.time /\ d.H[n].last \in Nat
    BY <1>1 DEF CacheInv, Agree
  <2>3. /\ e.id \in Nat /\ e.hits \in Nat /\ e.last \in Nat /\ d.time + 1 \in Nat
        /\ e.last < d.time + 1 /\ d.time =< d.time + 1
        /\ \A n \in DOMAIN d.H \ {e.id} : d.H[n].last # e.last
        /\ d.S = {d.H[n] : n \in DOMAIN d.H \ {e.id}}
    BY <1>2, <2>1, <2>2
  <2>4. CacheInv(Cache(Put(d.H, e), Insert(d.S, e), d.time + 1, d.size + size))
    BY <1>1, <2>3, PutInv, Zenon
  <2> QED BY <1>3, <2>4 DEF Add, d, e
<1>4. CASE ~(d.size + size =< SizeLimit)
  <2>1. CacheInv(Cache(d.H, d.S, d.time + 1, d.size))
    BY <1>1 DEF CacheInv, Agree, Cache
  <2> QED BY <1>4, <2>1 DEF Add, d, e
<1> QED BY <1>3, <1>4

\* A hit moves an entry within the set.
LEMMA HitInv ==
    ASSUME NEW c, CacheInv(c), NEW id, Has(c, id)
    PROVE  CacheInv(Hit(c, id)) /\ DOMAIN Hit(c, id).H = DOMAIN c.H
<1> DEFINE e == HitEntry(c, id)
<1>1. e.id = id /\ e.hits = c.H[id].hits + 1 /\ e.last = c.time
  BY DEF HitEntry, Entry
<1> HIDE DEF e
<1>2. id \in DOMAIN c.H /\ id \in Nat /\ c.H[id].hits \in Nat /\ c.time \in Nat
  BY DEF Has, CacheInv
<1>3. \A n \in DOMAIN c.H : c.H[n].last < c.time /\ c.H[n].last \in Nat
  BY DEF CacheInv, Agree
<1>4. Erase(c.S, c.H[id]) = {c.H[n] : n \in DOMAIN c.H \ {e.id}}
  BY <1>1, <1>2, EraseEntry
<1>5. /\ e.id \in Nat /\ e.hits \in Nat /\ e.last \in Nat /\ c.time + 1 \in Nat
      /\ e.last < c.time + 1 /\ c.time =< c.time + 1
      /\ \A n \in DOMAIN c.H \ {e.id} : c.H[n].last # e.last
  BY <1>1, <1>2, <1>3
<1>6. CacheInv(Cache(Put(c.H, e), Insert(Erase(c.S, c.H[id]), e), c.time + 1, c.size))
  BY <1>4, <1>5, PutInv, Zenon
<1> QED BY <1>1, <1>2, <1>6 DEF Hit, Cache, Put, e

\* So does a new object, which may also evict entries.
LEMMA SetObjectInv ==
    ASSUME NEW c, CacheInv(c), NEW id, Has(c, id), NEW obj, NEW size
    PROVE  /\ CacheInv(SetObject(c, id, obj, size))
           /\ DOMAIN SetObject(c, id, obj, size).H \subseteq DOMAIN c.H
<1> DEFINE e == NewEntry(c, id, obj, size)
           d == Cache(Put(c.H, e), Insert(Erase(c.S, c.H[id]), e), c.time,
                      c.size - c.H[id].size + size)
<1>1. e.id = id /\ e.hits = c.H[id].hits /\ e.last = c.H[id].last
  BY DEF NewEntry, Entry
<1> HIDE DEF e
<1>2. /\ id \in DOMAIN c.H /\ id \in Nat /\ c.time \in Nat
      /\ c.H[id].hits \in Nat /\ c.H[id].last \in Nat /\ c.H[id].last < c.time
  BY DEF Has, CacheInv, Agree
<1>3. \A n \in DOMAIN c.H \ {id} : c.H[n].last # c.H[id].last
  BY <1>2 DEF CacheInv, Agree
<1>4. Erase(c.S, c.H[id]) = {c.H[n] : n \in DOMAIN c.H \ {e.id}}
  BY <1>1, <1>2, EraseEntry
<1>5. /\ e.id \in Nat /\ e.hits \in Nat /\ e.last \in Nat /\ c.time \in Nat
      /\ e.last < c.time /\ c.time =< c.time
      /\ \A n \in DOMAIN c.H \ {e.id} : c.H[n].last # e.last
  BY <1>1, <1>2, <1>3
<1>6. CacheInv(d)
  BY <1>5, <1>4, PutInv, Zenon
<1>7. DOMAIN d.H = DOMAIN c.H
  BY <1>1, <1>2 DEF Cache, Put
<1>8. SetObject(c, id, obj, size) = Evict(d)
  BY DEF SetObject, e, d
<1> HIDE DEF d
<1> QED BY <1>6, <1>7, <1>8, EvictInv

-----------------------------------------------------------------------------
(* Types, and the cache in order.                                          *)

Requests ==
    [kind : {"end"}]
    \cup [kind : {"ask"}, worker : Workers, name : Names]
    \cup [kind : {"attach"}, worker : Workers, name : Names, key : Nat]

Answers == [kind : {"N", "DONE"}] \cup [kind : {"segment"}, key : Nat]

Servings ==
    [step : {"listen", "ended", "died"}]
    \cup [step : {"replace"}, worker : Workers, name : Names]
    \cup [step : {"reply"}, worker : Workers, message : Answers]
    \cup [step : {"wait"}, worker : Workers]
    \cup [step : {"load"}, worker : Workers, name : Names, file : BOOLEAN]

Busy == {"asked", "read", "run", "published", "end"}

SegsTyped == \A k \in DOMAIN segs :
    k \in Nat /\ segs[k] \in [content : Names, at : SUBSET Processes]

\* The types that TypeOK leaves out, and the names of tasks under way.
Typed ==
    /\ TypeOK
    /\ SegsTyped
    /\ serving \in Servings
    /\ queue \in Seq(Requests)
    /\ answers \in [Workers -> Seq(Answers)]
    /\ attached \in [Workers -> Seq({"D"})]
    /\ Objects(cache) \subseteq Nat
    /\ \A w \in Workers : pc[w] \in Busy => task[w].name \in Names

\* The cache is in order, and has what is about to be replaced, but not what
\* is about to be added.
CacheInOrder ==
    /\ CacheInv(cache)
    /\ serving.step = "replace" => Has(cache, serving.name)
    /\ serving.step = "load" => ~Has(cache, serving.name)

IInv == Typed /\ CacheInOrder

-----------------------------------------------------------------------------
(* The operations of the modules below this one keep the types.            *)

\* The operations on the cache keep the types of its entries.
LEMMA CacheTypes ==
    ASSUME NEW c, NEW id, NEW obj, NEW size
    PROVE  /\ DOMAIN Evict(c).H \subseteq DOMAIN c.H
           /\ Objects(Evict(c)) \subseteq Objects(c)
           /\ DOMAIN Add(c, id, obj, size).H \subseteq DOMAIN c.H \cup {id}
           /\ Objects(Add(c, id, obj, size)) \subseteq Objects(c) \cup {obj}
           /\ Has(c, id) => Objects(Hit(c, id)) = Objects(c) /\ DOMAIN Hit(c, id).H = DOMAIN c.H
           /\ Has(c, id) => Objects(SetObject(c, id, obj, size)) \subseteq Objects(c) \cup {obj}
           /\ Has(c, id) => DOMAIN SetObject(c, id, obj, size).H \subseteq DOMAIN c.H
<1>1. ASSUME NEW d
      PROVE  DOMAIN Evict(d).H \subseteq DOMAIN d.H /\ Objects(Evict(d)) \subseteq Objects(d)
  <2> DEFINE stay == DOMAIN d.H \ {e.id : e \in Evicted(d)}
  <2>1. CASE d.size < SizeLimit
    BY <2>1 DEF Evict
  <2>2. CASE ~(d.size < SizeLimit)
    <3>1. Evict(d).H = [i \in stay |-> d.H[i]]
      BY <2>2 DEF Evict, Cache
    <3> HIDE DEF stay
    <3>2. stay \subseteq DOMAIN d.H
      BY DEF stay
    <3> QED BY <3>1, <3>2 DEF Objects
  <2> QED BY <2>1, <2>2
<1>2. ASSUME NEW H, NEW e, NEW S, NEW t, NEW n
      PROVE  /\ DOMAIN Cache(Put(H, e), S, t, n).H = DOMAIN H \cup {e.id}
             /\ Objects(Cache(Put(H, e), S, t, n)) \subseteq {H[i].obj : i \in DOMAIN H} \cup {e.obj}
  BY DEF Cache, Put, Objects
<1>3. /\ DOMAIN Add(c, id, obj, size).H \subseteq DOMAIN c.H \cup {id}
      /\ Objects(Add(c, id, obj, size)) \subseteq Objects(c) \cup {obj}
  <2> DEFINE d == Evict(c)
             e == Entry(id, obj, size, 1, d.time)
             f == Cache(Put(d.H, e), Insert(d.S, e), d.time + 1, d.size + size)
  <2>1. e.id = id /\ e.obj = obj
    BY DEF Entry
  <2>2. \/ Add(c, id, obj, size) = f
        \/ Add(c, id, obj, size).H = d.H
    BY DEF Add, Cache
  <2>3. DOMAIN d.H \subseteq DOMAIN c.H /\ Objects(d) \subseteq Objects(c)
    BY <1>1
  <2> HIDE DEF d, e
  <2>4. DOMAIN f.H = DOMAIN d.H \cup {e.id} /\ Objects(f) \subseteq {d.H[i].obj : i \in DOMAIN d.H} \cup {e.obj}
    BY <1>2
  <2> HIDE DEF f
  <2>5. CASE Add(c, id, obj, size) = f
    <3>1. DOMAIN f.H \subseteq DOMAIN c.H \cup {id}
      BY <2>1, <2>3, <2>4
    <3>2. Objects(f) \subseteq Objects(c) \cup {obj}
      <4>1. Objects(f) \subseteq Objects(d) \cup {obj}
        BY <2>1, <2>4 DEF Objects
      <4> QED BY <2>3, <4>1
    <3> QED BY <2>5, <3>1, <3>2
  <2>6. CASE Add(c, id, obj, size).H = d.H
    BY <2>3, <2>6 DEF Objects
  <2> QED BY <2>2, <2>5, <2>6
<1>4. ASSUME Has(c, id)
      PROVE  Objects(Hit(c, id)) = Objects(c) /\ DOMAIN Hit(c, id).H = DOMAIN c.H
  BY <1>4 DEF Has, Hit, Cache, Put, HitEntry, Entry, Objects
<1>5. ASSUME Has(c, id)
      PROVE  /\ Objects(SetObject(c, id, obj, size)) \subseteq Objects(c) \cup {obj}
             /\ DOMAIN SetObject(c, id, obj, size).H \subseteq DOMAIN c.H
  <2> DEFINE e == NewEntry(c, id, obj, size)
             d == Cache(Put(c.H, e), Insert(Erase(c.S, c.H[id]), e), c.time,
                        c.size - c.H[id].size + size)
  <2>1. e.id = id /\ e.obj = obj
    BY DEF NewEntry, Entry
  <2>2. SetObject(c, id, obj, size) = Evict(d)
    BY DEF SetObject
  <2> DEFINE S == Insert(Erase(c.S, c.H[id]), e)
             n == c.size - c.H[id].size + size
  <2>4. DOMAIN Cache(Put(c.H, e), S, c.time, n).H = DOMAIN c.H \cup {e.id}
        /\ Objects(Cache(Put(c.H, e), S, c.time, n)) \subseteq {c.H[i].obj : i \in DOMAIN c.H} \cup {e.obj}
    BY <1>2
  <2> HIDE DEF e
  <2>3. DOMAIN d.H = DOMAIN c.H /\ Objects(d) \subseteq Objects(c) \cup {obj}
    BY <2>4, <2>1, <1>5 DEF Has, Objects
  <2> HIDE DEF d
  <2> QED BY <1>1, <2>2, <2>3
<1> QED BY <1>1, <1>3, <1>4, <1>5

\* A new key is a number, and the key of no segment.
LEMMA NewKeyNat ==
    ASSUME ShmTypeOK, NEW p \in Processes, CanCreate(p)
    PROVE  /\ NewKey(p) \in Nat /\ FirstFree(p) \in 1 .. MaxAttempts
           /\ NewKey(p) \notin DOMAIN segs
<1>1. FreeAttempts(p) # {} /\ FreeAttempts(p) \subseteq 1 .. MaxAttempts
  BY DEF CanCreate, FreeAttempts
<1>2. nextKey[p] \in Nat
  BY DEF ShmTypeOK
<1>3. FirstFree(p) \in FreeAttempts(p)
  <2> DEFINE Less == OpToRel(<, Nat)
  <2>1. PICK n \in FreeAttempts(p) : \A m \in FreeAttempts(p) : <<m, n>> \notin Less
    <3>1. FreeAttempts(p) \subseteq Nat
      BY <1>1
    <3>2. IsWellFoundedOn(Less, Nat)
      BY NatLessThanWellFounded
    <3> HIDE DEF Less
    <3> QED BY <1>1, <3>1, <3>2, WFMin
  <2>2. \A m \in FreeAttempts(p) : m \in Nat /\ n \in Nat
    BY <1>1
  <2>3. ASSUME NEW m \in FreeAttempts(p)
        PROVE  ~(m < n)
    BY <2>1, <2>2 DEF OpToRel
  <2>4. \A m \in FreeAttempts(p) : n =< m
    BY <2>2, <2>3
  <2> QED BY <2>4 DEF FirstFree
<1>4. NewKey(p) \notin DOMAIN segs
  BY <1>3 DEF NewKey, FreeAttempts
<1> QED BY <1>1, <1>2, <1>3, <1>4, AttemptsAssumption DEF NewKey, Attempt

-----------------------------------------------------------------------------
(* Types.                                                                  *)

\* The initial state is well typed.
LEMMA InitTyped == Init => Typed
BY WorkerAssumption
   DEF Init, ShmInit, EmptyCache, Cache, Objects, None, NoTask, Listening, SegsTyped, Typed, TypeOK,
       ShmTypeOK, Servings, Requests, Answers, Busy

\* Deallocations change the segments and who deallocates.
LEMMA DeallocateTyped ==
    ASSUME Typed, NEW p \in Processes, DeallocateManager(p)
    PROVE  Typed'
<1>1. /\ dropped' \in [Processes -> SUBSET Nat]
      /\ dealloc' \in [Processes -> [call : {"none", "stat", "rmid"}, key : Nat]]
      /\ nextKey' = nextKey
      /\ SegsTyped'
  <2>1. CASE Shmdt(p)
    <3>1. PICK key \in dropped[p] :
             /\ dropped' = [dropped EXCEPT ![p] = @ \ {key}]
             /\ segs' = Detached(key, p)
             /\ dealloc' = [dealloc EXCEPT ![p] = [call |-> "stat", key |-> key]]
             /\ nextKey' = nextKey
      BY <2>1 DEF Shmdt
    <3>2. key \in Nat
      BY DEF Typed, TypeOK, ShmTypeOK
    <3>3. SegsTyped'
      BY <3>1, <3>2 DEF Detached, SegsTyped, Typed
    <3> QED BY <3>1, <3>2, <3>3 DEF Typed, TypeOK, ShmTypeOK
  <2>2. CASE Stat(p)
    <3>1. /\ dropped' = dropped /\ nextKey' = nextKey /\ segs' = segs
          /\ \/ dealloc' = [dealloc EXCEPT ![p] = [@ EXCEPT !.call = "rmid"]]
             \/ dealloc' = [dealloc EXCEPT ![p] = None]
      BY <2>2 DEF Stat
    <3> DEFINE Deallocs == [call : {"none", "stat", "rmid"}, key : Nat]
               next == [dealloc[p] EXCEPT !.call = "rmid"]
    <3>2. dealloc \in [Processes -> Deallocs] /\ None \in Deallocs
      BY DEF None, Typed, TypeOK, ShmTypeOK
    <3>3. next \in Deallocs
      <4>1. dealloc[p] \in Deallocs
        BY <3>2
      <4> QED BY <4>1
    <3>4. dealloc' = [dealloc EXCEPT ![p] = next] \/ dealloc' = [dealloc EXCEPT ![p] = None]
      BY <3>1
    <3> HIDE DEF Deallocs, next
    <3>5. dealloc' \in [Processes -> Deallocs]
      BY <3>2, <3>3, <3>4
    <3> QED BY <3>1, <3>5 DEF Deallocs, SegsTyped, Typed, TypeOK, ShmTypeOK
  <2>3. CASE Rmid(p)
    BY <2>3 DEF Rmid, None, SegsTyped, Typed, TypeOK, ShmTypeOK
  <2> QED BY <2>1, <2>2, <2>3 DEF DeallocateManager, Deallocate
<1>2. UNCHANGED <<cacheVars, pipeVars, workerVars>>
  BY DEF DeallocateManager
<1> QED BY <1>1, <1>2, SMTT(20)
    DEF cacheVars, pipeVars, workerVars, SegsTyped, Typed, TypeOK, ShmTypeOK, Servings, Objects

\* What a step of the cache process has to keep: the segments and the worker
\* part are as before, or as one of its requests leaves them.
LEMMA ServeTyped ==
    ASSUME Typed, CacheInOrder,
           Serve
    PROVE  Typed'
<1> USE DEF Request, CacheRuns
<1>1. CacheProc \in Processes /\ Workers \subseteq Processes
  BY WorkerAssumption
<1>2. Held \subseteq Nat
  BY DEF SegsTyped, Typed, TypeOK, Held
<1>3. ASSUME queue # <<>>
      PROVE  /\ Head(queue) \in Requests /\ Tail(queue) \in Seq(Requests)
             /\ Head(queue).kind = "ask" => Head(queue).worker \in Workers /\ Head(queue).name \in Names
             /\ Head(queue).kind = "attach" =>
                   /\ Head(queue).worker \in Workers /\ Head(queue).name \in Names
                   /\ Head(queue).key \in Nat
  BY <1>3 DEF Typed, Requests
<1>4. ASSUME DropUnreferenced(Held)
      PROVE  dropped' \in [Processes -> SUBSET Nat]
  BY <1>1, <1>2, <1>4 DEF DropUnreferenced, Drop, SegsTyped, Typed, TypeOK, ShmTypeOK
<1>5. CASE ServeAttach
  <2> DEFINE r == Head(queue)
  <2>1. /\ r.worker \in Workers /\ r.name \in Names /\ r.key \in Nat
        /\ queue' \in Seq(Requests) /\ manager' = {r.key}
    BY <1>3, <1>5 DEF ServeAttach
  <2>2. dropped' \in [Processes -> SUBSET Nat]
    BY <1>4, <1>5 DEF ServeAttach
  <2>3. SegsTyped'
    BY <1>1, <1>5, ZenonT(40) DEF ServeAttach, Attach, SegsTyped, Typed, TypeOK, ShmTypeOK
  <2>4. DOMAIN cache'.H \subseteq Names /\ Objects(cache') \subseteq Nat /\ serving' \in Servings
    <3>1. CASE Has(cache, r.name)
      <4>1. cache' = Hit(cache, r.name) /\ serving' = [step |-> "replace", worker |-> r.worker, name |-> r.name]
        BY <1>5, <3>1 DEF ServeAttach
      <4>2. Objects(cache') = Objects(cache) /\ DOMAIN cache'.H = DOMAIN cache.H
        BY <3>1, <4>1, CacheTypes
      <4> QED BY <2>1, <4>1, <4>2 DEF SegsTyped, Typed, TypeOK, Servings
    <3>2. CASE ~Has(cache, r.name)
      <4>1. /\ cache' = Add(cache, r.name, r.key, 1)
            /\ serving' = [step |-> "reply", worker |-> r.worker, message |-> Done]
        BY <1>5, <3>2 DEF ServeAttach, Reply
      <4> HIDE DEF r
      <4>2. /\ DOMAIN cache'.H \subseteq DOMAIN cache.H \cup {r.name}
            /\ Objects(cache') \subseteq Objects(cache) \cup {r.key}
        BY <4>1, CacheTypes
      <4> QED BY <2>1, <4>1, <4>2 DEF SegsTyped, Typed, TypeOK, Servings, Answers, Done
    <3> QED BY <3>1, <3>2
  <2>5. serving'.step \in {"replace", "reply"}
    BY <1>5 DEF ServeAttach, Reply
  <2> HIDE DEF r
  <2>6. /\ UNCHANGED <<shm_manager, dealloc, nextKey, answers, attached, workerVars>>
        /\ manager' \subseteq Nat
    BY <1>5, <2>1 DEF ServeAttach, Attach
  <2> QED BY <2>1, <2>2, <2>3, <2>4, <2>5, <2>6 DEF workerVars, SegsTyped, Typed, TypeOK, ShmTypeOK
<1>6. CASE Replace
  <2>1. /\ serving.worker \in Workers /\ serving.name \in Names /\ Has(cache, serving.name)
        /\ serving' = [step |-> "reply", worker |-> serving.worker, message |-> Done]
        /\ UNCHANGED <<manager, shm_manager, segs, nextKey, dealloc, pipeVars, workerVars>>
    BY <1>6 DEF Replace, Reply, Typed, Servings, CacheInOrder
  <2>2. dropped' \in [Processes -> SUBSET Nat]
    BY <1>4, <1>6 DEF Replace
  <2>3. PICK key \in manager : cache' = SetObject(cache, serving.name, key, SegmentBytes)
    BY <1>6 DEF Replace
  <2>4. DOMAIN cache'.H \subseteq DOMAIN cache.H /\ Objects(cache') \subseteq Objects(cache) \cup {key}
    BY <2>1, <2>3, CacheTypes
  <2>5. DOMAIN cache'.H \subseteq Names /\ Objects(cache') \subseteq Nat
    BY <2>4 DEF SegsTyped, Typed, TypeOK
  <2>6. serving' \in Servings /\ serving'.step = "reply"
    BY <2>1 DEF Servings, Answers, Done
  <2> QED BY <2>1, <2>2, <2>5, <2>6 DEF pipeVars, workerVars, SegsTyped, Typed, TypeOK, ShmTypeOK
<1>7. CASE ServeSegment
  <2> DEFINE r == Head(queue)
  <2>1. /\ r.worker \in Workers /\ r.name \in Names
        /\ queue' \in Seq(Requests)
        /\ Has(cache, r.name) /\ cache' = Hit(cache, r.name)
        /\ shm_manager' = {Get(cache, r.name)}
        /\ serving' = [step |-> "reply", worker |-> r.worker, message |-> Segment(Get(cache, r.name))]
        /\ UNCHANGED <<manager, segs, nextKey, dealloc, answers, attached, workerVars>>
    BY <1>3, <1>7 DEF ServeSegment, Reply
  <2>2. dropped' \in [Processes -> SUBSET Nat]
    BY <1>4, <1>7 DEF ServeSegment
  <2> HIDE DEF r
  <2>3. Objects(cache') = Objects(cache) /\ DOMAIN cache'.H = DOMAIN cache.H
    BY <2>1, CacheTypes
  <2>4. Get(cache, r.name) \in Nat
    BY <2>1 DEF Has, Get, Objects, Typed
  <2>5. serving' \in Servings /\ serving'.step = "reply"
    BY <2>1, <2>4 DEF Servings, Answers, Segment
  <2> QED BY <2>1, <2>2, <2>3, <2>4, <2>5 DEF workerVars, SegsTyped, Typed, TypeOK, ShmTypeOK
<1>8. CASE SendReply
  <2>1. /\ serving.worker \in Workers /\ serving.message \in Answers
        /\ UNCHANGED <<shmVars, cache, manager, shm_manager, queue, attached, workerVars>>
    BY <1>8 DEF SendReply, Typed, Servings
  <2>2. answers' \in [Workers -> Seq(Answers)]
    BY <1>8, <2>1 DEF SendReply, Send, Typed
  <2>3. serving' \in Servings /\ serving'.step \in {"listen", "wait"}
    BY <1>8, <2>1 DEF SendReply, Listening, Servings
  <2> QED BY <2>1, <2>2, <2>3 DEF shmVars, workerVars, SegsTyped, Typed, TypeOK, ShmTypeOK
<1>9. CASE Wait
  <2>1. attached' \in [Workers -> Seq({"D"})]
    <3>1. /\ attached[serving.worker] # <<>>
          /\ attached' = [attached EXCEPT ![serving.worker] = Tail(@)]
      BY <1>9 DEF Wait
    <3>2. serving.worker \in Workers
      BY <1>9 DEF Wait, Typed, Servings
    <3>3. attached[serving.worker] \in Seq({"D"})
      BY <3>2 DEF Typed
    <3>4. Tail(attached[serving.worker]) \in Seq({"D"})
      BY <3>1, <3>3
    <3> QED BY <3>1, <3>4 DEF Typed
  <2>2. serving' \in Servings /\ serving'.step = "listen"
    BY <1>9 DEF Wait, Listening, Servings
  <2> QED BY <1>9, <2>1, <2>2 DEF Wait, shmVars, workerVars, SegsTyped, Typed, TypeOK, ShmTypeOK
<1>10. CASE ServeNo
  <2> DEFINE r == Head(queue)
  <2>1. /\ r.worker \in Workers /\ r.name \in Names /\ queue' \in Seq(Requests)
        /\ answers' = [answers EXCEPT ![r.worker] = Append(@, No)]
        /\ serving' = [step |-> "load", worker |-> r.worker, name |-> r.name, file |-> TRUE]
        /\ UNCHANGED <<shmVars, cache, manager, shm_manager, attached, workerVars>>
    BY <1>3, <1>10 DEF ServeNo, Send
  <2> HIDE DEF r
  <2>2. answers' \in [Workers -> Seq(Answers)]
    BY <2>1 DEF Typed, No, Answers
  <2>3. serving' \in Servings /\ serving'.step = "load"
    BY <2>1 DEF Servings
  <2> QED BY <2>1, <2>2, <2>3 DEF shmVars, workerVars, SegsTyped, Typed, TypeOK, ShmTypeOK
<1>11. CASE Load
  <2> DEFINE key == NewKey(CacheProc)
  <2>1. CanCreate(CacheProc)
    BY <1>11 DEF Load, Create
  <2>2. key \in Nat /\ FirstFree(CacheProc) \in 1 .. MaxAttempts
    BY <1>1, <2>1, NewKeyNat DEF SegsTyped, Typed, TypeOK
  <2>3. serving.name \in Names
    BY <1>11 DEF Load, Typed, Servings
  <2>4. dropped' \in [Processes -> SUBSET Nat]
    BY <1>4, <1>11 DEF Load
  <2>5. /\ nextKey' = [nextKey EXCEPT ![CacheProc] = @ + FirstFree(CacheProc) - 1]
        /\ segs' = [k \in DOMAIN segs \cup {key} |->
                      IF k = key THEN [content |-> serving.name, at |-> {CacheProc}] ELSE segs[k]]
        /\ cache' = Add(cache, serving.name, key, 1)
        /\ manager' = {key} /\ serving' = Listening
        /\ UNCHANGED <<shm_manager, dealloc, pipeVars, workerVars>>
    BY <1>11 DEF Load, Create
  <2> HIDE DEF key
  <2>6. nextKey' \in [Processes -> Nat]
    BY <1>1, <2>2, <2>5, AttemptsAssumption DEF SegsTyped, Typed, TypeOK, ShmTypeOK
  <2>7. SegsTyped'
    BY <1>1, <2>2, <2>3, <2>5 DEF SegsTyped, Typed, TypeOK, ShmTypeOK
  <2>8. /\ DOMAIN cache'.H \subseteq DOMAIN cache.H \cup {serving.name}
        /\ Objects(cache') \subseteq Objects(cache) \cup {key}
    BY <2>5, CacheTypes
  <2>9. serving' \in Servings /\ serving'.step = "listen"
    BY <2>5 DEF Listening, Servings
  <2> QED BY <2>2, <2>3, <2>4, <2>5, <2>6, <2>7, <2>8, <2>9
      DEF pipeVars, workerVars, SegsTyped, Typed, TypeOK, ShmTypeOK
<1>12. CASE LoadFails
  <2>1. /\ SegsTyped'
        /\ dropped' \in [Processes -> SUBSET Nat]
        /\ dealloc' \in [Processes -> [call : {"none", "stat", "rmid"}, key : Nat]]
        /\ UNCHANGED nextKey
    <3>1. Death(CacheProc) /\ UNCHANGED nextKey
      BY <1>12 DEF LoadFails, CacheDies
    <3>2. SegsTyped'
      BY <3>1 DEF Death, SegsTyped, Typed
    <3>3. /\ dropped' \in [Processes -> SUBSET Nat]
          /\ dealloc' \in [Processes -> [call : {"none", "stat", "rmid"}, key : Nat]]
      BY <3>1 DEF Death, None, SegsTyped, Typed, TypeOK, ShmTypeOK
    <3> QED BY <3>1, <3>2, <3>3
  <2>2. DOMAIN cache'.H = {} /\ Objects(cache') = {} /\ manager' = {} /\ shm_manager' = {}
    BY <1>12 DEF LoadFails, CacheDies, EmptyCache, Cache, Objects
  <2>3. serving' \in Servings /\ serving'.step = "died"
    BY <1>12 DEF LoadFails, CacheDies, Servings
  <2>4. UNCHANGED <<pipeVars, workerVars>>
    BY <1>12 DEF LoadFails
  <2> QED BY <2>1, <2>2, <2>3, <2>4 DEF pipeVars, workerVars, SegsTyped, Typed, TypeOK, ShmTypeOK
<1>13. CASE ServeEnd
  <2>1. /\ queue' \in Seq(Requests) /\ UNCHANGED <<segs, nextKey, dealloc, answers, attached, workerVars>>
        /\ dropped' \in [Processes -> SUBSET Nat]
    BY <1>1, <1>2, <1>3, <1>13 DEF ServeEnd, Drop, SegsTyped, Typed, TypeOK, ShmTypeOK
  <2>2. DOMAIN cache'.H = {} /\ Objects(cache') = {} /\ manager' = {} /\ shm_manager' = {}
    BY <1>13 DEF ServeEnd, EmptyCache, Cache, Objects
  <2>3. serving' \in Servings /\ serving'.step = "ended"
    BY <1>13 DEF ServeEnd, Servings
  <2> QED BY <2>1, <2>2, <2>3 DEF workerVars, SegsTyped, Typed, TypeOK, ShmTypeOK
<1> QED BY <1>5, <1>6, <1>7, <1>8, <1>9, <1>10, <1>11, <1>12, <1>13 DEF Serve

\* A worker touches its own variables, the segments and the ends of pipes.
LEMMA WorkTyped ==
    ASSUME Typed, NEW w \in Workers, Work(w)
    PROVE  Typed'
<1> USE DEF Runs, Goto
<1>1. w \in Processes
  BY WorkerAssumption
<1>2. ASSUME Drop(w, held[w])
      PROVE  dropped' \in [Processes -> SUBSET Nat]
  BY <1>1, <1>2 DEF Drop, SegsTyped, Typed, TypeOK, ShmTypeOK
<1>3. ASSUME Remember(w), task[w].name \in Names
      PROVE  local' \in [Workers -> SUBSET Names]
  <2>1. PICK kept \in SUBSET (local[w] \cup {task[w].name}) : local' = [local EXCEPT ![w] = kept]
    BY <1>3 DEF Remember
  <2>2. kept \subseteq Names
    BY <1>3 DEF SegsTyped, Typed, TypeOK
  <2> QED BY <2>1, <2>2 DEF SegsTyped, Typed, TypeOK
<1>4. ASSUME Answered(w)
      PROVE  /\ Head(answers[w]) \in Answers
             /\ [answers EXCEPT ![w] = Tail(@)] \in [Workers -> Seq(Answers)]
  <2>1. answers[w] \in Seq(Answers) /\ answers[w] # <<>>
    BY <1>4 DEF Answered, Typed
  <2>2. Tail(answers[w]) \in Seq(Answers) /\ Head(answers[w]) \in Answers
    BY <2>1
  <2> QED BY <2>2 DEF Typed
<1>5. ASSUME EndTask(w)
      PROVE  /\ pc' \in [Workers -> {"idle", "asked", "read", "run", "published", "end", "joined"}]
             /\ task' \in [Workers -> [name : Names \cup {0}, writes : BOOLEAN]]
             /\ \A v \in Workers : pc'[v] \in Busy => task'[v].name \in Names
             /\ serving' \in Servings /\ serving'.step = serving.step
             /\ UNCHANGED <<cache, manager, shm_manager>>
  <2>1. /\ pc' = [pc EXCEPT ![w] = "idle"] /\ task' = [task EXCEPT ![w] = NoTask]
        /\ UNCHANGED <<cache, manager, shm_manager>>
    BY <1>5 DEF EndTask
  <2>2. serving' \in Servings /\ serving'.step = serving.step
    BY <1>5 DEF EndTask, Typed, Servings
  <2>3. NoTask \in [name : Names \cup {0}, writes : BOOLEAN]
    BY DEF NoTask
  <2>4. /\ pc' \in [Workers -> {"idle", "asked", "read", "run", "published", "end", "joined"}]
        /\ task' \in [Workers -> [name : Names \cup {0}, writes : BOOLEAN]]
    BY <2>1, <2>3 DEF Typed, TypeOK
  <2>5. \A v \in Workers : pc'[v] \in Busy => task'[v].name \in Names
    BY <2>1 DEF Busy, Typed, TypeOK
  <2> QED BY <2>1, <2>2, <2>4, <2>5
<1>6. CASE AttachAnswer(w)
  <2> DEFINE key == Head(answers[w]).key
  <2>1. key \in Nat
    BY <1>4, <1>6 DEF AttachAnswer, Found, Answers
  <2>2. /\ answers' \in [Workers -> Seq(Answers)]
        /\ attached' = [attached EXCEPT ![w] = Append(@, "D")]
        /\ held' = [held EXCEPT ![w] = {key}] /\ pc' = [pc EXCEPT ![w] = "read"] /\ pc[w] = "asked"
        /\ UNCHANGED <<nextKey, dropped, dealloc, cacheVars, queue, task, local, tasks>>
    BY <1>4, <1>6 DEF AttachAnswer, Found, Answered, Received, Attach
  <2>3. SegsTyped'
    BY <1>1, <1>6, ZenonT(40) DEF AttachAnswer, Attach, SegsTyped, Typed, TypeOK, ShmTypeOK
  <2> HIDE DEF key
  <2>4. attached' \in [Workers -> Seq({"D"})] /\ held' \in [Workers -> SUBSET Nat]
    BY <2>1, <2>2 DEF SegsTyped, Typed, TypeOK
  <2> QED BY <2>2, <2>3, <2>4 DEF cacheVars, Busy, SegsTyped, Typed, TypeOK, ShmTypeOK
<1>7. CASE ReadObject(w)
  <2>1. /\ pc[w] = "read" /\ pc' = [pc EXCEPT ![w] = "run"] /\ held' = [held EXCEPT ![w] = {}]
        /\ UNCHANGED <<segs, nextKey, dealloc, cacheVars, pipeVars, task, tasks>>
    BY <1>7 DEF ReadObject
  <2>2. dropped' \in [Processes -> SUBSET Nat] /\ local' \in [Workers -> SUBSET Names]
    BY <1>2, <1>3, <1>7 DEF ReadObject, RememberRead, Busy, SegsTyped, Typed, TypeOK
  <2> QED BY <2>1, <2>2 DEF cacheVars, pipeVars, Busy, SegsTyped, Typed, TypeOK, ShmTypeOK
<1>8. CASE ReadFile(w)
  <2>1. /\ pc[w] = "asked" /\ pc' = [pc EXCEPT ![w] = "run"]
        /\ UNCHANGED <<shmVars, cacheVars, queue, attached, task, held, tasks>>
        /\ answers' \in [Workers -> Seq(Answers)]
    BY <1>4, <1>8 DEF ReadFile, Answered, Received
  <2>2. local' \in [Workers -> SUBSET Names]
    BY <1>3, <1>8, <2>1 DEF ReadFile, RememberRead, Busy, SegsTyped, Typed, TypeOK
  <2> QED BY <2>1, <2>2 DEF shmVars, cacheVars, Busy, SegsTyped, Typed, TypeOK, ShmTypeOK
<1>9. CASE Publish(w)
  <2>1. /\ pc[w] = "run" /\ task[w].name \in Names
        /\ UNCHANGED <<dropped, dealloc, answers, attached, tasks>>
    BY <1>9 DEF Publish, Busy, Typed
  <2>2. local' \in [Workers -> SUBSET Names]
    BY <1>3, <1>9, <2>1 DEF Publish
  <2>3. CASE CreateFails(w) /\ EndTask(w) /\ UNCHANGED <<held, queue>>
    <3>1. nextKey' \in [Processes -> Nat] /\ UNCHANGED segs
      BY <1>1, <2>3, AttemptsAssumption DEF CreateFails, SegsTyped, Typed, TypeOK, ShmTypeOK
    <3> QED BY <1>5, <2>1, <2>2, <2>3, <3>1 DEF SegsTyped, Typed, TypeOK, ShmTypeOK
  <2>4. CASE /\ Create(w, task[w].name)
             /\ held' = [held EXCEPT ![w] = {NewKey(w)}]
             /\ Enqueue([kind |-> "attach", worker |-> w, name |-> task[w].name,
                         key |-> NewKey(w)])
             /\ Goto(w, "published")
             /\ UNCHANGED <<cacheVars, task>>
    <3>1. NewKey(w) \in Nat /\ FirstFree(w) \in 1 .. MaxAttempts
      BY <1>1, <2>4, NewKeyNat DEF Create, SegsTyped, Typed, TypeOK
    <3>2. nextKey' \in [Processes -> Nat]
      BY <1>1, <2>4, <3>1, AttemptsAssumption DEF Create, SegsTyped, Typed, TypeOK, ShmTypeOK
    <3>3. SegsTyped'
      BY <1>1, <2>1, <2>4, <3>1 DEF Create, SegsTyped, Typed, TypeOK, ShmTypeOK
    <3>4. queue' \in Seq(Requests)
      BY <2>1, <2>4, <3>1 DEF Enqueue, Requests, Typed
    <3>5. held' \in [Workers -> SUBSET Nat]
      BY <2>4, <3>1 DEF SegsTyped, Typed, TypeOK
    <3> QED BY <2>1, <2>2, <2>4, <3>2, <3>3, <3>4, <3>5
        DEF cacheVars, Busy, SegsTyped, Typed, TypeOK, ShmTypeOK
  <2> QED BY <1>9, <2>3, <2>4 DEF Publish
<1>10. CASE Published(w)
  <2>1. /\ pc[w] = "published" /\ pc' = [pc EXCEPT ![w] = "end"] /\ held' = [held EXCEPT ![w] = {}]
        /\ answers[w] # <<>> /\ answers' = [answers EXCEPT ![w] = Tail(@)]
        /\ UNCHANGED <<segs, nextKey, dealloc, cacheVars, queue, attached, task, local, tasks>>
    BY <1>10 DEF Published, Received
  <2>2. dropped' \in [Processes -> SUBSET Nat]
    BY <1>2, <1>10 DEF Published
  <2>3. answers' \in [Workers -> Seq(Answers)]
    <3>1. answers[w] \in Seq(Answers)
      BY DEF Typed
    <3>2. Tail(answers[w]) \in Seq(Answers)
      BY <2>1, <3>1
    <3> QED BY <2>1, <3>2 DEF Typed
  <2> QED BY <2>1, <2>2, <2>3 DEF cacheVars, Busy, SegsTyped, Typed, TypeOK, ShmTypeOK
<1>11. CASE Finish(w) \/ FinishPublished(w)
  <2>1. EndTask(w) /\ UNCHANGED <<shmVars, pipeVars, local, held, tasks>>
    BY <1>11 DEF Finish, FinishPublished
  <2> QED BY <1>5, <2>1 DEF shmVars, pipeVars, SegsTyped, Typed, TypeOK, ShmTypeOK
<1> QED BY <1>6, <1>7, <1>8, <1>9, <1>10, <1>11 DEF Work

\* Every step keeps the types.
LEMMA NextTyped ==
    ASSUME Typed, CacheInOrder, Next
    PROVE  Typed'
<1>1. CASE JoinWorkers
  <2>1. queue' \in Seq(Requests)
    BY <1>1 DEF JoinWorkers, Enqueue, End, Requests, Typed
  <2> QED BY <1>1, <2>1
      DEF JoinWorkers, shmVars, cacheVars, Busy, SegsTyped, Typed, TypeOK, ShmTypeOK
<1>2. ASSUME NEW w \in Workers, NEW name \in Names, NEW direction \in Directions,
             Start(w, name, direction)
      PROVE  Typed'
  <2>1. /\ pc[w] = "idle" /\ tasks' \in 0 .. MaxTasks
        /\ task' = [task EXCEPT ![w] = [name |-> name, writes |-> direction # "IN"]]
        /\ UNCHANGED <<shmVars, cacheVars, answers, attached, local, held>>
    BY <1>2, WorkerAssumption DEF Start, Runs, Typed, TypeOK
  <2>2. /\ pc' \in [Workers -> {"idle", "asked", "read", "run", "published", "end", "joined"}]
        /\ queue' \in Seq(Requests)
    <3> DEFINE r == [kind |-> "ask", worker |-> w, name |-> name]
    <3>1. r \in Requests
      BY DEF Requests
    <3>2. queue' = queue \/ queue' = Append(queue, r)
      BY <1>2 DEF Start, Enqueue
    <3> HIDE DEF r
    <3>3. queue' \in Seq(Requests)
      <4>1. queue \in Seq(Requests)
        BY DEF Typed
      <4>2. Append(queue, r) \in Seq(Requests)
        BY <3>1, <4>1
      <4> QED BY <3>2, <4>1, <4>2, Zenon
    <3> QED BY <1>2, <3>3 DEF Start, Goto, Typed, TypeOK
  <2>3. \A v \in Workers : pc'[v] \in Busy => task'[v].name \in Names
    BY <1>2, <2>1 DEF Start, Goto, Busy, Typed, TypeOK
  <2> QED BY <2>1, <2>2, <2>3 DEF shmVars, cacheVars, SegsTyped, Typed, TypeOK, ShmTypeOK
<1> QED BY <1>1, <1>2, ServeTyped, WorkTyped, DeallocateTyped DEF Next

-----------------------------------------------------------------------------
(* The cache.                                                              *)

\* Each step of the cache process is one or two operations on the cache, and
\* the steps of the workers leave it alone.
LEMMA NextInOrder ==
    ASSUME Typed, CacheInOrder, Next
    PROVE  CacheInOrder'
<1> USE DEF Request, CacheRuns
<1>1. ASSUME queue # <<>>, Head(queue).kind # "end"
      PROVE  Head(queue).name \in Nat
  <2>1. Head(queue) \in Requests
    BY <1>1 DEF Typed
  <2> QED BY <1>1, <2>1, WorkerAssumption DEF Requests
<1>2. CASE ServeAttach
  <2> DEFINE r == Head(queue)
  <2>1. CASE Has(cache, r.name)
    <3>1. cache' = Hit(cache, r.name) /\ serving' = [step |-> "replace", worker |-> r.worker, name |-> r.name]
      BY <1>2, <2>1 DEF ServeAttach
    <3> HIDE DEF r
    <3> QED BY <2>1, <3>1, HitInv DEF CacheInOrder, Has
  <2>2. CASE ~Has(cache, r.name)
    <3>1. /\ cache' = Add(cache, r.name, r.key, 1) /\ r.name \in Nat
          /\ serving' = [step |-> "reply", worker |-> r.worker, message |-> Done]
      BY <1>1, <1>2, <2>2 DEF ServeAttach, Reply
    <3> HIDE DEF r
    <3> QED BY <2>2, <3>1, AddInv DEF CacheInOrder
  <2> QED BY <2>1, <2>2
<1>3. CASE Replace
  <2>1. /\ Has(cache, serving.name)
        /\ serving' = [step |-> "reply", worker |-> serving.worker, message |-> Done]
    BY <1>3 DEF Replace, Reply, CacheInOrder
  <2>2. PICK key \in manager : cache' = SetObject(cache, serving.name, key, SegmentBytes)
    BY <1>3 DEF Replace
  <2> QED BY <2>1, <2>2, SetObjectInv DEF CacheInOrder
<1>4. CASE ServeSegment
  <2> DEFINE name == Head(queue).name
  <2>1. /\ Has(cache, name) /\ cache' = Hit(cache, name) /\ serving'.step = "reply"
    BY <1>4 DEF ServeSegment, Reply
  <2> HIDE DEF name
  <2> QED BY <2>1, HitInv DEF CacheInOrder
<1>5. CASE SendReply \/ Wait
  BY <1>5 DEF SendReply, Wait, Listening, CacheInOrder
<1>6. CASE ServeNo
  BY <1>6 DEF ServeNo, CacheInOrder, Has
<1>7. CASE Load
  <2>1. /\ ~Has(cache, serving.name) /\ serving.name \in Nat /\ serving' = Listening
        /\ cache' = Add(cache, serving.name, NewKey(CacheProc), 1)
    BY <1>7, WorkerAssumption DEF Load, CacheInOrder, Typed, Servings
  <2> QED BY <2>1, AddInv DEF Listening, CacheInOrder
<1>8. CASE LoadFails \/ ServeEnd
  <2>1. cache' = EmptyCache /\ serving'.step \in {"died", "ended"}
    BY <1>8 DEF LoadFails, CacheDies, ServeEnd
  <2> QED BY <2>1, EmptyCacheInv DEF CacheInOrder
<1>9. ASSUME UNCHANGED cacheVars
      PROVE  CacheInOrder'
  BY <1>9 DEF cacheVars, CacheInOrder, Has
<1>10. ASSUME NEW w \in Workers, Work(w)
       PROVE  CacheInOrder'
  <2>1. CASE UNCHANGED cacheVars
    BY <1>9, <2>1
  <2>2. CASE EndTask(w)
    BY <2>2 DEF EndTask, CacheInOrder, Has
  <2> QED BY <1>10, <2>1, <2>2
      DEF Work, AttachAnswer, ReadObject, ReadFile, Publish, Published, Finish, FinishPublished
<1>11. CASE JoinWorkers \/ \E p \in Processes : DeallocateManager(p)
  BY <1>9, <1>11 DEF JoinWorkers, DeallocateManager
<1>12. ASSUME NEW w \in Workers, NEW name \in Names, NEW direction \in Directions,
              Start(w, name, direction)
       PROVE  CacheInOrder'
  BY <1>9, <1>12 DEF Start
<1> QED BY <1>2, <1>3, <1>4, <1>5, <1>6, <1>7, <1>8, <1>10, <1>11, <1>12 DEF Next, Serve

\* A step that changes nothing keeps the invariant.
LEMMA StutterInv ==
    ASSUME IInv, UNCHANGED vars
    PROVE  IInv'
BY DEF IInv, Typed, TypeOK, ShmTypeOK, SegsTyped, Servings, CacheInOrder, Has, Objects, vars,
       shmVars, cacheVars, pipeVars, workerVars

\* The types, and the order of the cache, are invariants.
THEOREM WorkerInvariant == Spec => []IInv
<1>1. Init => IInv
  BY InitTyped, EmptyCacheInv DEF Init, Listening, IInv, CacheInOrder
<1>2. IInv /\ [Next]_vars => IInv'
  BY NextTyped, NextInOrder, StutterInv DEF IInv
<1> QED BY <1>1, <1>2, PTL DEF Spec

\* Whatever processes run, in whatever order, the types are as declared.
THEOREM WorkerTypes == Spec => []TypeOK
<1>1. IInv => TypeOK
  BY DEF IInv, Typed
<1> QED BY <1>1, WorkerInvariant, PTL

\* The map and the ordered set of the cache hold the same entries, whatever
\* the workers ask it for: no entry is lost in the set by changing in place,
\* and no entry evicted from the one stays in the other.
THEOREM CacheIndexesAgree == Spec => []IndexesAgree
<1>1. IInv => IndexesAgree
  BY DEF IInv, CacheInOrder, CacheInv, IndexesAgree
<1> QED BY <1>1, WorkerInvariant, PTL

-----------------------------------------------------------------------------
(* The size of the cache, and what goes first.                             *)

\* The units of an entry are as many as its size, and those of two sets are those of their union.
LEMMA UnitsOf ==
    /\ \A e : e.size \in Nat => IsFiniteSet(Units({e})) /\ SizeOf({e}) = e.size
    /\ \A S, T : Units(S \cup T) = Units(S) \cup Units(T)
    /\ \A S, T : S \cap T = {} => Units(S) \cap Units(T) = {}
<1>1. ASSUME NEW e, e.size \in Nat
      PROVE  IsFiniteSet(Units({e})) /\ SizeOf({e}) = e.size
  <2>1. Units({e}) = {e} \X (1 .. e.size)
    BY DEF Units
  <2>2. IsFiniteSet({e}) /\ Cardinality({e}) = 1
    BY FS_Singleton
  <2>3. IsFiniteSet(1 .. e.size) /\ Cardinality(1 .. e.size) = e.size
    BY <1>1, FS_Interval
  <2>4. /\ IsFiniteSet({e} \X (1 .. e.size))
        /\ Cardinality({e} \X (1 .. e.size)) = Cardinality({e}) * Cardinality(1 .. e.size)
    BY <2>2, <2>3, FS_Product
  <2>5. IsFiniteSet(Units({e})) /\ SizeOf({e}) = 1 * e.size
    BY <2>1, <2>2, <2>3, <2>4 DEF SizeOf
  <2> QED BY <1>1, <2>5
<1>2. \A S, T : Units(S \cup T) = Units(S) \cup Units(T)
  BY DEF Units
<1>3. \A S, T : S \cap T = {} => Units(S) \cap Units(T) = {}
  BY DEF Units
<1> QED BY <1>1, <1>2, <1>3

\* The size of a set of entries is that of a part and of the rest.
LEMMA SizeSplits ==
    ASSUME NEW S, IsFiniteSet(Units(S)), NEW T, T \subseteq S
    PROVE  /\ IsFiniteSet(Units(T)) /\ IsFiniteSet(Units(S \ T))
           /\ SizeOf(T) \in Nat /\ SizeOf(S) \in Nat
           /\ SizeOf(S \ T) = SizeOf(S) - SizeOf(T)
           /\ SizeOf(T) =< SizeOf(S)
<1>1. T \cup (S \ T) = S /\ T \cap (S \ T) = {}
  OBVIOUS
<1>2. Units(S) = Units(T) \cup Units(S \ T) /\ Units(T) \cap Units(S \ T) = {}
  BY <1>1, UnitsOf
<1>3. Units(T) \in SUBSET Units(S) /\ Units(S \ T) \in SUBSET Units(S)
  BY <1>2
<1>4. IsFiniteSet(Units(T)) /\ IsFiniteSet(Units(S \ T))
  BY <1>3, FS_Subset
<1>5. Cardinality(Units(S)) = Cardinality(Units(T)) + Cardinality(Units(S \ T))
                                - Cardinality(Units(T) \cap Units(S \ T))
  BY <1>2, <1>4, FS_Union
<1>6. Cardinality(Units(T) \cap Units(S \ T)) = 0
  BY <1>2, FS_EmptySet
<1>7. Cardinality(Units(T)) \in Nat /\ Cardinality(Units(S \ T)) \in Nat /\ Cardinality(Units(S)) \in Nat
  BY <1>4, FS_CardinalityType
<1> QED BY <1>4, <1>5, <1>6, <1>7 DEF SizeOf

\* A new entry adds its size.
LEMMA SizeGrows ==
    ASSUME NEW S, IsFiniteSet(Units(S)), NEW e, e \notin S, e.size \in Nat
    PROVE  IsFiniteSet(Units(S \cup {e})) /\ SizeOf(S \cup {e}) = SizeOf(S) + e.size
<1>1. /\ Units(S \cup {e}) = Units(S) \cup Units({e}) /\ Units(S) \cap Units({e}) = {}
      /\ IsFiniteSet(Units({e})) /\ SizeOf({e}) = e.size
  <2>1. S \cap {e} = {}
    OBVIOUS
  <2> QED BY <2>1, UnitsOf
<1>2. IsFiniteSet(Units(S) \cup Units({e}))
      /\ Cardinality(Units(S) \cup Units({e})) = Cardinality(Units(S)) + Cardinality(Units({e}))
                                                   - Cardinality(Units(S) \cap Units({e}))
  BY <1>1, FS_Union
<1>3. Cardinality(Units(S) \cap Units({e})) = 0
  BY <1>1, FS_EmptySet
<1>4. SizeOf(S) \in Nat
  BY FS_CardinalityType DEF SizeOf
<1>5. SizeOf(S \cup {e}) = SizeOf(S) + e.size - 0
  BY <1>1, <1>2, <1>3 DEF SizeOf
<1>6. IsFiniteSet(Units(S \cup {e}))
  BY <1>1, <1>2, Zenon
<1> QED BY <1>4, <1>5, <1>6

\* What is needed of a cache: the sizes of finitely many entries add up to its own.
Sized(c) ==
    /\ IsFiniteSet(c.S) /\ IsFiniteSet(Units(c.S))
    /\ \A e \in c.S : e.size \in Nat
    /\ c.size = SizeOf(c.S)

\* The empty cache has it.
LEMMA EmptyCacheSized == Sized(EmptyCache) /\ EmptyCache.size =< SizeLimit
<1>1. EmptyCache.S = {} /\ EmptyCache.size = 0
  BY DEF EmptyCache, Cache
<1>2. Units({}) = {}
  BY DEF Units
<1>3. IsFiniteSet({}) /\ Cardinality({}) = 0
  BY FS_EmptySet
<1> QED BY <1>1, <1>2, <1>3, SizeLimitAssumption DEF Sized, SizeOf

\* The entries have comparable priorities.
Ranked(S) == \A e \in S : e.hits \in Nat /\ e.last \in Nat /\ e.id \in Nat

\* The comparison is transitive.
LEMMA Transitive ==
    ASSUME NEW S, Ranked(S), NEW a \in S, NEW b \in S, NEW c \in S, Before(a, b), Before(b, c)
    PROVE  Before(a, c)
BY DEF Ranked, Before

\* Among entries there is one that no other is before.
LEMMA FirstOf ==
    ASSUME NEW S, IsFiniteSet(S), Ranked(S), NEW T, T \subseteq S, T # {}
    PROVE  \E e \in T : \A x \in T : ~Before(x, e)
<1> DEFINE Earlier(e) == {x \in S : Before(x, e)}
           N == {Cardinality(Earlier(e)) : e \in T}
           Less == OpToRel(<, Nat)
<1>1. \A e \in S : IsFiniteSet(Earlier(e)) /\ Cardinality(Earlier(e)) \in Nat
  <2> TAKE e \in S
  <2>1. Earlier(e) \in SUBSET S
    OBVIOUS
  <2> HIDE DEF Earlier
  <2> QED BY <2>1, FS_Subset, FS_CardinalityType
<1>2. N \subseteq Nat /\ N # {}
  <2> HIDE DEF Earlier
  <2> QED BY <1>1
<1>3. PICK n \in N : \A m \in N : <<m, n>> \notin Less
  <2>1. IsWellFoundedOn(Less, Nat)
    BY NatLessThanWellFounded
  <2> HIDE DEF Less, N
  <2> QED BY <1>2, <2>1, WFMin
<1>4. PICK e \in T : n = Cardinality(Earlier(e))
  BY <1>3
<1>5. ASSUME NEW x \in T, Before(x, e)
      PROVE  FALSE
  <2>1. x \in S /\ e \in S
    OBVIOUS
  <2>2. Earlier(x) \in SUBSET Earlier(e)
    BY <1>5, <2>1, Transitive
  <2>3. x \in Earlier(e) /\ x \notin Earlier(x)
    BY <1>5, <2>1, Irreflexive DEF Ranked
  <2>4. Cardinality(Earlier(x)) \in N
    OBVIOUS
  <2> HIDE DEF Earlier, N
  <2>5. Cardinality(Earlier(x)) <= Cardinality(Earlier(e)) /\ Cardinality(Earlier(x)) # Cardinality(Earlier(e))
    BY <1>1, <2>1, <2>2, <2>3, FS_Subset
  <2>6. Cardinality(Earlier(x)) \in Nat /\ Cardinality(Earlier(e)) \in Nat
    BY <1>1, <2>1
  <2>7. Cardinality(Earlier(x)) < n /\ n \in Nat
    BY <1>4, <2>5, <2>6
  <2> QED BY <1>3, <2>4, <2>6, <2>7 DEF OpToRel
<1> QED BY <1>5

\* The entries of a cache have comparable priorities.
LEMMA EntriesRanked ==
    ASSUME NEW c, CacheInv(c)
    PROVE  Ranked(c.S)
BY DEF CacheInv, Agree, Ranked

\* What an eviction leaves out are the first entries of the ordered set.
LEMMA EvictedFirst ==
    ASSUME NEW c, Ranked(c.S), Sized(c), c.size \in Nat,
           NEW e \in c.S, NEW x \in c.S, Before(x, e), e \in Evicted(c)
    PROVE  x \in Evicted(c)
<1> DEFINE Earlier(y) == {z \in c.S : Before(z, y)}
<1>1. Earlier(x) \subseteq Earlier(e) /\ Earlier(e) \subseteq c.S
  BY Transitive
<1>2. c.size - SizeOf(Earlier(e)) >= SizeLimit
  BY DEF Evicted
<1>3. x \in Evicted(c) <=> c.size - SizeOf(Earlier(x)) >= SizeLimit
  BY DEF Evicted
<1> HIDE DEF Earlier
<1>4. IsFiniteSet(Units(Earlier(e))) /\ SizeOf(Earlier(e)) \in Nat
  BY <1>1, SizeSplits DEF Sized
<1>5. SizeOf(Earlier(x)) \in Nat /\ SizeOf(Earlier(x)) =< SizeOf(Earlier(e))
  BY <1>1, <1>4, SizeSplits
<1> QED BY <1>2, <1>3, <1>4, <1>5, SizeLimitAssumption

\* What is left after an eviction is within the limit.
LEMMA EvictedEnough ==
    ASSUME NEW c, Ranked(c.S), Sized(c)
    PROVE  c.size - SizeOf(Evicted(c)) =< SizeLimit
<1> DEFINE gone == Evicted(c)
           T == c.S \ gone
           Earlier(y) == {z \in c.S : Before(z, y)}
<1>1. gone \subseteq c.S
  BY DEF Evicted
<1>2. c.size \in Nat /\ SizeOf(gone) \in Nat
  <2> HIDE DEF gone
  <2> QED BY <1>1, SizeSplits DEF Sized
<1>3. CASE T = {}
  <2>1. gone = c.S
    BY <1>1, <1>3
  <2>2. c.size = SizeOf(gone)
    BY <2>1 DEF Sized
  <2> QED BY <1>2, <2>2, SizeLimitAssumption
<1>4. CASE T # {}
  <2>1. T \subseteq c.S /\ IsFiniteSet(c.S)
    BY DEF Sized
  <2>2. PICK e \in T : \A x \in T : ~Before(x, e)
    <3> HIDE DEF T
    <3> QED BY <1>4, <2>1, FirstOf
  <2>3. e \in c.S /\ e \notin gone
    OBVIOUS
  <2>4. Earlier(e) \subseteq gone
    BY <2>2
  <2>5. ~(c.size - SizeOf(Earlier(e)) >= SizeLimit)
    BY <2>3 DEF Evicted
  <2> HIDE DEF gone, T, Earlier
  <2>6. IsFiniteSet(Units(gone))
    BY <1>1, SizeSplits DEF Sized
  <2>7. SizeOf(Earlier(e)) \in Nat /\ SizeOf(Earlier(e)) =< SizeOf(gone)
    BY <2>4, <2>6, SizeSplits
  <2> QED BY <1>2, <2>5, <2>7, SizeLimitAssumption DEF gone
<1> QED BY <1>3, <1>4

\* Every entry that went was before every entry that stayed.
EvictsLeast(c, d) ==
    \A gone \in DOMAIN c.H \ DOMAIN d.H : \A n \in DOMAIN c.H \cap DOMAIN d.H :
        Before(c.H[gone], d.H[n])

\* An eviction keeps the sizes, respects the limit and takes the least used.
LEMMA EvictSized ==
    ASSUME NEW c, CacheInv(c), Sized(c)
    PROVE  /\ Sized(Evict(c)) /\ Evict(c).size =< SizeLimit
           /\ EvictsLeast(c, Evict(c))
           /\ \A n \in DOMAIN Evict(c).H : n \in DOMAIN c.H /\ Evict(c).H[n] = c.H[n]
<1>1. Ranked(c.S) /\ c.size \in Nat
  BY EntriesRanked, SizeSplits DEF Sized
<1>2. CASE c.size < SizeLimit
  <2>1. Evict(c) = c
    BY <1>2 DEF Evict
  <2> QED BY <1>1, <1>2, <2>1, SizeLimitAssumption DEF EvictsLeast
<1>3. CASE ~(c.size < SizeLimit)
  <2> DEFINE gone == Evicted(c)
             stay == DOMAIN c.H \ {e.id : e \in gone}
             d == Cache([i \in stay |-> c.H[i]], c.S \ gone, c.time, c.size - SizeOf(gone))
  <2>1. Evict(c) = d
    BY <1>3 DEF Evict
  <2>2. gone \subseteq c.S
    BY DEF Evicted
  <2>3. /\ d.H = [i \in stay |-> c.H[i]] /\ d.S = c.S \ gone /\ d.size = c.size - SizeOf(gone)
    BY DEF Cache
  <2>4. /\ DOMAIN d.H = stay /\ stay \subseteq DOMAIN c.H
        /\ \A n \in stay : d.H[n] = c.H[n]
    BY <2>3
  <2> HIDE DEF gone, d
  <2>5. \A n \in DOMAIN c.H : c.H[n] \in c.S /\ (c.H[n] \in gone <=> n \notin stay)
    BY <2>2 DEF CacheInv, Agree
  <2> HIDE DEF stay
  <2>6. c.size - SizeOf(gone) =< SizeLimit
    BY <1>1, EvictedEnough DEF gone
  <2>7. IsFiniteSet(Units(c.S \ gone)) /\ SizeOf(c.S \ gone) = SizeOf(c.S) - SizeOf(gone)
    BY <2>2, SizeSplits DEF Sized
  <2>8. IsFiniteSet(c.S \ gone)
    BY FS_Difference DEF Sized
  <2>9. Sized(d) /\ d.size =< SizeLimit
    BY <2>3, <2>6, <2>7, <2>8 DEF Sized
  <2>10. ASSUME NEW g \in DOMAIN c.H \ DOMAIN d.H, NEW n \in DOMAIN c.H \cap DOMAIN d.H
         PROVE  Before(c.H[g], d.H[n])
    <3>1. c.H[g] \in gone /\ c.H[n] \notin gone /\ c.H[g] \in c.S /\ c.H[n] \in c.S /\ d.H[n] = c.H[n] /\ g # n
      BY <2>4, <2>5
    <3>2. ~Before(c.H[n], c.H[g])
      BY <1>1, <3>1, EvictedFirst DEF gone
    <3>3. Before(c.H[n], c.H[g]) \/ Before(c.H[g], c.H[n])
      BY <3>1, Comparable DEF CacheInv, Agree
    <3> QED BY <3>1, <3>2, <3>3
  <2> QED BY <2>1, <2>4, <2>9, <2>10 DEF EvictsLeast
<1> QED BY <1>2, <1>3

\* Putting an entry adds its size to that of the others.
LEMMA PutSized ==
    ASSUME NEW c, CacheInv(c), Sized(c), NEW e, NEW S, NEW size, NEW time,
           e.hits \in Nat, e.last \in Nat, e.size \in Nat,
           \A n \in DOMAIN c.H \ {e.id} : c.H[n].last # e.last,
           S = {c.H[n] : n \in DOMAIN c.H \ {e.id}},
           size = SizeOf(S) + e.size
    PROVE  Sized(Cache(Put(c.H, e), Insert(S, e), time, size))
<1>1. \A n \in DOMAIN c.H \ {e.id} : Before(c.H[n], e) \/ Before(e, c.H[n])
  BY Comparable DEF CacheInv
<1>2. Insert(S, e) = S \cup {e}
  BY <1>1 DEF Insert, Erase
<1>3. S \subseteq c.S /\ e \notin S
  BY DEF CacheInv, Agree
<1>4. IsFiniteSet(S) /\ IsFiniteSet(Units(S))
  <2>1. IsFiniteSet(Units(S))
    BY <1>3, SizeSplits DEF Sized
  <2>2. S \in SUBSET c.S
    BY <1>3
  <2> QED BY <2>1, <2>2, FS_Subset DEF Sized
<1>5. IsFiniteSet(S \cup {e}) /\ IsFiniteSet(Units(S \cup {e})) /\ SizeOf(S \cup {e}) = size
  BY <1>3, <1>4, SizeGrows, FS_AddElement
<1>6. \A x \in S \cup {e} : x.size \in Nat
  BY <1>3 DEF Sized
<1> QED BY <1>2, <1>5, <1>6 DEF Sized, Cache

\* The others take what is left when an entry is erased.
LEMMA ErasedSize ==
    ASSUME NEW c, CacheInv(c), Sized(c), NEW id \in DOMAIN c.H
    PROVE  /\ c.H[id].size \in Nat /\ c.size \in Nat
           /\ SizeOf({c.H[n] : n \in DOMAIN c.H \ {id}}) = c.size - c.H[id].size
<1>1. c.S = {c.H[n] : n \in DOMAIN c.H} /\ \A n \in DOMAIN c.H : c.H[n].id = n
  BY DEF CacheInv, Agree
<1>2. c.H[id] \in c.S /\ {c.H[n] : n \in DOMAIN c.H \ {id}} = c.S \ {c.H[id]}
  BY <1>1
<1>3. c.H[id].size \in Nat
  BY <1>2 DEF Sized
<1>4. SizeOf({c.H[id]}) = c.H[id].size
  BY <1>3, UnitsOf
<1>5. SizeOf(c.S) \in Nat /\ SizeOf(c.S \ {c.H[id]}) = SizeOf(c.S) - SizeOf({c.H[id]})
  <2>1. {c.H[id]} \subseteq c.S
    BY <1>2
  <2> QED BY <2>1, SizeSplits DEF Sized
<1> QED BY <1>2, <1>3, <1>4, <1>5 DEF Sized

\* A new object is counted, if it fits.
LEMMA AddSized ==
    ASSUME NEW c, CacheInv(c), Sized(c), NEW id \in Nat, NEW obj, NEW size \in Nat, ~Has(c, id)
    PROVE  /\ Sized(Add(c, id, obj, size)) /\ Add(c, id, obj, size).size =< SizeLimit
           /\ EvictsLeast(c, Add(c, id, obj, size))
<1> DEFINE d == Evict(c)
           e == Entry(id, obj, size, 1, d.time)
<1>1. /\ CacheInv(d) /\ id \notin DOMAIN d.H /\ id \notin DOMAIN c.H
      /\ Sized(d) /\ d.size =< SizeLimit /\ EvictsLeast(c, d)
  BY EvictInv, EvictSized DEF Has
<1> HIDE DEF d
<1>2. e.id = id /\ e.hits = 1 /\ e.last = d.time /\ e.size = size
  BY DEF Entry
<1> HIDE DEF e
<1>3. CASE d.size + size =< SizeLimit
  <2> DEFINE f == Cache(Put(d.H, e), Insert(d.S, e), d.time + 1, d.size + size)
  <2>1. DOMAIN d.H \ {e.id} = DOMAIN d.H
    BY <1>1, <1>2
  <2>2. /\ d.time \in Nat /\ d.S = {d.H[n] : n \in DOMAIN d.H}
        /\ \A n \in DOMAIN d.H : d.H[n].last < d.time /\ d.H[n].last \in Nat
    BY <1>1 DEF CacheInv, Agree
  <2>3. /\ e.hits \in Nat /\ e.last \in Nat /\ e.size \in Nat
        /\ \A n \in DOMAIN d.H \ {e.id} : d.H[n].last # e.last
        /\ d.S = {d.H[n] : n \in DOMAIN d.H \ {e.id}}
        /\ d.size + size = SizeOf(d.S) + e.size
    BY <1>1, <1>2, <2>1, <2>2 DEF Sized
  <2>4. Sized(f)
    BY <1>1, <2>3, PutSized, Zenon
  <2>5. f.size = d.size + size /\ f.H = Put(d.H, e)
    BY DEF Cache
  <2>6. /\ DOMAIN f.H = DOMAIN d.H \cup {id}
        /\ \A n \in DOMAIN d.H : f.H[n] = d.H[n]
    BY <1>1, <1>2, <2>5 DEF Put
  <2>7. Add(c, id, obj, size) = f
    BY <1>3 DEF Add, d, e
  <2> HIDE DEF f
  <2>8. EvictsLeast(c, f)
    BY <1>1, <2>6 DEF EvictsLeast
  <2> QED BY <1>3, <2>4, <2>5, <2>7, <2>8
<1>4. CASE ~(d.size + size =< SizeLimit)
  <2> DEFINE f == Cache(d.H, d.S, d.time + 1, d.size)
  <2>1. Add(c, id, obj, size) = f
    BY <1>4 DEF Add, d, e
  <2>2. f.H = d.H /\ f.S = d.S /\ f.size = d.size
    BY DEF Cache
  <2> HIDE DEF f
  <2> QED BY <1>1, <2>1, <2>2 DEF Sized, EvictsLeast
<1> QED BY <1>3, <1>4

\* A hit changes no size, and nothing goes.
LEMMA HitSized ==
    ASSUME NEW c, CacheInv(c), Sized(c), NEW id, Has(c, id)
    PROVE  Sized(Hit(c, id)) /\ Hit(c, id).size = c.size /\ EvictsLeast(c, Hit(c, id))
<1> DEFINE e == HitEntry(c, id)
           S == {c.H[n] : n \in DOMAIN c.H \ {e.id}}
<1>1. e.id = id /\ e.hits = c.H[id].hits + 1 /\ e.last = c.time /\ e.size = c.H[id].size
  BY DEF HitEntry, Entry
<1>2. id \in DOMAIN c.H /\ c.H[id].hits \in Nat /\ c.time \in Nat
  BY DEF Has, CacheInv
<1> HIDE DEF e
<1>3. \A n \in DOMAIN c.H : c.H[n].last < c.time /\ c.H[n].last \in Nat
  BY DEF CacheInv, Agree
<1>4. Erase(c.S, c.H[id]) = S
  BY <1>1, <1>2, EraseEntry
<1>5. c.H[id].size \in Nat /\ c.size \in Nat /\ SizeOf(S) = c.size - c.H[id].size
  BY <1>1, <1>2, ErasedSize
<1>6. /\ e.hits \in Nat /\ e.last \in Nat /\ e.size \in Nat
      /\ \A n \in DOMAIN c.H \ {e.id} : c.H[n].last # e.last
      /\ c.size = SizeOf(S) + e.size
  <2> HIDE DEF S
  <2> QED BY <1>1, <1>2, <1>3, <1>5
<1>7. Sized(Cache(Put(c.H, e), Insert(S, e), c.time + 1, c.size))
  BY <1>6, PutSized, Zenon
<1>8. Sized(Hit(c, id)) /\ Hit(c, id).size = c.size
  BY <1>4, <1>7 DEF Hit, Cache, e
<1>9. DOMAIN Hit(c, id).H = DOMAIN c.H
  BY HitInv
<1> QED BY <1>8, <1>9 DEF EvictsLeast

\* The size of a new object replaces that of the old one, and what is too much goes.
LEMMA SetObjectSized ==
    ASSUME NEW c, CacheInv(c), Sized(c), NEW id, Has(c, id), NEW obj, NEW size \in Nat
    PROVE  /\ Sized(SetObject(c, id, obj, size)) /\ SetObject(c, id, obj, size).size =< SizeLimit
           /\ EvictsLeast(c, SetObject(c, id, obj, size))
<1> DEFINE e == NewEntry(c, id, obj, size)
           S == {c.H[n] : n \in DOMAIN c.H \ {e.id}}
           total == c.size - c.H[id].size + size
           d == Cache(Put(c.H, e), Insert(S, e), c.time, total)
<1>1. e.id = id /\ e.hits = c.H[id].hits /\ e.last = c.H[id].last /\ e.size = size
  BY DEF NewEntry, Entry
<1>2. /\ id \in DOMAIN c.H /\ id \in Nat /\ c.time \in Nat
      /\ c.H[id].hits \in Nat /\ c.H[id].last \in Nat /\ c.H[id].last < c.time
  BY DEF Has, CacheInv, Agree
<1> HIDE DEF e
<1>3. \A n \in DOMAIN c.H \ {id} : c.H[n].last # c.H[id].last
  BY <1>2 DEF CacheInv, Agree
<1>4. Erase(c.S, c.H[id]) = S
  BY <1>1, <1>2, EraseEntry
<1>5. c.H[id].size \in Nat /\ c.size \in Nat /\ SizeOf(S) = c.size - c.H[id].size
  BY <1>1, <1>2, ErasedSize
<1>6. /\ e.id \in Nat /\ e.hits \in Nat /\ e.last \in Nat /\ e.size \in Nat /\ c.time \in Nat
      /\ e.last < c.time /\ c.time =< c.time
      /\ \A n \in DOMAIN c.H \ {e.id} : c.H[n].last # e.last
      /\ total = SizeOf(S) + e.size
  <2> HIDE DEF S
  <2> QED BY <1>1, <1>2, <1>3, <1>5
<1>7. Sized(d) /\ CacheInv(d)
  <2> HIDE DEF total
  <2>1. Sized(d)
    BY <1>6, PutSized, Zenon
  <2>2. CacheInv(d)
    BY <1>6, PutInv, Zenon
  <2> QED BY <2>1, <2>2
<1>8. /\ DOMAIN d.H = DOMAIN c.H /\ d.H[id] = e
      /\ \A n \in DOMAIN c.H \ {id} : d.H[n] = c.H[n]
  BY <1>1, <1>2 DEF Cache, Put
<1>9. SetObject(c, id, obj, size) = Evict(d)
  BY <1>4 DEF SetObject, e
<1> HIDE DEF d
<1>10. /\ Sized(Evict(d)) /\ Evict(d).size =< SizeLimit /\ EvictsLeast(d, Evict(d))
  BY <1>7, EvictSized
<1>11. \A x : \A n \in DOMAIN c.H : Before(d.H[n], x) => Before(c.H[n], x)
  <2>1. c.H[id].id = id
    BY <1>2 DEF CacheInv, Agree
  <2> QED BY <1>1, <1>8, <2>1 DEF Before
<1>12. EvictsLeast(c, Evict(d))
  BY <1>8, <1>10, <1>11 DEF EvictsLeast
<1> QED BY <1>9, <1>10, <1>12

CacheSized == Sized(cache) /\ cache.size =< SizeLimit

\* An operation on the cache keeps its size, and takes the least used if any.
LEMMA SizedStep ==
    ASSUME IInv, CacheSized, Next
    PROVE  CacheSized' /\ (serving'.step \notin {"ended", "died"} => EvictsLeast(cache, cache'))
<1> USE DEF Request, CacheRuns
<1>1. CacheInv(cache) /\ Sized(cache) /\ cache.size =< SizeLimit /\ 1 \in Nat
  BY DEF IInv, CacheInOrder, CacheSized
<1>2. CASE ServeAttach
  <2> DEFINE r == Head(queue)
  <2>1. CASE Has(cache, r.name)
    <3>1. cache' = Hit(cache, r.name)
      BY <1>2, <2>1 DEF ServeAttach
    <3> HIDE DEF r
    <3> QED BY <1>1, <2>1, <3>1, HitSized DEF CacheSized
  <2>2. CASE ~Has(cache, r.name)
    <3>1. r \in Requests /\ r.kind = "attach"
      BY <1>2 DEF ServeAttach, IInv, Typed
    <3>2. cache' = Add(cache, r.name, r.key, 1) /\ r.name \in Nat
      BY <1>2, <2>2, <3>1, WorkerAssumption DEF ServeAttach, Requests
    <3> HIDE DEF r
    <3> QED BY <1>1, <2>2, <3>2, AddSized DEF CacheSized
  <2> QED BY <2>1, <2>2
<1>3. CASE Replace
  <2>1. Has(cache, serving.name)
    BY <1>3 DEF Replace, IInv, CacheInOrder
  <2>2. PICK key \in manager : cache' = SetObject(cache, serving.name, key, SegmentBytes)
    BY <1>3 DEF Replace
  <2> QED BY <1>1, <2>1, <2>2, WorkerAssumption, SetObjectSized DEF CacheSized
<1>4. CASE ServeSegment
  <2> DEFINE name == Head(queue).name
  <2>1. Has(cache, name) /\ cache' = Hit(cache, name)
    BY <1>4 DEF ServeSegment
  <2> HIDE DEF name
  <2> QED BY <1>1, <2>1, HitSized DEF CacheSized
<1>5. CASE Load
  <2>1. /\ ~Has(cache, serving.name) /\ serving.name \in Nat
        /\ cache' = Add(cache, serving.name, NewKey(CacheProc), 1)
    BY <1>5, WorkerAssumption DEF Load, IInv, CacheInOrder, Typed, Servings
  <2> QED BY <1>1, <2>1, AddSized DEF CacheSized
<1>6. CASE LoadFails \/ ServeEnd
  <2>1. cache' = EmptyCache /\ serving'.step \in {"died", "ended"}
    BY <1>6 DEF LoadFails, CacheDies, ServeEnd
  <2> QED BY <2>1, EmptyCacheSized DEF CacheSized
<1>7. ASSUME UNCHANGED cache
      PROVE  CacheSized' /\ EvictsLeast(cache, cache')
  BY <1>1, <1>7 DEF CacheSized, EvictsLeast
<1>8. CASE SendReply \/ Wait \/ ServeNo
  BY <1>7, <1>8 DEF SendReply, Wait, ServeNo
<1>9. CASE \/ JoinWorkers \/ \E p \in Processes : DeallocateManager(p)
           \/ \E w \in Workers : \/ Work(w)
                               \/ \E name \in Names, direction \in Directions : Start(w, name, direction)
  <2>1. UNCHANGED cache
    BY <1>9 DEF JoinWorkers, DeallocateManager, Start, Work, AttachAnswer, ReadObject, ReadFile, Publish,
                Published, Finish, FinishPublished, EndTask, cacheVars
  <2> QED BY <1>7, <2>1
<1> QED BY <1>2, <1>3, <1>4, <1>5, <1>6, <1>8, <1>9 DEF Next, Serve

\* The size of the cache is that of its entries.
THEOREM SizeInvariant == Spec => [](IInv /\ CacheSized)
<1>1. Init => IInv /\ CacheSized
  BY InitTyped, EmptyCacheInv, EmptyCacheSized DEF Init, Listening, IInv, CacheInOrder, CacheSized
<1>2. IInv /\ CacheSized /\ [Next]_vars => (IInv /\ CacheSized)'
  <2>1. ASSUME IInv, CacheSized, Next PROVE (IInv /\ CacheSized)'
    BY <2>1, NextTyped, NextInOrder, SizedStep DEF IInv
  <2>2. ASSUME IInv, CacheSized, UNCHANGED vars PROVE (IInv /\ CacheSized)'
    BY <2>2, StutterInv DEF vars, cacheVars, CacheSized
  <2> QED BY <2>1, <2>2
<1> QED BY <1>1, <1>2, PTL DEF Spec

\* The size by which the cache decides on evictions (persistent_cache.cc, add and
\* set_object) is that of its entries and within the limit, whatever objects are added,
\* replaced by larger ones, or evicted, and in whatever order.
THEOREM SizesAddUp == Spec => []SizeAccounted
<1>1. IInv /\ CacheSized => SizeAccounted
  BY DEF CacheSized, Sized, SizeAccounted
<1> QED BY <1>1, SizeInvariant, PTL

\* An entry goes only when all that stay were used more (persistent_cache.cc, the loop over
\* the first element of the set), unless the cache process ends.
THEOREM EvictionsAreFair == Spec => LeastUsedFirst
<1>1. IInv /\ CacheSized /\ [Next]_vars =>
        [serving'.step \notin {"ended", "died"} =>
         \A gone \in DOMAIN cache.H \ DOMAIN cache'.H : \A n \in DOMAIN cache.H \cap DOMAIN cache'.H :
            Before(cache.H[gone], cache'.H[n])]_vars
  BY SizedStep DEF EvictsLeast
<1> QED BY <1>1, SizeInvariant, PTL DEF Spec, LeastUsedFirst

-----------------------------------------------------------------------------
(* The processes in step, and the segments.                                *)

\* The requests of worker w in the queue, and whether the cache process is at one of them.
Asks(w) == {i \in DOMAIN queue : queue[i].kind # "end" /\ queue[i].worker = w}
Serves(w) == serving.step \in {"replace", "reply"} /\ serving.worker = w

\* The cache process has sent worker w a key and waits until it is attached.
WaitsFor(w) == serving = [step |-> "wait", worker |-> w]

\* A worker has a manager between attaching or creating a segment and letting go of it.
HasManager(w) ==
    IF pc[w] \in {"read", "published"} THEN \E key \in Nat : held[w] = {key} ELSE held[w] = {}

\* A worker waits for one thing: its request, its service, or the answer.
OneAtATime(w) ==
    /\ \A i, j \in Asks(w) : i = j
    /\ Len(answers[w]) <= 1
    /\ pc[w] \in {"asked", "published"} <=> Asks(w) # {} \/ Serves(w) \/ answers[w] # <<>>
    /\ Asks(w) # {} => ~Serves(w) /\ answers[w] = <<>>
    /\ Serves(w) => answers[w] = <<>>

\* A request is what its worker waits for.
Matches(w, r) ==
    /\ r.name = task[w].name
    /\ r.kind = "ask" => pc[w] = "asked"
    /\ r.kind = "attach" => pc[w] = "published" /\ held[w] = {r.key}

\* So is an answer; a segment that is sent is held until it is attached.
Fits(w, m) ==
    IF m.kind = "segment" THEN pc[w] = "asked" /\ shm_manager = {m.key}
    ELSE m.kind = "DONE" <=> pc[w] = "published"

AnswersMatch(w) ==
    /\ Serves(w) /\ serving.step = "replace" =>
          pc[w] = "published" /\ manager = held[w] /\ serving.name = task[w].name
    /\ Serves(w) /\ serving.step = "reply" =>
          Fits(w, serving.message) /\ serving.message.kind # "N"
    /\ \A i \in DOMAIN answers[w] :
          /\ Fits(w, answers[w][i])
          /\ answers[w][i].kind = "segment" => WaitsFor(w) /\ attached[w] = <<>>
    /\ attached[w] # <<>> => Len(attached[w]) = 1 /\ WaitsFor(w)

InStep(w) ==
    /\ HasManager(w)
    /\ OneAtATime(w)
    /\ \A i \in Asks(w) : Matches(w, queue[i])
    /\ AnswersMatch(w)

Protocol == \A w \in Workers : InStep(w)

-----------------------------------------------------------------------------

\* The segments that process p refers to.
Refers(p) == IF p = CacheProc THEN Held ELSE held[p]

\* A process attaches what it refers to and what it is to let go of.
Attachments == \A p \in Processes :
    /\ Attached(p) = Refers(p) \cup dropped[p]
    /\ Refers(p) \cap dropped[p] = {}

\* The key of a segment is on its way to worker w.
Offered(w, key) ==
    \/ Serves(w) /\ serving.step = "reply" /\ serving.message = Segment(key)
    \/ \E i \in DOMAIN answers[w] : answers[w][i] = Segment(key)

\* The segments of the entries of the cache, of a worker's task and of its
\* answer hold the object of that name.
Contents ==
    /\ \A n \in DOMAIN cache.H : segs[cache.H[n].obj].content = n
    /\ \A w \in Workers : \A key \in held[w] : segs[key].content = task[w].name
    /\ \A w \in Workers : \A key \in Nat : Offered(w, key) => segs[key].content = task[w].name

\* Who is removing a segment does not attach it, nor does anybody when it is
\* to go; and one that nobody attaches is being removed.
Removals ==
    /\ \A p \in Processes : dealloc[p].call = "none" => dealloc[p] = None
    /\ \A p \in Processes : dealloc[p].call # "none" =>
          dealloc[p].key \in DOMAIN segs /\ p \notin segs[dealloc[p].key].at
    /\ \A p \in Processes : dealloc[p].call = "rmid" => segs[dealloc[p].key].at = {}
    /\ serving.step # "died" => \A key \in DOMAIN segs : segs[key].at = {} =>
          \E p \in Processes : dealloc[p].call # "none" /\ dealloc[p].key = key

Segments == Attachments /\ Contents /\ Removals

WholeInv == IInv /\ Protocol /\ Segments

-----------------------------------------------------------------------------
(* The queue.                                                              *)

\* The requests of worker w are as before.
SameAsks(w) ==
    /\ Asks(w)' # {} <=> Asks(w) # {}
    /\ \A i, j \in Asks(w)' : i = j
    /\ \A i \in Asks(w)' : \E j \in Asks(w) : queue'[i] = queue[j]

\* Taking a request leaves those of the other workers.
LEMMA Take ==
    ASSUME Typed, queue # <<>>, queue' = Tail(queue), NEW w \in Workers, OneAtATime(w)
    PROVE  /\ ~(Head(queue).kind # "end" /\ Head(queue).worker = w) => SameAsks(w)
           /\ Head(queue).kind # "end" /\ Head(queue).worker = w =>
                 /\ Asks(w)' = {} /\ Asks(w) # {}
                 /\ \E i \in Asks(w) : queue[i] = Head(queue)
<1>1. queue \in Seq(Requests)
  BY DEF Typed
<1>2. /\ Len(queue) \in Nat \ {0} /\ DOMAIN queue = 1 .. Len(queue)
      /\ DOMAIN queue' = 1 .. Len(queue) - 1 /\ Head(queue) = queue[1]
      /\ \A i \in DOMAIN queue' : i + 1 \in DOMAIN queue /\ queue'[i] = queue[i + 1]
  BY <1>1
<1>3. \A i \in Asks(w)' : i + 1 \in Asks(w) /\ queue'[i] = queue[i + 1] /\ i \in Nat /\ i + 1 # 1
  BY <1>2 DEF Asks
<1>4. \A i \in Asks(w) : i # 1 => i - 1 \in Asks(w)'
  BY <1>2 DEF Asks
<1>5. \A i, j \in Asks(w) : i = j
  BY DEF OneAtATime
<1>6. \A i, j \in Asks(w)' : i = j
  BY <1>3, <1>5
<1>7. ASSUME ~(Head(queue).kind # "end" /\ Head(queue).worker = w)
      PROVE  SameAsks(w)
  <2>1. 1 \notin Asks(w)
    BY <1>2, <1>7 DEF Asks
  <2>2. Asks(w)' # {} <=> Asks(w) # {}
    BY <1>3, <1>4, <2>1
  <2> QED BY <1>3, <1>6, <2>2 DEF SameAsks
<1>8. ASSUME Head(queue).kind # "end" /\ Head(queue).worker = w
      PROVE  /\ Asks(w)' = {} /\ Asks(w) # {}
             /\ \E i \in Asks(w) : queue[i] = Head(queue)
  <2>1. 1 \in Asks(w)
    BY <1>2, <1>8 DEF Asks
  <2>2. \A i \in Asks(w)' : FALSE
    BY <1>3, <1>5, <2>1
  <2> QED BY <1>2, <2>1, <2>2
<1> QED BY <1>7, <1>8

\* A new request is its worker's only one, and leaves those of the others.
LEMMA Enqueued ==
    ASSUME Typed, NEW r \in Requests, Enqueue(r), NEW w \in Workers, OneAtATime(w)
    PROVE  /\ ~(r.kind # "end" /\ r.worker = w) => SameAsks(w)
           /\ r.kind # "end" /\ r.worker = w /\ Asks(w) = {} =>
                 /\ Asks(w)' # {}
                 /\ \A i, j \in Asks(w)' : i = j
                 /\ \A i \in Asks(w)' : queue'[i] = r
<1> DEFINE n == Len(queue) + 1
<1>1. queue \in Seq(Requests) /\ queue' = Append(queue, r)
  BY DEF Typed, Enqueue
<1>2. /\ Len(queue) \in Nat /\ DOMAIN queue = 1 .. Len(queue)
      /\ DOMAIN queue' = 1 .. n /\ queue'[n] = r
      /\ \A i \in DOMAIN queue : queue'[i] = queue[i] /\ i # n
      /\ \A i \in DOMAIN queue' : i # n => i \in DOMAIN queue
      /\ n \in DOMAIN queue' /\ DOMAIN queue \subseteq DOMAIN queue'
  BY <1>1
<1> HIDE DEF n
<1>3. \A i \in Asks(w)' : i # n => i \in Asks(w) /\ queue'[i] = queue[i]
  BY <1>2 DEF Asks
<1>4. \A i \in Asks(w) : i \in Asks(w)'
  BY <1>2 DEF Asks
<1>5. n \in Asks(w)' <=> r.kind # "end" /\ r.worker = w
  BY <1>2 DEF Asks
<1>6. \A i, j \in Asks(w) : i = j
  BY DEF OneAtATime
<1>7. ASSUME ~(r.kind # "end" /\ r.worker = w)
      PROVE  SameAsks(w)
  BY <1>3, <1>4, <1>5, <1>6, <1>7 DEF SameAsks
<1>8. ASSUME r.kind # "end" /\ r.worker = w, Asks(w) = {}
      PROVE  /\ Asks(w)' # {}
             /\ \A i, j \in Asks(w)' : i = j
             /\ \A i \in Asks(w)' : queue'[i] = r
  BY <1>2, <1>3, <1>5, <1>8
<1> QED BY <1>7, <1>8

\* A queue that does not change.
LEMMA QueueStays ==
    ASSUME queue' = queue, NEW w \in Workers, OneAtATime(w)
    PROVE  SameAsks(w) /\ Asks(w)' = Asks(w)
BY DEF SameAsks, Asks, OneAtATime

\* A step that does not concern a worker leaves it in step.
LEMMA Unconcerned ==
    ASSUME Typed, NEW w \in Workers, InStep(w), SameAsks(w),
           UNCHANGED <<pc[w], held[w], task[w], answers[w], attached[w]>>,
           \/ UNCHANGED <<serving, manager, shm_manager>>
           \/ ~Serves(w) /\ ~Serves(w)' /\ ~WaitsFor(w)
    PROVE  InStep(w)'
<1>1. Serves(w)' <=> Serves(w)
  BY DEF Serves
<1>2. HasManager(w)'
  BY DEF InStep, HasManager
<1>3. OneAtATime(w)'
  BY <1>1 DEF InStep, OneAtATime, SameAsks
<1>4. \A i \in Asks(w)' : Matches(w, queue[i])'
  BY DEF InStep, SameAsks, Matches
<1>5. AnswersMatch(w)'
  <2>1. CASE UNCHANGED <<serving, manager, shm_manager>>
    BY <2>1 DEF InStep, AnswersMatch, Fits, Serves, WaitsFor
  <2>2. CASE ~Serves(w) /\ ~Serves(w)' /\ ~WaitsFor(w)
    BY <2>2 DEF InStep, AnswersMatch, Fits
  <2> QED BY <2>1, <2>2
<1> QED BY <1>2, <1>3, <1>4, <1>5 DEF InStep

-----------------------------------------------------------------------------
(* The steps of the cache process keep the workers in step.                *)

\* The request that the cache process takes is what its worker waits for.
LEMMA TheRequest ==
    ASSUME Typed, Protocol, NEW kind \in {"ask", "attach"}, Request(kind),
           NEW r, r = Head(queue)
    PROVE  /\ r \in Requests /\ r.kind = kind /\ r.worker \in Workers /\ r.name \in Names
           /\ kind = "attach" => r.key \in Nat
           /\ Matches(r.worker, r)
           /\ answers[r.worker] = <<>> /\ ~Serves(r.worker) /\ attached[r.worker] = <<>>
           /\ Asks(r.worker)' = {}
           /\ \A v \in Workers \ {r.worker} : SameAsks(v)
           /\ \A v \in Workers : ~Serves(v) /\ ~WaitsFor(v)
<1>1. queue # <<>> /\ r.kind = kind /\ serving.step = "listen" /\ queue' = Tail(queue)
  BY DEF Request, CacheRuns
<1>2. r \in Requests /\ r.worker \in Workers /\ r.name \in Names /\ (kind = "attach" => r.key \in Nat)
  <2>1. queue \in Seq(Requests)
    BY DEF Typed
  <2>2. r \in Requests
    BY <1>1, <2>1
  <2> QED BY <1>1, <2>2 DEF Requests
<1>3. \A v \in Workers : ~Serves(v) /\ ~WaitsFor(v)
  BY <1>1 DEF Serves, WaitsFor
<1>4. \A v \in Workers : OneAtATime(v) /\ InStep(v)
  BY DEF Protocol, InStep
<1>5. \A v \in Workers \ {r.worker} : SameAsks(v)
  BY <1>1, <1>4, Take
<1>6. /\ Asks(r.worker)' = {} /\ Asks(r.worker) # {}
      /\ \E i \in Asks(r.worker) : queue[i] = r
  BY <1>1, <1>2, <1>4, Take
<1>7. Matches(r.worker, r) /\ answers[r.worker] = <<>>
  BY <1>2, <1>4, <1>6 DEF InStep, OneAtATime
<1>8. attached[r.worker] = <<>>
  BY <1>2, <1>3, <1>4 DEF InStep, AnswersMatch
<1> QED BY <1>1, <1>2, <1>3, <1>5, <1>6, <1>7, <1>8

\* What the cache process does after it has taken a request of w, and not yet answered.
LEMMA BeginsToServe ==
    ASSUME Typed, Protocol, NEW kind \in {"ask", "attach"}, Request(kind),
           NEW r, r = Head(queue), NEW w, w = r.worker,
           UNCHANGED <<answers, attached, workerVars>>,
           \A v \in Workers \ {w} : ~Serves(v)',
           Serves(w)',
           serving'.step = "replace" =>
              /\ kind = "attach" /\ manager' = {r.key}
              /\ serving'.name = r.name,
           serving'.step = "reply" =>
              \/ kind = "attach" /\ serving'.message = Done
              \/ kind = "ask" /\ \E key \in Nat : serving'.message = Segment(key) /\ shm_manager' = {key}
    PROVE  Protocol'
<1>1. /\ w \in Workers /\ Matches(w, r) /\ r.kind = kind
      /\ answers[w] = <<>> /\ attached[w] = <<>> /\ Asks(w)' = {} /\ ~Serves(w)
      /\ \A v \in Workers \ {w} : SameAsks(v)
      /\ \A v \in Workers : ~Serves(v) /\ ~WaitsFor(v)
  BY TheRequest
<1>2. ASSUME NEW v \in Workers \ {w}
      PROVE  InStep(v)'
  BY <1>1, <1>2, Unconcerned DEF Protocol, workerVars
<1>3. InStep(w)'
  <2>1. pc[w] \in {"asked", "published"} /\ InStep(w)
    BY <1>1 DEF Protocol, Matches
  <2>2. HasManager(w)'
    BY <2>1 DEF InStep, HasManager, workerVars
  <2>3. OneAtATime(w)'
    BY <1>1, <2>1 DEF OneAtATime, workerVars
  <2>4. AnswersMatch(w)'
    <3>1. answers'[w] = <<>> /\ attached'[w] = <<>>
      BY <1>1
    <3>2. pc' = pc /\ held' = held /\ task' = task
      BY DEF workerVars
    <3>3. serving'.step = "replace" => pc[w] = "published" /\ manager' = held[w] /\ serving'.name = task[w].name
      BY <1>1 DEF Matches
    <3>4. serving'.step = "reply" => Fits(w, serving.message)' /\ serving'.message.kind # "N"
      <4>1. CASE kind = "attach" /\ serving'.message = Done
        <5>1. pc[w] = "published"
          BY <1>1, <4>1 DEF Matches
        <5> QED BY <3>2, <4>1, <5>1 DEF Fits, Done
      <4>2. CASE kind = "ask" /\ \E key \in Nat : serving'.message = Segment(key) /\ shm_manager' = {key}
        <5>1. pc[w] = "asked"
          BY <1>1, <4>2 DEF Matches
        <5> QED BY <3>2, <4>2, <5>1 DEF Fits, Segment
      <4> QED BY <4>1, <4>2
    <3> QED BY <3>1, <3>2, <3>3, <3>4 DEF AnswersMatch
  <2> QED BY <1>1, <2>2, <2>3, <2>4 DEF InStep
<1> QED BY <1>2, <1>3 DEF Protocol

\* A step of the cache process that neither takes a request nor answers one.
LEMMA KeepsProtocol ==
    ASSUME Typed, Protocol, UNCHANGED <<queue, answers, attached, workerVars>>,
           \A w \in Workers : ~Serves(w) /\ ~Serves(w)' /\ ~WaitsFor(w)
    PROVE  Protocol'
<1>1. \A w \in Workers : SameAsks(w) /\ InStep(w)
  BY QueueStays DEF Protocol, InStep
<1> QED BY <1>1, Unconcerned DEF Protocol, workerVars

(* Each step of the cache process keeps the workers in step with it. *)
LEMMA ServeProtocol ==
    ASSUME Typed, Protocol, CacheInOrder, Serve
    PROVE  Protocol'
<1>1. CASE ServeAttach
  <2> PICK r : r = Head(queue)
    OBVIOUS
  <2>1. /\ Request("attach") /\ manager' = {r.key}
        /\ UNCHANGED <<answers, attached, workerVars>>
        /\ \/ serving' = [step |-> "replace", worker |-> r.worker, name |-> r.name]
           \/ serving' = [step |-> "reply", worker |-> r.worker, message |-> Done]
    BY <1>1 DEF ServeAttach, Reply
  <2>2. /\ Serves(r.worker)' /\ \A v \in Workers \ {r.worker} : ~Serves(v)'
        /\ serving'.step = "replace" => serving'.name = r.name
        /\ serving'.step = "reply" => serving'.message = Done
    BY <2>1 DEF Serves
  <2> QED BY <2>1, <2>2, BeginsToServe
<1>2. CASE Replace
  <2> PICK w : w = serving.worker
    OBVIOUS
  <2>1. /\ serving.step = "replace" /\ w \in Workers
        /\ serving' = [step |-> "reply", worker |-> w, message |-> Done]
        /\ UNCHANGED <<manager, shm_manager, queue, answers, attached, workerVars>>
    BY <1>2 DEF Replace, CacheRuns, Reply, Typed, Servings, pipeVars
  <2>2. /\ Serves(w) /\ Serves(w)' /\ ~WaitsFor(w)
        /\ \A v \in Workers \ {w} : ~Serves(v) /\ ~Serves(v)' /\ ~WaitsFor(v)
    BY <2>1 DEF Serves, WaitsFor
  <2>3. \A v \in Workers : SameAsks(v) /\ InStep(v)
    BY <2>1, QueueStays DEF Protocol, InStep
  <2>4. \A v \in Workers \ {w} : InStep(v)'
    BY <2>1, <2>2, <2>3, Unconcerned DEF workerVars
  <2>5. InStep(w)'
    <3>1. pc[w] = "published" /\ answers[w] = <<>> /\ attached[w] = <<>>
      BY <2>1, <2>2, <2>3 DEF InStep, AnswersMatch, OneAtATime
    <3>2. HasManager(w)' /\ OneAtATime(w)' /\ \A i \in Asks(w)' : Matches(w, queue[i])'
      BY <2>1, <2>2, <2>3 DEF InStep, HasManager, OneAtATime, SameAsks, Matches, workerVars
    <3>3. AnswersMatch(w)'
      BY <2>1, <3>1 DEF AnswersMatch, Fits, Done, workerVars
    <3> QED BY <3>2, <3>3 DEF InStep
  <2> QED BY <2>4, <2>5 DEF Protocol
<1>3. CASE ServeSegment
  <2> PICK r : r = Head(queue)
    OBVIOUS
  <2>1. /\ Request("ask") /\ shm_manager' = {Get(cache, r.name)}
        /\ UNCHANGED <<answers, attached, workerVars>> /\ Get(cache, r.name) \in Nat
        /\ serving' = [step |-> "reply", worker |-> r.worker, message |-> Segment(Get(cache, r.name))]
    BY <1>3 DEF ServeSegment, Reply, Has, Get, Objects, Typed
  <2>2. /\ Serves(r.worker)' /\ \A v \in Workers \ {r.worker} : ~Serves(v)'
        /\ serving'.step # "replace"
        /\ \E key \in Nat : serving'.message = Segment(key) /\ shm_manager' = {key}
    BY <2>1 DEF Serves
  <2> QED BY <2>1, <2>2, BeginsToServe
<1>4. CASE SendReply
  <2> PICK w, m : w = serving.worker /\ m = serving.message
    OBVIOUS
  <2>1. /\ serving.step = "reply" /\ w \in Workers /\ m \in Answers
        /\ answers' = [answers EXCEPT ![w] = Append(@, m)]
        /\ serving' = IF m = Done THEN Listening ELSE [step |-> "wait", worker |-> w]
        /\ UNCHANGED <<manager, shm_manager, queue, attached, workerVars>>
    BY <1>4 DEF SendReply, Send, CacheRuns, Typed, Servings
  <2>2. /\ Serves(w) /\ \A v \in Workers : ~Serves(v)' /\ ~WaitsFor(v)
        /\ \A v \in Workers \ {w} : ~Serves(v)
    BY <2>1 DEF Serves, WaitsFor, Listening
  <2>3. \A v \in Workers : SameAsks(v) /\ InStep(v)
    BY <2>1, QueueStays DEF Protocol, InStep
  <2>4. \A v \in Workers \ {w} : InStep(v)'
    <3> SUFFICES ASSUME NEW v \in Workers \ {w}
                 PROVE  InStep(v)'
      OBVIOUS
    <3>1. answers'[v] = answers[v]
      BY <2>1 DEF Typed
    <3> QED BY <2>1, <2>2, <2>3, <3>1, Unconcerned DEF workerVars
  <2>5. InStep(w)'
    <3>1. answers[w] = <<>> /\ attached[w] = <<>> /\ Fits(w, m) /\ m.kind # "N" /\ Asks(w) = {}
          /\ pc[w] \in {"asked", "published"}
      BY <2>1, <2>2, <2>3 DEF InStep, AnswersMatch, OneAtATime
    <3>2. answers'[w] = <<m>>
      BY <2>1, <3>1 DEF Typed
    <3>3. HasManager(w)' /\ OneAtATime(w)' /\ Asks(w)' = {}
      BY <2>1, <2>2, <2>3, <3>1, <3>2 DEF InStep, HasManager, OneAtATime, SameAsks, workerVars
    <3>4. m.kind = "segment" => WaitsFor(w)'
      BY <2>1 DEF WaitsFor, Done
    <3>5. AnswersMatch(w)'
      BY <2>1, <2>2, <3>1, <3>2, <3>4 DEF AnswersMatch, Fits, workerVars
    <3> QED BY <3>3, <3>5 DEF InStep
  <2> QED BY <2>4, <2>5 DEF Protocol
<1>5. CASE Wait
  <2> PICK w : w = serving.worker
    OBVIOUS
  <2>1. /\ serving.step = "wait" /\ w \in Workers /\ attached[w] # <<>>
        /\ attached' = [attached EXCEPT ![w] = Tail(@)] /\ serving' = Listening
        /\ UNCHANGED <<manager, shm_manager, queue, answers, workerVars>>
    BY <1>5 DEF Wait, CacheRuns, Typed, Servings
  <2>2. /\ \A v \in Workers : ~Serves(v) /\ ~Serves(v)'
        /\ \A v \in Workers \ {w} : ~WaitsFor(v)
    BY <2>1 DEF Serves, WaitsFor, Listening
  <2>3. \A v \in Workers : SameAsks(v) /\ InStep(v)
    BY <2>1, QueueStays DEF Protocol, InStep
  <2>4. \A v \in Workers \ {w} : InStep(v)'
    <3> SUFFICES ASSUME NEW v \in Workers \ {w}
                 PROVE  InStep(v)'
      OBVIOUS
    <3>1. attached'[v] = attached[v]
      BY <2>1 DEF Typed
    <3> QED BY <2>1, <2>2, <2>3, <3>1, Unconcerned DEF workerVars
  <2>5. InStep(w)'
    <3>1. Len(attached[w]) = 1 /\ \A i \in DOMAIN answers[w] : answers[w][i].kind # "segment"
      BY <2>1, <2>3 DEF InStep, AnswersMatch
    <3>2. attached'[w] = <<>>
      <4>1. attached[w] \in Seq({"D"})
        BY <2>1 DEF Typed
      <4>2. Tail(attached[w]) \in Seq({"D"}) /\ Len(Tail(attached[w])) = 0
        BY <2>1, <3>1, <4>1, HeadTailProperties
      <4>3. Tail(attached[w]) = <<>>
        BY <4>2, EmptySeq
      <4> QED BY <2>1, <4>3 DEF Typed
    <3>3. HasManager(w)' /\ OneAtATime(w)' /\ \A i \in Asks(w)' : Matches(w, queue[i])'
      BY <2>1, <2>2, <2>3 DEF InStep, HasManager, OneAtATime, SameAsks, Matches, workerVars
    <3>4. AnswersMatch(w)'
      BY <2>1, <2>2, <2>3, <3>1, <3>2 DEF InStep, AnswersMatch, Fits, workerVars
    <3> QED BY <3>3, <3>4 DEF InStep
  <2> QED BY <2>4, <2>5 DEF Protocol
<1>6. CASE ServeNo
  <2> PICK r : r = Head(queue)
    OBVIOUS
  <2> PICK w : w = r.worker
    OBVIOUS
  <2>1. /\ Request("ask")
        /\ answers' = [answers EXCEPT ![w] = Append(@, No)]
        /\ serving' = [step |-> "load", worker |-> w, name |-> r.name, file |-> TRUE]
        /\ UNCHANGED <<manager, shm_manager, attached, workerVars>>
    BY <1>6 DEF ServeNo, Send
  <2>2. /\ w \in Workers /\ Matches(w, r) /\ r.kind = "ask"
        /\ answers[w] = <<>> /\ attached[w] = <<>> /\ Asks(w)' = {}
        /\ \A v \in Workers \ {w} : SameAsks(v)
        /\ \A v \in Workers : ~Serves(v) /\ ~WaitsFor(v)
    BY <2>1, TheRequest
  <2>3. \A v \in Workers : ~Serves(v)'
    BY <2>1 DEF Serves
  <2>4. \A v \in Workers \ {w} : InStep(v)'
    <3> SUFFICES ASSUME NEW v \in Workers \ {w}
                 PROVE  InStep(v)'
      OBVIOUS
    <3>1. answers'[v] = answers[v] /\ InStep(v)
      BY <2>1 DEF Typed, Protocol
    <3> QED BY <2>1, <2>2, <2>3, <3>1, Unconcerned DEF workerVars
  <2>5. InStep(w)'
    <3>1. answers'[w] = <<No>> /\ pc[w] = "asked" /\ InStep(w)
      BY <2>1, <2>2 DEF Typed, Matches, Protocol
    <3>2. HasManager(w)' /\ OneAtATime(w)'
      BY <2>1, <2>2, <2>3, <3>1 DEF InStep, HasManager, OneAtATime, workerVars
    <3>3. AnswersMatch(w)'
      BY <2>1, <2>2, <2>3, <3>1 DEF AnswersMatch, Fits, No, workerVars
    <3> QED BY <2>2, <3>2, <3>3 DEF InStep
  <2> QED BY <2>4, <2>5 DEF Protocol
<1>7. CASE Load \/ LoadFails
  <2>1. /\ serving.step = "load" /\ serving'.step \in {"listen", "died"}
        /\ UNCHANGED <<queue, answers, attached, workerVars>>
    BY <1>7 DEF Load, LoadFails, CacheDies, CacheRuns, Listening, pipeVars
  <2> QED BY <2>1, KeepsProtocol DEF Serves, WaitsFor
<1>8. CASE ServeEnd
  <2>1. /\ serving.step = "listen" /\ serving'.step = "ended" /\ queue # <<>>
        /\ queue' = Tail(queue) /\ Head(queue).kind = "end"
        /\ UNCHANGED <<answers, attached, workerVars>>
    BY <1>8 DEF ServeEnd, Request, CacheRuns
  <2>2. \A v \in Workers : SameAsks(v) /\ InStep(v) /\ ~Serves(v) /\ ~Serves(v)' /\ ~WaitsFor(v)
    BY <2>1, Take DEF Protocol, InStep, Serves, WaitsFor
  <2> QED BY <2>1, <2>2, Unconcerned DEF Protocol, workerVars
<1> QED BY <1>1, <1>2, <1>3, <1>4, <1>5, <1>6, <1>7, <1>8 DEF Serve

-----------------------------------------------------------------------------
(* The steps of the workers keep them in step.                             *)

\* A step of worker w that leaves the cache process as it is.
LEMMA OneWorker ==
    ASSUME Typed, Protocol, NEW w \in Workers, InStep(w)',
           \A v \in Workers \ {w} :
              SameAsks(v) /\ UNCHANGED <<pc[v], held[v], task[v], answers[v], attached[v]>>,
           \/ UNCHANGED <<serving, manager, shm_manager>>
           \/ serving.step = "load" /\ serving'.step = "load"
    PROVE  Protocol'
<1>1. ASSUME NEW v \in Workers \ {w}
      PROVE  InStep(v)'
  <2>1. InStep(v)
    BY DEF Protocol
  <2>2. serving.step = "load" /\ serving'.step = "load" => ~Serves(v) /\ ~Serves(v)' /\ ~WaitsFor(v)
    BY DEF Serves, WaitsFor
  <2> QED BY <2>1, <2>2, Unconcerned
<1> QED BY <1>1 DEF Protocol

\* A worker that does not wait for an answer has no request and gets none.
LEMMA NotWaiting ==
    ASSUME Typed, NEW w \in Workers, InStep(w), pc[w] \notin {"asked", "published"}
    PROVE  Asks(w) = {} /\ answers[w] = <<>> /\ ~Serves(w)
BY DEF InStep, OneAtATime

\* The first answer of a worker is the only one, and nothing else is due.
LEMMA Answer ==
    ASSUME Typed, NEW w \in Workers, InStep(w), answers[w] # <<>>, Received(w)
    PROVE  /\ Fits(w, Head(answers[w])) /\ Head(answers[w]) \in Answers
           /\ Head(answers[w]).kind = "segment" => WaitsFor(w) /\ attached[w] = <<>>
           /\ Asks(w) = {} /\ ~Serves(w) /\ answers'[w] = <<>>
           /\ \A v \in Workers \ {w} : answers'[v] = answers[v]
<1>1. answers[w] \in Seq(Answers) /\ answers' = [answers EXCEPT ![w] = Tail(@)] /\ Len(answers[w]) <= 1
  BY DEF Typed, Received, InStep, OneAtATime
<1>2. Len(answers[w]) = 1
  <2>1. Len(answers[w]) \in Nat
    BY <1>1
  <2>2. Len(answers[w]) # 0
    BY <1>1, EmptySeq
  <2>3. PICK n \in Nat : n = Len(answers[w])
    BY <2>1
  <2>4. n # 0 /\ n <= 1
    BY <1>1, <2>2, <2>3
  <2>5. n = 1
    BY <2>4
  <2> QED BY <2>3, <2>5, Zenon
<1>3. Tail(answers[w]) \in Seq(Answers) /\ Len(Tail(answers[w])) = 0
  BY <1>1, <1>2, HeadTailProperties
<1>4. answers'[w] = <<>> /\ \A v \in Workers \ {w} : answers'[v] = answers[v]
  BY <1>1, <1>3, EmptySeq DEF Typed
<1>5. 1 \in DOMAIN answers[w] /\ Head(answers[w]) = answers[w][1] /\ answers[w][1] \in Answers
  BY <1>1, <1>2
<1> QED BY <1>4, <1>5 DEF InStep, OneAtATime, AnswersMatch

\* A worker that goes on without a request, a segment or an answer.
LEMMA Alone ==
    ASSUME Typed, NEW w \in Workers, InStep(w), queue' = queue,
           Asks(w) = {}, ~Serves(w), ~Serves(w)', answers'[w] = <<>>, held'[w] = {},
           pc'[w] \notin {"asked", "read", "published"}, attached' = attached,
           attached[w] # <<>> => UNCHANGED serving
    PROVE  InStep(w)'
<1>1. Asks(w)' = {}
  BY DEF Asks
<1>2. HasManager(w)' /\ OneAtATime(w)'
  BY <1>1 DEF HasManager, OneAtATime
<1>3. AnswersMatch(w)'
  BY DEF InStep, AnswersMatch, WaitsFor
<1> QED BY <1>1, <1>2, <1>3 DEF InStep

\* A worker ends its task.
LEMMA EndsInStep ==
    ASSUME Typed, Protocol, NEW w \in Workers, EndTask(w), pc[w] \in {"run", "end"},
           UNCHANGED <<held, queue, answers, attached>>
    PROVE  Protocol'
<1>1. InStep(w) /\ Asks(w) = {} /\ answers[w] = <<>> /\ ~Serves(w) /\ held[w] = {}
  BY NotWaiting DEF Protocol, InStep, HasManager
<1>2. /\ \/ UNCHANGED <<serving, manager, shm_manager>>
         \/ serving.step = "load" /\ serving'.step = "load"
      /\ UNCHANGED <<manager, shm_manager>>
  BY DEF EndTask, Typed, Servings
<1>3. ~Serves(w)' /\ (attached[w] # <<>> => UNCHANGED serving)
  <2>1. attached[w] # <<>> => serving.step = "wait"
    BY <1>1 DEF InStep, AnswersMatch, WaitsFor
  <2> QED BY <1>1, <1>2, <2>1 DEF Serves
<1>4. pc'[w] = "idle" /\ \A v \in Workers \ {w} : UNCHANGED <<pc[v], task[v]>>
  BY DEF EndTask, Goto, Typed, TypeOK
<1>5. InStep(w)'
  BY <1>1, <1>3, <1>4, Alone
<1>6. \A v \in Workers : SameAsks(v)
  BY QueueStays DEF Protocol, InStep
<1> QED BY <1>2, <1>4, <1>5, <1>6, OneWorker

\* A worker sends a request and waits.
LEMMA AsksInStep ==
    ASSUME Typed, Protocol, NEW w \in Workers, pc[w] \notin {"asked", "published"},
           NEW r \in Requests, Enqueue(r), r.kind # "end", r.worker = w,
           Matches(w, r)', HasManager(w)', pc'[w] \in {"asked", "published"},
           \A v \in Workers \ {w} : UNCHANGED <<pc[v], held[v], task[v]>>,
           UNCHANGED <<serving, manager, shm_manager, answers, attached>>
    PROVE  Protocol'
<1>1. InStep(w) /\ Asks(w) = {} /\ answers[w] = <<>> /\ ~Serves(w)
  BY NotWaiting DEF Protocol
<1>2. \A v \in Workers : OneAtATime(v)
  BY DEF Protocol, InStep
<1>3. /\ Asks(w)' # {}
      /\ \A i, j \in Asks(w)' : i = j
      /\ \A i \in Asks(w)' : queue'[i] = r
  BY <1>1, <1>2, Enqueued
<1>4. \A v \in Workers \ {w} : SameAsks(v)
  BY <1>2, Enqueued
<1>5. ~Serves(w)'
  BY <1>1 DEF Serves
<1>6. OneAtATime(w)'
  BY <1>1, <1>3, <1>5 DEF OneAtATime
<1>7. AnswersMatch(w)'
  BY <1>1, <1>5 DEF InStep, AnswersMatch, WaitsFor
<1>8. \A i \in Asks(w)' : Matches(w, queue[i])'
  BY <1>3 DEF Matches
<1>9. InStep(w)'
  BY <1>6, <1>7, <1>8 DEF InStep
<1> QED BY <1>4, <1>9, OneWorker

\* Each step of a worker keeps the protocol.
LEMMA WorkProtocol ==
    ASSUME Typed, Protocol, NEW w \in Workers, Work(w)
    PROVE  Protocol'
<1>1. InStep(w) /\ \A v \in Workers : OneAtATime(v)
  BY DEF Protocol, InStep
<1>2. ASSUME queue' = queue
      PROVE  \A v \in Workers : SameAsks(v) /\ Asks(v)' = Asks(v)
  BY <1>1, <1>2, QueueStays
<1>3. CASE AttachAnswer(w)
  <2>1. PICK key : key = Head(answers[w]).key
    OBVIOUS
  <2>2. /\ pc[w] = "asked" /\ answers[w] # <<>> /\ Head(answers[w]).kind = "segment" /\ Received(w)
        /\ held' = [held EXCEPT ![w] = {key}]
        /\ attached' = [attached EXCEPT ![w] = Append(@, "D")]
        /\ pc' = [pc EXCEPT ![w] = "read"]
        /\ UNCHANGED <<serving, manager, shm_manager, queue, task>>
    BY <1>3, <2>1 DEF AttachAnswer, Found, Answered, Runs, Goto, cacheVars
  <2>3. /\ key \in Nat /\ WaitsFor(w) /\ attached[w] = <<>>
        /\ Asks(w) = {} /\ ~Serves(w) /\ answers'[w] = <<>>
        /\ \A v \in Workers \ {w} : answers'[v] = answers[v]
    BY <1>1, <2>1, <2>2, Answer DEF Answers
  <2>4. /\ held'[w] = {key} /\ attached'[w] = <<"D">> /\ pc'[w] = "read"
        /\ \A v \in Workers \ {w} : UNCHANGED <<pc[v], held[v], attached[v]>>
    BY <2>2, <2>3 DEF Typed, TypeOK
  <2>5. ~Serves(w)' /\ WaitsFor(w)'
    BY <2>2, <2>3 DEF Serves, WaitsFor
  <2>6. InStep(w)'
    <3>1. HasManager(w)' /\ OneAtATime(w)' /\ Asks(w)' = {}
      BY <1>2, <2>2, <2>3, <2>4, <2>5 DEF HasManager, OneAtATime
    <3>2. AnswersMatch(w)'
      BY <2>3, <2>4, <2>5 DEF AnswersMatch
    <3> QED BY <3>1, <3>2 DEF InStep
  <2> QED BY <1>2, <2>2, <2>3, <2>4, <2>6, OneWorker
<1>4. CASE ReadObject(w)
  <2>1. /\ pc[w] = "read" /\ held' = [held EXCEPT ![w] = {}] /\ pc' = [pc EXCEPT ![w] = "run"]
        /\ UNCHANGED <<serving, manager, shm_manager, queue, answers, attached, task>>
    BY <1>4 DEF ReadObject, Runs, Goto, cacheVars, pipeVars
  <2>2. /\ held'[w] = {} /\ pc'[w] = "run"
        /\ \A v \in Workers \ {w} : UNCHANGED <<pc[v], held[v]>>
    BY <2>1 DEF Typed, TypeOK
  <2>3. Asks(w) = {} /\ answers[w] = <<>> /\ ~Serves(w) /\ ~Serves(w)'
    BY <1>1, <2>1, NotWaiting DEF Serves
  <2>4. InStep(w)'
    BY <1>1, <2>1, <2>2, <2>3, Alone
  <2> QED BY <1>2, <2>1, <2>2, <2>4, OneWorker
<1>5. CASE ReadFile(w)
  <2>1. /\ pc[w] = "asked" /\ answers[w] # <<>> /\ Received(w) /\ pc' = [pc EXCEPT ![w] = "run"]
        /\ UNCHANGED <<serving, manager, shm_manager, queue, attached, task, held>>
    BY <1>5 DEF ReadFile, Answered, Runs, Goto, cacheVars
  <2>2. /\ Asks(w) = {} /\ ~Serves(w) /\ answers'[w] = <<>> /\ held[w] = {}
        /\ \A v \in Workers \ {w} : answers'[v] = answers[v]
    BY <1>1, <2>1, Answer DEF InStep, HasManager
  <2>3. pc'[w] = "run" /\ ~Serves(w)' /\ \A v \in Workers \ {w} : UNCHANGED pc[v]
    BY <2>1, <2>2 DEF Typed, TypeOK, Serves
  <2>4. InStep(w)'
    BY <1>1, <2>1, <2>2, <2>3, Alone
  <2> QED BY <1>2, <2>1, <2>2, <2>3, <2>4, OneWorker
<1>6. CASE Publish(w)
  <2>1. pc[w] = "run" /\ task[w].name \in Names /\ UNCHANGED <<answers, attached>>
    BY <1>6 DEF Publish, Runs, Typed, Busy
  <2>2. CASE EndTask(w) /\ UNCHANGED <<held, queue>>
    BY <2>1, <2>2, EndsInStep
  <2>3. CASE /\ Create(w, task[w].name)
             /\ held' = [held EXCEPT ![w] = {NewKey(w)}]
             /\ Enqueue([kind |-> "attach", worker |-> w, name |-> task[w].name, key |-> NewKey(w)])
             /\ Goto(w, "published")
             /\ UNCHANGED <<cacheVars, task>>
    <3>1. PICK key, r : key = NewKey(w) /\ r = [kind |-> "attach", worker |-> w, name |-> task[w].name, key |-> key]
      OBVIOUS
    <3>2. key \in Nat
      BY <2>3, <3>1, NewKeyNat, WorkerAssumption DEF Create, Typed, TypeOK
    <3>3. r \in Requests /\ Enqueue(r) /\ r.kind # "end" /\ r.worker = w
      BY <2>1, <2>3, <3>1, <3>2 DEF Requests
    <3>4. /\ held'[w] = {key} /\ pc'[w] = "published"
          /\ \A v \in Workers \ {w} : UNCHANGED <<pc[v], held[v], task[v]>>
          /\ UNCHANGED <<serving, manager, shm_manager, task>>
      BY <2>3, <3>1 DEF Goto, Typed, TypeOK, cacheVars
    <3>5. Matches(w, r)' /\ HasManager(w)'
      BY <3>1, <3>2, <3>4 DEF Matches, HasManager
    <3> QED BY <2>1, <3>3, <3>4, <3>5, AsksInStep
  <2> QED BY <1>6, <2>2, <2>3 DEF Publish
<1>7. CASE Published(w)
  <2>1. /\ pc[w] = "published" /\ answers[w] # <<>> /\ Received(w) /\ pc' = [pc EXCEPT ![w] = "end"]
        /\ held' = [held EXCEPT ![w] = {}]
        /\ UNCHANGED <<serving, manager, shm_manager, queue, attached, task>>
    BY <1>7 DEF Published, Runs, Goto, cacheVars
  <2>2. /\ Asks(w) = {} /\ ~Serves(w) /\ answers'[w] = <<>>
        /\ \A v \in Workers \ {w} : answers'[v] = answers[v]
    BY <1>1, <2>1, Answer
  <2>3. pc'[w] = "end" /\ held'[w] = {} /\ ~Serves(w)' /\ \A v \in Workers \ {w} : UNCHANGED <<pc[v], held[v]>>
    BY <2>1, <2>2 DEF Typed, TypeOK, Serves
  <2>4. InStep(w)'
    BY <1>1, <2>1, <2>2, <2>3, Alone
  <2> QED BY <1>2, <2>1, <2>2, <2>3, <2>4, OneWorker
<1>8. CASE Finish(w) \/ FinishPublished(w)
  <2>1. EndTask(w) /\ pc[w] \in {"run", "end"} /\ UNCHANGED <<held, queue, answers, attached>>
    BY <1>8 DEF Finish, FinishPublished, Runs, pipeVars
  <2> QED BY <2>1, EndsInStep
<1> QED BY <1>3, <1>4, <1>5, <1>6, <1>7, <1>8 DEF Work

\* Every step keeps the protocol.
LEMMA NextProtocol ==
    ASSUME Typed, Protocol, CacheInOrder, Next
    PROVE  Protocol'
<1>1. CASE JoinWorkers
  <2>1. /\ pc' = [w \in Workers |-> "joined"] /\ Enqueue(End) /\ \A w \in Workers : pc[w] = "idle"
        /\ UNCHANGED <<serving, manager, shm_manager, answers, attached, task, held>>
    BY <1>1 DEF JoinWorkers, Runs, cacheVars
  <2>2. End \in Requests /\ End.kind = "end"
    BY DEF End, Requests
  <2>3. ASSUME NEW w \in Workers
        PROVE  InStep(w)'
    <3>1. InStep(w) /\ SameAsks(w)
      BY <2>1, <2>2, Enqueued DEF Protocol, InStep
    <3>2. /\ Asks(w) = {} /\ answers[w] = <<>> /\ ~Serves(w) /\ Asks(w)' = {} /\ ~Serves(w)'
      BY <2>1, <3>1, NotWaiting DEF SameAsks, Serves
    <3>3. HasManager(w)' /\ OneAtATime(w)'
      BY <2>1, <3>1, <3>2 DEF InStep, HasManager, OneAtATime
    <3>4. AnswersMatch(w)'
      BY <2>1, <3>1, <3>2 DEF InStep, AnswersMatch, WaitsFor
    <3> QED BY <3>2, <3>3, <3>4 DEF InStep
  <2> QED BY <2>3 DEF Protocol
<1>2. ASSUME NEW p \in Processes, DeallocateManager(p)
      PROVE  Protocol'
  <2>1. \A v \in Workers : SameAsks(v) /\ InStep(v)
    BY <1>2, QueueStays DEF Protocol, InStep, DeallocateManager, pipeVars
  <2> QED BY <1>2, <2>1, Unconcerned DEF Protocol, DeallocateManager, cacheVars, pipeVars, workerVars
<1>3. ASSUME NEW w \in Workers, NEW name \in Names, NEW direction \in Directions,
             Start(w, name, direction)
      PROVE  Protocol'
  <2>1. /\ pc[w] = "idle" /\ task' = [task EXCEPT ![w] = [name |-> name, writes |-> direction # "IN"]]
        /\ UNCHANGED <<serving, manager, shm_manager, answers, attached, held>>
    BY <1>3 DEF Start, Runs, cacheVars
  <2>2. /\ InStep(w) /\ Asks(w) = {} /\ answers[w] = <<>> /\ ~Serves(w) /\ ~Serves(w)' /\ held[w] = {}
        /\ task'[w].name = name /\ \A v \in Workers \ {w} : UNCHANGED task[v]
    BY <2>1, NotWaiting DEF Protocol, InStep, HasManager, Serves, Typed, TypeOK
  <2>3. CASE Goto(w, "run") /\ UNCHANGED queue
    <3>1. pc'[w] = "run" /\ \A v \in Workers \ {w} : UNCHANGED pc[v]
      BY <2>3 DEF Goto, Typed, TypeOK
    <3>2. \A v \in Workers : SameAsks(v)
      BY <2>3, QueueStays DEF Protocol, InStep
    <3>3. InStep(w)'
      BY <2>1, <2>2, <2>3, <3>1, Alone
    <3> QED BY <2>1, <2>2, <3>1, <3>2, <3>3, OneWorker
  <2>4. CASE Goto(w, "asked") /\ Enqueue([kind |-> "ask", worker |-> w, name |-> name])
    <3>1. PICK r : r = [kind |-> "ask", worker |-> w, name |-> name]
      OBVIOUS
    <3>2. r \in Requests /\ Enqueue(r) /\ r.kind # "end" /\ r.worker = w
      BY <2>4, <3>1 DEF Requests
    <3>3. pc'[w] = "asked" /\ \A v \in Workers \ {w} : UNCHANGED pc[v]
      BY <2>4 DEF Goto, Typed, TypeOK
    <3>4. Matches(w, r)' /\ HasManager(w)'
      BY <2>1, <2>2, <3>1, <3>3 DEF Matches, HasManager
    <3> QED BY <2>1, <2>2, <3>2, <3>3, <3>4, AsksInStep
  <2> QED BY <1>3, <2>3, <2>4 DEF Start
<1> QED BY <1>1, <1>2, <1>3, ServeProtocol, WorkProtocol DEF Next

-----------------------------------------------------------------------------
(* What a step does to the segments.                                       *)

\* Process p attaches the segments of some keys, new or in use, and lets go of
\* those it no longer refers to.
Manages(p, more) ==
    /\ Quiet(p)
    /\ DOMAIN segs' = DOMAIN segs \cup more
    /\ \A k \in DOMAIN segs' : segs'[k].at =
          (IF k \in DOMAIN segs THEN segs[k].at ELSE {}) \cup (IF k \in more THEN {p} ELSE {})
    /\ \A k \in more \cap DOMAIN segs : segs[k].at # {}
    /\ Refers(p)' \subseteq Refers(p) \cup more /\ more \subseteq Refers(p)'
    /\ dropped'[p] = Refers(p) \ Refers(p)'
    /\ \A q \in Processes \ {p} : Refers(q)' = Refers(q) /\ dropped'[q] = dropped[q]
    /\ dealloc' = dealloc
    /\ serving'.step # "died" => serving.step # "died"

\* It attaches what it refers to, and takes no segment from who removes it.
LEMMA ManagesKeeps ==
    ASSUME Attachments, Removals, NEW p \in Processes, NEW more, Manages(p, more)
    PROVE  Attachments' /\ Removals'
<1>1. dropped[p] = {} /\ dealloc[p].call = "none"
  BY DEF Manages, Quiet, None
<1>2. ASSUME NEW q \in Processes
      PROVE  Attached(q)' = Attached(q) \cup (IF q = p THEN more ELSE {})
  BY DEF Attached, Manages
<1>3. Attachments'
  <2>1. Attached(p)' = Refers(p)' \cup dropped'[p] /\ Refers(p)' \cap dropped'[p] = {}
    BY <1>1, <1>2 DEF Attachments, Manages
  <2>2. ASSUME NEW q \in Processes \ {p}
        PROVE  Attached(q)' = Refers(q)' \cup dropped'[q] /\ Refers(q)' \cap dropped'[q] = {}
    BY <1>2 DEF Attachments, Manages
  <2> QED BY <2>1, <2>2 DEF Attachments
<1>4. ASSUME NEW k \in DOMAIN segs
      PROVE  /\ k \in DOMAIN segs'
             /\ \/ segs'[k].at = segs[k].at
                \/ segs[k].at # {} /\ segs'[k].at = segs[k].at \cup {p}
  <2>1. k \in DOMAIN segs' /\ (k \in more => segs[k].at # {})
    BY DEF Manages
  <2>2. segs'[k].at = segs[k].at \cup (IF k \in more THEN {p} ELSE {})
    BY <2>1 DEF Manages
  <2>3. CASE k \in more
    BY <2>1, <2>2, <2>3
  <2>4. CASE k \notin more
    BY <2>1, <2>2, <2>4
  <2> QED BY <2>3, <2>4
<1>5. \A k \in DOMAIN segs' : segs'[k].at = {} => k \in DOMAIN segs /\ segs[k].at = {}
  BY DEF Manages
<1>6. dealloc' = dealloc /\ (serving'.step # "died" => serving.step # "died")
  BY DEF Manages
<1>7. Removals'
  <2>1. \A q \in Processes : dealloc[q].call # "none" =>
           dealloc[q].key \in DOMAIN segs' /\ q \notin segs'[dealloc[q].key].at
    BY <1>1, <1>4 DEF Removals
  <2>2. \A q \in Processes : dealloc[q].call = "rmid" => segs'[dealloc[q].key].at = {}
    BY <1>4 DEF Removals
  <2>3. serving'.step # "died" => \A k \in DOMAIN segs' : segs'[k].at = {} =>
           \E q \in Processes : dealloc[q].call # "none" /\ dealloc[q].key = k
    BY <1>5, <1>6 DEF Removals
  <2> QED BY <1>6, <2>1, <2>2, <2>3 DEF Removals
<1> QED BY <1>3, <1>7

\* A step without managers.
LEMMA NoManagers ==
    ASSUME Attachments, Removals, UNCHANGED <<shmVars, cache, manager, shm_manager, held>>,
           serving'.step # "died" => serving.step # "died"
    PROVE  Attachments' /\ Removals'
<1>1. \A p \in Processes : Refers(p)' = Refers(p) /\ Attached(p)' = Attached(p)
  BY DEF Refers, Held, Objects, Attached, shmVars
<1>2. Attachments'
  BY <1>1 DEF Attachments, shmVars
<1> QED BY <1>2 DEF Removals, shmVars

\* A worker is offered a segment only when it asked for one, and the cache
\* process refers to it meanwhile.
LEMMA OfferedKeys ==
    ASSUME Typed, NEW w \in Workers, InStep(w), NEW key \in Nat, Offered(w, key)
    PROVE  pc[w] = "asked" /\ key \in Held
<1>1. \E m : m = Segment(key) /\ Fits(w, m)
  BY DEF Offered, InStep, AnswersMatch
<1> QED BY <1>1 DEF Fits, Segment, Held

\* What is named is attached.
LEMMA AttachedKeys ==
    ASSUME Typed, Protocol, Attachments
    PROVE  /\ \A key \in Held : key \in DOMAIN segs /\ CacheProc \in segs[key].at
           /\ \A w \in Workers : \A key \in held[w] : key \in DOMAIN segs /\ w \in segs[key].at
           /\ \A w \in Workers : \A key \in Nat : Offered(w, key) =>
                 key \in DOMAIN segs /\ segs[key].at # {}
<1>1. \A key \in Held : key \in DOMAIN segs /\ CacheProc \in segs[key].at
  <2>1. Held \subseteq Attached(CacheProc)
    BY WorkerAssumption DEF Attachments, Refers
  <2> QED BY <2>1 DEF Attached
<1>2. \A w \in Workers : \A key \in held[w] : key \in DOMAIN segs /\ w \in segs[key].at
  <2>1. \A w \in Workers : held[w] \subseteq Attached(w)
    BY WorkerAssumption DEF Attachments, Refers
  <2> QED BY <2>1 DEF Attached
<1> QED BY <1>1, <1>2, OfferedKeys DEF Protocol

\* A step keeps the contents when what it names anew holds what it should.
LEMMA ContentsKept ==
    ASSUME Typed, Protocol, Attachments, Contents,
           \A k \in DOMAIN segs : segs[k].at # {} => segs'[k].content = segs[k].content,
           \A n \in DOMAIN cache'.H :
              \/ n \in DOMAIN cache.H /\ cache'.H[n].obj = cache.H[n].obj
              \/ segs'[cache'.H[n].obj].content = n,
           \A w \in Workers : \A key \in held'[w] :
              \/ key \in held[w] /\ task'[w].name = task[w].name
              \/ segs'[key].content = task'[w].name,
           \A w \in Workers : \A key \in Nat : Offered(w, key)' =>
              \/ Offered(w, key) /\ task'[w].name = task[w].name
              \/ segs'[key].content = task'[w].name
    PROVE  Contents'
<1>1. \A n \in DOMAIN cache.H : cache.H[n].obj \in Held
  BY DEF Held, Objects
<1>2. \A n \in DOMAIN cache'.H : segs'[cache'.H[n].obj].content = n
  BY <1>1, AttachedKeys DEF Contents
<1>3. \A w \in Workers : \A key \in held'[w] : segs'[key].content = task'[w].name
  BY AttachedKeys DEF Contents
<1>4. \A w \in Workers : \A key \in Nat : Offered(w, key)' => segs'[key].content = task'[w].name
  BY AttachedKeys DEF Contents
<1> QED BY <1>2, <1>3, <1>4 DEF Contents

\* A step without segments, objects or names.
LEMMA SameContents ==
    ASSUME Typed, Protocol, Attachments, Contents,
           UNCHANGED <<segs, cache>>,
           \A w \in Workers : \A key \in held'[w] : key \in held[w] /\ task'[w].name = task[w].name,
           \A w \in Workers : \A key \in Nat : Offered(w, key)' =>
              Offered(w, key) /\ task'[w].name = task[w].name
    PROVE  Contents'
BY ContentsKept

-----------------------------------------------------------------------------
(* The objects of a cache after an operation.                              *)

\* A hit changes no object.
LEMMA HitEntries ==
    ASSUME NEW c, NEW id, Has(c, id)
    PROVE  \A n \in DOMAIN Hit(c, id).H : n \in DOMAIN c.H /\ Hit(c, id).H[n].obj = c.H[n].obj
BY DEF Has, Hit, Cache, Put, HitEntry, Entry

\* Each entry keeps its object, or is the one that was added or set.
LEMMA CacheEntries ==
    ASSUME NEW c, NEW id, NEW obj, NEW size
    PROVE  /\ \A n \in DOMAIN Add(c, id, obj, size).H :
                 \/ n \in DOMAIN c.H /\ Add(c, id, obj, size).H[n].obj = c.H[n].obj
                 \/ n = id /\ Add(c, id, obj, size).H[n].obj = obj
           /\ Has(c, id) => \A n \in DOMAIN SetObject(c, id, obj, size).H :
                 \/ n \in DOMAIN c.H /\ SetObject(c, id, obj, size).H[n].obj = c.H[n].obj
                 \/ n = id /\ SetObject(c, id, obj, size).H[n].obj = obj
<1>1. ASSUME NEW d
      PROVE  \A n \in DOMAIN Evict(d).H : n \in DOMAIN d.H /\ Evict(d).H[n] = d.H[n]
  <2>1. CASE d.size < SizeLimit
    BY <2>1 DEF Evict
  <2>2. CASE ~(d.size < SizeLimit)
    <3> DEFINE stay == DOMAIN d.H \ {e.id : e \in Evicted(d)}
    <3>1. Evict(d).H = [i \in stay |-> d.H[i]] /\ stay \subseteq DOMAIN d.H
      BY <2>2 DEF Evict, Cache
    <3> HIDE DEF stay
    <3> QED BY <3>1
  <2> QED BY <2>1, <2>2
<1>2. ASSUME NEW H, NEW e, NEW S, NEW t, NEW n
      PROVE  /\ DOMAIN Cache(Put(H, e), S, t, n).H = DOMAIN H \cup {e.id}
             /\ \A i \in DOMAIN H \cup {e.id} :
                   Cache(Put(H, e), S, t, n).H[i] = IF i = e.id THEN e ELSE H[i]
  BY DEF Cache, Put
<1>3. \A n \in DOMAIN Add(c, id, obj, size).H :
         \/ n \in DOMAIN c.H /\ Add(c, id, obj, size).H[n].obj = c.H[n].obj
         \/ n = id /\ Add(c, id, obj, size).H[n].obj = obj
  <2> PICK d : d = Evict(c)
    OBVIOUS
  <2> PICK e : e = Entry(id, obj, size, 1, d.time)
    OBVIOUS
  <2>1. e.id = id /\ e.obj = obj
    BY DEF Entry
  <2>2. \/ Add(c, id, obj, size) = Cache(Put(d.H, e), Insert(d.S, e), d.time + 1, d.size + size)
        \/ Add(c, id, obj, size).H = d.H
    BY DEF Add, Cache
  <2>3. \A n \in DOMAIN d.H : n \in DOMAIN c.H /\ d.H[n] = c.H[n]
    BY <1>1
  <2>4. CASE Add(c, id, obj, size) = Cache(Put(d.H, e), Insert(d.S, e), d.time + 1, d.size + size)
    BY <1>2, <2>1, <2>3, <2>4
  <2>5. CASE Add(c, id, obj, size).H = d.H
    BY <2>3, <2>5
  <2> QED BY <2>2, <2>4, <2>5
<1>4. ASSUME Has(c, id)
      PROVE  \A n \in DOMAIN SetObject(c, id, obj, size).H :
                \/ n \in DOMAIN c.H /\ SetObject(c, id, obj, size).H[n].obj = c.H[n].obj
                \/ n = id /\ SetObject(c, id, obj, size).H[n].obj = obj
  <2> PICK e : e = NewEntry(c, id, obj, size)
    OBVIOUS
  <2> PICK d : d = Cache(Put(c.H, e), Insert(Erase(c.S, c.H[id]), e), c.time,
                         c.size - c.H[id].size + size)
    OBVIOUS
  <2>1. e.id = id /\ e.obj = obj
    BY DEF NewEntry, Entry
  <2>2. SetObject(c, id, obj, size) = Evict(d)
    BY DEF SetObject
  <2>3. /\ DOMAIN d.H = DOMAIN c.H \cup {e.id}
        /\ \A i \in DOMAIN c.H \cup {e.id} : d.H[i] = IF i = e.id THEN e ELSE c.H[i]
    BY <1>2
  <2> QED BY <1>1, <2>1, <2>2, <2>3
<1> QED BY <1>3, <1>4

-----------------------------------------------------------------------------
(* The steps keep the segments.                                            *)

\* The cache process lets go of what it no longer refers to.
LEMMA CacheManages ==
    ASSUME Typed, Quiet(CacheProc), DropUnreferenced(Held), UNCHANGED <<held, dealloc>>,
           serving.step # "died", NEW more,
           DOMAIN segs' = DOMAIN segs \cup more,
           \A k \in DOMAIN segs' : segs'[k].at =
              (IF k \in DOMAIN segs THEN segs[k].at ELSE {}) \cup (IF k \in more THEN {CacheProc} ELSE {}),
           \A k \in more \cap DOMAIN segs : segs[k].at # {},
           Held' \subseteq Held \cup more, more \subseteq Held'
    PROVE  Manages(CacheProc, more)
<1>1. CacheProc \in Processes /\ CacheProc \notin Workers /\ Processes = Workers \cup {CacheProc}
  BY WorkerAssumption
<1>2. Held' = Objects(cache)' \cup manager' \cup shm_manager'
  BY DEF Held
<1>3. dropped' = [dropped EXCEPT ![CacheProc] = @ \cup (Held \ Held')]
  BY <1>2 DEF DropUnreferenced, Drop
<1>4. dropped \in [Processes -> SUBSET Nat] /\ dropped[CacheProc] = {}
  BY DEF Typed, TypeOK, ShmTypeOK, Quiet
<1>5. dropped'[CacheProc] = Held \ Held' /\ \A q \in Processes \ {CacheProc} : dropped'[q] = dropped[q]
  BY <1>1, <1>3, <1>4
<1>6. Refers(CacheProc) = Held /\ Refers(CacheProc)' = Held'
  BY DEF Refers
<1>7. \A q \in Processes \ {CacheProc} : Refers(q)' = Refers(q)
  BY DEF Refers
<1> QED BY <1>5, <1>6, <1>7 DEF Manages

\* The same, when it attaches nothing.
LEMMA CacheDrops ==
    ASSUME Typed, Quiet(CacheProc), DropUnreferenced(Held), UNCHANGED <<segs, held, dealloc>>,
           serving.step # "died", Held' \subseteq Held
    PROVE  Manages(CacheProc, {})
BY CacheManages

\* An answer that is not a segment offers nothing.
LEMMA OffersNothing ==
    ASSUME UNCHANGED answers, serving'.step = "reply" => serving'.message = Done
    PROVE  \A w \in Workers : \A key \in Nat : Offered(w, key)' => Offered(w, key)
BY DEF Offered, Done, Segment

\* A message that is sent offers what was served.
LEMMA SentOffers ==
    ASSUME Typed, NEW w \in Workers, NEW m \in Answers, answers' = [answers EXCEPT ![w] = Append(@, m)],
           serving'.step # "reply"
    PROVE  \A v \in Workers : \A key \in Nat : Offered(v, key)' =>
              Offered(v, key) \/ (v = w /\ m = Segment(key))
<1> SUFFICES ASSUME NEW v \in Workers, NEW key \in Nat, Offered(v, key)'
             PROVE  Offered(v, key) \/ (v = w /\ m = Segment(key))
  OBVIOUS
<1>1. PICK i \in DOMAIN answers'[v] : answers'[v][i] = Segment(key)
  BY DEF Offered
<1>2. CASE v = w
  <2>1. answers[w] \in Seq(Answers) /\ answers'[v] = Append(answers[w], m)
    BY <1>2 DEF Typed
  <2>2. \A j \in DOMAIN Append(answers[w], m) :
           \/ j \in DOMAIN answers[w] /\ Append(answers[w], m)[j] = answers[w][j]
           \/ Append(answers[w], m)[j] = m
    BY <2>1
  <2> QED BY <1>1, <1>2, <2>1, <2>2 DEF Offered
<1>3. CASE v # w
  BY <1>1, <1>3 DEF Offered, Typed
<1> QED BY <1>2, <1>3

\* Each step of the cache process keeps the segments.
LEMMA ServeSegments ==
    ASSUME Typed, Protocol, CacheInOrder, Segments, Serve
    PROVE  Segments'
<1>1. Attachments /\ Contents /\ Removals /\ CacheProc \in Processes
  BY WorkerAssumption DEF Segments
<1>2. CASE ServeAttach
  <2> PICK r : r = Head(queue)
    OBVIOUS
  <2> PICK key : key = r.key
    OBVIOUS
  <2>1. /\ Request("attach") /\ Attach(CacheProc, key) /\ manager' = {key} /\ DropUnreferenced(Held)
        /\ UNCHANGED <<shm_manager, dealloc, answers, attached, workerVars>>
        /\ Quiet(CacheProc) /\ serving.step # "died"
    BY <1>2 DEF ServeAttach, Request, CacheRuns
  <2>2. /\ r.worker \in Workers /\ r.name \in Names /\ key \in Nat
        /\ held[r.worker] = {key} /\ r.name = task[r.worker].name
    BY <2>1, TheRequest DEF Matches
  <2>3. key \in DOMAIN segs /\ segs[key].at # {} /\ segs[key].content = r.name
    BY <1>1, <2>2, AttachedKeys DEF Contents
  <2>4. \/ Has(cache, r.name) /\ cache' = Hit(cache, r.name) /\ serving'.step = "replace"
        \/ cache' = Add(cache, r.name, key, 1) /\ serving'.step = "reply" /\ serving'.message = Done
    BY <1>2 DEF ServeAttach, Reply
  <2>5. segs' = [segs EXCEPT ![key].at = @ \cup {CacheProc}]
    BY <2>1 DEF Attach
  <2>6. Objects(cache') \subseteq Objects(cache) \cup {key}
    <3>1. CASE Has(cache, r.name) /\ cache' = Hit(cache, r.name)
      BY <3>1, CacheTypes
    <3>2. CASE cache' = Add(cache, r.name, key, 1)
      BY <3>2, CacheTypes
    <3> QED BY <2>4, <3>1, <3>2
  <2>7. Held' \subseteq Held \cup {key} /\ key \in Held'
    BY <2>1, <2>6 DEF Held
  <2>8. /\ DOMAIN segs' = DOMAIN segs
        /\ \A k \in DOMAIN segs : segs'[k].content = segs[k].content /\
              segs'[k].at = segs[k].at \cup (IF k = key THEN {CacheProc} ELSE {})
    BY <2>5 DEF Typed, SegsTyped
  <2>9. Manages(CacheProc, {key})
    BY <2>1, <2>3, <2>7, <2>8, CacheManages DEF workerVars
  <2>10. \A n \in DOMAIN cache'.H :
            \/ n \in DOMAIN cache.H /\ cache'.H[n].obj = cache.H[n].obj
            \/ n = r.name /\ cache'.H[n].obj = key
    <3>1. CASE Has(cache, r.name) /\ cache' = Hit(cache, r.name)
      BY <3>1, HitEntries
    <3>2. CASE cache' = Add(cache, r.name, key, 1)
      BY <3>2, CacheEntries
    <3> QED BY <2>4, <3>1, <3>2
  <2>11. \A w \in Workers : \A k \in Nat : Offered(w, k)' => Offered(w, k)
    BY <2>1, <2>4, OffersNothing
  <2>12. Contents'
    BY <1>1, <2>1, <2>3, <2>8, <2>10, <2>11, ContentsKept DEF workerVars
  <2> QED BY <1>1, <2>9, <2>12, ManagesKeeps DEF Segments
<1>3. CASE Replace
  <2>1. PICK key \in manager : cache' = SetObject(cache, serving.name, key, SegmentBytes)
    BY <1>3 DEF Replace
  <2>2. /\ serving.step = "replace" /\ serving.worker \in Workers /\ Has(cache, serving.name)
        /\ serving'.step = "reply" /\ serving'.message = Done /\ DropUnreferenced(Held) /\ Quiet(CacheProc)
        /\ UNCHANGED <<manager, shm_manager, segs, dealloc, answers, workerVars>>
    BY <1>3 DEF Replace, CacheRuns, Reply, Typed, Servings, CacheInOrder, pipeVars
  <2>3. InStep(serving.worker) /\ Serves(serving.worker)
    BY <2>2 DEF Protocol, Serves
  <2>4. manager = held[serving.worker] /\ serving.name = task[serving.worker].name
    BY <2>2, <2>3 DEF InStep, AnswersMatch
  <2>5. segs[key].content = serving.name
    BY <1>1, <2>1, <2>2, <2>4 DEF Contents
  <2>6. Objects(cache') \subseteq Objects(cache) \cup {key}
    BY <2>1, <2>2, CacheTypes
  <2>7. Held' \subseteq Held
    BY <2>1, <2>2, <2>6 DEF Held
  <2>8. Manages(CacheProc, {})
    BY <2>2, <2>7, CacheDrops DEF workerVars
  <2>9. \A n \in DOMAIN cache'.H :
           \/ n \in DOMAIN cache.H /\ cache'.H[n].obj = cache.H[n].obj
           \/ n = serving.name /\ cache'.H[n].obj = key
    BY <2>1, <2>2, CacheEntries
  <2>10. \A w \in Workers : \A k \in Nat : Offered(w, k)' => Offered(w, k)
    BY <2>2, OffersNothing
  <2>11. Contents'
    BY <1>1, <2>2, <2>5, <2>9, <2>10, ContentsKept DEF workerVars
  <2> QED BY <1>1, <2>8, <2>11, ManagesKeeps DEF Segments
<1>4. CASE ServeSegment
  <2> PICK r : r = Head(queue)
    OBVIOUS
  <2> PICK key : key = Get(cache, r.name)
    OBVIOUS
  <2>1. /\ Request("ask") /\ Has(cache, r.name) /\ cache' = Hit(cache, r.name) /\ shm_manager' = {key}
        /\ DropUnreferenced(Held) /\ Quiet(CacheProc) /\ serving.step # "died"
        /\ serving' = [step |-> "reply", worker |-> r.worker, message |-> Segment(key)]
        /\ UNCHANGED <<manager, segs, dealloc, answers, workerVars>>
    BY <1>4 DEF ServeSegment, Request, CacheRuns, Reply
  <2>2. r.worker \in Workers /\ r.name = task[r.worker].name
    BY <2>1, TheRequest DEF Matches
  <2>3. key \in Objects(cache) /\ segs[key].content = r.name
    BY <1>1, <2>1 DEF Has, Get, Objects, Contents
  <2>4. Objects(cache') = Objects(cache)
    BY <2>1, CacheTypes
  <2>5. Held' \subseteq Held
    BY <2>1, <2>3, <2>4 DEF Held
  <2>6. Manages(CacheProc, {})
    BY <2>1, <2>5, CacheDrops DEF workerVars
  <2>7. \A n \in DOMAIN cache'.H : n \in DOMAIN cache.H /\ cache'.H[n].obj = cache.H[n].obj
    BY <2>1, HitEntries
  <2>8. \A w \in Workers : \A k \in Nat : Offered(w, k)' => Offered(w, k) \/ (w = r.worker /\ k = key)
    BY <2>1 DEF Offered, Serves, Segment
  <2>9. Contents'
    BY <1>1, <2>1, <2>2, <2>3, <2>7, <2>8, ContentsKept DEF workerVars
  <2> QED BY <1>1, <2>6, <2>9, ManagesKeeps DEF Segments
<1>5. CASE SendReply
  <2> PICK w, m : w = serving.worker /\ m = serving.message
    OBVIOUS
  <2>1. /\ serving.step = "reply" /\ w \in Workers /\ m \in Answers
        /\ answers' = [answers EXCEPT ![w] = Append(@, m)]
        /\ serving'.step \in {"listen", "wait"}
        /\ UNCHANGED <<shmVars, cache, manager, shm_manager, workerVars>>
    BY <1>5 DEF SendReply, Send, CacheRuns, Typed, Servings, Listening
  <2>2. \A key \in Nat : m = Segment(key) => Offered(w, key)
    BY <2>1 DEF Offered, Serves
  <2>3. \A v \in Workers : \A key \in Nat : Offered(v, key)' => Offered(v, key)
    BY <2>1, <2>2, SentOffers
  <2>4. Contents'
    BY <1>1, <2>1, <2>3, SameContents DEF workerVars, shmVars
  <2> QED BY <1>1, <2>1, <2>4, NoManagers DEF Segments, workerVars
<1>6. CASE Wait
  <2>1. /\ serving.step = "wait" /\ serving'.step = "listen" /\ UNCHANGED answers
        /\ UNCHANGED <<shmVars, cache, manager, shm_manager, workerVars>>
    BY <1>6 DEF Wait, CacheRuns, Listening
  <2>2. Contents'
    BY <1>1, <2>1, OffersNothing, SameContents DEF workerVars, shmVars
  <2> QED BY <1>1, <2>1, <2>2, NoManagers DEF Segments, workerVars
<1>7. CASE ServeNo
  <2> PICK w : w = Head(queue).worker
    OBVIOUS
  <2>1. /\ Request("ask") /\ answers' = [answers EXCEPT ![w] = Append(@, No)]
        /\ serving.step = "listen" /\ serving'.step = "load"
        /\ UNCHANGED <<shmVars, cache, manager, shm_manager, workerVars>>
    BY <1>7 DEF ServeNo, Send, Request, CacheRuns
  <2>2. w \in Workers
    BY <2>1, TheRequest
  <2>3. No \in Answers /\ \A key \in Nat : No # Segment(key)
    BY DEF No, Answers, Segment
  <2>4. \A v \in Workers : \A key \in Nat : Offered(v, key)' => Offered(v, key)
    BY <2>1, <2>2, <2>3, SentOffers
  <2>5. Contents'
    BY <1>1, <2>1, <2>4, SameContents DEF workerVars, shmVars
  <2> QED BY <1>1, <2>1, <2>5, NoManagers DEF Segments, workerVars
<1>8. CASE Load
  <2> PICK key : key = NewKey(CacheProc)
    OBVIOUS
  <2>1. /\ Create(CacheProc, serving.name) /\ manager' = {key} /\ DropUnreferenced(Held)
        /\ cache' = Add(cache, serving.name, key, 1) /\ Quiet(CacheProc)
        /\ serving.step = "load" /\ serving'.step = "listen"
        /\ UNCHANGED <<shm_manager, dealloc, answers, workerVars>>
    BY <1>8 DEF Load, CacheRuns, Listening, pipeVars
  <2>2. key \in Nat /\ key \notin DOMAIN segs
    BY <1>1, <2>1, NewKeyNat DEF Create, Typed, TypeOK
  <2>3. segs' = [k \in DOMAIN segs \cup {key} |->
                    IF k = key THEN [content |-> serving.name, at |-> {CacheProc}] ELSE segs[k]]
    BY <2>1 DEF Create
  <2>4. /\ DOMAIN segs' = DOMAIN segs \cup {key} /\ segs'[key].content = serving.name
        /\ segs'[key].at = {CacheProc} /\ \A k \in DOMAIN segs : segs'[k] = segs[k] /\ k # key
    BY <2>2, <2>3
  <2>5. Objects(cache') \subseteq Objects(cache) \cup {key}
    BY <2>1, CacheTypes
  <2>6. Held' \subseteq Held \cup {key} /\ key \in Held'
    BY <2>1, <2>5 DEF Held
  <2>7. Manages(CacheProc, {key})
    <3>1. \A k \in DOMAIN segs' : segs'[k].at =
             (IF k \in DOMAIN segs THEN segs[k].at ELSE {}) \cup (IF k \in {key} THEN {CacheProc} ELSE {})
      BY <2>2, <2>4
    <3>2. \A k \in {key} \cap DOMAIN segs : segs[k].at # {}
      BY <2>2
    <3> QED BY <2>1, <2>4, <2>6, <3>1, <3>2, CacheManages DEF workerVars
  <2>8. \A n \in DOMAIN cache'.H :
           \/ n \in DOMAIN cache.H /\ cache'.H[n].obj = cache.H[n].obj
           \/ n = serving.name /\ cache'.H[n].obj = key
    BY <2>1, CacheEntries
  <2>9. \A w \in Workers : \A k \in Nat : Offered(w, k)' => Offered(w, k)
    BY <2>1, OffersNothing
  <2>10. Contents'
    BY <1>1, <2>1, <2>4, <2>8, <2>9, ContentsKept DEF workerVars
  <2> QED BY <1>1, <2>7, <2>10, ManagesKeeps DEF Segments
<1>9. CASE LoadFails
  <2>1. /\ Death(CacheProc) /\ cache' = EmptyCache /\ manager' = {} /\ shm_manager' = {}
        /\ serving'.step = "died" /\ Quiet(CacheProc)
        /\ UNCHANGED <<answers, workerVars>>
    BY <1>9 DEF LoadFails, CacheDies, CacheRuns, pipeVars
  <2>2. /\ DOMAIN segs' = DOMAIN segs
        /\ \A k \in DOMAIN segs : segs'[k].at = segs[k].at \ {CacheProc} /\ segs'[k].content = segs[k].content
        /\ dropped' = [dropped EXCEPT ![CacheProc] = {}]
        /\ dealloc' = [dealloc EXCEPT ![CacheProc] = None]
    BY <2>1 DEF Death, Typed, SegsTyped
  <2>3. dropped' = dropped /\ dealloc' = dealloc /\ dropped[CacheProc] = {}
    <3>1. dropped[CacheProc] = {} /\ dealloc[CacheProc] = None
      BY <2>1 DEF Quiet
    <3> QED BY <2>2, <3>1 DEF Typed, TypeOK, ShmTypeOK
  <2>4. DOMAIN cache'.H = {} /\ Objects(cache') = {}
    BY <2>1 DEF EmptyCache, Cache, Objects
  <2>5. Held' = {}
    BY <2>1, <2>4 DEF Held
  <2>6. Attachments'
    <3>1. Attached(CacheProc)' = {} /\ \A q \in Processes \ {CacheProc} : Attached(q)' = Attached(q)
      BY <2>2 DEF Attached
    <3>2. Refers(CacheProc)' = {} /\ \A q \in Processes \ {CacheProc} : Refers(q)' = Refers(q)
      BY <2>1, <2>5 DEF Refers, workerVars
    <3> QED BY <1>1, <2>3, <3>1, <3>2 DEF Attachments
  <2>7. Removals'
    BY <1>1, <2>1, <2>2, <2>3 DEF Removals
  <2>8. \A w \in Workers : \A k \in Nat : Offered(w, k)' => Offered(w, k)
    BY <2>1, OffersNothing
  <2>9. Contents'
    BY <1>1, <2>1, <2>2, <2>4, <2>8, ContentsKept DEF workerVars
  <2> QED BY <2>6, <2>7, <2>9 DEF Segments
<1>10. CASE ServeEnd
  <2>1. /\ cache' = EmptyCache /\ manager' = {} /\ shm_manager' = {}
        /\ Drop(CacheProc, Held) /\ Quiet(CacheProc)
        /\ serving.step = "listen" /\ serving'.step = "ended"
        /\ UNCHANGED <<segs, dealloc, answers, workerVars>>
    BY <1>10 DEF ServeEnd, Request, CacheRuns
  <2>2. DOMAIN cache'.H = {} /\ Objects(cache') = {}
    BY <2>1 DEF EmptyCache, Cache, Objects
  <2>3. Held' = {} /\ DropUnreferenced(Held)
    BY <2>1, <2>2 DEF Held, Drop, DropUnreferenced
  <2>4. Manages(CacheProc, {})
    BY <2>1, <2>3, CacheDrops DEF workerVars
  <2>5. \A w \in Workers : \A k \in Nat : Offered(w, k)' => Offered(w, k)
    BY <2>1, OffersNothing
  <2>6. Contents'
    BY <1>1, <2>1, <2>2, <2>5, ContentsKept DEF workerVars
  <2> QED BY <1>1, <2>4, <2>6, ManagesKeeps DEF Segments
<1> QED BY <1>2, <1>3, <1>4, <1>5, <1>6, <1>7, <1>8, <1>9, <1>10 DEF Serve

\* An answer that is received is no longer offered.
LEMMA ReceivedOffers ==
    ASSUME Typed, NEW w \in Workers, answers' = [answers EXCEPT ![w] = Tail(@)], answers[w] # <<>>,
           UNCHANGED serving
    PROVE  \A v \in Workers : \A key \in Nat : Offered(v, key)' => Offered(v, key)
<1> SUFFICES ASSUME NEW v \in Workers, NEW key \in Nat, Offered(v, key)'
             PROVE  Offered(v, key)
  OBVIOUS
<1>1. Serves(v)' <=> Serves(v)
  BY DEF Serves
<1>2. CASE \E i \in DOMAIN answers'[v] : answers'[v][i] = Segment(key)
  <2>1. PICK i \in DOMAIN answers'[v] : answers'[v][i] = Segment(key)
    BY <1>2
  <2>2. CASE v = w
    <3>1. answers[w] \in Seq(Answers) /\ answers'[v] = Tail(answers[w])
      BY <2>2 DEF Typed
    <3>2. \A j \in DOMAIN Tail(answers[w]) :
             j + 1 \in DOMAIN answers[w] /\ Tail(answers[w])[j] = answers[w][j + 1]
      BY <3>1
    <3> QED BY <2>1, <2>2, <3>1, <3>2 DEF Offered
  <2>3. CASE v # w
    BY <2>1, <2>3 DEF Offered, Typed
  <2> QED BY <2>2, <2>3
<1> QED BY <1>1, <1>2 DEF Offered

\* A worker attaches a segment, or lets go of the one it has.
LEMMA WorkerManages ==
    ASSUME Typed, NEW w \in Workers, Quiet(w), UNCHANGED <<cache, manager, shm_manager, dealloc>>,
           serving' = serving, NEW more, NEW keys,
           held' = [held EXCEPT ![w] = keys], dropped'[w] = held[w] \ keys,
           \A q \in Processes \ {w} : dropped'[q] = dropped[q],
           DOMAIN segs' = DOMAIN segs \cup more,
           \A k \in DOMAIN segs' : segs'[k].at =
              (IF k \in DOMAIN segs THEN segs[k].at ELSE {}) \cup (IF k \in more THEN {w} ELSE {}),
           \A k \in more \cap DOMAIN segs : segs[k].at # {},
           keys \subseteq held[w] \cup more, more \subseteq keys
    PROVE  Manages(w, more)
<1>1. CacheProc \notin Workers /\ Processes = Workers \cup {CacheProc}
  BY WorkerAssumption
<1>2. held'[w] = keys /\ \A v \in Workers \ {w} : held'[v] = held[v]
  BY DEF Typed, TypeOK
<1>3. Refers(w) = held[w] /\ Refers(w)' = keys
  BY <1>1, <1>2 DEF Refers
<1>4. \A q \in Processes \ {w} : Refers(q)' = Refers(q)
  BY <1>1, <1>2 DEF Refers, Held, Objects
<1> QED BY <1>3, <1>4 DEF Manages

\* A worker lets go of its manager.
LEMMA WorkerDrops ==
    ASSUME Typed, NEW w \in Workers, Quiet(w), UNCHANGED <<cache, manager, shm_manager, serving, dealloc, segs>>,
           held' = [held EXCEPT ![w] = {}], Drop(w, held[w])
    PROVE  Manages(w, {})
<1>1. w \in Processes /\ dropped \in [Processes -> SUBSET Nat] /\ dropped[w] = {}
  BY WorkerAssumption DEF Typed, TypeOK, ShmTypeOK, Quiet
<1>2. dropped'[w] = held[w] \ {} /\ \A q \in Processes \ {w} : dropped'[q] = dropped[q]
  BY <1>1 DEF Drop
<1>3. /\ DOMAIN segs' = DOMAIN segs \cup {}
      /\ \A k \in DOMAIN segs' : segs'[k].at =
            (IF k \in DOMAIN segs THEN segs[k].at ELSE {}) \cup (IF k \in {} THEN {w} ELSE {})
  OBVIOUS
<1>4. PICK no : no = {}
  OBVIOUS
<1>5. /\ no \subseteq held[w] \cup no /\ no \subseteq no /\ \A k \in no \cap DOMAIN segs : segs[k].at # {}
  BY <1>4
<1> QED BY <1>2, <1>3, <1>4, <1>5, WorkerManages

\* A worker that ends its task has no manager and is offered nothing.
LEMMA EndSegments ==
    ASSUME Typed, Protocol, Segments, NEW w \in Workers, EndTask(w), pc[w] \in {"run", "end"},
           UNCHANGED <<segs, dropped, dealloc, held, answers>>
    PROVE  Segments'
<1>1. Attachments /\ Contents /\ Removals
  BY DEF Segments
<1>2. /\ UNCHANGED <<cache, manager, shm_manager>> /\ \A v \in Workers \ {w} : task'[v] = task[v]
      /\ (serving'.step # "died" => serving.step # "died")
      /\ serving'.step = serving.step /\ (serving.step = "reply" => serving' = serving)
  BY DEF EndTask, Typed, TypeOK, Servings
<1>3. held[w] = {} /\ InStep(w)
  BY DEF Protocol, InStep, HasManager
<1>4. \A v \in Workers : \A key \in Nat : Offered(v, key)' => Offered(v, key) /\ v # w
  <2>1. \A v \in Workers : \A key \in Nat : Offered(v, key)' => Offered(v, key)
    BY <1>2 DEF Offered, Serves
  <2> QED BY <1>3, <2>1, OfferedKeys
<1>5. Contents'
  BY <1>1, <1>2, <1>3, <1>4, SameContents
<1>6. Attachments' /\ Removals'
  <2>1. \A p \in Processes : Refers(p)' = Refers(p) /\ Attached(p)' = Attached(p)
    BY <1>2 DEF Refers, Held, Objects, Attached
  <2>2. Attachments'
    BY <1>1, <2>1 DEF Attachments
  <2> QED BY <1>1, <1>2, <2>2 DEF Removals
<1> QED BY <1>5, <1>6 DEF Segments

\* Each step of a worker keeps the segments.
LEMMA WorkSegments ==
    ASSUME Typed, Protocol, Segments, NEW w \in Workers, Work(w)
    PROVE  Segments'
<1>1. Attachments /\ Contents /\ Removals /\ w \in Processes /\ InStep(w)
  BY WorkerAssumption DEF Segments, Protocol
<1>2. CASE AttachAnswer(w)
  <2> PICK key : key = Head(answers[w]).key
    OBVIOUS
  <2>1. /\ Quiet(w) /\ pc[w] = "asked" /\ answers[w] # <<>> /\ Head(answers[w]).kind = "segment"
        /\ Attach(w, key) /\ held' = [held EXCEPT ![w] = {key}]
        /\ answers' = [answers EXCEPT ![w] = Tail(@)] /\ Received(w)
        /\ UNCHANGED <<dropped, dealloc, cache, manager, shm_manager, serving, task>>
    BY <1>2 DEF AttachAnswer, Found, Answered, Runs, Received, cacheVars
  <2>2. key \in Nat /\ Offered(w, key)
    <3>1. Head(answers[w]) \in Answers /\ Head(answers[w]) = answers[w][1] /\ 1 \in DOMAIN answers[w]
      <4>1. answers[w] \in Seq(Answers)
        BY DEF Typed
      <4> QED BY <2>1, <4>1
    <3> QED BY <2>1, <3>1 DEF Answers, Offered, Segment
  <2>3. key \in DOMAIN segs /\ segs[key].at # {} /\ segs[key].content = task[w].name
    BY <1>1, <2>2, AttachedKeys DEF Contents
  <2>4. held[w] = {} /\ dropped[w] = {}
    BY <1>1, <2>1 DEF InStep, HasManager, Quiet
  <2>5. /\ DOMAIN segs' = DOMAIN segs \cup {key}
        /\ \A k \in DOMAIN segs : segs'[k].content = segs[k].content
        /\ \A k \in DOMAIN segs' : segs'[k].at =
              (IF k \in DOMAIN segs THEN segs[k].at ELSE {}) \cup (IF k \in {key} THEN {w} ELSE {})
    BY <2>1, <2>3 DEF Attach, Typed, SegsTyped
  <2>6. Manages(w, {key})
    <3>1. dropped'[w] = held[w] \ {key} /\ \A q \in Processes \ {w} : dropped'[q] = dropped[q]
      BY <2>1, <2>4
    <3>2. \A k \in {key} \cap DOMAIN segs : segs[k].at # {}
      BY <2>3
    <3> QED BY <2>1, <2>5, <3>1, <3>2, WorkerManages
  <2>7. \A v \in Workers : \A k \in held'[v] : k \in held[v] \/ (v = w /\ k = key)
    BY <2>1 DEF Typed, TypeOK
  <2>8. \A v \in Workers : \A k \in Nat : Offered(v, k)' => Offered(v, k)
    BY <2>1, ReceivedOffers
  <2>9. Contents'
    BY <1>1, <2>1, <2>3, <2>5, <2>7, <2>8, ContentsKept
  <2> QED BY <1>1, <2>6, <2>9, ManagesKeeps DEF Segments
<1>3. CASE ReadObject(w)
  <2>1. /\ Quiet(w) /\ held' = [held EXCEPT ![w] = {}] /\ Drop(w, held[w])
        /\ UNCHANGED <<segs, dealloc, cache, manager, shm_manager, serving, answers, task>>
    BY <1>3 DEF ReadObject, Runs, cacheVars, pipeVars
  <2>2. Manages(w, {})
    BY <2>1, WorkerDrops
  <2>3. \A v \in Workers : \A k \in held'[v] : k \in held[v]
    BY <2>1 DEF Typed, TypeOK
  <2>4. \A v \in Workers : \A k \in Nat : Offered(v, k)' => Offered(v, k)
    BY <2>1 DEF Offered, Serves
  <2>5. Contents'
    BY <1>1, <2>1, <2>3, <2>4, SameContents
  <2> QED BY <1>1, <2>2, <2>5, ManagesKeeps DEF Segments
<1>4. CASE ReadFile(w)
  <2>1. /\ answers[w] # <<>> /\ answers' = [answers EXCEPT ![w] = Tail(@)]
        /\ UNCHANGED <<shmVars, cache, manager, shm_manager, serving, task, held>>
    BY <1>4 DEF ReadFile, Answered, Received, cacheVars
  <2>2. \A v \in Workers : \A k \in Nat : Offered(v, k)' => Offered(v, k)
    BY <2>1, ReceivedOffers
  <2>3. Contents'
    BY <1>1, <2>1, <2>2, SameContents DEF shmVars
  <2> QED BY <1>1, <2>1, <2>3, NoManagers DEF Segments
<1>5. CASE Publish(w)
  <2>1. pc[w] = "run" /\ Quiet(w) /\ task[w].name \in Names /\ UNCHANGED <<dropped, dealloc, answers>>
    BY <1>5 DEF Publish, Runs, Typed, Busy
  <2>2. CASE CreateFails(w) /\ EndTask(w) /\ UNCHANGED held
    BY <2>1, <2>2, EndSegments DEF CreateFails
  <2>3. CASE /\ Create(w, task[w].name)
             /\ held' = [held EXCEPT ![w] = {NewKey(w)}]
             /\ UNCHANGED <<cacheVars, task>>
    <3> PICK key : key = NewKey(w)
      OBVIOUS
    <3>1. key \in Nat /\ key \notin DOMAIN segs
      BY <1>1, <2>3, NewKeyNat DEF Create, Typed, TypeOK
    <3>2. /\ segs' = [k \in DOMAIN segs \cup {key} |->
                         IF k = key THEN [content |-> task[w].name, at |-> {w}] ELSE segs[k]]
          /\ held' = [held EXCEPT ![w] = {key}]
          /\ UNCHANGED <<cache, manager, shm_manager, serving, task>>
      BY <2>3 DEF Create, cacheVars
    <3>3. /\ DOMAIN segs' = DOMAIN segs \cup {key} /\ segs'[key].content = task[w].name
          /\ segs'[key].at = {w} /\ \A k \in DOMAIN segs : segs'[k] = segs[k] /\ k # key
      BY <3>1, <3>2
    <3>4. held[w] = {} /\ dropped[w] = {}
      BY <1>1, <2>1 DEF InStep, HasManager, Quiet
    <3>5. Manages(w, {key})
      <4>1. dropped'[w] = held[w] \ {key} /\ \A q \in Processes \ {w} : dropped'[q] = dropped[q]
        BY <2>1, <3>4
      <4>2. \A k \in {key} \cap DOMAIN segs : segs[k].at # {}
        BY <3>1
      <4>3. \A k \in DOMAIN segs' : segs'[k].at =
               (IF k \in DOMAIN segs THEN segs[k].at ELSE {}) \cup (IF k \in {key} THEN {w} ELSE {})
        BY <3>1, <3>3
      <4> QED BY <2>1, <3>2, <3>3, <4>1, <4>2, <4>3, WorkerManages
    <3>6. \A v \in Workers : \A k \in held'[v] : k \in held[v] \/ (v = w /\ k = key)
      BY <3>2 DEF Typed, TypeOK
    <3>7. \A v \in Workers : \A k \in Nat : Offered(v, k)' => Offered(v, k)
      BY <2>1, <3>2 DEF Offered, Serves
    <3>8. Contents'
      BY <1>1, <3>2, <3>3, <3>6, <3>7, ContentsKept
    <3> QED BY <1>1, <3>5, <3>8, ManagesKeeps DEF Segments
  <2> QED BY <1>5, <2>2, <2>3 DEF Publish
<1>6. CASE Published(w)
  <2>1. /\ Quiet(w) /\ held' = [held EXCEPT ![w] = {}] /\ Drop(w, held[w])
        /\ answers[w] # <<>> /\ answers' = [answers EXCEPT ![w] = Tail(@)]
        /\ UNCHANGED <<segs, dealloc, cache, manager, shm_manager, serving, task>>
    BY <1>6 DEF Published, Runs, Received, cacheVars
  <2>2. Manages(w, {})
    BY <2>1, WorkerDrops
  <2>3. \A v \in Workers : \A k \in held'[v] : k \in held[v]
    BY <2>1 DEF Typed, TypeOK
  <2>4. \A v \in Workers : \A k \in Nat : Offered(v, k)' => Offered(v, k)
    BY <2>1, ReceivedOffers
  <2>5. Contents'
    BY <1>1, <2>1, <2>3, <2>4, SameContents
  <2> QED BY <1>1, <2>2, <2>5, ManagesKeeps DEF Segments
<1>7. CASE Finish(w) \/ FinishPublished(w)
  <2>1. EndTask(w) /\ pc[w] \in {"run", "end"} /\ UNCHANGED <<segs, dropped, dealloc, held, answers>>
    BY <1>7 DEF Finish, FinishPublished, Runs, pipeVars, shmVars
  <2> QED BY <2>1, EndSegments
<1> QED BY <1>2, <1>3, <1>4, <1>5, <1>6, <1>7 DEF Work

\* Deallocations remove a segment only when nobody attaches it, and leave none
\* that nobody attaches.
LEMMA DeallocateSegments ==
    ASSUME Typed, Protocol, Segments, NEW p \in Processes, DeallocateManager(p)
    PROVE  Segments'
<1>1. Attachments /\ Contents /\ Removals /\ UNCHANGED <<cacheVars, pipeVars, workerVars>>
  BY DEF Segments, DeallocateManager
<1>2. \A q \in Processes : Refers(q)' = Refers(q)
  BY <1>1 DEF Refers, Held, Objects, cacheVars, workerVars
<1>3. \A w \in Workers : \A k \in Nat : Offered(w, k)' => Offered(w, k)
  BY <1>1 DEF Offered, Serves, cacheVars, pipeVars
<1>4. ASSUME \A k \in DOMAIN segs : segs[k].at # {} => segs'[k].content = segs[k].content
      PROVE  Contents'
  BY <1>1, <1>3, <1>4, ContentsKept DEF cacheVars, workerVars
<1>5. dealloc \in [Processes -> [call : {"none", "stat", "rmid"}, key : Nat]]
  BY DEF Typed, TypeOK, ShmTypeOK
<1>6. CASE Shmdt(p)
  <2>1. PICK key \in dropped[p] :
           /\ dropped' = [dropped EXCEPT ![p] = @ \ {key}]
           /\ segs' = Detached(key, p)
           /\ dealloc' = [dealloc EXCEPT ![p] = [call |-> "stat", key |-> key]]
    BY <1>6 DEF Shmdt
  <2>2. key \in DOMAIN segs /\ p \in segs[key].at /\ key \notin Refers(p)
    BY <1>1 DEF Attachments, Attached
  <2>3. /\ DOMAIN segs' = DOMAIN segs
        /\ \A k \in DOMAIN segs : segs'[k].content = segs[k].content /\
              segs'[k].at = IF k = key THEN segs[k].at \ {p} ELSE segs[k].at
    BY <2>1, <2>2 DEF Detached, Typed, SegsTyped
  <2>4. /\ dropped'[p] = dropped[p] \ {key} /\ \A q \in Processes \ {p} : dropped'[q] = dropped[q]
        /\ dealloc'[p].call = "stat" /\ dealloc'[p].key = key /\ \A q \in Processes \ {p} : dealloc'[q] = dealloc[q]
    BY <2>1, <1>5 DEF Typed, TypeOK, ShmTypeOK
  <2>5. Attachments'
    <3>1. Attached(p)' = Attached(p) \ {key}
      BY <2>3 DEF Attached
    <3>2. \A q \in Processes \ {p} : Attached(q)' = Attached(q)
      BY <2>3 DEF Attached
    <3>3. Attached(p)' = Refers(p)' \cup dropped'[p] /\ Refers(p)' \cap dropped'[p] = {}
      BY <1>1, <1>2, <2>2, <2>4, <3>1 DEF Attachments
    <3>4. ASSUME NEW q \in Processes \ {p}
          PROVE  Attached(q)' = Refers(q)' \cup dropped'[q] /\ Refers(q)' \cap dropped'[q] = {}
      BY <1>1, <1>2, <2>4, <3>2 DEF Attachments
    <3> QED BY <3>3, <3>4 DEF Attachments
  <2>6. Removals'
    <3>1. dealloc[p] = None /\ serving' = serving
      BY <1>1, <1>6 DEF Shmdt, cacheVars
    <3>2. \A q \in Processes : dealloc'[q].call = "none" => dealloc'[q] = None
      BY <1>1, <2>4 DEF Removals
    <3>3. \A q \in Processes : dealloc'[q].call # "none" =>
             dealloc'[q].key \in DOMAIN segs' /\ q \notin segs'[dealloc'[q].key].at
      <4>1. key \in DOMAIN segs' /\ p \notin segs'[key].at
        BY <2>2, <2>3
      <4>2. ASSUME NEW q \in Processes \ {p}, dealloc[q].call # "none"
            PROVE  dealloc[q].key \in DOMAIN segs' /\ q \notin segs'[dealloc[q].key].at
        <5>1. PICK k : k = dealloc[q].key
          OBVIOUS
        <5>2. k \in DOMAIN segs /\ q \notin segs[k].at
          BY <1>1, <4>2, <5>1 DEF Removals
        <5>3. k \in DOMAIN segs' /\ q \notin segs'[k].at
          BY <2>3, <5>2
        <5> QED BY <5>1, <5>3
      <4> QED BY <2>4, <4>1, <4>2
    <3>4. \A q \in Processes : dealloc'[q].call = "rmid" => segs'[dealloc'[q].key].at = {}
      <4>1. ASSUME NEW q \in Processes, dealloc[q].call = "rmid"
            PROVE  segs'[dealloc[q].key].at = {}
        <5>1. PICK k : k = dealloc[q].key
          OBVIOUS
        <5>2. k \in DOMAIN segs /\ segs[k].at = {}
          BY <1>1, <4>1, <5>1 DEF Removals
        <5>3. segs'[k].at = {}
          BY <2>3, <5>2
        <5> QED BY <5>1, <5>3
      <4> QED BY <2>4, <4>1
    <3>5. ASSUME serving.step # "died", NEW k \in DOMAIN segs', segs'[k].at = {}
          PROVE  \E q \in Processes : dealloc'[q].call # "none" /\ dealloc'[q].key = k
      <4>1. CASE k = key
        BY <2>4, <4>1
      <4>2. CASE k # key
        <5>1. segs[k].at = {} /\ k \in DOMAIN segs
          BY <2>3, <3>5, <4>2
        <5>2. PICK q \in Processes : dealloc[q].call # "none" /\ dealloc[q].key = k
          BY <1>1, <3>5, <5>1 DEF Removals
        <5>3. q # p
          BY <3>1, <5>2 DEF None
        <5> QED BY <2>4, <5>2, <5>3
      <4> QED BY <4>1, <4>2
    <3> QED BY <3>1, <3>2, <3>3, <3>4, <3>5 DEF Removals
  <2>7. Contents'
    BY <1>4, <2>3
  <2> QED BY <2>5, <2>6, <2>7 DEF Segments
<1>7. CASE Stat(p)
  <2>1. /\ dealloc[p].call = "stat" /\ UNCHANGED <<segs, dropped, serving>>
        /\ \A q \in Processes \ {p} : dealloc'[q] = dealloc[q]
        /\ IF segs[dealloc[p].key].at = {}
           THEN dealloc'[p].call = "rmid" /\ dealloc'[p].key = dealloc[p].key
           ELSE dealloc'[p] = None
    <3> PICK old : old = dealloc[p]
      OBVIOUS
    <3>1. old \in [call : {"none", "stat", "rmid"}, key : Nat]
      BY <1>5
    <3>2. dealloc' = [dealloc EXCEPT ![p] = IF segs[old.key].at = {} THEN [old EXCEPT !.call = "rmid"] ELSE None]
      BY <1>7 DEF Stat
    <3>3. dealloc'[p] = IF segs[old.key].at = {} THEN [old EXCEPT !.call = "rmid"] ELSE None
      BY <1>5, <3>2
    <3>4. [old EXCEPT !.call = "rmid"].call = "rmid" /\ [old EXCEPT !.call = "rmid"].key = old.key
      BY <3>1
    <3>5. /\ dealloc[p].call = "stat" /\ UNCHANGED <<segs, dropped, serving>>
          /\ \A q \in Processes \ {p} : dealloc'[q] = dealloc[q]
      BY <1>1, <1>5, <1>7, <3>2 DEF Stat, cacheVars
    <3> QED BY <3>3, <3>4, <3>5
  <2>2. Attachments'
    BY <1>1, <1>2, <2>1 DEF Attachments, Attached
  <2>3. Removals'
    <3>1. \A q \in Processes : dealloc'[q].call = "none" => dealloc'[q] = None
      BY <1>1, <2>1 DEF Removals
    <3>2. None.call = "none"
      BY DEF None
    <3>3. \A q \in Processes : dealloc'[q].call # "none" =>
             dealloc'[q].key \in DOMAIN segs /\ q \notin segs[dealloc'[q].key].at
      BY <1>1, <2>1, <3>2 DEF Removals
    <3>4. \A q \in Processes : dealloc'[q].call = "rmid" => segs[dealloc'[q].key].at = {}
      BY <1>1, <2>1, <3>2 DEF Removals
    <3>5. ASSUME serving.step # "died", NEW k \in DOMAIN segs, segs[k].at = {}
          PROVE  \E q \in Processes : dealloc'[q].call # "none" /\ dealloc'[q].key = k
      <4>1. PICK q \in Processes : dealloc[q].call # "none" /\ dealloc[q].key = k
        BY <1>1, <3>5 DEF Removals
      <4>2. dealloc'[q].call # "none" /\ dealloc'[q].key = k
        BY <2>1, <3>5, <4>1
      <4> QED BY <4>2
    <3> QED BY <2>1, <3>1, <3>3, <3>4, <3>5 DEF Removals
  <2>4. Contents'
    BY <1>4, <2>1
  <2> QED BY <2>2, <2>3, <2>4 DEF Segments
<1>8. CASE Rmid(p)
  <2> PICK key : key = dealloc[p].key
    OBVIOUS
  <2>1. /\ dealloc[p].call = "rmid" /\ UNCHANGED <<dropped, serving>>
        /\ segs' = [k \in DOMAIN segs \ {key} |-> segs[k]]
        /\ dealloc' = [q \in Processes |-> IF dealloc[q].key = key THEN None ELSE dealloc[q]]
    BY <1>1, <1>8 DEF Rmid, cacheVars
  <2>2. key \in DOMAIN segs /\ segs[key].at = {}
    BY <1>1, <2>1 DEF Removals
  <2>3. \A q \in Processes : Attached(q)' = Attached(q)
    BY <2>1, <2>2 DEF Attached
  <2>4. Attachments'
    BY <1>1, <1>2, <2>1, <2>3 DEF Attachments
  <2>5. Removals'
    <3>1. \A q \in Processes : dealloc'[q].call # "none" => dealloc'[q] = dealloc[q] /\ dealloc[q].key # key
      BY <2>1 DEF None
    <3>2. \A q \in Processes : dealloc'[q].call = "none" => dealloc'[q] = None
      BY <1>1, <2>1 DEF Removals
    <3>3. \A q \in Processes : dealloc'[q].call # "none" =>
             dealloc'[q].key \in DOMAIN segs' /\ q \notin segs'[dealloc'[q].key].at
      <4> SUFFICES ASSUME NEW q \in Processes, dealloc'[q].call # "none"
                   PROVE  dealloc'[q].key \in DOMAIN segs' /\ q \notin segs'[dealloc'[q].key].at
        OBVIOUS
      <4>1. PICK k : k = dealloc[q].key
        OBVIOUS
      <4>2. k \in DOMAIN segs /\ q \notin segs[k].at /\ k # key /\ dealloc'[q].key = k
        BY <1>1, <3>1, <4>1 DEF Removals
      <4> QED BY <2>1, <4>2
    <3>4. \A q \in Processes : dealloc'[q].call = "rmid" => segs'[dealloc'[q].key].at = {}
      <4> SUFFICES ASSUME NEW q \in Processes, dealloc'[q].call = "rmid"
                   PROVE  segs'[dealloc'[q].key].at = {}
        OBVIOUS
      <4>1. PICK k : k = dealloc[q].key
        OBVIOUS
      <4>2. k \in DOMAIN segs /\ segs[k].at = {} /\ k # key /\ dealloc'[q].key = k
        BY <1>1, <3>1, <4>1 DEF Removals
      <4> QED BY <2>1, <4>2
    <3>5. ASSUME serving.step # "died", NEW k \in DOMAIN segs', segs'[k].at = {}
          PROVE  \E q \in Processes : dealloc'[q].call # "none" /\ dealloc'[q].key = k
      <4>1. k \in DOMAIN segs /\ k # key /\ segs[k].at = {}
        BY <2>1, <3>5
      <4>2. PICK q \in Processes : dealloc[q].call # "none" /\ dealloc[q].key = k
        BY <1>1, <3>5, <4>1 DEF Removals
      <4> QED BY <2>1, <4>1, <4>2
    <3> QED BY <2>1, <3>2, <3>3, <3>4, <3>5 DEF Removals
  <2>6. Contents'
    BY <1>4, <2>1, <2>2
  <2> QED BY <2>4, <2>5, <2>6 DEF Segments
<1> QED BY <1>6, <1>7, <1>8 DEF DeallocateManager, Deallocate

-----------------------------------------------------------------------------
(* The theorems.                                                           *)

\* Every step keeps the segments.
LEMMA NextSegments ==
    ASSUME Typed, Protocol, CacheInOrder, Segments, Next
    PROVE  Segments'
<1>1. Attachments /\ Contents /\ Removals
  BY DEF Segments
<1>2. CASE JoinWorkers
  <2>1. UNCHANGED <<shmVars, cache, manager, shm_manager, serving, answers, task, held>>
    BY <1>2 DEF JoinWorkers, cacheVars
  <2>2. \A v \in Workers : \A k \in Nat : Offered(v, k)' => Offered(v, k)
    BY <2>1 DEF Offered, Serves
  <2>3. Contents'
    BY <1>1, <2>1, <2>2, SameContents DEF shmVars
  <2> QED BY <1>1, <2>1, <2>3, NoManagers DEF Segments
<1>3. ASSUME NEW w \in Workers, NEW name \in Names, NEW direction \in Directions,
             Start(w, name, direction)
      PROVE  Segments'
  <2>1. /\ pc[w] = "idle" /\ task' = [task EXCEPT ![w] = [name |-> name, writes |-> direction # "IN"]]
        /\ UNCHANGED <<shmVars, cache, manager, shm_manager, serving, answers, held>>
    BY <1>3 DEF Start, Runs, cacheVars
  <2>2. held[w] = {} /\ InStep(w) /\ \A v \in Workers \ {w} : task'[v] = task[v]
    BY <2>1 DEF Protocol, InStep, HasManager, Typed, TypeOK
  <2>3. \A v \in Workers : \A k \in Nat : Offered(v, k)' => Offered(v, k) /\ v # w
    <3>1. \A v \in Workers : \A k \in Nat : Offered(v, k)' => Offered(v, k)
      BY <2>1 DEF Offered, Serves
    <3> QED BY <2>1, <2>2, <3>1, OfferedKeys
  <2>4. Contents'
    BY <1>1, <2>1, <2>2, <2>3, SameContents DEF shmVars
  <2> QED BY <1>1, <2>1, <2>4, NoManagers DEF Segments
<1> QED BY <1>2, <1>3, ServeSegments, WorkSegments, DeallocateSegments DEF Next

\* Initially nobody waits and there is no segment.
LEMMA InitWhole == Init => WholeInv
<1> SUFFICES ASSUME Init
             PROVE  WholeInv
  OBVIOUS
<1>1. IInv
  BY InitTyped, EmptyCacheInv DEF Init, Listening, IInv, CacheInOrder
<1>2. Protocol
  BY DEF Init, Listening, Protocol, InStep, HasManager, OneAtATime, Asks, Serves, AnswersMatch, WaitsFor
<1>3. Held = {} /\ DOMAIN cache.H = {} /\ DOMAIN segs = {}
  BY DEF Init, ShmInit, EmptyCache, Cache, Held, Objects
<1>4. Attachments /\ Removals
  BY <1>3, WorkerAssumption DEF Init, ShmInit, Attachments, Attached, Refers, Removals, None
<1>5. Contents
  BY <1>3 DEF Init, Listening, Contents, Offered, Serves
<1> QED BY <1>1, <1>2, <1>4, <1>5 DEF WholeInv, Segments

\* A step that changes nothing keeps the invariant.
LEMMA StutterWhole ==
    ASSUME Protocol, Segments, UNCHANGED vars
    PROVE  Protocol' /\ Segments'
BY DEF vars, shmVars, cacheVars, pipeVars, workerVars, Protocol, InStep, HasManager, OneAtATime, Asks,
       Serves, Matches, AnswersMatch, Fits, WaitsFor, Segments, Attachments, Attached, Refers, Held,
       Objects, Contents, Offered, Removals

\* The workers, the cache process and the segments stay as they should be to each other.
THEOREM ProtocolInvariant == Spec => []WholeInv
<1>1. WholeInv /\ [Next]_vars => WholeInv'
  BY NextTyped, NextInOrder, StutterInv, NextProtocol, NextSegments, StutterWhole DEF WholeInv, IInv
<1> QED BY <1>1, InitWhole, PTL DEF Spec

\* A key that was sent, queued, cached or is held names the segment it was sent for, whatever
\* was evicted, removed or created under a key used before.
THEOREM KeysNameSegments == Spec => []KeyNamesSegment
<1>1. WholeInv => KeyNamesSegment
  <2> SUFFICES ASSUME WholeInv
               PROVE  KeyNamesSegment
    OBVIOUS
  <2>1. Typed /\ Protocol /\ Attachments /\ Contents
    BY DEF WholeInv, IInv, Segments
  <2>2. ASSUME NEW w \in Workers, NEW i \in DOMAIN answers[w], answers[w][i].kind = "segment"
        PROVE  answers[w][i].key \in DOMAIN segs /\ segs[answers[w][i].key].content = task[w].name
    <3>1. answers[w] \in Seq(Answers)
      BY <2>1 DEF Typed
    <3>2. answers[w][i] \in Answers
      BY <3>1
    <3>3. PICK key : key = answers[w][i].key
      OBVIOUS
    <3>4. key \in Nat /\ answers[w][i] = Segment(key)
      BY <2>2, <3>2, <3>3 DEF Answers, Segment
    <3>5. Offered(w, key)
      BY <3>4 DEF Offered
    <3> QED BY <2>1, <3>3, <3>4, <3>5, AttachedKeys DEF Contents
  <2>3. ASSUME NEW i \in DOMAIN queue, queue[i].kind = "attach"
        PROVE  queue[i].key \in DOMAIN segs /\ segs[queue[i].key].content = queue[i].name
    <3>1. queue \in Seq(Requests)
      BY <2>1 DEF Typed
    <3>2. queue[i] \in Requests
      BY <3>1
    <3>3. PICK w : w = queue[i].worker
      OBVIOUS
    <3>4. w \in Workers /\ i \in Asks(w)
      BY <2>3, <3>2, <3>3 DEF Requests, Asks
    <3>5. held[w] = {queue[i].key} /\ queue[i].name = task[w].name
      BY <2>1, <2>3, <3>4 DEF Protocol, InStep, Matches
    <3> QED BY <2>1, <3>4, <3>5, AttachedKeys DEF Contents
  <2>4. \A w \in Workers : \A key \in held[w] :
           key \in DOMAIN segs /\ segs[key].content = task[w].name /\ w \in segs[key].at
    BY <2>1, AttachedKeys DEF Contents
  <2>5. \A n \in DOMAIN cache.H : cache.H[n].obj \in DOMAIN segs /\ segs[cache.H[n].obj].content = n
           /\ CacheProc \in segs[cache.H[n].obj].at
    <3>1. \A n \in DOMAIN cache.H : cache.H[n].obj \in Held
      BY DEF Held, Objects
    <3> QED BY <2>1, <3>1, AttachedKeys DEF Contents
  <2> QED BY <2>2, <2>3, <2>4, <2>5 DEF KeyNamesSegment
<1> QED BY <1>1, ProtocolInvariant, PTL

\* Unless the cache process died, each segment of the system has a process that lets go of it
\* or is removing it, however their system calls interleave.
THEOREM NoneLeaked == Spec => []NoSegmentLeaked
<1>1. WholeInv => NoSegmentLeaked
  <2> SUFFICES ASSUME WholeInv, serving.step # "died", NEW key \in DOMAIN segs
               PROVE  \/ CacheProc \in segs[key].at /\ key \in Held \cup dropped[CacheProc]
                      \/ \E w \in Workers : w \in segs[key].at /\ key \in held[w] \cup dropped[w]
                      \/ \E p \in Processes : dealloc[p].call # "none" /\ dealloc[p].key = key
    BY DEF NoSegmentLeaked
  <2>1. Attachments /\ Removals /\ segs[key].at \subseteq Processes
    BY DEF WholeInv, IInv, Typed, SegsTyped, Segments
  <2>2. CASE segs[key].at = {}
    BY <2>1, <2>2 DEF Removals
  <2>3. CASE segs[key].at # {}
    <3>1. PICK p \in Processes : p \in segs[key].at
      BY <2>1, <2>3
    <3>2. key \in Attached(p)
      BY <3>1 DEF Attached
    <3>3. key \in Refers(p) \cup dropped[p]
      BY <2>1, <3>2 DEF Attachments
    <3> QED BY <3>1, <3>3, WorkerAssumption DEF Refers
  <2> QED BY <2>2, <2>3
<1> QED BY <1>1, ProtocolInvariant, PTL

\* A worker waits if and only if one answer is due to it, and only the cache process waits for
\* the 'D' of a worker: no pipe is ahead of the process that reads it.
THEOREM PipesStayInStep == Spec => []PipesInStep
<1>1. WholeInv => PipesInStep
  <2> SUFFICES ASSUME WholeInv, NEW w \in Workers
               PROVE  /\ Cardinality(Asks(w)) + Len(answers[w])
                         + (IF serving.step \in {"replace", "reply"} /\ serving.worker = w THEN 1 ELSE 0)
                         = (IF pc[w] \in {"asked", "published"} THEN 1 ELSE 0)
                      /\ attached[w] # <<>> =>
                            Len(attached[w]) = 1 /\ serving = [step |-> "wait", worker |-> w]
    BY DEF PipesInStep, Asks
  <2>1. InStep(w) /\ answers[w] \in Seq(Answers)
    BY DEF WholeInv, IInv, Typed, Protocol
  <2>2. Cardinality(Asks(w)) = IF Asks(w) = {} THEN 0 ELSE 1
    <3>1. CASE Asks(w) = {}
      BY <3>1, FS_EmptySet
    <3>2. CASE Asks(w) # {}
      <4>1. PICK i : Asks(w) = {i}
        BY <2>1, <3>2 DEF InStep, OneAtATime
      <4> QED BY <3>2, <4>1, FS_Singleton
    <3> QED BY <3>1, <3>2
  <2>3. Len(answers[w]) \in Nat /\ (answers[w] = <<>> <=> Len(answers[w]) = 0)
    BY <2>1, EmptySeq
  <2>4. PICK n \in Nat : n = Len(answers[w])
    BY <2>3
  <2>5. /\ n <= 1 /\ (n = 0 <=> answers[w] = <<>>)
        /\ pc[w] \in {"asked", "published"} <=> Asks(w) # {} \/ Serves(w) \/ n # 0
        /\ Asks(w) # {} => ~Serves(w) /\ n = 0
        /\ Serves(w) => n = 0
    BY <2>1, <2>3, <2>4 DEF InStep, OneAtATime
  <2>6. Cardinality(Asks(w)) + n + (IF Serves(w) THEN 1 ELSE 0)
           = (IF pc[w] \in {"asked", "published"} THEN 1 ELSE 0)
    BY <2>2, <2>5
  <2>7. attached[w] # <<>> => Len(attached[w]) = 1 /\ serving = [step |-> "wait", worker |-> w]
    BY <2>1 DEF InStep, AnswersMatch, WaitsFor
  <2> QED BY <2>4, <2>6, <2>7 DEF Serves
<1> QED BY <1>1, ProtocolInvariant, PTL
=============================================================================
