-------------------------- MODULE PersistentCache --------------------------
(***************************************************************************)
(* The cache type of the Python binding (persistent_cache.cc).             *)
(*                                                                         *)
(* A cache keeps its entries twice: in the map H by identifier, and, by    *)
(* copy, in the set S ordered by priority, whose first element is the one  *)
(* to evict.  A std::set does not notice that an element changes, so each  *)
(* operation takes the entry out of S, changes it and puts it back.        *)
(*                                                                         *)
(* An operation maps a cache to a cache.  Identifiers are numbers: all     *)
(* the cache needs of them is their order.                                 *)
(***************************************************************************)
EXTENDS Integers, FiniteSets

CONSTANT SizeLimit    \* Cache.size_limit

ASSUME SizeLimitAssumption == SizeLimit \in Nat

Cache(H, S, time, size) == [H |-> H, S |-> S, time |-> time, size |-> size]
EmptyCache == Cache(<<>>, {}, 0, 0)

\* cached_object, without its comparison function.
Entry(id, obj, size, hits, last) ==
    [id |-> id, obj |-> obj, size |-> size, hits |-> hits, last |-> last]

\* _default_comparison_function: fewest hits first, then the oldest hit.
Before(a, b) ==
    \/ a.hits < b.hits
    \/ a.hits = b.hits /\ a.last < b.last
    \/ a.hits = b.hits /\ a.last = b.last /\ a.id < b.id

\* std::set::erase and insert see an element through the comparison only.
Erase(S, e) == {x \in S : Before(x, e) \/ Before(e, x)}
Insert(S, e) == IF Erase(S, e) = S THEN S \cup {e} ELSE S

Has(c, id) == id \in DOMAIN c.H

Put(H, e) == [i \in DOMAIN H \cup {e.id} |-> IF i = e.id THEN e ELSE H[i]]

\* The sizes of the entries of a set, added: each takes as many units as its size.
Units(S) == UNION {{e} \X (1 .. e.size) : e \in S}
SizeOf(S) == Cardinality(Units(S))

\* The entries that go while the cache is not below its limit: the first of
\* S, the next one if that was not enough, and so on.
EvictedFault(c) ==
    {e \in c.S : c.size - SizeOf({x \in c.S : Before(e, x)}) >= SizeLimit}
Evicted(c) ==
    {e \in c.S : c.size - SizeOf({x \in c.S : Before(x, e)}) >= SizeLimit}

Evict(c) ==
    IF c.size < SizeLimit THEN c ELSE
    LET gone == Evicted(c)
        stay == DOMAIN c.H \ {e.id : e \in gone}
    IN  Cache([i \in stay |-> c.H[i]], c.S \ gone, c.time, c.size - SizeOf(gone))

\* Called for an identifier the cache does not have: it raises KeyError
\* otherwise.  The entry is left out when it does not fit.
Add(c, id, obj, size) ==
    LET d == Evict(c)
        e == Entry(id, obj, size, 1, d.time)
    IN  IF d.size + size =< SizeLimit
        THEN Cache(Put(d.H, e), Insert(d.S, e), d.time + 1, d.size + size)
        ELSE Cache(d.H, d.S, d.time + 1, d.size)

\* Called, as the two operations below, for an identifier of the cache.
HitEntry(c, id) == Entry(id, c.H[id].obj, c.H[id].size, c.H[id].hits + 1, c.time)
HitFault(c, id) ==
    Cache(Put(c.H, HitEntry(c, id)), Insert(c.S, HitEntry(c, id)), c.time + 1, c.size)
Hit(c, id) ==
    Cache(Put(c.H, HitEntry(c, id)), Insert(Erase(c.S, c.H[id]), HitEntry(c, id)),
          c.time + 1, c.size)

Get(c, id) == c.H[id].obj

\* The new object may be larger and push out others, or itself.
NewEntry(c, id, obj, size) == Entry(id, obj, size, c.H[id].hits, c.H[id].last)
SetObjectFault(c, id, obj, size) ==
    LET e == NewEntry(c, id, obj, size)
    IN  Evict(Cache(Put(c.H, e), Insert(Erase(c.S, c.H[id]), e), c.time, c.size + size))
SetObject(c, id, obj, size) ==
    LET e == NewEntry(c, id, obj, size)
    IN  Evict(Cache(Put(c.H, e), Insert(Erase(c.S, c.H[id]), e), c.time,
                    c.size - c.H[id].size + size))

\* The map and the ordered set hold the same entries, and no two of them have
\* the same priority.
Agree(c) ==
    /\ c.S = {c.H[n] : n \in DOMAIN c.H}
    /\ \A n \in DOMAIN c.H : c.H[n].id = n /\ c.H[n].last < c.time
    /\ \A m, n \in DOMAIN c.H : m # n => c.H[m].last # c.H[n].last

Objects(c) == {c.H[i].obj : i \in DOMAIN c.H}
=============================================================================
