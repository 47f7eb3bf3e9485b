----------------------------- MODULE ShmManager -----------------------------
(***************************************************************************)
(* Shared memory segments and the shm_manager objects through which the    *)
(* Python processes of a worker hold them (shm_manager.cc).                *)
(*                                                                         *)
(* A process attaches a segment when it makes a manager of it, and lets go *)
(* of it when it drops the last reference to that manager: it detaches the *)
(* segment, asks how many processes are left, and removes the segment when *)
(* there is none.  These are three system calls, and other processes run   *)
(* between them.  The key 1337, tried first, is the key 0 here.  What a    *)
(* segment holds is the name of the datum that was written to it.          *)
(***************************************************************************)
EXTENDS Integers, FiniteSets

CONSTANTS
    Processes,
    MaxAttempts      \* MAX_SHMGET_ATTEMPTS

ASSUME AttemptsAssumption == MaxAttempts \in Nat \ {0}

VARIABLES
    segs,        \* the segments: by key, what each holds and who attaches it
    nextKey,     \* CURRENT_SHM_ID of each process
    dropped,     \* keys of the managers each process is to deallocate
    dealloc      \* what shm_manager_dealloc of each process does next

shmVars == <<segs, nextKey, dropped, dealloc>>

None == [call |-> "none", key |-> 0]

ShmInit ==
    /\ segs = <<>>
    /\ nextKey = [p \in Processes |-> 1]
    /\ dropped = [p \in Processes |-> {}]
    /\ dealloc = [p \in Processes |-> None]

\* The process is not deallocating a manager: its own code runs.
Quiet(p) == dropped[p] = {} /\ dealloc[p] = None

Attached(p) == {k \in DOMAIN segs : p \in segs[k].at}

\* The key of each attempt of a process to create a segment.
AttemptFault(p, n) == IF n = 1 THEN 0 ELSE nextKey[p] - n
Attempt(p, n) == IF n = 1 THEN 0 ELSE nextKey[p] + n - 2
FreeAttempts(p) == {n \in 1 .. MaxAttempts : Attempt(p, n) \notin DOMAIN segs}
FirstFree(p) == CHOOSE n \in FreeAttempts(p) : \A m \in FreeAttempts(p) : n =< m
CanCreate(p) == FreeAttempts(p) # {}
NewKey(p) == Attempt(p, FirstFree(p))

\* Each failed attempt takes a key from the counter of the process.
Create(p, content) ==
    /\ CanCreate(p)
    /\ segs' = [k \in DOMAIN segs \cup {NewKey(p)} |->
                   IF k = NewKey(p) THEN [content |-> content, at |-> {p}] ELSE segs[k]]
    /\ nextKey' = [nextKey EXCEPT ![p] = @ + FirstFree(p) - 1]

CreateFails(p) ==
    /\ ~CanCreate(p)
    /\ nextKey' = [nextKey EXCEPT ![p] = @ + MaxAttempts]
    /\ UNCHANGED segs

\* Getting a segment raises an exception if no segment has the key.
Attach(p, key) ==
    /\ key \in DOMAIN segs
    /\ segs' = [segs EXCEPT ![key].at = @ \cup {p}]
    /\ UNCHANGED nextKey

Drop(p, keys) == dropped' = [dropped EXCEPT ![p] = @ \cup keys]

Detached(key, p) ==
    IF key \in DOMAIN segs THEN [segs EXCEPT ![key].at = @ \ {p}] ELSE segs

\* shm_manager_dealloc: shmdt ...
Shmdt(p) ==
    /\ dealloc[p] = None
    /\ \E key \in dropped[p] :
          /\ dropped' = [dropped EXCEPT ![p] = @ \ {key}]
          /\ segs' = Detached(key, p)
          /\ dealloc' = [dealloc EXCEPT ![p] = [call |-> "stat", key |-> key]]
    /\ UNCHANGED nextKey

\* ... IPC_STAT ...
StatFault(p) ==
    /\ dealloc[p].call = "stat"
    /\ dealloc' = [dealloc EXCEPT ![p] =
           IF segs[dealloc[p].key].at = {p} THEN [@ EXCEPT !.call = "rmid"] ELSE None]
    /\ UNCHANGED <<segs, nextKey, dropped>>
Stat(p) ==
    /\ dealloc[p].call = "stat"
    /\ dealloc' = [dealloc EXCEPT ![p] =
           IF segs[dealloc[p].key].at = {} THEN [@ EXCEPT !.call = "rmid"] ELSE None]
    /\ UNCHANGED <<segs, nextKey, dropped>>

\* ... IPC_RMID.  The calls of others on the same segment now fail, without
\* any effect: segment identifiers, unlike keys, are not used again.
Rmid(p) ==
    /\ dealloc[p].call = "rmid"
    /\ segs' = [k \in DOMAIN segs \ {dealloc[p].key} |-> segs[k]]
    /\ dealloc' = [q \in Processes |->
           IF dealloc[q].key = dealloc[p].key THEN None ELSE dealloc[q]]
    /\ UNCHANGED <<nextKey, dropped>>

Deallocate(p) == Shmdt(p) \/ Stat(p) \/ Rmid(p)

\* The system detaches the segments of a process that dies, and removes none.
Death(p) ==
    /\ segs' = [k \in DOMAIN segs |-> [segs[k] EXCEPT !.at = @ \ {p}]]
    /\ dropped' = [dropped EXCEPT ![p] = {}]
    /\ dealloc' = [dealloc EXCEPT ![p] = None]

ShmTypeOK ==
    /\ \A k \in DOMAIN segs : k \in Nat /\ segs[k].at \subseteq Processes
    /\ nextKey \in [Processes -> Nat]
    /\ dropped \in [Processes -> SUBSET Nat]
    /\ dealloc \in [Processes -> [call : {"none", "stat", "rmid"}, key : Nat]]
=============================================================================
