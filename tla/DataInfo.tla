------------------------------ MODULE DataInfo ------------------------------
(***************************************************************************)
(* Version bookkeeping of one datum (file): the classes DataInfo and       *)
(* DataVersion, as functions from a DataInfo record to a DataInfo record.  *)
(*                                                                         *)
(*   current    currentVersionId; currentVersion is dv[current]            *)
(*   versions   the keys of the TreeMap `versions`.  A renaming is in      *)
(*              Comm.data exactly while its version is here: the           *)
(*              constructor of DataVersion registers it, and every call    *)
(*              of Comm.removeData is paired with versions.remove          *)
(*   dv         the DataVersion objects (they outlive `versions`, because  *)
(*              currentVersion and pendingDeletions keep references)       *)
(*   blocks     deletionBlocks                                             *)
(*   pending    pendingDeletions: one set of versions (treated in          *)
(*              ascending order) per delete() call made while blocked      *)
(***************************************************************************)
EXTENDS Integers, Sequences, FiniteSets

CONSTANT MaxVersion   \* bound on the versions of a datum

ASSUME MaxVersionAssumption == MaxVersion \in Nat \ {0}

Version == 1 .. MaxVersion
NoVersion == 0

DataVersionType == [readers : Int, writters : Int, toDelete : BOOLEAN]

DataInfoType == [current : Version, versions : SUBSET Version,
                 dv : [Version -> DataVersionType],
                 blocks : Int, pending : Seq(SUBSET Version)]

NewDataVersion == [readers |-> 0, writters |-> 0, toDelete |-> FALSE]

(* Faulty variants, named ...Fault, stand before some definitions: each is *)
(* a plausible mistake in the code which the properties must reveal.       *)
NewDataInfoFault == [current |-> 0, versions |-> {0},
                     dv |-> [v \in Version |-> NewDataVersion],
                     blocks |-> 0, pending |-> <<>>]

NewDataInfo == [current |-> 1, versions |-> {1},
                dv |-> [v \in Version |-> NewDataVersion],
                blocks |-> 0, pending |-> <<>>]

Idle(i, v) == i.dv[v].readers = 0 /\ i.dv[v].writters = 0

CheckDeletionUnmarkedFault(i, v) == Idle(i, v)

(* The condition of DataVersion.checkDeletion.                             *)
CheckDeletion(i, v) == i.dv[v].toDelete /\ Idle(i, v)

IsToBeRead(i) == i.dv[i.current].readers > 0

IsCurrentVersionToDelete(i) == i.dv[i.current].toDelete

WillBeRead(i) == [i EXCEPT !.dv[i.current].readers = @ + 1]

WillBeWritten(i) ==
    LET w == i.current + 1
    IN  [i EXCEPT !.current = w,
                  !.versions = @ \cup {w},
                  !.dv[w].writters = @ + 1]

VersionHasBeenReadFault(i, v) == [i EXCEPT !.dv[v].readers = @ - 1]

VersionHasBeenRead(i, v) ==
    LET j == [i EXCEPT !.dv[v].readers = @ - 1]
    IN  [j EXCEPT !.versions = IF CheckDeletion(j, v) THEN @ \ {v} ELSE @]


VersionHasBeenWritten(i, v) ==
    LET j == [i EXCEPT !.dv[v].writters = @ - 1]
    IN  [j EXCEPT !.versions = IF CheckDeletion(j, v) THEN @ \ {v} ELSE @]

DeleteVersionsFault(i, D) == [i EXCEPT !.versions = @ \ D]

(* DataVersion.delete() on every version of the set D.                     *)
DeleteVersions(i, D) ==
    [i EXCEPT
       !.dv = [v \in Version |->
                 IF v \in D THEN [i.dv[v] EXCEPT !.toDelete = TRUE] ELSE i.dv[v]],
       !.versions = {v \in @ : ~(v \in D /\ Idle(i, v))}]

BlockDeletions(i) == [i EXCEPT !.blocks = @ + 1]

DeleteFault(i) == DeleteVersions(i, {i.current})

Delete(i) ==
    IF i.blocks > 0
    THEN [i EXCEPT !.pending = Append(@, i.versions)]
    ELSE DeleteVersions(i, i.versions)

(* Comm.removeData dereferences the LogicalData it takes out of the map: a *)
(* pending version whose renaming is already gone is a null dereference    *)
(* that aborts the loop over pendingDeletions (which is never cleared).    *)
(* An entry is named by the delete() call that added it and its version.   *)
PendingEntries(i) == {e \in (1 .. Len(i.pending)) \X Version : e[2] \in i.pending[e[1]]}

BadEntries(i) ==
    {e \in PendingEntries(i) :
        /\ Idle(i, e[2])
        /\ \/ e[2] \notin i.versions
           \/ \E k \in 1 .. e[1] - 1 : e[2] \in i.pending[k]}

NotAfter(e, f) == e[1] < f[1] \/ (e[1] = f[1] /\ e[2] <= f[2])

UnblockThrows(i) == i.blocks = 1 /\ BadEntries(i) # {}

UnblockDeletions(i) ==
    LET j == [i EXCEPT !.blocks = @ - 1]
        treated == {e \in PendingEntries(i) : \A f \in BadEntries(i) : NotAfter(e, f)}
    IN  IF j.blocks = 0 THEN DeleteVersions(j, {e[2] : e \in treated}) ELSE j
=============================================================================
