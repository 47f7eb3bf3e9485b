----------------------- MODULE DataInfoProviderProofs -----------------------
(***************************************************************************)
(* Proofs about DataInfoProvider, for every set of data, applications and  *)
(* accesses and every bound: the registry never removes a version under a  *)
(* pending access, and never lets a moved source be read by anyone else;   *)
(* what was marked for deletion is removed with its last access, what was  *)
(* queued is marked when the last block goes, and no block stays for       *)
(* nobody, up to the exception that unblockDeletions may throw.            *)
(***************************************************************************)
EXTENDS DataInfoProvider, FiniteSetTheorems, TLAPS

(* What every DataInfo record satisfies by itself.                         *)
Shape(i) ==
    /\ i.versions \subseteq 1 .. i.current
    /\ \A v \in Version : v > i.current => ~i.dv[v].toDelete
    /\ \A k \in 1 .. Len(i.pending) : i.pending[k] \subseteq 1 .. i.current
    /\ ~IsCurrentVersionToDelete(i) => i.current \in i.versions

(* No deletion of the current version is done or queued.                   *)
Clean(i) ==
    /\ ~IsCurrentVersionToDelete(i)
    /\ \A k \in 1 .. Len(i.pending) : i.current \notin i.pending[k]

(* The counters of a version are the numbers of its outstanding accesses.  *)
Counted(d) ==
    \A v \in Version : /\ info[d].dv[v].readers = Cardinality(ReadersOf(d, v))
                       /\ info[d].dv[v].writters = Cardinality(WritersOf(d, v))

Within(x, i) ==
    /\ x.r <= i.current /\ x.w <= i.current
    /\ x.r # NoVersion => x.r \in i.versions
    /\ x.w # NoVersion => x.w \in i.versions

Moves(x) == x.r # NoVersion /\ x.w # NoVersion /\ ~x.preserve

(* What an outstanding access x of s may rely on.                          *)
Secure(s, x) ==
    /\ Within(x, info[x.data])
    /\ Moves(x) => x.r < info[x.data].current /\ ReadersOf(x.data, x.r) = {s}

(* The inductive invariant.                                                *)
IInv ==
    /\ TypeOK
    /\ \A d \in Data : Shape(info[d]) /\ Counted(d) /\ (d \notin gone => Clean(info[d]))
    /\ \A s \in Active : Secure(s, acc[s])

-----------------------------------------------------------------------------
(* What a deletion, a block or an unblock may do to a record: the counters *)
(* and the current version stay, and only idle versions go.                *)
DeletionStep(i, j) ==
    /\ j \in DataInfoType
    /\ j.current = i.current
    /\ \A v \in Version : /\ j.dv[v].readers = i.dv[v].readers
                          /\ j.dv[v].writters = i.dv[v].writters
    /\ j.versions \subseteq i.versions
    /\ \A v \in i.versions : v \notin j.versions => Idle(i, v)

(* DataVersion.delete() on any set of existing versions is such a step.    *)
LEMMA DeleteVersionsStep ==
    ASSUME NEW i \in DataInfoType, Shape(i), NEW D \in SUBSET (1 .. i.current)
    PROVE  /\ DeletionStep(i, DeleteVersions(i, D))
           /\ Shape(DeleteVersions(i, D))
           /\ Clean(i) /\ i.current \notin D => Clean(DeleteVersions(i, D))
  <1> DEFINE j == DeleteVersions(i, D)
  <1>1. /\ j.current = i.current /\ j.pending = i.pending /\ j.blocks = i.blocks
        /\ j.dv = [v \in Version |-> IF v \in D THEN [i.dv[v] EXCEPT !.toDelete = TRUE] ELSE i.dv[v]]
        /\ j.versions = {v \in i.versions : ~(v \in D /\ Idle(i, v))}
    BY DEF DeleteVersions, DataInfoType
  <1>2. \A v \in Version : /\ j.dv[v] \in DataVersionType
                           /\ j.dv[v].readers = i.dv[v].readers
                           /\ j.dv[v].writters = i.dv[v].writters
                           /\ j.dv[v].toDelete = (v \in D \/ i.dv[v].toDelete)
    <2> SUFFICES ASSUME NEW v \in Version
                 PROVE  /\ j.dv[v] \in DataVersionType
                        /\ j.dv[v].readers = i.dv[v].readers
                        /\ j.dv[v].writters = i.dv[v].writters
                        /\ j.dv[v].toDelete = (v \in D \/ i.dv[v].toDelete)
      OBVIOUS
    <2>1. i.dv[v] \in DataVersionType
      BY DEF DataInfoType
    <2>2. j.dv[v] = IF v \in D THEN [i.dv[v] EXCEPT !.toDelete = TRUE] ELSE i.dv[v]
      BY <1>1
    <2>3. CASE v \in D
      BY <2>1, <2>2, <2>3 DEF DataVersionType
    <2>4. CASE v \notin D
      BY <2>1, <2>2, <2>4, Zenon DEF DataVersionType
    <2> QED  BY <2>3, <2>4
  <1>3. j \in DataInfoType
    <2> DEFINE dv == [v \in Version |-> IF v \in D THEN [i.dv[v] EXCEPT !.toDelete = TRUE] ELSE i.dv[v]]
               vs == {v \in i.versions : ~(v \in D /\ Idle(i, v))}
    <2>1. dv \in [Version -> DataVersionType] /\ vs \in SUBSET Version
      BY <1>1, <1>2 DEF DataInfoType
    <2>2. j = [i EXCEPT !.dv = dv, !.versions = vs]
      BY DEF DeleteVersions, DataInfoType
    <2> HIDE DEF dv, vs, j
    <2> QED  BY <2>1, <2>2 DEF DataInfoType
  <1>4. DeletionStep(i, j)
    BY <1>1, <1>2, <1>3 DEF DeletionStep, DataInfoType
  <1>5. Shape(j)
    BY <1>1, <1>2, MaxVersionAssumption
       DEF Shape, IsCurrentVersionToDelete, DataInfoType, Version
  <1>6. Clean(i) /\ i.current \notin D => Clean(j)
    BY <1>1, <1>2 DEF Clean, IsCurrentVersionToDelete, DataInfoType
  <1> QED  BY <1>4, <1>5, <1>6

(* So is a deletion, at once or put in the queue of a blocked datum. *)
LEMMA DeleteStep ==
    ASSUME NEW i \in DataInfoType, Shape(i)
    PROVE  DeletionStep(i, Delete(i)) /\ Shape(Delete(i))
  <1>1. CASE i.blocks > 0
    <2> DEFINE j == Delete(i)
    <2>1. j = [i EXCEPT !.pending = Append(@, i.versions)]
      BY <1>1 DEF Delete
    <2>2. /\ j.current = i.current /\ j.versions = i.versions /\ j.dv = i.dv
          /\ j.pending = Append(i.pending, i.versions)
      BY <2>1 DEF DataInfoType
    <2>3. j \in DataInfoType
      BY <2>1, SMTT(20) DEF DataInfoType
    <2>4. \A k \in 1 .. Len(j.pending) :
             j.pending[k] = IF k <= Len(i.pending) THEN i.pending[k] ELSE i.versions
      BY <2>2 DEF DataInfoType
    <2> QED  BY <2>2, <2>3, <2>4, SMTT(20) DEF DeletionStep, Shape, IsCurrentVersionToDelete, DataInfoType
  <1>2. CASE ~(i.blocks > 0)
    BY <1>2, DeleteVersionsStep DEF Delete, Shape
  <1> QED  BY <1>1, <1>2

(* A block changes nothing but the count of blocks. *)
LEMMA BlockStep ==
    ASSUME NEW i \in DataInfoType, Shape(i)
    PROVE  /\ DeletionStep(i, BlockDeletions(i)) /\ Shape(BlockDeletions(i))
           /\ Clean(i) => Clean(BlockDeletions(i))
  BY DEF BlockDeletions, DeletionStep, Shape, Clean, IsCurrentVersionToDelete, DataInfoType

(* An unblock carries out queued deletions, of older versions only. *)
LEMMA UnblockStep ==
    ASSUME NEW i \in DataInfoType, Shape(i)
    PROVE  /\ DeletionStep(i, UnblockDeletions(i)) /\ Shape(UnblockDeletions(i))
           /\ Clean(i) => Clean(UnblockDeletions(i))
  <1> DEFINE j == [i EXCEPT !.blocks = @ - 1]
             T == {e \in PendingEntries(i) : \A f \in BadEntries(i) : NotAfter(e, f)}
             D == {e[2] : e \in T}
  <1>1. /\ j \in DataInfoType /\ j.current = i.current /\ j.versions = i.versions
        /\ j.dv = i.dv /\ j.pending = i.pending
    BY DEF DataInfoType
  <1>2. Shape(j) /\ (Clean(i) => Clean(j))
    BY <1>1 DEF Shape, Clean, IsCurrentVersionToDelete
  <1>3. D \subseteq 1 .. i.current
    BY DEF PendingEntries, Shape
  <1>4. Clean(i) => i.current \notin D
    BY DEF PendingEntries, Clean
  <1>5. CASE j.blocks = 0
    <2>1. UnblockDeletions(i) = DeleteVersions(j, D)
      BY <1>5 DEF UnblockDeletions
    <2>2. /\ DeletionStep(j, DeleteVersions(j, D)) /\ Shape(DeleteVersions(j, D))
          /\ Clean(j) /\ j.current \notin D => Clean(DeleteVersions(j, D))
      <3> HIDE DEF j, D
      <3> QED  BY <1>1, <1>2, <1>3, DeleteVersionsStep
    <2> QED  BY <1>1, <1>2, <1>4, <2>1, <2>2 DEF DeletionStep, Idle
  <1>6. CASE j.blocks # 0
    BY <1>1, <1>2, <1>6 DEF UnblockDeletions, DeletionStep
  <1> QED  BY <1>5, <1>6

(* What a step may do that neither deletes nor queues a current version    *)
(* which is to be kept.                                                    *)
KeepingStep(i, j) ==
    DeletionStep(i, j) /\ Shape(j) /\ (Clean(i) => Clean(j))

(* Changes that keep a record follow each other: a result file is blocked, then unblocked. *)
LEMMA KeepingStepTransitive ==
    ASSUME NEW i, NEW j, NEW k, KeepingStep(i, j), KeepingStep(j, k)
    PROVE  KeepingStep(i, k)
  <1>1. DeletionStep(i, k)
    <2>1. k \in DataInfoType /\ j \in DataInfoType
      BY DEF KeepingStep, DeletionStep
    <2>2. \A v \in j.versions : v \in Version
      BY <2>1 DEF DataInfoType
    <2>3. \A v \in Version : Idle(j, v) => Idle(i, v)
      BY DEF KeepingStep, DeletionStep, Idle
    <2> QED  BY <2>1, <2>2, <2>3 DEF KeepingStep, DeletionStep
  <1> QED  BY <1>1 DEF KeepingStep

(* What the retrieval of result files does to a record keeps its current version. *)
LEMMA ResultFileSteps ==
    ASSUME NEW i \in DataInfoType, Shape(i)
    PROVE  /\ KeepingStep(i, BlockDataAndGetResultFile(i))
           /\ KeepingStep(i, UnblockDeletions(i))
           /\ KeepingStep(i, CheckResultFileTransfer(i))
  <1>1. KeepingStep(i, BlockDataAndGetResultFile(i))
    BY BlockStep, DeleteStep DEF BlockDataAndGetResultFile, KeepingStep, Clean
  <1>2. KeepingStep(i, UnblockDeletions(i))
    BY UnblockStep DEF KeepingStep
  <1>3. KeepingStep(i, CheckResultFileTransfer(i))
    <2> DEFINE j == BlockDataAndGetResultFile(i)
    <2>1. j \in DataInfoType /\ Shape(j)
      BY <1>1 DEF KeepingStep, DeletionStep
    <2>2. KeepingStep(j, UnblockDeletions(j))
      BY <2>1, UnblockStep DEF KeepingStep
    <2> QED  BY <1>1, <2>2, KeepingStepTransitive DEF CheckResultFileTransfer
  <1> QED  BY <1>1, <1>2, <1>3

-----------------------------------------------------------------------------
(* Registering an access: what it does to the record of its datum.         *)
LEMMA WillBeReadStep ==
    ASSUME NEW i \in DataInfoType
    PROVE  LET j == WillBeRead(i)
           IN  /\ j \in DataInfoType
               /\ j.current = i.current /\ j.versions = i.versions /\ j.pending = i.pending
               /\ \A v \in Version :
                     /\ j.dv[v].readers = i.dv[v].readers + (IF v = i.current THEN 1 ELSE 0)
                     /\ j.dv[v].writters = i.dv[v].writters
                     /\ j.dv[v].toDelete = i.dv[v].toDelete
  <1> DEFINE c == i.current
             x == [i.dv[c] EXCEPT !.readers = @ + 1]
             j == WillBeRead(i)
  <1>1. c \in Version /\ i.dv \in [Version -> DataVersionType]
    BY DEF DataInfoType
  <1>2. /\ x \in DataVersionType /\ x.readers = i.dv[c].readers + 1
        /\ x.writters = i.dv[c].writters /\ x.toDelete = i.dv[c].toDelete
    BY <1>1 DEF DataVersionType
  <1>3. j = [i EXCEPT !.dv = [i.dv EXCEPT ![c] = x]]
    BY DEF WillBeRead
  <1>4. [i.dv EXCEPT ![c] = x] \in [Version -> DataVersionType]
    BY <1>1, <1>2
  <1>5. /\ j \in DataInfoType /\ j.current = c /\ j.versions = i.versions
        /\ j.pending = i.pending /\ j.dv = [i.dv EXCEPT ![c] = x]
    <2> HIDE DEF x, j
    <2> QED  BY <1>3, <1>4 DEF DataInfoType
  <1>6. \A v \in Version : i.dv[v].readers \in Int
    BY <1>1 DEF DataVersionType
  <1> HIDE DEF x, j
  <1> QED  BY <1>1, <1>2, <1>5, <1>6 DEF j

(* A write adds the next version, with one writer. *)
LEMMA WillBeWrittenStep ==
    ASSUME NEW i \in DataInfoType, i.current < MaxVersion
    PROVE  LET j == WillBeWritten(i)
           IN  /\ j \in DataInfoType
               /\ j.current = i.current + 1 /\ j.pending = i.pending
               /\ j.versions = i.versions \cup {i.current + 1}
               /\ \A v \in Version :
                     /\ j.dv[v].readers = i.dv[v].readers
                     /\ j.dv[v].writters = i.dv[v].writters
                                            + (IF v = i.current + 1 THEN 1 ELSE 0)
                     /\ j.dv[v].toDelete = i.dv[v].toDelete
  <1> DEFINE w == i.current + 1
             x == [i.dv[w] EXCEPT !.writters = @ + 1]
             j == WillBeWritten(i)
  <1>1. w \in Version /\ i.dv \in [Version -> DataVersionType]
    BY MaxVersionAssumption DEF Version, DataInfoType
  <1>2. /\ x \in DataVersionType /\ x.writters = i.dv[w].writters + 1
        /\ x.readers = i.dv[w].readers /\ x.toDelete = i.dv[w].toDelete
    BY <1>1 DEF DataVersionType
  <1>3. j = [i EXCEPT !.current = w, !.versions = i.versions \cup {w},
                      !.dv = [i.dv EXCEPT ![w] = x]]
    BY DEF WillBeWritten
  <1>4. /\ [i.dv EXCEPT ![w] = x] \in [Version -> DataVersionType]
        /\ i.versions \cup {w} \in SUBSET Version
    BY <1>1, <1>2 DEF DataInfoType
  <1>5. /\ j \in DataInfoType /\ j.current = w /\ j.versions = i.versions \cup {w}
        /\ j.pending = i.pending /\ j.dv = [i.dv EXCEPT ![w] = x]
    <2> HIDE DEF x, j, w
    <2> QED  BY <1>1, <1>3, <1>4 DEF DataInfoType
  <1>6. \A v \in Version : i.dv[v].writters \in Int
    BY <1>1 DEF DataVersionType
  <1> HIDE DEF x, j
  <1> QED  BY <1>1, <1>2, <1>5, <1>6 DEF j

(* An access in any mode adds its reader and its version. *)
LEMMA WillAccessStep ==
    ASSUME NEW i \in DataInfoType, NEW m \in Modes, m # "R" => i.current < MaxVersion
    PROVE  LET j == WillAccess(i, m)
               id == AccessId(i, m)
           IN  /\ j \in DataInfoType
               /\ j.current = (IF m = "R" THEN i.current ELSE i.current + 1)
               /\ j.pending = i.pending
               /\ j.versions = i.versions \cup (IF m = "R" THEN {} ELSE {i.current + 1})
               /\ id.r \in Version \cup {NoVersion} /\ id.w \in Version \cup {NoVersion}
               /\ id.preserve \in BOOLEAN
               /\ \A v \in Version :
                     /\ j.dv[v].readers = i.dv[v].readers + (IF v = id.r THEN 1 ELSE 0)
                     /\ j.dv[v].writters = i.dv[v].writters + (IF v = id.w THEN 1 ELSE 0)
                     /\ j.dv[v].toDelete = i.dv[v].toDelete
  <1>1. i.current \in Version /\ (m # "R" => i.current + 1 \in Version)
    BY MaxVersionAssumption DEF Version, DataInfoType
  <1>2. NoVersion \notin Version
    BY DEF NoVersion, Version
  <1>3. IsToBeRead(i) \in BOOLEAN
    BY DEF IsToBeRead
  <1>4. \A v \in Version : i.dv[v].readers \in Int /\ i.dv[v].writters \in Int
    BY DEF DataInfoType, DataVersionType
  <1>5. CASE m = "R"
    BY <1>1, <1>2, <1>4, <1>5, WillBeReadStep DEF WillAccess, AccessId
  <1>6. CASE m = "W"
    BY <1>1, <1>2, <1>4, <1>6, WillBeWrittenStep DEF WillAccess, AccessId
  <1>7. CASE m = "RW"
    <2> DEFINE j == WillBeRead(i)
    <2>1. j \in DataInfoType /\ j.current = i.current
      BY WillBeReadStep
    <2>2. WillAccess(i, m) = WillBeWritten(j)
      BY <1>7 DEF WillAccess
    <2> QED  BY <1>1, <1>2, <1>3, <1>4, <1>7, <2>1, <2>2, WillBeReadStep, WillBeWrittenStep DEF AccessId
  <1> QED  BY <1>5, <1>6, <1>7 DEF Modes

(* ... and to the numbers of readers and writers.                          *)
LEMMA FiniteAccesses ==
    ASSUME NEW d, NEW v
    PROVE  /\ IsFiniteSet(ReadersOf(d, v)) /\ Cardinality(ReadersOf(d, v)) \in Nat
           /\ IsFiniteSet(WritersOf(d, v)) /\ Cardinality(WritersOf(d, v)) \in Nat
  <1>1. ReadersOf(d, v) \subseteq Accesses /\ WritersOf(d, v) \subseteq Accesses
    BY DEF ReadersOf, WritersOf, Active
  <1> QED  BY <1>1, AccessesAssumption, FS_Subset, FS_CardinalityType

(* A new access is one more among those that use its versions. *)
LEMMA NewAccessCounts ==
    ASSUME acc \in [Accesses -> AccessType \cup {NoAccess}],
           NEW s \in Accesses, NEW x \in AccessType, acc[s] = NoAccess,
           acc' = [acc EXCEPT ![s] = x]
    PROVE  \A d \in Data, v \in Version :
             /\ ReadersOf(d, v)' = ReadersOf(d, v) \cup (IF x.data = d /\ x.r = v THEN {s} ELSE {})
             /\ Cardinality(ReadersOf(d, v)') = Cardinality(ReadersOf(d, v))
                                                + (IF x.data = d /\ x.r = v THEN 1 ELSE 0)
             /\ Cardinality(WritersOf(d, v)') = Cardinality(WritersOf(d, v))
                                                + (IF x.data = d /\ x.w = v THEN 1 ELSE 0)
             /\ ~(x.data = d /\ x.r = v) => ReadersOf(d, v)' = ReadersOf(d, v)
  <1> TAKE d \in Data, v \in Version
  <1>1. x # NoAccess
    BY DEF AccessType, NoAccess
  <1>2. Active' = Active \cup {s} /\ s \notin Active
    BY <1>1 DEF Active
  <1>3. ReadersOf(d, v)' = ReadersOf(d, v) \cup (IF x.data = d /\ x.r = v THEN {s} ELSE {})
    BY <1>2 DEF ReadersOf, Active
  <1>4. WritersOf(d, v)' = WritersOf(d, v) \cup (IF x.data = d /\ x.w = v THEN {s} ELSE {})
    BY <1>2 DEF WritersOf, Active
  <1>5. s \notin ReadersOf(d, v) /\ s \notin WritersOf(d, v)
    BY <1>2 DEF ReadersOf, WritersOf
  <1>6. ReadersOf(d, v) \cup {} = ReadersOf(d, v) /\ WritersOf(d, v) \cup {} = WritersOf(d, v)
    OBVIOUS
  <1> HIDE DEF ReadersOf, WritersOf
  <1>7. /\ Cardinality(ReadersOf(d, v) \cup {s}) = Cardinality(ReadersOf(d, v)) + 1
        /\ Cardinality(WritersOf(d, v) \cup {s}) = Cardinality(WritersOf(d, v)) + 1
    BY <1>5, FiniteAccesses, FS_AddElement
  <1>8. Cardinality(ReadersOf(d, v)') = Cardinality(ReadersOf(d, v))
                                       + (IF x.data = d /\ x.r = v THEN 1 ELSE 0)
    <2>1. CASE x.data = d /\ x.r = v
      <3>1. ReadersOf(d, v)' = ReadersOf(d, v) \cup {s}
        BY <1>3, <2>1
      <3> QED  BY <1>7, <2>1, <3>1
    <2>2. CASE ~(x.data = d /\ x.r = v)
      <3>1. ReadersOf(d, v)' = ReadersOf(d, v)
        BY <1>3, <1>6, <2>2
      <3> QED  BY <2>2, <3>1, FiniteAccesses
    <2> QED  BY <2>1, <2>2
  <1>9. Cardinality(WritersOf(d, v)') = Cardinality(WritersOf(d, v))
                                       + (IF x.data = d /\ x.w = v THEN 1 ELSE 0)
    <2>1. CASE x.data = d /\ x.w = v
      <3>1. WritersOf(d, v)' = WritersOf(d, v) \cup {s}
        BY <1>4, <2>1
      <3> QED  BY <1>7, <2>1, <3>1
    <2>2. CASE ~(x.data = d /\ x.w = v)
      <3>1. WritersOf(d, v)' = WritersOf(d, v)
        BY <1>4, <1>6, <2>2
      <3> QED  BY <2>2, <3>1, FiniteAccesses
    <2> QED  BY <2>1, <2>2
  <1> QED  BY <1>3, <1>6, <1>8, <1>9

(* An access that ended is one less among them. *)
LEMMA EndedAccessCounts ==
    ASSUME acc \in [Accesses -> AccessType \cup {NoAccess}],
           NEW s \in Accesses, NEW x \in AccessType, acc[s] = x,
           acc' = [acc EXCEPT ![s] = NoAccess]
    PROVE  \A d \in Data, v \in Version :
             /\ ReadersOf(d, v)' = ReadersOf(d, v) \ {s}
             /\ Cardinality(ReadersOf(d, v)') = Cardinality(ReadersOf(d, v))
                                     - (IF x.data = d /\ x.r = v THEN 1 ELSE 0)
             /\ Cardinality(WritersOf(d, v)') = Cardinality(WritersOf(d, v))
                                     - (IF x.data = d /\ x.w = v THEN 1 ELSE 0)
  <1> TAKE d \in Data, v \in Version
  <1>1. Active' = Active \ {s} /\ s \in Active
    BY DEF Active, AccessType, NoAccess
  <1>2. /\ ReadersOf(d, v)' = ReadersOf(d, v) \ {s}
        /\ WritersOf(d, v)' = WritersOf(d, v) \ {s}
    BY <1>1 DEF ReadersOf, WritersOf, Active
  <1>3. /\ s \in ReadersOf(d, v) <=> x.data = d /\ x.r = v
        /\ s \in WritersOf(d, v) <=> x.data = d /\ x.w = v
    BY <1>1 DEF ReadersOf, WritersOf
  <1>4. /\ s \in ReadersOf(d, v) =>
              Cardinality(ReadersOf(d, v) \ {s}) = Cardinality(ReadersOf(d, v)) - 1
        /\ s \in WritersOf(d, v) =>
              Cardinality(WritersOf(d, v) \ {s}) = Cardinality(WritersOf(d, v)) - 1
    BY FiniteAccesses, FS_RemoveElement
  <1>5. /\ s \notin ReadersOf(d, v) => ReadersOf(d, v) \ {s} = ReadersOf(d, v)
        /\ s \notin WritersOf(d, v) => WritersOf(d, v) \ {s} = WritersOf(d, v)
    OBVIOUS
  <1> HIDE DEF ReadersOf, WritersOf
  <1>6. Cardinality(ReadersOf(d, v)') = Cardinality(ReadersOf(d, v))
                            - (IF x.data = d /\ x.r = v THEN 1 ELSE 0)
    <2>1. CASE x.data = d /\ x.r = v
      BY <1>2, <1>3, <1>4, <2>1
    <2>2. CASE ~(x.data = d /\ x.r = v)
      <3>1. ReadersOf(d, v)' = ReadersOf(d, v)
        BY <1>2, <1>3, <1>5, <2>2
      <3> QED  BY <2>2, <3>1, FiniteAccesses
    <2> QED  BY <2>1, <2>2
  <1>7. Cardinality(WritersOf(d, v)') = Cardinality(WritersOf(d, v))
                            - (IF x.data = d /\ x.w = v THEN 1 ELSE 0)
    <2>1. CASE x.data = d /\ x.w = v
      BY <1>2, <1>3, <1>4, <2>1
    <2>2. CASE ~(x.data = d /\ x.w = v)
      <3>1. WritersOf(d, v)' = WritersOf(d, v)
        BY <1>2, <1>3, <1>5, <2>2
      <3> QED  BY <2>2, <3>1, FiniteAccesses
    <2> QED  BY <2>1, <2>2
  <1> QED  BY <1>2, <1>6, <1>7

-----------------------------------------------------------------------------
(* The end of an access: the counters of the versions r and w go down, and *)
(* of the versions marked for deletion those left with no user may go.     *)
Countdown(i, j, r, w) ==
    /\ j \in DataInfoType
    /\ j.current = i.current /\ j.pending = i.pending
    /\ j.versions \subseteq i.versions
    /\ \A v \in Version :
          /\ j.dv[v].readers = i.dv[v].readers - (IF v = r THEN 1 ELSE 0)
          /\ j.dv[v].writters = i.dv[v].writters - (IF v = w THEN 1 ELSE 0)
          /\ j.dv[v].toDelete = i.dv[v].toDelete
    /\ \A v \in i.versions : v \notin j.versions =>
          j.dv[v].readers <= 0 /\ j.dv[v].writters <= 0 /\ j.dv[v].toDelete

(* The end of an access keeps the shape of a record. *)
LEMMA CountdownShape ==
    ASSUME NEW i \in DataInfoType, Shape(i), NEW j, NEW r, NEW w, Countdown(i, j, r, w)
    PROVE  Shape(j) /\ (Clean(i) => Clean(j))
  <1>1. i.current \in Version /\ i.versions \subseteq Version
    BY DEF DataInfoType
  <1> QED  BY <1>1 DEF Shape, Clean, Countdown, IsCurrentVersionToDelete

(* The end of a read takes one reader off and removes only an idle version. *)
LEMMA VersionHasBeenReadStep ==
    ASSUME NEW i \in DataInfoType, Shape(i), NEW u \in Version
    PROVE  Countdown(i, VersionHasBeenRead(i, u), u, NoVersion)
  <1> DEFINE x == [i.dv[u] EXCEPT !.readers = @ - 1]
             j == [i EXCEPT !.dv[u].readers = @ - 1]
             k == VersionHasBeenRead(i, u)
  <1>1. u \in Version /\ i.dv \in [Version -> DataVersionType] /\ u # NoVersion
    BY DEF DataInfoType, Version, NoVersion
  <1>2. /\ x \in DataVersionType /\ x.readers = i.dv[u].readers - 1
        /\ x.writters = i.dv[u].writters /\ x.toDelete = i.dv[u].toDelete
    BY <1>1 DEF DataVersionType
  <1>3. j = [i EXCEPT !.dv = [i.dv EXCEPT ![u] = x]]
    OBVIOUS
  <1>4. [i.dv EXCEPT ![u] = x] \in [Version -> DataVersionType]
    BY <1>1, <1>2
  <1>5. /\ j \in DataInfoType /\ j.current = i.current /\ j.versions = i.versions
        /\ j.pending = i.pending /\ j.dv = [i.dv EXCEPT ![u] = x]
    <2> HIDE DEF x, j
    <2> QED  BY <1>3, <1>4 DEF DataInfoType
  <1>6. \A v \in Version :
           /\ j.dv[v].readers = i.dv[v].readers - (IF v = u THEN 1 ELSE 0)
           /\ j.dv[v].writters = i.dv[v].writters - 0
           /\ j.dv[v].toDelete = i.dv[v].toDelete
    <2>1. \A v \in Version : i.dv[v].readers \in Int /\ i.dv[v].writters \in Int
      BY <1>1 DEF DataVersionType
    <2> HIDE DEF x, j
    <2> QED  BY <1>1, <1>2, <1>5, <2>1
  <1>7. k = [j EXCEPT !.versions = IF CheckDeletion(j, u) THEN @ \ {u} ELSE @]
    BY DEF VersionHasBeenRead
  <1>8. /\ k \in DataInfoType /\ k.current = i.current /\ k.pending = i.pending
        /\ k.dv = j.dv
        /\ k.versions = IF CheckDeletion(j, u) THEN i.versions \ {u} ELSE i.versions
    <2> HIDE DEF j, k
    <2> QED  BY <1>5, <1>7 DEF DataInfoType
  <1>9. \A v \in Version :
           /\ k.dv[v].readers = i.dv[v].readers - (IF v = u THEN 1 ELSE 0)
           /\ k.dv[v].writters = i.dv[v].writters - 0
           /\ k.dv[v].toDelete = i.dv[v].toDelete
    <2> HIDE DEF j, k
    <2> QED  BY <1>6, <1>8
  <1>10. \A v \in i.versions : v \notin k.versions =>
            k.dv[v].readers = 0 /\ k.dv[v].writters = 0 /\ k.dv[v].toDelete
    <2> HIDE DEF j, k
    <2> QED  BY <1>5, <1>8 DEF CheckDeletion, Idle
  <1>11. Countdown(i, k, u, NoVersion)
    <2>1. \A v \in Version : i.dv[v].readers \in Int /\ i.dv[v].writters \in Int
      BY <1>1 DEF DataVersionType
    <2>2. k.versions \subseteq i.versions /\ i.versions \subseteq Version /\ NoVersion \notin Version
      <3> HIDE DEF j, k
      <3> QED  BY <1>8 DEF DataInfoType, Version, NoVersion
    <2> HIDE DEF j, k
    <2> QED  BY <1>1, <1>8, <1>9, <1>10, <2>1, <2>2 DEF Countdown
  <1> QED  BY <1>11

(* The end of a write does the same with a writer. *)
LEMMA VersionHasBeenWrittenStep ==
    ASSUME NEW i \in DataInfoType, Shape(i), NEW u \in Version
    PROVE  Countdown(i, VersionHasBeenWritten(i, u), NoVersion, u)
  <1> DEFINE x == [i.dv[u] EXCEPT !.writters = @ - 1]
             j == [i EXCEPT !.dv[u].writters = @ - 1]
             k == VersionHasBeenWritten(i, u)
  <1>1. u \in Version /\ i.dv \in [Version -> DataVersionType] /\ u # NoVersion
    BY DEF DataInfoType, Version, NoVersion
  <1>2. /\ x \in DataVersionType /\ x.writters = i.dv[u].writters - 1
        /\ x.readers = i.dv[u].readers /\ x.toDelete = i.dv[u].toDelete
    BY <1>1 DEF DataVersionType
  <1>3. j = [i EXCEPT !.dv = [i.dv EXCEPT ![u] = x]]
    OBVIOUS
  <1>4. [i.dv EXCEPT ![u] = x] \in [Version -> DataVersionType]
    BY <1>1, <1>2
  <1>5. /\ j \in DataInfoType /\ j.current = i.current /\ j.versions = i.versions
        /\ j.pending = i.pending /\ j.dv = [i.dv EXCEPT ![u] = x]
    <2> HIDE DEF x, j
    <2> QED  BY <1>3, <1>4 DEF DataInfoType
  <1>6. \A v \in Version :
           /\ j.dv[v].readers = i.dv[v].readers - 0
           /\ j.dv[v].writters = i.dv[v].writters - (IF v = u THEN 1 ELSE 0)
           /\ j.dv[v].toDelete = i.dv[v].toDelete
    <2>1. \A v \in Version : i.dv[v].readers \in Int /\ i.dv[v].writters \in Int
      BY <1>1 DEF DataVersionType
    <2> HIDE DEF x, j
    <2> QED  BY <1>1, <1>2, <1>5, <2>1
  <1>7. k = [j EXCEPT !.versions = IF CheckDeletion(j, u) THEN @ \ {u} ELSE @]
    BY DEF VersionHasBeenWritten
  <1>8. /\ k \in DataInfoType /\ k.current = i.current /\ k.pending = i.pending
        /\ k.dv = j.dv
        /\ k.versions = IF CheckDeletion(j, u) THEN i.versions \ {u} ELSE i.versions
    <2> HIDE DEF j, k
    <2> QED  BY <1>5, <1>7 DEF DataInfoType
  <1>9. \A v \in Version :
           /\ k.dv[v].readers = i.dv[v].readers - 0
           /\ k.dv[v].writters = i.dv[v].writters - (IF v = u THEN 1 ELSE 0)
           /\ k.dv[v].toDelete = i.dv[v].toDelete
    <2> HIDE DEF j, k
    <2> QED  BY <1>6, <1>8
  <1>10. \A v \in i.versions : v \notin k.versions =>
            k.dv[v].readers = 0 /\ k.dv[v].writters = 0 /\ k.dv[v].toDelete
    <2> HIDE DEF j, k
    <2> QED  BY <1>5, <1>8 DEF CheckDeletion, Idle
  <1>11. Countdown(i, k, NoVersion, u)
    <2>1. \A v \in Version : i.dv[v].readers \in Int /\ i.dv[v].writters \in Int
      BY <1>1 DEF DataVersionType
    <2>2. k.versions \subseteq i.versions /\ i.versions \subseteq Version /\ NoVersion \notin Version
      <3> HIDE DEF j, k
      <3> QED  BY <1>8 DEF DataInfoType, Version, NoVersion
    <2> HIDE DEF j, k
    <2> QED  BY <1>1, <1>8, <1>9, <1>10, <2>1, <2>2 DEF Countdown
  <1> QED  BY <1>11

(* The end of an access does both, one after the other. *)
LEMMA AccessDoneStep ==
    ASSUME NEW i \in DataInfoType, Shape(i), NEW x \in AccessType
    PROVE  Countdown(i, AccessDone(i, x), x.r, x.w)
  <1> DEFINE j == IF x.r = NoVersion THEN i ELSE VersionHasBeenRead(i, x.r)
             k == AccessDone(i, x)
  <1>1. /\ x.r \in Version \cup {NoVersion} /\ x.w \in Version \cup {NoVersion}
        /\ NoVersion \notin Version /\ i.versions \subseteq Version
    BY DEF AccessType, Version, NoVersion, DataInfoType
  <1>2. \A v \in Version : i.dv[v].readers \in Int /\ i.dv[v].writters \in Int
    BY DEF DataInfoType, DataVersionType
  <1>3. Countdown(i, j, x.r, NoVersion)
    <2>1. CASE x.r = NoVersion
      BY <1>1, <1>2, <2>1 DEF Countdown
    <2>2. CASE x.r # NoVersion
      BY <1>1, <2>2, VersionHasBeenReadStep
    <2> QED  BY <2>1, <2>2
  <1>4. j \in DataInfoType /\ Shape(j)
    <2> HIDE DEF j
    <2>1. j \in DataInfoType
      BY <1>3 DEF Countdown
    <2>2. Shape(j)
      BY <1>3, CountdownShape
    <2> QED  BY <2>1, <2>2
  <1>5. Countdown(j, k, NoVersion, x.w)
    <2>1. CASE x.w = NoVersion
      <3>1. k = j
        BY <2>1 DEF AccessDone
      <3>2. \A v \in Version : j.dv[v].readers \in Int /\ j.dv[v].writters \in Int
        BY <1>4 DEF DataInfoType, DataVersionType
      <3> HIDE DEF j, k
      <3> QED  BY <1>1, <1>4, <2>1, <3>1, <3>2 DEF Countdown
    <2>2. CASE x.w # NoVersion
      <3>1. k = VersionHasBeenWritten(j, x.w)
        BY <2>2 DEF AccessDone
      <3> HIDE DEF j, k
      <3> QED  BY <1>1, <1>4, <2>2, <3>1, VersionHasBeenWrittenStep
    <2> QED  BY <2>1, <2>2
  <1> HIDE DEF j, k
  <1>6. /\ k \in DataInfoType /\ k.current = i.current /\ k.pending = i.pending
        /\ k.versions \subseteq i.versions
    BY <1>3, <1>5 DEF Countdown
  <1>7. \A v \in Version :
          /\ k.dv[v].readers = i.dv[v].readers - (IF v = x.r THEN 1 ELSE 0)
          /\ k.dv[v].writters = i.dv[v].writters - (IF v = x.w THEN 1 ELSE 0)
          /\ k.dv[v].toDelete = i.dv[v].toDelete
    BY <1>1, <1>2, <1>3, <1>5 DEF Countdown
  <1>8. \A v \in i.versions : v \notin k.versions =>
          k.dv[v].readers <= 0 /\ k.dv[v].writters <= 0 /\ k.dv[v].toDelete
    <2> SUFFICES ASSUME NEW v \in i.versions, v \notin k.versions
                 PROVE  k.dv[v].readers <= 0 /\ k.dv[v].writters <= 0 /\ k.dv[v].toDelete
      OBVIOUS
    <2>1. v \in Version
      BY <1>1
    <2>2. CASE v \in j.versions
      BY <1>5, <2>2 DEF Countdown
    <2>3. CASE v \notin j.versions
      <3>1. j.dv[v].readers <= 0 /\ j.dv[v].writters <= 0 /\ j.dv[v].toDelete
        BY <1>3, <2>3 DEF Countdown
      <3>2. j.dv[v].readers \in Int /\ j.dv[v].writters \in Int
        BY <1>4, <2>1 DEF DataInfoType, DataVersionType
      <3>3. /\ k.dv[v].readers = j.dv[v].readers - 0
            /\ k.dv[v].writters = j.dv[v].writters - (IF v = x.w THEN 1 ELSE 0)
            /\ k.dv[v].toDelete = j.dv[v].toDelete
        BY <1>1, <1>5, <2>1 DEF Countdown
      <3> QED  BY <3>1, <3>2, <3>3
    <2> QED  BY <2>2, <2>3
  <1> QED  BY <1>6, <1>7, <1>8 DEF Countdown, k

-----------------------------------------------------------------------------
(* Preservation of the invariant.                                          *)
LEMMA NobodyLeft ==
    ASSUME NEW S \in SUBSET Accesses, Cardinality(S) <= 0
    PROVE  S = {}
  <1>1. IsFiniteSet(S)
    BY AccessesAssumption, FS_Subset
  <1>2. Cardinality(S) \in Nat
    BY <1>1, FS_CardinalityType
  <1>3. Cardinality(S) = 0
    BY <1>2
  <1> QED  BY <1>1, <1>3, FS_EmptySet

(* The actions that register and end no access.                            *)
LEMMA SameAccesses ==
    ASSUME IInv, TypeOK', acc' = acc, gone \subseteq gone',
           \A d \in Data : \/ KeepingStep(info[d], info'[d])
                           \/ DeletionStep(info[d], info'[d]) /\ Shape(info'[d]) /\ d \in gone'
    PROVE  IInv'
  <1>1. /\ Active' = Active
        /\ \A d, v : ReadersOf(d, v)' = ReadersOf(d, v) /\ WritersOf(d, v)' = WritersOf(d, v)
    BY DEF Active, ReadersOf, WritersOf
  <1>2. \A d \in Data : DeletionStep(info[d], info'[d]) /\ Shape(info'[d])
    BY DEF KeepingStep
  <1>3. \A d \in Data : Counted(d)'
    <2> SUFFICES ASSUME NEW d \in Data, NEW v \in Version
                 PROVE  /\ info'[d].dv[v].readers = Cardinality(ReadersOf(d, v)')
                        /\ info'[d].dv[v].writters = Cardinality(WritersOf(d, v)')
      BY DEF Counted
    <2> QED  BY <1>1, <1>2 DEF IInv, Counted, DeletionStep
  <1>4. \A d \in Data : d \notin gone' => Clean(info'[d])
    BY DEF IInv, KeepingStep
  <1>5. ASSUME NEW s \in Active
        PROVE  Secure(s, acc[s])'
    <2> DEFINE x == acc[s]
               i == info[x.data]
               j == info'[x.data]
    <2>1. x \in AccessType
      BY DEF IInv, TypeOK, Active
    <2>2. x.data \in Data
      BY <2>1 DEF AccessType
    <2>3. Within(x, i) /\ DeletionStep(i, j) /\ Counted(x.data)
      BY <1>2, <2>2 DEF IInv, Secure
    <2>4. \A v \in Version : x.r = v => ~Idle(i, v)
      <3> SUFFICES ASSUME NEW v \in Version, x.r = v, Idle(i, v)
                   PROVE  FALSE
        OBVIOUS
      <3>1. Cardinality(ReadersOf(x.data, v)) = 0
        BY <2>3 DEF Counted, Idle
      <3>2. ReadersOf(x.data, v) \in SUBSET Accesses /\ s \in ReadersOf(x.data, v)
        BY DEF ReadersOf, Active
      <3> QED  BY <3>1, <3>2, NobodyLeft
    <2>5. \A v \in Version : x.w = v => ~Idle(i, v)
      <3> SUFFICES ASSUME NEW v \in Version, x.w = v, Idle(i, v)
                   PROVE  FALSE
        OBVIOUS
      <3>1. Cardinality(WritersOf(x.data, v)) = 0
        BY <2>3 DEF Counted, Idle
      <3>2. WritersOf(x.data, v) \in SUBSET Accesses /\ s \in WritersOf(x.data, v)
        BY DEF WritersOf, Active
      <3> QED  BY <3>1, <3>2, NobodyLeft
    <2>6. x.r \in Version \cup {NoVersion} /\ x.w \in Version \cup {NoVersion}
      BY <2>1 DEF AccessType
    <2>7. Within(x, j)
      BY <2>3, <2>4, <2>5, <2>6 DEF Within, DeletionStep
    <2>8. Moves(x) => x.r < j.current /\ ReadersOf(x.data, x.r) = {s}
      BY <2>3 DEF IInv, Secure, DeletionStep
    <2>9. Moves(x) => {t \in Active' : acc'[t].data = x.data /\ acc'[t].r = x.r} = {s}
      BY <1>1, <2>8 DEF ReadersOf
    <2> QED  BY <2>7, <2>8, <2>9 DEF Secure, ReadersOf
  <1> QED  BY <1>1, <1>2, <1>3, <1>4, <1>5 DEF IInv

(* The registration of an access.                                          *)
LEMMA RegisterPreserves ==
    ASSUME IInv, TypeOK', NEW s \in Accesses, NEW by \in {"task", "main"}, NEW a \in Apps,
           NEW d \in Data, NEW m \in Modes, RegisterFileAccess(s, by, a, d, m),
           NEW x \in AccessType, acc'[s] = x
    PROVE  IInv'
  <1> DEFINE i == info[d]
             j == WillAccess(i, m)
             id == AccessId(i, m)
  <1>1. /\ i \in DataInfoType /\ Shape(i) /\ Counted(d) /\ (d \notin gone => Clean(i))
        /\ acc \in [Accesses -> AccessType \cup {NoAccess}] /\ acc[s] = NoAccess
        /\ info \in [Data -> DataInfoType]
    BY DEF IInv, TypeOK, RegisterFileAccess
  <1>2. /\ acc' = [acc EXCEPT ![s] = x] /\ info' = [info EXCEPT ![d] = j]
        /\ x = [by |-> by, app |-> a, data |-> d, r |-> id.r, w |-> id.w,
                preserve |-> id.preserve]
        /\ gone' = IF m = "W" THEN gone \ {d} ELSE gone
        /\ (d \in gone => m = "W") /\ (m # "R" => i.current < MaxVersion)
    BY <1>1 DEF RegisterFileAccess, MayAccess
  <1>3. /\ j \in DataInfoType
        /\ j.current = (IF m = "R" THEN i.current ELSE i.current + 1)
        /\ j.pending = i.pending
        /\ j.versions = i.versions \cup (IF m = "R" THEN {} ELSE {i.current + 1})
        /\ id.r \in Version \cup {NoVersion} /\ id.w \in Version \cup {NoVersion}
        /\ id.preserve \in BOOLEAN
        /\ \A v \in Version :
              /\ j.dv[v].readers = i.dv[v].readers + (IF v = id.r THEN 1 ELSE 0)
              /\ j.dv[v].writters = i.dv[v].writters + (IF v = id.w THEN 1 ELSE 0)
              /\ j.dv[v].toDelete = i.dv[v].toDelete
    BY <1>1, <1>2, WillAccessStep, ZenonT(40)
  <1>4. /\ id.r = (IF m = "W" THEN NoVersion ELSE i.current)
        /\ id.w = (IF m = "R" THEN NoVersion ELSE i.current + 1)
        /\ id.preserve = (IF m = "RW" THEN IsToBeRead(i) ELSE m = "R")
    BY DEF AccessId
  <1>5. x # NoAccess
    BY DEF AccessType, NoAccess
  <1>6. x.data = d /\ x.r = id.r /\ x.w = id.w /\ x.preserve = id.preserve
    BY <1>2
  <1>7. /\ info'[d] = j
        /\ \A e \in Data : e # d => info'[e] = info[e]
    BY <1>1, <1>2
  <1>8. /\ i.current \in Version /\ i.current \in Nat /\ i.versions \subseteq Version
        /\ NoVersion \notin Version /\ NoVersion = 0 /\ (m # "R" => i.current + 1 \in Version)
    BY <1>1, <1>2, MaxVersionAssumption DEF DataInfoType, Version, NoVersion
  <1> HIDE DEF j, id
  <1>9. /\ Active' = Active \cup {s} /\ s \notin Active
        /\ \A t \in Active : acc'[t] = acc[t]
    BY <1>1, <1>2, <1>5 DEF Active
  <1>10. \A e \in Data, v \in Version :
           /\ ReadersOf(e, v)' = ReadersOf(e, v) \cup (IF x.data = e /\ x.r = v THEN {s} ELSE {})
           /\ Cardinality(ReadersOf(e, v)') = Cardinality(ReadersOf(e, v))
                                              + (IF x.data = e /\ x.r = v THEN 1 ELSE 0)
           /\ Cardinality(WritersOf(e, v)') = Cardinality(WritersOf(e, v))
                                              + (IF x.data = e /\ x.w = v THEN 1 ELSE 0)
           /\ ~(x.data = e /\ x.r = v) => ReadersOf(e, v)' = ReadersOf(e, v)
    <2>1. acc \in [Accesses -> AccessType \cup {NoAccess}] /\ acc[s] = NoAccess
      BY <1>1
    <2>2. acc' = [acc EXCEPT ![s] = x]
      BY <1>2
    <2> QED  BY <2>1, <2>2, NewAccessCounts, ZenonT(40)
  <1>11. Shape(j)
    <2>1. CASE m = "R"
      <3>1. j.current = i.current /\ j.pending = i.pending /\ j.versions = i.versions
        BY <1>3, <2>1
      <3>2. \A v \in Version : j.dv[v].toDelete = i.dv[v].toDelete
        BY <1>3
      <3> QED  BY <1>1, <1>8, <3>1, <3>2 DEF Shape, IsCurrentVersionToDelete
    <2>2. CASE m # "R"
      <3>1. /\ j.current = i.current + 1 /\ j.pending = i.pending
            /\ j.versions = i.versions \cup {i.current + 1}
        BY <1>3, <2>2
      <3>2. \A v \in Version : j.dv[v].toDelete = i.dv[v].toDelete
        BY <1>3
      <3>3. \A v \in Version : v \in Int
        BY DEF Version
      <3>4. /\ j.versions \subseteq 1 .. j.current
            /\ \A k \in 1 .. Len(j.pending) : j.pending[k] \subseteq 1 .. j.current
        BY <1>1, <1>8, <3>1 DEF Shape
      <3>5. \A v \in Version : v > j.current => ~j.dv[v].toDelete
        BY <1>1, <1>8, <3>1, <3>2, <3>3 DEF Shape
      <3> QED  BY <3>1, <3>4, <3>5 DEF Shape
    <2> QED  BY <2>1, <2>2
  <1>12. d \notin gone' => Clean(j)
    <2>1. CASE m = "R"
      BY <1>1, <1>2, <1>3, <1>8, <2>1 DEF Clean, IsCurrentVersionToDelete
    <2>2. CASE m # "R"
      BY <1>1, <1>3, <1>8, <2>2 DEF Clean, Shape, IsCurrentVersionToDelete
    <2> QED  BY <2>1, <2>2
  <1>13. \A e \in Data : Counted(e)'
    <2> SUFFICES ASSUME NEW e \in Data, NEW v \in Version
                 PROVE  /\ info'[e].dv[v].readers = Cardinality(ReadersOf(e, v)')
                        /\ info'[e].dv[v].writters = Cardinality(WritersOf(e, v)')
      BY DEF Counted
    <2>1. /\ info[e].dv[v].readers = Cardinality(ReadersOf(e, v))
          /\ info[e].dv[v].writters = Cardinality(WritersOf(e, v))
          /\ Cardinality(ReadersOf(e, v)) \in Nat /\ Cardinality(WritersOf(e, v)) \in Nat
      BY FiniteAccesses DEF IInv, Counted
    <2>2. CASE e = d
      <3>1. /\ j.dv[v].readers = i.dv[v].readers + (IF v = id.r THEN 1 ELSE 0)
            /\ j.dv[v].writters = i.dv[v].writters + (IF v = id.w THEN 1 ELSE 0)
        BY <1>3
      <3>2. /\ Cardinality(ReadersOf(e, v)') = Cardinality(ReadersOf(e, v))
                                             + (IF x.data = e /\ x.r = v THEN 1 ELSE 0)
            /\ Cardinality(WritersOf(e, v)') = Cardinality(WritersOf(e, v))
                                             + (IF x.data = e /\ x.w = v THEN 1 ELSE 0)
        BY <1>10
      <3> QED  BY <1>6, <1>7, <2>1, <2>2, <3>1, <3>2
    <2>3. CASE e # d
      BY <1>6, <1>7, <1>10, <2>1, <2>3
    <2> QED  BY <2>2, <2>3
  <1>14. \A e \in Data : Shape(info'[e]) /\ (e \notin gone' => Clean(info'[e]))
    BY <1>2, <1>7, <1>11, <1>12 DEF IInv
  <1>15. Within(x, j)
    <2>1. id.r # NoVersion => i.current \in i.versions
      BY <1>1, <1>2, <1>4, <1>8 DEF Clean, Shape
    <2> QED  BY <1>3, <1>4, <1>6, <1>8, <2>1 DEF Within
  <1>16. Moves(x) => x.r < j.current /\ ReadersOf(d, x.r)' = {s}
    <2> SUFFICES ASSUME Moves(x)
                 PROVE  x.r < j.current /\ ReadersOf(d, x.r)' = {s}
      OBVIOUS
    <2>1. m = "RW" /\ ~IsToBeRead(i) /\ x.r = i.current
      BY <1>4, <1>6 DEF Moves, Modes
    <2>2. Cardinality(ReadersOf(d, i.current)) <= 0
      <3>1. /\ Cardinality(ReadersOf(d, i.current)) \in Nat
            /\ i.dv[i.current].readers = Cardinality(ReadersOf(d, i.current))
        BY <1>1, <1>8, FiniteAccesses DEF Counted
      <3> QED  BY <2>1, <3>1 DEF IsToBeRead
    <2>3. ReadersOf(d, i.current) = {}
      <3>1. ReadersOf(d, i.current) \in SUBSET Accesses
        BY DEF ReadersOf, Active
      <3> QED  BY <2>2, <3>1, NobodyLeft
    <2>4. ReadersOf(d, x.r)' = {} \cup {s}
      BY <1>6, <1>8, <1>10, <2>1, <2>3
    <2> QED  BY <1>3, <1>8, <2>1, <2>4
  <1>17. ASSUME NEW t \in Active, NEW y, y = acc[t]
         PROVE  Secure(t, y)'
    <2>1. y \in AccessType /\ y.data \in Data
      BY <1>1, <1>17 DEF Active, AccessType
    <2>2. Secure(t, y)
      BY <1>17 DEF IInv
    <2>3. /\ y.r \in Version \cup {NoVersion} /\ y.w \in Version \cup {NoVersion}
          /\ y.r \in Int /\ y.w \in Int
      BY <2>1, <1>8 DEF AccessType, Version
    <2>4. CASE y.data # d
      <3>1. Moves(y) => ReadersOf(y.data, y.r)' = ReadersOf(y.data, y.r)
        BY <1>6, <1>10, <2>1, <2>3, <2>4 DEF Moves
      <3> QED  BY <1>7, <2>1, <2>2, <2>4, <3>1 DEF Secure
    <2>5. CASE y.data = d
      <3>1. Within(y, j)
        BY <1>3, <1>8, <2>2, <2>3, <2>5 DEF Secure, Within
      <3>2. Moves(y) => y.r < j.current /\ y.r # x.r
        BY <1>3, <1>4, <1>6, <1>8, <2>2, <2>3, <2>5 DEF Secure, Moves
      <3>3. Moves(y) => ReadersOf(y.data, y.r)' = ReadersOf(y.data, y.r)
        BY <1>10, <2>1, <2>3, <2>5, <3>2 DEF Moves
      <3> QED  BY <1>7, <2>2, <2>5, <3>1, <3>2, <3>3 DEF Secure
    <2> QED  BY <2>4, <2>5
  <1>18. ASSUME NEW t \in Active', NEW y, y = acc'[t]
         PROVE  Secure(t, y)'
    <2>1. CASE t = s
      <3>1. y = x
        BY <1>18, <2>1
      <3> QED  BY <1>6, <1>7, <1>15, <1>16, <2>1, <3>1 DEF Secure
    <2>2. CASE t # s
      <3>1. t \in Active /\ y = acc[t]
        BY <1>9, <1>18, <2>2
      <3> QED  BY <1>17, <3>1
    <2> QED  BY <2>1, <2>2
  <1>19. \A t \in Active' : Secure(t, acc[t])'
    BY <1>18 DEF Secure, ReadersOf
  <1> QED  BY <1>13, <1>14, <1>19 DEF IInv

(* The end of a task.                                                      *)
LEMMA TaskEndsPreserves ==
    ASSUME IInv, TypeOK', NEW s \in Accesses, NEW x \in AccessType, acc[s] = x,
           TaskEnds(s)
    PROVE  IInv'
  <1> DEFINE d == x.data
             i == info[d]
             j == AccessDone(i, x)
             k == info'[d]
  <1>1. /\ d \in Data /\ i \in DataInfoType /\ Shape(i) /\ Counted(d)
        /\ (d \notin gone => Clean(i))
        /\ acc \in [Accesses -> AccessType \cup {NoAccess}] /\ acc[s] # NoAccess
        /\ info \in [Data -> DataInfoType]
    BY DEF IInv, TypeOK, AccessType, NoAccess
  <1>2. /\ acc' = [acc EXCEPT ![s] = NoAccess] /\ gone' = gone
        /\ k = j \/ k = CheckResultFileTransfer(j)
        /\ \A e \in Data : e # d => info'[e] = info[e]
    BY <1>1 DEF TaskEnds
  <1>3. Countdown(i, j, x.r, x.w)
    BY <1>1, AccessDoneStep
  <1> HIDE DEF j, k
  <1>4. Shape(j) /\ (Clean(i) => Clean(j)) /\ j \in DataInfoType
    <2>1. j \in DataInfoType
      BY <1>3 DEF Countdown
    <2> QED  BY <1>1, <1>3, <2>1, CountdownShape
  <1>5. KeepingStep(j, k)
    BY <1>2, <1>4, ResultFileSteps DEF KeepingStep, DeletionStep
  <1>6. Shape(k) /\ (d \notin gone' => Clean(k))
    BY <1>1, <1>2, <1>4, <1>5 DEF KeepingStep
  <1>7. \A e \in Data, v \in Version :
             /\ ReadersOf(e, v)' = ReadersOf(e, v) \ {s}
             /\ Cardinality(ReadersOf(e, v)') = Cardinality(ReadersOf(e, v))
                                     - (IF x.data = e /\ x.r = v THEN 1 ELSE 0)
             /\ Cardinality(WritersOf(e, v)') = Cardinality(WritersOf(e, v))
                                     - (IF x.data = e /\ x.w = v THEN 1 ELSE 0)
    <2>1. /\ acc \in [Accesses -> AccessType \cup {NoAccess}] /\ acc[s] # NoAccess
          /\ acc' = [acc EXCEPT ![s] = NoAccess]
      BY <1>1, <1>2
    <2> QED  BY <2>1, EndedAccessCounts
  <1>8. \A v \in Version : /\ k.dv[v].readers = Cardinality(ReadersOf(d, v)')
                           /\ k.dv[v].writters = Cardinality(WritersOf(d, v)')
                           /\ j.dv[v].readers = Cardinality(ReadersOf(d, v)')
                           /\ j.dv[v].writters = Cardinality(WritersOf(d, v)')
    <2> TAKE v \in Version
    <2>1. /\ j.dv[v].readers = i.dv[v].readers - (IF v = x.r THEN 1 ELSE 0)
          /\ j.dv[v].writters = i.dv[v].writters - (IF v = x.w THEN 1 ELSE 0)
          /\ k.dv[v].readers = j.dv[v].readers /\ k.dv[v].writters = j.dv[v].writters
      BY <1>3, <1>5 DEF Countdown, KeepingStep, DeletionStep
    <2>2. /\ i.dv[v].readers = Cardinality(ReadersOf(d, v))
          /\ i.dv[v].writters = Cardinality(WritersOf(d, v))
      BY <1>1 DEF Counted
    <2> QED  BY <1>1, <1>7, <2>1, <2>2
  <1>9. \A e \in Data : Counted(e)'
    <2> SUFFICES ASSUME NEW e \in Data, NEW v \in Version
                 PROVE  /\ info'[e].dv[v].readers = Cardinality(ReadersOf(e, v)')
                        /\ info'[e].dv[v].writters = Cardinality(WritersOf(e, v)')
      BY DEF Counted
    <2>1. CASE e = d
      BY <1>8, <2>1 DEF k
    <2>2. CASE e # d
      <3>1. /\ info[e].dv[v].readers = Cardinality(ReadersOf(e, v))
            /\ info[e].dv[v].writters = Cardinality(WritersOf(e, v))
            /\ Cardinality(ReadersOf(e, v)) \in Nat /\ Cardinality(WritersOf(e, v)) \in Nat
        BY FiniteAccesses DEF IInv, Counted
      <3> QED  BY <1>2, <1>7, <2>2, <3>1
    <2> QED  BY <2>1, <2>2
  <1>10. \A e \in Data : Shape(info'[e]) /\ (e \notin gone' => Clean(info'[e]))
    BY <1>2, <1>6 DEF IInv, k
  <1>11. ASSUME NEW t \in Active', NEW y, y = acc'[t]
         PROVE  Secure(t, y)'
    <2>1. /\ t \in Active /\ t # s /\ y = acc[t]
      BY <1>1, <1>2, <1>11 DEF Active
    <2>2. y \in AccessType /\ y.data \in Data
      BY <1>1, <2>1 DEF Active, AccessType
    <2>3. Secure(t, y)
      BY <2>1 DEF IInv
    <2>4. y.r \in Version \cup {NoVersion} /\ y.w \in Version \cup {NoVersion}
      BY <2>2 DEF AccessType
    <2>5. Moves(y) => ReadersOf(y.data, y.r)' = ReadersOf(y.data, y.r)
      <3> SUFFICES ASSUME Moves(y)
                   PROVE  ReadersOf(y.data, y.r)' = ReadersOf(y.data, y.r)
        OBVIOUS
      <3>1. ReadersOf(y.data, y.r) = {t} /\ y.r \in Version
        BY <2>3, <2>4 DEF Secure, Moves
      <3>2. ReadersOf(y.data, y.r)' = {t} \ {s}
        BY <1>7, <2>2, <3>1
      <3> QED  BY <2>1, <3>1, <3>2
    <2>6. CASE y.data # d
      BY <1>2, <2>2, <2>3, <2>5, <2>6 DEF Secure
    <2>7. CASE y.data = d
      <3>1. Within(y, i)
        BY <2>3, <2>7 DEF Secure
      <3>2. \A v \in Version : y.r = v => k.dv[v].readers # 0 /\ ~(j.dv[v].readers <= 0)
        <4> SUFFICES ASSUME NEW v \in Version, y.r = v
                     PROVE  k.dv[v].readers # 0 /\ ~(j.dv[v].readers <= 0)
          OBVIOUS
        <4>1. /\ ReadersOf(d, v)' \in SUBSET Accesses
              /\ t \in ReadersOf(d, v)'
          BY <1>11, <2>7 DEF ReadersOf, Active
        <4>2. ~(Cardinality(ReadersOf(d, v)') <= 0)
          BY <4>1, NobodyLeft
        <4> QED  BY <1>8, <4>2
      <3>3. \A v \in Version : y.w = v => k.dv[v].writters # 0 /\ ~(j.dv[v].writters <= 0)
        <4> SUFFICES ASSUME NEW v \in Version, y.w = v
                     PROVE  k.dv[v].writters # 0 /\ ~(j.dv[v].writters <= 0)
          OBVIOUS
        <4>1. /\ WritersOf(d, v)' \in SUBSET Accesses
              /\ t \in WritersOf(d, v)'
          BY <1>11, <2>7 DEF WritersOf, Active
        <4>2. ~(Cardinality(WritersOf(d, v)') <= 0)
          BY <4>1, NobodyLeft
        <4> QED  BY <1>8, <4>2
      <3>4. k.current = i.current
        BY <1>3, <1>5 DEF Countdown, KeepingStep, DeletionStep
      <3>5. \A v \in Version : (y.r = v \/ y.w = v) /\ v \in i.versions => v \in j.versions
        BY <1>3, <3>2, <3>3 DEF Countdown
      <3>6. \A v \in Version : (y.r = v \/ y.w = v) /\ v \in j.versions => v \in k.versions
        BY <1>5, <1>8, <3>2, <3>3 DEF KeepingStep, DeletionStep, Idle
      <3>7. Within(y, k)
        BY <2>4, <3>1, <3>4, <3>5, <3>6 DEF Within
      <3> QED  BY <2>3, <2>5, <2>7, <3>4, <3>7 DEF Secure, k
    <2> QED  BY <2>6, <2>7
  <1>12. \A t \in Active' : Secure(t, acc[t])'
    BY <1>11 DEF Secure, ReadersOf
  <1> QED  BY <1>9, <1>10, <1>12 DEF IInv

(* Each request, from a state of the invariant.                            *)
LEMMA InitEstablishes ==
    ASSUME Init
    PROVE  IInv
  <1>1. NewDataInfo \in DataInfoType
    BY MaxVersionAssumption
       DEF NewDataInfo, DataInfoType, NewDataVersion, DataVersionType, Version
  <1>2. TypeOK
    BY <1>1 DEF Init, TypeOK, NoVersion
  <1>3. Active = {}
    BY DEF Init, Active
  <1>4. Shape(NewDataInfo) /\ Clean(NewDataInfo)
    BY MaxVersionAssumption
       DEF Shape, Clean, NewDataInfo, NewDataVersion, IsCurrentVersionToDelete, Version
  <1>5. \A d \in Data : Counted(d)
    BY <1>3, FS_EmptySet
       DEF Init, Counted, ReadersOf, WritersOf, NewDataInfo, NewDataVersion
  <1> QED  BY <1>2, <1>3, <1>4, <1>5 DEF Init, IInv

(* A record that does not change is kept. *)
LEMMA KeptRecord ==
    ASSUME NEW i \in DataInfoType, Shape(i)
    PROVE  KeepingStep(i, i)
  BY DEF KeepingStep, DeletionStep

(* The registration of an access keeps the types. *)
LEMMA RegisterType ==
    ASSUME IInv, NEW s \in Accesses, NEW by \in {"task", "main"}, NEW a \in Apps,
           NEW d \in Data, NEW m \in Modes, RegisterFileAccess(s, by, a, d, m)
    PROVE  /\ known' \subseteq Data /\ gone' \subseteq Data
           /\ info' \in [Data -> DataInfoType] /\ info'[d].current \in Version
           /\ acc' \in [Accesses -> AccessType \cup {NoAccess}]
           /\ acc'[s] \in AccessType
  <1> DEFINE i == info[d]
             j == WillAccess(i, m)
             id == AccessId(i, m)
             x == [by |-> by, app |-> a, data |-> d, r |-> id.r, w |-> id.w,
                   preserve |-> id.preserve]
  <1>1. /\ acc' = [acc EXCEPT ![s] = x] /\ info' = [info EXCEPT ![d] = j]
        /\ m # "R" => i.current < MaxVersion
        /\ known' = known \cup {d} /\ gone' \subseteq gone
    BY DEF RegisterFileAccess, MayAccess
  <1>2. i \in DataInfoType
    BY DEF IInv, TypeOK
  <1>3. /\ j \in DataInfoType
        /\ id.r \in Version \cup {NoVersion} /\ id.w \in Version \cup {NoVersion}
        /\ id.preserve \in BOOLEAN
    BY <1>1, <1>2, WillAccessStep
  <1> HIDE DEF j, id
  <1>4. x \in AccessType
    BY <1>3 DEF AccessType
  <1> HIDE DEF x
  <1> QED  BY <1>1, <1>3, <1>4 DEF IInv, TypeOK, DataInfoType

(* One lemma per request: the access of a task. *)
LEMMA TaskAccessPreserves ==
    ASSUME IInv, NEW s \in Accesses, NEW a \in Apps, NEW d \in Data, NEW m \in Modes,
           TaskAccess(s, a, d, m)
    PROVE  IInv'
  <1>1. RegisterFileAccess(s, "task", a, d, m)
    BY DEF TaskAccess
  <1>2. TypeOK'
    <2> DEFINE v == info'[d].current
    <2>1. /\ known' \subseteq Data /\ gone' \subseteq Data
          /\ info' \in [Data -> DataInfoType] /\ v \in Version
          /\ acc' \in [Accesses -> AccessType \cup {NoAccess}]
      BY <1>1, RegisterType
    <2>2. /\ \/ lastTaskWrite' = lastTaskWrite
             \/ lastTaskWrite' = [lastTaskWrite EXCEPT ![d] = v]
          /\ \/ written' = written
             \/ written' = [written EXCEPT ![a] = @ \cup {d}]
          /\ phase' = phase /\ resultFiles' = resultFiles /\ abandoned' = abandoned
      BY DEF TaskAccess
    <2> HIDE DEF v
    <2>3. lastTaskWrite' \in [Data -> Version \cup {NoVersion}]
      BY <2>1, <2>2 DEF IInv, TypeOK
    <2>4. written' \in [Apps -> SUBSET Data]
      BY <2>2 DEF IInv, TypeOK
    <2> QED  BY <2>1, <2>2, <2>3, <2>4 DEF IInv, TypeOK
  <1>3. PICK x \in AccessType : acc'[s] = x
    BY <1>1, RegisterType
  <1> QED  BY <1>1, <1>2, <1>3, RegisterPreserves

(* The access of the main program. *)
LEMMA MainAccessPreserves ==
    ASSUME IInv, NEW s \in Accesses, NEW a \in Apps, NEW d \in Data, NEW m \in Modes,
           MainAccess(s, a, d, m)
    PROVE  IInv'
  <1>1. RegisterFileAccess(s, "main", a, d, m)
    BY DEF MainAccess
  <1>2. TypeOK'
    BY <1>1, RegisterType DEF MainAccess, IInv, TypeOK
  <1>3. PICK x \in AccessType : acc'[s] = x
    BY <1>1, RegisterType
  <1> QED  BY <1>1, <1>2, <1>3, RegisterPreserves

(* The end of a task keeps the types, and was that of an access. *)
LEMMA TaskEndsType ==
    ASSUME IInv, NEW s \in Accesses, TaskEnds(s)
    PROVE  TypeOK' /\ acc[s] \in AccessType
  <1> DEFINE x == acc[s]
             d == x.data
             i == info[d]
             j == AccessDone(i, x)
             k == CheckResultFileTransfer(j)
  <1>1. x \in AccessType /\ d \in Data
    BY DEF IInv, TypeOK, TaskEnds, AccessType
  <1>2. i \in DataInfoType /\ Shape(i)
    BY <1>1 DEF IInv, TypeOK
  <1>3. Countdown(i, j, x.r, x.w)
    BY <1>1, <1>2, AccessDoneStep
  <1>4. info' = [info EXCEPT ![d] = k] \/ info' = [info EXCEPT ![d] = j]
    BY DEF TaskEnds
  <1>5. acc' = [acc EXCEPT ![s] = NoAccess]
    BY DEF TaskEnds
  <1> HIDE DEF j, k, x
  <1>6. j \in DataInfoType /\ Shape(j)
    <2>1. j \in DataInfoType
      BY <1>3 DEF Countdown
    <2> QED  BY <1>2, <1>3, <2>1, CountdownShape
  <1>7. k \in DataInfoType
    BY <1>6, ResultFileSteps DEF k, KeepingStep, DeletionStep
  <1>8. info' \in [Data -> DataInfoType]
    BY <1>4, <1>6, <1>7 DEF IInv, TypeOK
  <1> QED  BY <1>1, <1>5, <1>8 DEF IInv, TypeOK, TaskEnds, x

(* The deletion of a file. *)
LEMMA DeleteFilePreserves ==
    ASSUME IInv, NEW a \in Apps, NEW d \in Data, DeleteFile(a, d)
    PROVE  IInv'
  <1>1. /\ info[d] \in DataInfoType /\ Shape(info[d])
        /\ info \in [Data -> DataInfoType]
        /\ \A e \in Data : KeepingStep(info[e], info[e])
    BY KeptRecord DEF IInv, TypeOK
  <1>2. DeletionStep(info[d], Delete(info[d])) /\ Shape(Delete(info[d]))
    BY <1>1, DeleteStep
  <1>3. info' = [info EXCEPT ![d] = Delete(info[d])] /\ gone' = gone \cup {d} /\ acc' = acc
    BY DEF DeleteFile
  <1>4. Delete(info[d]) \in DataInfoType
    BY <1>2 DEF DeletionStep
  <1>5. TypeOK'
    BY <1>1, <1>3, <1>4 DEF IInv, TypeOK, DeleteFile
  <1>6. \A e \in Data : \/ KeepingStep(info[e], info'[e])
                        \/ DeletionStep(info[e], info'[e]) /\ Shape(info'[e]) /\ e \in gone'
    BY <1>1, <1>2, <1>3
  <1> QED  BY <1>3, <1>5, <1>6, SameAccesses

(* The end of an application. *)
LEMMA NoMoreTasksPreserves ==
    ASSUME IInv, NEW a \in Apps, NoMoreTasks(a)
    PROVE  IInv'
  <1>1. TypeOK'
    BY DEF IInv, TypeOK, NoMoreTasks
  <1>2. \A e \in Data : KeepingStep(info[e], info[e])
    BY KeptRecord DEF IInv, TypeOK
  <1> QED  BY <1>1, <1>2, SameAccesses DEF NoMoreTasks

(* The retrieval of result files, which blocks them. *)
LEMMA GetResultFilesPreserves ==
    ASSUME IInv, NEW a \in Apps, GetResultFiles(a)
    PROVE  IInv'
  <1>1. \A e \in Data : /\ KeepingStep(info[e], info[e])
                        /\ KeepingStep(info[e], BlockDataAndGetResultFile(info[e]))
    BY KeptRecord, ResultFileSteps DEF IInv, TypeOK
  <1>2. \A e \in Data : KeepingStep(info[e], info'[e]) /\ info'[e] \in DataInfoType
    BY <1>1 DEF GetResultFiles, KeepingStep, DeletionStep
  <1>3. info' \in [Data -> DataInfoType]
    BY <1>2 DEF GetResultFiles
  <1>4. TypeOK'
    BY <1>3 DEF IInv, TypeOK, GetResultFiles
  <1> QED  BY <1>2, <1>4, SameAccesses DEF GetResultFiles

(* The end of the retrieval. *)
LEMMA UnblockResultFilesPreserves ==
    ASSUME IInv, NEW a \in Apps, UnblockResultFiles(a)
    PROVE  IInv'
  <1>1. \A e \in Data : /\ KeepingStep(info[e], info[e])
                        /\ KeepingStep(info[e], UnblockDeletions(info[e]))
    BY KeptRecord, ResultFileSteps DEF IInv, TypeOK
  <1>2. \A e \in Data : KeepingStep(info[e], info'[e]) /\ info'[e] \in DataInfoType
    BY <1>1 DEF UnblockResultFiles, KeepingStep, DeletionStep
  <1>3. info' \in [Data -> DataInfoType]
    BY <1>2 DEF UnblockResultFiles
  <1>4. TypeOK'
    BY <1>3 DEF IInv, TypeOK, UnblockResultFiles
  <1> QED  BY <1>2, <1>4, SameAccesses DEF UnblockResultFiles

(* Every request preserves the invariant. *)
LEMMA NextPreserves ==
    ASSUME IInv, [Next]_vars
    PROVE  IInv'
  <1>1. ASSUME NEW s \in Accesses, NEW a \in Apps, NEW d \in Data, NEW m \in Modes,
               TaskAccess(s, a, d, m)
        PROVE  IInv'
    BY <1>1, TaskAccessPreserves
  <1>2. ASSUME NEW s \in Accesses, NEW a \in Apps, NEW d \in Data, NEW m \in Modes,
               MainAccess(s, a, d, m)
        PROVE  IInv'
    BY <1>2, MainAccessPreserves
  <1>3. ASSUME NEW s \in Accesses, TaskEnds(s)
        PROVE  IInv'
    <2>1. TypeOK' /\ acc[s] \in AccessType
      BY <1>3, TaskEndsType
    <2>2. PICK x \in AccessType : acc[s] = x
      BY <2>1
    <2> QED  BY <1>3, <2>1, <2>2, TaskEndsPreserves
  <1>4. ASSUME NEW a \in Apps, NEW d \in Data, DeleteFile(a, d)
        PROVE  IInv'
    BY <1>4, DeleteFilePreserves
  <1>5. ASSUME NEW a \in Apps, NoMoreTasks(a) \/ GetResultFiles(a) \/ UnblockResultFiles(a)
        PROVE  IInv'
    BY <1>5, NoMoreTasksPreserves, GetResultFilesPreserves, UnblockResultFilesPreserves
  <1>6. CASE UNCHANGED vars
    <2>1. TypeOK'
      BY <1>6 DEF IInv, TypeOK, vars
    <2>2. \A e \in Data : KeepingStep(info[e], info[e])
      BY KeptRecord DEF IInv, TypeOK
    <2> QED  BY <1>6, <2>1, <2>2, SameAccesses DEF vars
  <1> QED  BY <1>1, <1>2, <1>3, <1>4, <1>5, <1>6 DEF Next

-----------------------------------------------------------------------------
(* The invariant holds in every reachable state, with any number of data,  *)
(* applications, concurrent accesses, versions and queued deletions.       *)
THEOREM Invariance == Spec => []IInv
  <1>1. Init => IInv
    BY InitEstablishes
  <1>2. IInv /\ [Next]_vars => IInv'
    BY NextPreserves
  <1> QED  BY <1>1, <1>2, PTL DEF Spec

(* Every variable keeps its type: in particular no version number leaves   *)
(* its range.                                                              *)
THEOREM TypeCorrect == Spec => []TypeOK
  <1>1. IInv => TypeOK
    BY DEF IInv
  <1> QED  BY <1>1, Invariance, PTL

(* Deletions (DataInfo.delete, unblockDeletions, DataVersion.delete) never *)
(* remove a version that a pending task or the main program uses.          *)
THEOREM PendingVersionsAreKept == Spec => []PendingVersionsKept
  <1>1. IInv => PendingVersionsKept
    BY DEF IInv, Secure, Within, PendingVersionsKept
  <1> QED  BY <1>1, Invariance, PTL

(* An INOUT access that may move its source (preserveSourceData false,     *)
(* decided by isToBeRead at registration) stays the only reader of it.     *)
THEOREM SourceIsNotStolen == Spec => []SourceNotStolen
  <1>1. IInv => SourceNotStolen
    BY DEF IInv, Secure, Moves, SourceNotStolen
  <1> QED  BY <1>1, Invariance, PTL

(* The search of blockDataAndGetResultFile for an existing version starts  *)
(* at one: the walk over previous versions, which has no end, is not       *)
(* entered.                                                                *)
THEOREM ResultSearchEnds == Spec => []ResultSearchTerminates
  <1>1. IInv => ResultSearchTerminates
    BY DEF IInv, TypeOK, Shape, ResultSearchTerminates
  <1> QED  BY <1>1, Invariance, PTL

-----------------------------------------------------------------------------
(* The deletions.                                                          *)

(* No version is left that is marked and idle.                             *)
Tidy(i) == \A v \in i.versions : ~CheckDeletion(i, v)

Queued(i, v) == \E k \in 1 .. Len(i.pending) : v \in i.pending[k]

(* Every version is marked, or queued and will be when the last block goes. *)
Deferred(i) == \A v \in i.versions : i.dv[v].toDelete \/ (i.blocks > 0 /\ Queued(i, v))

Retrievers(d) == {a \in Apps : d \in resultFiles[a]}

(* The inductive invariant, on top of that of DataInfoProviderProofs.      *)
DInv ==
    /\ \A d \in Data : Tidy(info[d])
    /\ \A d \in Data \ abandoned : info[d].blocks <= Cardinality(Retrievers(d))
    /\ \A d \in gone \ abandoned : Deferred(info[d])
    /\ \A a \in Apps : resultFiles[a] # {} => phase[a] = "results"

-----------------------------------------------------------------------------
(* The operations of DataInfo.                                             *)

(* What an operation that adds no version may do: nothing idle and marked  *)
(* stays, and what is being deleted remains so.                            *)
Tidies(i, j) == j \in DataInfoType /\ (Tidy(i) => Tidy(j))

Defers(i, j) == Deferred(i) => Deferred(j)

(* DataVersion.delete() on a set of versions.                              *)
LEMMA DeleteVersionsTidies ==
    ASSUME NEW i \in DataInfoType, NEW D \in SUBSET Version
    PROVE  LET j == DeleteVersions(i, D)
           IN  /\ Tidies(i, j) /\ Defers(i, j)
               /\ j.blocks = i.blocks
               /\ \A v \in j.versions : v \in D \/ i.dv[v].toDelete => j.dv[v].toDelete
               /\ j.versions \subseteq i.versions /\ j.pending = i.pending
  <1> DEFINE j == DeleteVersions(i, D)
  <1>1. /\ j.current = i.current /\ j.pending = i.pending /\ j.blocks = i.blocks
        /\ j.dv = [v \in Version |-> IF v \in D THEN [i.dv[v] EXCEPT !.toDelete = TRUE] ELSE i.dv[v]]
        /\ j.versions = {v \in i.versions : ~(v \in D /\ Idle(i, v))}
        /\ j \in DataInfoType
    BY DEF DeleteVersions, DataInfoType, DataVersionType
  <1> HIDE DEF j
  <1>2. \A v \in Version :
          /\ j.dv[v].readers = i.dv[v].readers /\ j.dv[v].writters = i.dv[v].writters
          /\ j.dv[v].toDelete = (v \in D \/ i.dv[v].toDelete)
    BY <1>1, ZenonT(40) DEF DataInfoType, DataVersionType
  <1>3. i.versions \subseteq Version /\ j.versions \subseteq i.versions
    BY <1>1 DEF DataInfoType
  <1>4. Tidy(i) => Tidy(j)
    BY <1>1, <1>2, <1>3 DEF Tidy, CheckDeletion, Idle
  <1>5. \A v \in i.versions : i.dv[v].toDelete => j.dv[v].toDelete
    BY <1>2, <1>3
  <1>6. Deferred(i) => Deferred(j)
    BY <1>1, <1>3, <1>5 DEF Deferred, Queued
  <1>7. \A v \in j.versions : v \in D \/ i.dv[v].toDelete => j.dv[v].toDelete
    BY <1>2, <1>3
  <1> QED  BY <1>1, <1>3, <1>4, <1>6, <1>7 DEF Tidies, Defers, j

(* After delete() every version is marked or queued.                       *)
LEMMA DeleteTidies ==
    ASSUME NEW i \in DataInfoType
    PROVE  /\ Tidies(i, Delete(i)) /\ Defers(i, Delete(i))
           /\ Delete(i).blocks = i.blocks /\ Deferred(Delete(i))
  <1>1. CASE i.blocks > 0
    <2> DEFINE j == Delete(i)
    <2>1. j = [i EXCEPT !.pending = Append(@, i.versions)]
      BY <1>1 DEF Delete
    <2>2. /\ j.versions = i.versions /\ j.dv = i.dv /\ j.blocks = i.blocks
          /\ j.pending = Append(i.pending, i.versions)
      BY <2>1 DEF DataInfoType
    <2>3. j \in DataInfoType
      <3>1. Append(i.pending, i.versions) \in Seq(SUBSET Version)
        BY DEF DataInfoType
      <3> QED  BY <2>1, <3>1 DEF DataInfoType
    <2> HIDE DEF j
    <2>4. \A v \in i.versions : Queued(j, v)
      BY <2>2 DEF Queued, DataInfoType
    <2>5. Deferred(j)
      BY <1>1, <2>2, <2>4 DEF Deferred
    <2>6. Tidy(i) => Tidy(j)
      BY <2>2 DEF Tidy, CheckDeletion, Idle
    <2> QED  BY <2>2, <2>3, <2>5, <2>6 DEF Tidies, Defers, j
  <1>2. CASE ~(i.blocks > 0)
    <2>1. Delete(i) = DeleteVersions(i, i.versions) /\ i.versions \in SUBSET Version
      BY <1>2 DEF Delete, DataInfoType
    <2>2. Deferred(Delete(i))
      BY <2>1, DeleteVersionsTidies DEF Deferred
    <2> QED  BY <2>1, <2>2, DeleteVersionsTidies
  <1> QED  BY <1>1, <1>2

(* A block keeps all.                                                      *)
LEMMA BlockTidies ==
    ASSUME NEW i \in DataInfoType
    PROVE  /\ Tidies(i, BlockDeletions(i)) /\ Defers(i, BlockDeletions(i))
           /\ BlockDeletions(i).blocks = i.blocks + 1
  <1> DEFINE j == BlockDeletions(i)
  <1>1. /\ j.versions = i.versions /\ j.dv = i.dv /\ j.blocks = i.blocks + 1
        /\ j.pending = i.pending /\ j \in DataInfoType /\ i.blocks \in Int
    BY DEF BlockDeletions, DataInfoType
  <1> HIDE DEF j
  <1>2. Tidy(i) => Tidy(j)
    BY <1>1 DEF Tidy, CheckDeletion, Idle
  <1>3. Deferred(i) => Deferred(j)
    BY <1>1 DEF Deferred, Queued
  <1> QED  BY <1>1, <1>2, <1>3 DEF Tidies, Defers, j

(* An unblock that does not throw marks all that was queued.               *)
LEMMA UnblockTidies ==
    ASSUME NEW i \in DataInfoType
    PROVE  /\ Tidies(i, UnblockDeletions(i)) /\ (~UnblockThrows(i) => Defers(i, UnblockDeletions(i)))
           /\ UnblockDeletions(i).blocks = i.blocks - 1
  <1> DEFINE j == [i EXCEPT !.blocks = @ - 1]
             D == {e[2] : e \in {f \in PendingEntries(i) : \A g \in BadEntries(i) : NotAfter(f, g)}}
             k == UnblockDeletions(i)
  <1>1. /\ j.versions = i.versions /\ j.dv = i.dv /\ j.blocks = i.blocks - 1
        /\ j.pending = i.pending /\ j \in DataInfoType /\ i.blocks \in Int
    BY DEF DataInfoType
  <1>2. k = IF j.blocks = 0 THEN DeleteVersions(j, D) ELSE j
    BY DEF UnblockDeletions
  <1>3. D \in SUBSET Version
    BY DEF PendingEntries
  <1>4. ~UnblockThrows(i) /\ i.blocks = 1 => \A v \in i.versions : Queued(i, v) => v \in D
    <2> SUFFICES ASSUME BadEntries(i) = {}, NEW v \in i.versions, NEW n \in 1 .. Len(i.pending),
                        v \in i.pending[n]
                 PROVE  v \in D
      BY DEF UnblockThrows, Queued
    <2>1. <<n, v>> \in PendingEntries(i)
      BY DEF PendingEntries, DataInfoType
    <2> QED  BY <2>1
  <1> HIDE DEF D, j, k
  <1>5. Tidy(i) => Tidy(j)
    BY <1>1 DEF Tidy, CheckDeletion, Idle
  <1>6. CASE i.blocks = 1
    <2>1. k = DeleteVersions(j, D)
      BY <1>1, <1>2, <1>6
    <2>2. /\ Tidies(j, k) /\ Defers(j, k) /\ k.blocks = j.blocks
          /\ \A v \in k.versions : v \in D \/ j.dv[v].toDelete => k.dv[v].toDelete
          /\ k.versions \subseteq j.versions
      BY <1>1, <1>3, <2>1, DeleteVersionsTidies
    <2>3. ASSUME ~UnblockThrows(i), Deferred(i), NEW v \in k.versions
          PROVE  k.dv[v].toDelete
      <3>1. v \in i.versions
        BY <1>1, <2>2
      <3>2. v \in D \/ i.dv[v].toDelete
        BY <1>4, <1>6, <2>3, <3>1 DEF Deferred
      <3> QED  BY <1>1, <2>2, <3>2
    <2>4. ~UnblockThrows(i) /\ Deferred(i) => Deferred(k)
      BY <2>3 DEF Deferred
    <2> QED  BY <1>1, <1>5, <2>2, <2>4 DEF Tidies, Defers, k
  <1>7. CASE i.blocks # 1
    <2>1. k = j
      BY <1>1, <1>2, <1>7
    <2>2. Deferred(i) => Deferred(j)
      BY <1>1, <1>7 DEF Deferred, Queued
    <2> QED  BY <1>1, <1>5, <2>1, <2>2 DEF Tidies, Defers, k
  <1> QED  BY <1>6, <1>7

(* The retrieval of a result file blocks it, or deletes it again.          *)
LEMMA ResultFileTidies ==
    ASSUME NEW i \in DataInfoType
    PROVE  LET j == BlockDataAndGetResultFile(i)
           IN  /\ Tidies(i, j) /\ Defers(i, j)
               /\ j.blocks = IF IsCurrentVersionToDelete(i) THEN i.blocks ELSE i.blocks + 1
  BY DeleteTidies, BlockTidies DEF BlockDataAndGetResultFile

(* The transfer ordered at the end of a task leaves no block.              *)
LEMMA CheckResultFileTidies ==
    ASSUME NEW i \in DataInfoType
    PROVE  /\ Tidies(i, CheckResultFileTransfer(i))
           /\ ~UnblockThrows(BlockDataAndGetResultFile(i)) => Defers(i, CheckResultFileTransfer(i))
           /\ CheckResultFileTransfer(i).blocks <= i.blocks
  <1> DEFINE j == BlockDataAndGetResultFile(i)
             k == UnblockDeletions(j)
  <1>1. Tidies(i, j) /\ Defers(i, j) /\ (j.blocks = i.blocks \/ j.blocks = i.blocks + 1)
    BY ResultFileTidies
  <1>2. j \in DataInfoType /\ j.blocks \in Int /\ i.blocks \in Int
    BY <1>1 DEF Tidies, Defers, DataInfoType
  <1>3. Tidies(j, k) /\ (~UnblockThrows(j) => Defers(j, k)) /\ k.blocks = j.blocks - 1
    BY <1>2, UnblockTidies
  <1>4. CheckResultFileTransfer(i) = k
    BY DEF CheckResultFileTransfer
  <1> HIDE DEF k
  <1>5. k.blocks <= i.blocks
    BY <1>1, <1>2, <1>3
  <1> QED  BY <1>1, <1>3, <1>4, <1>5 DEF Tidies, Defers

(* The end of a read, or of a write, removes the version if it is idle     *)
(* and marked.                                                             *)
Updated(i, u, x) == [i EXCEPT !.dv = [i.dv EXCEPT ![u] = x]]
Removed(j, u) == [j EXCEPT !.versions = IF CheckDeletion(j, u) THEN @ \ {u} ELSE @]

LEMMA VersionDoneTidies ==
    ASSUME NEW i \in DataInfoType, NEW u \in Version
    PROVE  /\ Tidies(i, VersionHasBeenRead(i, u)) /\ Defers(i, VersionHasBeenRead(i, u))
           /\ VersionHasBeenRead(i, u).blocks = i.blocks
           /\ Tidies(i, VersionHasBeenWritten(i, u)) /\ Defers(i, VersionHasBeenWritten(i, u))
           /\ VersionHasBeenWritten(i, u).blocks = i.blocks
  <1>1. ASSUME NEW x \in DataVersionType, x.toDelete = i.dv[u].toDelete
        PROVE  LET k == Removed(Updated(i, u, x), u)
               IN  Tidies(i, k) /\ Defers(i, k) /\ k.blocks = i.blocks
    <2> DEFINE j == Updated(i, u, x)
               k == Removed(j, u)
    <2>1. i.dv \in [Version -> DataVersionType] /\ i.versions \subseteq Version
      BY DEF DataInfoType
    <2>2. [i.dv EXCEPT ![u] = x] \in [Version -> DataVersionType]
      BY <2>1
    <2>3. /\ j.versions = i.versions /\ j.pending = i.pending /\ j.blocks = i.blocks
          /\ j.dv = [i.dv EXCEPT ![u] = x] /\ j \in DataInfoType
      BY <1>1, <2>2 DEF DataInfoType, Updated
    <2> HIDE DEF j
    <2>4. \A v \in Version : /\ j.dv[v].toDelete = i.dv[v].toDelete
                             /\ v # u => j.dv[v] = i.dv[v]
      BY <1>1, <2>1, <2>3
    <2>5. /\ k.versions = (IF CheckDeletion(j, u) THEN i.versions \ {u} ELSE i.versions)
          /\ k.dv = j.dv /\ k.pending = i.pending /\ k.blocks = i.blocks /\ k \in DataInfoType
      BY <2>3 DEF DataInfoType, Removed
    <2> HIDE DEF k
    <2>6. \A v \in Version : CheckDeletion(k, v) = CheckDeletion(j, v)
      BY <2>5 DEF CheckDeletion, Idle
    <2>7. \A v \in Version : v # u => CheckDeletion(k, v) = CheckDeletion(i, v)
      BY <2>4, <2>5 DEF CheckDeletion, Idle
    <2>8. Tidy(i) => Tidy(k)
      BY <2>1, <2>5, <2>6, <2>7 DEF Tidy
    <2>9. Deferred(i) => Deferred(k)
      <3>1. \A v \in k.versions : v \in i.versions /\ k.dv[v].toDelete = i.dv[v].toDelete
        BY <2>1, <2>4, <2>5
      <3> QED  BY <2>5, <3>1 DEF Deferred, Queued
    <2> QED  BY <2>5, <2>8, <2>9 DEF Tidies, Defers, j, k
  <1>2. i.dv[u] \in DataVersionType
    BY DEF DataInfoType
  <1>3. /\ Tidies(i, VersionHasBeenRead(i, u)) /\ Defers(i, VersionHasBeenRead(i, u))
        /\ VersionHasBeenRead(i, u).blocks = i.blocks
    <2> DEFINE x == [i.dv[u] EXCEPT !.readers = @ - 1]
               j == [i EXCEPT !.dv[u].readers = @ - 1]
    <2>1. x \in DataVersionType /\ x.toDelete = i.dv[u].toDelete
      BY <1>2 DEF DataVersionType
    <2>2. j = Updated(i, u, x)
      BY DEF Updated
    <2>3. VersionHasBeenRead(i, u) = Removed(j, u)
      BY DEF VersionHasBeenRead, Removed
    <2> HIDE DEF j, x
    <2> QED  BY <1>1, <2>1, <2>2, <2>3
  <1>4. /\ Tidies(i, VersionHasBeenWritten(i, u)) /\ Defers(i, VersionHasBeenWritten(i, u))
        /\ VersionHasBeenWritten(i, u).blocks = i.blocks
    <2> DEFINE x == [i.dv[u] EXCEPT !.writters = @ - 1]
               j == [i EXCEPT !.dv[u].writters = @ - 1]
    <2>1. x \in DataVersionType /\ x.toDelete = i.dv[u].toDelete
      BY <1>2 DEF DataVersionType
    <2>2. j = Updated(i, u, x)
      BY DEF Updated
    <2>3. VersionHasBeenWritten(i, u) = Removed(j, u)
      BY DEF VersionHasBeenWritten, Removed
    <2> HIDE DEF j, x
    <2> QED  BY <1>1, <2>1, <2>2, <2>3
  <1> QED  BY <1>3, <1>4

(* So does the end of an access.                                           *)
LEMMA AccessDoneTidies ==
    ASSUME NEW i \in DataInfoType, NEW x \in AccessType
    PROVE  /\ Tidies(i, AccessDone(i, x)) /\ Defers(i, AccessDone(i, x))
           /\ AccessDone(i, x).blocks = i.blocks
  <1> DEFINE j == IF x.r = NoVersion THEN i ELSE VersionHasBeenRead(i, x.r)
             k == AccessDone(i, x)
  <1>1. x.r \in Version \cup {NoVersion} /\ x.w \in Version \cup {NoVersion}
    BY DEF AccessType
  <1>2. Tidies(i, j) /\ Defers(i, j) /\ j.blocks = i.blocks
    <2>1. CASE x.r = NoVersion
      BY <2>1 DEF Tidies, Defers
    <2>2. CASE x.r # NoVersion
      BY <1>1, <2>2, VersionDoneTidies
    <2> QED  BY <2>1, <2>2
  <1>3. j \in DataInfoType
    BY <1>2 DEF Tidies, Defers
  <1>4. k = IF x.w = NoVersion THEN j ELSE VersionHasBeenWritten(j, x.w)
    BY DEF AccessDone
  <1> HIDE DEF j, k
  <1>5. Tidies(j, k) /\ Defers(j, k) /\ k.blocks = j.blocks
    <2>1. CASE x.w = NoVersion
      BY <1>3, <1>4, <2>1 DEF Tidies, Defers
    <2>2. CASE x.w # NoVersion
      BY <1>1, <1>3, <1>4, <2>2, VersionDoneTidies
    <2> QED  BY <2>1, <2>2
  <1> QED  BY <1>2, <1>5 DEF Tidies, Defers, k

(* A new access makes nothing idle, and its version is not marked.         *)
LEMMA WillAccessTidies ==
    ASSUME NEW i \in DataInfoType, Shape(i), NEW m \in Modes,
           m # "R" => i.current < MaxVersion,
           \A v \in Version : i.dv[v].readers \in Nat /\ i.dv[v].writters \in Nat,
           Tidy(i)
    PROVE  Tidy(WillAccess(i, m)) /\ WillAccess(i, m).blocks = i.blocks
  <1> DEFINE j == WillAccess(i, m)
  <1>1. j.blocks = i.blocks
    <2>1. \A k \in DataInfoType : WillBeRead(k).blocks = k.blocks /\ WillBeWritten(k).blocks = k.blocks
      BY DEF WillBeRead, WillBeWritten, DataInfoType
    <2>2. WillBeRead(i) \in DataInfoType
      BY WillBeReadStep
    <2> QED  BY <2>1, <2>2 DEF WillAccess, Modes
  <1>2. /\ j.versions = i.versions \cup (IF m = "R" THEN {} ELSE {i.current + 1})
        /\ \A v \in Version :
              /\ j.dv[v].readers = i.dv[v].readers + (IF v = AccessId(i, m).r THEN 1 ELSE 0)
              /\ j.dv[v].writters = i.dv[v].writters + (IF v = AccessId(i, m).w THEN 1 ELSE 0)
              /\ j.dv[v].toDelete = i.dv[v].toDelete
    BY WillAccessStep
  <1>3. i.versions \subseteq Version /\ i.current \in Version
    BY DEF DataInfoType
  <1> HIDE DEF j
  <1>4. ASSUME NEW v \in j.versions
        PROVE  ~CheckDeletion(j, v)
    <2>1. CASE v \in i.versions
      <3>1. v \in Version /\ ~CheckDeletion(i, v)
        BY <1>3, <2>1 DEF Tidy
      <3> QED  BY <1>2, <3>1 DEF CheckDeletion, Idle
    <2>2. CASE v \notin i.versions
      <3>1. v = i.current + 1 /\ m # "R"
        BY <1>2, <1>4, <2>2
      <3>2. v \in Version /\ v > i.current
        BY <1>3, <3>1, MaxVersionAssumption DEF Version
      <3>3. ~i.dv[v].toDelete
        BY <3>2 DEF Shape
      <3> QED  BY <1>2, <3>2, <3>3 DEF CheckDeletion
    <2> QED  BY <2>1, <2>2
  <1> QED  BY <1>1, <1>4 DEF Tidy, j

-----------------------------------------------------------------------------
(* Preservation of the invariant, one lemma per kind of request.           *)

(* The applications that retrieve a datum are finitely many.               *)
LEMMA FiniteRetrievers ==
    ASSUME NEW S \in SUBSET Apps
    PROVE  IsFiniteSet(S) /\ Cardinality(S) \in Nat
  BY AppsAssumption, FS_Subset, FS_CardinalityType

(* The registration of an access.                                          *)
LEMMA RegisterKeepsDeletions ==
    ASSUME IInv, DInv, NEW s \in Accesses, NEW by, NEW a \in Apps, NEW d \in Data,
           NEW m \in Modes, RegisterFileAccess(s, by, a, d, m),
           phase' = phase, resultFiles' = resultFiles, abandoned' = abandoned
    PROVE  DInv'
  <1> DEFINE i == info[d]
             j == WillAccess(i, m)
  <1>1. /\ i \in DataInfoType /\ Shape(i) /\ Counted(d) /\ Tidy(i)
        /\ info \in [Data -> DataInfoType] /\ gone \subseteq Data
    BY DEF IInv, DInv, TypeOK
  <1>2. /\ info' = [info EXCEPT ![d] = j] /\ (m # "R" => i.current < MaxVersion)
        /\ gone' = (IF m = "W" THEN gone \ {d} ELSE gone) /\ (d \in gone => m = "W")
    BY DEF RegisterFileAccess, MayAccess
  <1>3. \A v \in Version : i.dv[v].readers \in Nat /\ i.dv[v].writters \in Nat
    BY <1>1, FiniteAccesses DEF Counted
  <1>4. Tidy(j) /\ j.blocks = i.blocks
    BY <1>1, <1>2, <1>3, WillAccessTidies
  <1> HIDE DEF j
  <1>5. \A e \in Data : Tidy(info'[e])
    BY <1>1, <1>2, <1>4 DEF DInv
  <1>6. \A e \in Data : info'[e].blocks = info[e].blocks
    BY <1>1, <1>2, <1>4
  <1>7. \A e \in gone' : e \in gone /\ info'[e] = info[e]
    BY <1>1, <1>2
  <1>8. \A e : Retrievers(e)' = Retrievers(e)
    BY DEF Retrievers
  <1>9. \A e \in Data \ abandoned' : info'[e].blocks <= Cardinality(Retrievers(e)')
    BY <1>6, <1>8 DEF DInv
  <1>10. \A e \in gone' \ abandoned' : Deferred(info'[e])
    BY <1>7 DEF DInv
  <1> QED  BY <1>5, <1>9, <1>10 DEF DInv

(* The requests that register nothing and change no retrieval.             *)
LEMMA OthersKeepDeletions ==
    ASSUME IInv, DInv, phase' = phase, resultFiles' = resultFiles, abandoned \subseteq abandoned',
           gone' \subseteq Data,
           \A e \in Data :
               /\ Tidies(info[e], info'[e])
               /\ e \notin abandoned' => Defers(info[e], info'[e])
               /\ info'[e].blocks <= info[e].blocks
               /\ e \in gone' => e \in gone \/ Deferred(info'[e])
    PROVE  DInv'
  <1>1. \A e : Retrievers(e)' = Retrievers(e) /\ Cardinality(Retrievers(e)) \in Nat
    BY FiniteRetrievers DEF Retrievers
  <1>2. \A e \in Data : info'[e].blocks \in Int /\ info[e].blocks \in Int
    BY DEF IInv, TypeOK, Tidies, DataInfoType
  <1>3. \A e \in Data : Tidy(info'[e])
    BY DEF DInv, Tidies, Defers
  <1>4. \A e \in Data \ abandoned' : info'[e].blocks <= Cardinality(Retrievers(e)')
    <2> SUFFICES ASSUME NEW e \in Data \ abandoned'
                 PROVE  info'[e].blocks <= Cardinality(Retrievers(e))
      BY <1>1
    <2>1. info[e].blocks <= Cardinality(Retrievers(e)) /\ info'[e].blocks <= info[e].blocks
      BY DEF DInv
    <2> QED  BY <1>1, <1>2, <2>1
  <1>5. \A e \in gone' \ abandoned' : Deferred(info'[e])
    BY DEF DInv, Tidies, Defers
  <1> QED  BY <1>3, <1>4, <1>5 DEF DInv

(* The end of a task: its accesses, and the transfer of its result file.   *)
LEMMA TaskEndsKeepsDeletions ==
    ASSUME IInv, DInv, NEW s \in Accesses, TaskEnds(s)
    PROVE  DInv'
  <1> DEFINE x == acc[s]
             i == info[x.data]
             j == AccessDone(i, x)
             k == CheckResultFileTransfer(j)
  <1>1. x \in AccessType /\ x.data \in Data
    BY TaskEndsType DEF AccessType
  <1>2. i \in DataInfoType /\ info \in [Data -> DataInfoType] /\ gone \subseteq Data
    BY <1>1 DEF IInv, TypeOK
  <1>3. Tidies(i, j) /\ Defers(i, j) /\ j.blocks = i.blocks
    BY <1>1, <1>2, AccessDoneTidies
  <1>4. j \in DataInfoType
    BY <1>3 DEF Tidies
  <1>5. /\ Tidies(j, k) /\ k.blocks <= j.blocks
        /\ ~UnblockThrows(BlockDataAndGetResultFile(j)) => Defers(j, k)
    BY <1>4, CheckResultFileTidies
  <1>6. /\ \/ info' = [info EXCEPT ![x.data] = j] /\ abandoned' = abandoned
           \/ /\ info' = [info EXCEPT ![x.data] = k]
              /\ abandoned' = IF UnblockThrows(BlockDataAndGetResultFile(j))
                              THEN abandoned \cup {x.data} ELSE abandoned
        /\ gone' = gone /\ phase' = phase /\ resultFiles' = resultFiles
    BY DEF TaskEnds
  <1> HIDE DEF i, j, k, x
  <1>7. i = info[x.data]
    BY DEF i
  <1>8. i.blocks \in Int /\ j.blocks \in Int /\ k.blocks \in Int
    BY <1>2, <1>4, <1>5 DEF DataInfoType, Tidies
  <1>9. \A e \in Data : Tidies(info[e], info[e]) /\ Defers(info[e], info[e]) /\ info[e].blocks \in Int
    BY <1>2 DEF Tidies, Defers, DataInfoType
  <1>10. /\ abandoned \subseteq abandoned'
         /\ \A e \in Data : e # x.data => info'[e] = info[e]
    BY <1>1, <1>2, <1>6
  <1>11. \/ info'[x.data] = j
         \/ info'[x.data] = k /\ (x.data \notin abandoned' => Defers(j, k))
    BY <1>1, <1>2, <1>5, <1>6
  <1>12. \A e \in Data :
            /\ Tidies(info[e], info'[e])
            /\ e \notin abandoned' => Defers(info[e], info'[e])
            /\ info'[e].blocks <= info[e].blocks
    <2> SUFFICES ASSUME NEW e \in Data
                 PROVE  /\ Tidies(info[e], info'[e])
                        /\ e \notin abandoned' => Defers(info[e], info'[e])
                        /\ info'[e].blocks <= info[e].blocks
      OBVIOUS
    <2>1. CASE e # x.data
      BY <1>9, <1>10, <2>1
    <2>2. CASE e = x.data /\ info'[e] = j
      BY <1>3, <1>7, <1>8, <2>2
    <2>3. CASE e = x.data /\ info'[e] = k /\ (e \notin abandoned' => Defers(j, k))
      <3>1. Tidies(i, k) /\ (e \notin abandoned' => Defers(i, k))
        BY <1>3, <1>5, <2>3 DEF Tidies, Defers
      <3>2. k.blocks <= i.blocks
        BY <1>3, <1>5, <1>8
      <3> QED  BY <1>7, <2>3, <3>1, <3>2
    <2> QED  BY <1>11, <2>1, <2>2, <2>3
  <1> QED  BY <1>2, <1>6, <1>10, <1>12, OthersKeepDeletions

(* A deletion by a program.                                                *)
LEMMA DeleteFileKeepsDeletions ==
    ASSUME IInv, DInv, NEW a \in Apps, NEW d \in Data, DeleteFile(a, d)
    PROVE  DInv'
  <1>1. /\ info[d] \in DataInfoType /\ info \in [Data -> DataInfoType] /\ gone \subseteq Data
    BY DEF IInv, TypeOK
  <1>2. /\ info' = [info EXCEPT ![d] = Delete(info[d])] /\ gone' = gone \cup {d}
        /\ phase' = phase /\ resultFiles' = resultFiles /\ abandoned' = abandoned
    BY DEF DeleteFile
  <1>3. /\ Tidies(info[d], Delete(info[d])) /\ Defers(info[d], Delete(info[d]))
        /\ Delete(info[d]).blocks = info[d].blocks /\ Deferred(Delete(info[d]))
    BY <1>1, DeleteTidies
  <1>4. \A e \in Data : Tidies(info[e], info[e]) /\ Defers(info[e], info[e]) /\ info[e].blocks \in Int
    BY <1>1 DEF Tidies, Defers, DataInfoType
  <1>5. \A e \in Data : /\ Tidies(info[e], info'[e])
                        /\ e \notin abandoned' => Defers(info[e], info'[e])
                        /\ info'[e].blocks <= info[e].blocks
                        /\ e \in gone' => e \in gone \/ Deferred(info'[e])
    BY <1>1, <1>2, <1>3, <1>4
  <1> QED  BY <1>1, <1>2, <1>5, OthersKeepDeletions

(* The request for the result files blocks those that it retrieves.        *)
LEMMA GetResultFilesKeepsDeletions ==
    ASSUME IInv, DInv, NEW a \in Apps, GetResultFiles(a)
    PROVE  DInv'
  <1>1. /\ \A e \in Data : info[e] \in DataInfoType
        /\ resultFiles \in [Apps -> SUBSET Data] /\ phase \in [Apps -> {"running", "noMoreTasks", "results", "ended"}]
        /\ gone \subseteq Data /\ written[a] \subseteq Data
    BY DEF IInv, TypeOK
  <1>2. /\ \A e \in Data : info'[e] = IF e \in written[a] THEN BlockDataAndGetResultFile(info[e])
                                                         ELSE info[e]
        /\ resultFiles' = [resultFiles EXCEPT ![a] = {e \in written[a] : ~IsCurrentVersionToDelete(info[e])}]
        /\ phase' = [phase EXCEPT ![a] = "results"] /\ phase[a] = "noMoreTasks"
        /\ gone' = gone /\ abandoned' = abandoned
    BY DEF GetResultFiles
  <1>3. \A e \in Data :
           /\ Tidies(info[e], info'[e]) /\ Defers(info[e], info'[e])
           /\ info[e].blocks \in Int
           /\ info'[e].blocks = IF e \in resultFiles'[a] THEN info[e].blocks + 1 ELSE info[e].blocks
    <2> SUFFICES ASSUME NEW e \in Data
                 PROVE  /\ Tidies(info[e], info'[e]) /\ Defers(info[e], info'[e])
                        /\ info[e].blocks \in Int
                        /\ info'[e].blocks = IF e \in resultFiles'[a] THEN info[e].blocks + 1
                                                                     ELSE info[e].blocks
      OBVIOUS
    <2>1. info[e].blocks \in Int /\ info[e] \in DataInfoType
      BY <1>1 DEF DataInfoType
    <2>2. e \in resultFiles'[a] <=> e \in written[a] /\ ~IsCurrentVersionToDelete(info[e])
      BY <1>1, <1>2
    <2>3. CASE e \in written[a]
      BY <1>2, <2>1, <2>2, <2>3, ResultFileTidies
    <2>4. CASE e \notin written[a]
      BY <1>2, <2>1, <2>2, <2>4 DEF Tidies, Defers
    <2> QED  BY <2>3, <2>4
  <1>4. resultFiles[a] = {}
    BY <1>2 DEF DInv
  <1>5. \A e \in Data : /\ a \notin Retrievers(e)
                        /\ Retrievers(e)' = IF e \in resultFiles'[a] THEN Retrievers(e) \cup {a}
                                                                    ELSE Retrievers(e)
    BY <1>1, <1>2, <1>4 DEF Retrievers
  <1>6. \A e \in Data : Tidy(info'[e])
    BY <1>3 DEF DInv, Tidies
  <1>7. ASSUME NEW e \in Data \ abandoned'
        PROVE  info'[e].blocks <= Cardinality(Retrievers(e)')
    <2>1. IsFiniteSet(Retrievers(e)) /\ Cardinality(Retrievers(e)) \in Nat
      BY FiniteRetrievers DEF Retrievers
    <2>2. info[e].blocks <= Cardinality(Retrievers(e))
      BY <1>2, <1>7 DEF DInv
    <2>3. CASE e \in resultFiles'[a]
      <3>1. Cardinality(Retrievers(e) \cup {a}) = Cardinality(Retrievers(e)) + 1
        BY <1>5, <2>1, FS_AddElement
      <3>2. info'[e].blocks = info[e].blocks + 1 /\ info[e].blocks \in Int
        BY <1>3, <2>3
      <3>3. Cardinality(Retrievers(e)') = Cardinality(Retrievers(e)) + 1
        BY <1>5, <2>3, <3>1
      <3> QED  BY <2>1, <2>2, <3>2, <3>3
    <2>4. CASE e \notin resultFiles'[a]
      BY <1>3, <1>5, <2>2, <2>4
    <2> QED  BY <2>3, <2>4
  <1>8. \A e \in gone' \ abandoned' : Deferred(info'[e])
    BY <1>1, <1>2, <1>3 DEF DInv, Defers
  <1>9. \A b \in Apps : resultFiles'[b] # {} => phase'[b] = "results"
    BY <1>1, <1>2 DEF DInv
  <1> QED  BY <1>6, <1>7, <1>8, <1>9 DEF DInv

(* The end of the retrieval unblocks them, up to the first that throws.    *)
LEMMA UnblockResultFilesKeepsDeletions ==
    ASSUME IInv, DInv, NEW a \in Apps, UnblockResultFiles(a)
    PROVE  DInv'
  <1> DEFINE throwing == {d \in resultFiles[a] : UnblockThrows(info[d])}
             treated == {d \in resultFiles[a] : \A e \in throwing : d <= e}
             given == {d \in resultFiles[a] : \E e \in throwing : e <= d}
  <1>1. /\ \A e \in Data : info[e] \in DataInfoType /\ info[e].blocks \in Int
        /\ resultFiles \in [Apps -> SUBSET Data] /\ phase \in [Apps -> {"running", "noMoreTasks", "results", "ended"}]
        /\ gone \subseteq Data
    BY DEF IInv, TypeOK, DataInfoType
  <1>2. /\ \A e \in Data : info'[e] = IF e \in treated THEN UnblockDeletions(info[e]) ELSE info[e]
        /\ resultFiles' = [resultFiles EXCEPT ![a] = {}]
        /\ phase' = [phase EXCEPT ![a] = "ended"]
        /\ gone' = gone /\ abandoned' = abandoned \cup given
    BY DEF UnblockResultFiles
  <1>3. ASSUME NEW e \in Data, e \notin given, e \in resultFiles[a]
        PROVE  e \in treated /\ ~UnblockThrows(info[e])
    <2>1. \A n \in Data : n \in Nat
      BY DataAssumption
    <2>2. \A d \in throwing : d \in Nat /\ ~(d <= e)
      BY <1>1, <1>3, <2>1
    <2>3. e \notin throwing
      BY <2>1, <2>2
    <2> QED  BY <1>3, <2>1, <2>2, <2>3
  <1> HIDE DEF treated, given
  <1>4. \A e \in Data :
           /\ Tidies(info[e], info'[e])
           /\ e \notin given => Defers(info[e], info'[e])
           /\ e \notin given => info'[e].blocks = IF e \in resultFiles[a] THEN info[e].blocks - 1
                                                                         ELSE info[e].blocks
    <2> SUFFICES ASSUME NEW e \in Data
                 PROVE  /\ Tidies(info[e], info'[e])
                        /\ e \notin given => Defers(info[e], info'[e])
                        /\ e \notin given => info'[e].blocks = IF e \in resultFiles[a]
                                                               THEN info[e].blocks - 1
                                                               ELSE info[e].blocks
      OBVIOUS
    <2>1. CASE e \in treated
      <3>1. e \in resultFiles[a]
        BY <2>1 DEF treated
      <3> QED  BY <1>1, <1>2, <1>3, <2>1, <3>1, UnblockTidies
    <2>2. CASE e \notin treated
      <3>1. info'[e] = info[e] /\ (e \notin given => e \notin resultFiles[a])
        BY <1>2, <1>3, <2>2
      <3> QED  BY <1>1, <3>1 DEF Tidies, Defers
    <2> QED  BY <2>1, <2>2
  <1>5. \A e \in Data : Retrievers(e)' = Retrievers(e) \ {a}
    BY <1>1, <1>2 DEF Retrievers
  <1>6. \A e \in Data : a \in Retrievers(e) <=> e \in resultFiles[a]
    BY DEF Retrievers
  <1>7. \A e \in Data : Tidy(info'[e])
    BY <1>4 DEF DInv, Tidies
  <1>8. ASSUME NEW e \in Data \ abandoned'
        PROVE  info'[e].blocks <= Cardinality(Retrievers(e)')
    <2>1. IsFiniteSet(Retrievers(e)) /\ Cardinality(Retrievers(e)) \in Nat
      BY FiniteRetrievers DEF Retrievers
    <2>2. info[e].blocks <= Cardinality(Retrievers(e)) /\ e \notin given /\ info[e].blocks \in Int
      BY <1>1, <1>2, <1>8 DEF DInv
    <2>3. CASE e \in resultFiles[a]
      <3>1. Cardinality(Retrievers(e) \ {a}) = Cardinality(Retrievers(e)) - 1
        BY <1>6, <2>1, <2>3, FS_RemoveElement
      <3>2. info'[e].blocks = info[e].blocks - 1
        BY <1>4, <2>2, <2>3
      <3>3. Cardinality(Retrievers(e)') = Cardinality(Retrievers(e)) - 1
        BY <1>5, <3>1
      <3> QED  BY <2>1, <2>2, <3>2, <3>3
    <2>4. CASE e \notin resultFiles[a]
      <3>1. Retrievers(e)' = Retrievers(e)
        BY <1>5, <1>6, <2>4
      <3> QED  BY <1>4, <2>2, <2>4, <3>1
    <2> QED  BY <2>3, <2>4
  <1>9. \A e \in gone' \ abandoned' : Deferred(info'[e])
    BY <1>1, <1>2, <1>4 DEF DInv, Defers
  <1>10. \A b \in Apps : resultFiles'[b] # {} => phase'[b] = "results"
    BY <1>1, <1>2 DEF DInv
  <1> QED  BY <1>7, <1>8, <1>9, <1>10 DEF DInv

(* Every request preserves the invariant.                                  *)
LEMMA NextKeepsDeletions ==
    ASSUME IInv, DInv, [Next]_vars
    PROVE  DInv'
  <1>1. ASSUME NEW s \in Accesses, NEW a \in Apps, NEW d \in Data, NEW m \in Modes,
               TaskAccess(s, a, d, m) \/ MainAccess(s, a, d, m)
        PROVE  DInv'
    BY <1>1, RegisterKeepsDeletions DEF TaskAccess, MainAccess
  <1>2. ASSUME NEW s \in Accesses, TaskEnds(s)
        PROVE  DInv'
    BY <1>2, TaskEndsKeepsDeletions
  <1>3. ASSUME NEW a \in Apps, NEW d \in Data, DeleteFile(a, d)
        PROVE  DInv'
    BY <1>3, DeleteFileKeepsDeletions
  <1>4. ASSUME NEW a \in Apps, NoMoreTasks(a)
        PROVE  DInv'
    <2>1. /\ UNCHANGED <<info, resultFiles, gone, abandoned>>
          /\ phase' = [phase EXCEPT ![a] = "noMoreTasks"] /\ phase[a] = "running"
      BY <1>4 DEF NoMoreTasks
    <2>2. \A e : Retrievers(e)' = Retrievers(e)
      BY <2>1 DEF Retrievers
    <2>3. \A b \in Apps : resultFiles'[b] # {} => phase'[b] = "results"
      BY <2>1 DEF DInv, IInv, TypeOK
    <2> QED  BY <2>1, <2>2, <2>3 DEF DInv
  <1>5. ASSUME NEW a \in Apps, GetResultFiles(a) \/ UnblockResultFiles(a)
        PROVE  DInv'
    BY <1>5, GetResultFilesKeepsDeletions, UnblockResultFilesKeepsDeletions
  <1>6. CASE UNCHANGED vars
    <2>1. \A e : Retrievers(e)' = Retrievers(e)
      BY <1>6 DEF Retrievers, vars
    <2> QED  BY <1>6, <2>1 DEF DInv, vars
  <1> QED  BY <1>1, <1>2, <1>3, <1>4, <1>5, <1>6 DEF Next

(* At the start nothing is marked, blocked or deleted.                     *)
LEMMA InitKeepsDeletions ==
    ASSUME Init
    PROVE  DInv
  <1>1. \A d \in Data : Tidy(info[d]) /\ info[d].blocks = 0
    BY MaxVersionAssumption
       DEF Init, NewDataInfo, NewDataVersion, Tidy, CheckDeletion, Version
  <1>2. \A d \in Data : info[d].blocks <= Cardinality(Retrievers(d))
    BY <1>1, FiniteRetrievers DEF Retrievers
  <1> QED  BY <1>1, <1>2 DEF DInv, Init

-----------------------------------------------------------------------------
(* The invariant holds in every reachable state.                           *)
THEOREM DeletionInvariant == Spec => [](IInv /\ DInv)
  <1>1. Init => IInv /\ DInv
    BY InitEstablishes, InitKeepsDeletions
  <1>2. (IInv /\ DInv) /\ [Next]_vars => (IInv /\ DInv)'
    BY NextPreserves, NextKeepsDeletions
  <1> QED  BY <1>1, <1>2, PTL DEF Spec

(* versionHasBeenRead and versionHasBeenWritten remove a marked version    *)
(* with its last access, and a deletion those without any.                 *)
THEOREM NothingIdleIsLeft == Spec => []NoDeletedLeftover
  <1>1. IInv /\ DInv => NoDeletedLeftover
    BY DEF IInv, TypeOK, DInv, Tidy, NoDeletedLeftover
  <1> QED  BY <1>1, DeletionInvariant, PTL

(* Every blockDeletions is paired with an unblockDeletions, by the         *)
(* application that retrieves or within the end of a task, up to its       *)
(* exception.                                                              *)
THEOREM BlocksArePaired == Spec => []NoBlockLeft
  <1>1. IInv /\ DInv => NoBlockLeft
    BY DEF IInv, TypeOK, DInv, Retrievers, NoBlockLeft
  <1> QED  BY <1>1, DeletionInvariant, PTL

(* A deletion, deferred by accesses or queued by blocks, removes the file  *)
(* when the last of them ends, up to the exception of unblockDeletions.    *)
THEOREM DeletionsComplete == Spec => []DeletionCompletes
  <1>1. IInv /\ DInv => DeletionCompletes
    <2> SUFFICES ASSUME IInv, DInv, NEW d \in gone \ abandoned, \A s \in Active : acc[s].data # d,
                        \A a \in Apps : d \notin resultFiles[a], NEW v \in info[d].versions
                 PROVE  FALSE
      BY DEF DeletionCompletes
    <2>1. d \in Data /\ info[d] \in DataInfoType /\ v \in Version
      BY DEF IInv, TypeOK, DataInfoType
    <2>2. Retrievers(d) = {} /\ Cardinality(Retrievers(d)) = 0
      BY FS_EmptySet DEF Retrievers
    <2>3. ~(info[d].blocks > 0)
      <3>1. info[d].blocks <= Cardinality(Retrievers(d)) /\ info[d].blocks \in Int
        BY <2>1 DEF DInv, DataInfoType
      <3> QED  BY <2>2, <3>1
    <2>4. info[d].dv[v].toDelete
      BY <2>3 DEF DInv, Deferred
    <2>5. ReadersOf(d, v) = {} /\ WritersOf(d, v) = {} /\ Cardinality({}) = 0
      BY FS_EmptySet DEF ReadersOf, WritersOf
    <2>6. Idle(info[d], v)
      BY <2>1, <2>5 DEF IInv, Counted, Idle
    <2> QED  BY <2>1, <2>4, <2>6 DEF DInv, Tidy, CheckDeletion
  <1> QED  BY <1>1, DeletionInvariant, PTL
=============================================================================
