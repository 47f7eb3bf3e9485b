-------------------------- MODULE DataInfoProvider --------------------------
(***************************************************************************)
(* The data registry of the master (DataInfoProvider, DataInfo,            *)
(* DataVersion) under the requests that reach it through the Access        *)
(* Processor: accesses of tasks and of the main programs, ends of tasks,   *)
(* file deletions, and the retrieval of the result files of an             *)
(* application.  One action is one request handled by the Access           *)
(* Processor thread, which is the only thread that touches this state.     *)
(*                                                                         *)
(* A task is seen here as the one access it makes; the dependencies        *)
(* between tasks are the subject of AccessProcessor.  Abstracted: where a  *)
(* version is stored, objects (they follow the code of files, except that  *)
(* they are never deleted nor results) and persistent objects.             *)
(***************************************************************************)
EXTENDS DataInfo

CONSTANTS
    Data,         \* identifiers of files, as integers: result files are visited in this order
    Apps,         \* applications (main programs) sharing the runtime
    Accesses,     \* identities for the accesses registered and not yet accounted as done
    MaxPending    \* bound on the deletions queued while a datum is blocked

ASSUME DataAssumption == Data \subseteq Nat /\ IsFiniteSet(Data)
ASSUME AppsAssumption == IsFiniteSet(Apps)
ASSUME AccessesAssumption == IsFiniteSet(Accesses)
ASSUME MaxPendingAssumption == MaxPending \in Nat

VARIABLES
    known,        \* data in nameToId / idToData
    info,         \* DataInfo record of each known datum
    acc,          \* outstanding accesses: tasks not ended, main accesses (never ended)
    lastTaskWrite,\* version written by TaskAnalyser.writers[d], NoVersion if none
    written,      \* appIdToWrittenFiles
    phase,        \* what each main program is doing
    resultFiles,  \* files blocked by the GetResultFiles request of an application
    gone,         \* data deleted and not written again since (the programs' own knowledge)
    abandoned     \* data whose unblocking an exception cut short or prevented (history)

vars == <<known, info, acc, lastTaskWrite, written, phase, resultFiles, gone, abandoned>>

Modes == {"R", "W", "RW"}

NoAccess == [by |-> "nobody"]

AccessType == [by : {"task", "main"}, app : Apps, data : Data,
               r : Version \cup {NoVersion}, w : Version \cup {NoVersion},
               preserve : BOOLEAN]

Active == {s \in Accesses : acc[s] # NoAccess}

TaskAccesses(a) == {s \in Active : acc[s].by = "task" /\ acc[s].app = a}

ReadersOf(d, v) == {s \in Active : acc[s].data = d /\ acc[s].r = v}
WritersOf(d, v) == {s \in Active : acc[s].data = d /\ acc[s].w = v}

TypeOK ==
    /\ known \subseteq Data
    /\ info \in [Data -> DataInfoType]
    /\ acc \in [Accesses -> AccessType \cup {NoAccess}]
    /\ lastTaskWrite \in [Data -> Version \cup {NoVersion}]
    /\ written \in [Apps -> SUBSET Data]
    /\ phase \in [Apps -> {"running", "noMoreTasks", "results", "ended"}]
    /\ resultFiles \in [Apps -> SUBSET Data]
    /\ gone \subseteq Data
    /\ abandoned \subseteq Data

Init ==
    /\ known = {}
    /\ info = [d \in Data |-> NewDataInfo]
    /\ acc = [s \in Accesses |-> NoAccess]
    /\ lastTaskWrite = [d \in Data |-> NoVersion]
    /\ written = [a \in Apps |-> {}]
    /\ phase = [a \in Apps |-> "running"]
    /\ resultFiles = [a \in Apps |-> {}]
    /\ gone = {}
    /\ abandoned = {}

-----------------------------------------------------------------------------
(* willAccess: the versions an access is given, and the registry after it. *)
WillAccess(i, m) ==
    CASE m = "R"  -> WillBeRead(i)
      [] m = "W"  -> WillBeWritten(i)
      [] m = "RW" -> WillBeWritten(WillBeRead(i))

AccessIdFault(i, m) ==
    [r |-> IF m = "W" THEN NoVersion ELSE i.current,
     w |-> IF m = "R" THEN NoVersion ELSE i.current + 1,
     preserve |-> m = "R"]

AccessId(i, m) ==
    [r |-> IF m = "W" THEN NoVersion ELSE i.current,
     w |-> IF m = "R" THEN NoVersion ELSE i.current + 1,
     preserve |-> IF m = "RW" THEN IsToBeRead(i) ELSE m = "R"]

(* A program does not read a file it deleted ("File Won't be read by any   *)
(* future task or from the main code", DeleteFileRequest.java:40) until it *)
(* has been written again.                                                 *)
MayAccess(d, m) ==
    /\ d \in gone => m = "W"
    /\ m # "R" => info[d].current < MaxVersion

RegisterFileAccess(s, by, a, d, m) ==
    LET id == AccessId(info[d], m)
    IN  /\ acc[s] = NoAccess
        /\ MayAccess(d, m)
        /\ known' = known \cup {d}
        /\ info' = [info EXCEPT ![d] = WillAccess(@, m)]
        /\ acc' = [acc EXCEPT ![s] = [by |-> by, app |-> a, data |-> d, r |-> id.r,
                                      w |-> id.w, preserve |-> id.preserve]]
        /\ gone' = IF m = "W" THEN gone \ {d} ELSE gone

(* TaskAnalysisRequest: processTask registers the access of the parameter  *)
(* and, if it writes, the task as last writer and the file as result file. *)
TaskAccess(s, a, d, m) ==
    /\ phase[a] = "running"
    /\ RegisterFileAccess(s, "task", a, d, m)
    /\ IF m = "R"
       THEN UNCHANGED <<lastTaskWrite, written>>
       ELSE /\ lastTaskWrite' = [lastTaskWrite EXCEPT ![d] = info'[d].current]
            /\ written' = [written EXCEPT ![a] = @ \cup {d}]
    /\ UNCHANGED <<phase, resultFiles, abandoned>>

(* mainAccessToFile: only a file some task has accessed is registered.     *)
(* Nothing ever tells the registry that the main program is done with it.  *)
MainAccess(s, a, d, m) ==
    /\ phase[a] = "running"
    /\ d \in known
    /\ RegisterFileAccess(s, "main", a, d, m)
    /\ UNCHANGED <<lastTaskWrite, written, phase, resultFiles, abandoned>>

-----------------------------------------------------------------------------
(* dataHasBeenAccessed.  A version that is not in `versions` any more is a *)
(* null dereference; PendingVersionsKept says that it never is one.        *)
AccessDone(i, x) ==
    LET j == IF x.r = NoVersion THEN i ELSE VersionHasBeenRead(i, x.r)
    IN  IF x.w = NoVersion THEN j ELSE VersionHasBeenWritten(j, x.w)

BlockDataAndGetResultFileFault(i) ==
    IF IsCurrentVersionToDelete(i) THEN BlockDeletions(Delete(i)) ELSE BlockDeletions(i)

(* blockDataAndGetResultFile: a file whose current version is to be        *)
(* deleted is deleted again instead of being retrieved.                    *)
BlockDataAndGetResultFile(i) ==
    IF IsCurrentVersionToDelete(i) THEN Delete(i) ELSE BlockDeletions(i)

(* checkResultFileTransfer, for the end of the last writer of a file while *)
(* its application waits in noMoreTasks for other tasks: the transfer is   *)
(* ordered between a block and an unblock (which an empty block, for a     *)
(* file to be deleted, makes an unblock too many).                         *)
CheckResultFileTransfer(i) == UnblockDeletions(BlockDataAndGetResultFile(i))

TaskEnds(s) ==
    LET x == acc[s]
        done == AccessDone(info[x.data], x)
        generationEnded == /\ phase[x.app] = "noMoreTasks"
                           /\ TaskAccesses(x.app) # {s}
        isLastWriter == x.w # NoVersion /\ x.w = lastTaskWrite[x.data]
        retrieved == generationEnded /\ isLastWriter
    IN  /\ acc[s] # NoAccess
        /\ x.by = "task"
        /\ info' = [info EXCEPT ![x.data] =
                      IF retrieved THEN CheckResultFileTransfer(done) ELSE done]
        /\ abandoned' = IF retrieved /\ UnblockThrows(BlockDataAndGetResultFile(done))
                        THEN abandoned \cup {x.data} ELSE abandoned
        /\ acc' = [acc EXCEPT ![s] = NoAccess]
        /\ UNCHANGED <<known, lastTaskWrite, written, phase, resultFiles, gone>>

(* DeleteFileRequest.  TaskAnalyser.deleteFile changes nothing: a file has *)
(* result-file entries only if it has a task as last writer, and then the  *)
(* method returns.                                                         *)
DeleteFile(a, d) ==
    /\ phase[a] = "running"
    /\ d \in known
    /\ info[d].blocks > 0 => Len(info[d].pending) < MaxPending
    /\ info' = [info EXCEPT ![d] = Delete(@)]
    /\ gone' = gone \cup {d}
    /\ UNCHANGED <<known, acc, lastTaskWrite, written, phase, resultFiles, abandoned>>

NoMoreTasks(a) ==
    /\ phase[a] = "running"
    /\ phase' = [phase EXCEPT ![a] = "noMoreTasks"]
    /\ UNCHANGED <<known, info, acc, lastTaskWrite, written, resultFiles, gone, abandoned>>

(* GetResultFilesRequest, issued when noMoreTasks has returned.            *)
GetResultFiles(a) ==
    /\ phase[a] = "noMoreTasks"
    /\ TaskAccesses(a) = {}
    /\ info' = [d \in Data |-> IF d \in written[a] THEN BlockDataAndGetResultFile(info[d])
                                                   ELSE info[d]]
    /\ resultFiles' = [resultFiles EXCEPT ![a] =
                         {d \in written[a] : ~IsCurrentVersionToDelete(info[d])}]
    /\ written' = [written EXCEPT ![a] = {}]
    /\ phase' = [phase EXCEPT ![a] = "results"]
    /\ UNCHANGED <<known, acc, lastTaskWrite, gone, abandoned>>

(* UnblockResultFilesRequest, offered when the transfers have ended.  The  *)
(* first unblock that throws abandons the rest of the files.               *)
UnblockResultFiles(a) ==
    LET throwing == {d \in resultFiles[a] : UnblockThrows(info[d])}
        treated == {d \in resultFiles[a] : \A e \in throwing : d <= e}
    IN  /\ phase[a] = "results"
        /\ info' = [d \in Data |-> IF d \in treated THEN UnblockDeletions(info[d])
                                                    ELSE info[d]]
        /\ abandoned' = abandoned \cup {d \in resultFiles[a] : \E e \in throwing : e <= d}
        /\ resultFiles' = [resultFiles EXCEPT ![a] = {}]
        /\ phase' = [phase EXCEPT ![a] = "ended"]
        /\ UNCHANGED <<known, acc, lastTaskWrite, written, gone>>

Next ==
    \/ \E s \in Accesses, a \in Apps, d \in Data, m \in Modes :
            TaskAccess(s, a, d, m) \/ MainAccess(s, a, d, m)
    \/ \E s \in Accesses : TaskEnds(s)
    \/ \E a \in Apps, d \in Data : DeleteFile(a, d)
    \/ \E a \in Apps : NoMoreTasks(a) \/ GetResultFiles(a) \/ UnblockResultFiles(a)

Spec == Init /\ [][Next]_vars

-----------------------------------------------------------------------------
(* No version is removed under an access that is still outstanding: the    *)
(* deletions of DataInfo and DataVersion, the deletions queued while a     *)
(* datum is blocked and the ends of other tasks leave alone every version  *)
(* that a pending task or the main program reads or writes, so that        *)
(* versionHasBeenRead/Written never dereference a missing version.         *)
PendingVersionsKept ==
    \A s \in Active :
        /\ acc[s].r # NoVersion => acc[s].r \in info[acc[s].data].versions
        /\ acc[s].w # NoVersion => acc[s].w \in info[acc[s].data].versions

(* An INOUT access registered without preserveSourceData lets the worker   *)
(* move (not copy) its source: nobody else ever reads that version while   *)
(* the access is outstanding, accesses registered later included.          *)
SourceNotStolen ==
    \A s \in Active :
        (acc[s].r # NoVersion /\ acc[s].w # NoVersion /\ ~acc[s].preserve)
            => ReadersOf(acc[s].data, acc[s].r) = {s}

(* A version marked for deletion is removed as soon as its last reader or  *)
(* writer is accounted for: none is left behind idle.                      *)
NoDeletedLeftover ==
    \A d \in known : \A v \in info[d].versions :
        ~CheckDeletion(info[d], v)

(* Once a file is deleted, no access to it is outstanding and nobody       *)
(* retrieves it, no version of it remains, whatever was queued in          *)
(* pendingDeletions meanwhile, unless the null dereference in              *)
(* unblockDeletions abandoned its deletion.                                *)
DeletionCompletes ==
    \A d \in gone \ abandoned :
        ((\A s \in Active : acc[s].data # d) /\ (\A a \in Apps : d \notin resultFiles[a]))
            => info[d].versions = {}

(* blockDataAndGetResultFile walks back from the current version until it  *)
(* finds one that exists; previousVersionRenaming never returns null, so   *)
(* the walk ends only because the current version, when it is not to be    *)
(* deleted, is always registered.                                          *)
ResultSearchTerminates ==
    \A d \in known : ~IsCurrentVersionToDelete(info[d]) => info[d].current \in info[d].versions

(* Deletions are not blocked on behalf of nobody: a datum has at most as   *)
(* many blocks as applications retrieving it, unless the exception in      *)
(* unblockDeletions, of this datum or of one before it, cut the unblocking *)
(* of the result files short.                                              *)
NoBlockLeft ==
    \A d \in known \ abandoned : info[d].blocks <= Cardinality({a \in Apps : d \in resultFiles[a]})

-----------------------------------------------------------------------------
(* What the documentation says and the code does not do.                   *)

(* "Deletes the specified file and its renamings" (TaskAnalyser.java:509): *)
(* with no task left on a deleted file and nobody retrieving it, none of   *)
(* its versions remains.                                                   *)
DeletedFileIsRemoved ==
    \A d \in gone :
        (/\ \A s \in Active : acc[s].data = d => acc[s].by = "main"
         /\ \A a \in Apps : d \notin resultFiles[a])
            => info[d].versions = {}
=============================================================================
