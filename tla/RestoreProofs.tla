---------------------------- MODULE RestoreProofs ----------------------------
(***************************************************************************)
(* What is true of a restore for any set of targets and directories, any   *)
(* number of transactions and any number of faults.                        *)
(***************************************************************************)
EXTENDS RestoreProps, TLAPS

(***************************************************************************)
(* Every variable keeps its type: the local record and the two images are  *)
(* the only ones that need an argument.                                    *)
(***************************************************************************)
LEMMA NoLocalType == NoLocal \in Local
BY DEF NoLocal, Local, Content, Error

LEMMA StartType == TypeOK /\ Start => TypeOK'
<1> SUFFICES ASSUME TypeOK, Start PROVE TypeOK'
  OBVIOUS
<1>1. id' \in 0 .. MaxTx
  BY TxAssumption DEF TypeOK, Start
<1>2. tx' \in Local
  <2>1. PICK archived \in SUBSET Target :
          tx' = [NoLocal EXCEPT !.archived = archived, !.before = file,
                                !.found = fileOnDisk, !.there = dirs]
    BY DEF Start
  <2> QED
    BY <2>1, NoLocalType DEF TypeOK, Local
<1>3. /\ pc' = "read" /\ lock' = "restore" /\ exit' = None
      /\ UNCHANGED <<diskVars, imageVars, faults, unfinished>>
  BY DEF Start
<1> QED
  BY <1>1, <1>2, <1>3 DEF TypeOK, diskVars, imageVars, PC

LEMMA ReturnType ==
    ASSUME TypeOK, NEW code \in {None, 0, 1, 3, 4, 5}, Return(code)
    PROVE  /\ pc' \in PC /\ lock' \in {"free", "restore", "monitor"}
           /\ exit' \in {None, 0, 1, 3, 4, 5}
           /\ tx' \in Local
BY NoLocalType DEF Return, PC

LEMMA FaultType == TypeOK /\ Fault => faults' \in 0 .. MaxFaults
BY TxAssumption DEF TypeOK, Fault

LEMMA PutType ==
    ASSUME TypeOK, NEW t \in Target, NEW content \in Content, Put(t, content)
    PROVE  /\ file' \in [Target -> Content]
           /\ file'[t] = content
           /\ \A u \in Target \ {t} : file'[u] = file[u]
BY DEF TypeOK, Put

LEMMA SyncedType ==
    ASSUME TypeOK, NEW t \in Target, file' \in [Target -> Content], Synced(t)
    PROVE  /\ fileOnDisk' \in [Target -> Content]
           /\ fileOnDisk'[t] = file'[t]
           /\ \A u \in Target : fileOnDisk'[u] \in {fileOnDisk[u], file'[u]}
BY DEF TypeOK, Synced

LEMMA AbandonedType ==
    ASSUME TypeOK, Abandoned
    PROVE  unfinished' \in 0 .. MaxTx
BY DEF TypeOK, Abandoned

LEMMA CleanupType ==
    ASSUME TypeOK, Cleanup
    PROVE  images' \in [Tx -> Image] /\ faults' \in 0 .. MaxFaults
BY FaultType, TxAssumption DEF TypeOK, Cleanup, Image, Fault

LEMMA DatesType ==
    ASSUME TypeOK, NEW kept, KeepDates(kept) PROVE createdAt' \in [Tx -> Time]
BY TimeAssumption DEF TypeOK, KeepDates, Time

LEMMA PathType ==
    ASSUME NEW t \in Target
    PROVE  /\ Parent[t] \in Dir /\ Path[Parent[t]] \subseteq Dir
           /\ Parent[t] \in Path[Parent[t]]
           /\ \A d \in Path[Parent[t]] : Path[d] \subseteq Dir
BY TargetAssumption

LEMMA RootType ==
    SnapshotRoot \in Path[SnapshotRoot] /\ Path[SnapshotRoot] \subseteq Dir
BY TargetAssumption

(***************************************************************************)
(* One lemma per action: the inductive invariant is kept.  Every command   *)
(* that ends leaves nothing to be shown but types.                         *)
(***************************************************************************)
LEMMA IdleKeeps ==
    ASSUME TypeOK', pc' = "idle", tx'.todo = {}, temps' = {}, FilesHaveDirs'
    PROVE  IInv'
BY DEF IInv, LockHeld, ImageSoFar, ImageBeforeWrites, FilesKept, FilesWritten,
       Temporaries, DiskFollows, DiskWritten, FilesHaveDirs, DirsStaged, DirsMade,
       Writing

LEMMA ReturnKeeps ==
    ASSUME TypeOK', NEW code, Return(code), temps' = {}, FilesHaveDirs' PROVE IInv'
BY IdleKeeps DEF Return, NoLocal

LEMMA QuietReturnKeeps ==
    ASSUME IInv, TypeOK', NEW code, Return(code), UNCHANGED <<file, dirs>>,
           temps' = {} \/ (pc \notin {"stage", "publish"} /\ temps' = temps)
    PROVE  IInv'
<1>1. FilesHaveDirs' /\ temps' = {}
  BY DEF IInv, FilesHaveDirs, Temporaries
<1> QED
  BY <1>1, ReturnKeeps

\* What a transaction knows since it started and took its image.
LocalKept ==
    /\ tx'.archived = tx.archived /\ tx'.entries = tx.entries
    /\ tx'.before = tx.before /\ tx'.found = tx.found /\ tx'.there = tx.there

LEMMA StartKeeps == IInv /\ Start => IInv'
<1> SUFFICES ASSUME IInv, Start PROVE IInv'
  OBVIOUS
<1>1. TypeOK'
  BY StartType DEF IInv
<1>2. /\ tx'.todo = {} /\ pc' = "read" /\ lock' = "restore" /\ id' # 0
      /\ tx'.before = file /\ tx'.found = fileOnDisk
      /\ tx'.there = dirs /\ tx'.created = {}
      /\ UNCHANGED diskVars
  BY DEF Start, NoLocal, IInv, TypeOK
<1>3. UNCHANGED <<file, fileOnDisk, dirs, dirsOnDisk, temps>>
  BY <1>2 DEF diskVars
<1>4. FilesHaveDirs' /\ DirsStaged' /\ DirsMade'
  BY <1>2, <1>3 DEF IInv, TypeOK, FilesHaveDirs, DirsStaged, DirsMade
<1>5. temps' = {} /\ DiskFollows' /\ FilesKept'
  <2>1. temps = {}
    BY DEF Start, IInv, Temporaries
  <2> QED
    BY <1>2, <1>3, <2>1 DEF DiskFollows, FilesKept, Writing
<1> QED
  BY <1>1, <1>2, <1>4, <1>5 DEF IInv, LockHeld, ImageSoFar, ImageBeforeWrites,
     FilesWritten, Temporaries, DiskWritten, Writing

LEMMA LockBusyKeeps == IInv /\ LockBusy => IInv'
<1> SUFFICES ASSUME IInv, LockBusy PROVE IInv'
  OBVIOUS
<1> QED
  BY DEF LockBusy, diskVars, imageVars, IInv, TypeOK, LockHeld, ImageSoFar,
       ImageBeforeWrites, FilesKept, FilesWritten, Temporaries, DiskFollows,
       DiskWritten, FilesHaveDirs, DirsStaged, DirsMade, Done, Writing

LEMMA ArchiveRejectedKeeps == IInv /\ ArchiveRejected => IInv'
<1> SUFFICES ASSUME IInv, ArchiveRejected PROVE IInv'
  OBVIOUS
<1>1. PICK code \in {1, 3} : Return(code)
  BY DEF ArchiveRejected
<1>2. TypeOK'
  BY <1>1, ReturnType DEF ArchiveRejected, IInv, TypeOK, diskVars, imageVars
<1> QED
  BY <1>1, <1>2, QuietReturnKeeps DEF ArchiveRejected, diskVars

LEMMA ArchiveAcceptedKeeps ==
    ASSUME IInv, ArchiveAccepted PROVE IInv'
<1>1. tx \in Local /\ tx.todo \subseteq Target /\ tx.archived \subseteq Target
  BY DEF IInv, TypeOK, Local
<1>2. /\ tx' \in Local /\ LocalKept
      /\ tx'.todo = tx.archived /\ tx'.created = tx.created
  BY <1>1 DEF ArchiveAccepted, Local, LocalKept
<1>3. /\ pc = "read" /\ pc' = "capture" /\ dirs' = dirs \cup Path[SnapshotRoot]
      /\ UNCHANGED <<file, fileOnDisk, dirsOnDisk, temps, imagesOnDisk, createdAt, lock,
                     id, exit, faults, unfinished>>
  BY DEF ArchiveAccepted
<1>4. images' \in [Tx -> Image] /\ images'[id] = "partial" /\ forfeited' \subseteq Tx
  <2>1. id \in Tx
    BY <1>3, TxAssumption DEF IInv, LockHeld, TypeOK, Tx
  <2>2. PICK now \in Time :
          /\ \E gone \in Prunable(now) :
               images' = [i \in Tx |-> IF i = id THEN "partial"
                                       ELSE IF i \in gone THEN "none" ELSE images[i]]
          /\ forfeited' = forfeited \cup (Stale(now) \cap {unfinished})
    BY DEF ArchiveAccepted
  <2>3. Stale(now) \subseteq Tx
    BY DEF Stale, Recognised
  <2>4. images' \in [Tx -> Image] /\ images'[id] = "partial"
    BY <2>1, <2>2 DEF IInv, TypeOK, Image
  <2> QED
    BY <2>2, <2>3, <2>4 DEF IInv, TypeOK
<1>5. TypeOK'
  BY <1>2, <1>3, <1>4, RootType DEF IInv, TypeOK, PC
<1>6. FilesHaveDirs' /\ DirsStaged' /\ DirsMade'
  BY <1>2, <1>3, RootType DEF IInv, FilesHaveDirs, DirsStaged, DirsMade, LocalKept
<1> QED
  BY <1>1, <1>2, <1>3, <1>4, <1>5, <1>6 DEF IInv, LockHeld, ImageSoFar, LocalKept,
     ImageBeforeWrites, FilesKept, FilesWritten, Temporaries, DiskFollows, DiskWritten,
     Done, Writing

LEMMA CaptureKeeps ==
    ASSUME IInv, NEW t \in Target, Capture(t) PROVE IInv'
<1>1. tx \in Local /\ tx.todo \subseteq Target /\ tx.archived \subseteq Target
  BY DEF IInv, TypeOK, Local
<1>2. tx' \in Local
  BY <1>1 DEF Capture, IInv, TypeOK, Local
<1>3. TypeOK'
  BY <1>1, <1>2 DEF Capture, IInv, TypeOK, diskVars, imageVars, PC
<1> QED
  BY <1>1, <1>3 DEF Capture, diskVars, imageVars, IInv, TypeOK, Local,
       LockHeld, ImageSoFar,
       ImageBeforeWrites, FilesKept, FilesWritten, Temporaries, DiskFollows,
       DiskWritten, FilesHaveDirs, DirsStaged, DirsMade, Done, Writing

LEMMA DescribeKeeps == ASSUME IInv, Describe PROVE IInv'
<1>1. TypeOK'
  BY DEF Describe, IInv, TypeOK, diskVars, Image
<1> QED
  BY <1>1 DEF Describe, diskVars, IInv, TypeOK, LockHeld, ImageSoFar,
       ImageBeforeWrites, FilesKept, FilesWritten, Temporaries, DiskFollows,
       DiskWritten, FilesHaveDirs, DirsStaged, DirsMade, Done, Writing, Tx

LEMMA CapturedKeeps ==
    ASSUME IInv, Captured PROVE IInv'
<1>1. tx \in Local /\ tx.todo \subseteq Target /\ tx.archived \subseteq Target
  BY DEF IInv, TypeOK, Local
<1>2. tx' \in Local
  BY <1>1 DEF Captured, IInv, TypeOK, Local
<1>3. TypeOK'
  <2>1. createdAt' \in [Tx -> Time]
    BY DatesType DEF Captured, IInv
  <2>2. imagesOnDisk' \in [Tx -> Image]
    BY DEF Captured, IInv, TypeOK, Image
  <2> QED
    BY <1>2, <2>1, <2>2 DEF Captured, IInv, TypeOK, diskVars, PC
<1> QED
  BY <1>1, <1>3 DEF Captured, diskVars, imageVars, IInv, TypeOK, Local,
       LockHeld, ImageSoFar,
       ImageBeforeWrites, FilesKept, FilesWritten, Temporaries, DiskFollows,
       DiskWritten, FilesHaveDirs, DirsStaged, DirsMade, Done, Writing, Image, Tx

LEMMA CaptureFailsKeeps == ASSUME IInv, CaptureFails PROVE IInv'
<1>1. PICK code \in {1, 3} : Return(code)
  BY DEF CaptureFails
<1>2. TypeOK'
  BY <1>1, ReturnType, FaultType DEF CaptureFails, IInv, TypeOK, diskVars, imageVars,
     Image
<1> QED
  BY <1>1, <1>2, QuietReturnKeeps DEF CaptureFails, diskVars

(***************************************************************************)
(* Staging and publication.                                                *)
(***************************************************************************)

LEMMA StageKeeps ==
    ASSUME IInv, NEW t \in Target, Stage(t) PROVE IInv'
<1>1. tx \in Local /\ tx.todo \subseteq Target /\ tx.archived \subseteq Target
  BY DEF IInv, TypeOK, Local
<1>2. Path[Parent[t]] \subseteq Dir /\ Parent[t] \in Path[Parent[t]]
  BY PathType
<1> DEFINE left == tx.todo \ {t}
           made == tx.created \cup (Path[Parent[t]] \ dirs)
<1>3. left \in SUBSET Target /\ made \in SUBSET Dir
  BY <1>1, <1>2 DEF Local
<1>4. tx' = [tx EXCEPT !.todo = left, !.created = made]
  BY DEF Stage
<1>5. /\ tx' \in Local
      /\ tx'.todo = left /\ tx'.created = made
      /\ LocalKept
  <2> HIDE DEF left, made
  <2> QED
    BY <1>1, <1>3, <1>4 DEF Local, LocalKept
<1>6. /\ pc = "stage" /\ pc' = "stage" /\ t \in tx.todo
      /\ dirs' = dirs \cup Path[Parent[t]] /\ temps' = temps \cup {t}
      /\ UNCHANGED <<file, fileOnDisk, dirsOnDisk, imageVars, lock, id, exit, faults,
                     unfinished>>
  BY DEF Stage
<1>7. TypeOK'
  BY <1>2, <1>5, <1>6 DEF IInv, TypeOK, imageVars
<1>8. FilesHaveDirs' /\ DirsStaged' /\ DirsMade'
  BY <1>1, <1>2, <1>5, <1>6 DEF IInv, FilesHaveDirs, DirsStaged, DirsMade, Done,
     LocalKept
<1> QED
  BY <1>1, <1>5, <1>6, <1>7, <1>8 DEF imageVars, IInv, LockHeld, ImageSoFar, LocalKept,
       ImageBeforeWrites, FilesKept, FilesWritten, Temporaries, DiskFollows,
       DiskWritten,
       Done, Writing

LEMMA StageFailsKeeps ==
    ASSUME IInv, NEW t \in Target, StageFails(t) PROVE IInv'
<1>1. tx \in Local /\ tx.todo \subseteq Target /\ tx.archived \subseteq Target
  BY DEF IInv, TypeOK, Local
<1>2. PICK err \in {"io", "unsafe"} : tx' = [tx EXCEPT !.err = err]
  BY DEF StageFails
<1>3. /\ tx' \in Local /\ LocalKept
      /\ tx'.todo = tx.todo /\ tx'.created = tx.created
  BY <1>1, <1>2 DEF Local, LocalKept, Error
<1>4. PICK left \in LeftBehind(t) : dirs' = (dirs \ tx.created) \cup left
  BY DEF StageFails
<1>5. left \subseteq Dir
  BY PathType DEF LeftBehind
<1>6. /\ pc = "stage" /\ pc' = "failed" /\ temps' = {} /\ Fault
      /\ UNCHANGED <<file, fileOnDisk, dirsOnDisk, imageVars, lock, id, exit,
                     unfinished>>
  BY DEF StageFails
<1>7. tx.there \subseteq dirs \ tx.created /\ dirsOnDisk \subseteq tx.there
  BY <1>6 DEF IInv, DirsMade
<1>8. TypeOK'
  BY <1>3, <1>4, <1>5, <1>6, <1>7, FaultType DEF IInv, TypeOK, imageVars, PC
<1>9. FilesHaveDirs' /\ DirsStaged' /\ DirsMade'
  BY <1>3, <1>4, <1>6, <1>7 DEF IInv, FilesHaveDirs, DirsStaged, DirsMade, FilesKept,
     LocalKept
<1> QED
  BY <1>3, <1>6, <1>8, <1>9 DEF imageVars, IInv, LockHeld, ImageSoFar, LocalKept,
       ImageBeforeWrites, FilesKept, FilesWritten, Temporaries, DiskFollows,
       DiskWritten,
       Done, Writing

LEMMA StagedKeeps ==
    ASSUME IInv, Staged PROVE IInv'
<1>1. tx \in Local /\ tx.todo \subseteq Target /\ tx.archived \subseteq Target
  BY DEF IInv, TypeOK, Local
<1>2. tx' \in Local
  BY <1>1 DEF Staged, IInv, TypeOK, Local
<1>3. TypeOK'
  BY <1>1, <1>2 DEF Staged, IInv, TypeOK, diskVars, imageVars, PC
<1> QED
  BY <1>1, <1>3 DEF Staged, diskVars, imageVars, IInv, TypeOK, Local,
       LockHeld, ImageSoFar,
       ImageBeforeWrites, FilesKept, FilesWritten, Temporaries, DiskFollows,
       DiskWritten, FilesHaveDirs, DirsStaged, DirsMade, Done, Writing

LEMMA PublishKeeps ==
    ASSUME IInv, NEW t \in Target, Publish(t) PROVE IInv'
<1>1. tx \in Local /\ tx.todo \subseteq Target /\ tx.archived \subseteq Target
  BY DEF IInv, TypeOK, Local
<1>2. tx' \in Local
  BY <1>1 DEF Publish, IInv, TypeOK, Local
<1>3. /\ file' \in [Target -> Content]
      /\ file'[t] = "archive"
      /\ \A u \in Target \ {t} : file'[u] = file[u]
  <2>1. TypeOK /\ Put(t, "archive") /\ "archive" \in Content
    BY DEF Publish, IInv, Content
  <2> QED
    BY <2>1, PutType
<1>4. /\ fileOnDisk' \in [Target -> Content]
      /\ fileOnDisk'[t] = file'[t]
      /\ \A u \in Target : fileOnDisk'[u] \in {fileOnDisk[u], file'[u]}
  <2>1. TypeOK /\ Synced(t)
    BY DEF Publish, IInv
  <2> QED
    BY <1>3, <2>1, SyncedType
<1>5. TypeOK'
  BY <1>1, <1>2, <1>3, <1>4, TargetAssumption
  DEF Publish, IInv, TypeOK, diskVars, imageVars, PC
<1>6. /\ pc = "publish" /\ pc' = "publish" /\ t \in tx.todo /\ temps' = temps \ {t}
      /\ tx'.todo = tx.todo \ {t} /\ tx'.err = tx.err /\ tx'.created = tx.created
      /\ LocalKept
      /\ UNCHANGED <<dirs, dirsOnDisk, imageVars, lock, id>>
  BY <1>1 DEF Publish, Local, LocalKept
<1>7. t \in tx.archived
  BY <1>6 DEF IInv
<1>8. DiskFollows'
  <2>1. ASSUME NEW u \in Target
        PROVE  /\ file'[u] \in {tx.before[u], "archive"}
               /\ fileOnDisk'[u] \in {tx.found[u], tx.before[u]}
                                   \cup IF u \in tx.archived THEN {"archive"} ELSE {}
               /\ fileOnDisk'[u] \in {tx.found[u], tx.before[u], file'[u]}
    <3>1. CASE u = t
      BY <1>3, <1>4, <1>7, <3>1
    <3>2. CASE u # t
      BY <1>3, <1>4, <1>6, <3>2 DEF IInv, DiskFollows, FilesKept, Writing
    <3> QED
      BY <3>1, <3>2
  <2> QED
    BY <1>6, <2>1 DEF DiskFollows, LocalKept
<1>9. DiskWritten' /\ FilesWritten' /\ FilesKept'
  BY <1>1, <1>3, <1>4, <1>6, <1>7 DEF IInv, DiskWritten, FilesWritten, FilesKept, Done,
     Writing, LocalKept
<1>10. FilesHaveDirs' /\ DirsStaged' /\ DirsMade'
  BY <1>3, <1>6, <1>7 DEF IInv, FilesHaveDirs, DirsStaged, DirsMade, LocalKept
<1> QED
  BY <1>1, <1>5, <1>6, <1>8, <1>9, <1>10 DEF imageVars, IInv, LockHeld, ImageSoFar,
     ImageBeforeWrites, Temporaries, Writing, LocalKept

LEMMA PublishFailsKeeps ==
    ASSUME IInv, NEW t \in Target, PublishFails(t) PROVE IInv'
<1>1. tx \in Local /\ tx.todo \subseteq Target /\ tx.archived \subseteq Target
  BY DEF IInv, TypeOK, Local
<1>2. PICK err \in {"io", "unsafe"} :
        /\ UNCHANGED file \/ (err = "io" /\ Put(t, "archive"))
        /\ tx' = [tx EXCEPT !.todo = @ \ {t}, !.err = FirstError(err)]
  BY DEF PublishFails
<1>3. FirstError(err) \in {"io", "unsafe"}
  BY <1>1 DEF FirstError, Local, Error
<1> DEFINE kept == FirstError(err)
<1>4. /\ tx' \in Local /\ tx'.err # "none"
      /\ tx'.todo = tx.todo \ {t} /\ tx'.created = tx.created
      /\ LocalKept
  <2>1. kept \in {"io", "unsafe"} /\ tx' = [tx EXCEPT !.todo = @ \ {t}, !.err = kept]
    BY <1>2, <1>3
  <2> HIDE DEF kept
  <2> QED
    BY <1>1, <2>1 DEF Local, Error, LocalKept
<1>5. /\ file' \in [Target -> Content]
      /\ \A u \in Target \ {t} : file'[u] = file[u]
      /\ file'[t] \in {file[t], "archive"}
  BY <1>2, PutType DEF IInv, TypeOK, Content
<1>6. TypeOK'
  BY <1>1, <1>4, <1>5, FaultType DEF PublishFails, IInv, TypeOK, diskVars, imageVars, PC
<1>7. pc = "publish" /\ pc' = "publish" /\ t \in tx.todo /\ temps' = temps \ {t}
      /\ UNCHANGED <<fileOnDisk, dirs, dirsOnDisk, imageVars, lock, id>>
  BY DEF PublishFails
<1>8. t \in tx.archived
  BY <1>7 DEF IInv
<1>9. DiskFollows'
  <2>1. ASSUME NEW u \in Target
        PROVE  /\ file'[u] \in {tx.before[u], "archive"}
               /\ fileOnDisk[u] \in {tx.found[u], tx.before[u]}
                                   \cup IF u \in tx.archived THEN {"archive"} ELSE {}
               /\ fileOnDisk[u] \in {tx.found[u], tx.before[u], file'[u]}
    BY <1>5, <1>7, <1>8 DEF IInv, DiskFollows, Writing
  <2> QED
    BY <1>4, <1>7, <2>1 DEF DiskFollows, LocalKept
<1>10. DiskWritten' /\ FilesWritten' /\ FilesKept'
  BY <1>1, <1>4, <1>5, <1>7, <1>8 DEF IInv, DiskWritten, FilesWritten, FilesKept,
     Writing,
     LocalKept
<1>11. FilesHaveDirs' /\ DirsStaged' /\ DirsMade'
  BY <1>4, <1>5, <1>7, <1>8 DEF IInv, FilesHaveDirs, DirsStaged, DirsMade, LocalKept
<1> QED
  BY <1>1, <1>4, <1>6, <1>7, <1>9, <1>10, <1>11 DEF imageVars, IInv, LockHeld,
     ImageSoFar,
     ImageBeforeWrites, Temporaries, Writing, LocalKept

LEMMA PublishedKeeps == ASSUME IInv, Published PROVE IInv'
<1>1. TypeOK'
  BY DEF Published, IInv, TypeOK, diskVars, imageVars, PC
<1> QED
  BY <1>1 DEF Published, diskVars, imageVars, IInv, TypeOK, Local,
       LockHeld, ImageSoFar,
       ImageBeforeWrites, FilesKept, FilesWritten, Temporaries, DiskFollows,
       DiskWritten, FilesHaveDirs, DirsStaged, DirsMade, Done, Writing

(***************************************************************************)
(* After a failure, and after the restart.                                 *)
(***************************************************************************)

LEMMA ReportRejectedKeeps == ASSUME IInv, ReportRejected PROVE IInv'
<1>1. Return(3)
  BY DEF ReportRejected
<1>2. TypeOK'
  BY <1>1, ReturnType, FaultType, AbandonedType DEF ReportRejected, IInv, TypeOK,
     diskVars, imageVars
<1> QED
  BY <1>1, <1>2, QuietReturnKeeps DEF ReportRejected, diskVars

LEMMA BeginRollbackKeeps ==
    ASSUME IInv, NEW code \in {1, 4}, BeginRollback(code),
           pc \in {"failed", "restart"},
           UNCHANGED <<diskVars, imageVars, lock, id, exit, faults, unfinished>>
    PROVE  IInv'
<1>1. tx \in Local /\ tx.archived \subseteq Target
  BY DEF IInv, TypeOK, Local
<1>2. /\ tx' \in Local
      /\ tx'.todo = tx.archived /\ tx'.created = tx.created
      /\ LocalKept
      /\ pc' = "rollback"
  BY <1>1 DEF BeginRollback, Local, Error, LocalKept
<1>3. TypeOK'
  BY <1>2 DEF IInv, TypeOK, diskVars, imageVars, PC
<1> QED
  BY <1>2, <1>3 DEF diskVars, imageVars, IInv, LocalKept, LockHeld, ImageSoFar,
       ImageBeforeWrites, FilesKept, FilesWritten, Temporaries, DiskFollows,
       DiskWritten, FilesHaveDirs, DirsStaged, DirsMade, Done, Writing

LEMMA ReportFailedKeeps == ASSUME IInv, ReportFailed PROVE IInv'
<1>1. BeginRollback(1)
      /\ pc = "failed"
      /\ UNCHANGED <<diskVars, imageVars, lock, id, exit, faults, unfinished>>
  BY DEF ReportFailed
<1> QED
  BY <1>1, BeginRollbackKeeps

LEMMA RestartPassesKeeps == ASSUME IInv, RestartPasses PROVE IInv'
<1>1. TypeOK'
  BY DEF RestartPasses, IInv, TypeOK, diskVars, imageVars, PC
<1> QED
  BY <1>1 DEF RestartPasses, diskVars, imageVars, IInv, LockHeld, ImageSoFar,
       ImageBeforeWrites, FilesKept, FilesWritten, Temporaries, DiskFollows,
       DiskWritten, FilesHaveDirs, DirsStaged, DirsMade, Done, Writing

LEMMA RestartFailsKeeps == ASSUME IInv, RestartFails PROVE IInv'
<1>1. BeginRollback(4)
      /\ pc = "restart"
      /\ UNCHANGED <<diskVars, imageVars, lock, id, exit, faults, unfinished>>
  BY DEF RestartFails
<1> QED
  BY <1>1, BeginRollbackKeeps

(***************************************************************************)
(* Rollback: a target that has been put back is as the restore found it,   *)
(* because the image recorded it so.                                       *)
(***************************************************************************)
LEMMA RollBackKeeps ==
    ASSUME IInv, NEW t \in Target, RollBack(t) PROVE IInv'
<1>1. tx \in Local /\ tx.todo \subseteq Target /\ tx.archived \subseteq Target
      /\ tx.entries[t] \in Content
  BY DEF IInv, TypeOK, Local
<1>2. /\ pc = "rollback" /\ pc' = "rollback" /\ t \in tx.todo
      /\ Put(t, tx.entries[t])
      /\ dirs' = dirs \cup Path[Parent[t]]
      /\ tx' = [tx EXCEPT !.todo = @ \ {t}]
      /\ UNCHANGED <<dirsOnDisk, temps, imageVars, lock, id, exit, faults, unfinished>>
  BY DEF RollBack
<1>3. /\ tx' \in Local
      /\ tx'.todo = tx.todo \ {t} /\ tx'.err = tx.err /\ tx'.created = tx.created
      /\ LocalKept
  BY <1>1, <1>2 DEF Local, LocalKept
<1>4. /\ file' \in [Target -> Content]
      /\ file'[t] = tx.entries[t]
      /\ \A u \in Target \ {t} : file'[u] = file[u]
  BY <1>1, <1>2, PutType DEF IInv
<1>5. /\ fileOnDisk' \in [Target -> Content]
      /\ \A u \in Target : fileOnDisk'[u] \in {fileOnDisk[u], file'[u]}
      /\ \/ fileOnDisk'[t] = file'[t]
         \/ fileOnDisk'[t] = fileOnDisk[t] /\ file[t] = file'[t]
  <2>1. CASE UNCHANGED fileOnDisk /\ tx.entries[t] = file[t]
    BY <1>4, <2>1 DEF IInv, TypeOK
  <2>2. CASE Synced(t)
    <3>1. TypeOK /\ file' \in [Target -> Content] /\ Synced(t)
      BY <1>4, <2>2 DEF IInv
    <3> QED
      BY <3>1, SyncedType
  <2> QED
    BY <2>1, <2>2 DEF RollBack
<1>6. tx.entries[t] = tx.before[t] /\ t \in tx.archived
  BY <1>2 DEF IInv, ImageBeforeWrites, Writing
<1>7. Path[Parent[t]] \subseteq Dir /\ Parent[t] \in Path[Parent[t]]
  BY PathType
<1>8. TypeOK'
  BY <1>2, <1>3, <1>4, <1>5, <1>7 DEF IInv, TypeOK, imageVars
<1>9. DiskFollows'
  <2>1. ASSUME NEW u \in Target
        PROVE  /\ file'[u] \in {tx.before[u], "archive"}
               /\ fileOnDisk'[u] \in {tx.found[u], tx.before[u]}
                                   \cup IF u \in tx.archived THEN {"archive"} ELSE {}
               /\ \/ tx.err # "none" /\ u \in Done \cup {t}
                  \/ fileOnDisk'[u] \in {tx.found[u], tx.before[u], file'[u]}
    <3>1. CASE u = t
      BY <1>2, <1>4, <1>5, <1>6, <3>1 DEF IInv, DiskFollows, Writing
    <3>2. CASE u # t
      BY <1>2, <1>4, <1>5, <3>2 DEF IInv, DiskFollows, FilesKept, Writing
    <3> QED
      BY <3>1, <3>2
  <2>2. Done' = Done \cup {t}
    BY <1>2, <1>3, <1>6 DEF Done, LocalKept
  <2> QED
    BY <1>2, <1>3, <2>1, <2>2 DEF DiskFollows, LocalKept
<1>10. FilesWritten' /\ FilesKept'
  BY <1>1, <1>2, <1>3, <1>4, <1>6 DEF IInv, FilesWritten, FilesKept, Done, Writing,
     LocalKept
<1>11. FilesHaveDirs' /\ DirsStaged' /\ DirsMade'
  <2>1. Parent[t] \in dirs'
    BY <1>2, <1>7
  <2>2. FilesHaveDirs'
    BY <1>2, <1>4, <2>1 DEF IInv, FilesHaveDirs
  <2>3. SnapshotRoot \in dirs' \ tx.created
        /\ dirsOnDisk \subseteq tx.there /\ tx.there \subseteq dirs' \ tx.created
    BY <1>2 DEF IInv, DirsMade
  <2> QED
    BY <1>2, <1>3, <2>2, <2>3 DEF IInv, DirsStaged, DirsMade, LocalKept
<1> QED
  BY <1>1, <1>2, <1>3, <1>8, <1>9, <1>10, <1>11 DEF imageVars, IInv, LockHeld,
     ImageSoFar,
       ImageBeforeWrites, Temporaries, DiskWritten, Writing, LocalKept

LEMMA RollBackFailsKeeps ==
    ASSUME IInv, NEW t \in Target, RollBackFails(t) PROVE IInv'
<1>1. tx \in Local /\ tx.todo \subseteq Target /\ tx.archived \subseteq Target
      /\ tx.entries[t] \in Content
  BY DEF IInv, TypeOK, Local
<1>2. /\ pc = "rollback" /\ pc' = "rollback" /\ t \in tx.todo
      /\ UNCHANGED file \/ (Parent[t] \in dirs /\ Put(t, tx.entries[t]))
      /\ UNCHANGED faults \/ Fault
      /\ tx' = [tx EXCEPT !.todo = @ \ {t}, !.err = "io"]
      /\ UNCHANGED <<fileOnDisk, dirs, dirsOnDisk, temps, imageVars, lock, id, exit,
                     unfinished>>
  BY DEF RollBackFails
<1>3. /\ tx' \in Local
      /\ tx'.todo = tx.todo \ {t} /\ tx'.err = "io" /\ tx'.created = tx.created
      /\ LocalKept
  BY <1>1, <1>2 DEF Local, Error, LocalKept
<1>4. /\ file' \in [Target -> Content]
      /\ \A u \in Target \ {t} : file'[u] = file[u]
      /\ file'[t] \in {file[t], tx.entries[t]}
      /\ file'[t] # file[t] => Parent[t] \in dirs
  BY <1>1, <1>2, PutType DEF IInv, TypeOK
<1>5. TypeOK'
  BY <1>2, <1>3, <1>4, FaultType DEF IInv, TypeOK, imageVars
<1>6. tx.entries[t] = tx.before[t] /\ t \in tx.archived
  BY <1>2 DEF IInv, ImageBeforeWrites, Writing
<1>7. DiskFollows'
  <2>1. ASSUME NEW u \in Target
        PROVE  /\ file'[u] \in {tx.before[u], "archive"}
               /\ fileOnDisk[u] \in {tx.found[u], tx.before[u]}
                                   \cup IF u \in tx.archived THEN {"archive"} ELSE {}
               /\ \/ u \in Done \cup {t}
                  \/ fileOnDisk[u] \in {tx.found[u], tx.before[u], file'[u]}
    BY <1>2, <1>4, <1>6 DEF IInv, DiskFollows, Writing
  <2>2. Done' = Done \cup {t}
    BY <1>2, <1>3, <1>6 DEF Done, LocalKept
  <2> QED
    BY <1>2, <1>3, <2>1, <2>2 DEF DiskFollows, LocalKept
<1>8. FilesWritten' /\ FilesKept'
  BY <1>1, <1>2, <1>3, <1>4, <1>6 DEF IInv, FilesWritten, FilesKept, Writing, LocalKept
<1>9. FilesHaveDirs' /\ DirsStaged' /\ DirsMade'
  BY <1>2, <1>3, <1>4 DEF IInv, FilesHaveDirs, DirsStaged, DirsMade, LocalKept
<1> QED
  BY <1>1, <1>2, <1>3, <1>5, <1>7, <1>8, <1>9 DEF imageVars, IInv, LockHeld, ImageSoFar,
       ImageBeforeWrites, Temporaries, DiskWritten, Writing, LocalKept

LEMMA RollbackFailedKeeps == ASSUME IInv, RollbackFailed PROVE IInv'
<1>1. Return(5)
  BY DEF RollbackFailed
<1>2. TypeOK'
  BY <1>1, ReturnType, FaultType, AbandonedType DEF RollbackFailed, IInv, TypeOK,
     diskVars, imageVars
<1> QED
  BY <1>1, <1>2, QuietReturnKeeps DEF RollbackFailed, diskVars

LEMMA RolledBackKeeps == ASSUME IInv, RolledBack PROVE IInv'
<1>1. /\ pc = "rollback" /\ tx.todo = {} /\ tx.err = "none"
      /\ Cleanup
      /\ UNCHANGED <<diskVars, imagesOnDisk, createdAt, forfeited, id, unfinished>>
  BY DEF RolledBack
<1>2. images' \in [Tx -> Image] /\ faults' \in 0 .. MaxFaults
  BY <1>1, CleanupType DEF IInv
<1>3. CASE tx.code = 4
  <2>1. pc' = "again" /\ UNCHANGED <<lock, exit, tx>>
    BY <1>3 DEF RolledBack
  <2>2. TypeOK'
    BY <1>1, <1>2, <2>1 DEF IInv, TypeOK, diskVars, PC
  <2>3. file = tx.before
    <3>1. \A t \in Target : file[t] = tx.before[t]
      BY <1>1 DEF IInv, FilesKept, FilesWritten, Done, Writing, TypeOK, Local
    <3> QED
      BY <3>1 DEF IInv, TypeOK, Local
  <2> QED
    BY <1>1, <2>1, <2>2, <2>3 DEF diskVars, IInv, LockHeld, ImageSoFar,
       ImageBeforeWrites, FilesKept, FilesWritten, Temporaries, DiskFollows,
       DiskWritten, FilesHaveDirs, DirsStaged, DirsMade, Done, Writing
<1>4. CASE tx.code # 4
  <2>1. Return(tx.code) /\ tx.code \in {None, 0, 1, 3, 4, 5}
    BY <1>4 DEF RolledBack, IInv, TypeOK, Local
  <2>2. TypeOK'
    BY <1>1, <1>2, <2>1, ReturnType DEF IInv, TypeOK, diskVars
  <2> QED
    BY <1>1, <2>1, <2>2, QuietReturnKeeps DEF diskVars
<1> QED
  BY <1>3, <1>4

LEMMA RestartedAgainKeeps == ASSUME IInv, RestartedAgain PROVE IInv'
<1>1. Return(4)
  BY DEF RestartedAgain
<1>2. TypeOK'
  BY <1>1, ReturnType, FaultType, AbandonedType DEF RestartedAgain, IInv, TypeOK,
     diskVars, imageVars
<1> QED
  BY <1>1, <1>2, QuietReturnKeeps DEF RestartedAgain, diskVars

LEMMA FinishKeeps == ASSUME IInv, Finish PROVE IInv'
<1>1. Return(0) /\ Cleanup /\ unfinished' = 0
      /\ UNCHANGED <<fileOnDisk, dirs, dirsOnDisk, temps, imagesOnDisk, createdAt,
                     forfeited, id>>
  BY DEF Finish
<1>2. file' \in [Target -> Content] /\ \A t \in Target : file'[t] \in {file[t],
"absent"}
  <2>1. Marker \in Target /\ "absent" \in Content
    BY TargetAssumption DEF Content
  <2>2. TypeOK
    BY DEF IInv
  <2>3. CASE Put(Marker, "absent")
    BY <2>1, <2>2, <2>3, PutType
  <2>4. CASE UNCHANGED file
    BY <2>2, <2>4 DEF TypeOK
  <2> QED
    BY <2>3, <2>4 DEF Finish
<1>3. TypeOK'
  BY <1>1, <1>2, ReturnType, CleanupType, TxAssumption DEF IInv, TypeOK
<1>4. FilesHaveDirs' /\ temps' = {}
  BY <1>1, <1>2 DEF Finish, IInv, FilesHaveDirs, Temporaries
<1> QED
  BY <1>1, <1>3, <1>4, ReturnKeeps

LEMMA FinishStillPausedKeeps == ASSUME IInv, FinishStillPaused PROVE IInv'
<1>1. Return(1) /\ Fault /\ unfinished' = 0
      /\ \E left \in Image : images' = [images EXCEPT ![id] = left]
      /\ UNCHANGED <<diskVars, imagesOnDisk, createdAt, forfeited, id>>
  BY DEF FinishStillPaused
<1>2. TypeOK
  BY DEF IInv
<1>3. images' \in [Tx -> Image] /\ faults' \in 0 .. MaxFaults /\ unfinished' \in 0 .. MaxTx
  <2>1. images' \in [Tx -> Image]
    BY <1>1, <1>2 DEF TypeOK, Image
  <2>2. unfinished' \in 0 .. MaxTx
    BY <1>1, TxAssumption
  <2> QED
    BY <1>1, <1>2, <2>1, <2>2, FaultType
<1>4. TypeOK'
  BY <1>1, <1>2, <1>3, ReturnType DEF TypeOK, diskVars
<1> QED
  BY <1>1, <1>4, QuietReturnKeeps DEF FinishStillPaused, diskVars

(***************************************************************************)
(* The environment.  A command of the monitor holds the lock only while no *)
(* transaction runs.                                                       *)
(***************************************************************************)
LEMMA MonitorLocksKeeps == ASSUME IInv, MonitorLocks PROVE IInv'
<1>1. pc = "idle"
  BY DEF IInv, LockHeld, MonitorLocks
<1> QED
  BY <1>1 DEF MonitorLocks, diskVars, imageVars, IInv, TypeOK, LockHeld, ImageSoFar,
       ImageBeforeWrites, FilesKept, FilesWritten, Temporaries, DiskFollows,
       DiskWritten, FilesHaveDirs, DirsStaged, DirsMade, Done, Writing

LEMMA MonitorUnlocksKeeps == ASSUME IInv, MonitorUnlocks PROVE IInv'
<1>1. pc = "idle"
  BY DEF IInv, LockHeld, MonitorUnlocks
<1> QED
  BY <1>1 DEF MonitorUnlocks, diskVars, imageVars, IInv, TypeOK, LockHeld, ImageSoFar,
       ImageBeforeWrites, FilesKept, FilesWritten, Temporaries, DiskFollows,
       DiskWritten, FilesHaveDirs, DirsStaged, DirsMade, Done, Writing

LEMMA MonitorWritesKeeps ==
    ASSUME IInv, NEW t \in MonitorFile, MonitorWrites(t) PROVE IInv'
<1>1. pc = "idle" /\ pc' = "idle" /\ lock' = "free" /\ Synced(t) /\ t \in Target
      /\ UNCHANGED <<dirs, dirsOnDisk, temps, imageVars, id, tx, exit, faults,
                     unfinished>>
  BY TargetAssumption DEF IInv, LockHeld, MonitorWrites
<1>2. PICK content \in Content : Put(t, content)
  BY DEF MonitorWrites, Content
<1>3. file' \in [Target -> Content] /\ \A u \in Target \ {t} : file'[u] = file[u]
  BY <1>1, <1>2, PutType DEF IInv
<1>4. fileOnDisk' \in [Target -> Content]
  BY <1>1, <1>3, SyncedType DEF IInv
<1>5. TypeOK'
  BY <1>1, <1>3, <1>4 DEF IInv, TypeOK, imageVars
<1>6. FilesHaveDirs'
  BY <1>1, <1>3 DEF MonitorWrites, IInv, FilesHaveDirs
<1> QED
  BY <1>1, <1>5, <1>6 DEF IInv, LockHeld, ImageSoFar, ImageBeforeWrites, FilesKept,
     FilesWritten, Temporaries, DiskFollows, DiskWritten, DirsStaged, DirsMade, Writing

LEMMA CrashKeeps == ASSUME IInv, Crash PROVE IInv'
<1>1. Return(None)
  BY DEF Crash
<1>2. TypeOK'
  BY <1>1, ReturnType, FaultType, AbandonedType DEF Crash, IInv, TypeOK, diskVars,
     imageVars
<1> QED
  BY <1>1, <1>2, QuietReturnKeeps DEF Crash, diskVars

LEMMA PowerLossKeeps == ASSUME IInv, PowerLoss PROVE IInv'
<1>1. Return(None)
  BY DEF PowerLoss
<1>2. TypeOK'
  <2>1. createdAt' \in [Tx -> Time]
    BY DatesType DEF PowerLoss, IInv
  <2>2. dirs' \subseteq Dir /\ dirsOnDisk' = dirs'
    BY DEF PowerLoss, IInv, TypeOK
  <2>3. file' \in [Target -> Content] /\ fileOnDisk' = file' /\ temps' = {}
    BY DEF PowerLoss, IInv, TypeOK, Content
  <2>4. images' \in [Tx -> Image] /\ imagesOnDisk' = images'
    BY DEF PowerLoss, IInv, TypeOK, Image
  <2>5. forfeited' \subseteq Tx
    BY TxAssumption DEF PowerLoss, IInv, TypeOK, Tx
  <2>6. TypeOK /\ Fault /\ Abandoned /\ id' = id
    BY DEF PowerLoss, IInv
  <2> QED
    BY <1>1, <2>1, <2>2, <2>3, <2>4, <2>5, <2>6, ReturnType, FaultType, AbandonedType
    DEF TypeOK
<1>3. FilesHaveDirs' /\ temps' = {}
  BY DEF PowerLoss, FilesHaveDirs
<1> QED
  BY <1>1, <1>2, <1>3, ReturnKeeps

(***************************************************************************)
(* Every step keeps it.                                                    *)
(***************************************************************************)
LEMMA InitHolds == Init => IInv
<1> SUFFICES ASSUME Init PROVE IInv
  OBVIOUS
<1>1. TypeOK
  <2>1. 0 \in Time
    BY TimeAssumption DEF Time
  <2> QED
    BY <2>1, NoLocalType, TxAssumption DEF Init, TypeOK, Content, Image, PC
<1> QED
  BY <1>1 DEF Init, NoLocal, IInv, LockHeld, ImageSoFar, ImageBeforeWrites,
       FilesKept, FilesWritten, Temporaries, DiskFollows, DiskWritten, FilesHaveDirs,
       DirsStaged, DirsMade, Writing

LEMMA StutterKeeps == ASSUME IInv, UNCHANGED vars PROVE IInv'
BY DEF vars, diskVars, imageVars, IInv, TypeOK, LockHeld, ImageSoFar,
       ImageBeforeWrites, FilesKept, FilesWritten, Temporaries, DiskFollows,
       DiskWritten, FilesHaveDirs, DirsStaged, DirsMade, Done, Writing

LEMMA StepKeeps == ASSUME IInv, Step PROVE IInv'
<1>1. CASE Start \/ LockBusy \/ ArchiveRejected \/ ArchiveAccepted
  BY <1>1, StartKeeps, LockBusyKeeps, ArchiveRejectedKeeps, ArchiveAcceptedKeeps
<1>2. CASE (\E t \in Target : Capture(t)) \/ Describe \/ Captured \/ CaptureFails
  BY <1>2, CaptureKeeps, DescribeKeeps, CapturedKeeps, CaptureFailsKeeps
<1>3. CASE (\E t \in Target : Stage(t) \/ StageFails(t)) \/ Staged
  BY <1>3, StageKeeps, StageFailsKeeps, StagedKeeps
<1>4. CASE (\E t \in Target : Publish(t) \/ PublishFails(t)) \/ Published
  BY <1>4, PublishKeeps, PublishFailsKeeps, PublishedKeeps
<1>5. CASE ReportRejected \/ ReportFailed \/ RestartPasses \/ RestartFails
  BY <1>5, ReportRejectedKeeps, ReportFailedKeeps, RestartPassesKeeps, RestartFailsKeeps
<1>6. CASE (\E t \in Target : RollBack(t) \/ RollBackFails(t)) \/ RollbackFailed
           \/ RolledBack \/ RestartedAgain
  BY <1>6, RollBackKeeps, RollBackFailsKeeps, RollbackFailedKeeps, RolledBackKeeps,
     RestartedAgainKeeps
<1>7. CASE Finish \/ FinishStillPaused
  BY <1>7, FinishKeeps, FinishStillPausedKeeps
<1> QED
  BY <1>1, <1>2, <1>3, <1>4, <1>5, <1>6, <1>7 DEF Step

LEMMA EnvironmentKeeps == ASSUME IInv, Environment PROVE IInv'
BY MonitorLocksKeeps, MonitorUnlocksKeeps, MonitorWritesKeeps, CrashKeeps,
   PowerLossKeeps DEF Environment

\* IInv is an invariant of the restore: all that the transaction knows of the
\* files, the staging files and its image at each of its steps.
THEOREM RestoreInductive == Spec => []IInv
<1>1. IInv /\ [Next]_vars => IInv'
  BY StepKeeps, EnvironmentKeeps, StutterKeeps DEF Next
<1> QED
  BY InitHolds, <1>1, PTL DEF Spec

\* Every variable keeps its type.
THEOREM RestoreTypeCorrect == Spec => []TypeOK
<1>1. IInv => TypeOK
  BY DEF IInv
<1> QED
  BY RestoreInductive, <1>1, PTL

\* Nothing is staged, published or undone without a durable image of the
\* targets as the restore found them (Restore calls CaptureSnapshot first).
THEOREM ImageComesFirst == Spec => []ImageBeforeWrites
<1>1. IInv => ImageBeforeWrites
  BY DEF IInv
<1> QED
  BY RestoreInductive, <1>1, PTL

\* Services are restarted over all of the archive's files or all of the old
\* ones (runRestoreTransaction, restartAndRecheck).
THEOREM RestartsAreWhole == Spec => []NoMixedRestart
<1>1. IInv => NoMixedRestart
  BY DEF IInv, NoMixedRestart, FilesWritten, FilesKept
<1> QED
  BY RestoreInductive, <1>1, PTL

(***************************************************************************)
(* The commands that end by themselves, and what they leave.               *)
(***************************************************************************)
LEMMA Endings ==
    ASSUME IInv, Next, pc # "idle", pc' = "idle", exit' \in {0, 1, 3, 4, 5}
    PROVE  \/ ArchiveRejected \/ CaptureFails \/ ReportRejected \/ RollbackFailed
           \/ RolledBack \/ RestartedAgain \/ Finish \/ FinishStillPaused
<1>1. ~Start /\ ~LockBusy /\ ~ArchiveAccepted /\ ~Describe /\ ~Captured
  BY DEF Start, LockBusy, ArchiveAccepted, Describe, Captured
<1>2. ASSUME NEW t \in Target PROVE ~Capture(t) /\ ~Stage(t) /\ ~StageFails(t)
  BY DEF Capture, Stage, StageFails
<1>3. ASSUME NEW t \in Target PROVE ~Publish(t) /\ ~PublishFails(t)
  BY DEF Publish, PublishFails
<1>4. ASSUME NEW t \in Target PROVE ~RollBack(t) /\ ~RollBackFails(t)
  BY DEF RollBack, RollBackFails
<1>5. ~Staged /\ ~Published /\ ~ReportFailed /\ ~RestartPasses /\ ~RestartFails
  BY DEF Staged, Published, ReportFailed, RestartPasses, RestartFails, BeginRollback
<1>6. ~MonitorLocks /\ ~MonitorUnlocks
  BY DEF MonitorLocks, MonitorUnlocks
<1>7. ASSUME NEW t \in MonitorFile PROVE ~MonitorWrites(t)
  BY DEF MonitorWrites
<1>8. ~Crash /\ ~PowerLoss
  BY TargetAssumption DEF Crash, PowerLoss, Return
<1> QED
  BY <1>1, <1>2, <1>3, <1>4, <1>5, <1>6, <1>7, <1>8 DEF Next, Step, Environment

LEMMA EndsHonestly == ASSUME IInv, Next PROVE TellsOutcome
<1> SUFFICES ASSUME pc # "idle", pc' = "idle", exit' \in {0, 1, 3, 4, 5}
             PROVE  TellsOutcome
  BY DEF TellsOutcome, Exits
<1> USE DEF Exits, Return, IInv, FilesKept, FilesWritten, Temporaries, DiskFollows,
DiskWritten, FilesHaveDirs, DirsStaged, DirsMade, Writing, diskVars
<1>1. CASE ArchiveRejected
  BY <1>1 DEF TellsOutcome, ArchiveRejected, Untouched
<1>2. CASE CaptureFails
  BY <1>2 DEF TellsOutcome, CaptureFails, Untouched
<1>3. CASE ReportRejected
  BY <1>3 DEF TellsOutcome, ReportRejected
<1>4. CASE RollbackFailed
  BY <1>4 DEF TellsOutcome, RollbackFailed
<1>5. CASE RolledBack
  <2>1. file = tx.before
    <3>1. \A t \in Target : file[t] = tx.before[t]
      BY <1>5 DEF RolledBack, Done, TypeOK, Local
    <3> QED
      BY <3>1 DEF TypeOK, Local
  <2>2. exit' \in {1, 4} /\ UNCHANGED <<file, temps>> /\ temps = {}
    BY <1>5 DEF RolledBack, TypeOK, Local
  <2> QED
    BY <2>1, <2>2 DEF TellsOutcome, Untouched
<1>6. CASE RestartedAgain
  BY <1>6 DEF TellsOutcome, RestartedAgain, Untouched
<1>7. CASE Finish
  <2>1. exit' = 0 /\ temps' = {} /\ \A t \in tx.archived : file[t] = "archive"
    BY <1>7 DEF Finish
  <2>2. tx.archived \subseteq Target /\ Marker \in Target /\ "absent" \in Content
    BY TargetAssumption DEF TypeOK, Local, Content
  <2>3. CASE ClearsMarker
    <3>1. Marker \notin tx.archived /\ Put(Marker, "absent")
      BY <1>7, <2>3 DEF Finish, ClearsMarker
    <3>2. file'[Marker] = "absent" /\ \A u \in Target \ {Marker} : file'[u] = file[u]
      BY <2>2, <3>1, PutType
    <3> QED
      BY <2>1, <2>2, <3>1, <3>2 DEF TellsOutcome, Restored
  <2>4. CASE ~ClearsMarker
    BY <1>7, <2>1, <2>4 DEF TellsOutcome, Restored, Finish, ClearsMarker
  <2> QED
    BY <2>3, <2>4
<1>8. CASE FinishStillPaused
  BY <1>8 DEF TellsOutcome, FinishStillPaused, Restored
<1> QED
  BY <1>1, <1>2, <1>3, <1>4, <1>5, <1>6, <1>7, <1>8, Endings

\* The exit code tells what became of the files (runRestoreTransaction).
THEOREM ExitCodeIsHonest == Spec => ExitCodeTellsOutcome
<1>1. IInv /\ [Next]_vars => [TellsOutcome]_vars
  BY EndsHonestly
<1> QED
  BY RestoreInductive, <1>1, PTL DEF Spec, ExitCodeTellsOutcome

(***************************************************************************)
(* The image of a half done restore.  It is that of an earlier transaction *)
(* than the one that runs, which is why only the pruning can touch it.     *)
(***************************************************************************)
UnfinishedIsEarlier == unfinished <= id /\ (pc # "idle" => unfinished < id)

UnfinishedIsDurable ==
    unfinished # 0 /\ images[unfinished] = "complete"
      => imagesOnDisk[unfinished] = "complete"

OldImage == UnfinishedIsEarlier /\ UnfinishedHasImage /\ UnfinishedIsDurable

\* The directory of the images is only lost in a power loss: the one that a
\* restore uses is not among those it removes when its staging fails.
RootKept == SnapshotRoot \in dirs => SnapshotRoot \in dirs'

LEMMA StepKeepsRoot == ASSUME IInv, Step PROVE RootKept
<1> SUFFICES ASSUME SnapshotRoot \in dirs PROVE SnapshotRoot \in dirs'
  BY DEF RootKept
<1> USE DEF diskVars
<1>1. ASSUME NEW t \in Target,
             Capture(t) \/ Stage(t) \/ Publish(t) \/ PublishFails(t)
             \/ RollBack(t) \/ RollBackFails(t)
      PROVE  SnapshotRoot \in dirs'
  BY <1>1 DEF Capture, Stage, Publish, PublishFails, RollBack, RollBackFails
<1>2. ASSUME NEW t \in Target, StageFails(t) PROVE SnapshotRoot \in dirs'
  BY <1>2 DEF StageFails, IInv, DirsMade
<1>3. CASE Start \/ LockBusy \/ ArchiveRejected \/ ArchiveAccepted \/ Describe
           \/ Captured \/ CaptureFails \/ Staged \/ Published
  BY <1>3 DEF Start, LockBusy, ArchiveRejected, ArchiveAccepted, Describe, Captured,
     CaptureFails, Staged, Published
<1>4. CASE ReportRejected \/ ReportFailed \/ RestartPasses \/ RestartFails
           \/ RollbackFailed \/ RolledBack \/ RestartedAgain \/ Finish
           \/ FinishStillPaused
  BY <1>4 DEF ReportRejected, ReportFailed, RestartPasses, RestartFails, RollbackFailed,
     RolledBack, RestartedAgain, Finish, FinishStillPaused
<1> QED
  BY <1>1, <1>2, <1>3, <1>4 DEF Step

\* Only the image of the transaction itself changes, or none.
LEMMA OwnImageOnly ==
    ASSUME IInv, OldImage, RootKept, unfinished' = unfinished, id' = id, pc # "idle",
           forfeited' = forfeited,
           \A i \in Tx \ {id} : images'[i] = images[i] /\ imagesOnDisk'[i] = imagesOnDisk[i]
    PROVE  OldImage'
BY TxAssumption DEF RootKept, OldImage, UnfinishedIsEarlier, UnfinishedHasImage,
   UnfinishedIsDurable, IInv, TypeOK, Tx

\* A transaction that gives up after it began to write has its image.
LEMMA AbandonedKeepsImage ==
    ASSUME IInv, OldImage, Abandoned, pc # "idle", pc' = "idle", dirs' = dirs,
           UNCHANGED <<id, images, imagesOnDisk, forfeited>>
    PROVE  OldImage'
<1>1. CASE unfinished' = unfinished
  BY <1>1 DEF OldImage, UnfinishedIsEarlier, UnfinishedHasImage, UnfinishedIsDurable
<1>2. CASE unfinished' = id /\ pc \in Writing
  BY <1>2, TxAssumption DEF OldImage, UnfinishedIsEarlier, UnfinishedHasImage,
     UnfinishedIsDurable, IInv, ImageBeforeWrites, DirsMade, TypeOK, Writing
<1> QED
  BY <1>1, <1>2 DEF Abandoned

\* The steps of the transaction that touch no image and end nothing.
LEMMA OldImageQuiet ==
    ASSUME IInv, OldImage, RootKept,
           UNCHANGED <<images, imagesOnDisk, forfeited, id, unfinished>>,
           pc' # "idle" => pc # "idle"
    PROVE  OldImage'
BY DEF RootKept, OldImage, UnfinishedIsEarlier, UnfinishedHasImage, UnfinishedIsDurable

LEMMA StartKeepsOldImage == ASSUME IInv, OldImage, Start PROVE OldImage'
BY TxAssumption DEF OldImage, UnfinishedIsEarlier, UnfinishedHasImage,
   UnfinishedIsDurable,
   IInv, TypeOK, Start, diskVars, imageVars

LEMMA PruningKeepsOldImage == ASSUME IInv, OldImage, ArchiveAccepted PROVE OldImage'
<1>1. PICK now \in Time :
        /\ \E gone \in Prunable(now) :
             images' = [i \in Tx |-> IF i = id THEN "partial"
                                     ELSE IF i \in gone THEN "none" ELSE images[i]]
        /\ forfeited' = forfeited \cup (Stale(now) \cap {unfinished})
  BY DEF ArchiveAccepted
<1>2. PICK gone \in Prunable(now) :
        images' = [i \in Tx |-> IF i = id THEN "partial"
                                ELSE IF i \in gone THEN "none" ELSE images[i]]
  BY <1>1
<1>3. /\ UNCHANGED <<imagesOnDisk, id, unfinished>>
      /\ pc = "read" /\ pc' = "capture" /\ dirs \subseteq dirs'
  BY DEF ArchiveAccepted
<1>4. UnfinishedIsEarlier'
  BY <1>3 DEF OldImage, UnfinishedIsEarlier
<1>5. unfinished # 0 => unfinished \in Tx /\ unfinished # id
  BY <1>3, TxAssumption DEF IInv, TypeOK, Tx, OldImage, UnfinishedIsEarlier
<1>6. UnfinishedHasImage'
  <2> SUFFICES ASSUME unfinished # 0, unfinished \notin forfeited'
               PROVE  /\ SnapshotRoot \in dirs'
                      /\ images'[unfinished] = "complete"
                      /\ imagesOnDisk[unfinished] = "complete"
    BY <1>3 DEF UnfinishedHasImage
  <2>1. unfinished \notin gone
    BY <1>1, <1>2 DEF Prunable
  <2>2. unfinished \notin forfeited
    BY <1>1
  <2> QED
    BY <1>2, <1>3, <1>5, <2>1, <2>2 DEF OldImage, UnfinishedHasImage
<1>7. UnfinishedIsDurable'
  <2> SUFFICES ASSUME unfinished # 0, images'[unfinished] = "complete"
               PROVE  imagesOnDisk[unfinished] = "complete"
    BY <1>3 DEF UnfinishedIsDurable
  <2>1. images[unfinished] = "complete"
    BY <1>2, <1>5
  <2> QED
    BY <2>1 DEF OldImage, UnfinishedIsDurable
<1> QED
  BY <1>4, <1>6, <1>7 DEF OldImage

LEMMA CapturedKeepsOldImage == ASSUME IInv, OldImage, Captured PROVE OldImage'
<1>1. /\ UNCHANGED <<images, forfeited, id, unfinished, dirs>> /\ pc = "capture"
      /\ imagesOnDisk' = [i \in Tx |->
           IF i = id THEN "complete"
           ELSE IF images[i] = "none" THEN "none"
           ELSE IF imagesOnDisk[i] = "none" THEN "partial" ELSE imagesOnDisk[i]]
  BY DEF Captured, diskVars
<1>2. unfinished # 0 => unfinished \in Tx /\ unfinished # id
  BY <1>1, TxAssumption DEF IInv, TypeOK, Tx, OldImage, UnfinishedIsEarlier
<1>3. ASSUME unfinished # 0, images[unfinished] = "complete"
      PROVE  imagesOnDisk'[unfinished] = "complete"
  BY <1>1, <1>2, <1>3 DEF OldImage, UnfinishedIsDurable
<1> QED
  BY <1>1, <1>3 DEF OldImage, UnfinishedIsEarlier, UnfinishedHasImage,
     UnfinishedIsDurable

\* What a power loss leaves of a durable image, and whose it may be.
LEMMA PowerLossKeepsOldImage == ASSUME IInv, OldImage, PowerLoss PROVE OldImage'
<1>1. /\ pc' = "idle" /\ id' = id /\ Abandoned
      /\ imagesOnDisk' = images'
      /\ forfeited' = IF SnapshotRoot \in dirs' THEN forfeited ELSE 1 .. id
  BY DEF PowerLoss, Return
<1>2. ASSUME NEW i \in Tx, SnapshotRoot \in dirs'
      PROVE  images'[i] \in {images[i], imagesOnDisk[i]}
  BY <1>2 DEF PowerLoss
<1>3. id \in Nat /\ unfinished \in Nat /\ unfinished <= id
  BY TxAssumption DEF IInv, TypeOK, OldImage, UnfinishedIsEarlier
<1>4. /\ unfinished' \in {unfinished, id} /\ unfinished' \in 0 .. MaxTx
      /\ unfinished' # unfinished => (unfinished' = id /\ pc \in Writing)
  BY <1>1 DEF Abandoned, IInv, TypeOK
<1>5. UnfinishedIsEarlier'
  BY <1>1, <1>3, <1>4 DEF UnfinishedIsEarlier
<1>6. CASE SnapshotRoot \in dirs'
  <2>1. unfinished' # 0 => unfinished' \in Tx
    BY <1>4, TxAssumption DEF Tx
  <2>2. CASE unfinished' = unfinished
    BY <1>1, <1>2, <1>5, <1>6, <2>1, <2>2
    DEF OldImage, UnfinishedHasImage, UnfinishedIsDurable
  <2>3. CASE unfinished' # unfinished
    <3>1. unfinished' = id /\ imagesOnDisk[id] = "complete" /\ images[id] = "complete"
      BY <1>4, <2>3 DEF IInv, ImageBeforeWrites
    <3> QED
      BY <1>1, <1>2, <1>5, <1>6, <2>1, <3>1
      DEF OldImage, UnfinishedHasImage, UnfinishedIsDurable
  <2> QED
    BY <2>2, <2>3
<1>7. CASE SnapshotRoot \notin dirs'
  <2>1. unfinished' # 0 => unfinished' \in forfeited'
    BY <1>1, <1>3, <1>4, <1>7
  <2> QED
    BY <1>1, <1>5, <2>1 DEF OldImage, UnfinishedHasImage, UnfinishedIsDurable
<1> QED
  BY <1>6, <1>7

LEMMA StepKeepsOldImage == ASSUME IInv, OldImage, Step PROVE OldImage'
<1> USE DEF imageVars
<1>0. RootKept
  BY StepKeepsRoot
<1>1. CASE Start \/ LockBusy \/ ArchiveRejected \/ ArchiveAccepted
  <2>1. CASE LockBusy \/ ArchiveRejected
    BY <1>0, <2>1, OldImageQuiet DEF LockBusy, ArchiveRejected, Return
  <2> QED
    BY <1>1, <2>1, StartKeepsOldImage, PruningKeepsOldImage
<1>2. CASE Describe \/ Captured \/ CaptureFails \/ RolledBack
  <2>1. images \in [Tx -> Image] /\ imagesOnDisk \in [Tx -> Image]
    BY DEF IInv, TypeOK
  <2>2. CASE Captured
    BY <2>2, CapturedKeepsOldImage
  <2>3. CASE Describe \/ CaptureFails
    BY <1>0, <2>1, <2>3, OwnImageOnly DEF Describe, CaptureFails, Return
  <2>4. CASE RolledBack
    BY <1>0, <2>1, <2>4, OwnImageOnly DEF RolledBack, Cleanup
  <2> QED
    BY <1>2, <2>2, <2>3, <2>4
<1>3. ASSUME NEW t \in Target,
             Capture(t) \/ Stage(t) \/ StageFails(t) \/ Publish(t) \/ PublishFails(t)
             \/ RollBack(t) \/ RollBackFails(t)
      PROVE  OldImage'
  BY <1>0, <1>3, OldImageQuiet DEF Capture, Stage, StageFails, Publish, PublishFails,
     RollBack,
     RollBackFails
<1>4. CASE Staged \/ Published \/ ReportFailed \/ RestartPasses \/ RestartFails
           \/ RestartedAgain
  BY <1>0, <1>4, OldImageQuiet DEF Staged, Published, ReportFailed, RestartPasses,
     RestartFails,
     RestartedAgain, Return
<1>5. CASE ReportRejected \/ RollbackFailed
  BY <1>5, AbandonedKeepsImage DEF ReportRejected, RollbackFailed, Return, diskVars
<1>6. CASE Finish \/ FinishStillPaused
  <2>1. unfinished' = 0 /\ id' = id
    BY <1>6 DEF Finish, FinishStillPaused
  <2>2. pc' = "idle" /\ id \in Nat
    BY <1>6, TxAssumption DEF Finish, FinishStillPaused, Return, IInv, TypeOK
  <2> QED
    BY <2>1, <2>2 DEF OldImage, UnfinishedIsEarlier, UnfinishedHasImage,
       UnfinishedIsDurable
<1> QED
  BY <1>1, <1>2, <1>3, <1>4, <1>5, <1>6 DEF Step

LEMMA EnvironmentKeepsOldImage == ASSUME IInv, OldImage, Environment PROVE OldImage'
<1> USE DEF imageVars
<1>1. CASE MonitorLocks \/ MonitorUnlocks \/ \E t \in MonitorFile : MonitorWrites(t)
  BY <1>1, OldImageQuiet DEF MonitorLocks, MonitorUnlocks, MonitorWrites, RootKept,
     diskVars
<1>2. CASE Crash
  BY <1>2, AbandonedKeepsImage DEF Crash, Return
<1> QED
  BY <1>1, <1>2, PowerLossKeepsOldImage DEF Environment

LEMMA OldImageHolds == Spec => []OldImage
<1>1. Init => OldImage
  BY TxAssumption DEF Init, OldImage, UnfinishedIsEarlier, UnfinishedHasImage,
     UnfinishedIsDurable
<1>2. IInv /\ OldImage /\ [Next]_vars => OldImage'
  <2>1. ASSUME IInv, OldImage, UNCHANGED vars PROVE OldImage'
    BY <2>1, OldImageQuiet DEF vars, diskVars, imageVars, RootKept
  <2> QED
    BY <2>1, StepKeepsOldImage, EnvironmentKeepsOldImage DEF Next
<1> QED
  BY RestoreInductive, <1>1, <1>2, PTL DEF Spec

\* The image of a half done restore is there and durable (CaptureSnapshot,
\* PruneSnapshots) unless a later restore found it older than SnapshotMaxAge by
\* its clock or a power loss took the directory of the images, for any number of
\* restores, crashes and power losses.
THEOREM HalfDoneCanBeUndone == Spec => []UnfinishedHasImage
<1>1. OldImage => UnfinishedHasImage
  BY DEF OldImage
<1> QED
  BY OldImageHolds, <1>1, PTL

(***************************************************************************)
(* Pruning spares the newest image it recognises, by the clock.            *)
(***************************************************************************)
\* A transaction has no image before it takes one.
NoImageYet ==
    \A i \in Tx : i > id \/ (i = id /\ pc = "read")
                    => images[i] = "none" /\ imagesOnDisk[i] = "none"

LEMMA NoImageQuiet ==
    ASSUME IInv, NoImageYet, id' = id, pc' # "read",
           images' = images, imagesOnDisk' = imagesOnDisk
    PROVE  NoImageYet'
BY DEF NoImageYet

LEMMA NoImageOwn ==
    ASSUME IInv, NoImageYet, id' = id, pc' # "read",
           \A i \in Tx \ {id} : images[i] = "none" /\ imagesOnDisk[i] = "none"
             => images'[i] = "none" /\ imagesOnDisk'[i] = "none"
    PROVE  NoImageYet'
<1> SUFFICES ASSUME NEW i \in Tx, i > id
             PROVE  images'[i] = "none" /\ imagesOnDisk'[i] = "none"
  BY DEF NoImageYet
<1>1. i # id
  BY TxAssumption DEF IInv, TypeOK, Tx
<1>2. images[i] = "none" /\ imagesOnDisk[i] = "none"
  BY DEF NoImageYet
<1> QED
  BY <1>1, <1>2

LEMMA StepKeepsNoImageYet == ASSUME IInv, NoImageYet, Step PROVE NoImageYet'
<1> USE DEF imageVars
<1>1. images \in [Tx -> Image] /\ imagesOnDisk \in [Tx -> Image]
  BY DEF IInv, TypeOK
<1>2. CASE Start
  BY <1>2, TxAssumption DEF Start, NoImageYet, IInv, TypeOK, Tx
<1>3. CASE LockBusy \/ ArchiveRejected
  BY <1>3, NoImageQuiet DEF LockBusy, ArchiveRejected, Return
<1>4. CASE ArchiveAccepted
  <2>1. PICK now \in Time : \E gone \in Prunable(now) :
          images' = [i \in Tx |-> IF i = id THEN "partial"
                                  ELSE IF i \in gone THEN "none" ELSE images[i]]
    BY <1>4 DEF ArchiveAccepted
  <2>2. imagesOnDisk' = imagesOnDisk /\ id' = id /\ pc' = "capture"
    BY <1>4 DEF ArchiveAccepted
  <2> QED
    BY <2>1, <2>2, NoImageOwn
<1>5. CASE Describe \/ CaptureFails \/ RolledBack \/ Finish \/ FinishStillPaused
  <2>1. CASE Describe \/ CaptureFails
    BY <1>1, <2>1, NoImageOwn DEF Describe, CaptureFails, Return
  <2>2. CASE RolledBack
    BY <1>1, <2>2, NoImageOwn DEF RolledBack, Cleanup, Return
  <2>3. CASE Finish \/ FinishStillPaused
    BY <1>1, <2>3, NoImageOwn DEF Finish, FinishStillPaused, Cleanup, Return
  <2> QED
    BY <1>5, <2>1, <2>2, <2>3
<1>6. CASE Captured
  BY <1>1, <1>6, NoImageOwn DEF Captured
<1>7. ASSUME NEW t \in Target,
             Capture(t) \/ Stage(t) \/ StageFails(t) \/ Publish(t) \/ PublishFails(t)
             \/ RollBack(t) \/ RollBackFails(t)
      PROVE  NoImageYet'
  BY <1>7, NoImageQuiet DEF Capture, Stage, StageFails, Publish, PublishFails, RollBack,
     RollBackFails
<1>8. CASE Staged \/ Published \/ ReportFailed \/ RestartPasses \/ RestartFails
           \/ RestartedAgain \/ ReportRejected \/ RollbackFailed
  BY <1>8, NoImageQuiet DEF Staged, Published, ReportFailed, RestartPasses,
     RestartFails,
     RestartedAgain, ReportRejected, RollbackFailed, BeginRollback, Return
<1> QED
  BY <1>2, <1>3, <1>4, <1>5, <1>6, <1>7, <1>8 DEF Step

LEMMA NoImageYetHolds == Spec => []NoImageYet
<1> USE DEF imageVars
<1>1. Init => NoImageYet
  BY DEF Init, NoImageYet
<1>2. IInv /\ NoImageYet /\ Environment => NoImageYet'
  <2> SUFFICES ASSUME IInv, NoImageYet, Environment PROVE NoImageYet'
    OBVIOUS
  <2>1. CASE PowerLoss
    <3>1. /\ id' = id /\ pc' = "idle" /\ imagesOnDisk' = images'
          /\ \A i \in Tx : images'[i] \in {images[i], imagesOnDisk[i], "none"}
      BY <2>1 DEF PowerLoss, Return
    <3> QED
      BY <3>1, NoImageOwn
  <2>2. CASE ~PowerLoss
    <3>1. UNCHANGED <<id, images, imagesOnDisk>> /\ pc' \in {pc, "idle"}
      BY <2>2 DEF Environment, MonitorLocks, MonitorUnlocks, MonitorWrites, Crash,
         Return
    <3> QED
      BY <3>1 DEF NoImageYet
  <2> QED
    BY <2>1, <2>2
<1>3. IInv /\ NoImageYet /\ [Next]_vars => NoImageYet'
  BY <1>2, StepKeepsNoImageYet DEF Next, vars, NoImageYet
<1> QED
  BY RestoreInductive, <1>1, <1>3, PTL DEF Spec

LEMMA PruningLeavesAnImage ==
    ASSUME IInv, OldImage, NoImageYet, ArchiveAccepted, unfinished # 0,
           images[unfinished] = "complete"
    PROVE  \E i \in Tx : images'[i] = "complete" /\ createdAt[i] >= createdAt[unfinished]
<1>1. PICK now \in Time : \E gone \in Prunable(now) :
        images' = [i \in Tx |-> IF i = id THEN "partial"
                                ELSE IF i \in gone THEN "none" ELSE images[i]]
  BY DEF ArchiveAccepted
<1>2. PICK gone \in Prunable(now) :
        images' = [i \in Tx |-> IF i = id THEN "partial"
                                ELSE IF i \in gone THEN "none" ELSE images[i]]
  BY <1>1
<1>3. unfinished \in Recognised
  BY TxAssumption DEF IInv, TypeOK, Tx, Recognised
<1>4. \A i \in Recognised : i \in Tx /\ i # id /\ createdAt[i] \in Nat
  BY TimeAssumption DEF NoImageYet, ArchiveAccepted, Recognised, IInv, TypeOK, Time
<1>5. CASE unfinished \notin gone
  BY <1>2, <1>3, <1>4, <1>5
<1>6. CASE unfinished \in gone
  <2>1. PICK n \in Newest : n \notin gone
    BY <1>6 DEF Prunable
  <2>2. n \in Recognised /\ createdAt[n] >= createdAt[unfinished]
    BY <1>3, <1>4, <2>1 DEF Newest
  <2> QED
    BY <1>2, <1>4, <2>1, <2>2 DEF Recognised
<1> QED
  BY <1>5, <1>6

\* Every other step removes no image but its own, unless all go.
LEMMA OthersLeaveTheImage ==
    ASSUME IInv, OldImage, Next, ~ArchiveAccepted, unfinished # 0,
    SnapshotRoot \in dirs',
           unfinished' = unfinished, images[unfinished] = "complete"
    PROVE  images'[unfinished] = "complete"
<1> USE DEF imageVars
<1>1. /\ images \in [Tx -> Image] /\ unfinished \in Tx
      /\ imagesOnDisk[unfinished] = "complete"
      /\ pc # "idle" => unfinished # id
  BY TxAssumption DEF IInv, TypeOK, Tx, OldImage, UnfinishedIsEarlier,
     UnfinishedIsDurable
<1>2. CASE Start \/ LockBusy \/ ArchiveRejected
  BY <1>2 DEF Start, LockBusy, ArchiveRejected
<1>3. CASE Describe \/ Captured \/ CaptureFails \/ RolledBack
  BY <1>1, <1>3 DEF Describe, Captured, CaptureFails, RolledBack, Cleanup
<1>4. ASSUME NEW t \in Target,
             Capture(t) \/ Stage(t) \/ StageFails(t) \/ Publish(t) \/ PublishFails(t)
             \/ RollBack(t) \/ RollBackFails(t)
      PROVE  images' = images
  BY <1>4 DEF Capture, Stage, StageFails, Publish, PublishFails, RollBack, RollBackFails
<1>5. CASE Staged \/ Published \/ ReportFailed \/ RestartPasses \/ RestartFails
           \/ RestartedAgain \/ ReportRejected \/ RollbackFailed
  BY <1>5 DEF Staged, Published, ReportFailed, RestartPasses, RestartFails,
     RestartedAgain, ReportRejected, RollbackFailed
<1>6. ~Finish /\ ~FinishStillPaused
  BY DEF Finish, FinishStillPaused
<1>7. CASE Environment
  <2>1. CASE PowerLoss
    BY <1>1, <2>1 DEF PowerLoss
  <2> QED
    BY <1>7, <2>1 DEF Environment, MonitorLocks, MonitorUnlocks, MonitorWrites, Crash
<1> QED
  BY <1>2, <1>3, <1>4, <1>5, <1>6, <1>7 DEF Next, Step

\* Whatever prunes, crashes or loses power, the image of a half done restore
\* goes only while one stays whose CreatedAt is no earlier, or together with the
\* directory of the images (PruneSnapshots).
THEOREM PruningSparesTheNewest == Spec => AnImageIsLeft
<1>1. IInv /\ OldImage /\ NoImageYet /\ Next => LeavesAnImage
  <2> SUFFICES ASSUME IInv, OldImage, NoImageYet, Next, unfinished # 0,
                      unfinished' = unfinished, images[unfinished] = "complete",
                      SnapshotRoot \in dirs'
               PROVE  \E i \in Tx : images'[i] = "complete"
                                   /\ createdAt[i] >= createdAt[unfinished]
    BY DEF LeavesAnImage
  <2>1. unfinished \in Tx /\ createdAt[unfinished] >= createdAt[unfinished]
    BY TxAssumption, TimeAssumption DEF IInv, TypeOK, Tx, Time
  <2> QED
    BY <2>1, PruningLeavesAnImage, OthersLeaveTheImage
<1>2. IInv /\ OldImage /\ NoImageYet /\ [Next]_vars => [LeavesAnImage]_vars
  BY <1>1
<1> QED
  BY RestoreInductive, OldImageHolds, NoImageYetHolds, <1>2, PTL DEF Spec, AnImageIsLeft

(***************************************************************************)
(* The refinement of AtomicRestore.                                        *)
(***************************************************************************)
\* A file that becomes fragile when the restore ends had no directory before.
LEMMA AtomicEnd ==
    ASSUME IInv, Running, NEW code, Return(code), UNCHANGED <<dirs, dirsOnDisk>>
    PROVE  Atomic!End(code) /\ ~Running'
<1>1. ~Running' /\ tx'.archived = {} /\ exit' = code
  BY DEF Running, Return, NoLocal
<1>2. tx.there \subseteq dirs /\ Existing = tx.there /\ Existing' = dirs
  BY <1>1 DEF IInv, DirsMade, Running, Existing
<1> DEFINE fragile == {t \in Target : Parent[t] \in Existing \ dirsOnDisk}
<1>3. fragile \subseteq fragile'
  BY <1>2
<1>4. fragile' \subseteq fragile \cup {t \in Target : tx.before[t] = "absent"}
  BY <1>2 DEF IInv, DirsMade, Running
<1> QED
  BY <1>1, <1>3, <1>4 DEF Atomic!End

\* Before the first write, and after a rollback that did not fail, there is
\* no trace of the archive, in view or on the disk.
LEMMA NoTrace ==
    ASSUME IInv, \/ pc \in {"read", "capture", "again"}
                 \/ pc = "rollback" /\ tx.todo = {} /\ tx.err = "none"
    PROVE  /\ file = tx.before
           /\ \A t \in Target : fileOnDisk[t] \in {tx.found[t], tx.before[t]}
<1>1. CASE pc \in {"read", "capture", "again"}
  BY <1>1 DEF IInv, FilesKept, DiskFollows
<1>2. CASE pc = "rollback" /\ tx.todo = {} /\ tx.err = "none"
  <2>1. \A t \in Target : file[t] = tx.before[t]
    BY <1>2 DEF IInv, FilesKept, FilesWritten, Done, Writing
  <2>2. file = tx.before
    BY <2>1 DEF IInv, TypeOK, Local
  <2> QED
    BY <1>2, <2>1, <2>2 DEF IInv, DiskFollows, Writing
<1> QED
  BY <1>1, <1>2

\* At any time a file, in view or on the disk, is the old one or the archive's.
LEMMA OldOrArchived ==
    ASSUME IInv, Running, NEW t \in Target
    PROVE  /\ file[t] \in {tx.before[t]} \cup Atomic!Archive(t)
           /\ fileOnDisk[t] \in {tx.found[t], tx.before[t]} \cup Atomic!Archive(t)
<1>1. pc \in {"read", "capture", "stage", "again"} \cup Writing
  BY DEF IInv, TypeOK, PC, Running, Writing
<1> QED
  BY <1>1 DEF IInv, FilesKept, DiskFollows, Atomic!Archive

\* A step inside a transaction is none of the abstract one's.
LEMMA InsideIsHidden ==
    ASSUME Running, Running', exit' = exit, tx'.before = tx.before,
           tx'.archived = tx.archived, tx'.found = tx.found, tx'.there = tx.there,
           dirsOnDisk' = dirsOnDisk
    PROVE  UNCHANGED Atomic!vars
BY DEF Atomic!vars, Running, Existing

LEMMA OutsideIsHidden ==
    ASSUME ~Running, ~Running', UNCHANGED <<file, fileOnDisk, dirs, dirsOnDisk, exit,
                                            tx>>
    PROVE  UNCHANGED Atomic!vars
BY DEF Atomic!vars, Running, Existing

LEMMA StartBegins == ASSUME IInv, Start PROVE Atomic!Begin
<1>1. PICK archived \in SUBSET Target :
        tx' = [NoLocal EXCEPT !.archived = archived, !.before = file,
                              !.found = fileOnDisk, !.there = dirs]
  BY DEF Start
<1>2. /\ tx'.archived = archived /\ tx'.before = file
      /\ tx'.found = fileOnDisk /\ tx'.there = dirs
  BY <1>1 DEF NoLocal
<1>3. ~Running /\ Running' /\ exit' = None /\ UNCHANGED diskVars
  BY DEF Start, Running
<1> QED
  BY <1>2, <1>3 DEF Atomic!Begin, Existing, diskVars

LEMMA BusyIsBusy == ASSUME IInv, LockBusy PROVE Atomic!LockBusy
BY DEF LockBusy, diskVars, Running, Existing, Atomic!LockBusy

LEMMA FailureAborts ==
    ASSUME IInv, NEW code \in {1, 3, 4}, Return(code),
           UNCHANGED diskVars,
           \/ pc \in {"read", "capture", "again"}
           \/ pc = "rollback" /\ tx.todo = {} /\ tx.err = "none"
    PROVE  Atomic!Abort
<1>1. Running
  BY DEF Running
<1>2. Atomic!End(code) /\ ~Running'
  BY <1>1, AtomicEnd DEF diskVars
<1>3. /\ file = tx.before
      /\ \A t \in Target : fileOnDisk[t] \in {tx.found[t], tx.before[t]}
  BY NoTrace
<1> QED
  BY <1>1, <1>2, <1>3 DEF Atomic!Abort, Atomic!Settled, diskVars

LEMMA GivingUpInterrupts ==
    ASSUME IInv, Running, NEW code \in {None, 3, 5}, Return(code),
           UNCHANGED <<file, fileOnDisk, dirs, dirsOnDisk>>
    PROVE  Atomic!Interrupted
<1>1. Atomic!End(code) /\ ~Running'
  BY AtomicEnd
<1>2. \A t \in Target : /\ file[t] \in {tx.before[t]} \cup Atomic!Archive(t)
                        /\ fileOnDisk[t] \in {tx.found[t], tx.before[t]}
                                             \cup Atomic!Archive(t)
  BY OldOrArchived
<1> QED
  BY <1>1, <1>2 DEF Atomic!Interrupted

\* All of the archive is in view and on the disk before reconcile.
LEMMA ReconcileCommits ==
    ASSUME IInv, pc = "reconcile", pc' = "idle", UNCHANGED fileOnDisk,
           file' \in [Target -> Content],
           \A t \in Target \ {Marker} : file'[t] = file[t],
           Marker \in tx.archived => file'[Marker] = file[Marker]
    PROVE  Atomic!Committed
<1>1. Running /\ ~Running'
  BY DEF Running
<1>2. ASSUME NEW t \in Target
      PROVE  IF t \in tx.archived THEN file'[t] = "archive" /\ fileOnDisk[t] = "archive"
             ELSE fileOnDisk[t] \in {tx.found[t], tx.before[t]}
  BY DEF IInv, FilesWritten, DiskWritten, DiskFollows, Writing
<1> QED
  BY <1>1, <1>2 DEF Atomic!Committed, Atomic!Settled

LEMMA FinishCommits == ASSUME IInv, Finish PROVE Atomic!Commit
<1>1. /\ pc = "reconcile" /\ Return(0) /\ UNCHANGED <<fileOnDisk, dirs, dirsOnDisk>>
      /\ IF ClearsMarker THEN Put(Marker, "absent") ELSE UNCHANGED file
  BY DEF Finish
<1>2. Running /\ Atomic!End(0) /\ ~Running' /\ pc' = "idle"
  BY <1>1, AtomicEnd DEF Running, Return
<1>3. TypeOK /\ Marker \in Target /\ "absent" \in Content
  BY TargetAssumption DEF IInv, Content
<1>4. /\ file' \in [Target -> Content]
      /\ \A t \in Target \ {Marker} : file'[t] = file[t]
      /\ Marker \in tx.archived => file'[Marker] = file[Marker]
      /\ Marker \notin tx.archived => file'[Marker] = "absent"
  <2>1. CASE ClearsMarker
    <3>1. Put(Marker, "absent") /\ Marker \notin tx.archived
      BY <1>1, <2>1 DEF ClearsMarker
    <3> QED
      BY <1>3, <3>1, PutType
  <2>2. CASE ~ClearsMarker
    BY <1>1, <1>3, <2>2 DEF ClearsMarker, TypeOK
  <2> QED
    BY <2>1, <2>2
<1>5. Atomic!Committed
  BY <1>1, <1>2, <1>4, ReconcileCommits
<1>6. \A t \in Target \ tx.archived :
        file'[t] = IF t = Marker THEN "absent" ELSE tx.before[t]
  BY <1>1, <1>4 DEF IInv, FilesKept, Writing
<1> QED
  BY <1>2, <1>5, <1>6 DEF Atomic!Commit

LEMMA FinishStillPausedCommits ==
    ASSUME IInv, FinishStillPaused PROVE Atomic!CommitStillPaused
<1>1. /\ pc = "reconcile" /\ Return(1)
      /\ UNCHANGED <<file, fileOnDisk, dirs, dirsOnDisk>>
      /\ Marker \notin tx.archived /\ file[Marker] # "absent"
  BY DEF FinishStillPaused, ClearsMarker, diskVars
<1>2. Running /\ Atomic!End(1) /\ ~Running' /\ pc' = "idle"
  BY <1>1, AtomicEnd DEF Running, Return
<1>3. file \in [Target -> Content] /\ Marker \in Target
  BY TargetAssumption DEF IInv, TypeOK
<1>4. Atomic!Committed
  BY <1>1, <1>2, <1>3, ReconcileCommits
<1>5. \A t \in Target \ tx.archived : file[t] = tx.before[t]
  BY <1>1 DEF IInv, FilesKept, Writing
<1> QED
  BY <1>1, <1>2, <1>3, <1>4, <1>5 DEF Atomic!CommitStillPaused

LEMMA PowerLossIsAtomic == ASSUME IInv, PowerLoss PROVE Atomic!PowerLoss
<1> DEFINE fragile == {t \in Target : Parent[t] \in Existing \ dirsOnDisk}
<1>1. /\ fileOnDisk' = file' /\ dirsOnDisk' = dirs' /\ dirsOnDisk \subseteq dirs'
      /\ ~Running' /\ tx'.archived = {} /\ exit' = None
  BY DEF PowerLoss, Return, NoLocal, Running
<1>2. ASSUME NEW t \in Target
      PROVE  \/ file'[t] \in {file[t], fileOnDisk[t]}
             \/ file'[t] = "absent" /\ Parent[t] \notin dirsOnDisk
  BY <1>1 DEF PowerLoss
<1>3. fragile' = {}
  BY <1>1 DEF Existing
<1>4. CASE Running
  <2>1. ASSUME NEW t \in Target
        PROVE  \/ file'[t] \in {tx.before[t], tx.found[t]} \cup Atomic!Archive(t)
               \/ file'[t] = "absent" /\ t \in fragile
    <3>1. CASE file'[t] \in {file[t], fileOnDisk[t]}
      BY <1>4, <3>1, OldOrArchived
    <3>2. CASE file'[t] = "absent" /\ Parent[t] \notin dirsOnDisk
      BY <1>4, <3>2 DEF IInv, DirsMade, Running, Existing
    <3> QED
      BY <1>2, <3>1, <3>2
  <2> QED
    BY <1>1, <1>3, <1>4, <2>1 DEF Atomic!PowerLoss
<1>5. CASE ~Running
  <2>1. ASSUME NEW t \in Target
        PROVE  \/ file'[t] \in {file[t], fileOnDisk[t]}
               \/ file'[t] = "absent" /\ t \in fragile
    BY <1>2, <1>5 DEF IInv, FilesHaveDirs, Existing
  <2> QED
    BY <1>1, <1>3, <1>5, <2>1 DEF Atomic!PowerLoss
<1> QED
  BY <1>4, <1>5

LEMMA MonitorWritesOutside ==
    ASSUME IInv, NEW t \in MonitorFile, MonitorWrites(t) PROVE Atomic!MonitorWrites(t)
<1>1. /\ ~Running /\ ~Running' /\ UNCHANGED <<tx, exit, dirs, dirsOnDisk>>
      /\ Synced(t) /\ t \in Target /\ TypeOK
  BY TargetAssumption DEF IInv, LockHeld, MonitorWrites, Running
<1>2. PICK content \in Content : Put(t, content)
  BY DEF MonitorWrites, Content
<1>3. /\ file' \in [Target -> Content]
      /\ \A u \in Target \ {t} : file'[u] = file[u]
  BY <1>1, <1>2, PutType
<1>4. /\ fileOnDisk'[t] = file'[t]
      /\ \A u \in Target : fileOnDisk'[u] \in {fileOnDisk[u], file'[u]}
  BY <1>1, <1>3, SyncedType
<1> QED
  BY <1>1, <1>3, <1>4 DEF Atomic!MonitorWrites, Atomic!Settled, Running, Existing

LEMMA StepRefines == ASSUME IInv, Step PROVE [Atomic!Next]_(Atomic!vars)
<1> USE DEF diskVars
<1>1. CASE Start \/ LockBusy
  BY <1>1, StartBegins, BusyIsBusy DEF Atomic!Next
<1>2. CASE ArchiveRejected \/ CaptureFails \/ RestartedAgain
  <2>1. PICK code \in {1, 3, 4} : Return(code)
    BY <1>2 DEF ArchiveRejected, CaptureFails, RestartedAgain
  <2>2. /\ UNCHANGED diskVars
        /\ pc \in {"read", "capture", "again"}
    BY <1>2 DEF ArchiveRejected, CaptureFails, RestartedAgain
  <2> QED
    BY <2>1, <2>2, FailureAborts DEF Atomic!Next
<1>3. CASE RolledBack
  <2>1. /\ UNCHANGED diskVars
        /\ pc = "rollback" /\ tx.todo = {} /\ tx.err = "none"
        /\ tx.code \in {1, 4}
    BY <1>3 DEF RolledBack, IInv, TypeOK, Local
  <2>2. CASE tx.code = 4
    BY <1>3, <2>1, <2>2, InsideIsHidden DEF RolledBack, Running
  <2>3. CASE tx.code # 4
    BY <1>3, <2>1, <2>3, FailureAborts DEF RolledBack, Atomic!Next
  <2> QED
    BY <2>2, <2>3
<1>4. CASE ReportRejected \/ RollbackFailed
  <2>1. PICK code \in {None, 3, 5} : Return(code)
    BY <1>4 DEF ReportRejected, RollbackFailed
  <2>2. UNCHANGED <<file, fileOnDisk, dirs, dirsOnDisk>> /\ Running
    BY <1>4 DEF ReportRejected, RollbackFailed, Running
  <2> QED
    BY <2>1, <2>2, GivingUpInterrupts DEF Atomic!Next
<1>5. CASE Finish \/ FinishStillPaused
  BY <1>5, FinishCommits, FinishStillPausedCommits DEF Atomic!Next
<1>6. CASE ArchiveAccepted \/ Describe \/ Captured \/ Staged \/ Published
           \/ RestartPasses \/ ReportFailed \/ RestartFails
  <2>1. tx \in Local
    BY DEF IInv, TypeOK
  <2>2. /\ Running /\ Running' /\ exit' = exit /\ dirsOnDisk' = dirsOnDisk
    BY <1>6 DEF ArchiveAccepted, Describe, Captured, Staged, Published, RestartPasses,
       ReportFailed, RestartFails, BeginRollback, Running
  <2>3. /\ tx'.archived = tx.archived /\ tx'.before = tx.before
        /\ tx'.found = tx.found /\ tx'.there = tx.there
    BY <1>6, <2>1 DEF ArchiveAccepted, Describe, Captured, Staged, Published,
       RestartPasses, ReportFailed, RestartFails, BeginRollback, Local
  <2> QED
    BY <2>2, <2>3, InsideIsHidden
<1>7. ASSUME NEW t \in Target,
             Capture(t) \/ Stage(t) \/ StageFails(t) \/ Publish(t) \/ PublishFails(t)
             \/ RollBack(t) \/ RollBackFails(t)
      PROVE  UNCHANGED Atomic!vars
  <2>1. tx \in Local
    BY DEF IInv, TypeOK
  <2>2. /\ Running /\ Running' /\ exit' = exit /\ dirsOnDisk' = dirsOnDisk
    BY <1>7 DEF Capture, Stage, StageFails, Publish, PublishFails, RollBack,
       RollBackFails,
       Running
  <2>3. /\ tx'.archived = tx.archived /\ tx'.before = tx.before
        /\ tx'.found = tx.found /\ tx'.there = tx.there
    BY <1>7, <2>1 DEF Capture, Stage, StageFails, Publish, PublishFails, RollBack,
       RollBackFails, Local
  <2> QED
    BY <2>2, <2>3, InsideIsHidden
<1> QED
  BY <1>1, <1>2, <1>3, <1>4, <1>5, <1>6, <1>7 DEF Step

LEMMA EnvironmentRefines ==
    ASSUME IInv, Environment PROVE [Atomic!Next]_(Atomic!vars)
<1>1. CASE MonitorLocks
  <2>1. ~Running /\ ~Running' /\ UNCHANGED <<diskVars, tx>> /\ exit' = None
    BY <1>1 DEF MonitorLocks, IInv, LockHeld, Running
  <2> QED
    BY <2>1 DEF Atomic!Next, Atomic!MonitorLocks, Running, Existing, diskVars
<1>2. CASE MonitorUnlocks
  <2>1. ~Running /\ ~Running' /\ UNCHANGED <<file, fileOnDisk, dirs, dirsOnDisk, exit,
                                             tx>>
    BY <1>2 DEF MonitorUnlocks, IInv, LockHeld, diskVars, Running
  <2> QED
    BY <2>1, OutsideIsHidden
<1>3. CASE Crash
  <2>1. Return(None) /\ Running /\ UNCHANGED <<file, fileOnDisk, dirs, dirsOnDisk>>
    BY <1>3 DEF Crash, Running
  <2> QED
    BY <2>1, GivingUpInterrupts DEF Atomic!Next
<1> QED
  BY <1>1, <1>2, <1>3, PowerLossIsAtomic, MonitorWritesOutside
  DEF Environment, Atomic!Next

\* A restore implements AtomicRestore (runRestoreTransaction under the lock):
\* with code 0 the archive is there and survives a power loss, but for a file
\* whose directory had to be made and may be lost; with 4 nothing
\* has changed and no power loss brings the archive later, with 1 it is one of
\* the two, and what a crash, a power loss, an unsafe path (3) or a failed
\* rollback (5) leaves is made of old and archived files.
THEOREM RestoreRefinesAtomic == Spec => RestoreIsAtomic
<1>1. Init => Atomic!Init
  <2> SUFFICES ASSUME Init PROVE Atomic!Init
    OBVIOUS
  <2>1. file \in [Target -> Content]
    BY DEF Init, Content
  <2> QED
    BY <2>1 DEF Init, NoLocal, Running, Existing, Atomic!Init
<1>2. IInv /\ [Next]_vars => [Atomic!Next]_(Atomic!vars)
  <2>1. ASSUME UNCHANGED vars PROVE UNCHANGED Atomic!vars
    BY <2>1 DEF vars, diskVars, Running, Existing, Atomic!vars
  <2> QED
    BY <2>1, StepRefines, EnvironmentRefines DEF Next
<1> QED
  BY RestoreInductive, <1>1, <1>2, PTL DEF Spec, RestoreIsAtomic, Atomic!Spec
=============================================================================
