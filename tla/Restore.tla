------------------------------ MODULE Restore ------------------------------
(***************************************************************************)
(* `proxyctl restore`: one transaction under the monitor's lock that takes *)
(* an image of every target, stages and publishes the archived files,      *)
(* restarts and rechecks the services, and undoes all of it from the image *)
(* when that fails (internal/backup/restore.go, snapshot.go and            *)
(* cmd/proxyctl/backup.go).                                                *)
(*                                                                         *)
(* Transactions are numbered 1, 2, ...; each owns one image directory.     *)
(* Files, images and directories exist twice: in view, and as a power loss *)
(* would leave them; a file or an image goes with its directory.           *)
(*                                                                         *)
(* The commands run without a cancellable context, so that the             *)
(* cancellation paths of the library are not part of the model.            *)
(***************************************************************************)
EXTENDS Naturals, FiniteSets

CONSTANTS Target,     \* the files an archive may hold
          Config,     \* those whose restore restarts a service
          MonitorFile,\* those that monitor commands write under the lock
          Marker,     \* the pause marker, one of them
          Dir, Parent,\* Parent[t]: the directory that holds t
          Path,       \* Path[d]: directory d and those above it
          SnapshotRoot, \* the directory of the images
          None,       \* no exit code
          MaxAge,     \* SnapshotMaxAge
          MaxTime,    \* bound: what the wall clock shows
          MaxTx,      \* bound: transactions
          MaxFaults   \* bound: crashes, power losses, failed system calls

ASSUME TargetAssumption ==
    /\ Config \subseteq Target /\ MonitorFile \subseteq Target
    /\ Marker \in MonitorFile
    /\ Parent \in [Target -> Dir] /\ SnapshotRoot \in Dir
    /\ Path \in [Dir -> SUBSET Dir]
    /\ \A d \in Dir : d \in Path[d] /\ \A e \in Path[d] : Path[e] \subseteq Path[d]
    /\ None \notin Nat

ASSUME TxAssumption == MaxTx \in Nat /\ MaxFaults \in Nat

ASSUME TimeAssumption == MaxAge \in Nat /\ MaxTime \in Nat

\* "archive" is what the archive holds, "a" what was there at first, "b" what
\* the monitor writes.
Content == {"absent", "a", "b", "archive"}
Image == {"none", "partial", "complete"}
Tx == 1 .. MaxTx
Time == 0 .. MaxTime

VARIABLES file, fileOnDisk,   \* file[t]: content of target t
          dirs, dirsOnDisk,   \* the directories that exist
          temps,              \* targets beside which the restore that runs
                              \* has a staging file
          images, imagesOnDisk, \* images[i]: the image of transaction i
          createdAt,          \* the CreatedAt of each image
          forfeited,          \* transactions whose image may be gone
          lock,               \* holder of the recovery lock
          id,                 \* number of the last transaction
          pc,                 \* its next step
          tx,                 \* its local variables
          exit,               \* exit code of the last restore, until the next
                              \* command takes the lock
          faults,             \* faults that may still happen
          unfinished          \* last transaction that was left half done, or 0

diskVars == <<file, fileOnDisk, dirs, dirsOnDisk, temps>>
imageVars == <<images, imagesOnDisk, createdAt, forfeited>>
vars == <<diskVars, imageVars, lock, id, pc, tx, exit, faults, unfinished>>

PC == {"idle", "read", "capture", "stage", "publish", "failed", "restart",
       "rollback", "again", "reconcile"}
Error == {"none", "io", "unsafe"}

Local ==
    [archived  : SUBSET Target,
     todo      : SUBSET Target,        \* still to be treated in this phase
     entries   : [Target -> Content],  \* the image's record of each target
     before    : [Target -> Content],  \* history: file when it started,
     found     : [Target -> Content],  \* fileOnDisk then,
     there     : SUBSET Dir,           \* and dirs
     created   : SUBSET Dir,           \* directories its staging created
     err       : Error,                \* the first error of this phase
     code      : {1, 4}]               \* what to return once rolled back

NoLocal ==
    [archived |-> {}, todo |-> {},
     entries |-> [t \in Target |-> "absent"],
     before |-> [t \in Target |-> "absent"],
     found |-> [t \in Target |-> "absent"], there |-> {}, created |-> {},
     err |-> "none", code |-> 1]

TypeOK ==
    /\ file \in [Target -> Content] /\ fileOnDisk \in [Target -> Content]
    /\ dirs \subseteq Dir /\ dirsOnDisk \subseteq dirs
    /\ temps \subseteq Target
    /\ images \in [Tx -> Image] /\ imagesOnDisk \in [Tx -> Image]
    /\ createdAt \in [Tx -> Time] /\ forfeited \subseteq Tx
    /\ lock \in {"free", "restore", "monitor"}
    /\ id \in 0 .. MaxTx
    /\ pc \in PC
    /\ tx \in Local
    /\ exit \in {None, 0, 1, 3, 4, 5}
    /\ faults \in 0 .. MaxFaults
    /\ unfinished \in 0 .. MaxTx

\* A directory is where those above it are.
Reachable(some) == \A d \in some : Path[d] \subseteq some

Init ==
    /\ dirs \in {d \in SUBSET Dir : Reachable(d)} /\ dirsOnDisk = dirs
    /\ file \in [Target -> {"absent", "a"}]
    /\ \A t \in Target : file[t] # "absent" => Parent[t] \in dirs /\ t \notin MonitorFile
    /\ fileOnDisk = file
    /\ temps = {}
    /\ images = [i \in Tx |-> "none"] /\ imagesOnDisk = images
    /\ createdAt = [i \in Tx |-> 0] /\ forfeited = {}
    /\ lock = "free"
    /\ id = 0
    /\ pc = "idle"
    /\ tx = NoLocal
    /\ exit = None
    /\ faults = MaxFaults
    /\ unfinished = 0

Fault == faults > 0 /\ faults' = faults - 1

(***************************************************************************)
(* Writing t.  A rename or an unlink becomes durable, with every other     *)
(* change in the same directory, when that directory is synced; but the    *)
(* directory itself may go.  One that was made here (Mkdirat, MkdirAll)    *)
(* is not on the disk, because nothing syncs the one above it.             *)
(***************************************************************************)
Put(t, content) == file' = [file EXCEPT ![t] = content]

Synced(t) ==
    fileOnDisk' = [u \in Target |-> IF Parent[u] = Parent[t]
                                    THEN file'[u] ELSE fileOnDisk[u]]

\* The command ends: the deferred Unlock runs.
Return(code) ==
    /\ pc' = "idle"
    /\ lock' = "free"
    /\ exit' = code
    /\ tx' = NoLocal

\* The steps at which targets may differ from what the restore found.
Writing == {"publish", "failed", "restart", "rollback", "reconcile"}

\* The restore gives up on what it has done so far.
Abandoned ==
    unfinished' = IF /\ pc \in Writing
                     /\ \E t \in tx.archived : file'[t] # tx.before[t]
                  THEN id ELSE unfinished

(***************************************************************************)
(* The start: the lock, the archive, the pruning of old images.            *)
(***************************************************************************)
Start ==
    /\ pc = "idle"
    /\ lock = "free"
    /\ id < MaxTx
    /\ lock' = "restore"
    /\ id' = id + 1
    /\ pc' = "read"
    /\ \E archived \in SUBSET Target :
         tx' = [NoLocal EXCEPT !.archived = archived, !.before = file,
                               !.found = fileOnDisk, !.there = dirs]
    /\ exit' = None
    /\ UNCHANGED <<diskVars, imageVars, faults, unfinished>>

\* AcquireWithRetry gives up after lockMaxWait.
LockBusy ==
    /\ pc = "idle"
    /\ lock = "monitor"
    /\ exit' = 1
    /\ UNCHANGED <<diskVars, imageVars, lock, id, pc, tx, faults, unfinished>>

\* Verification fails (3) or the archive cannot be read (1).
ArchiveRejected ==
    /\ pc = "read"
    /\ \E code \in {1, 3} : Return(code)
    /\ UNCHANGED <<diskVars, imageVars, id, faults, unfinished>>

(***************************************************************************)
(* PruneSnapshots: of the complete images, those that the clock shows to   *)
(* be older than MaxAge may be removed, but the newest by their CreatedAt  *)
(* stays (one of them, if there are several).  Whenever it is read, the    *)
(* wall clock may have been set forward or back.                           *)
(***************************************************************************)
Recognised == {i \in Tx : images[i] = "complete"}
Newest == {i \in Recognised : \A j \in Recognised : createdAt[j] <= createdAt[i]}
Stale(now) == {i \in Recognised : now > createdAt[i] + MaxAge}

\* Mutant: the newest one is not spared.
PrunableNewest(now) == SUBSET Stale(now)

\* Mutant: an image may be removed before it is stale.
PrunableFresh(now) == {gone \in SUBSET Recognised : Newest \subseteq gone => gone = {}}

Prunable(now) == {gone \in SUBSET Stale(now) : Newest \subseteq gone => gone = {}}

\* The image is begun, in a directory that is made where it is missing.
ArchiveAccepted ==
    /\ pc = "read"
    /\ \E now \in Time :
         /\ \E gone \in Prunable(now) :
              images' = [i \in Tx |-> IF i = id THEN "partial"
                                      ELSE IF i \in gone THEN "none" ELSE images[i]]
         /\ forfeited' = forfeited \cup (Stale(now) \cap {unfinished})
    /\ dirs' = dirs \cup Path[SnapshotRoot]
    /\ pc' = "capture"
    /\ tx' = [tx EXCEPT !.todo = tx.archived]
    /\ UNCHANGED <<file, fileOnDisk, dirsOnDisk, temps, imagesOnDisk, createdAt, lock,
                   id, exit, faults, unfinished>>

(***************************************************************************)
(* CaptureSnapshot: the content of every target goes into the image, which *)
(* is complete once snapshot.json is there, and durable, as far as         *)
(* SnapshotRoot is, once its directory and SnapshotRoot are synced.  The   *)
(* latter settles which other images there are, not what is in them.       *)
(***************************************************************************)
Capture(t) ==
    /\ pc = "capture"
    /\ t \in tx.todo
    /\ tx' = [tx EXCEPT !.todo = @ \ {t}, !.entries[t] = file[t]]
    /\ UNCHANGED <<diskVars, imageVars, lock, id, pc, exit, faults, unfinished>>

\* snapshot.json is published, with the time the capture began: from here on
\* PruneSnapshots recognises the image.
Describe ==
    /\ pc = "capture"
    /\ tx.todo = {}
    /\ images[id] = "partial"
    /\ images' = [images EXCEPT ![id] = "complete"]
    /\ \E now \in Time : createdAt' = [createdAt EXCEPT ![id] = now]
    /\ UNCHANGED <<diskVars, imagesOnDisk, forfeited, lock, id, pc, tx, exit, faults,
                   unfinished>>

\* CreatedAt is part of the image, and gone with the last of it.
KeepDates(kept) ==
    createdAt' = [i \in Tx |-> IF kept[i] = "none" THEN 0 ELSE createdAt[i]]

\* Mutant: the image is left to the page cache.
CapturedUnsynced ==
    /\ pc = "capture"
    /\ images[id] = "complete"
    /\ pc' = "stage"
    /\ tx' = [tx EXCEPT !.todo = tx.archived]
    /\ UNCHANGED <<diskVars, imageVars, lock, id, exit, faults, unfinished>>

Captured ==
    /\ pc = "capture"
    /\ images[id] = "complete"
    /\ imagesOnDisk' = [i \in Tx |->
         IF i = id THEN "complete"
         ELSE IF images[i] = "none" THEN "none"
         ELSE IF imagesOnDisk[i] = "none" THEN "partial" ELSE imagesOnDisk[i]]
    /\ KeepDates(imagesOnDisk')
    /\ pc' = "stage"
    /\ tx' = [tx EXCEPT !.todo = tx.archived]
    /\ UNCHANGED <<diskVars, images, forfeited, lock, id, exit, faults,
                   unfinished>>

\* What was captured is removed again, but the disk may have seen it; an
\* unsafe target makes it code 3.
CaptureFails ==
    /\ pc = "capture"
    /\ Fault
    /\ images' = [images EXCEPT ![id] = "none"]
    /\ \E seen \in Image : imagesOnDisk' = [imagesOnDisk EXCEPT ![id] = seen]
    /\ \E code \in {1, 3} : Return(code)
    /\ UNCHANGED <<diskVars, createdAt, forfeited, id, unfinished>>

(***************************************************************************)
(* Staging: every file is written beside its target first, in directories  *)
(* that are created where they are missing.                                *)
(***************************************************************************)
Stage(t) ==
    /\ pc = "stage"
    /\ t \in tx.todo
    /\ dirs' = dirs \cup Path[Parent[t]]
    /\ temps' = temps \cup {t}
    /\ tx' = [tx EXCEPT !.todo = @ \ {t},
                        !.created = @ \cup (Path[Parent[t]] \ dirs)]
    /\ UNCHANGED <<file, fileOnDisk, dirsOnDisk, imageVars, lock, id, pc, exit,
                   faults, unfinished>>

\* A directory that was made but could not be opened is left, with those above.
LeftBehind(t) == {{}} \cup {Path[d] : d \in Path[Parent[t]] \ dirs}

\* Mutant: the files that were staged so far stay behind.
StageFailsDirty(t) ==
    /\ pc = "stage"
    /\ t \in tx.todo
    /\ Fault
    /\ \E left \in LeftBehind(t) : dirs' = (dirs \ tx.created) \cup left
    /\ \E err \in {"io", "unsafe"} : tx' = [tx EXCEPT !.err = err]
    /\ pc' = "failed"
    /\ UNCHANGED <<file, fileOnDisk, dirsOnDisk, temps, imageVars, lock, id, exit,
                   unfinished>>

\* abandonStaging.
StageFails(t) ==
    /\ pc = "stage"
    /\ t \in tx.todo
    /\ Fault
    /\ temps' = {}
    /\ \E left \in LeftBehind(t) : dirs' = (dirs \ tx.created) \cup left
    /\ \E err \in {"io", "unsafe"} : tx' = [tx EXCEPT !.err = err]
    /\ pc' = "failed"
    /\ UNCHANGED <<file, fileOnDisk, dirsOnDisk, imageVars, lock, id, exit, unfinished>>

Staged ==
    /\ pc = "stage"
    /\ tx.todo = {}
    /\ pc' = "publish"
    /\ tx' = [tx EXCEPT !.todo = tx.archived]
    /\ UNCHANGED <<diskVars, imageVars, lock, id, exit, faults, unfinished>>

(***************************************************************************)
(* Publication: one rename and one sync per file.  After a failure the     *)
(* loop goes on with the other files and keeps the first error.            *)
(***************************************************************************)
\* Mutant: the rename is left to the page cache.
PublishUnsynced(t) ==
    /\ pc = "publish"
    /\ t \in tx.todo
    /\ Put(t, "archive")
    /\ temps' = temps \ {t}
    /\ tx' = [tx EXCEPT !.todo = @ \ {t}]
    /\ UNCHANGED <<fileOnDisk, dirs, dirsOnDisk, imageVars, lock, id, pc, exit,
                   faults, unfinished>>

Publish(t) ==
    /\ pc = "publish"
    /\ t \in tx.todo
    /\ Put(t, "archive") /\ Synced(t)
    /\ temps' = temps \ {t}
    /\ tx' = [tx EXCEPT !.todo = @ \ {t}]
    /\ UNCHANGED <<dirs, dirsOnDisk, imageVars, lock, id, pc, exit, faults, unfinished>>

FirstError(err) == IF tx.err = "none" THEN err ELSE tx.err

\* The directories changed under it, the rename failed, or the sync after it.
PublishFails(t) ==
    /\ pc = "publish"
    /\ t \in tx.todo
    /\ Fault
    /\ \E err \in {"io", "unsafe"} :
         /\ \/ UNCHANGED file
            \/ err = "io" /\ Put(t, "archive")
         /\ tx' = [tx EXCEPT !.todo = @ \ {t}, !.err = FirstError(err)]
    /\ temps' = temps \ {t}
    /\ UNCHANGED <<fileOnDisk, dirs, dirsOnDisk, imageVars, lock, id, pc, exit,
                   unfinished>>

\* With --no-restart nothing is restarted; nor when no service is affected.
Services == tx.archived \cap Config

\* Mutant: the error of a file that could not be published is lost.
PublishedAnyway ==
    /\ pc = "publish"
    /\ tx.todo = {}
    /\ \E noRestart \in BOOLEAN :
         pc' = IF noRestart \/ Services = {} THEN "reconcile" ELSE "restart"
    /\ UNCHANGED <<diskVars, imageVars, lock, id, tx, exit, faults, unfinished>>

Published ==
    /\ pc = "publish"
    /\ tx.todo = {}
    /\ \E noRestart \in BOOLEAN :
         pc' = IF tx.err # "none" THEN "failed"
               ELSE IF noRestart \/ Services = {} THEN "reconcile"
               ELSE "restart"
    /\ UNCHANGED <<diskVars, imageVars, lock, id, tx, exit, faults, unfinished>>

(***************************************************************************)
(* The error path of runRestoreTransaction: an unsafe path is reported as  *)
(* a rejected archive, and nothing is undone; otherwise roll back.         *)
(***************************************************************************)
\* Mutant: the exit code for bad arguments.
ReportRejectedAsUsage ==
    /\ pc = "failed"
    /\ tx.err = "unsafe"
    /\ Return(2)
    /\ UNCHANGED diskVars /\ Abandoned
    /\ UNCHANGED <<imageVars, id, faults>>

ReportRejected ==
    /\ pc = "failed"
    /\ tx.err = "unsafe"
    /\ Return(3)
    /\ UNCHANGED diskVars /\ Abandoned
    /\ UNCHANGED <<imageVars, id, faults>>

BeginRollback(code) ==
    /\ pc' = "rollback"
    /\ tx' = [tx EXCEPT !.todo = tx.archived, !.err = "none", !.code = code]

ReportFailed ==
    /\ pc = "failed"
    /\ tx.err = "io"
    /\ BeginRollback(1)
    /\ UNCHANGED <<diskVars, imageVars, lock, id, exit, faults, unfinished>>

\* restartAndRecheck, whose outcome is up to systemd and the services.
RestartPasses ==
    /\ pc = "restart"
    /\ pc' = "reconcile"
    /\ UNCHANGED <<diskVars, imageVars, lock, id, tx, exit, faults, unfinished>>

RestartFails ==
    /\ pc = "restart"
    /\ BeginRollback(4)
    /\ UNCHANGED <<diskVars, imageVars, lock, id, exit, faults, unfinished>>

(***************************************************************************)
(* Rollback: every target is put back as the image has it, a target that   *)
(* did not exist is deleted.  That fails if its directory does not exist.  *)
(***************************************************************************)
RollBack(t) ==
    /\ pc = "rollback"
    /\ t \in tx.todo
    /\ tx.entries[t] # "absent" \/ Parent[t] \in dirs
    /\ Put(t, tx.entries[t])
    /\ IF tx.entries[t] = file[t] /\ file[t] = "absent"
       THEN UNCHANGED fileOnDisk ELSE Synced(t)
    /\ dirs' = dirs \cup Path[Parent[t]]
    /\ tx' = [tx EXCEPT !.todo = @ \ {t}]
    /\ UNCHANGED <<dirsOnDisk, temps, imageVars, lock, id, pc, exit, faults,
                   unfinished>>

RollBackFails(t) ==
    /\ pc = "rollback"
    /\ t \in tx.todo
    /\ \/ /\ tx.entries[t] = "absent" /\ Parent[t] \notin dirs
          /\ UNCHANGED <<file, faults>>
       \/ /\ Fault
          /\ UNCHANGED file \/ (Parent[t] \in dirs /\ Put(t, tx.entries[t]))
    /\ tx' = [tx EXCEPT !.todo = @ \ {t}, !.err = "io"]
    /\ UNCHANGED <<fileOnDisk, dirs, dirsOnDisk, temps, imageVars, lock, id, pc,
                   exit, unfinished>>

\* Removing the image is not synced, and it may fail with a warning only.
Cleanup ==
    \/ images' = [images EXCEPT ![id] = "none"] /\ UNCHANGED faults
    \/ /\ Fault
       /\ images' \in {images, [images EXCEPT ![id] = "partial"]}

RollbackFailed ==
    /\ pc = "rollback"
    /\ tx.todo = {}
    /\ tx.err # "none"
    /\ Return(5)
    /\ UNCHANGED diskVars /\ Abandoned
    /\ UNCHANGED <<imageVars, id, faults>>

RolledBack ==
    /\ pc = "rollback"
    /\ tx.todo = {}
    /\ tx.err = "none"
    /\ Cleanup
    /\ IF tx.code = 4
       THEN pc' = "again" /\ UNCHANGED <<lock, exit, tx>>
       ELSE Return(tx.code)
    /\ UNCHANGED <<diskVars, imagesOnDisk, createdAt, forfeited, id, unfinished>>

\* The second restart only warns.
RestartedAgain ==
    /\ pc = "again"
    /\ Return(4)
    /\ UNCHANGED <<diskVars, imageVars, id, faults, unfinished>>

(***************************************************************************)
(* The end: an archive without a pause marker clears the one on disk.  The *)
(* removal is not synced.                                                  *)
(***************************************************************************)
ClearsMarker == Marker \notin tx.archived /\ file[Marker] # "absent"

\* Mutant: a marker that the archive does not have stays.
FinishKeepsMarker ==
    /\ pc = "reconcile"
    /\ Cleanup
    /\ unfinished' = 0
    /\ Return(0)
    /\ UNCHANGED <<diskVars, imagesOnDisk, createdAt, forfeited, id>>

Finish ==
    /\ pc = "reconcile"
    /\ IF ClearsMarker THEN Put(Marker, "absent") ELSE UNCHANGED file
    /\ Cleanup
    /\ unfinished' = 0
    /\ Return(0)
    /\ UNCHANGED <<fileOnDisk, dirs, dirsOnDisk, temps, imagesOnDisk, createdAt,
                   forfeited, id>>

FinishStillPaused ==
    /\ pc = "reconcile"
    /\ ClearsMarker
    /\ Fault
    /\ \E left \in Image : images' = [images EXCEPT ![id] = left]
    /\ unfinished' = 0
    /\ Return(1)
    /\ UNCHANGED <<diskVars, imagesOnDisk, createdAt, forfeited, id>>

(***************************************************************************)
(* The environment: commands of the monitor under the lock, and crashes.   *)
(***************************************************************************)
\* Mutant: a monitor command does not wait for the restore.
MonitorBarges ==
    /\ lock # "monitor"
    /\ lock' = "monitor"
    /\ exit' = None
    /\ UNCHANGED <<diskVars, imageVars, id, pc, tx, faults, unfinished>>

MonitorLocks ==
    /\ lock = "free"
    /\ lock' = "monitor"
    /\ exit' = None
    /\ UNCHANGED <<diskVars, imageVars, id, pc, tx, faults, unfinished>>

MonitorWrites(t) ==
    /\ lock = "monitor"
    /\ Parent[t] \in dirs
    /\ \E content \in {"b"} \cup (IF t = Marker THEN {"absent"} ELSE {}) :
         Put(t, content)
    /\ Synced(t)
    /\ lock' = "free"
    /\ UNCHANGED <<dirs, dirsOnDisk, temps, imageVars, id, pc, tx, exit, faults,
                   unfinished>>

MonitorUnlocks ==
    /\ lock = "monitor"
    /\ lock' = "free"
    /\ UNCHANGED <<diskVars, imageVars, id, pc, tx, exit, faults, unfinished>>

Crash ==
    /\ pc # "idle"
    /\ Fault
    /\ Return(None)
    /\ temps' = {}
    /\ UNCHANGED <<file, fileOnDisk, dirs, dirsOnDisk, imageVars, id>>
    /\ Abandoned

\* Of every change that was not synced, the disk may have seen it or not; a
\* directory that was not, takes its files and directories or images along.
PowerLoss ==
    /\ Fault
    /\ \E seen \in SUBSET (dirs \ dirsOnDisk) :
         Reachable(dirsOnDisk \cup seen) /\ dirs' = dirsOnDisk \cup seen
    /\ dirsOnDisk' = dirs'
    /\ \E seen \in SUBSET {t \in Target : file[t] # fileOnDisk[t]} :
         file' = [t \in Target |-> IF Parent[t] \notin dirs' THEN "absent"
                                  ELSE IF t \in seen THEN file[t] ELSE fileOnDisk[t]]
    /\ fileOnDisk' = file'
    /\ temps' = {}
    /\ \E seen \in SUBSET {i \in Tx : images[i] # imagesOnDisk[i]} :
         images' = [i \in Tx |-> IF SnapshotRoot \notin dirs' THEN "none"
                                ELSE IF i \in seen THEN images[i] ELSE imagesOnDisk[i]]
    /\ imagesOnDisk' = images'
    /\ KeepDates(images')
    /\ forfeited' = IF SnapshotRoot \in dirs' THEN forfeited ELSE 1 .. id
    /\ Return(None)
    /\ Abandoned
    /\ UNCHANGED id

Step ==
    \/ Start \/ LockBusy \/ ArchiveRejected \/ ArchiveAccepted
    \/ \E t \in Target : Capture(t)
    \/ Describe \/ Captured \/ CaptureFails
    \/ \E t \in Target : Stage(t) \/ StageFails(t)
    \/ Staged
    \/ \E t \in Target : Publish(t) \/ PublishFails(t)
    \/ Published
    \/ ReportRejected \/ ReportFailed \/ RestartPasses \/ RestartFails
    \/ \E t \in Target : RollBack(t) \/ RollBackFails(t)
    \/ RollbackFailed \/ RolledBack \/ RestartedAgain
    \/ Finish \/ FinishStillPaused

Environment ==
    \/ MonitorLocks \/ MonitorUnlocks
    \/ \E t \in MonitorFile : MonitorWrites(t)
    \/ Crash \/ PowerLoss

Next == Step \/ Environment

Spec == Init /\ [][Next]_vars

=============================================================================
