---------------------------- MODULE RestoreProps ----------------------------
(***************************************************************************)
(* What a restore has to get right.                                        *)
(***************************************************************************)
EXTENDS Restore

(***************************************************************************)
(* From the first staged file to the end, the image of this transaction is *)
(* complete and, as far as SnapshotRoot is, durable, and records each      *)
(* target as the restore found it: no command of the monitor wrote in      *)
(* between, and CaptureSnapshot is done before Restore touches the         *)
(* destination.                                                            *)
(***************************************************************************)
ImageBeforeWrites ==
    pc \in {"stage"} \cup Writing =>
        /\ imagesOnDisk[id] = "complete" /\ images[id] = "complete"
        /\ \A t \in tx.archived : tx.entries[t] = tx.before[t]

(***************************************************************************)
(* A restore that was left half done - by a crash, a power loss, a failed  *)
(* rollback or a refused path - can be undone by hand: its image is there, *)
(* and stays as long as SnapshotRoot does (CaptureSnapshot syncs it,       *)
(* PruneSnapshots leaves it alone).  It is forfeited when a later restore  *)
(* finds it older than SnapshotMaxAge by its clock, or when a power loss   *)
(* takes SnapshotRoot, which can happen to a directory that a restore made *)
(* and that no power loss has settled since.                               *)
(***************************************************************************)
UnfinishedHasImage ==
    unfinished # 0 /\ unfinished \notin forfeited
      => /\ SnapshotRoot \in dirs
         /\ images[unfinished] = "complete" /\ imagesOnDisk[unfinished] = "complete"

(***************************************************************************)
(* However old the image of a half done restore is, no step removes it     *)
(* without leaving one whose CreatedAt is no earlier, unless all images go *)
(* with SnapshotRoot: PruneSnapshots spares the newest of those it can     *)
(* read, and the restores that end remove no image but their own.  Newest  *)
(* is by the wall clock: once that has been set back, the image that stays *)
(* may be the one of an earlier restore.                                   *)
(***************************************************************************)
LeavesAnImage ==
    unfinished # 0 /\ unfinished' = unfinished
    /\ images[unfinished] = "complete" /\ SnapshotRoot \in dirs'
      => \E i \in Tx : images'[i] = "complete" /\ createdAt[i] >= createdAt[unfinished]

AnImageIsLeft == [][LeavesAnImage]_vars

(***************************************************************************)
(* Services are only restarted over a complete set of files: all of the    *)
(* archive's, or after a rollback all of the old ones, never a mixture.    *)
(***************************************************************************)
NoMixedRestart ==
    /\ pc = "restart" => \A t \in tx.archived : file[t] = "archive"
    /\ pc = "again" => file = tx.before

\* The command ends by itself in this step, with this exit code.
Exits(code) == pc # "idle" /\ pc' = "idle" /\ exit' = code

(***************************************************************************)
(* Exit code 0: every file and the pause marker are as the archive has     *)
(* them.  4: every file is as it was.  1: a known state, either as it was  *)
(* or all of the archive's.  In every case no staging file is left.        *)
(***************************************************************************)
Restored == \A t \in tx.archived : file'[t] = "archive"
Untouched == file' = tx.before
TellsOutcome ==
    /\ Exits(0) => Restored /\ (Marker \notin tx.archived => file'[Marker] = "absent")
    /\ Exits(1) => Untouched \/ Restored
    /\ Exits(4) => Untouched
    /\ \A code \in {0, 1, 3, 4, 5} : Exits(code) => temps' = {}

ExitCodeTellsOutcome == [][TellsOutcome]_vars

(***************************************************************************)
(* A restore is atomic, and durable as far as the directories of its       *)
(* targets are: see AtomicRestore.  While it runs the abstract files are   *)
(* those it found, which is what the image, the rollback and the syncs of  *)
(* runRestoreTransaction have to live up to.                               *)
(***************************************************************************)
Running == pc # "idle"
Existing == IF Running THEN tx.there ELSE dirs

Atomic == INSTANCE AtomicRestore WITH
    files <- IF Running THEN tx.before ELSE file,
    disk <- IF Running THEN tx.found ELSE fileOnDisk,
    fragile <- {t \in Target : Parent[t] \in Existing \ dirsOnDisk},
    running <- Running,
    archived <- tx.archived

RestoreIsAtomic == Atomic!Spec

(***************************************************************************)
(* The inductive invariant behind these properties: what is known of the   *)
(* files, the staging files and the image at each step of the transaction. *)
(***************************************************************************)
Done == tx.archived \ tx.todo

LockHeld == pc # "idle" => lock = "restore" /\ id # 0

ImageSoFar ==
    pc = "capture" => /\ \A t \in Done : tx.entries[t] = tx.before[t]
                      /\ images[id] = "complete" => tx.todo = {}

FilesKept ==
    /\ pc \in {"read", "capture", "stage", "again"} => file = tx.before
    /\ pc \in Writing => \A t \in Target \ tx.archived : file[t] = tx.before[t]

FilesWritten ==
    /\ pc = "publish" /\ tx.err = "none" => \A t \in Done : file[t] = "archive"
    /\ pc \in {"restart", "reconcile"} => \A t \in tx.archived : file[t] = "archive"
    /\ pc = "rollback" /\ tx.err = "none" => \A t \in Done : file[t] = tx.before[t]

\* Where a file has not been undone, the disk has what the restore found, or
\* what there is now; once it has been, only a failure leaves the archive's.
DiskFollows ==
    /\ pc \in {"read", "capture", "stage", "again"} =>
         \A t \in Target : fileOnDisk[t] \in {tx.found[t], tx.before[t]}
    /\ pc \in Writing => \A t \in Target :
         /\ file[t] \in {tx.before[t], "archive"}
         /\ fileOnDisk[t] \in {tx.found[t], tx.before[t]}
                           \cup IF t \in tx.archived THEN {"archive"} ELSE {}
         /\ \/ pc = "rollback" /\ tx.err # "none" /\ t \in Done
            \/ fileOnDisk[t] \in {tx.found[t], tx.before[t], file[t]}

DiskWritten ==
    /\ pc = "publish" /\ tx.err = "none" => \A t \in Done : fileOnDisk[t] = "archive"
    /\ pc \in {"restart", "reconcile"} => \A t \in tx.archived : fileOnDisk[t] = "archive"

Temporaries ==
    /\ pc = "stage" => temps = Done
    /\ pc = "publish" => temps = tx.todo
    /\ pc \notin {"stage", "publish"} => temps = {}

\* A file is in a directory; staging makes the one that is missing, and what
\* the restore makes held nothing before.
FilesHaveDirs == \A t \in Target : Parent[t] \notin dirs => file[t] = "absent"

DirsStaged ==
    /\ pc = "stage" => \A t \in Done : Parent[t] \in dirs
    /\ pc = "publish" => \A t \in tx.archived : Parent[t] \in dirs

DirsMade ==
    /\ pc = "read" => tx.created = {}
    /\ pc \notin {"idle", "read"} => SnapshotRoot \in dirs \ tx.created
    /\ pc # "idle" =>
         /\ dirsOnDisk \subseteq tx.there /\ tx.there \subseteq dirs \ tx.created
         /\ \A t \in Target : Parent[t] \notin tx.there => tx.before[t] = "absent"

IInv ==
    /\ TypeOK
    /\ tx.todo \subseteq tx.archived
    /\ LockHeld
    /\ ImageSoFar
    /\ ImageBeforeWrites
    /\ FilesKept
    /\ FilesWritten
    /\ Temporaries
    /\ DiskFollows
    /\ DiskWritten
    /\ FilesHaveDirs
    /\ DirsStaged
    /\ DirsMade

(***************************************************************************)
(* What the documents say and the code does not do.                        *)
(*                                                                         *)
(* README, exit codes: 3 means that the archive or the safety checks       *)
(* refused the restore and that no file was written.                       *)
(***************************************************************************)
RejectedMeansUntouched == [][Exits(3) => Untouched]_vars

(***************************************************************************)
(* README, restore: exit code 5 lists the paths left in an uncertain       *)
(* state, so with it some path is not, or not durably, as it was.          *)
(***************************************************************************)
FailedRollbackMeansChanged ==
    [][Exits(5) => \E t \in Target : file'[t] # tx.before[t]
                                     \/ fileOnDisk'[t] # tx.before[t]]_vars
=============================================================================
