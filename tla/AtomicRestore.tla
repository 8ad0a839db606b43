--------------------------- MODULE AtomicRestore ---------------------------
(***************************************************************************)
(* What a restore promises: seen by whoever respects the lock, it happens  *)
(* in one step.  Either the archive replaces what was there, and no power  *)
(* loss brings that back, or nothing has changed, and no power loss brings *)
(* a file of the archive later.  A file that was not there before may be   *)
(* lost again, with a directory that had to be made for it: nothing syncs  *)
(* the entry of such a directory.  Only a crash, a power loss, an unsafe   *)
(* path or a failed rollback leaves something between the two, and even    *)
(* then every file is either the old one or the archive's.                 *)
(***************************************************************************)
CONSTANTS Target, MonitorFile, Marker, \* as in Restore
          Content,                     \* contains "archive" and "absent"
          None                         \* no exit code

VARIABLES files,   \* content of every target
          disk,    \* what a power loss would leave of it
          fragile, \* targets that one may take with their directory
          running, \* a restore runs
          archived,\* the targets that its archive holds
          exit     \* exit code of the last restore, until the next command

vars == <<files, disk, fragile, running, archived, exit>>

Init ==
    /\ files \in [Target -> Content] /\ disk = files /\ fragile = {}
    /\ ~running /\ archived = {} /\ exit = None

Begin ==
    /\ ~running
    /\ running' = TRUE
    /\ archived' \in SUBSET Target
    /\ exit' = None
    /\ UNCHANGED <<files, disk, fragile>>

\* What becomes fragile had no directory, so that there was no such file.
End(code) ==
    /\ running
    /\ running' = FALSE /\ archived' = {} /\ exit' = code
    /\ fragile \subseteq fragile'
    /\ fragile' \subseteq fragile \cup {t \in Target : files[t] = "absent"}

\* A change in the same directory may have synced an earlier one.
Settled(t) == disk'[t] \in {disk[t], files[t]}

Archive(t) == IF t \in archived THEN {"archive"} ELSE {}

\* The archive's files are there, and a power loss takes only fragile ones.
Committed ==
    \A t \in Target : IF t \in archived
                      THEN files'[t] = "archive" /\ disk'[t] = "archive"
                      ELSE Settled(t)

Commit ==
    /\ End(0)
    /\ Committed
    /\ \A t \in Target \ archived :
         files'[t] = IF t = Marker THEN "absent" ELSE files[t]

\* Code 1 although all of the archive is there: the monitor is still paused.
CommitStillPaused ==
    /\ End(1)
    /\ Marker \notin archived /\ files[Marker] # "absent"
    /\ Committed
    /\ \A t \in Target \ archived : files'[t] = files[t]

Abort ==
    /\ \E code \in {1, 3, 4} : End(code)
    /\ files' = files
    /\ \A t \in Target : Settled(t)

Interrupted ==
    /\ \E code \in {None, 3, 5} : End(code)
    /\ \A t \in Target : /\ files'[t] \in {files[t]} \cup Archive(t)
                         /\ disk'[t] \in {disk[t], files[t]} \cup Archive(t)

PowerLoss ==
    /\ \A t \in Target :
         files'[t] \in {files[t], disk[t]} \cup Archive(t)
                     \cup IF t \in fragile THEN {"absent"} ELSE {}
    /\ disk' = files' /\ fragile' = {}
    /\ running' = FALSE /\ archived' = {} /\ exit' = None

LockBusy ==
    /\ ~running
    /\ exit' = 1
    /\ UNCHANGED <<files, disk, fragile, running, archived>>

\* A command of the monitor takes the lock, and writes one of its files.
MonitorLocks ==
    /\ ~running
    /\ exit' = None
    /\ UNCHANGED <<files, disk, fragile, running, archived>>

MonitorWrites(t) ==
    /\ ~running
    /\ \A u \in Target \ {t} : files'[u] = files[u] /\ Settled(u)
    /\ disk'[t] = files'[t]
    /\ UNCHANGED <<fragile, running, archived, exit>>

Next ==
    \/ Begin \/ Commit \/ CommitStillPaused \/ Abort \/ Interrupted \/ PowerLoss
    \/ LockBusy \/ MonitorLocks \/ \E t \in MonitorFile : MonitorWrites(t)

Spec == Init /\ [][Next]_vars
=============================================================================
