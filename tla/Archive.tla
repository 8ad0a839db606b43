------------------------------ MODULE Archive ------------------------------
(***************************************************************************)
(* `proxyctl backup` (src/internal/backup/archive.go, Create, and          *)
(* src/cmd/proxyctl/backup.go, cmdBackup and pruneArchives), as any number *)
(* of commands that run at the same time: nothing serialises them.         *)
(*                                                                         *)
(* A run reads the configuration file by file, reserves the name of its    *)
(* archive with an empty file, stages the archive in a temporary file,     *)
(* renames it over the reservation, syncs the directory and prunes old     *)
(* archives by name.  With --out there is neither reservation nor pruning. *)
(* A run that fails releases its reservation; one that is killed does not. *)
(***************************************************************************)
EXTENDS Integers, FiniteSets

CONSTANTS
    Runs,      \* the backup commands
    OutRuns,   \* those that may be given --out (all of them the same path)
    Trees,     \* files of the recursive tree
    Explicit,  \* files that are listed one by one
    Keep,      \* --keep; 0 disables pruning
    MaxTime,   \* bound of the clock, in seconds
    MaxSeq,    \* maxNameCollisions
    MaxEdits,  \* bound on what others do to the configuration
    Nobody     \* the maker of a file no run made

ASSUME ConstantAssumption ==
    /\ OutRuns \subseteq Runs
    /\ Trees \cap Explicit = {} /\ Explicit # {}
    /\ Keep \in Nat /\ MaxTime \in Nat /\ MaxSeq \in Nat /\ MaxEdits \in Nat
    /\ Nobody \notin Runs

Files == Trees \cup Explicit

Gone == -1   \* no such file
Odd  == -2   \* a symbolic link, a hard link, a FIFO or a device
Source == -2 .. MaxEdits

(* What a run holds of a file: its content, or one of these *)
Unread  == -3
Skipped == -4
Payload == -4 .. MaxEdits

Out == [auto |-> FALSE, at |-> 0, seq |-> 0]
AutoNames == [auto : {TRUE}, at : 0 .. MaxTime, seq : 0 .. MaxSeq]
Names == AutoNames \cup {Out}

None == [kind |-> "none", by |-> Nobody]
Theirs == [kind |-> "theirs", by |-> Nobody]
Reservation(r) == [kind |-> "reserved", by |-> r]
ArchiveOf(r) == [kind |-> "archive", by |-> r]
Entry == [kind : {"none", "theirs", "reserved", "archive"}, by : Runs \cup {Nobody}]

PC == {"idle", "collect", "reserve", "stage", "write", "publish", "release",
       "unlink", "sync", "list", "prune", "done", "failed"}

VARIABLES
    src,      \* the configuration files
    edits,    \* changes made to them so far
    dir,      \* the entries of the backup directory, and of the --out path
    staged,   \* runs whose staging file exists
    durable,  \* runs whose archive bytes have been synced
    pc,       \* where each run is
    name,     \* the name each run tries, then holds
    existed,  \* runs that found a file at the --out path
    took,     \* what each run has read, and describes in its manifest
    sound,    \* runs whose archive holds the bytes its manifest describes
    todo,     \* the names each run is going to prune
    used,     \* history: names that have been reserved
    pruned,   \* history: names that have been pruned
    released  \* history: names whose reservation was given up

world == <<src, edits>>
local == <<name, existed, took>>
history == <<used, pruned, released>>
file == <<staged, sound, durable>>
vars == <<world, dir, file, pc, local, todo, history>>

Init ==
    /\ src = [f \in Files |-> 0]
    /\ edits = 0
    /\ \E e \in {None, Theirs} :
          dir = [n \in Names |-> IF n = Out THEN e ELSE None]
    /\ staged = {} /\ sound = {} /\ durable = {}
    /\ pc = [r \in Runs |-> "idle"]
    /\ name = [r \in Runs |-> Out]
    /\ existed = {}
    /\ took = [r \in Runs |-> [f \in Files |-> Unread]]
    /\ todo = [r \in Runs |-> {}]
    /\ used = {} /\ pruned = {} /\ released = {}

Goto(r, to) == pc' = [pc EXCEPT ![r] = to]

(* A run that fails before the rename is gone with all it held in memory. *)
Fail(r) ==
    /\ Goto(r, "failed")
    /\ name' = [name EXCEPT ![r] = Out]
    /\ existed' = existed \ {r}
    /\ took' = [took EXCEPT ![r] = [f \in Files |-> Unread]]

----------------------------------------------------------------------------
(* Reading the configuration. *)

(* The name carries the wall clock, which may have been set back: runs may  *)
(* get their time stamps in any order.                                      *)
Begin(r) ==
    /\ pc[r] = "idle"
    /\ \/ \E now \in 0 .. MaxTime :
             name' = [name EXCEPT ![r] = [auto |-> TRUE, at |-> now, seq |-> 0]]
       \/ r \in OutRuns /\ UNCHANGED name   \* name[r] is Out
    /\ Goto(r, "collect")
    /\ UNCHANGED <<world, dir, file, existed, took, todo, history>>

(* A link is refused and a missing file is reported; the bytes are read    *)
(* once, from the descriptor whose type was checked.                       *)
ReadSourceFile(f) == src[f]

(* In the tree, whatever cannot be packed is skipped. *)
TreeEntry(f) == IF ReadSourceFile(f) = Odd THEN Skipped ELSE ReadSourceFile(f)

(* A listed file may be missing, but nothing else may stand in its place. *)
ExplicitEntry(f) == IF ReadSourceFile(f) = Gone THEN Skipped ELSE ReadSourceFile(f)

Unvisited(r, S) == {f \in S : took[r][f] = Unread}

Collect(r, f) ==
    /\ pc[r] = "collect"
    /\ took[r][f] = Unread
    /\ \/ f \in Trees
       \/ f \in Explicit /\ Unvisited(r, Trees) = {} /\ ReadSourceFile(f) # Odd
    /\ took' = [took EXCEPT ![r][f] = IF f \in Trees THEN TreeEntry(f)
                                      ELSE ExplicitEntry(f)]
    /\ Goto(r, IF Unvisited(r, Files) = {f} THEN "reserve" ELSE "collect")
    /\ UNCHANGED <<world, dir, file, name, existed, todo, history>>

(* An unusable listed file, or a read that fails: nothing was written yet. *)
CollectFails(r) ==
    /\ pc[r] = "collect"
    /\ Fail(r)
    /\ UNCHANGED <<world, dir, file, todo, history>>

----------------------------------------------------------------------------
(* Fixing the destination. *)

(* --out: whether a file is there is looked up once. *)
StatOut(r) ==
    /\ pc[r] = "reserve"
    /\ name[r] = Out
    /\ existed' = IF dir[Out] = None THEN existed ELSE existed \cup {r}
    /\ Goto(r, "stage")
    /\ UNCHANGED <<world, dir, file, name, took, todo, history>>

(* Mutant: without O_EXCL. *)
ReserveShared(r) ==
    /\ pc[r] = "reserve"
    /\ name[r] # Out
    /\ dir' = [dir EXCEPT ![name[r]] = Reservation(r)]
    /\ used' = used \cup {name[r]}
    /\ released' = released \ {name[r]}
    /\ Goto(r, "stage")
    /\ UNCHANGED <<world, file, local, todo, pruned>>

(* An automatic name is created with O_EXCL ... *)
Reserve(r) ==
    /\ pc[r] = "reserve"
    /\ name[r] # Out
    /\ dir[name[r]] = None
    /\ dir' = [dir EXCEPT ![name[r]] = Reservation(r)]
    /\ used' = used \cup {name[r]}
    /\ released' = released \ {name[r]}
    /\ Goto(r, "stage")
    /\ UNCHANGED <<world, file, local, todo, pruned>>

(* ... and the next suffix is tried when it exists. *)
NextSuffix(r) ==
    /\ pc[r] = "reserve"
    /\ name[r] # Out
    /\ dir[name[r]] # None
    /\ name[r].seq < MaxSeq
    /\ name' = [name EXCEPT ![r].seq = @ + 1]
    /\ UNCHANGED <<world, dir, file, pc, existed, took, todo, history>>

(* Every suffix is taken, or the directory cannot be used. *)
ReserveFails(r) ==
    /\ pc[r] = "reserve"
    /\ Fail(r)
    /\ UNCHANGED <<world, dir, file, todo, history>>

----------------------------------------------------------------------------
(* Writing the archive and publishing it. *)

Stage(r) ==
    /\ pc[r] = "stage"
    /\ staged' = staged \cup {r}
    /\ Goto(r, "write")
    /\ UNCHANGED <<world, dir, sound, durable, local, todo, history>>

(* Mutant: the files are read again while they are packed. *)
BytesNow(r) == src

(* What a run packs: the bytes it has read, not what the files hold now. *)
Bytes(r) == took[r]

(* Mutant: the archive is renamed before it is synced. *)
WriteUnsynced(r) ==
    /\ pc[r] = "write"
    /\ sound' = sound \cup {r}
    /\ took' = [took EXCEPT ![r] = [f \in Files |-> Unread]]
    /\ Goto(r, "publish")
    /\ UNCHANGED <<world, dir, staged, durable, name, existed, todo, history>>

Write(r) ==
    /\ pc[r] = "write"
    /\ sound' = IF Bytes(r) = took[r] /\ Unvisited(r, Files) = {}
                THEN sound \cup {r} ELSE sound
    /\ durable' = durable \cup {r}
    /\ took' = [took EXCEPT ![r] = [f \in Files |-> Unread]]
    /\ Goto(r, "publish")
    /\ UNCHANGED <<world, dir, staged, name, existed, todo, history>>

(* Mutant: the archive goes to the name the run tried first. *)
PublishUnsuffixed(r) ==
    /\ pc[r] = "publish"
    /\ dir' = [dir EXCEPT ![[name[r] EXCEPT !.seq = 0]] = ArchiveOf(r)]
    /\ staged' = staged \ {r}
    /\ Goto(r, "sync")
    /\ UNCHANGED <<world, sound, durable, local, todo, history>>

Publish(r) ==
    /\ pc[r] = "publish"
    /\ dir' = [dir EXCEPT ![name[r]] = ArchiveOf(r)]
    /\ staged' = staged \ {r}
    /\ Goto(r, "sync")
    /\ UNCHANGED <<world, sound, durable, local, todo, history>>

(* A failure before the rename removes the staging file, then releases. *)
WriteFails(r) ==
    /\ pc[r] \in {"stage", "write", "publish"}
    /\ staged' = staged \ {r}
    /\ Goto(r, "release")
    /\ UNCHANGED <<world, dir, sound, durable, local, todo, history>>

(* Mutant: whether a file was there is not looked up. *)
ReleaseOutAlways(r) ==
    /\ pc[r] = "release"
    /\ name[r] = Out
    /\ dir' = [dir EXCEPT ![Out] = None]
    /\ Fail(r)
    /\ UNCHANGED <<world, file, todo, history>>

(* --out: the path is unlinked, unless a file was there beforehand. *)
ReleaseOut(r) ==
    /\ pc[r] = "release"
    /\ name[r] = Out
    /\ dir' = IF r \in existed THEN dir ELSE [dir EXCEPT ![Out] = None]
    /\ Fail(r)
    /\ UNCHANGED <<world, file, todo, history>>

(* Mutant: the reservation is closed before it can be compared. *)
IsOwnReservationClosed(r) == FALSE

(* identityCheck: the name is unlinked only if it still is the file the    *)
(* run reserved; the two are separate calls.                               *)
IsOwnReservation(r) == dir[name[r]] = Reservation(r)

Release(r) ==
    /\ pc[r] = "release"
    /\ name[r] # Out
    /\ \/ IsOwnReservation(r) /\ Goto(r, "unlink") /\ UNCHANGED local
       \/ ~IsOwnReservation(r) /\ Fail(r)
    /\ UNCHANGED <<world, dir, file, todo, history>>

Unlink(r) ==
    /\ pc[r] = "unlink"
    /\ dir' = [dir EXCEPT ![name[r]] = None]
    /\ released' = released \cup {name[r]}
    /\ Fail(r)
    /\ UNCHANGED <<world, file, todo, used, pruned>>

(* The archive is complete whether or not the directory can be synced. *)
SyncDir(r) ==
    /\ pc[r] = "sync"
    /\ Goto(r, IF name[r] = Out \/ Keep = 0 THEN "done" ELSE "list")
    /\ UNCHANGED <<world, dir, file, local, todo, history>>

SyncDirFails(r) ==
    /\ pc[r] = "sync"
    /\ Goto(r, "failed")
    /\ UNCHANGED <<world, dir, file, local, todo, history>>

----------------------------------------------------------------------------
(* Retention. *)

(* Archives are ordered by their time stamp, then by the number after it. *)
Older(m, n) == m.at < n.at \/ (m.at = n.at /\ m.seq < n.seq)

Newer(n, S) == {m \in S : Older(n, m)}

(* Mutant: the path given with --out counts as an archive of the directory. *)
ListedAny == {n \in Names : dir[n] # None}

Listed == {n \in AutoNames : dir[n] # None}

(* Mutant: one archive less is kept. *)
ListOneMore(r) ==
    /\ pc[r] = "list"
    /\ todo' = [todo EXCEPT ![r] = {n \in Listed : Cardinality(Newer(n, Listed)) + 1 >= Keep}]
    /\ Goto(r, "prune")
    /\ UNCHANGED <<world, dir, file, local, history>>

(* All but the newest Keep of the names the directory shows. *)
List(r) ==
    /\ pc[r] = "list"
    /\ todo' = [todo EXCEPT ![r] = {n \in Listed : Cardinality(Newer(n, Listed)) >= Keep}]
    /\ Goto(r, "prune")
    /\ UNCHANGED <<world, dir, file, local, history>>

(* A directory that cannot be read is a warning. *)
ListFails(r) ==
    /\ pc[r] = "list"
    /\ Goto(r, "done")
    /\ UNCHANGED <<world, dir, file, local, todo, history>>

(* The oldest name of the list is next. *)
IsNext(r, n) == n \in todo[r] /\ \A m \in todo[r] : ~Older(m, n)

Prune(r, n) ==
    /\ pc[r] = "prune"
    /\ IsNext(r, n)
    /\ dir' = [dir EXCEPT ![n] = None]
    /\ pruned' = pruned \cup {n}
    /\ todo' = [todo EXCEPT ![r] = @ \ {n}]
    /\ UNCHANGED <<world, file, pc, local, used, released>>

(* A name that cannot be removed, or is gone, is a warning. *)
PruneFails(r, n) ==
    /\ pc[r] = "prune"
    /\ IsNext(r, n)
    /\ todo' = [todo EXCEPT ![r] = @ \ {n}]
    /\ UNCHANGED <<world, dir, file, pc, local, history>>

Finish(r) ==
    /\ pc[r] = "prune"
    /\ todo[r] = {}
    /\ Goto(r, "done")
    /\ UNCHANGED <<world, dir, file, local, todo, history>>

----------------------------------------------------------------------------
(* What happens around the runs.  A run that is killed is one that takes no *)
(* further step: nothing waits for it, so there is no action for it.       *)

(* A restore, a node command or an editor replaces or removes a file, or   *)
(* puts a link in its place.                                               *)
Edit(f) ==
    /\ edits < MaxEdits
    /\ src[f] # Gone
    /\ edits' = edits + 1
    /\ \E c \in {edits + 1, Gone, Odd} : src' = [src EXCEPT ![f] = c]
    /\ UNCHANGED <<dir, file, pc, local, todo, history>>

Ended == \A r \in Runs : pc[r] \in {"done", "failed"}

Create(r) ==
    \/ Begin(r) \/ (\E f \in Files : Collect(r, f)) \/ CollectFails(r)
    \/ StatOut(r) \/ Reserve(r) \/ NextSuffix(r) \/ ReserveFails(r)
    \/ Stage(r) \/ Write(r) \/ Publish(r) \/ WriteFails(r)
    \/ ReleaseOut(r) \/ Release(r) \/ Unlink(r)
    \/ SyncDir(r) \/ SyncDirFails(r)

PruneArchives(r) ==
    \/ List(r) \/ ListFails(r) \/ Finish(r)
    \/ \E n \in AutoNames : Prune(r, n) \/ PruneFails(r, n)

Next ==
    \/ \E r \in Runs : Create(r) \/ PruneArchives(r)
    \/ \E f \in Files : Edit(f)
    \/ Ended /\ UNCHANGED vars

Spec == Init /\ [][Next]_vars
=============================================================================
