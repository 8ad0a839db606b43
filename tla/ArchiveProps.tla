---------------------------- MODULE ArchiveProps ----------------------------
(* What Archive.tla must satisfy. *)
EXTENDS Archive

(* The runs that hold an automatic name: from the reservation to the end,  *)
(* unless they gave it up.                                                 *)
Holding == {"stage", "write", "publish", "release", "unlink", "sync", "list",
            "prune", "done"}
Holds(r) == pc[r] \in Holding /\ name[r] # Out
Published(r) == pc[r] \in {"sync", "list", "prune", "done"}

(* Every variable has its type.  (archive.go:94-162, backup.go:124-208)    *)
TypeOK ==
    /\ src \in [Files -> Source]
    /\ edits \in 0 .. MaxEdits
    /\ dir \in [Names -> Entry]
    /\ staged \subseteq Runs /\ sound \subseteq Runs /\ durable \subseteq Runs
    /\ pc \in [Runs -> PC]
    /\ name \in [Runs -> Names]
    /\ existed \subseteq Runs
    /\ took \in [Runs -> [Files -> Payload]]
    /\ todo \in [Runs -> SUBSET AutoNames]
    /\ used \subseteq AutoNames
    /\ pruned \subseteq AutoNames
    /\ released \subseteq AutoNames

(* Retention works on names without a lock, and counts the reservations of *)
(* runs that have not finished.  Still, whatever runs and prunes at the    *)
(* same time: among all names ever reserved, the newest Keep are in the    *)
(* directory, except those whose own run gave them up.                     *)
(* (pruneArchives, backup.go:182-208)                                      *)
NewestKept ==
    \A n \in used :
        Cardinality(Newer(n, used)) < Keep => dir[n] # None \/ n \in released

(* "Automatic names are reserved with O_EXCL so two runs in the same second *)
(* cannot overwrite each other" (archive.go:383-384): a run finds its own   *)
(* reservation under its name until the rename, and its own archive from    *)
(* then on.  The exception is a name that has been pruned: prune removes    *)
(* reservations too, and the name is free for a run of the same second.     *)
HoldsItsName ==
    \A r \in Runs :
        Holds(r) /\ name[r] \notin pruned =>
            dir[name[r]] = IF Published(r) THEN ArchiveOf(r) ELSE Reservation(r)

(* A name of the archive rule holds an empty reservation or a complete      *)
(* archive that a power loss cannot tear: its bytes were synced, and they   *)
(* are the ones its manifest describes, although the files may have been    *)
(* changed after they were read.  (writeArchive and readSourceFile,         *)
(* archive.go:338-375 and 467-537)                                          *)
ArchivesComplete ==
    \A n \in Names :
        dir[n].kind = "archive" => dir[n].by \in sound \cap durable

(* "A run that fails before the rename leaves nothing that could be         *)
(* mistaken for a complete archive" (archive.go:87-88), nor a staging file. *)
FailedLeavesNothing ==
    \A r \in Runs :
        pc[r] = "failed" => r \notin staged /\ \A n \in Names : dir[n] # Reservation(r)

(* "release only removes a file this call itself is about to create, never  *)
(* one the caller already had" (archive.go:387-388): a file at the --out    *)
(* path is replaced by a complete archive or left alone, never removed.     *)
OutKept == [][dir[Out] # None => dir'[Out] # None]_vars

(* The backup directory implements ArchiveShelf: O_EXCL, the rename, the    *)
(* identity check of a release and pruning by stale lists together never    *)
(* cost a run its slot, nor the shelf an archive, other than by retention.  *)
(* (archive.go:383-446, 515-529; restore.go:218-248; backup.go:185-233)     *)
Expired == [kind |-> "expired", by |-> Nobody]
Slot(n) == IF n \in pruned THEN Expired ELSE dir[n]
AgePairs == {p \in AutoNames \X AutoNames : Older(p[1], p[2])}

Shelf == INSTANCE ArchiveShelf
           WITH Slots <- AutoNames,
                Before <- AgePairs,
                shelf <- [n \in AutoNames |-> Slot(n)],
                taken <- used

KeepsShelf == Shelf!Spec

(***************************************************************************)
(* The inductive invariant.                                                *)
(***************************************************************************)

(* A name in the directory, or in the hands of a run, has been reserved. *)
NamesUsed ==
    /\ IsFiniteSet(used)
    /\ \A n \in AutoNames : dir[n] # None => n \in used
    /\ \A r \in Runs : Holds(r) => name[r] \in used

(* A reservation is its run's, and stands under the name the run holds. *)
ReservationHeld ==
    \A n \in Names, r \in Runs :
        dir[n] = Reservation(r) =>
            /\ n # Out /\ name[r] = n
            /\ pc[r] \in {"stage", "write", "publish", "release", "unlink"}

(* Only an automatic name is compared before it is unlinked. *)
UnlinkHolds == \A r \in Runs : pc[r] = "unlink" => name[r] # Out

(* What a run has staged, and when its archive is whole. *)
StagedSoFar ==
    /\ \A r \in staged : pc[r] \in {"write", "publish"}
    /\ \A r \in Runs : pc[r] \in {"reserve", "stage", "write"} =>
          Unvisited(r, Files) = {}
    /\ \A r \in Runs : pc[r] = "publish" \/ Published(r) => r \in sound \cap durable

(* Whatever a run is going to prune has Keep newer names. *)
TodoOld ==
    \A r \in Runs : \A n \in todo[r] :
        n \in used /\ Cardinality(Newer(n, used)) >= Keep

(* What bears the mark of a run is its reservation or its archive, an        *)
(* archive only once the run has published it; and only retention that is   *)
(* switched on prunes, and only what was reserved.                          *)
ShelfInOrder ==
    /\ pruned \subseteq used
    /\ \A r \in Runs : pc[r] \in {"list", "prune"} => Keep # 0
    /\ \A n \in Names, r \in Runs :
          /\ dir[n] = ArchiveOf(r) => Published(r) \/ pc[r] = "failed"
          /\ dir[n].by = r => dir[n] \in {Reservation(r), ArchiveOf(r)}

IInv ==
    /\ TypeOK /\ NamesUsed /\ ReservationHeld /\ UnlinkHolds /\ StagedSoFar
    /\ ArchivesComplete /\ TodoOld /\ NewestKept /\ HoldsItsName
=============================================================================
