------------------------------ MODULE MCArchive ------------------------------
(* Small instances of Archive.tla for TLC.                                  *)
EXTENDS ArchiveProps, TLC

(* Only runs that are never given --out are interchangeable. *)
RunSymmetry == Permutations(Runs \ OutRuns)

=============================================================================
