SPECIFICATION Spec
CONSTANTS
    Runs = {r1, r2, r3}
    OutRuns = {r3}
    Trees = {tree}
    Explicit = {listed}
    Nobody = nobody
    Keep = 1
    MaxTime = 0
    MaxSeq = 2
    MaxEdits = 1
SYMMETRY RunSymmetry
INVARIANT TypeOK
INVARIANT IInv
INVARIANT NewestKept
INVARIANT HoldsItsName
INVARIANT ArchivesComplete
INVARIANT FailedLeavesNothing
PROPERTY OutKept
PROPERTY KeepsShelf
