SPECIFICATION Spec
CONSTANTS
    Runs = {r1, r2}
    OutRuns = {r1, r2}
    Trees = {tree}
    Explicit = {listed}
    Nobody = nobody
    Keep = 1
    MaxTime = 0
    MaxSeq = 0
    MaxEdits = 0
PROPERTY OutKept
