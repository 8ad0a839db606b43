SPECIFICATION Spec
CONSTANTS
    Cmds = {c1, c2, c3}
    jp = jp
    us = us
    NodeNames <- MCNodeNames
    Requests <- MCRequests
    Injected <- MCInjected
    Others <- MCOthers
    MaxOthers = 1
SYMMETRY CmdSymmetry
INVARIANT TypeOK
INVARIANT IInv
INVARIANT StaysReadable
PROPERTY OtherNodesKept
PROPERTY BackupIsPrevious
PROPERTY KeepsEdits
