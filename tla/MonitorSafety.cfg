SPECIFICATION Spec
CONSTANTS
  p1 = p1
  p2 = p2
  singbox = singbox
  caddy = caddy
  None = None
  Proc <- MCProc
  Service <- OneService
  Situations = {"up", "hung", "dead"}
  Threshold = 2
  Cooldown = 2
  MaxReal = 3
  MaxFaults = 2
SYMMETRY Symmetry
INVARIANTS TypeOK IInv RestartCommitted NoRestartWhilePaused SettledBeforeRetry AttemptsAreWarranted
PROPERTIES AttemptsSpaced ResumeStartsFromZero GuardSpec
