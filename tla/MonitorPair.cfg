SPECIFICATION Spec
CONSTANTS
  p1 = p1
  p2 = p2
  singbox = singbox
  caddy = caddy
  None = None
  Proc <- MCProc
  Service <- BothServices
  Situations = {"up", "hung", "squatted", "broken"}
  Threshold = 1
  Cooldown = 1
  MaxReal = 1
  MaxFaults = 1
SYMMETRY BothSymmetry
INVARIANTS LocalResultIsSafe
PROPERTIES ExitCodesHonest
