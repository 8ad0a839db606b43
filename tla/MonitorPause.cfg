SPECIFICATION Spec
CONSTANTS
  p1 = p1
  p2 = p2
  singbox = singbox
  caddy = caddy
  None = None
  Proc <- OneProc
  Service <- OneService
  Situations = {"up", "hung"}
  Threshold = 2
  Cooldown = 1
  MaxReal = 2
  MaxFaults = 2
PROPERTY GrantedPauseIsDurable
