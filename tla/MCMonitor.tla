----------------------------- MODULE MCMonitor -----------------------------
(***************************************************************************)
(* Instances of the monitor for TLC.                                       *)
(***************************************************************************)
EXTENDS MonitorProps, TLC

CONSTANTS p1, p2, singbox, caddy

MCProc == {p1, p2}
OneProc == {p1}
OneService == {singbox}
BothServices == {singbox, caddy}

Symmetry == Permutations(MCProc)
BothSymmetry == Permutations(MCProc) \cup Permutations(BothServices)
=============================================================================
