----------------------------- MODULE MCRestore -----------------------------
(***************************************************************************)
(* Instances of the restore for TLC: a service configuration in one        *)
(* directory and the pause marker in another, which also holds the         *)
(* directory of the images, as /var/lib/singbox-sub-manager does.          *)
(***************************************************************************)
EXTENDS RestoreProps

CONSTANTS config, marker, etc, var, snapshots

MCTarget == {config, marker}
MCConfig == {config}
MCMonitorFile == {marker}
MCDir == {etc, var, snapshots}
MCPath == [d \in MCDir |-> IF d = snapshots THEN {var, snapshots} ELSE {d}]
MCParent == [t \in MCTarget |-> IF t = config THEN etc ELSE var]
=============================================================================
