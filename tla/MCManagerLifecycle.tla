------------------------- MODULE MCManagerLifecycle -------------------------
(* Small instances of ManagerLifecycle: host threads are model values.      *)
EXTENDS ManagerLifecycle

CONSTANTS a, b

BothHosts == {a, b}
OnlyA     == {a}
=============================================================================
