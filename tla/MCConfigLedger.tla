---------------------------- MODULE MCConfigLedger ----------------------------
(* Small instances of ConfigLedger: two values, every kind of widget.       *)
EXTENDS ConfigLedger

CONSTANTS v1, v2

TwoValues == {v1, v2}
AllKinds  == {"plain", "escalates", "planned"}

\* The values can be exchanged for each other, so the body may start with v1.
MCInit == Init /\ body = v1
MCSpec == MCInit /\ [][Next]_vars /\ Fairness
=============================================================================
