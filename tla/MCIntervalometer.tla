-------------------------- MODULE MCIntervalometer --------------------------
(* Small instances of Intervalometer.                                       *)
EXTENDS Intervalometer, TLC

CONSTANTS a, b

TwoHosts  == {a, b}
OneHost   == {a}
HostsAreAlike == Permutations(Hosts)

FiniteAndInfinite == {0, 2}
ThreeOrInfinite   == {0, 3}
Finite            == {3}
=============================================================================
