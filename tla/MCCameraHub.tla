----------------------------- MODULE MCCameraHub -----------------------------
(* Small instances of CameraHub.                                            *)
EXTENDS CameraHub, TLC

CONSTANTS a, b, x, y

TwoHosts   == {a, b}
TwoDevices == {x, y}

HostsAreAlike == Permutations(Hosts)

\* "A DEFAULT open while a camera is already live returns that camera
\* (idempotent)" (service.py:136-137): one that goes on to connect has found
\* no registered camera connected.  The code does not keep this promise: the test
\* looks at the active camera alone.
DefaultOpenIdempotent ==
  [][\A h \in Hosts :
       (hpc[h] = "check" /\ hpc'[h] = "resolve") => \A m \in registry : ~conn[m]]_vars
=============================================================================
