--------------------------- MODULE MCCaptureService ---------------------------
(* Two threads that capture, watch or close, an interval sequence beside them, *)
(* or a consumer of the log.                                                   *)
EXTENDS CaptureService, TLC

CONSTANTS a, b

OneHost  == {a}
TwoHosts == {a, b}

Overlapping == {"photo", "video"}
Closing     == {"video", "stop", "close"}
Firing      == {"photo", "watch"}
Watching    == {"watch", "disarm", "sequence"}
Sequencing  == {"video", "burst", "sequence"}
Reading     == {"read", "clear", "connect", "notify"}

AllUsages  == {Overlapping, Closing, Firing, Watching, Sequencing, Reading}
JustBlocks == {Overlapping \cup Closing}

HostsAreAlike == Permutations(TwoHosts)
=============================================================================
