----------------------------- MODULE MCMediaSync ------------------------------
(* Two files of one path and one size, a protected one and one without a size. *)
EXTENDS MediaSync, TLC

CONSTANTS e1, e2, cal, raw, p, q, r

Files     == {e1, e2, cal, raw}
Sizes     == (e1 :> 1) @@ (e2 :> 1) @@ (cal :> 1) @@ (raw :> 1)
Relpaths  == (e1 :> p) @@ (e2 :> p) @@ (cal :> q) @@ (raw :> r)
Library   == {cal}
Streams   == {raw}

\* The files of one path differ in nothing.
Twins == Permutations({e1, e2})
=============================================================================
