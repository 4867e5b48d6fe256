---------------------------- MODULE MCDwarfSession ----------------------------
(* A small instance of DwarfSession: one value that may be on the dial or not. *)
EXTENDS DwarfSession

CONSTANT v
=============================================================================
