------------------------- MODULE MCDeferredDownloads -------------------------
(* Small instances of DeferredDownloads: bounds are given in the .cfg files. *)
EXTENDS DeferredDownloads
=============================================================================
