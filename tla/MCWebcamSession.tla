---------------------------- MODULE MCWebcamSession ---------------------------
(* A small instance of WebcamSession. *)
EXTENDS WebcamSession
=============================================================================
