----------------------------- MODULE SafeTransfer -----------------------------
(***************************************************************************)
(* What a media sync promises (the safety rules of media_sync.py): a file   *)
(* leaves the device only while its whole copy is at the destination and the *)
(* volume is the device's own, and no copy that is the last one of its file *)
(* is given up.                                                            *)
(***************************************************************************)
CONSTANTS
  Entries,    \* media files
  Unsized,    \* those whose size the device cannot report
  Protected   \* those the device needs

VARIABLES
  device,   \* files on the device
  archive,  \* files whose whole copy is at the destination
  spoiled,  \* files whose copy somebody else has spoiled
  consent,  \* the running sync may delete protected files too
  own       \* its source is the device's own storage, not a copy of it

vars == <<device, archive, spoiled, consent, own>>

TransferInit ==
  /\ device \subseteq Entries
  /\ archive = {}
  /\ spoiled = {}
  /\ consent = FALSE /\ own = FALSE

Arrive(e) ==
  /\ e \in Entries \ (device \cup archive \cup spoiled)
  /\ device' = device \cup {e}
  /\ UNCHANGED <<archive, spoiled, consent, own>>

\* Copies come and go as long as their file is on the device.
Copy ==
  /\ archive' \subseteq archive \cup device
  /\ archive \ archive' \subseteq device
  /\ UNCHANGED <<device, spoiled, consent, own>>

Free(e) ==
  /\ e \in device \cap archive
  /\ own /\ e \notin Unsized
  /\ e \in Protected => consent
  /\ device' = device \ {e}
  /\ UNCHANGED <<archive, spoiled, consent, own>>

\* Anybody may spoil a copy at the destination.
Spoil(e) ==
  /\ e \in Entries
  /\ archive' = archive \ {e}
  /\ spoiled' = spoiled \cup {e}
  /\ UNCHANGED <<device, consent, own>>

Ask ==
  /\ consent' \in BOOLEAN /\ own' \in BOOLEAN
  /\ UNCHANGED <<device, archive, spoiled>>

TransferNext ==
  \/ \E e \in Entries : Arrive(e) \/ Free(e) \/ Spoil(e)
  \/ Copy
  \/ Ask

TransferSpec == TransferInit /\ [][TransferNext]_vars

=============================================================================
