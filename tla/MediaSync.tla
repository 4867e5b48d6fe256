------------------------------ MODULE MediaSync -------------------------------
(***************************************************************************)
(* sync_store() of media_sync.py over a media store (media_store.py): list  *)
(* the device, copy what is missing, verify by size, and, when asked,       *)
(* delete what still verifies.  Runs follow each other and may be cut off   *)
(* anywhere; the device takes new pictures and the user touches the         *)
(* destination meanwhile.  A file is its identity and its size; the order   *)
(* of the listing is left open.                                             *)
(***************************************************************************)
EXTENDS Integers, FiniteSets

CONSTANTS
  Entries,    \* media files the device ever has
  Size,       \* Size[e]: its bytes
  Rel,        \* Rel[e]: its relpath, which is also its path at the destination
  Unsized,    \* entries the device reports no size for
  Protected,  \* entries the device needs (its calibration library)
  NoFile      \* "nothing at this path"

Paths  == {Rel[e] : e \in Entries}
Copies == [of : Entries, size : Nat]

ASSUME SyncAssumption ==
  /\ Size \in [Entries -> Nat \ {0}]
  /\ DOMAIN Rel = Entries
  /\ Unsized \subseteq Entries /\ Protected \subseteq Entries
  /\ NoFile \notin Copies

VARIABLES
  device,    \* entries on the device
  local,     \* local[p]: the file at path p of the destination
  born,      \* history: entries the device has ever had
  spoiled,   \* history: entries whose copy the user has touched
  pc,        \* where the run is
  opts,      \* its options: delete, protected (delete_protected), dry (dry_run);
             \* own: the hardware of its source says that it is the device
  listing,   \* entries list_media() returned
  left,      \* those the pass has still to visit
  cur,       \* those it is working on: none or one
  verified,  \* relpaths that hold a verified copy
  failed     \* report.failures is not empty

world == <<device, born>>
run   == <<pc, opts, listing, left, cur, verified, failed>>
vars  == <<world, local, spoiled, run>>

\* (delete_protected and the identity matter to the delete pass alone.)
Options ==
  {o \in [delete : BOOLEAN, protected : BOOLEAN, dry : BOOLEAN, own : BOOLEAN] :
     o.protected \/ o.own => o.delete}
NoOptions == [delete |-> FALSE, protected |-> FALSE, dry |-> FALSE, own |-> FALSE]

TypeOK ==
  /\ device \subseteq born /\ born \subseteq Entries
  /\ local \in [Paths -> Copies \cup {NoFile}]
  /\ spoiled \subseteq Entries
  /\ pc \in {"idle", "list", "copy", "fetch", "guard", "delete", "remove", "done"}
  /\ opts \in Options
  /\ listing \subseteq Entries /\ left \subseteq listing /\ cur \subseteq listing
  /\ verified \subseteq Paths
  /\ failed \in BOOLEAN

Init ==
  /\ device \in SUBSET Entries /\ born = device
  /\ local = [p \in Paths |-> NoFile]
  /\ spoiled = {}
  /\ pc = "idle"
  /\ opts = NoOptions
  /\ listing = {} /\ left = {} /\ cur = {} /\ verified = {}
  /\ failed = FALSE

---------------------------------------------------------------------------
(* The device and the user.                                                *)

\* A new file: its path was never used before.
Shoot(e) ==
  /\ \A f \in born : Rel[f] # Rel[e]
  /\ device' = device \cup {e}
  /\ born' = born \cup {e}
  /\ UNCHANGED <<local, spoiled, run>>

\* The user removes or truncates a copy -- but not in the instant between the
\* verification of a copy and the deletion of its file.
Touch(p) ==
  /\ local[p] # NoFile
  /\ pc # "remove"
  /\ \E file \in {NoFile, [local[p] EXCEPT !.size = 0]} : local' = [local EXCEPT ![p] = file]
  /\ spoiled' = spoiled \cup {local[p].of}
  /\ UNCHANGED <<world, run>>

---------------------------------------------------------------------------
(* One run of sync_store().                                                *)

LocalSize(p) == IF local[p] = NoFile THEN -1 ELSE local[p].size
Reported(e)  == IF e \in Unsized THEN -1 ELSE Size[e]
Matches(e)   == e \notin Unsized /\ LocalSize(Rel[e]) = Size[e]
Present(e)   == e \in Unsized /\ LocalSize(Rel[e]) >= 0

Outside == UNCHANGED <<world, local, spoiled>>

Start ==
  /\ pc = "idle"
  /\ opts' \in Options
  /\ pc' = "list"
  /\ Outside /\ UNCHANGED <<listing, left, cur, verified, failed>>

\* The run is over, or its process is killed at any point: only the files stay.
End ==
  /\ pc # "idle"
  /\ pc' = "idle" /\ failed' = FALSE
  /\ opts' = NoOptions
  /\ listing' = {} /\ left' = {} /\ cur' = {} /\ verified' = {}
  /\ Outside

\* An invalid source, a listing that fails, a full disk.
RefuseSource ==
  /\ pc = "list"
  /\ pc' = "done" /\ failed' = TRUE
  /\ Outside /\ UNCHANGED <<opts, listing, left, cur, verified>>

\* device_identity_matches(): name, bus and backing of the volume; what is on it
\* proves nothing, a backup has the same files.
OwnStorage == opts.own

\* A store that is not the device's own storage, or may be, or cannot delete.
RefuseDelete ==
  /\ pc = "guard"
  /\ pc' = "done" /\ failed' = TRUE
  /\ Outside /\ UNCHANGED <<opts, listing, left, cur, verified>>

List ==
  /\ pc = "list"
  /\ pc' = "copy" /\ listing' = device /\ left' = device
  /\ Outside /\ UNCHANGED <<opts, cur, verified, failed>>

\* An entry the copy pass has nothing to fetch for: its copy matches, or its
\* size is unknown and something is there, or its path does not resolve inside
\* the destination, or the run is dry, and the plan says it will verify.
Visit(e) == \E unsafe \in BOOLEAN :
  /\ pc = "copy" /\ cur = {} /\ e \in left
  /\ unsafe => ~Matches(e) /\ ~Present(e)
  /\ Matches(e) \/ Present(e) \/ unsafe \/ opts.dry
  /\ left' = left \ {e}
  /\ failed' = (failed \/ unsafe)
  /\ verified' = IF Matches(e) \/ (opts.dry /\ ~unsafe /\ e \notin Unsized)
                 THEN verified \cup {Rel[e]} ELSE verified
  /\ Outside /\ UNCHANGED <<pc, opts, listing, cur>>

\* store.fetch() writes the file bit by bit over what was there.
FetchStarts(e) ==
  /\ pc = "copy" /\ cur = {} /\ e \in left
  /\ ~Matches(e) /\ ~Present(e) /\ ~opts.dry
  /\ left' = left \ {e} /\ cur' = {e} /\ pc' = "fetch"
  /\ \E n \in 0..(Size[e] - 1) : local' = [local EXCEPT ![Rel[e]] = [of |-> e, size |-> n]]
  /\ UNCHANGED <<world, spoiled, opts, listing, verified, failed>>

FetchEnds(e) ==
  /\ pc = "fetch" /\ e \in cur
  /\ cur' = {} /\ pc' = "copy"
  /\ local' = [local EXCEPT ![Rel[e]] = [of |-> e, size |-> Size[e]]]
  /\ verified' = IF e \in Unsized THEN verified ELSE verified \cup {Rel[e]}
  /\ UNCHANGED <<world, spoiled, opts, listing, left, failed>>

\* A failed copy is logged and not reported.
FetchFails_Silent(e) ==
  /\ pc = "fetch" /\ e \in cur
  /\ cur' = {} /\ pc' = "copy"
  /\ Outside /\ UNCHANGED <<opts, listing, left, verified, failed>>

\* An exception or a size that does not match: the part stays where it is.
FetchFails(e) ==
  /\ pc = "fetch" /\ e \in cur
  /\ cur' = {} /\ pc' = "copy" /\ failed' = TRUE
  /\ Outside /\ UNCHANGED <<opts, listing, left, verified>>

CopyEnds ==
  /\ pc = "copy" /\ cur = {} /\ left = {}
  /\ pc' = IF opts.delete THEN "guard" ELSE "done"
  /\ Outside /\ UNCHANGED <<opts, listing, left, cur, verified, failed>>

\* The delete pass goes over the device as it is now.
Guarded_Relists ==
  /\ pc = "guard"
  /\ pc' = "delete" /\ left' = device
  /\ Outside /\ UNCHANGED <<opts, listing, cur, verified, failed>>

Guarded ==
  /\ pc = "guard" /\ OwnStorage
  /\ pc' = "delete" /\ left' = listing
  /\ Outside /\ UNCHANGED <<opts, listing, cur, verified, failed>>

Kept(e) == e \in Protected /\ ~opts.protected
Shared(e) == \E f \in listing \ {e} : Rel[f] = Rel[e]
\* The delete pass trusts what the copy pass found.
StillVerified_AsCopied(e) == Rel[e] \in verified

StillVerified(e) ==
  /\ Rel[e] \in verified
  /\ opts.dry \/ LocalSize(Rel[e]) = Reported(e)

\* The delete pass visits an entry it leaves where it is; what should have gone
\* is a failure.
Keep(e) ==
  /\ pc = "delete" /\ e \in left
  /\ Kept(e) \/ Shared(e) \/ ~StillVerified(e) \/ opts.dry
  /\ left' = left \ {e}
  /\ failed' = (failed \/ (~Kept(e) /\ (Shared(e) \/ ~StillVerified(e))))
  /\ Outside /\ UNCHANGED <<pc, opts, listing, cur, verified>>

Deletable(e) == ~Kept(e) /\ ~Shared(e) /\ StillVerified(e) /\ ~opts.dry

Verify(e) ==
  /\ pc = "delete" /\ e \in left
  /\ Deletable(e)
  /\ left' = left \ {e} /\ cur' = {e} /\ pc' = "remove"
  /\ Outside /\ UNCHANGED <<opts, listing, verified, failed>>

\* store.delete() removes the file, or raises.
Remove(e) ==
  /\ pc = "remove" /\ e \in cur
  /\ cur' = {} /\ pc' = "delete"
  /\ \/ device' = device \ {e} /\ UNCHANGED failed
     \/ failed' = TRUE /\ UNCHANGED device
  /\ UNCHANGED <<born, local, spoiled, opts, listing, left, verified>>

DeleteEnds ==
  /\ pc = "delete" /\ left = {}
  /\ pc' = "done"
  /\ Outside /\ UNCHANGED <<opts, listing, left, cur, verified, failed>>

Sync ==
  \/ Start \/ End \/ RefuseSource \/ RefuseDelete \/ List \/ CopyEnds \/ Guarded \/ DeleteEnds
  \/ \E e \in Entries :
       \/ Visit(e) \/ FetchStarts(e) \/ FetchEnds(e) \/ FetchFails(e)
       \/ Keep(e) \/ Verify(e) \/ Remove(e)

Next ==
  \/ Sync
  \/ \E e \in Entries : Shoot(e)
  \/ \E p \in Paths : Touch(p)

Spec == Init /\ [][Next]_vars

---------------------------------------------------------------------------
(* Properties.                                                             *)

Whole(e) == local[Rel[e]] = [of |-> e, size |-> Size[e]]
Archive  == {e \in Entries : Whole(e)}

Transfer == INSTANCE SafeTransfer WITH archive <- Archive, consent <- opts.protected,
                                    own <- opts.own

\* A run keeps the promise of SafeTransfer: only a file whose whole copy is at
\* the destination leaves the device, from a volume that is the device's own, a
\* protected one only on request and an unsized one never, and the last copy of
\* a file is never overwritten -- whatever fails, is cut off, is shot or is
\* touched in between, and although copies are compared by size alone.
IsSafeTransfer == Transfer!TransferSpec

\* A run that reports no failure has done its work: every listed file of known
\* size and with a path of its own is whole at the destination unless somebody
\* touched it, and with delete it has left the device unless it is protected.
OkMeansDone ==
  (pc = "done" /\ ~failed /\ ~opts.dry) =>
    \A e \in listing \ Unsized :
      Shared(e) \/ /\ Whole(e) \/ e \in spoiled
                   /\ opts.delete => Kept(e) \/ e \notin device

=============================================================================
