--------------------------- MODULE MediaSync_proofs ---------------------------
(***************************************************************************)
(* A run of sync_store() keeps the promise of SafeTransfer, for every set of *)
(* files, sizes and paths.  The invariant says why comparing sizes is       *)
(* enough: files that share a path are never deleted, so they are all on    *)
(* the device, and what lies at the path of a file that may be deleted is   *)
(* that file's own copy.                                                    *)
(***************************************************************************)
EXTENDS MediaSync, TLAPS

\* What lies at a path was fetched from a file of that path.
CopiesNamed ==
  \A p \in Paths : local[p] # NoFile => local[p].of \in born /\ Rel[local[p].of] = p

\* Files that share a path are still on the device, and are listed together.
TwinsStay ==
  \A e, f \in born :
    e # f /\ Rel[e] = Rel[f] => e \in device /\ (e \in listing => f \in listing)

Listed ==
  /\ pc \in {"idle", "list"} => verified = {} /\ cur = {}
  /\ listing \subseteq born
  /\ pc \in {"copy", "fetch", "guard"} => listing \subseteq device

\* Only paths of listed files of known size are ever verified.
VerifiedSized == \A p \in verified : \E f \in listing \ Unsized : Rel[f] = p

\* Between the second look at a copy and the deletion of its file.
Removing ==
  /\ pc \in {"delete", "remove"} => opts.own
  /\ pc = "remove" =>
       \A e \in cur :
         /\ ~Kept(e) /\ ~Shared(e)
         /\ e \notin Unsized /\ LocalSize(Rel[e]) = Size[e]

SyncInv ==
  /\ TypeOK
  /\ spoiled \subseteq born
  /\ CopiesNamed
  /\ TwinsStay
  /\ Listed
  /\ VerifiedSized
  /\ Removing

\* The options of a run.
LEMMA OptionsTyped ==
  /\ NoOptions \in Options
  /\ \A o \in Options : o.protected \in BOOLEAN /\ o.own \in BOOLEAN
BY DEF NoOptions, Options

\* The initial states satisfy the invariant.
LEMMA InitSync == Init => SyncInv
<1> SUFFICES ASSUME Init PROVE SyncInv
  OBVIOUS
<1> USE SyncAssumption
<1>1. TypeOK
  BY OptionsTyped DEF Init, TypeOK
<1>2. Listed /\ VerifiedSized /\ Removing /\ spoiled \subseteq born
  BY DEF Init, Listed, VerifiedSized, Removing
<1>3. CopiesNamed
  BY DEF Init, CopiesNamed
<1>4. TwinsStay
  BY DEF Init, TwinsStay
<1>5. QED
  BY <1>1, <1>2, <1>3, <1>4 DEF SyncInv

-----------------------------------------------------------------------------
\* A step of a run that touches no file keeps what is known about files.
LEMMA FilesUntouched ==
  ASSUME SyncInv, Outside, listing' = listing
  PROVE  spoiled' \subseteq born' /\ CopiesNamed' /\ TwinsStay'
BY DEF SyncInv, Outside, world, CopiesNamed, TwinsStay

\* The steps before, between and after the passes.
LEMMA BookkeepingKeeps ==
  ASSUME SyncInv, Start \/ End \/ RefuseSource \/ RefuseDelete \/ List \/ CopyEnds
                  \/ Guarded \/ DeleteEnds
  PROVE  SyncInv'
<1> USE SyncAssumption DEF SyncInv
<1>1. TypeOK'
  <2> USE DEF TypeOK, Outside, world
  <2>1. CASE Start
    BY <2>1 DEF Start
  <2>2. CASE End
    BY <2>2, OptionsTyped DEF End
  <2>3. CASE RefuseSource \/ RefuseDelete
    BY <2>3 DEF RefuseSource, RefuseDelete
  <2>4. CASE List
    BY <2>4 DEF List, Listed
  <2>5. CASE CopyEnds \/ Guarded \/ DeleteEnds
    BY <2>5 DEF CopyEnds, Guarded, DeleteEnds
  <2>6. QED
    BY <2>1, <2>2, <2>3, <2>4, <2>5
<1>2. CopiesNamed' /\ (spoiled \subseteq born)'
  BY DEF CopiesNamed, Start, End, RefuseSource, RefuseDelete, List, CopyEnds,
         Guarded, DeleteEnds, Outside, world
<1>3. TwinsStay'
  BY DEF TwinsStay, Start, End, RefuseSource, RefuseDelete, List, CopyEnds,
         Guarded, DeleteEnds, Outside, world
<1>4. Listed'
  BY DEF TypeOK, Listed, Start, End, RefuseSource, RefuseDelete, List, CopyEnds,
         Guarded, DeleteEnds, Outside, world
<1>5. VerifiedSized'
  <2>1. CASE List
    BY <2>1 DEF VerifiedSized, List, Listed
  <2>2. CASE ~List
    BY <2>2 DEF VerifiedSized, Start, End, RefuseSource, RefuseDelete, CopyEnds,
           Guarded, DeleteEnds
  <2>3. QED
    BY <2>1, <2>2
<1>6. Removing'
  BY DEF Removing, OwnStorage, Start, End, RefuseSource, RefuseDelete, List, CopyEnds,
         Guarded, DeleteEnds
<1>7. QED
  BY <1>1, <1>2, <1>3, <1>4, <1>5, <1>6

\* The copy pass: entries passed over, fetched, or fetched in part.
LEMMA CopyPassKeeps ==
  ASSUME SyncInv, NEW e \in Entries,
         Visit(e) \/ FetchStarts(e) \/ FetchEnds(e) \/ FetchFails(e)
  PROVE  SyncInv'
<1> USE SyncAssumption DEF SyncInv
<1> USE DEF Outside, world
<1>1. Size[e] \in Nat \ {0} /\ Rel[e] \in Paths
  BY DEF Paths
<1>2. e \in born /\ e \in listing
  BY DEF Visit, FetchStarts, FetchEnds, FetchFails, TypeOK, Listed
<1>3. TypeOK'
  <2> USE DEF TypeOK
  <2>1. CASE Visit(e)
    BY <2>1, <1>1, <1>2 DEF Visit
  <2>2. CASE FetchStarts(e)
    BY <2>2, <1>1, <1>2 DEF FetchStarts, Copies
  <2>3. CASE FetchEnds(e)
    BY <2>3, <1>1, <1>2 DEF FetchEnds, Copies
  <2>4. CASE FetchFails(e)
    BY <2>4 DEF FetchFails
  <2>5. QED
    BY <2>1, <2>2, <2>3, <2>4
<1>4. CopiesNamed'
  <2>1. CASE Visit(e) \/ FetchFails(e)
    BY <2>1 DEF CopiesNamed, Visit, FetchFails
  <2>2. CASE FetchStarts(e)
    BY <2>2, <1>1, <1>2 DEF CopiesNamed, FetchStarts, TypeOK
  <2>3. CASE FetchEnds(e)
    BY <2>3, <1>1, <1>2 DEF CopiesNamed, FetchEnds, TypeOK
  <2>4. QED
    BY <2>1, <2>2, <2>3
<1>5. TwinsStay' /\ (spoiled \subseteq born)' /\ Listed'
  BY DEF TwinsStay, Listed, Visit, FetchStarts, FetchEnds, FetchFails
<1>6. VerifiedSized'
  BY <1>2 DEF VerifiedSized, Matches, Visit, FetchStarts, FetchEnds, FetchFails
<1>7. Removing'
  BY DEF Removing, Visit, FetchStarts, FetchEnds, FetchFails
<1>8. QED
  BY <1>3, <1>4, <1>5, <1>6, <1>7

\* The delete pass.
LEMMA DeletePassKeeps ==
  ASSUME SyncInv, NEW e \in Entries, Keep(e) \/ Verify(e) \/ Remove(e)
  PROVE  SyncInv'
<1> USE SyncAssumption DEF SyncInv
<1> USE DEF Outside, world
<1>1. e \in listing
  BY DEF Keep, Verify, Remove, TypeOK
<1>2. TypeOK'
  <2>1. CASE Keep(e)
    BY <2>1 DEF Keep, TypeOK
  <2>2. CASE Verify(e)
    BY <2>2, <1>1 DEF Verify, TypeOK
  <2>3. CASE Remove(e)
    BY <2>3 DEF Remove, TypeOK
  <2>4. QED
    BY <2>1, <2>2, <2>3
<1>3. CopiesNamed' /\ (spoiled \subseteq born)' /\ Listed' /\ VerifiedSized'
  BY DEF CopiesNamed, Listed, VerifiedSized, Keep, Verify, Remove
<1>4. TwinsStay'
  <2>1. CASE Keep(e) \/ Verify(e)
    BY <2>1 DEF TwinsStay, Keep, Verify
  <2>2. CASE Remove(e)
    <3>1. ~Shared(e)
      BY <2>2 DEF Removing, Remove
    <3>2. \A f \in born : f # e => Rel[f] # Rel[e]
      BY <3>1, <1>1 DEF TwinsStay, Shared, Listed
    <3>3. QED
      BY <2>2, <3>2, <1>1 DEF TwinsStay, Remove, Listed
  <2>3. QED
    BY <2>1, <2>2
<1>5. Removing'
  <2>1. CASE Keep(e) \/ Remove(e)
    BY <2>1 DEF Removing, Keep, Remove, TypeOK
  <2>2. CASE Verify(e)
    <3>1. ~Kept(e) /\ ~Shared(e) /\ Rel[e] \in verified /\ LocalSize(Rel[e]) = Reported(e)
      BY <2>2 DEF Verify, Deletable, StillVerified
    <3>2. e \notin Unsized
      <4> PICK f \in listing \ Unsized : Rel[f] = Rel[e]
        BY <3>1 DEF VerifiedSized
      <4> QED
        BY <3>1 DEF Shared
    <3>3. QED
      BY <2>2, <3>1, <3>2
         DEF Removing, Verify, Reported, Kept, Shared, LocalSize
  <2>3. QED
    BY <2>1, <2>2
<1>6. QED
  BY <1>2, <1>3, <1>4, <1>5

\* The camera takes a picture; the user touches a copy.
LEMMA WorldKeeps ==
  ASSUME SyncInv, \/ \E e \in Entries : Shoot(e)
                  \/ \E p \in Paths : Touch(p)
  PROVE  SyncInv'
<1> USE SyncAssumption DEF SyncInv
<1>1. ASSUME NEW e \in Entries, Shoot(e) PROVE SyncInv'
  <2> USE DEF Shoot, run
  <2>1. TypeOK' /\ CopiesNamed' /\ (spoiled \subseteq born)' /\ Listed' /\ VerifiedSized'
    BY <1>1 DEF TypeOK, CopiesNamed, Listed, VerifiedSized
  <2>2. TwinsStay'
    BY <1>1 DEF TwinsStay
  <2>3. Removing'
    BY <1>1 DEF Removing, Kept, Shared, LocalSize
  <2>4. QED
    BY <2>1, <2>2, <2>3
<1>2. ASSUME NEW p \in Paths, Touch(p) PROVE SyncInv'
  <2> USE DEF Touch, run, world
  <2>1. /\ local[p] \in Copies
        /\ [local[p] EXCEPT !.size = 0] \in Copies
        /\ [local[p] EXCEPT !.size = 0].of = local[p].of
    BY <1>2 DEF TypeOK, Copies
  <2>2. TypeOK'
    BY <1>2, <2>1 DEF TypeOK, Copies
  <2>3. CopiesNamed'
    <3>1. \A q \in Paths \ {p} : local'[q] = local[q]
      BY <1>2 DEF TypeOK
    <3>2. local'[p] = NoFile \/ local'[p].of = local[p].of
      BY <1>2, <2>1 DEF TypeOK
    <3>3. UNCHANGED born /\ local[p].of \in born /\ Rel[local[p].of] = p
      BY <1>2 DEF CopiesNamed
    <3>4. QED
      BY <3>1, <3>2, <3>3 DEF CopiesNamed
  <2>4. (spoiled \subseteq born)'
    BY <1>2 DEF CopiesNamed
  <2>5. TwinsStay' /\ Listed' /\ VerifiedSized' /\ Removing'
    BY <1>2 DEF TwinsStay, Listed, VerifiedSized, Removing
  <2>6. QED
    BY <2>2, <2>3, <2>4, <2>5
<1>3. QED
  BY <1>1, <1>2

\* The invariant is inductive.
LEMMA StepSync == SyncInv /\ [Next]_vars => SyncInv'
<1> SUFFICES ASSUME SyncInv, [Next]_vars PROVE SyncInv'
  OBVIOUS
<1>1. CASE Sync
  BY <1>1, BookkeepingKeeps, CopyPassKeeps, DeletePassKeeps DEF Sync
<1>2. CASE \/ \E e \in Entries : Shoot(e)
           \/ \E p \in Paths : Touch(p)
  BY <1>2, WorldKeeps
<1>3. CASE UNCHANGED vars
  BY <1>3 DEF vars, world, run, SyncInv, TypeOK, CopiesNamed, TwinsStay, Listed, VerifiedSized,
              Removing, Kept, Shared, LocalSize
<1>4. QED
  BY <1>1, <1>2, <1>3 DEF Next

\* Every reachable state satisfies the invariant ...
THEOREM SyncInvariant == Spec => []SyncInv
<1> QED
  BY InitSync, StepSync, PTL DEF Spec

\* ... and so is well typed: the sets of a run stay among the files of the device.
THEOREM TypeCorrect == Spec => []TypeOK
<1>1. SyncInv => TypeOK
  BY DEF SyncInv
<1>2. QED
  BY <1>1, SyncInvariant, PTL

-----------------------------------------------------------------------------
(***************************************************************************)
(* The refinement.                                                         *)
(***************************************************************************)

\* A whole copy is one of a file the device has had.
LEMMA ArchiveBorn ==
  ASSUME SyncInv, NEW e \in Archive
  PROVE  e \in born /\ local[Rel[e]].of = e
<1>1. /\ e \in Entries /\ local[Rel[e]] = [of |-> e, size |-> Size[e]]
      /\ Rel[e] \in Paths
  BY DEF Archive, Whole, Paths
<1>2. local[Rel[e]] \in Copies /\ local[Rel[e]] # NoFile
  BY <1>1, SyncAssumption DEF Copies
<1>3. QED
  BY <1>1, <1>2 DEF SyncInv, CopiesNamed

\* What lies at the path of a listed file that shares it with none, and has its
\* size, is its whole copy.
LEMMA OwnCopy ==
  ASSUME SyncInv, NEW e \in listing, ~Shared(e), LocalSize(Rel[e]) = Size[e]
  PROVE  Whole(e)
<1>1. /\ e \in Entries /\ e \in born
      /\ Rel[e] \in Paths /\ Size[e] \in Nat \ {0}
  BY SyncAssumption DEF SyncInv, TypeOK, Listed, Paths
<1>2. local[Rel[e]] \in Copies /\ local[Rel[e]] # NoFile
  BY <1>1 DEF LocalSize, SyncInv, TypeOK
<1>3. local[Rel[e]].size = Size[e]
  BY <1>2 DEF LocalSize
<1>4. local[Rel[e]].of \in born /\ Rel[local[Rel[e]].of] = Rel[e]
  BY <1>1, <1>2 DEF SyncInv, CopiesNamed
<1>5. ASSUME local[Rel[e]].of # e PROVE FALSE
  <2>1. local[Rel[e]].of \in listing
    BY <1>1, <1>4, <1>5 DEF SyncInv, TwinsStay
  <2>2. QED
    BY <1>4, <1>5, <2>1 DEF Shared
<1>6. QED
  BY <1>2, <1>3, <1>5 DEF Copies, Whole

\* Steps that change neither files nor options are stutters of SafeTransfer.
LEMMA Stutters ==
  ASSUME Outside, opts' = opts
  PROVE  UNCHANGED Transfer!vars
BY DEF Outside, world, Archive, Whole, Transfer!vars

\* A fetch, whole or in part, is a Copy: what it overwrites is the copy of a
\* file that shares the path, and so is still on the device.
LEMMA FetchIsCopy ==
  ASSUME SyncInv, NEW e \in Entries, FetchStarts(e) \/ FetchEnds(e)
  PROVE  Transfer!Copy
<1> USE SyncAssumption
<1>1. e \in device /\ e \in born /\ Rel[e] \in Paths /\ Size[e] \in Nat \ {0}
  BY DEF SyncInv, TypeOK, Listed, FetchStarts, FetchEnds, Paths
<1>2. /\ UNCHANGED <<device, spoiled, opts>>
      /\ \A p \in Paths : p # Rel[e] => local'[p] = local[p]
  BY DEF FetchStarts, FetchEnds, SyncInv, TypeOK, world
<1>3. \A f \in Entries : Rel[f] \in Paths
  BY DEF Paths
<1>4. ASSUME NEW f \in Archive' PROVE f \in Archive \cup device
  <2>1. CASE Rel[f] # Rel[e]
    BY <1>2, <1>3, <1>4, <2>1 DEF Archive, Whole
  <2>2. CASE Rel[f] = Rel[e]
    <3>1. local'[Rel[e]].of = f
      BY <1>4, <2>2 DEF Archive, Whole
    <3>2. local'[Rel[e]].of = e
      BY <1>1 DEF FetchStarts, FetchEnds, SyncInv, TypeOK
    <3>3. QED
      BY <1>1, <3>1, <3>2
  <2>3. QED
    BY <2>1, <2>2
<1>5. ASSUME NEW f \in Archive, f \notin Archive' PROVE f \in device
  <2>1. f \in born
    BY ArchiveBorn
  <2>2. Rel[f] = Rel[e]
    BY <1>2, <1>3, <1>5 DEF Archive, Whole
  <2>3. CASE f = e
    BY <1>1, <2>3
  <2>4. CASE f # e
    BY <1>1, <2>1, <2>2, <2>4 DEF SyncInv, TwinsStay
  <2>5. QED
    BY <2>3, <2>4
<1>6. QED
  BY <1>2, <1>4, <1>5 DEF Transfer!Copy

\* A deletion is a Free: what lies at the path is the copy of this very file.
LEMMA RemoveIsFree ==
  ASSUME SyncInv, NEW e \in Entries, Remove(e)
  PROVE  Transfer!Free(e) \/ UNCHANGED Transfer!vars
<1> USE SyncAssumption
<1>1. /\ opts.own /\ ~Kept(e) /\ ~Shared(e) /\ e \notin Unsized
      /\ LocalSize(Rel[e]) = Size[e] /\ e \in listing
  BY DEF Remove, SyncInv, Removing, TypeOK
<1>2. UNCHANGED <<local, spoiled, opts>> /\ UNCHANGED Archive
  BY DEF Remove, Archive, Whole
<1>3. CASE e \in device /\ device' = device \ {e}
  <2>1. e \in Archive
    BY <1>1, OwnCopy DEF Archive
  <2>2. QED
    BY <1>1, <1>2, <1>3, <2>1 DEF Transfer!Free, Kept
<1>4. CASE ~(e \in device /\ device' = device \ {e})
  BY <1>2, <1>4 DEF Remove, Transfer!vars
<1>5. QED
  BY <1>3, <1>4

\* Touching a copy is a Spoil, of the file it is a copy of.
LEMMA TouchIsSpoil ==
  ASSUME SyncInv, NEW p \in Paths, Touch(p)
  PROVE  Transfer!Spoil(local[p].of)
<1> USE SyncAssumption
<1>1. local[p] \in Copies /\ local[p].of \in Entries /\ Rel[local[p].of] = p
  BY DEF Touch, SyncInv, TypeOK, CopiesNamed
<1>2. /\ \A q \in Paths : q # p => local'[q] = local[q]
      /\ local'[p] = NoFile \/ local'[p] = [local[p] EXCEPT !.size = 0]
  BY DEF Touch, SyncInv, TypeOK
<1>3. ASSUME NEW e \in Entries, Rel[e] = p PROVE e \notin Archive'
  <2>1. Size[e] # 0 /\ [of |-> e, size |-> Size[e]] \in Copies
    BY DEF Copies
  <2>2. [local[p] EXCEPT !.size = 0].size = 0
    BY <1>1 DEF Copies
  <2>3. local'[p] # [of |-> e, size |-> Size[e]]
    BY <1>2, <2>1, <2>2
  <2>4. QED
    BY <1>3, <2>3 DEF Archive, Whole
<1>4. ASSUME NEW e \in Entries, Rel[e] = p, e # local[p].of PROVE e \notin Archive
  BY <1>4, ArchiveBorn
<1>5. ASSUME NEW e \in Entries, Rel[e] # p PROVE e \in Archive' <=> e \in Archive
  <2>1. Rel[e] \in Paths
    BY DEF Paths
  <2>2. QED
    BY <1>2, <1>5, <2>1 DEF Archive, Whole
<1>6. Archive' = Archive \ {local[p].of}
  <2>1. Archive \subseteq Entries /\ Archive' \subseteq Entries
    BY DEF Archive
  <2>2. QED
    BY <1>1, <1>3, <1>4, <1>5, <2>1
<1>7. QED
  BY <1>1, <1>6 DEF Transfer!Spoil, Touch, run, world

\* A picture is an Arrive: its file is nowhere yet.
LEMMA ShootIsArrive ==
  ASSUME SyncInv, NEW e \in Entries, Shoot(e)
  PROVE  Transfer!Arrive(e)
<1>1. e \notin born
  BY DEF Shoot
<1>2. e \notin device /\ e \notin spoiled /\ e \notin Archive
  BY <1>1, ArchiveBorn DEF SyncInv, TypeOK
<1>3. UNCHANGED Archive
  BY DEF Shoot, Archive, Whole
<1>4. QED
  BY <1>2, <1>3 DEF Shoot, run, Transfer!Arrive

\* The beginning and the end of a run change at most what it may do.
LEMMA RunIsAsk ==
  ASSUME SyncInv, Start \/ End
  PROVE  Transfer!Ask
<1>1. opts' \in Options
  BY OptionsTyped DEF Start, End
<1>2. QED
  BY <1>1, OptionsTyped DEF Start, End, Outside, world, Archive, Whole, Transfer!Ask

\* Every step is one of SafeTransfer or a stutter.
LEMMA StepRefines ==
  ASSUME SyncInv, [Next]_vars
  PROVE  [Transfer!TransferNext]_(Transfer!vars)
<1> USE DEF Transfer!TransferNext
<1>1. CASE Start \/ End
  BY <1>1, RunIsAsk
<1>2. CASE RefuseSource \/ RefuseDelete \/ List \/ CopyEnds \/ Guarded \/ DeleteEnds
  <2>1. Outside /\ opts' = opts
    BY <1>2 DEF RefuseSource, RefuseDelete, List, CopyEnds, Guarded, DeleteEnds
  <2>2. QED
    BY <2>1, Stutters
<1>3. ASSUME NEW e \in Entries, Visit(e) \/ FetchFails(e) \/ Keep(e) \/ Verify(e)
      PROVE  UNCHANGED Transfer!vars
  <2>1. Outside /\ opts' = opts
    BY <1>3 DEF Visit, FetchFails, Keep, Verify
  <2>2. QED
    BY <2>1, Stutters
<1>4. ASSUME NEW e \in Entries, FetchStarts(e) \/ FetchEnds(e)
      PROVE  Transfer!TransferNext
  BY <1>4, FetchIsCopy
<1>5. ASSUME NEW e \in Entries, Remove(e)
      PROVE  [Transfer!TransferNext]_(Transfer!vars)
  BY <1>5, RemoveIsFree
<1>6. ASSUME NEW e \in Entries, Shoot(e)
      PROVE  Transfer!TransferNext
  BY <1>6, ShootIsArrive
<1>7. ASSUME NEW p \in Paths, Touch(p)
      PROVE  Transfer!TransferNext
  <2>1. local[p].of \in Entries
    BY <1>7, SyncAssumption DEF Touch, SyncInv, TypeOK, Copies
  <2>2. QED
    BY <1>7, <2>1, TouchIsSpoil
<1>8. CASE UNCHANGED vars
  BY <1>8 DEF vars, world, run, Archive, Whole, Transfer!vars
<1>9. QED
  BY <1>1, <1>2, <1>3, <1>4, <1>5, <1>6, <1>7, <1>8 DEF Next, Sync

\* A sync implements SafeTransfer: whatever fails or is cut off, a file leaves the
\* device only while its own whole copy is at the destination, from storage that
\* is the device's, a protected one only on request and one of unknown size
\* never; and no copy that is the last of its file is overwritten.
THEOREM SyncIsSafeTransfer == Spec => IsSafeTransfer
<1>1. Init => Transfer!TransferInit
  BY SyncAssumption
     DEF Init, NoOptions, Archive, Whole, Paths, Copies, Transfer!TransferInit
<1>2. SyncInv /\ [Next]_vars => [Transfer!TransferNext]_(Transfer!vars)
  BY StepRefines
<1>3. QED
  BY <1>1, <1>2, SyncInvariant, PTL DEF Spec, IsSafeTransfer, Transfer!TransferSpec

-----------------------------------------------------------------------------
(***************************************************************************)
(* A run that reports no failure has done its work.                        *)
(***************************************************************************)

\* A run works on one entry at a time, and leaves none behind.
OneAtATime ==
  /\ pc \notin {"fetch", "remove"} => cur = {}
  /\ \A e, f \in cur : e = f
  /\ pc = "done" /\ ~failed => left = {}

Clean == ~failed /\ ~opts.dry

\* What the copy pass has behind it is copied.
Copied ==
  pc \in {"copy", "fetch", "guard", "delete", "remove", "done"} /\ Clean =>
    \A e \in listing \ Unsized :
      \/ pc \in {"copy", "fetch"} /\ e \in left
      \/ pc = "fetch" /\ e \in cur
      \/ Shared(e) \/ Whole(e) \/ e \in spoiled

\* What the delete pass has behind it is gone, or was to be kept.
Freed ==
  pc \in {"delete", "remove", "done"} /\ Clean /\ opts.delete =>
    \A e \in listing \ Unsized :
      e \in left \/ e \in cur \/ Shared(e) \/ Kept(e) \/ e \notin device

WorkInv == OneAtATime /\ Copied /\ Freed

\* Nothing is asked of a run that has not begun.
LEMMA InitWork == Init => WorkInv
BY DEF Init, WorkInv, OneAtATime, Copied, Freed

\* Entries are taken one by one.
LEMMA OneAtATimeStep ==
  ASSUME SyncInv, OneAtATime, Next
  PROVE  OneAtATime'
<1> USE DEF OneAtATime
<1>1. CASE Start \/ End \/ List \/ CopyEnds \/ Guarded \/ DeleteEnds
  BY <1>1 DEF Start, End, List, CopyEnds, Guarded, DeleteEnds
<1>2. CASE RefuseSource \/ RefuseDelete
  BY <1>2 DEF RefuseSource, RefuseDelete
<1>3. ASSUME NEW e \in Entries, Visit(e) \/ FetchStarts(e) \/ FetchEnds(e) \/ FetchFails(e)
      PROVE  OneAtATime'
  BY <1>3 DEF Visit, FetchStarts, FetchEnds, FetchFails
<1>4. ASSUME NEW e \in Entries, Keep(e) \/ Verify(e) \/ Remove(e)
      PROVE  OneAtATime'
  BY <1>4 DEF Keep, Verify, Remove
<1>5. CASE \/ \E e \in Entries : Shoot(e)
           \/ \E p \in Paths : Touch(p)
  BY <1>5 DEF Shoot, Touch, run
<1>6. QED
  BY <1>1, <1>2, <1>3, <1>4, <1>5 DEF Next, Sync

\* The copy pass leaves nothing out, and nothing undoes what it did: a path of one
\* entry is not written for another.
LEMMA CopiedStep ==
  ASSUME SyncInv, OneAtATime, Copied, Next
  PROVE  Copied'
<1> USE SyncAssumption DEF Copied, Clean
<1>1. CASE Start \/ End \/ RefuseSource \/ RefuseDelete \/ List
  BY <1>1 DEF Start, End, RefuseSource, RefuseDelete, List, SyncInv, TypeOK
<1>2. CASE CopyEnds \/ Guarded \/ DeleteEnds
  BY <1>2 DEF CopyEnds, Guarded, DeleteEnds, Outside, Shared, Whole
<1>3. ASSUME NEW e \in Entries, Visit(e) PROVE Copied'
  <2>1. ASSUME Clean', e \notin Unsized, ~Shared(e) PROVE Whole(e)
    <3>1. Matches(e) /\ e \in listing
      BY <1>3, <2>1 DEF Visit, Present, SyncInv, TypeOK
    <3>2. QED
      BY <2>1, <3>1, OwnCopy DEF Matches
  <2>2. QED
    BY <1>3, <2>1 DEF Visit, Outside, Shared, Whole, SyncInv, TypeOK
<1>4. ASSUME NEW e \in Entries, FetchStarts(e) \/ FetchEnds(e) PROVE Copied'
  <2>1. /\ e \in listing /\ Rel[e] \in Paths
        /\ UNCHANGED <<spoiled, opts, listing, failed>>
    BY <1>4 DEF FetchStarts, FetchEnds, SyncInv, TypeOK, Paths
  <2>2. ASSUME NEW f \in listing, f # e, ~Shared(f)
        PROVE  Whole(f) => Whole(f)'
    <3>1. Rel[f] # Rel[e] /\ Rel[f] \in Paths
      BY <2>1, <2>2 DEF Shared, SyncInv, TypeOK, Paths
    <3>2. local'[Rel[f]] = local[Rel[f]]
      BY <1>4, <3>1 DEF FetchStarts, FetchEnds, SyncInv, TypeOK
    <3>3. QED
      BY <3>2 DEF Whole
  <2>3. \A f \in listing : Shared(f)' <=> Shared(f)
    BY <2>1 DEF Shared
  <2>4. CASE FetchStarts(e)
    BY <2>1, <2>2, <2>3, <2>4 DEF FetchStarts
  <2>5. CASE FetchEnds(e)
    <3>1. Whole(e)'
      BY <2>1, <2>5 DEF FetchEnds, Whole, SyncInv, TypeOK
    <3>2. \A f \in cur : f = e
      BY <2>5 DEF FetchEnds, OneAtATime
    <3>3. QED
      BY <2>1, <2>2, <2>3, <2>5, <3>1, <3>2 DEF FetchEnds
  <2>6. QED
    BY <1>4, <2>4, <2>5
<1>5. ASSUME NEW e \in Entries, FetchFails(e) PROVE Copied'
  BY <1>5 DEF FetchFails
<1>6. ASSUME NEW e \in Entries, Keep(e) \/ Verify(e) \/ Remove(e) PROVE Copied'
  BY <1>6 DEF Keep, Verify, Remove, Outside, Shared, Whole, SyncInv, TypeOK
<1>7. ASSUME NEW e \in Entries, Shoot(e) PROVE Copied'
  BY <1>7 DEF Shoot, run, Shared, Whole
<1>8. ASSUME NEW p \in Paths, Touch(p) PROVE Copied'
  <2>1. ASSUME NEW f \in Entries, Whole(f) PROVE Whole(f)' \/ f \in spoiled'
    <3>1. CASE Rel[f] = p
      BY <1>8, <2>1, <3>1 DEF Touch, Whole
    <3>2. CASE Rel[f] # p
      BY <1>8, <2>1, <3>2 DEF Touch, Whole, SyncInv, TypeOK, Paths
    <3>3. QED
      BY <3>1, <3>2
  <2>2. QED
    BY <1>8, <2>1 DEF Touch, run, Shared, SyncInv, TypeOK
<1>9. QED
  BY <1>1, <1>2, <1>3, <1>4, <1>5, <1>6, <1>7, <1>8 DEF Next, Sync

\* The delete pass leaves nothing out, and what it freed is not shot again.
LEMMA FreedStep ==
  ASSUME SyncInv, OneAtATime, Freed, Next
  PROVE  Freed'
<1> USE DEF Freed, Clean
<1>1. CASE Start \/ End \/ RefuseSource \/ RefuseDelete \/ List \/ CopyEnds
  BY <1>1 DEF Start, End, RefuseSource, RefuseDelete, List, CopyEnds, SyncInv, TypeOK
<1>2. CASE Guarded \/ DeleteEnds
  BY <1>2 DEF Guarded, DeleteEnds, Outside, world, Shared, Kept, OneAtATime
<1>3. ASSUME NEW e \in Entries, Visit(e) \/ FetchStarts(e) \/ FetchEnds(e) \/ FetchFails(e)
      PROVE  Freed'
  BY <1>3 DEF Visit, FetchStarts, FetchEnds, FetchFails
<1>4. ASSUME NEW e \in Entries, Keep(e) PROVE Freed'
  BY <1>4 DEF Keep, Outside, world, Shared, Kept, SyncInv, TypeOK
<1>5. ASSUME NEW e \in Entries, Verify(e) PROVE Freed'
  BY <1>5 DEF Verify, Outside, world, Shared, Kept, OneAtATime
<1>6. ASSUME NEW e \in Entries, Remove(e) PROVE Freed'
  <2>1. \A f \in cur : f = e
    BY <1>6 DEF Remove, OneAtATime
  <2>2. QED
    BY <1>6, <2>1 DEF Remove, Shared, Kept, SyncInv, TypeOK
<1>7. ASSUME NEW e \in Entries, Shoot(e) PROVE Freed'
  <2>1. e \notin listing
    BY <1>7 DEF Shoot, SyncInv, Listed
  <2>2. QED
    BY <1>7, <2>1 DEF Shoot, run, Shared, Kept
<1>8. ASSUME NEW p \in Paths, Touch(p) PROVE Freed'
  BY <1>8 DEF Touch, run, world, Shared, Kept
<1>9. QED
  BY <1>1, <1>2, <1>3, <1>4, <1>5, <1>6, <1>7, <1>8 DEF Next, Sync

\* A run that reports no failure has copied, and with delete freed, everything
\* it listed whose size is known, whose path is its own and whose copy nobody
\* touched -- although it was compared by size alone.
THEOREM CleanRunIsDone == Spec => []OkMeansDone
<1>1. SyncInv /\ WorkInv /\ [Next]_vars => WorkInv'
  <2> SUFFICES ASSUME SyncInv, WorkInv, [Next]_vars PROVE WorkInv'
    OBVIOUS
  <2>1. CASE Next
    BY <2>1, OneAtATimeStep, CopiedStep, FreedStep DEF WorkInv
  <2>2. CASE UNCHANGED vars
    BY <2>2 DEF vars, world, run, WorkInv, OneAtATime, Copied, Freed, Clean, Shared, Kept, Whole
  <2>3. QED
    BY <2>1, <2>2
<1>2. WorkInv => OkMeansDone
  BY DEF WorkInv, OneAtATime, Copied, Freed, Clean, OkMeansDone
<1>3. QED
  BY <1>1, <1>2, InitWork, SyncInvariant, PTL DEF Spec

=============================================================================
