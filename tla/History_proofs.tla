----------------------------- MODULE History_proofs -----------------------------
(***************************************************************************)
(* For any paths, contents, instants, windows and bounds: prune() thins    *)
(* only what it may, the types of History, every listed version readable,  *)
(* both sides of a save recorded, and the refinement of VersionLog.        *)
(***************************************************************************)
EXTENDS History, FiniteSetTheorems, TLAPS

(* What the command in hand has settled when it reaches a step.            *)
OpShape ==
  /\ op.step # "idle" => op.path \in Path
  /\ op.step = "existing" => op.then # "idle" /\ op.pre = None /\ op.kept
  /\ op.step \in {"existing", "store", "manifest", "gc", "read", "write"} =>
       op.text \in Content /\ op.cmd \in {"save", "restore"}
  /\ op.step \in {"store", "manifest", "gc"} => op.snap \in Content
  /\ op.step \in {"copy", "remove"} => op.to \in Path /\ op.to # op.path

Types ==
  /\ file \in [Path -> Content \cup {None}]
  /\ index \in [Path -> SUBSET Version]
  /\ blob \in [Path -> [Content -> BlobState]]
  /\ clock \in Instant
  /\ op \in Op
  /\ recorded \in Nat /\ misread \in BOOLEAN /\ maimed \subseteq Content
  /\ commands \in Nat /\ outside \in Nat /\ faults \in Nat /\ back \in Nat

TypeInv == Types /\ OpShape

(* What a power loss may leave is as old as the last sync, and as what no  *)
(* sync follows: where every directory was synced, the index is the one    *)
(* that is there, and a blob that is there may be missing only as a copy.  *)
Firm(p) == loose[p] \cap {"unsynced", "removed"} = {}

DiskInv ==
  /\ listings \in [Path -> SUBSET SUBSET Version]
  /\ remains \in [Path -> [Content -> SUBSET BlobState]]
  /\ loose \in [Path -> SUBSET Looseness]
  /\ syncs \in BOOLEAN
  /\ \A p \in Path : index[p] \in listings[p]
  /\ \A p \in Path : Firm(p) => listings[p] = {index[p]}
  /\ \A p \in Path, h \in Content :
       Firm(p) /\ blob[p][h] = "whole" /\ "absent" \in remains[p][h] =>
         "torn" \in remains[p][h]

(* A blob is cut short, or gone while it is listed, only for a content     *)
(* whose copy or removal was; the version to be listed next has its blob.  *)
BlobsKept ==
  /\ \A p \in Path, h \in Content : blob[p][h] = "torn" => h \in maimed
  /\ \A p \in Path : \A h \in Hashes(index[p]) :
       blob[p][h] # "absent" \/ h \in maimed
  /\ op.step = "manifest" => blob[op.path][op.snap] # "absent"

(* What is added to is what is listed, or an index could not be read; what *)
(* is about to be removed is listed under the new path.                    *)
IndexKept ==
  /\ op.step = "manifest" =>
       /\ op.loaded \subseteq index[op.path]
       /\ misread \/ op.loaded = index[op.path]
  /\ op.step = "remove" => misread \/ index[op.path] \subseteq index[op.to]

(* Versions are numbered and of the past, and an index has finitely many.  *)
Past(versions) ==
  /\ IsFiniteSet(versions)
  /\ \A v \in versions : v.no < recorded /\ (back = 0 => v.at <= clock)

Dated == \A p \in Path : \A versions \in listings[p] : Past(versions)

(* The bytes before the write are captured first, and remain the latest    *)
(* version until the bytes after it are.                                   *)
Captured ==
  /\ (op.step \in {"store", "manifest", "gc"} /\ op.then # "idle") =>
       op.snap = op.pre /\ op.kept
  /\ (op.step \in {"store", "manifest", "gc"} /\ op.then = "idle") =>
       op.snap = op.text
  /\ op.step \in {"read", "write"} => op.then = "idle"
  /\ (op.kept /\ op.pre # None
        /\ (op.step \in {"read", "write"} \/ (op.step = "gc" /\ op.then # "idle"))) =>
       op.pre \in Hashes(index[op.path])
  /\ (op.kept /\ op.pre # None /\ back = 0 /\ ~misread
        /\ (\/ op.step \in {"read", "write"} \/ (op.step = "gc" /\ op.then # "idle")
            \/ op.step \in {"store", "manifest"} /\ op.then = "idle")) =>
       IsLatest(op.pre, index[op.path])
  /\ (op.step = "gc" /\ op.then = "idle") => op.text \in Hashes(index[op.path])
  /\ (op.kept /\ op.pre # None /\ back = 0 /\ ~misread
        /\ op.step = "gc" /\ op.then = "idle") =>
       op.pre \in Hashes(index[op.path])

-----------------------------------------------------------------------------
(* Thinning.                                                               *)

(* A finite set of versions has a newest one and an oldest one: the one    *)
(* with the fewest versions after it, and the one with the fewest before.  *)
LEMMA NewestIs ==
  ASSUME NEW S, IsFiniteSet(S), S # {},
         \A v \in S : v.at \in Nat /\ v.no \in Nat
  PROVE  \E v \in S : Newest(v, S)
<1> DEFINE After(v) == {w \in S : Before(v, w)}
           T == {After(v) : v \in S}
<1>1. T \subseteq FiniteSubsetsOf(S) /\ T # {}
  <2>1. \A v \in S : After(v) \in SUBSET S /\ IsFiniteSet(After(v))
    BY FS_Subset
  <2>2. QED
    BY <2>1 DEF FiniteSubsetsOf
<1>2. PICK X \in T : \A Y \in T : ~(<<Y, X>> \in StrictSubsetOrdering(S))
  <2> HIDE DEF T
  <2>1. QED
    BY <1>1, FS_StrictSubsetOrderingWellFounded, WFMin
<1>3. PICK v \in S : X = After(v)
  OBVIOUS
<1>4. ASSUME NEW w \in S, Before(v, w) PROVE FALSE
  <2>1. After(w) \subseteq After(v) /\ w \in After(v) /\ w \notin After(w)
    BY <1>4 DEF Before
  <2>2. <<After(w), X>> \in StrictSubsetOrdering(S)
    BY <2>1, <1>3 DEF StrictSubsetOrdering
  <2>3. QED
    BY <2>2, <1>2
<1>5. QED
  BY <1>4 DEF Newest

(* The oldest of a bucket.                                                 *)
LEMMA OldestIs ==
  ASSUME NEW S, IsFiniteSet(S), S # {},
         \A v \in S : v.at \in Nat /\ v.no \in Nat
  PROVE  \E v \in S : Oldest(v, S)
<1> DEFINE Prior(v) == {w \in S : Before(w, v)}
           T == {Prior(v) : v \in S}
<1>1. T \subseteq FiniteSubsetsOf(S) /\ T # {}
  <2>1. \A v \in S : Prior(v) \in SUBSET S /\ IsFiniteSet(Prior(v))
    BY FS_Subset
  <2>2. QED
    BY <2>1 DEF FiniteSubsetsOf
<1>2. PICK X \in T : \A Y \in T : ~(<<Y, X>> \in StrictSubsetOrdering(S))
  <2> HIDE DEF T
  <2>1. QED
    BY <1>1, FS_StrictSubsetOrderingWellFounded, WFMin
<1>3. PICK v \in S : X = Prior(v)
  OBVIOUS
<1>4. ASSUME NEW w \in S, Before(w, v) PROVE FALSE
  <2>1. Prior(w) \subseteq Prior(v) /\ w \in Prior(v) /\ w \notin Prior(w)
    BY <1>4 DEF Before
  <2>2. <<Prior(w), X>> \in StrictSubsetOrdering(S)
    BY <2>1, <1>3 DEF StrictSubsetOrdering
  <2>3. QED
    BY <2>2, <1>2
<1>5. QED
  BY <1>4 DEF Oldest

(* prune() drops only what may go.                                         *)
LEMMA PruneIsLegal ==
  ASSUME NEW versions, IsFiniteSet(versions), NEW now \in Nat,
         \A v \in versions : v.at \in Nat /\ v.no \in Nat
  PROVE  LegalThinning(Prune(versions, now), versions, now)
<1> SUFFICES ASSUME NEW v \in versions, v \notin Prune(versions, now)
             PROVE  /\ Age(v, now) >= Day
                    /\ \E w \in Prune(versions, now) : Before(w, v)
                    /\ \E w \in Prune(versions, now) :
                         Before(v, w) /\ SameBucket(v, w, now)
  BY DEF LegalThinning, Prune
<1>1. ~Oldest(v, versions) /\ ~(Age(v, now) < Day)
      /\ ~NewestInBucket(v, versions, now)
  BY DEF Prune
<1>2. Age(v, now) >= Day
  BY <1>1, WindowAssumption DEF Age
<1>3. \E w \in Prune(versions, now) : Before(w, v)
  <2>1. PICK w \in versions : Oldest(w, versions)
    BY OldestIs
  <2>2. PICK u \in versions : Before(u, v)
    BY <1>1 DEF Oldest
  <2>3. Before(w, v)
    BY <2>1, <2>2 DEF Oldest, Before
  <2>4. QED
    BY <2>1, <2>3 DEF Prune
<1>4. \E w \in Prune(versions, now) : Before(v, w) /\ SameBucket(v, w, now)
  <2> DEFINE Bucket == {w \in versions : SameBucket(v, w, now)}
  <2>1. PICK u \in Bucket : Before(v, u)
    BY <1>1 DEF NewestInBucket, Newest
  <2>2. IsFiniteSet(Bucket)
    BY FS_Subset
  <2>3. PICK w \in Bucket : Newest(w, Bucket)
    <3> HIDE DEF Bucket
    <3>1. Bucket # {} /\ \A x \in Bucket : x.at \in Nat /\ x.no \in Nat
      BY <2>1 DEF Bucket
    <3>2. QED
      BY <2>2, <3>1, NewestIs
  <2>4. Before(v, w)
    BY <2>1, <2>3 DEF Newest, Before
  <2>5. Bucket = {x \in versions : SameBucket(w, x, now)}
    BY <2>3 DEF SameBucket
  <2>6. w \in Prune(versions, now)
    BY <2>3, <2>5 DEF Prune, NewestInBucket
  <2>7. QED
    BY <2>3, <2>4, <2>6
<1>5. QED
  BY <1>2, <1>3, <1>4

-----------------------------------------------------------------------------
(* Types.                                                                  *)

(* No command in hand.                                                     *)
LEMMA IdleType == Idle \in Op
  BY DEF Idle, Op, Steps

(* After a snapshot the command that asked for it goes on, or is over.     *)
LEMMA ResumeType ==
  ASSUME TypeInv, op.step \in {"existing", "store", "manifest", "gc"},
         NEW ok \in BOOLEAN
  PROVE  /\ Resume(op, ok) \in Op
         /\ Resume(op, ok) = Idle
            \/ /\ op.then \in {"read", "write"} /\ Resume(op, ok).step = op.then
               /\ Resume(op, ok).path = op.path /\ Resume(op, ok).text = op.text
               /\ Resume(op, ok).cmd = op.cmd /\ Resume(op, ok).pre = op.pre
               /\ Resume(op, ok).kept = ok
<1>1. op \in Op
  BY DEF TypeInv, Types
<1>2. CASE op.then = "idle"
  BY <1>2, IdleType DEF Resume
<1>3. CASE op.then # "idle"
  <2>1. Resume(op, ok) = [op EXCEPT !.step = op.then, !.loaded = {},
                            !.snap = None, !.then = "idle", !.kept = ok]
    BY <1>3 DEF Resume
  <2>2. QED
    BY <2>1, <1>1, <1>3 DEF Op, Steps
<1>4. QED
  BY <1>2, <1>3

(* What is left of the blobs of a note when some are removed.              *)
LEMMA RemoveType ==
  ASSUME TypeInv, NEW p \in Path, NEW gone, Remove(p, gone)
  PROVE  /\ blob' \in [Path -> [Content -> BlobState]]
         /\ \A q \in Path, h \in Content :
              blob'[q][h] = IF q = p /\ h \in gone THEN "absent" ELSE blob[q][h]
  BY DEF TypeInv, Types, Remove, BlobState

(* Each directory comes back as the disk has it, or not at all if it was   *)
(* created since; a note whose index is gone may be without its blobs.     *)
LEMMA LeftType ==
  ASSUME DiskInv, NEW left \in [Path -> UNION {MayRemain(p) : p \in Path}],
         \A p \in Path : left[p] \in MayRemain(p),
         NEW p \in Path
  PROVE  /\ left[p].index \in listings[p] \/ left[p].index = {}
         /\ left[p].index \subseteq Version
         /\ left[p].blobs \in [Content -> BlobState]
         /\ \/ \A h \in Content : left[p].blobs[h] \in remains[p][h]
            \/ {} \in listings[p]
            \/ left[p].index = {}
<1>1. CASE left[p] \in [index : listings[p],
             blobs : {b \in [Content -> BlobState] : \A h \in Content : b[h] \in remains[p][h]}
                       \cup (IF {} \in listings[p] THEN {Nowhere} ELSE {})]
  <2>1. left[p].index \in listings[p] /\ left[p].index \subseteq Version
    BY <1>1 DEF DiskInv
  <2>2. left[p].blobs \in
          {b \in [Content -> BlobState] : \A h \in Content : b[h] \in remains[p][h]}
            \cup (IF {} \in listings[p] THEN {Nowhere} ELSE {})
    BY <1>1
  <2>3. CASE left[p].blobs = Nowhere /\ {} \in listings[p]
    <3>1. left[p].blobs \in [Content -> BlobState]
      BY <2>3 DEF Nowhere, BlobState
    <3>2. QED
      BY <2>1, <2>3, <3>1
  <2>4. CASE left[p].blobs \in
          {b \in [Content -> BlobState] : \A h \in Content : b[h] \in remains[p][h]}
    <3>1. /\ left[p].blobs \in [Content -> BlobState]
          /\ \A h \in Content : left[p].blobs[h] \in remains[p][h]
      BY <2>4
    <3>2. QED
      BY <2>1, <3>1
  <2>5. QED
    BY <2>2, <2>3, <2>4
<1>2. CASE "created" \in loose[p] /\ left[p] = [index |-> {}, blobs |-> Nowhere]
  BY <1>2 DEF Nowhere, BlobState
<1>3. QED
  BY <1>1, <1>2 DEF MayRemain

(* What a power loss leaves, and what it damages.                          *)
LEMMA PowerLossIs ==
  ASSUME PowerLoss
  PROVE  \E left \in [Path -> UNION {MayRemain(p) : p \in Path}] :
           /\ \A p \in Path : left[p] \in MayRemain(p)
           /\ index' = [p \in Path |-> left[p].index]
           /\ blob' = [p \in Path |-> left[p].blobs]
           /\ maimed' = maimed \cup
                {h \in Content : \E p \in Path : Damaged(p, h, left[p])}
<1> DEFINE may == [p \in Path |-> MayRemain(p)]
<1>1. PICK left \in [Path -> UNION {may[p] : p \in Path}] :
        /\ \A p \in Path : left[p] \in may[p]
        /\ index' = [p \in Path |-> left[p].index]
        /\ blob' = [p \in Path |-> left[p].blobs]
        /\ maimed' = maimed \cup
             {h \in Content : \E p \in Path : Damaged(p, h, left[p])}
  BY DEF PowerLoss
<1>2. \A p \in Path : may[p] = MayRemain(p)
  OBVIOUS
<1> HIDE DEF may
<1>3. UNION {may[p] : p \in Path} = UNION {MayRemain(p) : p \in Path}
  BY <1>2
<1>4. QED
  BY <1>1, <1>2, <1>3

(* The types hold at first.                                                *)
LEMMA InitTypes == Init => TypeInv /\ DiskInv
<1> SUFFICES ASSUME Init PROVE TypeInv /\ DiskInv
  OBVIOUS
<1>1. op \in Op /\ OpShape
  BY IdleType DEF Init, OpShape, Idle
<1>2. index \in [Path -> SUBSET Version] /\ blob \in [Path -> [Content -> BlobState]]
  BY DEF Init, BlobState
<1>3. TypeInv
  BY <1>1, <1>2 DEF Init, TypeInv, Types
<1>4. DiskInv
  BY DEF Init, DiskInv, BlobState, Looseness
<1>5. QED
  BY <1>3, <1>4

(* Every step keeps the types.                                             *)
LEMMA NextTypes == TypeInv /\ DiskInv /\ [Next]_vars => TypeInv'
<1> SUFFICES ASSUME TypeInv, DiskInv, [Next]_vars PROVE TypeInv'
  OBVIOUS
<1> USE DEF disk, counters
<1>a. Types /\ OpShape /\ op \in Op
  BY DEF TypeInv, Types
<1>t. ASSUME Quiet, NoFault \/ Fault, op' \in Op /\ OpShape',
             file' \in [Path -> Content \cup {None}],
             index' \in [Path -> SUBSET Version],
             blob' \in [Path -> [Content -> BlobState]],
             recorded' \in Nat, misread' \in BOOLEAN, maimed' \subseteq Content
      PROVE  TypeInv'
  <2>1. clock' \in Instant /\ commands' \in Nat /\ outside' \in Nat
        /\ faults' \in Nat /\ back' \in Nat
    BY <1>t, <1>a DEF Quiet, NoFault, Fault, Types
  <2>2. QED
    BY <2>1, <1>t DEF TypeInv, Types
<1>i. ASSUME op' = Idle PROVE op' \in Op /\ OpShape'
  BY <1>i, IdleType DEF OpShape, Idle
<1>r. ASSUME op.step \in {"existing", "store", "manifest", "gc"},
             NEW ok \in BOOLEAN, op' = Resume(op, ok)
      PROVE  op' \in Op /\ OpShape'
  <2>1. CASE op' = Idle
    BY <2>1, <1>i
  <2>2. CASE op' # Idle
    <3>1. /\ op' \in Op /\ op'.step \in {"read", "write"}
          /\ op'.path = op.path /\ op'.text = op.text /\ op'.cmd = op.cmd
      BY <2>2, <1>r, ResumeType
    <3>2. QED
      BY <3>1, <1>r, <1>a DEF OpShape
  <2>3. QED
    BY <2>1, <2>2
<1>1. CASE UNCHANGED vars
  BY <1>1, <1>a DEF vars, TypeInv, Types, OpShape
<1>2. ASSUME NEW p \in Path, NEW c \in Content, SaveFile(p, c) PROVE TypeInv'
  <2>1. op' = [Idle EXCEPT !.step = "existing", !.cmd = "save", !.path = p,
                           !.text = c, !.then = "write"]
    BY <1>2 DEF SaveFile, Begin
  <2>2. op' \in Op /\ OpShape'
    BY <2>1, IdleType DEF Op, Idle, Steps, OpShape
  <2>3. QED
    BY <2>2, <1>2, <1>a DEF SaveFile, Begin, TypeInv, Types
<1>3. ASSUME NEW p \in Path, NEW c \in Content, RestoreSnapshot(p, c) PROVE TypeInv'
  <2>1. op' = [Idle EXCEPT !.step = "existing", !.cmd = "restore", !.path = p,
                           !.text = c, !.then = "read"]
    BY <1>3 DEF RestoreSnapshot, Begin
  <2>2. op' \in Op /\ OpShape'
    BY <2>1, IdleType DEF Op, Idle, Steps, OpShape
  <2>3. QED
    BY <2>2, <1>3, <1>a DEF RestoreSnapshot, Begin, TypeInv, Types
<1>4. ASSUME NEW p \in Path, NEW q \in Path, RenameEntry(p, q) PROVE TypeInv'
  <2>1. CASE HasHistory(p)
    <3>1. op' = [Idle EXCEPT !.step = "copy", !.cmd = "rename", !.path = p, !.to = q]
      BY <2>1, <1>4 DEF RenameEntry, Begin
    <3>2. op' \in Op
      BY <3>1, <1>4, IdleType DEF Op, Idle, Steps
    <3>4. OpShape'
      BY <3>1, <1>4 DEF Idle, OpShape, RenameEntry
    <3>3. QED
      BY <3>2, <3>4, <1>4, <1>a DEF RenameEntry, Begin, TypeInv, Types
  <2>2. CASE ~HasHistory(p)
    BY <2>2, <1>4, <1>a, <1>i DEF RenameEntry, Begin, TypeInv, Types
  <2>3. QED
    BY <2>1, <2>2
<1>5. CASE SnapshotExisting
  <2>1. op' \in Op /\ OpShape'
    <3>1. ASSUME NEW ok \in BOOLEAN, op' = Resume(op, ok) PROVE op' \in Op /\ OpShape'
      BY <3>1, <1>5, <1>r DEF SnapshotExisting
    <3>2. CASE file[op.path] # None
               /\ op' = [op EXCEPT !.step = "store", !.snap = file[op.path],
                                   !.pre = file[op.path]]
      BY <3>2, <1>5, <1>a, ZenonT(60) DEF SnapshotExisting, Types, Op, OpShape, Steps
    <3>3. QED
      BY <3>1, <3>2, <1>5 DEF SnapshotExisting
  <2>2. QED
    BY <2>1, <1>5, <1>a, <1>t DEF SnapshotExisting, Types
<1>6. CASE Skip \/ StoreFails \/ WriteManifestFails
  <2>1. op' \in Op /\ OpShape'
    BY <1>6, <1>r DEF Skip, StoreFails, WriteManifestFails
  <2>2. QED
    BY <2>1, <1>6, <1>a, <1>t DEF Skip, StoreFails, WriteManifestFails, Load, Types
<1>7. CASE StoreBlob
  <2>1. op.path \in Path /\ op.snap \in Content
    BY <1>7, <1>a DEF StoreBlob, OpShape
  <2>2. PICK versions \in {index[op.path], {}} :
          op' = [op EXCEPT !.step = "manifest", !.loaded = versions]
    BY <1>7 DEF StoreBlob
  <2>3. versions \subseteq Version
    BY <2>1, <1>a DEF Types
  <2>4. op' \in Op /\ OpShape'
    BY <2>2, <2>3, <1>7, <1>a DEF StoreBlob, Op, OpShape, Steps
  <2>5. blob' \in [Path -> [Content -> BlobState]]
    <3>1. blob' = blob \/ blob' = [blob EXCEPT ![op.path][op.snap] = "whole"]
      BY <1>7 DEF StoreBlob
    <3>2. blob \in [Path -> [Content -> BlobState]] /\ "whole" \in BlobState
      BY <1>a DEF Types, BlobState
    <3>3. [blob[op.path] EXCEPT ![op.snap] = "whole"] \in [Content -> BlobState]
      BY <2>1, <3>2
    <3>4. QED
      BY <2>1, <3>1, <3>2, <3>3
  <2>6. QED
    BY <2>4, <2>5, <1>7, <1>a, <1>t DEF StoreBlob, Load, Types
<1>8. CASE WriteManifest
  <2>1. op.path \in Path /\ op.snap \in Content /\ op.loaded \subseteq Version
    BY <1>8, <1>a DEF WriteManifest, OpShape, Op
  <2> DEFINE v == [hash |-> op.snap, at |-> clock, no |-> recorded]
             left == Prune(op.loaded \cup {v}, clock)
  <2>2. left \subseteq Version
    BY <2>1, <1>a DEF Prune, Types, Version
  <2>3. index' = [index EXCEPT ![op.path] = left] /\ recorded' = recorded + 1
    BY <1>8 DEF WriteManifest, PutIndex
  <2>4. index' \in [Path -> SUBSET Version] /\ recorded' \in Nat
    <3>1. \A X \in SUBSET Version :
            [index EXCEPT ![op.path] = X] \in [Path -> SUBSET Version]
      BY <1>a DEF Types
    <3>2. recorded' \in Nat
      BY <2>3, <1>a DEF Types
    <3> HIDE DEF left
    <3>3. QED
      BY <2>2, <2>3, <3>1, <3>2
  <2>5. op' \in Op /\ OpShape'
    BY <1>8, <1>a DEF WriteManifest, Op, OpShape, Steps
  <2>6. QED
    BY <2>4, <2>5, <1>8, <1>a, <1>t DEF WriteManifest, Types
<1>9. CASE CollectGarbage
  <2>1. op.path \in Path
    BY <1>9, <1>a DEF CollectGarbage, OpShape
  <2>2. op' \in Op /\ OpShape'
    BY <1>9, <1>r DEF CollectGarbage
  <2>3. \E gone : Remove(op.path, gone)
    BY <1>9 DEF CollectGarbage
  <2>4. blob' \in [Path -> [Content -> BlobState]]
    BY <2>1, <2>3, RemoveType
  <2>5. QED
    BY <2>2, <2>4, <1>9, <1>a, <1>t DEF CollectGarbage, Types
<1>10. CASE ReadSnapshot
  <2>1. op' \in Op /\ OpShape'
    BY <1>10, <1>a, <1>i DEF ReadSnapshot, Op, OpShape, Steps
  <2>2. QED
    BY <2>1, <1>10, <1>a, <1>t DEF ReadSnapshot, Types
<1>11. CASE AtomicWrite
  <2>1. op' \in Op /\ OpShape'
    BY <1>11, <1>a, <1>i DEF AtomicWrite, Op, OpShape, Steps
  <2>2. file' \in [Path -> Content \cup {None}]
    BY <1>11, <1>a DEF AtomicWrite, OpShape, Types
  <2>3. QED
    BY <2>1, <2>2, <1>11, <1>a, <1>t DEF AtomicWrite, Types
<1>12. CASE AtomicWriteFails \/ MergeFails
  BY <1>12, <1>a, <1>i, <1>t DEF AtomicWriteFails, MergeFails, Types
<1>13. ASSUME NEW h \in Content, CopyBlob(h) PROVE TypeInv'
  <2>1. op.to \in Path
    BY <1>13, <1>a DEF CopyBlob, OpShape
  <2>0. \E s \in {"whole", "torn"} : blob' = [blob EXCEPT ![op.to][h] = s]
    BY <1>13 DEF CopyBlob, Copied
  <2>2. blob' \in [Path -> [Content -> BlobState]]
    BY <2>0, <2>1, <1>a DEF Types, BlobState
  <2>3. op' \in Op /\ OpShape'
    BY <1>13, <1>a, <1>i DEF CopyBlob, OpShape
  <2>4. QED
    BY <2>2, <2>3, <1>13, <1>a, <1>t DEF CopyBlob, Types
<1>14. ASSUME NEW old, NEW new, op.step = "copy", Merge(old, new),
              old \subseteq Version, new \subseteq Version
       PROVE  op' \in Op /\ OpShape' /\ index' \in [Path -> SUBSET Version]
  BY <1>14, <1>a DEF Merge, PutIndex, Op, OpShape, Steps, Types
<1>15. CASE MergeManifests \/ MergeMisread
  <2>1. op.path \in Path /\ op.to \in Path
    BY <1>15, <1>a DEF MergeManifests, MergeMisread, OpShape
  <2>2. index[op.path] \subseteq Version /\ index[op.to] \subseteq Version
    BY <2>1, <1>a DEF Types
  <2>3. op.step = "copy"
    BY <1>15 DEF MergeManifests, MergeMisread
  <2>4. op' \in Op /\ OpShape' /\ index' \in [Path -> SUBSET Version]
    BY <2>2, <2>3, <1>14, <1>15 DEF MergeManifests, MergeMisread
  <2>5. maimed' \subseteq Content
    BY <1>15, <1>a DEF MergeManifests, MergeMisread, Missing, Blobs, Types
  <2>6. QED
    BY <2>4, <2>5, <1>15, <1>a, <1>t DEF MergeManifests, MergeMisread, Types
<1>16. CASE RemoveOld
  <2>1. op.path \in Path
    BY <1>16, <1>a DEF RemoveOld, OpShape
  <2>2. \E gone : Remove(op.path, gone)
    BY <1>16 DEF RemoveOld
  <2>3. blob' \in [Path -> [Content -> BlobState]]
    BY <2>1, <2>2, RemoveType
  <2>4. index' \in [Path -> SUBSET Version]
    BY <2>1, <1>16, <1>a DEF RemoveOld, Types
  <2>5. maimed' \subseteq Content
    BY <1>16, <1>a DEF RemoveOld, Blobs, Types
  <2>6. QED
    BY <2>3, <2>4, <2>5, <1>16, <1>a, <1>i, <1>t DEF RemoveOld, Types
<1>17. CASE Kill
  BY <1>17, <1>a, <1>i DEF Kill, Fault, TypeInv, Types
<1>18. CASE PowerLoss
  <2>1. PICK left \in [Path -> UNION {MayRemain(p) : p \in Path}] :
          /\ \A p \in Path : left[p] \in MayRemain(p)
          /\ index' = [p \in Path |-> left[p].index]
          /\ blob' = [p \in Path |-> left[p].blobs]
    BY <1>18, PowerLossIs
  <2>2. index' \in [Path -> SUBSET Version] /\ blob' \in [Path -> [Content -> BlobState]]
    BY <2>1, LeftType
  <2>3. maimed' \subseteq Content
    BY <1>18, <1>a DEF PowerLoss, Types
  <2>4. QED
    BY <2>2, <2>3, <1>18, <1>a, <1>i, <1>t DEF PowerLoss, Types
<1>22. CASE SyncsChange
  BY <1>22, <1>a DEF SyncsChange, Fault, TypeInv, Types, OpShape
<1>19. ASSUME NEW p \in Path, NEW c \in Content \cup {None}, Outside(p, c)
       PROVE  TypeInv'
  BY <1>19, <1>a DEF Outside, TypeInv, Types, OpShape
<1>20. ASSUME NEW t \in Instant, Tick(t) PROVE TypeInv'
  BY <1>20, <1>a DEF Tick, TypeInv, Types, OpShape
<1>21. QED
  BY <1>1, <1>2, <1>3, <1>4, <1>5, <1>6, <1>7, <1>8, <1>9, <1>10, <1>11,
     <1>12, <1>13, <1>15, <1>16, <1>17, <1>18, <1>19, <1>20, <1>22 DEF Next

-----------------------------------------------------------------------------
(* What a power loss may leave.                                            *)

(* Only these steps change what is on disk.                                *)
LEMMA DiskSteps ==
  ASSUME TypeInv, [Next]_vars
  PROVE  \/ UNCHANGED <<index, blob, listings, remains, loose, syncs>>
         \/ StoreBlob \/ WriteManifest \/ CollectGarbage \/ RemoveOld
         \/ MergeManifests \/ MergeMisread \/ PowerLoss \/ SyncsChange
         \/ \E h \in Content : CopyBlob(h)
  BY DEF Next, vars, disk, durable, Quiet, SaveFile, RestoreSnapshot, RenameEntry,
     Begin, SnapshotExisting, Skip, StoreFails, WriteManifestFails, ReadSnapshot,
     AtomicWrite, AtomicWriteFails, MergeFails, Kill, Outside, Tick

(* A write makes its directory no less loose, and not firm if it could not *)
(* be synced.                                                              *)
LEMMA LoosenIs ==
  ASSUME DiskInv, NEW p \in Path, Loosen(p)
  PROVE  /\ loose' \in [Path -> SUBSET Looseness]
         /\ \A q \in Path : Firm(q)' => Firm(q)
         /\ \A q \in Path : q = p /\ Firm(q)' => Lasting(q)
         /\ \A q \in Path : "created" \in loose'[q] => "created" \in loose[q] \/ index[q] = {}
  BY DEF DiskInv, Loosen, Create, HasHistory, Lasting, Firm, Looseness

(* A manifest that is written is what a power loss leaves, where its       *)
(* directory could be synced.                                              *)
LEMMA PutIndexIs ==
  ASSUME TypeInv, DiskInv, NEW p \in Path, NEW versions \in SUBSET Version,
         PutIndex(p, versions), UNCHANGED <<blob, remains, syncs>>
  PROVE  DiskInv'
<1>a. index \in [Path -> SUBSET Version]
  BY DEF TypeInv, Types
<1>1. /\ loose' \in [Path -> SUBSET Looseness]
      /\ \A q \in Path : Firm(q)' => Firm(q)
      /\ \A q \in Path : q = p /\ Firm(q)' => Lasting(q)
  BY LoosenIs DEF PutIndex
<1>2. /\ index'[p] = versions
      /\ listings'[p] = (IF Lasting(p) THEN {} ELSE listings[p]) \cup {versions}
      /\ \A q \in Path : q # p => index'[q] = index[q] /\ listings'[q] = listings[q]
  BY <1>a DEF PutIndex, DiskInv
<1>3. listings' \in [Path -> SUBSET SUBSET Version]
  BY DEF PutIndex, DiskInv
<1>4. QED
  BY <1>1, <1>2, <1>3 DEF DiskInv

(* Every step keeps what is on disk as old as the last sync at most.       *)
LEMMA NextDisk == TypeInv /\ DiskInv /\ [Next]_vars => DiskInv'
<1> SUFFICES ASSUME TypeInv, DiskInv, [Next]_vars PROVE DiskInv'
  OBVIOUS
<1>a. /\ OpShape /\ op \in Op /\ index \in [Path -> SUBSET Version]
      /\ blob \in [Path -> [Content -> BlobState]] /\ clock \in Instant
      /\ recorded \in Nat
  BY DEF TypeInv, Types
<1>1. CASE UNCHANGED <<index, blob, listings, remains, loose, syncs>>
  BY <1>1 DEF DiskInv, Firm
<1>2. CASE StoreBlob
  <2>1. op.path \in Path /\ op.snap \in Content /\ UNCHANGED <<index, listings, syncs>>
    BY <1>2, <1>a DEF StoreBlob, OpShape, Quiet
  <2>2. CASE UNCHANGED <<blob, remains, loose>>
    BY <2>1, <2>2 DEF DiskInv, Firm
  <2>3. CASE /\ blob' = [blob EXCEPT ![op.path][op.snap] = "whole"]
             /\ Loosen(op.path)
             /\ remains' = [remains EXCEPT ![op.path] =
                  IF Lasting(op.path)
                  THEN [Flushed(op.path) EXCEPT ![op.snap] = {"whole"}]
                  ELSE [remains[op.path] EXCEPT ![op.snap] = @ \cup {"whole"}]]
    <3>0. Loosen(op.path)
      BY <2>3
    <3>1. /\ loose' \in [Path -> SUBSET Looseness]
          /\ \A q \in Path : Firm(q)' => Firm(q)
          /\ \A q \in Path : q = op.path /\ Firm(q)' => Lasting(q)
      BY <2>1, <3>0, LoosenIs
    <3>2. Flushed(op.path) \in [Content -> SUBSET BlobState]
      BY <2>1, <1>a DEF Flushed, DiskInv
    <3> DEFINE row == IF Lasting(op.path)
                      THEN [Flushed(op.path) EXCEPT ![op.snap] = {"whole"}]
                      ELSE [remains[op.path] EXCEPT ![op.snap] = @ \cup {"whole"}]
    <3>6. row \in [Content -> SUBSET BlobState]
      BY <2>1, <3>2 DEF DiskInv, BlobState
    <3>7. remains' = [remains EXCEPT ![op.path] = row]
      <4>1. CASE Lasting(op.path)
        BY <2>3, <4>1
      <4>2. CASE ~Lasting(op.path)
        BY <2>3, <4>2
      <4>3. QED
        BY <4>1, <4>2
    <3>8. remains'[op.path] = row
          /\ \A p \in Path : p # op.path => remains'[p] = remains[p]
      <4> HIDE DEF row
      <4>1. QED
        BY <2>1, <3>7 DEF DiskInv
    <3>3. remains' \in [Path -> [Content -> SUBSET BlobState]]
      <4> HIDE DEF row
      <4>1. QED
        BY <3>6, <3>7 DEF DiskInv
    <3>4. ASSUME NEW p \in Path, NEW h \in Content, Firm(p)',
                 blob'[p][h] = "whole", "absent" \in remains'[p][h]
          PROVE  "torn" \in remains'[p][h]
      <4>1. CASE p = op.path
        <5>1. remains'[p] = [Flushed(p) EXCEPT ![op.snap] = {"whole"}]
          BY <3>1, <3>4, <3>8, <4>1
        <5>2. h # op.snap /\ remains'[p][h] = Flushed(p)[h]
          BY <2>1, <3>2, <3>4, <4>1, <5>1
        <5>3. blob[p][h] = "whole"
          BY <2>1, <2>3, <3>4, <4>1, <5>2, <1>a
        <5>4. QED
          BY <3>4, <5>2, <5>3 DEF Flushed
      <4>2. CASE p # op.path
        <5>1. blob'[p] = blob[p] /\ remains'[p] = remains[p]
          BY <2>1, <2>3, <3>8, <4>2, <1>a
        <5>2. QED
          BY <3>1, <3>4, <5>1 DEF DiskInv
      <4>3. QED
        BY <4>1, <4>2
    <3>5. QED
      BY <2>1, <3>1, <3>3, <3>4 DEF DiskInv
  <2>4. QED
    BY <2>2, <2>3, <1>2 DEF StoreBlob
<1>3. CASE WriteManifest
  <2> DEFINE v == [hash |-> op.snap, at |-> clock, no |-> recorded]
             left == Prune(op.loaded \cup {v}, clock)
  <2>1. op.path \in Path /\ op.snap \in Content /\ op.loaded \subseteq Version
        /\ UNCHANGED <<blob, remains, syncs>>
    BY <1>3, <1>a DEF WriteManifest, OpShape, Op, Quiet
  <2>2. left \subseteq Version
    BY <2>1, <1>a DEF Prune, Version
  <2>3. PutIndex(op.path, left)
    BY <1>3 DEF WriteManifest
  <2> HIDE DEF left
  <2>4. QED
    BY <2>1, <2>2, <2>3, PutIndexIs
<1>4. CASE MergeManifests \/ MergeMisread
  <2>1. op.path \in Path /\ op.to \in Path /\ UNCHANGED <<blob, syncs>>
    BY <1>4, <1>a DEF MergeManifests, MergeMisread, OpShape, Quiet
  <2>2. PICK old \in {index[op.path], {}}, new \in {index[op.to], {}} :
          PutIndex(op.to, old \cup new) /\ UNCHANGED remains
    BY <1>4 DEF MergeManifests, MergeMisread, Merge
  <2>3. old \cup new \in SUBSET Version
    BY <2>1, <1>a
  <2>4. QED
    BY <2>1, <2>2, <2>3, PutIndexIs
<1>5. ASSUME NEW p \in Path, NEW gone, Remove(p, gone)
      PROVE  /\ remains' \in [Path -> [Content -> SUBSET BlobState]]
             /\ \A q \in Path, h \in Content :
                  Firm(q) /\ blob'[q][h] = "whole" /\ "absent" \in remains'[q][h] =>
                    "torn" \in remains'[q][h]
  <2>1. remains' \in [Path -> [Content -> SUBSET BlobState]]
    BY <1>5 DEF Remove, DiskInv, BlobState
  <2>2. ASSUME NEW q \in Path, NEW h \in Content, blob'[q][h] = "whole"
        PROVE  blob[q][h] = "whole" /\ remains'[q][h] = remains[q][h]
    <3>1. ~(q = p /\ h \in gone) /\ blob[q][h] = "whole"
      BY <1>5, <2>2, RemoveType
    <3>2. QED
      BY <1>5, <3>1 DEF Remove, DiskInv
  <2>3. QED
    BY <2>1, <2>2 DEF DiskInv
<1>6. CASE CollectGarbage
  <2>1. op.path \in Path /\ UNCHANGED <<index, listings, loose, syncs>>
    BY <1>6, <1>a DEF CollectGarbage, OpShape, Quiet
  <2>2. \E gone : Remove(op.path, gone)
    BY <1>6 DEF CollectGarbage
  <2>3. \A q \in Path : Firm(q)' <=> Firm(q)
    BY <2>1 DEF Firm
  <2>4. QED
    BY <2>1, <2>2, <2>3, <1>5 DEF DiskInv
<1>7. CASE RemoveOld
  <2>1. op.path \in Path /\ UNCHANGED syncs
    BY <1>7, <1>a DEF RemoveOld, OpShape, Quiet
  <2>2. \E gone : Remove(op.path, gone)
    BY <1>7 DEF RemoveOld
  <2>3. PICK left \in {index[op.path], {}} : index' = [index EXCEPT ![op.path] = left]
    BY <1>7 DEF RemoveOld
  <2>4. /\ listings' = [listings EXCEPT ![op.path] = @ \cup {index'[op.path]}]
        /\ loose' = [loose EXCEPT ![op.path] = @ \cup {"removed"}]
    BY <1>7 DEF RemoveOld
  <2>5. left \subseteq Version /\ index'[op.path] = left
        /\ \A q \in Path : q # op.path => index'[q] = index[q]
    BY <2>1, <2>3, <1>a
  <2>6. /\ listings' \in [Path -> SUBSET SUBSET Version]
        /\ loose' \in [Path -> SUBSET Looseness]
    BY <2>1, <2>4, <2>5 DEF DiskInv, Looseness
  <2>0. /\ loose'[op.path] = loose[op.path] \cup {"removed"}
        /\ \A q \in Path : q # op.path => loose'[q] = loose[q] /\ listings'[q] = listings[q]
    BY <2>1, <2>4 DEF DiskInv
  <2>7. /\ \A q \in Path : Firm(q)' => q # op.path
        /\ \A q \in Path : q # op.path => (Firm(q)' <=> Firm(q)) /\ listings'[q] = listings[q]
    BY <2>0 DEF Firm
  <2>8. \A q \in Path : index'[q] \in listings'[q]
    BY <2>1, <2>4, <2>5 DEF DiskInv
  <2>9. \A q \in Path : Firm(q)' => Firm(q) /\ listings'[q] = {index'[q]}
    BY <2>5, <2>7 DEF DiskInv
  <2>10. /\ remains' \in [Path -> [Content -> SUBSET BlobState]]
         /\ \A q \in Path, h \in Content :
              Firm(q) /\ blob'[q][h] = "whole" /\ "absent" \in remains'[q][h] =>
                "torn" \in remains'[q][h]
    BY <2>1, <2>2, <1>5
  <2>11. QED
    BY <2>1, <2>6, <2>8, <2>9, <2>10 DEF DiskInv
<1>8. ASSUME NEW h \in Content, CopyBlob(h) PROVE DiskInv'
  <2>1. op.to \in Path /\ UNCHANGED <<index, listings, syncs>>
    BY <1>8, <1>a DEF CopyBlob, OpShape, Quiet
  <2>2. PICK state \in {"whole", "torn"} : Copied(h, state)
    BY <1>8 DEF CopyBlob
  <2>3. /\ remains' \in [Path -> [Content -> SUBSET BlobState]]
        /\ loose' \in [Path -> SUBSET Looseness]
        /\ \A q \in Path : Firm(q)' => Firm(q)
    BY <2>1, <2>2 DEF Copied, Create, DiskInv, BlobState, Looseness, Firm
  <2>4. ASSUME NEW p \in Path, NEW x \in Content
        PROVE  \/ "torn" \in remains'[p][x]
               \/ blob'[p][x] = blob[p][x] /\ remains'[p][x] = remains[p][x]
    BY <2>1, <2>2, <1>a DEF Copied, DiskInv
  <2>5. QED
    BY <2>1, <2>3, <2>4 DEF DiskInv
<1>9. CASE PowerLoss
  <2>1. /\ listings' = [p \in Path |-> {index'[p]}]
        /\ remains' = [p \in Path |-> [h \in Content |-> {blob'[p][h]}]]
        /\ loose' = [p \in Path |-> {}] /\ UNCHANGED syncs
    BY <1>9 DEF PowerLoss, Quiet
  <2>2. index' \in [Path -> SUBSET Version] /\ blob' \in [Path -> [Content -> BlobState]]
    BY NextTypes DEF TypeInv, Types
  <2>3. QED
    BY <2>1, <2>2 DEF DiskInv, Looseness
<1>10. CASE SyncsChange
  BY <1>10 DEF SyncsChange, disk, durable, DiskInv, Firm
<1>11. QED
  BY <1>1, <1>2, <1>3, <1>4, <1>6, <1>7, <1>8, <1>9, <1>10, DiskSteps

(* The types and what the command in hand may hold, and what the disk may, *)
(* through failing calls, kills and power losses.                          *)
THEOREM TypeInvariant == Spec => [](TypeInv /\ DiskInv)
  BY InitTypes, NextTypes, NextDisk, PTL DEF Spec

(* Every variable keeps to its type, whatever command is in hand.          *)
THEOREM TypeCorrect == Spec => []TypeOK
<1>1. TypeInv /\ DiskInv => TypeOK
  BY DEF TypeInv, Types, DiskInv, TypeOK
<1>2. QED
  BY <1>1, TypeInvariant, PTL

-----------------------------------------------------------------------------
(* Indexes and blobs.                                                      *)

(* How a command comes to add a version, or to remove an old directory.    *)
LEMMA Entering ==
  ASSUME TypeInv, [Next]_vars
  PROVE  \/ UNCHANGED <<op, index, misread, maimed>>
            /\ (op.step = "manifest" => UNCHANGED blob)
         \/ StoreBlob \/ MergeManifests \/ MergeMisread
         \/ op'.step \notin {"manifest", "remove"}
<1> USE DEF disk, counters
<1>a. op \in Op /\ op.step \in Steps
  BY DEF TypeInv, Types, Op
<1>1. CASE UNCHANGED vars
  BY <1>1 DEF vars
<1>2. CASE op' = Idle
  BY <1>2 DEF Idle
<1>3. ASSUME op.step \in {"existing", "store", "manifest", "gc"},
             NEW ok \in BOOLEAN, op' = Resume(op, ok)
      PROVE  op'.step \notin {"manifest", "remove"}
  BY <1>3, ResumeType DEF Idle
<1>4. ASSUME NEW p \in Path, NEW c \in Content, SaveFile(p, c) \/ RestoreSnapshot(p, c)
      PROVE  op'.step = "existing"
  BY <1>4 DEF SaveFile, RestoreSnapshot, Begin, Idle
<1>5. ASSUME NEW p \in Path, NEW q \in Path, RenameEntry(p, q)
      PROVE  op'.step \in {"idle", "copy"}
  BY <1>5 DEF RenameEntry, Begin, Idle
<1>6. CASE SnapshotExisting
  BY <1>3, <1>6, <1>a DEF SnapshotExisting, Op
<1>7. CASE Skip \/ StoreFails \/ WriteManifestFails \/ CollectGarbage
  BY <1>3, <1>7 DEF Skip, StoreFails, WriteManifestFails, CollectGarbage
<1>8. CASE WriteManifest \/ ReadSnapshot \/ AtomicWrite
  BY <1>2, <1>8, <1>a DEF WriteManifest, ReadSnapshot, AtomicWrite, Op
<1>9. ASSUME NEW h \in Content, CopyBlob(h)
      PROVE  \/ op' = Idle
             \/ UNCHANGED <<op, index, misread, maimed>> /\ op.step # "manifest"
  BY <1>9 DEF CopyBlob
<1>10. CASE (\E p \in Path, c \in Content \cup {None} : Outside(p, c))
            \/ \E t \in Instant : Tick(t)
  BY <1>10 DEF Outside, Tick
<1>11. CASE AtomicWriteFails \/ MergeFails \/ RemoveOld \/ Kill \/ PowerLoss
  BY <1>2, <1>11 DEF AtomicWriteFails, MergeFails, RemoveOld, Kill, PowerLoss
<1>12. CASE SyncsChange
  BY <1>12 DEF SyncsChange
<1>13. QED
  BY <1>12, <1>1, <1>2, <1>4, <1>5, <1>6, <1>7, <1>8, <1>9, <1>10, <1>11 DEF Next

(* Every step keeps what a command knows of the index.                     *)
LEMMA NextIndexKept ==
  TypeInv /\ IndexKept /\ [Next]_vars => IndexKept'
<1> SUFFICES ASSUME TypeInv, IndexKept, [Next]_vars PROVE IndexKept'
  OBVIOUS
<1>a. op \in Op /\ OpShape /\ index \in [Path -> SUBSET Version]
  BY DEF TypeInv, Types
<1>1. CASE UNCHANGED <<op, index, misread, maimed>>
  BY <1>1 DEF IndexKept
<1>2. CASE StoreBlob
  <2>1. PICK versions \in {index[op.path], {}} :
          /\ Load(op.path, versions)
          /\ op' = [op EXCEPT !.step = "manifest", !.loaded = versions]
    BY <1>2 DEF StoreBlob
  <2>2. index' = index /\ (versions = index[op.path] \/ misread')
    BY <2>1, <1>2 DEF StoreBlob, Load
  <2>3. op'.path = op.path /\ op'.loaded = versions /\ op'.step = "manifest"
    BY <2>1, <1>a DEF Op
  <2>4. QED
    BY <2>1, <2>2, <2>3 DEF IndexKept
<1>3. CASE MergeManifests \/ MergeMisread
  <2>1. PICK old, new :
          /\ PutIndex(op.to, old \cup new) /\ op' = [op EXCEPT !.step = "remove"]
          /\ misread' \/ (old = index[op.path] /\ new = index[op.to])
    BY <1>3 DEF MergeManifests, MergeMisread, Merge
  <2>2. op'.step = "remove" /\ op'.path = op.path /\ op'.to = op.to
    BY <2>1, <1>a DEF Op
  <2>3. op.path \in Path /\ op.to \in Path /\ op.path # op.to
    BY <1>3, <1>a DEF MergeManifests, MergeMisread, OpShape
  <2>4. misread' \/ index'[op.path] \subseteq index'[op.to]
    BY <2>1, <2>3, <1>a DEF PutIndex
  <2>5. QED
    BY <2>2, <2>4 DEF IndexKept
<1>4. CASE op'.step \notin {"manifest", "remove"}
  BY <1>4 DEF IndexKept
<1>5. QED
  BY <1>1, <1>2, <1>3, <1>4, Entering

(* What a step makes of the indexes: a version is added, a history merged  *)
(* with another or removed, or a power loss brings back what is on disk.   *)
LEMMA IndexSteps ==
  ASSUME TypeInv, [Next]_vars
  PROVE  \/ UNCHANGED <<index, listings>>
         \/ WriteManifest \/ MergeManifests \/ MergeMisread \/ RemoveOld \/ PowerLoss
  BY DEF Next, vars, disk, durable, SaveFile, RestoreSnapshot, RenameEntry, Begin,
     SnapshotExisting, Skip, StoreBlob, StoreFails, WriteManifestFails,
     CollectGarbage, ReadSnapshot, AtomicWrite, AtomicWriteFails, CopyBlob,
     MergeFails, Kill, SyncsChange, Outside, Tick

(* Only these steps change blobs.                                          *)
LEMMA BlobSteps ==
  ASSUME TypeInv, [Next]_vars
  PROVE  \/ UNCHANGED blob \/ StoreBlob \/ CollectGarbage \/ RemoveOld \/ PowerLoss
         \/ \E h \in Content : CopyBlob(h)
  BY DEF Next, vars, disk, SaveFile, RestoreSnapshot, RenameEntry, Begin,
     SnapshotExisting, Skip, StoreFails, WriteManifest, WriteManifestFails,
     ReadSnapshot, AtomicWrite, AtomicWriteFails, MergeManifests, MergeMisread,
     MergeFails, Kill, SyncsChange, Outside, Tick

(* A content once maimed stays so.                                         *)
LEMMA MaimedStays == [Next]_vars => maimed \subseteq maimed'
  BY DEF Next, vars, disk, SaveFile, RestoreSnapshot, RenameEntry, Begin,
     SnapshotExisting, Skip, StoreBlob, StoreFails, WriteManifest,
     WriteManifestFails, CollectGarbage, ReadSnapshot, AtomicWrite,
     AtomicWriteFails, CopyBlob, MergeManifests, MergeMisread, MergeFails,
     RemoveOld, Kill, PowerLoss, SyncsChange, Outside, Tick

(* What a blob that is removed leaves listed.                              *)
LEMMA ListedKept ==
  ASSUME TypeInv, BlobsKept, [Next]_vars, NEW p \in Path, NEW gone,
         Remove(p, gone),
         \A q \in Path : index'[q] \subseteq index[q],
         gone \cap Hashes(index'[p]) \subseteq maimed'
  PROVE  /\ \A q \in Path, h \in Content : blob'[q][h] = "torn" => h \in maimed'
         /\ \A q \in Path : \A h \in Hashes(index'[q]) :
              blob'[q][h] # "absent" \/ h \in maimed'
<1>1. /\ \A q \in Path, h \in Content :
           blob'[q][h] = IF q = p /\ h \in gone THEN "absent" ELSE blob[q][h]
      /\ maimed \subseteq maimed'
  BY RemoveType, MaimedStays
<1>2. \A q \in Path, h \in Content : blob'[q][h] = "torn" => h \in maimed'
  BY <1>1 DEF BlobsKept
<1>3. ASSUME NEW q \in Path, NEW h \in Hashes(index'[q])
      PROVE  blob'[q][h] # "absent" \/ h \in maimed'
  <2>1. h \in Hashes(index[q])
    BY <1>3 DEF Hashes
  <2>2. h \in Content
    BY <2>1 DEF TypeInv, Types, Hashes, Version
  <2>3. CASE q = p /\ h \in gone
    BY <2>3, <1>3
  <2>4. CASE ~(q = p /\ h \in gone)
    BY <2>1, <2>2, <2>4, <1>1 DEF BlobsKept
  <2>5. QED
    BY <2>3, <2>4
<1>4. QED
  BY <1>2, <1>3

(* Every step keeps what is listed readable.                               *)
LEMMA NextBlobsKept ==
  TypeInv /\ DiskInv /\ BlobsKept /\ IndexKept /\ [Next]_vars => BlobsKept'
<1> SUFFICES ASSUME TypeInv, DiskInv, BlobsKept, IndexKept, [Next]_vars PROVE BlobsKept'
  OBVIOUS
<1>a. /\ OpShape /\ op \in Op /\ index \in [Path -> SUBSET Version]
      /\ blob \in [Path -> [Content -> BlobState]]
  BY DEF TypeInv, Types
<1>m. maimed \subseteq maimed'
  BY MaimedStays
<1>h. \A p \in Path : Hashes(index[p]) \subseteq Content
  BY <1>a DEF Hashes, Version
<1>1. op'.step = "manifest" => blob'[op'.path][op'.snap] # "absent"
  <2>1. CASE op' = op /\ (op.step = "manifest" => UNCHANGED blob)
    BY <2>1 DEF BlobsKept
  <2>2. CASE StoreBlob
    <3>1. op'.path = op.path /\ op'.snap = op.snap
      BY <2>2, <1>a DEF StoreBlob, Op
    <3>2. op.path \in Path /\ op.snap \in Content
      BY <2>2, <1>a DEF StoreBlob, OpShape
    <3>3. QED
      BY <2>2, <3>1, <3>2, <1>a DEF StoreBlob
  <2>3. CASE MergeManifests \/ MergeMisread
    BY <2>3, <1>a DEF MergeManifests, MergeMisread, Merge, Op
  <2>4. QED
    BY <2>1, <2>2, <2>3, Entering
<1> DEFINE Whole == /\ \A p \in Path, h \in Content : blob'[p][h] = "torn" => h \in maimed'
                    /\ \A p \in Path : \A h \in Hashes(index'[p]) :
                         blob'[p][h] # "absent" \/ h \in maimed'
<1>2. CASE UNCHANGED <<index, blob>>
  BY <1>1, <1>2, <1>m DEF BlobsKept
<1>3. CASE StoreBlob
  <2>1. op.path \in Path /\ op.snap \in Content /\ UNCHANGED index
    BY <1>3, <1>a DEF StoreBlob, OpShape
  <2>2. \A p \in Path, h \in Content :
          blob'[p][h] = blob[p][h] \/ blob'[p][h] = "whole"
    BY <2>1, <1>3, <1>a DEF StoreBlob
  <2>3. Whole
    BY <2>1, <2>2, <1>h, <1>m DEF BlobsKept
  <2>4. QED
    BY <2>3, <1>1 DEF BlobsKept
<1>4. CASE CollectGarbage
  <2>1. PICK gone : gone \cap Hashes(index[op.path]) = {} /\ Remove(op.path, gone)
    BY <1>4 DEF CollectGarbage
  <2>2. op.path \in Path /\ UNCHANGED index
    BY <1>4, <1>a DEF CollectGarbage, OpShape
  <2>3. Whole
    BY <2>1, <2>2, ListedKept
  <2>4. QED
    BY <2>3, <1>1 DEF BlobsKept
<1>5. CASE RemoveOld
  <2>1. op.path \in Path
    BY <1>5, <1>a DEF RemoveOld, OpShape
  <2>2. PICK gone \in SUBSET Content, left \in {index[op.path], {}} :
          /\ Remove(op.path, gone)
          /\ index' = [index EXCEPT ![op.path] = left]
          /\ left = {} \/ gone \subseteq maimed'
    <3>1. CASE /\ Remove(op.path, Content)
               /\ index' = [index EXCEPT ![op.path] = {}]
      BY <3>1
    <3>2. CASE \E gone \in SUBSET Blobs(op.path) :
                 /\ Remove(op.path, gone)
                 /\ \E left \in {index[op.path], {}} :
                      /\ index' = [index EXCEPT ![op.path] = left]
                      /\ maimed' = IF left = {} THEN maimed ELSE maimed \cup gone
      <4>1. Blobs(op.path) \subseteq Content
        BY DEF Blobs
      <4>2. QED
        BY <3>2, <4>1
    <3>3. QED
      BY <3>1, <3>2, <1>5 DEF RemoveOld
  <2>3. /\ \A q \in Path : index'[q] \subseteq index[q]
        /\ gone \cap Hashes(index'[op.path]) \subseteq maimed'
    BY <2>1, <2>2, <1>a DEF Hashes
  <2>4. Whole
    BY <2>1, <2>2, <2>3, ListedKept
  <2>5. QED
    BY <2>4, <1>1 DEF BlobsKept
<1>6. CASE PowerLoss
  <2>1. PICK left \in [Path -> UNION {MayRemain(p) : p \in Path}] :
          /\ \A p \in Path : left[p] \in MayRemain(p)
          /\ index' = [p \in Path |-> left[p].index]
          /\ blob' = [p \in Path |-> left[p].blobs]
          /\ maimed' = maimed \cup
               {h \in Content : \E p \in Path : Damaged(p, h, left[p])}
    BY <1>6, PowerLossIs
  <2>2. ASSUME NEW p \in Path, NEW h \in Content, blob'[p][h] = "torn"
        PROVE  h \in maimed'
    <3>1. Damaged(p, h, left[p])
      BY <2>1, <2>2 DEF Damaged
    <3>2. QED
      BY <2>1, <3>1
  <2>3. ASSUME NEW p \in Path, NEW h \in Hashes(index'[p]), blob'[p][h] = "absent"
        PROVE  h \in maimed'
    <3> DEFINE was == left[p]
    <3>1. was.index = index'[p] /\ was.blobs = blob'[p]
      BY <2>1
    <3>2. /\ was.index \in listings[p] \/ was.index = {}
          /\ was.index \subseteq Version
          /\ \/ \A x \in Content : was.blobs[x] \in remains[p][x]
             \/ {} \in listings[p]
             \/ was.index = {}
      BY <2>1, LeftType
    <3>3. was.index # {}
      BY <2>3, <3>1 DEF Hashes
    <3>4. h \in Content
      BY <2>3, <3>1, <3>2 DEF Hashes, Version
    <3>5. CASE ~Firm(p)
      <4>1. Damaged(p, h, was)
        BY <2>3, <3>1, <3>5 DEF Damaged, Firm
      <4>2. QED
        BY <2>1, <3>4, <4>1
    <3>6. CASE Firm(p)
      <4>1. listings[p] = {index[p]} /\ was.index = index[p]
        BY <3>2, <3>3, <3>6 DEF DiskInv
      <4>2. "absent" \in remains[p][h]
        BY <2>3, <3>1, <3>2, <3>3, <3>4, <4>1
      <4>3. blob[p][h] # "absent" \/ h \in maimed
        BY <2>3, <3>1, <4>1 DEF BlobsKept
      <4>4. CASE blob[p][h] = "whole"
        <5>1. "torn" \in remains[p][h]
          BY <3>4, <3>6, <4>2, <4>4 DEF DiskInv
        <5>2. Damaged(p, h, was)
          BY <2>3, <3>1, <5>1 DEF Damaged
        <5>3. QED
          BY <2>1, <3>4, <5>2
      <4>5. CASE blob[p][h] = "torn"
        BY <4>5, <3>4, <1>m DEF BlobsKept
      <4>6. QED
        BY <4>3, <4>4, <4>5, <3>4, <1>a, <1>m DEF BlobState
    <3>7. QED
      BY <3>5, <3>6
  <2>4. Whole
    BY <2>2, <2>3
  <2>5. QED
    BY <2>4, <1>1 DEF BlobsKept
<1>7. ASSUME NEW h \in Content, CopyBlob(h) PROVE BlobsKept'
  <2>1. op.path \in Path /\ op.to \in Path /\ UNCHANGED index
    BY <1>7, <1>a DEF CopyBlob, OpShape
  <2>2. PICK s \in {"whole", "torn"} :
          /\ blob' = [blob EXCEPT ![op.to][h] = s]
          /\ s = "torn" => ~Readable(op.path, h) \/ h \in maimed'
    BY <1>7 DEF CopyBlob, Copied
  <2>3. blob[op.path][h] \in {"whole", "torn"}
    BY <2>1, <1>7, <1>a DEF CopyBlob, Missing, Blobs, BlobState
  <2>4. s = "torn" => h \in maimed'
    BY <2>1, <2>2, <2>3, <1>m DEF Readable, BlobsKept
  <2>5. \A p \in Path, x \in Content :
          blob'[p][x] = blob[p][x] \/ (blob'[p][x] = s /\ x = h)
    BY <2>1, <2>2, <1>a
  <2>6. Whole
    BY <2>1, <2>4, <2>5, <1>h, <1>m DEF BlobsKept
  <2>7. QED
    BY <2>6, <1>1 DEF BlobsKept
<1>8. CASE WriteManifest
  <2>1. op.path \in Path /\ op.snap \in Content /\ UNCHANGED <<blob, maimed>>
    BY <1>8, <1>a DEF WriteManifest, OpShape
  <2> DEFINE v == [hash |-> op.snap, at |-> clock, no |-> recorded]
             left == Prune(op.loaded \cup {v}, clock)
  <2>2. index' = [index EXCEPT ![op.path] = left]
    BY <1>8 DEF WriteManifest, PutIndex
  <2>3. \A w \in left : w \in index[op.path] \/ w.hash = op.snap
    BY <1>8 DEF Prune, IndexKept, WriteManifest
  <2>4. blob[op.path][op.snap] # "absent"
    BY <1>8 DEF WriteManifest, BlobsKept
  <2> HIDE DEF left
  <2>5. ASSUME NEW p \in Path, NEW h \in Hashes(index'[p])
        PROVE  h \in Hashes(index[p]) \/ (p = op.path /\ h = op.snap)
    BY <2>1, <2>2, <2>3, <2>5, <1>a DEF Hashes
  <2>6. Whole
    BY <2>1, <2>4, <2>5 DEF BlobsKept
  <2>7. QED
    BY <2>6, <1>1 DEF BlobsKept
<1>9. CASE MergeManifests \/ MergeMisread
  <2>1. op.path \in Path /\ op.to \in Path /\ UNCHANGED blob
    BY <1>9, <1>a DEF MergeManifests, MergeMisread, OpShape
  <2>2. PICK old \in {index[op.path], {}}, new \in {index[op.to], {}} :
          index' = [index EXCEPT ![op.to] = old \cup new]
    BY <1>9 DEF MergeManifests, MergeMisread, Merge, PutIndex
  <2>3. Missing \subseteq maimed'
    BY <1>9 DEF MergeManifests, MergeMisread
  <2>4. \A h \in Content :
          blob[op.path][h] # "absent" => blob[op.to][h] # "absent" \/ h \in maimed'
    BY <2>3 DEF Missing, Blobs
  <2>5. ASSUME NEW p \in Path, NEW h \in Hashes(index'[p])
        PROVE  h \in Hashes(index[p]) \/ (p = op.to /\ h \in Hashes(index[op.path]))
    BY <2>1, <2>2, <2>5, <1>a DEF Hashes
  <2>6. Whole
    BY <2>1, <2>4, <2>5, <1>h, <1>m DEF BlobsKept
  <2>7. QED
    BY <2>6, <1>1 DEF BlobsKept
<1>10. \/ UNCHANGED index \/ WriteManifest \/ MergeManifests \/ MergeMisread
       \/ RemoveOld \/ PowerLoss
  BY IndexSteps
<1>11. QED
  BY <1>2, <1>3, <1>4, <1>5, <1>6, <1>7, <1>8, <1>9, <1>10, BlobSteps

(* Whatever the history panel lists can be read back, whatever was thinned,*)
(* collected, killed, renamed onto a path with a history of its own, or    *)
(* brought back by a power loss: but for contents whose copy or removal was*)
(* cut short or not synced.                                                *)
THEOREM VersionsAreReadable == Spec => []ListedIsReadable
<1>1. Init => IndexKept /\ BlobsKept
  BY DEF Init, Idle, IndexKept, BlobsKept, Hashes
<1>2. TypeInv /\ BlobsKept => ListedIsReadable
  <2> SUFFICES ASSUME TypeInv, BlobsKept, NEW p \in Path, NEW h \in Hashes(index[p])
               PROVE  Readable(p, h) \/ h \in maimed
    BY DEF ListedIsReadable
  <2>1. h \in Content
    BY DEF TypeInv, Types, Hashes, Version
  <2>2. blob[p][h] \in BlobState
    BY <2>1 DEF TypeInv, Types
  <2>3. QED
    BY <2>1, <2>2 DEF BlobsKept, Readable, BlobState
<1>3. QED
  BY <1>1, <1>2, TypeInvariant, NextIndexKept, NextBlobsKept, PTL DEF Spec

-----------------------------------------------------------------------------
(* Thinning by age, carrying and removing: the log of versions.            *)

(* At first there is nothing to date.                                      *)
LEMMA InitDated == Init => Dated
<1>1. ASSUME Init PROVE \A p \in Path : listings[p] = {{}}
  BY <1>1 DEF Init
<1>2. Past({})
  BY FS_EmptySet DEF Past
<1>3. QED
  BY <1>1, <1>2 DEF Dated

(* Every step keeps versions dated.                                        *)
LEMMA NextDated == TypeInv /\ DiskInv /\ IndexKept /\ Dated /\ [Next]_vars => Dated'
<1> SUFFICES ASSUME TypeInv, DiskInv, IndexKept, Dated, [Next]_vars PROVE Dated'
  OBVIOUS
<1>a. /\ OpShape /\ index \in [Path -> SUBSET Version] /\ recorded \in Nat
      /\ clock \in Nat /\ clock' \in Instant /\ back \in Nat
  <2>1. clock' \in Instant
    BY NextTypes DEF TypeInv, Types
  <2>2. QED
    BY <2>1, InstantAssumption DEF TypeInv, Types
<1>b. ASSUME NEW versions, versions \subseteq Version, NEW v \in versions
      PROVE  v.at \in Nat /\ v.no \in Nat
  <2>1. v \in Version
    BY <1>b
  <2>2. QED
    BY <2>1, InstantAssumption DEF Version
<1>p. \A p \in Path : Past(index[p])
  BY DEF Dated, DiskInv
<1>1. \/ UNCHANGED <<recorded, clock, back>>
      \/ WriteManifest
      \/ \E t \in Instant : Tick(t)
  BY DEF Next, vars, disk, counters, Quiet, SaveFile, RestoreSnapshot,
     RenameEntry, Begin, SnapshotExisting, Skip, StoreBlob, StoreFails,
     WriteManifestFails, CollectGarbage, ReadSnapshot, AtomicWrite,
     AtomicWriteFails, CopyBlob, MergeManifests, MergeMisread, MergeFails,
     RemoveOld, Kill, PowerLoss, SyncsChange, Outside
<1>2. CASE WriteManifest
  <2> DEFINE v == [hash |-> op.snap, at |-> clock, no |-> recorded]
             left == Prune(op.loaded \cup {v}, clock)
  <2>1. /\ PutIndex(op.path, left) /\ recorded' = recorded + 1
        /\ UNCHANGED <<clock, back>> /\ op.path \in Path
    BY <1>2, <1>a DEF WriteManifest, Quiet, OpShape
  <2>2. op.loaded \subseteq index[op.path]
    BY <1>2 DEF WriteManifest, IndexKept
  <2>3. left \subseteq index[op.path] \cup {v}
    BY <2>2 DEF Prune
  <2>4. IsFiniteSet(left)
    <3>1. IsFiniteSet(index[op.path] \cup {v})
      BY <2>1, <1>p, FS_AddElement DEF Past
    <3>2. QED
      BY <2>3, <3>1, FS_Subset
  <2>5. v.at = clock /\ v.no = recorded
    OBVIOUS
  <2> HIDE DEF left, v
  <2>6. ASSUME NEW versions, versions \subseteq Version, Past(versions) PROVE Past(versions)'
    <3>1. ASSUME NEW w \in versions PROVE w.no < recorded'
      BY <2>1, <2>6, <3>1, <1>a, <1>b DEF Past
    <3>2. QED
      BY <2>1, <2>6, <3>1 DEF Past
  <2>7. ASSUME NEW versions, versions = left PROVE Past(versions)'
    <3>1. ASSUME NEW w \in left PROVE w.no < recorded' /\ (back = 0 => w.at <= clock)
      <4>1. CASE w \in index[op.path]
        BY <2>1, <4>1, <1>a, <1>b, <1>p DEF Past
      <4>2. CASE w = v
        BY <2>1, <2>5, <4>2, <1>a
      <4>3. QED
        BY <2>3, <3>1, <4>1, <4>2
    <3>2. QED
      BY <2>1, <2>4, <2>7, <3>1 DEF Past
  <2>8. \A p \in Path : \A versions \in listings'[p] :
          versions \in listings[p] \/ versions = left
    BY <2>1 DEF PutIndex, DiskInv
  <2>9. \A p \in Path : \A versions \in listings[p] : versions \subseteq Version
    BY DEF DiskInv
  <2>10. QED
    BY <2>6, <2>7, <2>8, <2>9 DEF Dated
<1>3. CASE \E t \in Instant : Tick(t)
  <2>1. UNCHANGED <<listings, recorded>>
        /\ ((clock' > clock /\ back' = back) \/ back' = back + 1)
    BY <1>3 DEF Tick, disk, durable
  <2>2. ASSUME NEW p \in Path, NEW versions \in listings[p] PROVE Past(versions)'
    <3>1. versions \subseteq Version /\ Past(versions)
      BY <2>2 DEF DiskInv, Dated
    <3>2. ASSUME NEW v \in versions, back' = 0 PROVE v.at <= clock'
      <4>1. v.at <= clock /\ clock' > clock
        BY <2>1, <3>1, <3>2, <1>a DEF Past
      <4>2. v.at \in Nat /\ clock' \in Nat
        BY <3>1, <1>a, <1>b, InstantAssumption
      <4>3. QED
        BY <4>1, <4>2, <1>a
    <3>3. QED
      BY <2>1, <3>1, <3>2 DEF Past
  <2>3. QED
    BY <2>1, <2>2 DEF Dated
<1>4. CASE UNCHANGED <<recorded, clock, back>>
  <2>0. SUFFICES \A p \in Path : \A versions \in listings'[p] : Past(versions)
    BY <1>4 DEF Dated, Past
  <2>1. CASE UNCHANGED listings
    BY <2>1 DEF Dated
  <2>2. CASE MergeManifests \/ MergeMisread
    <3>1. op.path \in Path /\ op.to \in Path
      BY <2>2, <1>a DEF MergeManifests, MergeMisread, OpShape
    <3>2. PICK old \in {index[op.path], {}}, new \in {index[op.to], {}} :
            PutIndex(op.to, old \cup new)
      BY <2>2 DEF MergeManifests, MergeMisread, Merge
    <3>3. Past(old) /\ Past(new)
      BY <3>1, <1>p, FS_EmptySet DEF Past
    <3>4. Past(old \cup new)
      BY <3>3, FS_Union DEF Past
    <3>5. \A p \in Path : \A versions \in listings'[p] :
            versions \in listings[p] \/ versions = old \cup new
      BY <3>1, <3>2 DEF PutIndex, DiskInv
    <3>6. QED
      BY <3>4, <3>5 DEF Dated
  <2>3. CASE RemoveOld
    <3>1. op.path \in Path /\ \E left \in {index[op.path], {}} :
            index' = [index EXCEPT ![op.path] = left]
      BY <2>3, <1>a DEF RemoveOld, OpShape
    <3>2. index'[op.path] \in {index[op.path], {}}
      BY <3>1, <1>a
    <3>3. Past(index'[op.path])
      BY <3>1, <3>2, <1>p, FS_EmptySet DEF Past
    <3>4. listings' = [listings EXCEPT ![op.path] = @ \cup {index'[op.path]}]
      BY <2>3 DEF RemoveOld
    <3>5. \A p \in Path : \A versions \in listings'[p] :
            versions \in listings[p] \/ versions = index'[op.path]
      BY <3>1, <3>4 DEF DiskInv
    <3>6. QED
      BY <3>3, <3>5 DEF Dated
  <2>4. CASE PowerLoss
    <3>1. PICK left \in [Path -> UNION {MayRemain(p) : p \in Path}] :
            /\ \A p \in Path : left[p] \in MayRemain(p)
            /\ index' = [p \in Path |-> left[p].index]
      BY <2>4, PowerLossIs
    <3>2. \A p \in Path : index'[p] \in listings[p] \cup {{}}
      BY <3>1, LeftType
    <3>3. \A p \in Path : Past(index'[p])
      BY <3>2, FS_EmptySet DEF Dated, Past
    <3>4. listings' = [p \in Path |-> {index'[p]}]
      BY <2>4 DEF PowerLoss
    <3>5. QED
      BY <3>3, <3>4
  <2>5. CASE WriteManifest
    BY <1>2, <1>4, <2>5, <1>a DEF WriteManifest
  <2>6. QED
    BY <2>1, <2>2, <2>3, <2>4, <2>5, IndexSteps
<1>5. QED
  BY <1>1, <1>2, <1>3, <1>4

(* That an index was misread is not forgotten.                             *)
LEMMA MisreadSteps ==
  ASSUME TypeInv, [Next]_vars
  PROVE  misread' = misread \/ misread' = TRUE
  BY DEF Next, vars, SaveFile, RestoreSnapshot, RenameEntry, Begin, Load,
     SnapshotExisting, Skip, StoreBlob, StoreFails, WriteManifest,
     WriteManifestFails, CollectGarbage, ReadSnapshot, AtomicWrite,
     AtomicWriteFails, CopyBlob, MergeManifests, MergeMisread, MergeFails,
     RemoveOld, Kill, PowerLoss, SyncsChange, Outside, Tick

(* What is forgotten is not on disk any more, and what is new may be there:*)
(* a power loss brings back the new log or one that it could bring back.   *)
LEMMA StepIsStored ==
  ASSUME TypeInv, DiskInv, [Next]_vars, ~PowerLoss
  PROVE  Abstract!Stored
<1>a. /\ OpShape /\ index \in [Path -> SUBSET Version]
      /\ listings \in [Path -> SUBSET SUBSET Version]
      /\ loose \in [Path -> SUBSET Looseness]
  BY DEF TypeInv, Types, DiskInv
<1>b. \A p \in Path : index'[p] \in listings'[p] /\ index[p] \in listings[p]
  BY NextDisk DEF DiskInv
<1>c. ASSUME \A p \in Path : listings'[p] \subseteq listings[p] \cup {index'[p]},
             \A p \in Path :
               "created" \in loose'[p] => "created" \in loose[p] \/ index[p] = {}
      PROVE  Abstract!Stored
  <2> SUFFICES ASSUME NEW p \in Path
               PROVE  /\ index'[p] \in OnDisk'[p]
                      /\ OnDisk'[p] \subseteq OnDisk[p] \cup {index'[p]}
    BY DEF Abstract!Stored
  <2>1. /\ OnDisk[p] = listings[p] \cup (IF "created" \in loose[p] THEN {{}} ELSE {})
        /\ OnDisk'[p] = listings'[p] \cup (IF "created" \in loose'[p] THEN {{}} ELSE {})
    BY DEF OnDisk
  <2>2. CASE "created" \in loose'[p] /\ "created" \notin loose[p]
    <3>1. {} \in listings[p]
      BY <1>b, <1>c, <2>2
    <3>2. QED
      BY <1>b, <1>c, <2>1, <3>1
  <2>3. CASE "created" \in loose'[p] => "created" \in loose[p]
    BY <1>b, <1>c, <2>1, <2>3
  <2>4. QED
    BY <2>2, <2>3
<1>1. CASE UNCHANGED <<index, blob, listings, remains, loose, syncs>>
  BY <1>1, <1>c
<1>2. ASSUME NEW p \in Path, NEW versions, PutIndex(p, versions) PROVE Abstract!Stored
  <2>1. \A q \in Path : "created" \in loose'[q] => "created" \in loose[q] \/ index[q] = {}
    BY <1>2, LoosenIs DEF PutIndex
  <2>2. \A q \in Path : listings'[q] \subseteq listings[q] \cup {index'[q]}
    BY <1>2, <1>a DEF PutIndex
  <2>3. QED
    BY <2>1, <2>2, <1>c
<1>3. CASE StoreBlob
  <2>1. op.path \in Path /\ UNCHANGED <<index, listings>>
    BY <1>3, <1>a DEF StoreBlob, OpShape
  <2>2. UNCHANGED loose \/ Loosen(op.path)
    BY <1>3 DEF StoreBlob
  <2>3. \A q \in Path : "created" \in loose'[q] => "created" \in loose[q] \/ index[q] = {}
    BY <2>1, <2>2, LoosenIs
  <2>4. QED
    BY <2>1, <2>3, <1>c
<1>4. CASE WriteManifest
  <2>1. op.path \in Path
    BY <1>4, <1>a DEF WriteManifest, OpShape
  <2>2. \E versions : PutIndex(op.path, versions)
    BY <1>4 DEF WriteManifest
  <2>3. QED
    BY <2>1, <2>2, <1>2
<1>5. CASE MergeManifests \/ MergeMisread
  <2>1. op.to \in Path
    BY <1>5, <1>a DEF MergeManifests, MergeMisread, OpShape
  <2>2. \E versions : PutIndex(op.to, versions)
    BY <1>5 DEF MergeManifests, MergeMisread, Merge
  <2>3. QED
    BY <2>1, <2>2, <1>2
<1>6. CASE CollectGarbage \/ SyncsChange
  <2>1. UNCHANGED <<index, listings, loose>>
    BY <1>6 DEF CollectGarbage, SyncsChange, disk, durable
  <2>2. QED
    BY <2>1, <1>c
<1>7. CASE RemoveOld
  <2>1. op.path \in Path
        /\ listings' = [listings EXCEPT ![op.path] = @ \cup {index'[op.path]}]
        /\ loose' = [loose EXCEPT ![op.path] = @ \cup {"removed"}]
    BY <1>7, <1>a DEF RemoveOld, OpShape
  <2>2. \A p \in Path : listings'[p] \subseteq listings[p] \cup {index'[p]}
    BY <2>1, <1>a
  <2>3. \A p \in Path : "created" \in loose'[p] => "created" \in loose[p]
    BY <2>1, <1>a
  <2>4. QED
    BY <2>2, <2>3, <1>c
<1>8. ASSUME NEW h \in Content, CopyBlob(h) PROVE Abstract!Stored
  <2>1. op.to \in Path /\ UNCHANGED <<index, listings>>
        /\ loose' = [loose EXCEPT ![op.to] = @ \cup Create(op.to)]
    BY <1>8, <1>a DEF CopyBlob, Copied, OpShape
  <2>2. \A p \in Path : "created" \in loose'[p] => "created" \in loose[p] \/ index[p] = {}
    BY <2>1, <1>a DEF Create, HasHistory
  <2>3. QED
    BY <2>1, <2>2, <1>c
<1>9. QED
  BY <1>1, <1>3, <1>4, <1>5, <1>6, <1>7, <1>8, DiskSteps

(* A power loss brings back for each note a log that the disk may have.    *)
LEMMA PowerLossIsLogs ==
  ASSUME DiskInv, PowerLoss PROVE Abstract!PowerLoss
<1>1. PICK left \in [Path -> UNION {MayRemain(p) : p \in Path}] :
        /\ \A p \in Path : left[p] \in MayRemain(p)
        /\ index' = [p \in Path |-> left[p].index]
  BY PowerLossIs
<1>2. listings' = [p \in Path |-> {index'[p]}] /\ loose' = [p \in Path |-> {}]
  BY DEF PowerLoss
<1>3. ASSUME NEW p \in Path PROVE index'[p] \in OnDisk[p]
  <2>1. left[p] \in MayRemain(p) /\ index'[p] = left[p].index
    BY <1>1
  <2>2. CASE "created" \in loose[p] /\ left[p].index = {}
    BY <2>1, <2>2 DEF OnDisk
  <2>3. CASE left[p].index \in listings[p]
    BY <2>1, <2>3 DEF OnDisk
  <2>4. QED
    BY <2>1, <2>2, <2>3 DEF MayRemain
<1>4. \A p \in Path : OnDisk'[p] = {index'[p]}
  BY <1>2 DEF OnDisk
<1>5. QED
  BY <1>3, <1>4 DEF Abstract!PowerLoss

(* Every step adds one version and thins the rest, carries a history along,*)
(* removes one that was carried, brings back what is on disk, or leaves the*)
(* log alone.                                                              *)
LEMMA StepImplementsLog ==
  TypeInv /\ DiskInv /\ IndexKept /\ Dated /\ [Next]_vars
    => [Abstract!Next]_<<index, OnDisk, clock, misread>>
<1> SUFFICES ASSUME TypeInv, DiskInv, IndexKept, Dated, [Next]_vars, ~misread'
             PROVE  Abstract!Next
  BY MisreadSteps DEF Abstract!Next, Abstract!Misread
<1>a. OpShape /\ index \in [Path -> SUBSET Version] /\ misread \in BOOLEAN
      /\ clock \in Nat /\ recorded \in Nat
  BY InstantAssumption DEF TypeInv, Types
<1>m. misread' = misread /\ ~misread
  <2>1. misread' = misread \/ misread' = TRUE
    BY MisreadSteps
  <2>2. misread' = misread
    BY <2>1
  <2>3. QED
    BY <2>2
<1>0. CASE PowerLoss
  BY <1>0, <1>m, PowerLossIsLogs DEF Abstract!Next
<1>s. CASE ~PowerLoss
  <2>1. Abstract!Stored
    BY <1>s, StepIsStored
  <2>2. CASE UNCHANGED index
    BY <2>1, <2>2, <1>m DEF Abstract!Next, Abstract!Tick
  <2>3. CASE WriteManifest
    <3> DEFINE v == [hash |-> op.snap, at |-> clock, no |-> recorded]
               all == index[op.path] \cup {v}
               left == Prune(all, clock)
    <3>1. op.path \in Path /\ op.loaded = index[op.path]
      BY <2>3, <1>a, <1>m DEF WriteManifest, OpShape, IndexKept
    <3>2. index' = [index EXCEPT ![op.path] = left]
      BY <3>1, <2>3 DEF WriteManifest, PutIndex
    <3>3. IsFiniteSet(all)
      <4>1. IsFiniteSet(index[op.path])
        BY <3>1 DEF Dated, Past, DiskInv
      <4>2. QED
        BY <4>1, FS_AddElement
    <3>4. \A w \in all : w.at \in Nat /\ w.no \in Nat
      <4>1. ASSUME NEW w \in index[op.path] PROVE w.at \in Nat /\ w.no \in Nat
        <5>1. w \in Version
          BY <3>1, <1>a
        <5>2. QED
          BY <5>1, InstantAssumption DEF Version
      <4>2. v.at \in Nat /\ v.no \in Nat
        BY <1>a
      <4>3. QED
        BY <4>1, <4>2
    <3>5. left \subseteq all
      BY DEF Prune
    <3>6. LegalThinning(left, all, clock)
      <4> HIDE DEF all
      <4>1. QED
        BY <3>3, <3>4, <1>a, PruneIsLegal
    <3> HIDE DEF left
    <3>7. index'[op.path] = left
      BY <3>1, <3>2, <1>a
    <3>8. LegalThinning(left, index[op.path] \cup left, clock)
      BY <3>5, <3>6 DEF LegalThinning
    <3>9. \A x, y \in left \ index[op.path] : x = y
      BY <3>5
    <3>10. Abstract!LegalThinning(left, index[op.path] \cup left, clock)
      BY <3>8 DEF Abstract!LegalThinning, LegalThinning, Abstract!Age, Age,
         Abstract!Before, Before, Abstract!SameBucket, SameBucket,
         Abstract!BucketKey, BucketKey
    <3>11. Abstract!Record(op.path)
      BY <3>2, <3>7, <3>9, <3>10 DEF Abstract!Record
    <3>12. QED
      BY <2>1, <3>1, <3>11, <1>m DEF Abstract!Next
  <2>4. CASE MergeManifests \/ MergeMisread
    <3>1. op.path \in Path /\ op.to \in Path
      BY <2>4, <1>a DEF MergeManifests, MergeMisread, OpShape
    <3>2. MergeManifests
      BY <2>4 DEF MergeMisread
    <3>3. Abstract!Carry(op.path, op.to)
      BY <3>2 DEF MergeManifests, Merge, PutIndex, Abstract!Carry
    <3>4. QED
      BY <2>1, <3>1, <3>3, <1>m DEF Abstract!Next
  <2>5. CASE RemoveOld
    <3>1. op.path \in Path /\ op.to \in Path /\ op.path # op.to
          /\ index[op.path] \subseteq index[op.to]
      BY <2>5, <1>a, <1>m DEF RemoveOld, OpShape, IndexKept
    <3>2. index' = [index EXCEPT ![op.path] = {}] \/ index' = [index EXCEPT ![op.path] = index[op.path]]
      BY <2>5 DEF RemoveOld
    <3>3. CASE index' = [index EXCEPT ![op.path] = {}]
      BY <2>1, <3>1, <3>3, <1>m DEF Abstract!Next, Abstract!Release
    <3>4. CASE index' = [index EXCEPT ![op.path] = index[op.path]]
      <4>1. index' = index
        BY <3>1, <3>4, <1>a
      <4>2. QED
        BY <4>1, <2>2
    <3>5. QED
      BY <3>2, <3>3, <3>4
  <2>6. QED
    BY <1>s, <2>2, <2>3, <2>4, <2>5, IndexSteps
<1>1. QED
  BY <1>0, <1>s

(* No version disappears but by thinning, neither through a rename nor     *)
(* through a crash within one, as long as no index could not be read; a    *)
(* power loss brings back logs that were not synced over.                  *)
THEOREM HistoryImplementsVersionLog == Spec => VersionsSurvive
<1>1. Init => IndexKept /\ Dated
  BY InitDated DEF Init, Idle, IndexKept
<1>2. Init => Abstract!Init
  BY DEF Init, Abstract!Init, OnDisk
<1>3. QED
  BY <1>1, <1>2, TypeInvariant, NextIndexKept, NextDated, StepImplementsLog, PTL
     DEF Spec, VersionsSurvive, Abstract!Spec

-----------------------------------------------------------------------------
(* Both sides of a save.                                                   *)

(* What is dated now stays.                                                *)
LEMMA FreshIsKept ==
  ASSUME NEW versions, NEW now \in Nat, NEW v \in versions, v.at = now
  PROVE  v \in Prune(versions, now) /\ Age(v, now) = 0
  BY WindowAssumption DEF Prune, Age

(* The latest version stays when one is added that is dated now.           *)
LEMMA LatestIsKept ==
  ASSUME NEW S, NEW now \in Nat, NEW u \in S, Newest(u, S), u.at \in Nat,
         NEW v, v.at = now
  PROVE  u \in Prune(S \cup {v}, now)
<1>1. CASE Age(u, now) < Day
  BY <1>1 DEF Prune
<1>2. CASE ~(Age(u, now) < Day)
  <2>1. Age(v, now) = 0 /\ 0 < Day
    BY WindowAssumption DEF Age
  <2>2. BucketKey(Age(v, now)) = <<0, 0>>
    BY <2>1 DEF BucketKey
  <2>3. BucketKey(Age(u, now))[1] # 0
    BY <1>2 DEF BucketKey
  <2>4. ~SameBucket(u, v, now)
    BY <2>2, <2>3 DEF SameBucket
  <2>5. NewestInBucket(u, S \cup {v}, now)
    BY <2>4 DEF NewestInBucket, Newest
  <2>6. QED
    BY <2>5 DEF Prune
<1>3. QED
  BY <1>1, <1>2

(* Nothing is claimed of a command that has not captured anything yet.     *)
LEMMA NothingCaptured ==
  ASSUME op'.step \in {"idle", "existing", "copy", "remove"}
  PROVE  Captured'
  BY DEF Captured

(* Every step keeps both sides of a save captured.                         *)
LEMMA NextCaptured ==
  TypeInv /\ DiskInv /\ IndexKept /\ Dated /\ Captured /\ [Next]_vars => Captured'
<1> SUFFICES ASSUME TypeInv, DiskInv, IndexKept, Dated, Captured, [Next]_vars PROVE Captured'
  OBVIOUS
<1> USE DEF disk, counters
<1>a. /\ OpShape /\ op \in Op /\ index \in [Path -> SUBSET Version]
      /\ clock \in Nat /\ recorded \in Nat /\ back \in Nat /\ misread \in BOOLEAN
  BY InstantAssumption DEF TypeInv, Types
<1>m. misread => misread'
  BY MisreadSteps
<1>1. CASE UNCHANGED vars
  BY <1>1 DEF vars, Captured, IsLatest, Newest
<1>2. CASE op' = Idle
  BY <1>2, NothingCaptured DEF Idle
<1>3. ASSUME NEW p \in Path, NEW c \in Content, SaveFile(p, c) \/ RestoreSnapshot(p, c)
      PROVE  Captured'
  <2>1. op'.step = "existing"
    BY <1>3 DEF SaveFile, RestoreSnapshot, Begin, Idle
  <2>2. QED
    BY <2>1, NothingCaptured
<1>4. ASSUME NEW p \in Path, NEW q \in Path, RenameEntry(p, q) PROVE Captured'
  <2>1. op'.step \in {"idle", "copy"}
    BY <1>4 DEF RenameEntry, Begin, Idle
  <2>2. QED
    BY <2>1, NothingCaptured
<1>5. CASE SnapshotExisting
  <2>1. op.step = "existing" /\ op.then # "idle" /\ op.pre = None
    BY <1>5, <1>a DEF SnapshotExisting, OpShape
  <2>2. ASSUME NEW ok \in BOOLEAN, op' = Resume(op, ok) PROVE Captured'
    <3>1. op' = [op EXCEPT !.step = op.then, !.loaded = {}, !.snap = None,
                           !.then = "idle", !.kept = ok]
      BY <2>1, <2>2 DEF Resume
    <3>2. op'.pre = None /\ op'.then = "idle" /\ op'.step \in {"read", "write"}
      BY <2>1, <3>1, <1>a DEF Op
    <3>3. QED
      BY <3>2 DEF Captured
  <2>3. ASSUME NEW c \in Content \cup {None},
               op' = [op EXCEPT !.step = "store", !.snap = c, !.pre = c]
        PROVE  Captured'
    <3>1. op'.step = "store" /\ op'.snap = op'.pre /\ op'.then # "idle" /\ op'.kept
      BY <2>1, <2>3, <1>5, <1>a DEF SnapshotExisting, OpShape, Op
    <3>2. QED
      BY <3>1 DEF Captured
  <2>4. file[op.path] \in Content \cup {None}
    BY <1>5, <1>a DEF SnapshotExisting, OpShape, TypeInv, Types
  <2>5. op' = Resume(op, TRUE) \/ op' = Resume(op, FALSE)
        \/ op' = [op EXCEPT !.step = "store", !.snap = file[op.path],
                            !.pre = file[op.path]]
    BY <1>5 DEF SnapshotExisting
  <2>6. QED
    BY <2>2, <2>3, <2>4, <2>5
<1>6. ASSUME op.step \in {"store", "manifest"}, op' = Resume(op, FALSE) PROVE Captured'
  <2>1. CASE op.then = "idle"
    BY <2>1, <1>2, <1>6 DEF Resume
  <2>2. CASE op.then # "idle"
    <3>1. op' = [op EXCEPT !.step = op.then, !.loaded = {}, !.snap = None,
                           !.then = "idle", !.kept = FALSE]
      BY <1>6, <2>2 DEF Resume
    <3>2. ~op'.kept /\ op'.then = "idle" /\ op'.step \in {"read", "write"}
      BY <2>2, <3>1, <1>a DEF Op
    <3>3. QED
      BY <3>2 DEF Captured
  <2>3. QED
    BY <2>1, <2>2
<1>7. ASSUME op.step \in {"store", "gc"}, op' = Resume(op, TRUE),
             UNCHANGED <<index, back>>,
             op.then # "idle" =>
               /\ op.pre \in Hashes(index[op.path])
               /\ back = 0 /\ ~misread' => IsLatest(op.pre, index[op.path])
      PROVE  Captured'
  <2>1. CASE op.then = "idle"
    BY <2>1, <1>2, <1>7 DEF Resume
  <2>2. CASE op.then # "idle"
    <3>1. op' = [op EXCEPT !.step = op.then, !.loaded = {}, !.snap = None,
                           !.then = "idle", !.kept = TRUE]
      BY <1>7, <2>2 DEF Resume
    <3>2. /\ op'.pre = op.pre /\ op'.path = op.path /\ op'.then = "idle"
          /\ op'.step \in {"read", "write"}
      BY <2>2, <3>1, <1>a DEF Op
    <3>3. Hashes(index'[op'.path]) = Hashes(index[op.path])
          /\ (IsLatest(op.pre, index[op.path]) => IsLatest(op'.pre, index'[op'.path]))
      BY <3>2, <1>7
    <3>4. QED
      BY <2>2, <3>2, <3>3, <1>7 DEF Captured
  <2>3. QED
    BY <2>1, <2>2
<1>8. CASE Skip
  <2>1. op.step = "store" /\ op' = Resume(op, TRUE) /\ UNCHANGED <<index, back>>
        /\ IsLatest(op.snap, index[op.path])
    BY <1>8 DEF Skip, Quiet, IsLatest
  <2>2. op.snap \in Hashes(index[op.path])
    BY <2>1 DEF IsLatest, Hashes
  <2>3. op.then # "idle" => op.snap = op.pre
    BY <2>1 DEF Captured
  <2>4. QED
    BY <2>1, <2>2, <2>3, <1>7
<1>9. CASE StoreBlob
  <2>1. PICK versions : op' = [op EXCEPT !.step = "manifest", !.loaded = versions]
    BY <1>9 DEF StoreBlob
  <2>2. /\ op'.step = "manifest" /\ op'.then = op.then /\ op'.snap = op.snap
        /\ op'.pre = op.pre /\ op'.text = op.text /\ op'.path = op.path
        /\ op'.kept = op.kept
    BY <2>1, <1>a DEF Op
  <2>3. op.step = "store" /\ UNCHANGED <<index, back>>
    BY <1>9 DEF StoreBlob, Quiet
  <2>4. IsLatest(op.pre, index[op.path]) => IsLatest(op'.pre, index'[op'.path])
    BY <2>2, <2>3
  <2>5. QED
    BY <2>2, <2>3, <2>4, <1>m DEF Captured
<1>10. CASE WriteManifest
  <2> DEFINE v == [hash |-> op.snap, at |-> clock, no |-> recorded]
             all == op.loaded \cup {v}
             left == Prune(all, clock)
  <2>1. /\ op.path \in Path /\ op.step = "manifest" /\ misread' = misread
        /\ back' = back /\ op.loaded \subseteq index[op.path]
        /\ (~misread => op.loaded = index[op.path])
    BY <1>10, <1>a DEF WriteManifest, OpShape, IndexKept, Quiet
  <2>2. index' = [index EXCEPT ![op.path] = left]
    BY <1>10 DEF WriteManifest, PutIndex
  <2>3. /\ op'.step = "gc" /\ op'.then = op.then /\ op'.snap = op.snap
        /\ op'.pre = op.pre /\ op'.text = op.text /\ op'.path = op.path
        /\ op'.kept = op.kept
    BY <1>10, <1>a DEF WriteManifest, Op
  <2>4. v \in left /\ v.hash = op.snap /\ v.at = clock /\ v.no = recorded
    <3>1. v \in all /\ v.at = clock
      OBVIOUS
    <3> HIDE DEF all
    <3>2. v \in Prune(all, clock)
      BY <3>1, <1>a, FreshIsKept
    <3>3. QED
      BY <3>2
  <2>5. left \subseteq index[op.path] \cup {v}
    BY <2>1 DEF Prune
  <2>6. op.pre # None /\ op.kept /\ back = 0 /\ ~misread /\ op.then = "idle"
          => \E u \in left : u.hash = op.pre
    <3> SUFFICES ASSUME op.pre # None, op.kept, back = 0, ~misread, op.then = "idle"
                 PROVE  \E u \in left : u.hash = op.pre
      OBVIOUS
    <3>1. PICK u \in index[op.path] : u.hash = op.pre /\ Newest(u, index[op.path])
      BY <2>1 DEF Captured, IsLatest
    <3>2. u \in Version
      BY <2>1, <3>1, <1>a
    <3>3. u.at \in Nat
      BY <3>2, InstantAssumption DEF Version
    <3>4. u \in Prune(index[op.path] \cup {v}, clock)
      <4> HIDE DEF v
      <4>1. QED
        BY <2>4, <3>1, <3>3, <1>a, LatestIsKept
    <3>5. QED
      BY <2>1, <3>1, <3>4
  <2> HIDE DEF left, v
  <2>7. index'[op.path] = left
    BY <2>1, <2>2, <1>a
  <2>8. op.snap \in Hashes(left)
    BY <2>4 DEF Hashes
  <2>9. back = 0 => IsLatest(op.snap, left)
    <3> SUFFICES ASSUME back = 0, NEW w \in left PROVE ~Before(v, w)
      BY <2>4 DEF IsLatest, Newest
    <3>1. CASE w = v
      BY <3>1, <2>4, <1>a DEF Before
    <3>2. CASE w \in index[op.path]
      <4>1. w.no < recorded /\ w.at <= clock
        BY <2>1, <3>2 DEF Dated, Past, DiskInv
      <4>2. w \in Version
        BY <2>1, <3>2, <1>a
      <4>3. w.no \in Nat /\ w.at \in Nat
        BY <4>2, InstantAssumption DEF Version
      <4>4. ~(recorded < w.no) /\ ~(clock < w.at)
            /\ ~(clock = w.at /\ recorded < w.no)
        BY <4>1, <4>3, <1>a
      <4>5. QED
        BY <2>4, <4>4 DEF Before
    <3>3. QED
      BY <3>1, <3>2, <2>5
  <2>10. CASE op.then = "idle"
    <3>1. op.snap = op.text
      BY <2>1, <2>10 DEF Captured
    <3>2. op.pre # None /\ op.kept /\ back = 0 /\ ~misread => op.pre \in Hashes(left)
      BY <2>6, <2>10 DEF Hashes
    <3>3. QED
      BY <2>1, <2>3, <2>7, <2>8, <2>10, <3>1, <3>2 DEF Captured
  <2>11. CASE op.then # "idle"
    <3>1. op.snap = op.pre /\ op.kept
      BY <2>1, <2>11 DEF Captured
    <3>2. QED
      BY <2>1, <2>3, <2>7, <2>8, <2>9, <2>11, <3>1 DEF Captured
  <2>12. QED
    BY <2>10, <2>11
<1>11. CASE CollectGarbage
  <2>1. op.step = "gc" /\ op' = Resume(op, TRUE) /\ UNCHANGED <<index, back, misread>>
    BY <1>11 DEF CollectGarbage, Quiet
  <2>2. ASSUME op.then # "idle"
        PROVE  /\ op.pre \in Hashes(index[op.path])
               /\ back = 0 /\ ~misread' => IsLatest(op.pre, index[op.path])
    <3>1. op.kept /\ op.snap = op.pre /\ op.snap \in Content
      BY <2>1, <2>2, <1>a DEF Captured, OpShape
    <3>2. op.pre # None
      BY <3>1, ContentAssumption
    <3>3. QED
      BY <2>1, <2>2, <3>1, <3>2 DEF Captured
  <2>3. QED
    BY <2>1, <2>2, <1>7
<1>12. CASE ReadSnapshot
  <2>1. op.step = "read" /\ UNCHANGED <<index, back, misread>>
        /\ (op' = Idle \/ op' = [op EXCEPT !.step = "write"])
    BY <1>12 DEF ReadSnapshot, Quiet
  <2>2. CASE op' = [op EXCEPT !.step = "write"]
    <3>1. /\ op'.step = "write" /\ op'.then = op.then /\ op'.pre = op.pre
          /\ op'.path = op.path /\ op'.kept = op.kept
      BY <2>2, <1>a DEF Op
    <3>2. IsLatest(op.pre, index[op.path]) => IsLatest(op'.pre, index'[op'.path])
      BY <2>1, <3>1
    <3>3. QED
      BY <2>1, <3>1, <3>2 DEF Captured
  <2>3. QED
    BY <2>1, <2>2, <1>2
<1>13. CASE AtomicWrite
  <2>1. op.step = "write" /\ UNCHANGED <<index, back, misread>>
        /\ (op' = Idle \/ op' = [op EXCEPT !.step = "store", !.snap = op.text])
    BY <1>13 DEF AtomicWrite, Quiet
  <2>2. CASE op' = [op EXCEPT !.step = "store", !.snap = op.text]
    <3>1. /\ op'.step = "store" /\ op'.then = op.then /\ op'.pre = op.pre
          /\ op'.path = op.path /\ op'.kept = op.kept /\ op'.snap = op'.text
      BY <2>2, <1>a DEF Op
    <3>2. IsLatest(op.pre, index[op.path]) => IsLatest(op'.pre, index'[op'.path])
      BY <2>1, <3>1
    <3>3. QED
      BY <2>1, <3>1, <3>2 DEF Captured
  <2>3. QED
    BY <2>1, <2>2, <1>2
<1>14. CASE StoreFails \/ WriteManifestFails
  BY <1>6, <1>14 DEF StoreFails, WriteManifestFails
<1>15. CASE AtomicWriteFails \/ MergeFails \/ RemoveOld \/ Kill \/ PowerLoss
  BY <1>2, <1>15 DEF AtomicWriteFails, MergeFails, RemoveOld, Kill, PowerLoss
<1>16. ASSUME NEW h \in Content, CopyBlob(h) PROVE Captured'
  <2>1. op'.step \in {"idle", "copy"}
    BY <1>16 DEF CopyBlob, Idle
  <2>2. QED
    BY <2>1, NothingCaptured
<1>17. CASE MergeManifests \/ MergeMisread
  <2>1. op'.step = "remove"
    BY <1>17, <1>a DEF MergeManifests, MergeMisread, Merge, Op
  <2>2. QED
    BY <2>1, NothingCaptured
<1>18. CASE (\E p \in Path, c \in Content \cup {None} : Outside(p, c))
            \/ (\E t \in Instant : Tick(t)) \/ SyncsChange
  <2>1. UNCHANGED <<op, index, misread>> /\ (back' = back \/ back' = back + 1)
    BY <1>18 DEF Outside, Tick, SyncsChange
  <2>2. back' = 0 => back = 0
    BY <2>1, <1>a
  <2>3. QED
    BY <2>1, <2>2 DEF Captured
<1>19. QED
  BY <1>1, <1>3, <1>4, <1>5, <1>8, <1>9, <1>10, <1>11, <1>12, <1>13, <1>14,
     <1>15, <1>16, <1>17, <1>18 DEF Next

(* A save has both sides of its write in the history: what it replaces is  *)
(* listed before it is replaced, and both are listed after, whatever was   *)
(* thinned, and although the second snapshot prunes the first.             *)
THEOREM SavesAreRecorded == Spec => []BothSidesRecorded
<1>1. Init => IndexKept /\ BlobsKept /\ Dated /\ Captured
  BY InitDated DEF Init, Idle, IndexKept, BlobsKept, Captured, Hashes
<1>2. TypeInv /\ BlobsKept /\ Captured => BothSidesRecorded
  <2> SUFFICES ASSUME TypeInv, BlobsKept, Captured PROVE BothSidesRecorded
    OBVIOUS
  <2>1. ASSUME NEW p \in Path, NEW h \in Hashes(index[p]) PROVE Kept(p, h)
    <3>1. h \in Content
      BY <2>1 DEF TypeInv, Types, Hashes, Version
    <3>2. blob[p][h] \in BlobState
      BY <2>1, <3>1 DEF TypeInv, Types
    <3>3. QED
      BY <2>1, <3>1, <3>2 DEF BlobsKept, Readable, BlobState, Kept
  <2>2. op.step \in {"write", "gc"} => op.path \in Path
    BY DEF TypeInv, OpShape
  <2>3. QED
    BY <2>1, <2>2 DEF Captured, BothSidesRecorded
<1>3. QED
  BY <1>1, <1>2, TypeInvariant, NextIndexKept, NextBlobsKept, NextDated,
     NextCaptured, PTL DEF Spec
================================================================================
