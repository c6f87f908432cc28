-------------------------------- MODULE History --------------------------------
(***************************************************************************)
(* The version history: crates/snapshots, and the commands that call it    *)
(* around every write (commands/snapshots.rs, files.rs) and after every    *)
(* rename (entries.rs).                                                    *)
(*                                                                         *)
(* The commands are synchronous and run one after the other on the main    *)
(* thread: op is the one in hand, and every call that touches the disk is  *)
(* a step of its own.  Between two steps other programs may change a note, *)
(* Toril may be killed, the power may go.                                  *)
(*                                                                         *)
(* A version's hash stands for its contents (SHA-256 taken as injective).  *)
(* The index of a note is the set of its versions, in the order of time    *)
(* and, for equal times, of recording; an empty index is a missing one,    *)
(* which load_manifest() reads alike.                                      *)
(*                                                                         *)
(* What the disk holds may be older than what the program reads: a rename, *)
(* a removal, a new directory lasts through a power loss once its directory*)
(* is synced.  atomic_write() syncs the file's own directory if it can,    *)
(* and nothing syncs the one above it.                                     *)
(***************************************************************************)
EXTENDS Retention, FiniteSets

CONSTANTS
  Path,        \* absolute paths of notes
  Content,     \* contents of notes
  None,        \* no note there
  Instant,     \* what the clock may show
  MaxCommands, \* bound: commands begun
  MaxOutside,  \* bound: changes by other programs
  MaxFaults,   \* bound: failing calls, kills and power losses
  MaxBack      \* bound: times the clock is set back

ASSUME ContentAssumption == None \notin Content
ASSUME InstantAssumption == Instant \subseteq Nat /\ Instant # {}
ASSUME BoundAssumption == {MaxCommands, MaxOutside, MaxFaults, MaxBack} \subseteq Nat

VARIABLES
  file,      \* the notes
  index,     \* manifest.json of every note: its versions
  blob,      \* blobs/ of every note
  listings,  \* the indexes a power loss may leave of every note
  remains,   \* and the states of every blob
  loose,     \* why it may leave others than there are
  syncs,     \* whether a directory can be synced (not on Windows, for one)
  clock,
  op,        \* the command in hand
  recorded,  \* versions ever recorded, for the order of equal times
  misread,   \* history: an index or a blobs directory could not be read
  maimed,    \* history: contents whose copy or removal was cut short
  commands, outside, faults, back   \* counters of the bounds

durable == <<listings, remains, loose>>
disk == <<file, index, blob, durable>>
counters == <<commands, outside, faults, back>>
vars == <<disk, syncs, clock, op, recorded, misread, maimed, counters>>

Version == [hash : Content, at : Instant, no : Nat]

BlobState == {"absent", "whole", "torn"}
Readable(p, h) == blob[p][h] = "whole"
Blobs(p) == {h \in Content : blob[p][h] # "absent"}

(* A directory was created, and nothing synced the one it is in; rekey()   *)
(* removed it; a directory could not be synced, or not in time.            *)
Looseness == {"created", "removed", "unsynced"}

Hashes(versions) == {v.hash : v \in versions}
HasHistory(p) == index[p] # {} \/ Blobs(p) # {}

Steps == {"idle", "existing", "store", "manifest", "gc", "write", "read",
          "copy", "remove"}

(* then: what follows the snapshot in hand.  pre: the bytes captured before *)
(* the write; kept: whether nothing of their capture is known to have       *)
(* failed.                                                                  *)
Op == [step : Steps, cmd : {"none", "save", "restore", "rename"},
       path : Path \cup {None}, to : Path \cup {None},
       text : Content \cup {None}, snap : Content \cup {None},
       loaded : SUBSET Version, then : {"write", "read", "idle"},
       pre : Content \cup {None}, kept : BOOLEAN]

Idle == [step |-> "idle", cmd |-> "none", path |-> None, to |-> None,
         text |-> None, snap |-> None, loaded |-> {}, then |-> "idle",
         pre |-> None, kept |-> TRUE]

Init ==
  /\ file \in [Path -> Content \cup {None}]
  /\ index = [p \in Path |-> {}]
  /\ blob = [p \in Path |-> [h \in Content |-> "absent"]]
  /\ listings = [p \in Path |-> {{}}]
  /\ remains = [p \in Path |-> [h \in Content |-> {"absent"}]]
  /\ loose = [p \in Path |-> {}]
  /\ syncs \in BOOLEAN
  /\ clock \in Instant
  /\ op = Idle
  /\ recorded = 0 /\ misread = FALSE /\ maimed = {}
  /\ commands = 0 /\ outside = 0 /\ faults = 0 /\ back = 0

-----------------------------------------------------------------------------
(* Faults.                                                                 *)

Fault == faults < MaxFaults /\ faults' = faults + 1
NoFault == UNCHANGED faults
Quiet == UNCHANGED <<syncs, clock, commands, outside, back>>

(* What load_manifest() returns: a read error counts as no history.        *)
Load(p, versions) ==
  \/ versions = index[p] /\ NoFault /\ UNCHANGED misread
  \/ index[p] # {} /\ versions = {} /\ Fault /\ misread' = TRUE

(* The directory of a note is created when something is written to it, and *)
(* the one it is in is not synced.                                         *)
Create(p) == IF HasHistory(p) THEN {} ELSE {"created"}

(* atomic_write() goes on when its directory cannot be synced, as it never *)
(* can be on Windows.                                                      *)
Loosen(p) ==
  loose' = [loose EXCEPT ![p] =
             @ \cup Create(p) \cup (IF syncs THEN {} ELSE {"unsynced"})]

(* After a sync there is nothing older, but what a removal may bring back. *)
Lasting(p) == syncs /\ "removed" \notin loose[p]

-----------------------------------------------------------------------------
(* Commands.                                                               *)

Begin(cmd) ==
  /\ op.step = "idle"
  /\ commands < MaxCommands /\ commands' = commands + 1
  /\ op' = cmd
  /\ UNCHANGED <<syncs, clock, recorded, misread, maimed, outside, faults, back>>

SaveFile(p, c) ==
  /\ Begin([Idle EXCEPT !.step = "existing", !.cmd = "save", !.path = p,
                        !.text = c, !.then = "write"])
  /\ UNCHANGED disk

(* A version is restored from the list of the history panel.               *)
RestoreSnapshot(p, h) ==
  /\ h \in Hashes(index[p])
  /\ Begin([Idle EXCEPT !.step = "existing", !.cmd = "restore", !.path = p,
                        !.text = h, !.then = "read"])
  /\ UNCHANGED disk

(* rename_entry(): the note moves, then its history follows (rekey).       *)
RenameEntry(p, q) ==
  /\ p # q /\ file[p] # None /\ file[q] = None
  /\ file' = [file EXCEPT ![p] = None, ![q] = file[p]]
  /\ Begin(IF HasHistory(p)
           THEN [Idle EXCEPT !.step = "copy", !.cmd = "rename",
                             !.path = p, !.to = q]
           ELSE Idle)
  /\ UNCHANGED <<index, blob, durable>>

-----------------------------------------------------------------------------
(* snapshot().                                                             *)

(* The snapshot is over; what follows it does not depend on its outcome.   *)
Resume(o, ok) ==
  IF o.then = "idle" THEN Idle
  ELSE [o EXCEPT !.step = o.then, !.loaded = {}, !.snap = None,
                 !.then = "idle", !.kept = ok]

(* Mutant: a note that has versions is not captured before the write.      *)
TrustHistory ==
  /\ op.step = "existing"
  /\ op' = IF file[op.path] = None \/ HasHistory(op.path)
           THEN [Resume(op, TRUE) EXCEPT !.pre = file[op.path]]
           ELSE [op EXCEPT !.step = "store", !.snap = file[op.path],
                           !.pre = file[op.path]]
  /\ Quiet /\ NoFault /\ UNCHANGED <<disk, recorded, misread, maimed>>

(* snapshot_before_write(): the bytes on disk, if there are any.           *)
SnapshotExisting ==
  /\ op.step = "existing"
  /\ \/ /\ file[op.path] = None
        /\ op' = Resume(op, TRUE) /\ NoFault
     \/ /\ file[op.path] # None
        /\ op' = [op EXCEPT !.step = "store", !.snap = file[op.path],
                            !.pre = file[op.path]]
        /\ NoFault
     \/ /\ file[op.path] # None
        /\ op' = Resume(op, FALSE) /\ Fault
  /\ Quiet /\ UNCHANGED <<disk, recorded, misread, maimed>>

IsLatest(h, versions) ==
  \E v \in versions : v.hash = h /\ Newest(v, versions)

Skip ==
  /\ op.step = "store"
  /\ \E versions \in {index[op.path], {}} :
       Load(op.path, versions) /\ IsLatest(op.snap, versions)
  /\ op' = Resume(op, TRUE)
  /\ Quiet /\ UNCHANGED <<disk, recorded, maimed>>

(* What may be left of the blobs once their directory has been synced:     *)
(* files are there, if perhaps not whole, and removals are done.           *)
Flushed(p) ==
  [h \in Content |-> IF blob[p][h] = "whole" THEN remains[p][h] \ {"absent"}
                     ELSE {blob[p][h]}]

(* store_blob(): an existing file is taken to be correct.                  *)
StoreBlob ==
  /\ op.step = "store"
  /\ \E versions \in {index[op.path], {}} :
       /\ Load(op.path, versions)
       /\ ~IsLatest(op.snap, versions)
       /\ op' = [op EXCEPT !.step = "manifest", !.loaded = versions]
  /\ IF blob[op.path][op.snap] # "absent" THEN UNCHANGED <<blob, remains, loose>>
     ELSE /\ blob' = [blob EXCEPT ![op.path][op.snap] = "whole"]
          /\ Loosen(op.path)
          /\ remains' = [remains EXCEPT ![op.path] =
               IF Lasting(op.path)
               THEN [Flushed(op.path) EXCEPT ![op.snap] = {"whole"}]
               ELSE [remains[op.path] EXCEPT ![op.snap] = @ \cup {"whole"}]]
  /\ Quiet /\ UNCHANGED <<file, index, listings, recorded, maimed>>

StoreFails ==
  /\ op.step = "store" /\ Fault
  /\ ~IsLatest(op.snap, index[op.path])
  /\ op' = Resume(op, FALSE)
  /\ Quiet /\ UNCHANGED <<disk, recorded, misread, maimed>>

(* write_manifest().                                                       *)
PutIndex(p, versions) ==
  /\ index' = [index EXCEPT ![p] = versions]
  /\ Loosen(p)
  /\ listings' = [listings EXCEPT ![p] =
                   (IF Lasting(p) THEN {} ELSE @) \cup {versions}]

(* Mutant: a version is dated to the end of the running window.            *)
WriteManifestRounded ==
  /\ op.step = "manifest"
  /\ LET v == [hash |-> op.snap, at |-> (clock \div Hour + 1) * Hour, no |-> recorded]
     IN  PutIndex(op.path, Prune(op.loaded \cup {v}, clock))
  /\ recorded' = recorded + 1
  /\ op' = [op EXCEPT !.step = "gc", !.loaded = {}]
  /\ Quiet /\ NoFault /\ UNCHANGED <<file, blob, remains, misread, maimed>>

(* The new version, and what prune() leaves of the ones that were loaded.  *)
WriteManifest ==
  /\ op.step = "manifest"
  /\ LET v == [hash |-> op.snap, at |-> clock, no |-> recorded]
     IN  PutIndex(op.path, Prune(op.loaded \cup {v}, clock))
  /\ recorded' = recorded + 1
  /\ op' = [op EXCEPT !.step = "gc", !.loaded = {}]
  /\ Quiet /\ NoFault /\ UNCHANGED <<file, blob, remains, misread, maimed>>

WriteManifestFails ==
  /\ op.step = "manifest" /\ Fault
  /\ op' = Resume(op, FALSE)
  /\ Quiet /\ UNCHANGED <<disk, recorded, misread, maimed>>

(* Files removed; nothing syncs the directory after it.                    *)
Remove(p, gone) ==
  /\ blob' = [blob EXCEPT ![p] = [h \in Content |->
                IF h \in gone THEN "absent" ELSE blob[p][h]]]
  /\ remains' = [remains EXCEPT ![p] = [h \in Content |->
                   remains[p][h] \cup (IF h \in gone THEN {"absent"} ELSE {})]]

(* Mutant: what prune dropped is removed, though it may be listed again.   *)
CollectSuperseded ==
  /\ op.step = "gc"
  /\ Remove(op.path, Blobs(op.path) \ {op.snap})
  /\ op' = Resume(op, TRUE)
  /\ Quiet /\ NoFault
  /\ UNCHANGED <<file, index, listings, loose, recorded, misread, maimed>>

(* gc_blobs(): files no version names; one that cannot be removed stays.   *)
CollectGarbage ==
  /\ op.step = "gc"
  /\ LET orphans == Blobs(op.path) \ Hashes(index[op.path])
     IN  \/ Remove(op.path, orphans) /\ NoFault
         \/ /\ \E gone \in (SUBSET orphans) \ {orphans} : Remove(op.path, gone)
            /\ Fault
  /\ op' = Resume(op, TRUE)
  /\ Quiet
  /\ UNCHANGED <<file, index, listings, loose, recorded, misread, maimed>>

-----------------------------------------------------------------------------
(* The writes of save_file() and restore_snapshot().                       *)

(* store::read() of the version to restore.                                *)
ReadSnapshot ==
  /\ op.step = "read"
  /\ \/ /\ Readable(op.path, op.text)
        /\ op' = [op EXCEPT !.step = "write"] /\ NoFault
     \/ /\ ~Readable(op.path, op.text)
        /\ op' = Idle /\ NoFault
     \/ op' = Idle /\ Fault
  /\ Quiet /\ UNCHANGED <<disk, recorded, misread, maimed>>

(* A save records what it wrote; a restore does not.                       *)
AtomicWrite ==
  /\ op.step = "write"
  /\ file' = [file EXCEPT ![op.path] = op.text]
  /\ op' = IF op.cmd = "save"
           THEN [op EXCEPT !.step = "store", !.snap = op.text] ELSE Idle
  /\ Quiet /\ NoFault
  /\ UNCHANGED <<index, blob, durable, recorded, misread, maimed>>

AtomicWriteFails ==
  /\ op.step = "write" /\ Fault
  /\ op' = Idle
  /\ Quiet /\ UNCHANGED <<disk, recorded, misread, maimed>>

-----------------------------------------------------------------------------
(* rekey().                                                                *)

Missing == Blobs(op.path) \ Blobs(op.to)

(* fs::copy() does not sync; cut short, it leaves part of a file.          *)
Copied(h, state) ==
  /\ blob' = [blob EXCEPT ![op.to][h] = state]
  /\ remains' = [remains EXCEPT ![op.to][h] = @ \cup {"torn", state}]
  /\ loose' = [loose EXCEPT ![op.to] = @ \cup Create(op.to)]

CopyBlob(h) ==
  /\ op.step = "copy" /\ h \in Missing
  /\ \/ /\ Copied(h, IF Readable(op.path, h) THEN "whole" ELSE "torn")
        /\ UNCHANGED <<op, maimed>> /\ NoFault
     \/ /\ Copied(h, "torn")
        /\ op' = Idle /\ maimed' = maimed \cup {h} /\ Fault
  /\ Quiet /\ UNCHANGED <<file, index, listings, recorded, misread>>

Merge(old, new) ==
  /\ PutIndex(op.to, old \cup new) /\ UNCHANGED remains
  /\ op' = [op EXCEPT !.step = "remove"]

MergeManifests ==
  /\ op.step = "copy" /\ Missing = {}
  /\ Merge(index[op.path], index[op.to])
  /\ Quiet /\ NoFault /\ UNCHANGED <<file, blob, recorded, misread, maimed>>

(* An index that cannot be read counts as empty, and a blobs directory     *)
(* that cannot be read as having nothing to copy.                          *)
MergeMisread ==
  /\ op.step = "copy" /\ Fault /\ misread' = TRUE
  /\ \/ /\ Missing = {} /\ index[op.path] # {}
        /\ Merge({}, index[op.to]) /\ UNCHANGED maimed
     \/ /\ Missing = {} /\ index[op.to] # {}
        /\ Merge(index[op.path], {}) /\ UNCHANGED maimed
     \/ /\ Missing = Blobs(op.path) \ Blobs(op.to) /\ Missing # {}
        /\ Merge(index[op.path], index[op.to])
        /\ maimed' = maimed \cup Missing
  /\ Quiet /\ UNCHANGED <<file, blob, recorded>>

MergeFails ==
  /\ op.step = "copy" /\ Missing = {} /\ Fault
  /\ op' = Idle
  /\ Quiet /\ UNCHANGED <<disk, recorded, misread, maimed>>

(* remove_dir_all() of the old directory, file by file.                    *)
RemoveOld ==
  /\ op.step = "remove"
  /\ \/ /\ Remove(op.path, Content)
        /\ index' = [index EXCEPT ![op.path] = {}]
        /\ UNCHANGED maimed /\ NoFault
     \/ \E gone \in SUBSET Blobs(op.path) :
        /\ Remove(op.path, gone)
        /\ \E left \in {index[op.path], {}} :
             /\ index' = [index EXCEPT ![op.path] = left]
             /\ maimed' = IF left = {} THEN maimed ELSE maimed \cup gone
        /\ Fault
  /\ listings' = [listings EXCEPT ![op.path] = @ \cup {index'[op.path]}]
  /\ loose' = [loose EXCEPT ![op.path] = @ \cup {"removed"}]
  /\ op' = Idle
  /\ Quiet /\ UNCHANGED <<file, recorded, misread>>

-----------------------------------------------------------------------------
(* The environment.                                                        *)

Kill ==
  /\ op.step # "idle" /\ Fault /\ op' = Idle
  /\ UNCHANGED <<disk, syncs, clock, recorded, misread, maimed, commands,
                 outside, back>>

(* A directory that could be synced cannot, or the other way round.        *)
SyncsChange ==
  /\ Fault /\ syncs' = ~syncs
  /\ UNCHANGED <<disk, clock, op, recorded, misread, maimed, commands, outside,
                 back>>

Nowhere == [h \in Content |-> "absent"]

(* A note's directory without its index may be without blobs/, too; one    *)
(* whose creation is not on disk may be gone altogether.                   *)
MayRemain(p) ==
  [index : listings[p],
   blobs : {b \in [Content -> BlobState] : \A h \in Content : b[h] \in remains[p][h]}
             \cup (IF {} \in listings[p] THEN {Nowhere} ELSE {})]
  \cup (IF "created" \in loose[p] THEN {[index |-> {}, blobs |-> Nowhere]} ELSE {})

(* A blob came back cut short; or a listed one did not come back, a copy,  *)
(* or after a directory that was not synced.                               *)
Damaged(p, h, left) ==
  \/ left.blobs[h] = "torn"
  \/ /\ h \in Hashes(left.index) /\ left.blobs[h] = "absent"
     /\ "torn" \in remains[p][h] \/ loose[p] \cap {"unsynced", "removed"} # {}

(* Each directory comes back as the disk has it.  A note may, too: as if   *)
(* another program had changed it, which Outside() does.                   *)
PowerLoss ==
  /\ Fault /\ op' = Idle
  /\ LET may == [p \in Path |-> MayRemain(p)]
     IN  \E left \in [Path -> UNION {may[p] : p \in Path}] :
       /\ \A p \in Path : left[p] \in may[p]
       /\ index' = [p \in Path |-> left[p].index]
       /\ blob' = [p \in Path |-> left[p].blobs]
       /\ maimed' = maimed \cup
            {h \in Content : \E p \in Path : Damaged(p, h, left[p])}
  /\ listings' = [p \in Path |-> {index'[p]}]
  /\ remains' = [p \in Path |-> [h \in Content |-> {blob'[p][h]}]]
  /\ loose' = [p \in Path |-> {}]
  /\ Quiet /\ UNCHANGED <<file, recorded, misread>>

(* Another program writes, creates or deletes a note; deleting one in      *)
(* Toril leaves its history where it is, too.  A command touches the note  *)
(* when it captures it and when it writes it: what happens in between is   *)
(* as if it happened just before the write.                                *)
Outside(p, c) ==
  /\ op.step \in {"idle", "write"}
  /\ outside < MaxOutside /\ outside' = outside + 1
  /\ c # file[p] /\ file' = [file EXCEPT ![p] = c]
  /\ UNCHANGED <<index, blob, durable, syncs, clock, op, recorded, misread, maimed,
                 commands, faults, back>>

(* now_ms() is read when a snapshot begins.                                *)
Tick(t) ==
  /\ op.step \in {"idle", "write"}
  /\ t # clock /\ clock' = t
  /\ IF t > clock THEN UNCHANGED back ELSE back < MaxBack /\ back' = back + 1
  /\ UNCHANGED <<disk, syncs, op, recorded, misread, maimed, commands, outside,
                 faults>>

Next ==
  \/ \E p \in Path, c \in Content : SaveFile(p, c) \/ RestoreSnapshot(p, c)
  \/ \E p, q \in Path : RenameEntry(p, q)
  \/ SnapshotExisting \/ Skip \/ StoreBlob \/ StoreFails
  \/ WriteManifest \/ WriteManifestFails \/ CollectGarbage
  \/ ReadSnapshot \/ AtomicWrite \/ AtomicWriteFails
  \/ \E h \in Content : CopyBlob(h)
  \/ MergeManifests \/ MergeMisread \/ MergeFails \/ RemoveOld
  \/ Kill \/ PowerLoss \/ SyncsChange
  \/ \E p \in Path, c \in Content \cup {None} : Outside(p, c)
  \/ \E t \in Instant : Tick(t)

Spec == Init /\ [][Next]_vars

-----------------------------------------------------------------------------
(* Every variable keeps to its type.                                       *)
TypeOK ==
  /\ file \in [Path -> Content \cup {None}]
  /\ index \in [Path -> SUBSET Version]
  /\ blob \in [Path -> [Content -> BlobState]]
  /\ listings \in [Path -> SUBSET SUBSET Version]
  /\ remains \in [Path -> [Content -> SUBSET BlobState]]
  /\ loose \in [Path -> SUBSET Looseness]
  /\ syncs \in BOOLEAN /\ clock \in Instant
  /\ op \in Op
  /\ recorded \in Nat /\ misread \in BOOLEAN /\ maimed \subseteq Content
  /\ {commands, outside, faults, back} \subseteq Nat

(* Whatever the history panel lists can be read back, whatever was thinned,*)
(* collected, killed or renamed before: but for contents whose copy or     *)
(* removal rekey() could not finish, and those of which a power loss took  *)
(* a copy, or what stood in a directory that was not synced.               *)
ListedIsReadable ==
  \A p \in Path : \A h \in Hashes(index[p]) : Readable(p, h) \/ h \in maimed

Kept(p, h) == h \in Hashes(index[p]) /\ (Readable(p, h) \/ h \in maimed)

(* A save records both sides of its write: the bytes it replaces are       *)
(* listed before they are replaced, and what it wrote is listed beside     *)
(* them afterwards, unless a capture failed, an index could not be read or *)
(* the clock was set back.                                                 *)
BothSidesRecorded ==
  /\ op.step = "write" /\ op.kept /\ op.pre # None => Kept(op.path, op.pre)
  /\ (op.step = "gc" /\ op.then = "idle" /\ op.kept /\ back = 0 /\ ~misread)
       => \A h \in {op.pre, op.text} \ {None} : Kept(op.path, h)

(* The logs a power loss may leave: a directory that was created since may *)
(* come back as none.                                                      *)
OnDisk ==
  [p \in Path |-> listings[p] \cup (IF "created" \in loose[p] THEN {{}} ELSE {})]

Abstract == INSTANCE VersionLog WITH log <- index, onDisk <- OnDisk

(* The history implements the log of versions: no version disappears but   *)
(* by thinning, neither through a rename nor through a crash within one,   *)
(* unless an index could not be read; and a power loss brings back what    *)
(* the disk has, for each note a log of the time since its last sync.      *)
VersionsSurvive == Abstract!Spec
=============================================================================
