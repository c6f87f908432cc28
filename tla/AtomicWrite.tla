----------------------------- MODULE AtomicWrite -----------------------------
(***************************************************************************)
(* fsatomic::atomic_write: temp file, fsync, rename, fsync of the          *)
(* directory, by several writers (instances of Toril) on one note.  Any    *)
(* system call may fail, a writer may be killed between any two of them,   *)
(* and the power may go.                                                   *)
(*                                                                         *)
(* A file is its bytes and whether they have reached the disk; bytes that  *)
(* have not may be Torn after a power loss.  A rename moves the file, and  *)
(* is itself on disk only once the directory is: disk holds the files the  *)
(* note's name may stand for after a power loss.                           *)
(***************************************************************************)
CONSTANTS
  Writer,   \* who writes the note
  Data,     \* complete contents
  Torn,     \* contents cut short
  NoFile,   \* the note, or a temp file, is not there
  Faults    \* the calls that may fail, and how a run may end

AllFaults == {"write", "sync", "rename", "remove", "dir", "kill", "power"}

ASSUME DataAssumption ==
  Torn \notin Data /\ NoFile \notin Data \cup {Torn}
ASSUME FaultsAssumption == Faults \subseteq AllFaults

VARIABLES
  pc,       \* where each writer is in atomic_write
  arg,      \* the contents it writes
  temp,     \* its temp file, NoFile when there is none
  target,   \* the note
  disk,     \* the files the note's name may have after a power loss
  stray,    \* whether some temp file was left behind
  mishap    \* history: a writer was killed or could not remove its temp file

vars == <<pc, arg, temp, target, disk, stray, mishap>>

File == [bytes : Data \cup {Torn}, synced : BOOLEAN]
NoBytes == [bytes |-> NoFile, synced |-> TRUE]
PCs == {"idle", "created", "filled", "synced", "undo", "renamed"}

Init ==
  /\ pc = [w \in Writer |-> "idle"]
  /\ arg \in [Writer -> Data]
  /\ temp = [w \in Writer |-> NoBytes]
  /\ target \in {NoBytes} \cup [bytes : Data, synced : {TRUE}]
  /\ disk = {target}
  /\ stray = FALSE /\ mishap = FALSE

-----------------------------------------------------------------------------
Goto(w, from, to) == pc[w] = from /\ pc' = [pc EXCEPT ![w] = to]

(* Mutant: the temp file is created without room for its contents.         *)
CreateNothing(w) ==
  /\ Goto(w, "idle", "created")
  /\ \E d \in Data : arg' = [arg EXCEPT ![w] = d]
  /\ temp' = [temp EXCEPT ![w] = [bytes |-> NoFile, synced |-> FALSE]]
  /\ UNCHANGED <<target, disk, stray, mishap>>

(* write_temp(): a fresh file beside the target.                           *)
CreateTemp(w) ==
  /\ Goto(w, "idle", "created")
  /\ \E d \in Data : arg' = [arg EXCEPT ![w] = d]
  /\ temp' = [temp EXCEPT ![w] = [bytes |-> Torn, synced |-> FALSE]]
  /\ UNCHANGED <<target, disk, stray, mishap>>

WriteTemp(w) ==
  /\ Goto(w, "created", "filled")
  /\ temp' = [temp EXCEPT ![w].bytes = arg[w]]
  /\ UNCHANGED <<arg, target, disk, stray, mishap>>

(* Mutant: the temp file is flushed but never reaches the disk.            *)
FlushTemp(w) ==
  /\ Goto(w, "filled", "synced")
  /\ UNCHANGED <<arg, temp, target, disk, stray, mishap>>

SyncTemp(w) ==
  /\ Goto(w, "filled", "synced")
  /\ temp' = [temp EXCEPT ![w].synced = TRUE]
  /\ UNCHANGED <<arg, target, disk, stray, mishap>>

WriteFails(w) ==
  /\ "write" \in Faults
  /\ Goto(w, "created", "undo")
  /\ UNCHANGED <<arg, temp, target, disk, stray, mishap>>

SyncFails(w) ==
  /\ "sync" \in Faults
  /\ Goto(w, "filled", "undo")
  /\ UNCHANGED <<arg, temp, target, disk, stray, mishap>>

(* commit(): the temp file takes the target's name.                        *)
Commit(w) ==
  /\ Goto(w, "synced", "renamed")
  /\ target' = temp[w]
  /\ disk' = disk \cup {temp[w]}
  /\ temp' = [temp EXCEPT ![w] = NoBytes]
  /\ UNCHANGED <<arg, stray, mishap>>

(* Mutant: a failed rename leaves the temp file where it is.               *)
CommitGivesUp(w) ==
  /\ "rename" \in Faults
  /\ Goto(w, "synced", "idle")
  /\ stray' = TRUE
  /\ temp' = [temp EXCEPT ![w] = NoBytes]
  /\ UNCHANGED <<arg, target, disk, mishap>>

CommitFails(w) ==
  /\ "rename" \in Faults
  /\ Goto(w, "synced", "undo")
  /\ UNCHANGED <<arg, temp, target, disk, stray, mishap>>

(* On every error the temp file is removed, as far as that goes.           *)
RemoveTemp(w) ==
  /\ Goto(w, "undo", "idle")
  /\ temp' = [temp EXCEPT ![w] = NoBytes]
  /\ UNCHANGED <<arg, target, disk, stray, mishap>>

RemoveFails(w) ==
  /\ "remove" \in Faults
  /\ Goto(w, "undo", "idle")
  /\ temp' = [temp EXCEPT ![w] = NoBytes]
  /\ stray' = TRUE /\ mishap' = TRUE
  /\ UNCHANGED <<arg, target, disk>>

(* fsync_dir(): the note's name is what it is now; best effort.            *)
SyncDir(w) ==
  /\ Goto(w, "renamed", "idle")
  /\ disk' = {target}
  /\ UNCHANGED <<arg, temp, target, stray, mishap>>

SyncDirFails(w) ==
  /\ "dir" \in Faults
  /\ Goto(w, "renamed", "idle")
  /\ UNCHANGED <<arg, temp, target, disk, stray, mishap>>

-----------------------------------------------------------------------------
(* The process dies; what it gave the kernel stays.                        *)
Kill(w) ==
  /\ "kill" \in Faults
  /\ pc[w] # "idle"
  /\ pc' = [pc EXCEPT ![w] = "idle"]
  /\ stray' = (stray \/ temp[w] # NoBytes)
  /\ temp' = [temp EXCEPT ![w] = NoBytes]
  /\ mishap' = TRUE
  /\ UNCHANGED <<arg, target, disk>>

(* What a power loss makes of a file.                                      *)
Survivors(f) == {[bytes |-> b, synced |-> TRUE] :
                   b \in {f.bytes} \cup (IF f.synced THEN {} ELSE {Torn})}

PowerLoss ==
  /\ "power" \in Faults
  /\ \E f \in disk : \E g \in Survivors(f) : target' = g /\ disk' = {g}
  /\ pc' = [w \in Writer |-> "idle"]
  /\ stray' \in {stray, stray \/ \E w \in Writer : temp[w] # NoBytes}
  /\ temp' = [w \in Writer |-> NoBytes]
  /\ mishap' = TRUE
  /\ UNCHANGED arg

Next ==
  \/ \E w \in Writer :
       \/ CreateTemp(w) \/ WriteTemp(w) \/ SyncTemp(w) \/ Commit(w)
       \/ WriteFails(w) \/ SyncFails(w) \/ CommitFails(w)
       \/ RemoveTemp(w) \/ RemoveFails(w)
       \/ SyncDir(w) \/ SyncDirFails(w) \/ Kill(w)
  \/ PowerLoss

Spec == Init /\ [][Next]_vars

-----------------------------------------------------------------------------
TypeOK ==
  /\ pc \in [Writer -> PCs]
  /\ arg \in [Writer -> Data]
  /\ temp \in [Writer -> File \cup {NoBytes}]
  /\ target \in File \cup {NoBytes} /\ disk \subseteq File \cup {NoBytes}
  /\ stray \in BOOLEAN /\ mishap \in BOOLEAN

(* The note is never cut short, neither for a reader nor by a power loss   *)
(* at any moment: every file its name may stand for is complete and on     *)
(* disk.                                                                   *)
WholeNote == \A f \in disk \cup {target} : f.synced /\ f.bytes # Torn

(* A temp file is left beside the note only by a writer that was killed,   *)
(* or that could not remove it.                                            *)
NoLitter == stray => mishap

(* Seen from outside, the note is a file replaced atomically.              *)
Abstract == INSTANCE AtomicFile WITH
              file <- target.bytes, recoverable <- {f.bytes : f \in disk}
ReplacedAtomically == Abstract!Spec
=============================================================================
