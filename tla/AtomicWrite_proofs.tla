------------------------- MODULE AtomicWrite_proofs --------------------------
(***************************************************************************)
(* For any number of writers and contents, and whatever fails: the note is *)
(* never cut short, nothing is left beside it by a writer that returns,    *)
(* and atomic_write implements AtomicFile.                                 *)
(*                                                                         *)
(* The invariant that carries all of it: a temp file is complete and on    *)
(* disk before it is renamed, hence so is every file the note's name may   *)
(* stand for.                                                              *)
(***************************************************************************)
EXTENDS AtomicWrite, TLAPS

Whole == [bytes : Data, synced : {TRUE}] \cup {NoBytes}

TempInv ==
  \A w \in Writer :
    /\ pc[w] = "filled" => temp[w].bytes \in Data /\ temp[w] \in File
    /\ pc[w] = "synced" => temp[w] \in [bytes : Data, synced : {TRUE}]
    /\ pc[w] = "created" => temp[w] \in File

IInv ==
  /\ TypeOK
  /\ TempInv
  /\ target \in Whole /\ disk \subseteq Whole
  /\ NoLitter

(* Whole contents survive whole.                                           *)
LEMMA SurvivorsOfWhole ==
  ASSUME NEW f \in Whole, NEW g \in Survivors(f)
  PROVE  g = f
<1>1. f.synced = TRUE /\ f = [bytes |-> f.bytes, synced |-> TRUE]
  <2>1. CASE f = NoBytes
    BY <2>1 DEF NoBytes
  <2>2. CASE f \in [bytes : Data, synced : {TRUE}]
    BY <2>2
  <2>3. QED
    BY <2>1, <2>2 DEF Whole
<1>2. g = [bytes |-> f.bytes, synced |-> TRUE]
  BY <1>1 DEF Survivors
<1>3. QED
  BY <1>1, <1>2

(* The invariant holds at first.                                           *)
LEMMA InitIInv == Init => IInv
  BY DataAssumption
     DEF Init, IInv, TypeOK, TempInv, Whole, NoLitter, File, NoBytes, PCs

(* Every step keeps the invariant.                                         *)
LEMMA NextIInv == IInv /\ [Next]_vars => IInv'
<1> SUFFICES ASSUME IInv, [Next]_vars PROVE IInv'
  OBVIOUS
<1> USE DEF IInv, TypeOK, TempInv, NoLitter, Goto, PCs, NoBytes, File
<1>1. ASSUME NEW w \in Writer, CreateTemp(w) PROVE IInv'
  BY <1>1 DEF CreateTemp
<1>2. ASSUME NEW w \in Writer, WriteTemp(w) PROVE IInv'
  BY <1>2 DEF WriteTemp
<1>3. ASSUME NEW w \in Writer, SyncTemp(w) PROVE IInv'
  BY <1>3 DEF SyncTemp
<1>4. ASSUME NEW w \in Writer, Commit(w) PROVE IInv'
  BY <1>4 DEF Commit, Whole
<1>5. ASSUME NEW w \in Writer, WriteFails(w) PROVE IInv'
  BY <1>5 DEF WriteFails
<1>6. ASSUME NEW w \in Writer, SyncFails(w) PROVE IInv'
  BY <1>6 DEF SyncFails
<1>7. ASSUME NEW w \in Writer, CommitFails(w) PROVE IInv'
  BY <1>7 DEF CommitFails
<1>8. ASSUME NEW w \in Writer, RemoveTemp(w) PROVE IInv'
  BY <1>8 DEF RemoveTemp
<1>9. ASSUME NEW w \in Writer, RemoveFails(w) PROVE IInv'
  BY <1>9 DEF RemoveFails
<1>10. ASSUME NEW w \in Writer, SyncDir(w) PROVE IInv'
  BY <1>10 DEF SyncDir
<1>11. ASSUME NEW w \in Writer, SyncDirFails(w) PROVE IInv'
  BY <1>11 DEF SyncDirFails
<1>12. ASSUME NEW w \in Writer, Kill(w) PROVE IInv'
  BY <1>12 DEF Kill
<1>13. CASE PowerLoss
  <2>1. PICK f \in disk : target' = f /\ disk' = {f}
    BY <1>13, SurvivorsOfWhole DEF PowerLoss
  <2>2. QED
    BY <1>13, <2>1 DEF PowerLoss
<1>14. CASE UNCHANGED vars
  BY <1>14 DEF vars
<1>15. QED
  BY <1>1, <1>2, <1>3, <1>4, <1>5, <1>6, <1>7, <1>8, <1>9, <1>10, <1>11,
     <1>12, <1>13, <1>14 DEF Next

(* The temp file of a writer past its fsync is whole and synced, and no    *)
(* writer past its rename has one, wherever a call fails or a writer is    *)
(* killed.                                                                 *)
THEOREM Invariant == Spec => []IInv
  BY InitIInv, NextIInv, PTL DEF Spec

(* No sequence of calls, faults and crashes leaves a file that is neither  *)
(* whole nor torn nor missing, nor a writer between two calls.             *)
THEOREM TypesKept == Spec => []TypeOK
<1>1. IInv => TypeOK
  BY DEF IInv
<1>2. QED
  BY <1>1, Invariant, PTL

(* A crash or power loss at any point of any number of overlapping saves   *)
(* leaves a complete note, or none where there was none.                   *)
THEOREM NoteIsWhole == Spec => []WholeNote
<1>1. ASSUME NEW f \in Whole
      PROVE  f.synced = TRUE /\ f.bytes # Torn
  <2>1. CASE f = NoBytes
    BY <2>1, DataAssumption DEF NoBytes
  <2>2. CASE f \in [bytes : Data, synced : {TRUE}]
    BY <2>2, DataAssumption
  <2>3. QED
    BY <2>1, <2>2 DEF Whole
<1>2. IInv => WholeNote
  BY <1>1 DEF IInv, WholeNote
<1>3. QED
  BY <1>2, Invariant, PTL

(* A save that returns, with or without an error, leaves no temp file      *)
(* unless it could not remove it.                                          *)
THEOREM NothingLeftBehind == Spec => []NoLitter
<1>1. IInv => NoLitter
  BY DEF IInv
<1>2. QED
  BY <1>1, Invariant, PTL

-----------------------------------------------------------------------------
(* Each step is a step of the abstract file or leaves it alone.            *)
LEMMA InitMaps == Init => Abstract!Init
<1> SUFFICES ASSUME Init PROVE Abstract!Init
  OBVIOUS
<1>1. target.bytes \in Data \cup {NoFile} /\ disk = {target}
  <2>1. CASE target = NoBytes
    BY <2>1 DEF Init, NoBytes
  <2>2. CASE target \in [bytes : Data, synced : {TRUE}]
    BY <2>2 DEF Init
  <2>3. QED
    BY <2>1, <2>2 DEF Init
<1>2. {f.bytes : f \in disk} = {target.bytes}
  BY <1>1
<1>3. QED
  BY <1>1, <1>2 DEF Abstract!Init, Abstract!Contents

(* Every step is one of AtomicFile's, or none.                             *)
LEMMA NextMaps ==
  IInv /\ [Next]_vars
    => [Abstract!Next]_<<target.bytes, {f.bytes : f \in disk}>>
<1>0. UNCHANGED <<target, disk>>
        => UNCHANGED <<target.bytes, {f.bytes : f \in disk}>>
  OBVIOUS
<1>1. UNCHANGED vars => UNCHANGED <<target, disk>>
  BY DEF vars
<1> SUFFICES ASSUME IInv, Next, ~UNCHANGED <<target, disk>>
             PROVE  Abstract!Next
  BY <1>0, <1>1
<1>2. ASSUME NEW w \in Writer, Commit(w) PROVE Abstract!Replace
  <2>1. temp[w].bytes \in Data
    BY <1>2 DEF Commit, Goto, IInv, TempInv
  <2>2. /\ target'.bytes = temp[w].bytes
        /\ {f.bytes : f \in disk'} = {f.bytes : f \in disk} \cup {temp[w].bytes}
    BY <1>2 DEF Commit
  <2>3. QED
    BY <2>1, <2>2 DEF Abstract!Replace
<1>3. ASSUME NEW w \in Writer, SyncDir(w) PROVE Abstract!Settle
  BY <1>3 DEF SyncDir, Abstract!Settle
<1>4. CASE PowerLoss
  <2>1. PICK f \in disk : target' = f /\ disk' = {f}
    BY <1>4, SurvivorsOfWhole DEF PowerLoss, IInv
  <2>2. QED
    BY <2>1 DEF Abstract!PowerLoss, Abstract!Next
<1>5. QED
  BY <1>2, <1>3, <1>4
     DEF Next, Abstract!Next, CreateTemp, WriteTemp, SyncTemp, WriteFails,
         SyncFails, CommitFails, RemoveTemp, RemoveFails, SyncDirFails, Kill

(* atomic_write implements the file that is replaced atomically.           *)
THEOREM Refinement == Spec => ReplacedAtomically
  BY InitMaps, NextMaps, Invariant, PTL
     DEF Spec, ReplacedAtomically, Abstract!Spec
=============================================================================
