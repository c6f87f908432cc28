------------------------------ MODULE Names_proofs ------------------------------
(***************************************************************************)
(* For any files, stems, typed names, file systems and bounds: the types   *)
(* of Names, that nothing is replaced, that what is created is shown, and  *)
(* that the name proposed is free.                                         *)
(***************************************************************************)
EXTENDS Names, FiniteSetTheorems, TLAPS

(* What the command in hand has settled.                                   *)
OpShape ==
  /\ op \in [step : {"idle", "suggested", "rename", "park"},
             from : Name \cup {None}, to : Name \cup {None},
             file : File \cup {None}, calm : BOOLEAN]
  /\ op.step # "idle" => op.to \in Name
  /\ op.step = "park" => op.file \in File

TypeInv == TypeOK /\ OpShape

(* What has the name a rename or a conflict copy is about to take is the   *)
(* entry to be renamed, or no file, or a file that came after the check.   *)
OnlyRacedInTheWay ==
  op.step \in {"rename", "park"} =>
    \A m \in DOMAIN dir : Key(m) = Key(op.to) =>
      \/ op.step = "rename" /\ m = op.from
      \/ dir[m] \notin File \/ dir[m] \in raced

(* What New Note and New Folder made is there, and in nobody's way.        *)
FreshIsThere ==
  /\ fresh \subseteq DOMAIN dir
  /\ op.step \in {"rename", "park"} =>
       \A n \in fresh : Key(n) = Key(op.to) => op.step = "rename" /\ n = op.from

-----------------------------------------------------------------------------
(* Names.                                                                  *)

(* A set of the numbers tried, if not empty, has a least one: the one with *)
(* the fewest before it.                                                   *)
LEMMA LeastIs ==
  ASSUME NEW N \in Nat, NEW S \in SUBSET (1..N), S # {}
  PROVE  \E n \in S : \A k \in S : n <= k
<1> DEFINE Prior(n) == {k \in S : k < n}
           T == {Prior(n) : n \in S}
<1>0. IsFiniteSet(S) /\ S \subseteq Nat
  <2>1. IsFiniteSet(1..N)
    BY FS_Interval
  <2>2. S \subseteq 1..N
    OBVIOUS
  <2>3. IsFiniteSet(S)
    BY <2>1, <2>2, FS_Subset
  <2>4. QED
    BY <2>2, <2>3
<1>1. T \subseteq FiniteSubsetsOf(S) /\ T # {}
  <2>1. \A n \in S : Prior(n) \in SUBSET S /\ IsFiniteSet(Prior(n))
    BY <1>0, FS_Subset
  <2>2. QED
    BY <2>1 DEF FiniteSubsetsOf
<1>2. PICK X \in T : \A Y \in T : ~(<<Y, X>> \in StrictSubsetOrdering(S))
  <2> HIDE DEF T
  <2>1. QED
    BY <1>0, <1>1, FS_StrictSubsetOrderingWellFounded, WFMin
<1>3. PICK n \in S : X = Prior(n)
  OBVIOUS
<1>4. ASSUME NEW k \in S, k < n PROVE FALSE
  <2>1. Prior(k) \subseteq Prior(n) /\ k \in Prior(n) /\ k \notin Prior(k)
    <3>1. k \in Nat /\ n \in Nat
      BY <1>0
    <3>2. \A j \in S : j < k => j < n
      BY <1>0, <1>4, <3>1
    <3>3. k \in Prior(n)
      BY <1>4
    <3>4. k \notin Prior(k)
      BY <3>1
    <3>5. Prior(k) \subseteq Prior(n)
      BY <3>2
    <3>6. QED
      BY <3>3, <3>4, <3>5
  <2>2. <<Prior(k), X>> \in StrictSubsetOrdering(S)
    BY <2>1, <1>3 DEF StrictSubsetOrdering
  <2>3. QED
    BY <2>2, <1>2
<1>5. \A k \in S : n <= k
  BY <1>0, <1>4
<1>6. QED
  BY <1>5

(* A name that a note may be given is left alone when it is taken up; one  *)
(* that it may not have gets what it lacks, and stays the same otherwise.  *)
LEMMA NoteNames ==
  ASSUME NEW n \in Name
  PROVE  /\ WithNoteExtension(n) \in Name
         /\ WithNoteExtension(n).stem = n.stem
         /\ IsMarkdown(WithNoteExtension(n)) \/ WithNoteExtension(n).tail = "html"
         /\ WithNoteExtension(WithNoteExtension(n)) = WithNoteExtension(n)
<1>1. QED
  BY DEF WithNoteExtension, LastExtension, NoteExtensions, IsMarkdown, Name, Tails

(* The names proposed, and those of conflict copies.                       *)
LEMMA ProposedNames ==
  ASSUME NEW n \in 1..MaxTries
  PROVE  /\ Numbered(n) \in Name /\ Copy(n) \in Name
         /\ Valid(Numbered(n)) /\ WithNoteExtension(Numbered(n)) = Numbered(n)
BY StemAssumption DEF Numbered, Copy, Name, Tails, Valid, WithNoteExtension,
  LastExtension, NoteExtensions

(* available_note_name() proposes a free name, if there is one.            *)
LEMMA Available ==
  /\ \E n \in 1..MaxTries : AvailableNoteName = Numbered(n)
  /\ ~Occupied(AvailableNoteName) \/ \A n \in 1..MaxTries : Occupied(Numbered(n))
<1>1. CASE Free = {}
  <2>1. \A n \in 1..MaxTries : Occupied(Numbered(n))
    BY <1>1 DEF Free
  <2>2. AvailableNoteName = Numbered(1) /\ 1 \in 1..MaxTries
    BY <1>1, BoundAssumption DEF AvailableNoteName
  <2>3. QED
    BY <2>1, <2>2
<1>2. CASE Free # {}
  <2> DEFINE least == CHOOSE n \in Free : \A k \in Free : n <= k
  <2>1. Free \in SUBSET (1..MaxTries) /\ MaxTries \in Nat
    BY BoundAssumption DEF Free
  <2>2. \E n \in Free : \A k \in Free : n <= k
    BY <2>1, <1>2, LeastIs
  <2>3. least \in Free
    BY <2>2
  <2>4. AvailableNoteName = Numbered(least)
    BY <1>2 DEF AvailableNoteName
  <2> HIDE DEF least
  <2>5. QED
    BY <2>1, <2>3, <2>4 DEF Free
<1>3. QED
  BY <1>1, <1>2

(* unique_conflict_path() finds one that is free.                          *)
LEMMA ParkedUnderFreeName ==
  ASSUME NEW f \in File, UniqueConflictPath(f)
  PROVE  /\ op' \in [step : {"park"}, from : {None}, to : Name, file : File,
                     calm : BOOLEAN]
         /\ ~Occupied(op'.to)
<1> DEFINE least == CHOOSE n \in FreeCopy : \A k \in FreeCopy : n <= k
<1>1. FreeCopy \in SUBSET (1..MaxTries) /\ MaxTries \in Nat /\ FreeCopy # {}
  BY BoundAssumption DEF FreeCopy, UniqueConflictPath
<1>2. \E n \in FreeCopy : \A k \in FreeCopy : n <= k
  BY <1>1, LeastIs
<1>3. least \in FreeCopy
  BY <1>2
<1>4. op' = [Idle EXCEPT !.step = "park", !.file = f, !.to = Copy(least)]
  BY DEF UniqueConflictPath
<1> HIDE DEF least
<1>5. least \in 1..MaxTries /\ ~Occupied(Copy(least))
  BY <1>1, <1>3 DEF FreeCopy
<1>6. Copy(least) \in Name
  BY <1>5, ProposedNames
<1>7. op' = [step |-> "park", from |-> None, to |-> Copy(least), file |-> f,
             calm |-> TRUE]
  BY <1>4 DEF Idle
<1>8. QED
  BY <1>5, <1>6, <1>7

(* A name put into the folder where none like it was.                      *)
LEMMA PutKeepsNames ==
  ASSUME TypeOK, NEW n \in Name, ~Occupied(n),
         NEW entry \in File \cup {"empty", "assets"},
         dir' = Put(dir, n, entry)
  PROVE  /\ DOMAIN dir' = DOMAIN dir \cup {n}
         /\ n \notin DOMAIN dir
         /\ dir'[n] = entry
         /\ \A m \in DOMAIN dir : dir'[m] = dir[m]
         /\ DOMAIN dir' \subseteq Name
         /\ \A m \in DOMAIN dir' : dir'[m] \in File \cup {"empty", "assets"}
         /\ \A m, k \in DOMAIN dir' : Key(m) = Key(k) => m = k
<1>1. n \notin DOMAIN dir /\ \A m \in DOMAIN dir : Key(m) # Key(n)
  BY DEF Occupied
<1>2. DOMAIN dir' = DOMAIN dir \cup {n} /\ dir'[n] = entry
  BY DEF Put
<1>3. \A m \in DOMAIN dir : dir'[m] = dir[m]
  BY <1>1 DEF Put
<1>4. QED
  BY <1>1, <1>2, <1>3 DEF TypeOK

(* A name put into the folder in the place of those like it.               *)
LEMMA ReplaceKeepsNames ==
  ASSUME TypeOK, NEW n \in Name, NEW entry \in File \cup {"empty", "assets"},
         NEW rest, DOMAIN rest \subseteq DOMAIN dir,
         \A m \in DOMAIN rest : rest[m] = dir[m],
         dir' = Replace(rest, n, entry)
  PROVE  /\ DOMAIN dir' = {m \in DOMAIN rest : Key(m) # Key(n)} \cup {n}
         /\ dir'[n] = entry
         /\ \A m \in DOMAIN rest : Key(m) # Key(n) => dir'[m] = dir[m]
         /\ DOMAIN dir' \subseteq Name
         /\ \A m \in DOMAIN dir' : dir'[m] \in File \cup {"empty", "assets"}
         /\ \A m, k \in DOMAIN dir' : Key(m) = Key(k) => m = k
<1>1. /\ DOMAIN dir' = {m \in DOMAIN rest : Key(m) # Key(n)} \cup {n}
      /\ dir'[n] = entry
  BY DEF Replace, Put
<1>2. \A m \in DOMAIN rest : Key(m) # Key(n) => dir'[m] = dir[m]
  BY DEF Replace, Put
<1>3. QED
  BY <1>1, <1>2 DEF TypeOK

(* What a rename and a conflict copy leave in the folder.                  *)
LEMMA Renamed ==
  ASSUME TypeInv, Rename
  PROVE  /\ dir' = Replace(Drop(dir, op.from), op.to, dir[op.from])
         /\ op.to \in Name /\ dir[op.from] \in File \cup {"empty", "assets"}
         /\ DOMAIN Drop(dir, op.from) = DOMAIN dir \ {op.from}
         /\ \A m \in DOMAIN Drop(dir, op.from) : Drop(dir, op.from)[m] = dir[m]
         /\ op' = Idle /\ fresh' = fresh \ {op.from, op.to}
         /\ UNCHANGED <<made, raced, steps>>
BY DEF TypeInv, TypeOK, OpShape, Rename, Drop

-----------------------------------------------------------------------------
(* The types.                                                              *)

(* Every step keeps the types.                                             *)
LEMMA NextTypes == TypeInv /\ [Next]_vars => TypeInv'
<1> SUFFICES ASSUME TypeInv, [Next]_vars PROVE TypeInv'
  OBVIOUS
<1> USE FileAssumption, BoundAssumption
<1>0. TypeOK /\ OpShape
  BY DEF TypeInv
<1>1. Idle \in [step : {"idle"}, from : {None}, to : {None}, file : {None},
                calm : BOOLEAN]
  BY DEF Idle
<1>2. ASSUME Begin PROVE steps' \in 0..MaxSteps
  BY <1>0, <1>2 DEF Begin, TypeOK
<1>3. CASE Suggest
  <2>1. AvailableNoteName \in Name
    BY Available, ProposedNames
  <2>2. op' = [step |-> "suggested", from |-> None, to |-> AvailableNoteName,
               file |-> None, calm |-> TRUE]
    BY <1>3 DEF Suggest, Idle
  <2>3. UNCHANGED <<dir, made, fresh, raced>> /\ Begin
    BY <1>3 DEF Suggest
  <2>4. OpShape'
    BY <2>1, <2>2 DEF OpShape
  <2>5. QED
    BY <1>0, <1>2, <2>1, <2>2, <2>3, <2>4 DEF TypeInv, TypeOK
<1>4. CASE Cancel \/ RenameFails \/ ParkFails
  BY <1>0, <1>1, <1>4
     DEF Cancel, RenameFails, ParkFails, TypeInv, TypeOK, OpShape
<1>5. ASSUME NEW n \in Typed \cup {op.to}, NEW f \in File, CreateNote(n, f)
      PROVE  TypeInv'
  <2> DEFINE m == WithNoteExtension(n)
  <2>1. n \in Name
    BY <1>0, <1>5, TypedAssumption DEF CreateNote, OpShape
  <2>2. m \in Name
    BY <2>1, NoteNames
  <2>3. ~Occupied(m) /\ dir' = Put(dir, m, f) /\ fresh' = fresh \cup {m}
    BY <1>5 DEF CreateNote, Place
  <2>4. made' = made \cup {f} /\ op' = Idle /\ UNCHANGED <<raced, steps>>
    BY <1>5 DEF CreateNote
  <2> HIDE DEF m
  <2>5. QED
    BY <1>0, <1>1, <2>2, <2>3, <2>4, PutKeepsNames, ZenonT(60) DEF TypeInv, TypeOK, OpShape
<1>6. ASSUME NEW n \in Typed, CreateFolder(n) PROVE TypeInv'
  <2>1. n \in Name /\ ~Occupied(n) /\ dir' = Put(dir, n, "empty")
        /\ fresh' = fresh \cup {n} /\ UNCHANGED <<op, made, raced>> /\ Begin
    BY <1>6, TypedAssumption DEF CreateFolder, Place
  <2>2. QED
    BY <1>0, <1>2, <2>1, PutKeepsNames, ZenonT(60) DEF TypeInv, TypeOK, OpShape
<1>7. ASSUME NEW n \in DOMAIN dir, NEW to \in Typed, CheckRename(n, to)
      PROVE  TypeInv'
  <2>1. n \in Name /\ to \in Name
    BY <1>0, TypedAssumption DEF TypeOK
  <2>2. op' = [step |-> "rename", from |-> n, to |-> to, file |-> None,
               calm |-> TRUE]
    BY <1>7 DEF CheckRename, Idle
  <2>3. UNCHANGED <<dir, made, fresh, raced>> /\ Begin
    BY <1>7 DEF CheckRename
  <2>4. OpShape'
    BY <2>1, <2>2 DEF OpShape
  <2>5. QED
    BY <1>0, <1>2, <2>1, <2>2, <2>3, <2>4 DEF TypeInv, TypeOK
<1>8. CASE Rename
  <2>1. DOMAIN Drop(dir, op.from) \subseteq DOMAIN dir
    BY <1>8, Renamed
  <2>2. /\ DOMAIN dir' \subseteq Name
        /\ \A m \in DOMAIN dir' : dir'[m] \in File \cup {"empty", "assets"}
        /\ \A m, k \in DOMAIN dir' : Key(m) = Key(k) => m = k
    <3> DEFINE rest == Drop(dir, op.from)
               entry == dir[op.from]
               n == op.to
    <3>1. /\ n \in Name /\ entry \in File \cup {"empty", "assets"}
          /\ DOMAIN rest \subseteq DOMAIN dir
          /\ \A m \in DOMAIN rest : rest[m] = dir[m]
          /\ dir' = Replace(rest, n, entry)
      BY <1>8, <2>1, Renamed
    <3> HIDE DEF rest, entry, n
    <3>2. QED
      BY <1>0, <3>1, ReplaceKeepsNames
  <2>3. QED
    BY <1>0, <1>1, <1>8, <2>2, Renamed DEF TypeInv, TypeOK, OpShape
<1>9. ASSUME NEW f \in File, UniqueConflictPath(f) PROVE TypeInv'
  <2>1. op' \in [step : {"park"}, from : {None}, to : Name, file : File,
                 calm : BOOLEAN]
    BY <1>9, ParkedUnderFreeName
  <2>2. QED
    BY <1>0, <1>2, <1>9, <2>1 DEF UniqueConflictPath, TypeInv, TypeOK, OpShape
<1>10. CASE WriteConflictCopy
  <2>1. /\ op.to \in Name /\ op.file \in File /\ op' = Idle
        /\ dir' = Replace(dir, op.to, op.file) /\ made' = made \cup {op.file}
        /\ UNCHANGED <<fresh, raced, steps>>
    BY <1>0, <1>10 DEF WriteConflictCopy, OpShape
  <2>2. /\ DOMAIN dir' \subseteq Name
        /\ \A m \in DOMAIN dir' : dir'[m] \in File \cup {"empty", "assets"}
        /\ \A m, k \in DOMAIN dir' : Key(m) = Key(k) => m = k
    BY <1>0, <2>1, ReplaceKeepsNames
  <2>3. QED
    BY <1>0, <1>1, <2>1, <2>2 DEF TypeInv, TypeOK, OpShape
<1>11. ASSUME NEW n \in Typed, NEW entry \in {"empty", "assets"} \cup File,
              Outside(n, entry)
       PROVE  TypeInv'
  <2>1. n \in Name
    BY TypedAssumption
  <2>2. /\ steps' \in 0..MaxSteps /\ op' = [op EXCEPT !.calm = FALSE]
        /\ made' = made \cup ({entry} \cap File)
        /\ raced' \subseteq raced \cup ({entry} \cap File)
        /\ fresh' \subseteq fresh
    BY <1>0, <1>11 DEF Outside, TypeOK
  <2>3. /\ DOMAIN dir' \subseteq Name
        /\ \A m \in DOMAIN dir' : dir'[m] \in File \cup {"empty", "assets"}
        /\ \A m, k \in DOMAIN dir' : Key(m) = Key(k) => m = k
    <3>1. CASE ~Occupied(n) /\ dir' = Put(dir, n, entry)
      BY <1>0, <2>1, <3>1, PutKeepsNames
    <3>2. CASE n \in DOMAIN dir /\ dir' = Put(dir, n, entry)
      BY <1>0, <2>1, <3>2 DEF Put, TypeOK
    <3>3. QED
      BY <1>11, <3>1, <3>2 DEF Outside
  <2>4. QED
    BY <1>0, <2>2, <2>3 DEF TypeInv, TypeOK, OpShape
<1>12. CASE UNCHANGED vars
  BY <1>0, <1>12 DEF vars, TypeInv, TypeOK, OpShape
<1>13. QED
  BY <1>3, <1>4, <1>5, <1>6, <1>7, <1>8, <1>9, <1>10, <1>11, <1>12 DEF Next

(* The types, with what the command in hand has settled.                   *)
THEOREM TypeInvariant == Spec => []TypeInv
<1>1. Init => TypeInv
  BY BoundAssumption, FileAssumption DEF Init, Idle, TypeInv, TypeOK, OpShape
<1>2. QED
  BY <1>1, NextTypes, PTL DEF Spec

(* Every variable keeps to its type, and no two entries of a folder have   *)
(* one name, on a file system that folds capitals and on one that does not.*)
THEOREM TypeCorrect == Spec => []TypeOK
<1>1. TypeInv => TypeOK
  BY DEF TypeInv
<1>2. QED
  BY <1>1, TypeInvariant, PTL

-----------------------------------------------------------------------------
(* Nothing is replaced.                                                    *)

(* Only a check, and another program beside a command, concern what is in  *)
(* the way of a name.                                                      *)
LEMMA NextInTheWay ==
  TypeInv /\ OnlyRacedInTheWay /\ [Next]_vars => OnlyRacedInTheWay'
<1> SUFFICES ASSUME TypeInv, OnlyRacedInTheWay, [Next]_vars
             PROVE  OnlyRacedInTheWay'
  OBVIOUS
<1> USE FileAssumption
<1>0. TypeOK /\ OpShape
  BY DEF TypeInv
<1>1. Idle.step = "idle"
  BY DEF Idle
<1>2. ASSUME op'.step \notin {"rename", "park"} PROVE OnlyRacedInTheWay'
  BY <1>2 DEF OnlyRacedInTheWay
<1>3. CASE Suggest \/ Cancel \/ RenameFails \/ ParkFails \/ Rename \/ WriteConflictCopy
  <2>1. op'.step \in {"suggested", "idle"}
    BY <1>1, <1>3
       DEF Suggest, Idle, Cancel, RenameFails, ParkFails, Rename, WriteConflictCopy
  <2>2. QED
    BY <1>2, <2>1
<1>4. ASSUME NEW n, NEW f, CreateNote(n, f) PROVE OnlyRacedInTheWay'
  BY <1>1, <1>2, <1>4 DEF CreateNote
<1>5. ASSUME NEW n, CreateFolder(n) PROVE OnlyRacedInTheWay'
  BY <1>2, <1>5 DEF CreateFolder, Begin
<1>6. ASSUME NEW n \in DOMAIN dir, NEW to \in Typed, CheckRename(n, to)
      PROVE  OnlyRacedInTheWay'
  <2>1. op'.step = "rename" /\ op'.from = n /\ op'.to = to
        /\ UNCHANGED <<dir, raced>>
    BY <1>6 DEF CheckRename, Idle
  <2>2. ASSUME NEW m \in DOMAIN dir, Key(m) = Key(to) PROVE m = n
    <3>1. OnDisk(to) \in DOMAIN dir /\ Key(OnDisk(to)) = Key(to)
      BY <2>2 DEF OnDisk
    <3>2. Occupied(to)
      BY <2>2 DEF Occupied
    <3>3. OnDisk(to) = n
      BY <1>6, <3>2 DEF CheckRename
    <3>4. QED
      BY <1>0, <2>2, <3>1, <3>3 DEF TypeOK
  <2>3. QED
    BY <2>1, <2>2 DEF OnlyRacedInTheWay
<1>7. ASSUME NEW f \in File, UniqueConflictPath(f) PROVE OnlyRacedInTheWay'
  <2>1. ~Occupied(op'.to) /\ UNCHANGED dir
    BY <1>7, ParkedUnderFreeName DEF UniqueConflictPath
  <2>2. QED
    BY <2>1 DEF OnlyRacedInTheWay, Occupied
<1>8. ASSUME NEW n \in Typed, NEW entry \in {"empty", "assets"} \cup File,
             Outside(n, entry)
      PROVE  OnlyRacedInTheWay'
  <2>1. SUFFICES ASSUME op.step \in {"rename", "park"} PROVE OnlyRacedInTheWay'
    <3>1. op'.step = op.step
      BY <1>0, <1>8 DEF Outside, OpShape
    <3>2. QED
      BY <1>2, <2>1, <3>1
  <2>2. op'.step = op.step /\ op'.to = op.to /\ op'.from = op.from
    BY <1>0, <1>8 DEF Outside, OpShape
  <2>3. raced' = raced \cup ({entry} \cap File)
    BY <1>8, <2>1 DEF Outside
  <2>4. dir' = Put(dir, n, entry)
    BY <1>8 DEF Outside
  <2>5. \A m \in DOMAIN dir' : \/ m = n /\ dir'[m] = entry
                               \/ m \in DOMAIN dir /\ dir'[m] = dir[m]
    BY <2>4 DEF Put
  <2>6. QED
    BY <2>2, <2>3, <2>5 DEF OnlyRacedInTheWay
<1>9. CASE UNCHANGED vars
  BY <1>9 DEF vars, OnlyRacedInTheWay
<1>10. QED
  BY <1>3, <1>4, <1>5, <1>6, <1>7, <1>8, <1>9 DEF Next

(* Files stay in the folder under one name or another: a step that keeps   *)
(* the files of the folder, and makes no other, replaces none.             *)
LEMMA FilesKept ==
  ASSUME NothingReplaced,
         \A f \in made' : f \in raced' \/ \/ \E n \in DOMAIN dir' : dir'[n] = f
                                          \/ f \in made,
         raced \subseteq raced',
         \A m \in DOMAIN dir : dir[m] \in made =>
            dir[m] \in raced' \/ \E n \in DOMAIN dir' : dir'[n] = dir[m]
  PROVE  NothingReplaced'
BY DEF NothingReplaced

(* Every step keeps every file but those raced.                            *)
LEMMA NextReplaced ==
  TypeInv /\ OnlyRacedInTheWay /\ NothingReplaced /\ [Next]_vars => NothingReplaced'
<1> SUFFICES ASSUME TypeInv, OnlyRacedInTheWay, NothingReplaced, [Next]_vars
             PROVE  NothingReplaced'
  OBVIOUS
<1> USE FileAssumption
<1>0. TypeOK /\ OpShape /\ made \subseteq File
  BY DEF TypeInv, TypeOK
<1>1. ASSUME NEW n \in Name, NEW entry \in File \cup {"empty", "assets"},
             ~Occupied(n), dir' = Put(dir, n, entry), raced \subseteq raced',
             made' = made \cup ({entry} \cap File)
      PROVE  NothingReplaced'
  <2>1. /\ DOMAIN dir' = DOMAIN dir \cup {n} /\ dir'[n] = entry
        /\ \A m \in DOMAIN dir : dir'[m] = dir[m]
    BY <1>0, <1>1, PutKeepsNames
  <2>2. QED
    BY <1>1, <2>1, FilesKept
<1>2. CASE UNCHANGED <<dir, made, raced>>
  BY <1>2 DEF NothingReplaced
<1>3. ASSUME NEW n \in Typed \cup {op.to}, NEW f \in File, CreateNote(n, f)
      PROVE  NothingReplaced'
  <2> DEFINE m == WithNoteExtension(n)
  <2>1. m \in Name
    BY <1>0, <1>3, TypedAssumption, NoteNames DEF CreateNote, OpShape
  <2>2. ~Occupied(m) /\ dir' = Put(dir, m, f) /\ raced' = raced
        /\ made' = made \cup ({f} \cap File)
    BY <1>3 DEF CreateNote, Place
  <2> HIDE DEF m
  <2>3. QED
    BY <1>1, <2>1, <2>2
<1>4. ASSUME NEW n \in Typed, CreateFolder(n) PROVE NothingReplaced'
  <2>1. n \in Name /\ ~Occupied(n) /\ dir' = Put(dir, n, "empty")
        /\ raced' = raced /\ made' = made \cup ({"empty"} \cap File)
    BY <1>4, TypedAssumption DEF CreateFolder, Place
  <2>2. QED
    BY <1>1, <2>1
<1>5. CASE Rename
  <2> DEFINE rest == Drop(dir, op.from)
             entry == dir[op.from]
             n == op.to
  <2>1. /\ n \in Name /\ entry \in File \cup {"empty", "assets"}
        /\ DOMAIN rest = DOMAIN dir \ {op.from}
        /\ \A m \in DOMAIN rest : rest[m] = dir[m]
        /\ dir' = Replace(rest, n, entry)
        /\ UNCHANGED <<made, raced>>
    BY <1>0, <1>5, Renamed
  <2>2. /\ op.step = "rename"
        /\ \A m \in DOMAIN rest : Key(m) = Key(n) => MayReplace(entry, rest[m])
    BY <1>5 DEF Rename
  <2>3. \A m \in DOMAIN rest : Key(m) = Key(n) =>
          dir[m] \notin File \/ dir[m] \in raced
    BY <2>1, <2>2 DEF OnlyRacedInTheWay
  <2> HIDE DEF rest, entry
  <2>4. DOMAIN rest \subseteq DOMAIN dir
    BY <2>1
  <2> HIDE DEF n
  <2>5. /\ DOMAIN dir' = {m \in DOMAIN rest : Key(m) # Key(n)} \cup {n}
        /\ dir'[n] = entry
        /\ \A m \in DOMAIN rest : Key(m) # Key(n) => dir'[m] = dir[m]
    BY <1>0, <2>1, <2>4, ReplaceKeepsNames, ZenonT(60)
  <2>6. ASSUME NEW m \in DOMAIN dir, dir[m] \in made
        PROVE  dir[m] \in raced' \/ \E k \in DOMAIN dir' : dir'[k] = dir[m]
    <3>1. CASE m = op.from
      BY <2>5, <3>1 DEF entry
    <3>2. CASE m # op.from /\ Key(m) = Key(n)
      BY <1>0, <2>1, <2>3, <2>6, <3>2
    <3>3. CASE m # op.from /\ Key(m) # Key(n)
      BY <2>1, <2>5, <3>3
    <3>4. QED
      BY <3>1, <3>2, <3>3
  <2>7. QED
    BY <2>1, <2>6, FilesKept
<1>6. CASE WriteConflictCopy
  <2>1. /\ op.step = "park" /\ op.to \in Name /\ op.file \in File
        /\ dir' = Replace(dir, op.to, op.file) /\ made' = made \cup {op.file}
        /\ raced' = raced
    BY <1>0, <1>6 DEF WriteConflictCopy, OpShape
  <2>2. /\ DOMAIN dir' = {m \in DOMAIN dir : Key(m) # Key(op.to)} \cup {op.to}
        /\ dir'[op.to] = op.file
        /\ \A m \in DOMAIN dir : Key(m) # Key(op.to) => dir'[m] = dir[m]
    BY <1>0, <2>1, ReplaceKeepsNames
  <2>3. \A m \in DOMAIN dir : Key(m) = Key(op.to) =>
          dir[m] \notin File \/ dir[m] \in raced
    BY <2>1 DEF OnlyRacedInTheWay
  <2>4. ASSUME NEW m \in DOMAIN dir, dir[m] \in made
        PROVE  dir[m] \in raced' \/ \E k \in DOMAIN dir' : dir'[k] = dir[m]
    BY <1>0, <2>1, <2>2, <2>3, <2>4
  <2>5. QED
    BY <2>1, <2>2, <2>4, FilesKept
<1>7. ASSUME NEW n \in Typed, NEW entry \in {"empty", "assets"} \cup File,
             Outside(n, entry)
      PROVE  NothingReplaced'
  <2>1. n \in Name /\ dir' = Put(dir, n, entry) /\ raced \subseteq raced'
        /\ made' = made \cup ({entry} \cap File)
    BY <1>7, TypedAssumption DEF Outside
  <2>2. CASE ~Occupied(n)
    BY <1>1, <2>1, <2>2
  <2>3. CASE Occupied(n)
    <3>1. n \in DOMAIN dir /\ dir[n] = "empty" /\ entry = "assets"
      BY <1>7, <2>3 DEF Outside
    <3>2. DOMAIN dir' = DOMAIN dir
          /\ \A m \in DOMAIN dir : m # n => dir'[m] = dir[m]
      BY <2>1, <3>1 DEF Put
    <3>3. made' = made
      BY <2>1, <3>1
    <3>4. ASSUME NEW m \in DOMAIN dir, dir[m] \in made
          PROVE  dir[m] \in raced' \/ \E k \in DOMAIN dir' : dir'[k] = dir[m]
      BY <1>0, <3>1, <3>2, <3>4
    <3>5. QED
      BY <2>1, <3>3, <3>4, FilesKept
  <2>4. QED
    BY <2>2, <2>3
<1>8. CASE Suggest \/ Cancel \/ RenameFails \/ ParkFails \/ UNCHANGED vars
  <2>1. UNCHANGED <<dir, made, raced>>
    BY <1>8 DEF Suggest, Cancel, RenameFails, ParkFails, vars
  <2>2. QED
    BY <1>2, <2>1
<1>9. ASSUME NEW n, NEW to, CheckRename(n, to) PROVE NothingReplaced'
  BY <1>2, <1>9 DEF CheckRename
<1>10. ASSUME NEW f, UniqueConflictPath(f) PROVE NothingReplaced'
  BY <1>2, <1>10 DEF UniqueConflictPath
<1>11. QED
  BY <1>3, <1>4, <1>5, <1>6, <1>7, <1>8, <1>9, <1>10 DEF Next

(* A rename and a conflict copy replace no file but one that another       *)
(* program made between the check and the write: a name taken before the   *)
(* check is refused or passed over, on a file system that folds capitals   *)
(* as on one that does not.                                                *)
THEOREM NoFileReplaced == Spec => []NothingReplaced
<1>1. Init => OnlyRacedInTheWay /\ NothingReplaced
  BY DEF Init, Idle, OnlyRacedInTheWay, NothingReplaced
<1>2. QED
  BY <1>1, NextInTheWay, NextReplaced, TypeInvariant, PTL DEF Spec

-----------------------------------------------------------------------------
(* What is created is shown.                                               *)

Visible == FreshIsThere /\ CreatedIsShown

(* A name that is shown, or is not to be.                                  *)
Seen(n) == Shown(n) \/ n.stem \in Hidden \/ n.tail = "html"

(* What is created is shown if all of it is seen.                          *)
LEMMA SeenBy ==
  /\ CreatedIsShown <=> \A n \in fresh : n \in DOMAIN dir => Seen(n)
  /\ CreatedIsShown' <=> \A n \in fresh' : n \in DOMAIN dir' => Seen(n)'
BY DEF CreatedIsShown, Seen

(* An entry that stays as it was is shown as it was.                       *)
LEMMA SeenStays ==
  ASSUME NEW n, dir'[n] = dir[n], Seen(n)
  PROVE  Seen(n)'
BY DEF Seen, Shown

(* Every step keeps what was created in sight.                             *)
LEMMA NextVisible == TypeInv /\ Visible /\ [Next]_vars => Visible'
<1> SUFFICES ASSUME TypeInv, Visible, [Next]_vars PROVE Visible'
  OBVIOUS
<1> USE FileAssumption
<1>0. TypeOK /\ OpShape /\ fresh \subseteq DOMAIN dir
      /\ \A n \in fresh : Seen(n)
  BY SeenBy DEF TypeInv, Visible, FreshIsThere
<1>1. Idle.step = "idle"
  BY DEF Idle
<1>2. ASSUME fresh' \subseteq DOMAIN dir', \A n \in fresh' : Seen(n)',
             \/ op'.step \notin {"rename", "park"}
             \/ \A n \in fresh' : Key(n) = Key(op'.to) =>
                  op'.step = "rename" /\ n = op'.from
      PROVE  Visible'
  BY <1>2, SeenBy DEF Visible, FreshIsThere
<1>3. ASSUME UNCHANGED <<dir, fresh>>, op'.step \notin {"rename", "park"}
      PROVE  Visible'
  <2>1. \A n \in fresh' : Seen(n)'
    BY <1>0, <1>3, SeenStays
  <2>2. QED
    BY <1>0, <1>2, <1>3, <2>1
<1>4. ASSUME NEW n \in Name, NEW entry \in File \cup {"empty"},
             ~Occupied(n), dir' = Put(dir, n, entry),
             fresh' = fresh \cup {n}, op'.step \notin {"rename", "park"},
             entry = "empty" \/ IsMarkdown(n) \/ n.tail = "html"
      PROVE  Visible'
  <2>1. /\ DOMAIN dir' = DOMAIN dir \cup {n} /\ dir'[n] = entry
        /\ \A m \in DOMAIN dir : dir'[m] = dir[m]
    BY <1>0, <1>4, PutKeepsNames
  <2>2. Seen(n)'
    BY <1>4, <2>1 DEF Seen, Shown, IsFolder
  <2>3. \A m \in fresh : Seen(m)'
    BY <1>0, <2>1, SeenStays
  <2>4. QED
    BY <1>0, <1>2, <1>4, <2>1, <2>2, <2>3
<1>5. ASSUME NEW n \in Typed \cup {op.to}, NEW f \in File, CreateNote(n, f)
      PROVE  Visible'
  <2> DEFINE m == WithNoteExtension(n)
  <2>1. m \in Name /\ (IsMarkdown(m) \/ m.tail = "html")
    BY <1>0, <1>5, TypedAssumption, NoteNames DEF CreateNote, OpShape
  <2>2. ~Occupied(m) /\ dir' = Put(dir, m, f) /\ fresh' = fresh \cup {m}
        /\ op'.step = "idle"
    BY <1>1, <1>5 DEF CreateNote, Place
  <2> HIDE DEF m
  <2>3. QED
    BY <1>4, <2>1, <2>2
<1>6. ASSUME NEW n \in Typed, CreateFolder(n) PROVE Visible'
  <2>1. n \in Name /\ ~Occupied(n) /\ dir' = Put(dir, n, "empty")
        /\ fresh' = fresh \cup {n} /\ op'.step = "idle"
    BY <1>6, TypedAssumption DEF CreateFolder, Place, Begin
  <2>2. QED
    BY <1>4, <2>1
<1>7. CASE Rename
  <2> DEFINE rest == Drop(dir, op.from)
             entry == dir[op.from]
             n == op.to
  <2>1. /\ n \in Name /\ entry \in File \cup {"empty", "assets"}
        /\ DOMAIN rest = DOMAIN dir \ {op.from}
        /\ \A m \in DOMAIN rest : rest[m] = dir[m]
        /\ dir' = Replace(rest, n, entry)
        /\ fresh' = fresh \ {op.from, n} /\ op' = Idle
    BY <1>0, <1>7, Renamed
  <2>2. \A m \in fresh : Key(m) = Key(n) => m = op.from
    BY <1>7 DEF Rename, Visible, FreshIsThere
  <2> HIDE DEF rest, entry
  <2>3. DOMAIN rest \subseteq DOMAIN dir
    BY <2>1
  <2> HIDE DEF n
  <2>4. /\ DOMAIN dir' = {m \in DOMAIN rest : Key(m) # Key(n)} \cup {n}
        /\ \A m \in DOMAIN rest : Key(m) # Key(n) => dir'[m] = dir[m]
    BY <1>0, <2>1, <2>3, ReplaceKeepsNames, ZenonT(60)
  <2>5. \A m \in fresh' : m \in DOMAIN dir' /\ dir'[m] = dir[m]
    BY <1>0, <2>1, <2>2, <2>4
  <2>6. \A m \in fresh' : Seen(m)'
    BY <1>0, <2>1, <2>5, SeenStays
  <2>7. QED
    BY <1>1, <1>2, <2>1, <2>5, <2>6
<1>8. CASE WriteConflictCopy
  <2>1. /\ op.step = "park" /\ op.to \in Name /\ op.file \in File
        /\ dir' = Replace(dir, op.to, op.file) /\ fresh' = fresh /\ op' = Idle
    BY <1>0, <1>8 DEF WriteConflictCopy, OpShape
  <2>2. /\ DOMAIN dir' = {m \in DOMAIN dir : Key(m) # Key(op.to)} \cup {op.to}
        /\ \A m \in DOMAIN dir : Key(m) # Key(op.to) => dir'[m] = dir[m]
    <3> DEFINE n == op.to
               entry == op.file
    <3>1. n \in Name /\ entry \in File \cup {"empty", "assets"}
          /\ dir' = Replace(dir, n, entry)
      BY <2>1
    <3> HIDE DEF n, entry
    <3>2. /\ DOMAIN dir' = {m \in DOMAIN dir : Key(m) # Key(n)} \cup {n}
          /\ \A m \in DOMAIN dir : Key(m) # Key(n) => dir'[m] = dir[m]
      BY <3>1 DEF Replace, Put
    <3>3. QED
      BY <3>2 DEF n
  <2>3. \A m \in fresh : Key(m) # Key(op.to)
    BY <2>1 DEF Visible, FreshIsThere
  <2>4. \A m \in fresh' : m \in DOMAIN dir' /\ dir'[m] = dir[m]
    BY <1>0, <2>1, <2>2, <2>3
  <2>5. \A m \in fresh' : Seen(m)'
    BY <1>0, <2>1, <2>4, SeenStays
  <2>6. QED
    BY <1>1, <1>2, <2>1, <2>4, <2>5
<1>9. ASSUME NEW n \in Typed, NEW entry \in {"empty", "assets"} \cup File,
             Outside(n, entry)
      PROVE  Visible'
  <2>1. /\ n \in Name /\ dir' = Put(dir, n, entry) /\ op'.step = op.step
        /\ op'.to = op.to /\ op'.from = op.from
        /\ fresh' \subseteq fresh /\ n \notin fresh'
    <3>1. CASE ~Occupied(n)
      <4>1. n \notin DOMAIN dir
        BY <3>1 DEF Occupied
      <4>2. fresh' = fresh
        BY <1>9, <4>1 DEF Outside
      <4>3. QED
        BY <1>0, <1>9, <4>1, <4>2, TypedAssumption DEF Outside, OpShape
    <3>2. CASE Occupied(n)
      BY <1>0, <1>9, <3>2, TypedAssumption DEF Outside, OpShape
    <3>3. QED
      BY <3>1, <3>2
  <2>2. \A m \in DOMAIN dir : m # n => m \in DOMAIN dir' /\ dir'[m] = dir[m]
    BY <2>1 DEF Put
  <2>3. \A m \in fresh' : m \in DOMAIN dir' /\ dir'[m] = dir[m]
    BY <1>0, <2>1, <2>2
  <2>4. \A m \in fresh' : Seen(m)'
    BY <1>0, <2>1, <2>3, SeenStays
  <2>5. \/ op'.step \notin {"rename", "park"}
        \/ \A m \in fresh' : Key(m) = Key(op'.to) =>
             op'.step = "rename" /\ m = op'.from
    BY <2>1 DEF Visible, FreshIsThere
  <2>6. QED
    BY <1>2, <2>3, <2>4, <2>5
<1>10. ASSUME NEW n \in DOMAIN dir, NEW to, CheckRename(n, to) PROVE Visible'
  <2>1. op'.step = "rename" /\ op'.from = n /\ op'.to = to
        /\ UNCHANGED <<dir, fresh>>
    BY <1>10 DEF CheckRename, Idle
  <2>2. ASSUME NEW m \in DOMAIN dir, Key(m) = Key(to) PROVE m = n
    <3>1. OnDisk(to) \in DOMAIN dir /\ Key(OnDisk(to)) = Key(to)
      BY <2>2 DEF OnDisk
    <3>2. Occupied(to)
      BY <2>2 DEF Occupied
    <3>3. OnDisk(to) = n
      BY <1>10, <3>2 DEF CheckRename
    <3>4. QED
      BY <1>0, <2>2, <3>1, <3>3 DEF TypeOK
  <2>3. \A m \in fresh' : Seen(m)'
    BY <1>0, <2>1, SeenStays
  <2>4. QED
    BY <1>0, <1>2, <2>1, <2>2, <2>3
<1>11. ASSUME NEW f \in File, UniqueConflictPath(f) PROVE Visible'
  <2>1. ~Occupied(op'.to) /\ UNCHANGED <<dir, fresh>>
    BY <1>11, ParkedUnderFreeName DEF UniqueConflictPath
  <2>2. \A m \in fresh' : Seen(m)'
    BY <1>0, <2>1, SeenStays
  <2>3. QED
    BY <1>0, <1>2, <2>1, <2>2 DEF Occupied
<1>12. CASE Suggest \/ Cancel \/ RenameFails \/ ParkFails
  <2>1. UNCHANGED <<dir, fresh>> /\ op'.step \notin {"rename", "park"}
    <3>1. CASE Suggest
      BY <3>1 DEF Suggest, Idle
    <3>2. CASE Cancel \/ RenameFails \/ ParkFails
      BY <3>2 DEF Cancel, RenameFails, ParkFails, Idle
    <3>3. QED
      BY <1>12, <3>1, <3>2
  <2>2. QED
    BY <1>3, <2>1
<1>13. CASE UNCHANGED vars
  BY <1>13 DEF vars, Visible, FreshIsThere, CreatedIsShown, Shown
<1>14. QED
  BY <1>5, <1>6, <1>7, <1>8, <1>9, <1>10, <1>11, <1>12, <1>13 DEF Next

(* What New Note and New Folder made is in the sidebar, whatever name was  *)
(* typed: every extension that would hide it is completed, but for HTML    *)
(* and a name that begins with a dot; and a rename or a conflict copy does *)
(* not take its name.                                                      *)
THEOREM WhatIsCreatedIsShown == Spec => []CreatedIsShown
<1>1. Init => Visible
  BY DEF Init, Idle, Visible, FreshIsThere, CreatedIsShown
<1>2. Visible => CreatedIsShown
  BY DEF Visible
<1>3. QED
  BY <1>1, <1>2, NextVisible, TypeInvariant, PTL DEF Spec

-----------------------------------------------------------------------------
(* What is proposed is free.                                               *)

(* Every step keeps the proposed name free.                                *)
LEMMA NextProposed == TypeInv /\ SuggestionIsFree /\ [Next]_vars => SuggestionIsFree'
<1> SUFFICES ASSUME TypeInv, SuggestionIsFree, [Next]_vars
             PROVE  SuggestionIsFree'
  OBVIOUS
<1>1. ASSUME op'.step # "suggested" \/ ~op'.calm PROVE SuggestionIsFree'
  BY <1>1 DEF SuggestionIsFree
<1>2. CASE Suggest
  <2>1. op'.to = AvailableNoteName /\ UNCHANGED dir
    BY <1>2 DEF Suggest, Idle
  <2>2. PICK n \in 1..MaxTries : AvailableNoteName = Numbered(n)
    BY Available
  <2>3. Valid(op'.to) /\ WithNoteExtension(op'.to) = op'.to
    BY <2>1, <2>2, ProposedNames
  <2>4. ~Occupied(op.to)' \/ \A k \in 1..MaxTries : Occupied(Numbered(k))'
    BY <2>1, Available DEF Occupied
  <2>5. QED
    BY <2>3, <2>4 DEF SuggestionIsFree
<1>3. CASE Cancel \/ RenameFails \/ ParkFails \/ Rename \/ WriteConflictCopy
  <2>1. op' = Idle
    BY <1>3 DEF Cancel, RenameFails, ParkFails, Rename, WriteConflictCopy
  <2>2. QED
    BY <1>1, <2>1 DEF Idle
<1>4. ASSUME NEW n, NEW f, CreateNote(n, f) PROVE SuggestionIsFree'
  BY <1>1, <1>4 DEF CreateNote, Idle
<1>5. ASSUME NEW n, CreateFolder(n) PROVE SuggestionIsFree'
  BY <1>1, <1>5 DEF CreateFolder, Begin
<1>6. ASSUME NEW n, NEW to, CheckRename(n, to) PROVE SuggestionIsFree'
  BY <1>1, <1>6 DEF CheckRename, Idle
<1>7. ASSUME NEW f, UniqueConflictPath(f) PROVE SuggestionIsFree'
  BY <1>1, <1>7 DEF UniqueConflictPath, Idle
<1>8. ASSUME NEW n, NEW entry, Outside(n, entry) PROVE SuggestionIsFree'
  <2>1. ~op'.calm
    BY <1>8 DEF Outside, TypeInv, OpShape
  <2>2. QED
    BY <1>1, <2>1
<1>9. CASE UNCHANGED vars
  BY <1>9 DEF vars, SuggestionIsFree, Occupied
<1>10. QED
  BY <1>2, <1>3, <1>4, <1>5, <1>6, <1>7, <1>8, <1>9 DEF Next

(* The name proposed for a new note can be had, as long as nobody took it  *)
(* meanwhile: it is valid, needs no extension, and is free, whichever of   *)
(* the numbered names are taken and in whatever capitals, unless all are.  *)
THEOREM ProposedNameIsFree == Spec => []SuggestionIsFree
<1>1. Init => SuggestionIsFree
  BY DEF Init, Idle, SuggestionIsFree
<1>2. QED
  BY <1>1, NextProposed, TypeInvariant, PTL DEF Spec
=============================================================================
