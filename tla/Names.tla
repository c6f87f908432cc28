--------------------------------- MODULE Names ---------------------------------
(***************************************************************************)
(* Names in one folder of a vault: what New Note and New Folder propose,   *)
(* complete, refuse and create (crates/fileops), what a rename may take,   *)
(* what the sidebar then lists (crates/vaultscan), and the names of        *)
(* conflict copies (crates/mergemd), beside another program.               *)
(*                                                                         *)
(* A name is a stem, its capitals, a number (the 2 of "Untitled 2", or of  *)
(* a conflict copy's "-2") and what follows the first dot.  How many names *)
(* are tried before giving up is MaxTries, 999 in the code.                *)
(***************************************************************************)
EXTENDS Naturals, FiniteSets

CONSTANTS
  File,      \* files, by identity
  None,
  Stem,      \* stems the user or another program chooses
  Hidden,    \* those that begin with a dot
  Refused,   \* those validate_name() refuses: empty, forbidden, reserved, ...
  MaxTries,
  Folds,     \* whether the file system takes capitals for small letters
  Typed,     \* bound: the names the user and the other program choose from
  MaxSteps   \* bound: operations begun, and steps of the other program

\* "17" is the tail of a name like "Meeting 2026.08.17".
Tails == {"none", "17", "md", "html", "17.md"}
Name == [stem : Stem \cup {"conflict"}, cap : BOOLEAN, no : 1..MaxTries, tail : Tails]

ASSUME StemAssumption ==
  "untitled" \in Stem \ (Hidden \cup Refused) /\ Hidden \cup Refused \subseteq Stem
ASSUME BoundAssumption ==
  MaxTries \in Nat \ {0} /\ MaxSteps \in Nat /\ Folds \in BOOLEAN
ASSUME TypedAssumption == Typed \subseteq Name
ASSUME FileAssumption == None \notin File /\ {"empty", "assets"} \cap File = {}

VARIABLES
  dir,      \* the folder: the names in it and what they name
  op,       \* what is between its check and its write, or its proposal
  made,     \* history: files there ever were
  fresh,    \* history: names New Note or New Folder gave, still theirs
  raced,    \* history: files that appeared within a check and its write
  steps

vars == <<dir, op, made, fresh, raced, steps>>

LastExtension(tail) == IF tail = "17.md" THEN "md" ELSE tail
NoteExtensions == {"md", "html"}

(* Mutant: any extension is taken for deliberate.                          *)
KeepAnyExtension(n) == IF n.tail = "none" THEN [n EXCEPT !.tail = "md"] ELSE n

(* with_note_extension(): a note extension stays, any other tail gets md.  *)
WithNoteExtension(n) ==
  IF LastExtension(n.tail) \in NoteExtensions THEN n
  ELSE [n EXCEPT !.tail = IF n.tail = "none" THEN "md" ELSE "17.md"]

(* validate_name(): the stem before the first dot decides.                 *)
Valid(n) == n.stem \notin Refused

Key(n) == IF Folds THEN [n EXCEPT !.cap = FALSE] ELSE n

(* Mutant: names are compared as they are spelled.                         *)
SpelledAlike(n) == n \in DOMAIN dir

Occupied(n) == \E m \in DOMAIN dir : Key(m) = Key(n)
OnDisk(n) == CHOOSE m \in DOMAIN dir : Key(m) = Key(n)

Put(d, n, entry) == [m \in DOMAIN d \cup {n} |-> IF m = n THEN entry ELSE d[m]]
Drop(d, n) == [m \in DOMAIN d \ {n} |-> d[m]]

(* fs::rename() and atomic_write() take the place of what has the name.    *)
Replace(d, n, entry) ==
  Put([m \in {k \in DOMAIN d : Key(k) # Key(n)} |-> d[m]], n, entry)

Idle == [step |-> "idle", from |-> None, to |-> None, file |-> None, calm |-> TRUE]

Init ==
  /\ dir = [n \in {} |-> None] /\ op = Idle
  /\ made = {} /\ fresh = {} /\ raced = {} /\ steps = 0

Begin == op.step = "idle" /\ steps < MaxSteps /\ steps' = steps + 1

-----------------------------------------------------------------------------
(* New Note and New Folder.                                                *)

Numbered(n) == [stem |-> "untitled", cap |-> FALSE, no |-> n, tail |-> "md"]
Free == {n \in 1..MaxTries : ~Occupied(Numbered(n))}

(* Mutant: names are counted, not looked for.                              *)
CountUntitled ==
  LET taken == {m \in DOMAIN dir : m.stem = "untitled" /\ m.tail = "md"}
  IN  IF Cardinality(taken) < MaxTries
      THEN Numbered(Cardinality(taken) + 1) ELSE Numbered(1)

(* available_note_name(): the first free one, or the plain one after all.  *)
AvailableNoteName ==
  IF Free = {} THEN Numbered(1)
  ELSE Numbered(CHOOSE n \in Free : \A k \in Free : n <= k)

Suggest ==
  /\ Begin
  /\ op' = [Idle EXCEPT !.step = "suggested", !.to = AvailableNoteName]
  /\ UNCHANGED <<dir, made, fresh, raced>>

Cancel ==
  /\ op.step = "suggested" /\ op' = Idle
  /\ UNCHANGED <<dir, made, fresh, raced, steps>>

Place(n, f) ==
  /\ Valid(n) /\ ~Occupied(n)
  /\ dir' = Put(dir, n, f) /\ fresh' = fresh \cup {n}

(* create_note(): the name as proposed, or what the user made of it.       *)
CreateNote(n, f) ==
  /\ op.step = "suggested" /\ f \notin made
  /\ Place(WithNoteExtension(n), f)
  /\ made' = made \cup {f} /\ op' = Idle
  /\ UNCHANGED <<raced, steps>>

(* create_folder(): the name as it is.                                     *)
CreateFolder(n) ==
  /\ Begin /\ Place(n, "empty")
  /\ UNCHANGED <<op, made, raced>>

-----------------------------------------------------------------------------
(* rename().                                                               *)

(* A taken name is refused, unless it is the entry's own, spelled anew.    *)
CheckRename(n, to) ==
  /\ Begin /\ Valid(to) /\ to # n
  /\ Occupied(to) => OnDisk(to) = n
  /\ op' = [Idle EXCEPT !.step = "rename", !.from = n, !.to = to]
  /\ UNCHANGED <<dir, made, fresh, raced>>

IsFolder(entry) == entry \in {"empty", "assets"}

(* A file replaces a file, an empty folder is replaced by a folder.        *)
MayReplace(entry, there) ==
  IF IsFolder(entry) THEN there = "empty" ELSE ~IsFolder(there)

Rename ==
  /\ op.step = "rename" /\ op.from \in DOMAIN dir
  /\ LET entry == dir[op.from]
         rest  == Drop(dir, op.from)
     IN  /\ \A m \in DOMAIN rest :
              Key(m) = Key(op.to) => MayReplace(entry, rest[m])
         /\ dir' = Replace(rest, op.to, entry)
  /\ fresh' = fresh \ {op.from, op.to} /\ op' = Idle
  /\ UNCHANGED <<made, raced, steps>>

RenameFails ==
  /\ op.step = "rename" /\ op' = Idle
  /\ UNCHANGED <<dir, made, fresh, raced, steps>>

-----------------------------------------------------------------------------
(* write_conflict_copy().                                                  *)

Copy(n) == [stem |-> "conflict", cap |-> FALSE, no |-> n, tail |-> "md"]
FreeCopy == {n \in 1..MaxTries : ~Occupied(Copy(n))}

(* Mutant: the time stamp is trusted to be unique.                         *)
ChooseStamped(f) ==
  /\ Begin /\ f \notin made
  /\ op' = [Idle EXCEPT !.step = "park", !.to = Copy(1), !.file = f]
  /\ UNCHANGED <<dir, made, fresh, raced>>

(* unique_conflict_path(), for conflicts of one note in the same second.   *)
UniqueConflictPath(f) ==
  /\ Begin /\ f \notin made /\ FreeCopy # {}
  /\ op' = [Idle EXCEPT !.step = "park", !.file = f,
              !.to = Copy(CHOOSE n \in FreeCopy : \A k \in FreeCopy : n <= k)]
  /\ UNCHANGED <<dir, made, fresh, raced>>

WriteConflictCopy ==
  /\ op.step = "park"
  /\ \A m \in DOMAIN dir : Key(m) = Key(op.to) => ~IsFolder(dir[m])
  /\ dir' = Replace(dir, op.to, op.file) /\ made' = made \cup {op.file}
  /\ op' = Idle
  /\ UNCHANGED <<fresh, raced, steps>>

ParkFails ==
  /\ op.step = "park" /\ op' = Idle
  /\ UNCHANGED <<dir, made, fresh, raced, steps>>

-----------------------------------------------------------------------------
(* Another program: a new file, a new folder, or a picture in a folder.    *)
Outside(n, entry) ==
  /\ steps < MaxSteps /\ steps' = steps + 1
  /\ \/ /\ ~Occupied(n) /\ entry \in {"empty", "assets"} \cup (File \ made)
        /\ dir' = Put(dir, n, entry) /\ UNCHANGED fresh
     \/ /\ n \in DOMAIN dir /\ dir[n] = "empty" /\ entry = "assets"
        /\ dir' = Put(dir, n, entry) /\ fresh' = fresh \ {n}
  /\ made' = made \cup ({entry} \cap File)
  /\ raced' = IF op.step \in {"rename", "park"}
              THEN raced \cup ({entry} \cap File) ELSE raced
  /\ op' = [op EXCEPT !.calm = FALSE]

Next ==
  \/ Suggest \/ Cancel
  \/ \E n \in Typed \cup {op.to}, f \in File : CreateNote(n, f)
  \/ \E n \in Typed : CreateFolder(n)
  \/ \E n \in DOMAIN dir, to \in Typed : CheckRename(n, to)
  \/ Rename \/ RenameFails
  \/ \E f \in File : UniqueConflictPath(f)
  \/ WriteConflictCopy \/ ParkFails
  \/ \E n \in Typed, entry \in {"empty", "assets"} \cup File : Outside(n, entry)

Spec == Init /\ [][Next]_vars

-----------------------------------------------------------------------------
(* The sidebar.                                                            *)

IsMarkdown(n) == LastExtension(n.tail) = "md"

(* scan_dir(): a folder is listed if it is empty, a file if it is a note.  *)
Shown(n) ==
  /\ n.stem \notin Hidden
  /\ IF IsFolder(dir[n]) THEN dir[n] = "empty" ELSE IsMarkdown(n)

-----------------------------------------------------------------------------
(* Every variable keeps to its type, and no two entries have one name.     *)
TypeOK ==
  /\ DOMAIN dir \subseteq Name
  /\ \A n \in DOMAIN dir : dir[n] \in File \cup {"empty", "assets"}
  /\ \A n, m \in DOMAIN dir : Key(n) = Key(m) => n = m
  /\ op.step \in {"idle", "suggested", "rename", "park"}
  /\ {op.from, op.to} \subseteq Name \cup {None} /\ op.file \in File \cup {None}
  /\ made \subseteq File /\ raced \subseteq made /\ fresh \subseteq Name
  /\ steps \in 0..MaxSteps

(* No file is replaced, by a rename or by a conflict copy, but one that    *)
(* another program made between the check and the write.                   *)
NothingReplaced ==
  \A f \in made : f \in raced \/ \E n \in DOMAIN dir : dir[n] = f

(* What New Note and New Folder made is in the sidebar, but for a name     *)
(* that begins with a dot and for an HTML file.                            *)
CreatedIsShown ==
  \A n \in fresh :
    n \in DOMAIN dir => Shown(n) \/ n.stem \in Hidden \/ n.tail = "html"

(* The name proposed for a new note is one that can be had, as long as     *)
(* nobody took it meanwhile and not all of them are taken.                 *)
SuggestionIsFree ==
  op.step = "suggested" /\ op.calm =>
    /\ Valid(op.to) /\ WithNoteExtension(op.to) = op.to
    /\ ~Occupied(op.to) \/ \A n \in 1..MaxTries : Occupied(Numbered(n))
=============================================================================
