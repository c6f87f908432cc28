--------------------------------- MODULE Vault ---------------------------------
(***************************************************************************)
(* The files of a vault: create, rename (crates/fileops, entries.rs), move *)
(* to the trash and back (crates/trashbin, commands/trash.rs), beside      *)
(* other programs, failing calls and kills.                                *)
(*                                                                         *)
(* A path is the sequence of its components below the vault's root.  A     *)
(* tree maps the paths that exist to a file or to Folder; a container of   *)
(* the trash holds a subtree, by paths relative to the item that was       *)
(* deleted.  The commands run one after the other; op is the one in hand.  *)
(* History.tla has the detail of a re-key; here it is one step.            *)
(***************************************************************************)
EXTENDS Naturals, Sequences, FiniteSets

CONSTANTS
  Path,         \* the paths that occur, as sequences of names
  File,         \* files, by identity
  Id,           \* containers of the trash; new_id() never repeats one
  Folder, None,
  ManifestName, \* the name a container's manifest has
  MaxOutside,   \* bound: steps of other programs
  MaxFaults     \* bound: failing calls and kills

ASSUME EntryAssumption ==
  /\ Folder # ManifestName /\ {Folder, ManifestName, None} \cap File = {}
  /\ None \notin Id
ASSUME BoundAssumption == {MaxOutside, MaxFaults} \subseteq Nat

VARIABLES
  tree,      \* the vault
  bin,       \* .trash: containers by id; from is history, the path deleted
  hist,      \* whose versions are kept under a path
  op,        \* the command in hand
  known,     \* history: files there ever were
  raced,     \* history: files another program made while a command ran
  buried,    \* history: files their own manifest was written over
  limbo,     \* history: containers a kill or a second failure left unlabelled
  astray,    \* history: files whose versions did not come along
  outside, faults   \* counters of the bounds

fates == <<raced, buried, limbo, astray>>
vars == <<tree, bin, hist, op, known, fates, outside, faults>>

(* ManifestName stands for a manifest, where it passes for an item.        *)
Entry == File \cup {Folder, ManifestName}
EmptyTree == [p \in {} |-> None]
NoContainer == [from |-> None, items |-> EmptyTree, manifest |-> None]

Parent(p) == SubSeq(p, 1, Len(p) - 1)
NameOf(p) == p[Len(p)]
IsUnder(q, p) == Len(p) <= Len(q) /\ SubSeq(q, 1, Len(p)) = p
Rest(q, p) == SubSeq(q, Len(p) + 1, Len(q))

(* The folders a path goes through occur, and what is under a name occurs  *)
(* under the other names it may get.                                       *)
ASSUME PathAssumption ==
  /\ Path \subseteq Seq(STRING) \ {<<>>} /\ None \notin Path
  /\ \A p \in Path : \A n \in 1..Len(p) : SubSeq(p, 1, n) \in Path
  /\ \A p, q, s \in Path :
       Parent(p) = Parent(q) /\ IsUnder(s, p) => q \o Rest(s, p) \in Path

Under(t, p) == {q \in DOMAIN t : IsUnder(q, p)}
Files(t) == {t[p] : p \in DOMAIN t} \cap File

InFolder(t, p) == Len(p) = 1 \/ (Parent(p) \in DOMAIN t /\ t[Parent(p)] = Folder)

Subtree(t, p) == [r \in {Rest(q, p) : q \in Under(t, p)} |-> t[p \o r]]
(* Mutant: only the folder goes, not what is in it.                        *)
CutOnly(t, p) == [q \in DOMAIN t \ {p} |-> t[q]]

Cut(t, p) == [q \in DOMAIN t \ Under(t, p) |-> t[q]]

(* reroot(): where the files of a moved folder are found.                  *)
Reroot(q, p, to) == to \o Rest(q, p)

Graft(t, p, items) ==
  [q \in DOMAIN t \cup {p \o r : r \in DOMAIN items} |->
     IF IsUnder(q, p) /\ Rest(q, p) \in DOMAIN items
     THEN items[Rest(q, p)] ELSE t[q]]

(* fs::rename() replaces a file by a file and an empty folder by a folder. *)
Fits(t, p, items) ==
  /\ InFolder(t, p)
  /\ p \in DOMAIN t =>
       /\ Under(t, p) = {p}
       /\ (t[p] = Folder) <=> (items[<<>>] = Folder)

Idle == [step |-> "idle", path |-> None, to |-> None, id |-> None, carry |-> {}]

Init ==
  /\ tree = EmptyTree
  /\ bin = [i \in Id |-> NoContainer]
  /\ hist = [p \in Path |-> {}]
  /\ op = Idle
  /\ known = {}
  /\ raced = {} /\ buried = {} /\ limbo = {} /\ astray = {}
  /\ outside = 0 /\ faults = 0

Fault == faults < MaxFaults /\ faults' = faults + 1 /\ UNCHANGED outside
NoFault == UNCHANGED <<outside, faults>>

-----------------------------------------------------------------------------
(* Creating and saving.                                                    *)

AddFile(p, f) ==
  /\ p \notin DOMAIN tree /\ InFolder(tree, p)
  /\ f \notin known
  /\ tree' = Graft(tree, p, [r \in {<<>>} |-> f])
  /\ known' = known \cup {f}

(* create_note(): create_new makes the check and the creation one step.    *)
CreateNote(p, f) ==
  /\ op.step = "idle" /\ AddFile(p, f)
  /\ NoFault /\ UNCHANGED <<bin, hist, op, fates>>

CreateFolder(p) ==
  /\ op.step = "idle"
  /\ p \notin DOMAIN tree /\ InFolder(tree, p)
  /\ tree' = Graft(tree, p, [r \in {<<>>} |-> Folder])
  /\ NoFault /\ UNCHANGED <<bin, hist, op, known, fates>>

(* Every save records versions under the note's path.                      *)
SaveNote(p) ==
  /\ op.step = "idle" /\ p \in DOMAIN tree /\ tree[p] \in File
  /\ hist' = [hist EXCEPT ![p] = @ \cup {tree[p]}]
  /\ astray' = astray \ {tree[p]}
  /\ NoFault
  /\ UNCHANGED <<tree, bin, op, known, raced, buried, limbo>>

-----------------------------------------------------------------------------
(* rename_entry().                                                         *)

(* descendant_files(), or the note itself.                                 *)
Descendants(p) == {q \in Under(tree, p) : tree[q] # Folder}

(* A new name in the same folder.  The file system tells upper case from   *)
(* lower case, so a taken name is never the note's own, spelled otherwise. *)
CheckRename(p, to) ==
  /\ op.step = "idle" /\ p \in DOMAIN tree
  /\ p # to /\ Parent(p) = Parent(to)
  /\ to \notin DOMAIN tree
  /\ op' = [Idle EXCEPT !.step = "rename", !.path = p, !.to = to,
                        !.carry = Descendants(p)]
  /\ NoFault /\ UNCHANGED <<tree, bin, hist, known, fates>>

Rename ==
  /\ op.step = "rename" /\ op.path \in DOMAIN tree
  /\ LET items == Subtree(tree, op.path)
         rest  == Cut(tree, op.path)
     IN  /\ Fits(rest, op.to, items)
         /\ tree' = Graft(rest, op.to, items)
  /\ op' = [op EXCEPT !.step = "carry"]
  /\ NoFault
  /\ UNCHANGED <<bin, hist, known, raced, buried, limbo, astray>>

RenameFails ==
  /\ op.step = "rename"
  /\ \/ op.path \notin DOMAIN tree /\ NoFault
     \/ /\ op.path \in DOMAIN tree
        /\ ~Fits(Cut(tree, op.path), op.to, Subtree(tree, op.path))
        /\ NoFault
     \/ Fault
  /\ op' = Idle /\ UNCHANGED <<tree, bin, hist, known, fates>>

(* Mutant: a folder's notes are sought under its old name once it is moved. *)
CarryOnlyTop(q) ==
  /\ op.step = "carry" /\ q \in op.carry
  /\ hist' = IF q = op.path
             THEN [hist EXCEPT ![op.to] = @ \cup hist[q], ![q] = {}] ELSE hist
  /\ op' = [op EXCEPT !.carry = @ \ {q}]
  /\ NoFault /\ UNCHANGED <<tree, bin, known, fates>>

(* carry_history(): a failure is logged and swallowed.                     *)
CarryHistory(q) ==
  /\ op.step = "carry" /\ q \in op.carry
  /\ LET new == Reroot(q, op.path, op.to)
     IN  \/ /\ hist' = [hist EXCEPT ![new] = @ \cup hist[q], ![q] = {}]
            /\ astray' = astray \cup
                 {f \in hist[q] : \A p \in DOMAIN tree : tree[p] = f => p # new}
            /\ NoFault
         \/ /\ Fault /\ astray' = astray \cup hist[q] /\ UNCHANGED hist
  /\ op' = [op EXCEPT !.carry = @ \ {q}]
  /\ UNCHANGED <<tree, bin, known, raced, buried, limbo>>

RenameDone ==
  /\ op.step = "carry" /\ op.carry = {}
  /\ op' = Idle
  /\ NoFault /\ UNCHANGED <<tree, bin, hist, known, fates>>

-----------------------------------------------------------------------------
(* move_to_trash().                                                        *)

CreateContainer(p, i) ==
  /\ op.step = "idle" /\ p \in DOMAIN tree
  /\ bin[i] = NoContainer /\ i \notin limbo
  /\ bin' = [bin EXCEPT ![i].from = p]
  /\ op' = [Idle EXCEPT !.step = "trash", !.path = p, !.id = i]
  /\ NoFault /\ UNCHANGED <<tree, hist, known, fates>>

MoveIn ==
  /\ op.step = "trash" /\ op.path \in DOMAIN tree
  /\ bin' = [bin EXCEPT ![op.id].items = Subtree(tree, op.path)]
  /\ tree' = Cut(tree, op.path)
  /\ op' = [op EXCEPT !.step = "label"]
  /\ NoFault
  /\ UNCHANGED <<hist, known, raced, buried, limbo, astray>>

MoveInFails ==
  /\ op.step = "trash"
  /\ (op.path \notin DOMAIN tree /\ NoFault) \/ Fault
  /\ bin' = [bin EXCEPT ![op.id] = NoContainer]
  /\ op' = Idle
  /\ UNCHANGED <<tree, hist, known, fates>>

(* Mutant: the manifest keeps the name only.                               *)
WriteNameOnly ==
  /\ op.step = "label"
  /\ bin' = [bin EXCEPT ![op.id].manifest = <<NameOf(op.path)>>]
  /\ op' = Idle
  /\ NoFault
  /\ UNCHANGED <<tree, hist, known, fates>>

(* The manifest is written beside the item; an item of the manifest's name *)
(* is written over if it is a file, and stops the manifest if a folder.    *)
WriteManifest ==
  /\ op.step = "label"
  /\ LET i == op.id
         clash == NameOf(op.path) = ManifestName
     IN  /\ ~(clash /\ bin[i].items[<<>>] = Folder)
         /\ bin' = [bin EXCEPT ![i].manifest = op.path,
                               ![i].items = IF clash THEN [r \in {<<>>} |-> ManifestName]
                                            ELSE @]
         /\ buried' = IF clash THEN buried \cup Files(bin[i].items) ELSE buried
  /\ op' = Idle
  /\ NoFault
  /\ UNCHANGED <<tree, hist, known, raced, limbo, astray>>

(* Mutant: the item is left without its manifest.                          *)
ManifestForgone ==
  /\ op.step = "label" /\ Fault
  /\ op' = Idle
  /\ UNCHANGED <<tree, bin, hist, known, fates>>

WriteManifestFails ==
  /\ op.step = "label"
  /\ \/ Fault
     \/ /\ NameOf(op.path) = ManifestName /\ bin[op.id].items[<<>>] = Folder
        /\ NoFault
  /\ op' = [op EXCEPT !.step = "rollback"]
  /\ UNCHANGED <<tree, bin, hist, known, fates>>

(* Mutant: the container goes whether or not its file went back.           *)
RollBackBlindly ==
  /\ op.step = "rollback"
  /\ LET items == bin[op.id].items
     IN  IF Fits(tree, op.path, items)
         THEN tree' = Graft(tree, op.path, items) ELSE UNCHANGED tree
  /\ bin' = [bin EXCEPT ![op.id] = NoContainer]
  /\ op' = Idle
  /\ NoFault
  /\ UNCHANGED <<hist, known, raced, buried, limbo, astray>>

(* The file goes back; the container goes only if the file has left it.    *)
RollBack ==
  /\ op.step = "rollback"
  /\ LET items == bin[op.id].items
     IN  \/ /\ Fits(tree, op.path, items)
            /\ tree' = Graft(tree, op.path, items)
            /\ bin' = [bin EXCEPT ![op.id] = NoContainer]
            /\ NoFault /\ UNCHANGED limbo
         \/ /\ (~Fits(tree, op.path, items) /\ NoFault) \/ Fault
            /\ limbo' = limbo \cup {op.id}
            /\ UNCHANGED <<tree, bin>>
  /\ op' = Idle
  /\ UNCHANGED <<hist, known, raced, buried, astray>>

-----------------------------------------------------------------------------
(* restore(), from the entries list() shows: containers with a manifest.   *)

Listed == {i \in Id : bin[i].manifest # None}

CheckRestore(i) ==
  /\ op.step = "idle" /\ i \in Listed
  /\ bin[i].manifest \notin DOMAIN tree
  /\ op' = [Idle EXCEPT !.step = "restore", !.id = i, !.path = bin[i].manifest]
  /\ NoFault /\ UNCHANGED <<tree, bin, hist, known, fates>>

(* create_dir_all() of the parent: fails if a file is in the way.          *)
Ancestors(p) == {SubSeq(p, 1, n) : n \in 1..(Len(p) - 1)}
CanMakeParents(p) ==
  \A q \in Ancestors(p) : q \in DOMAIN tree => tree[q] = Folder
WithParents(p) ==
  [q \in DOMAIN tree \cup Ancestors(p) |->
     IF q \in DOMAIN tree THEN tree[q] ELSE Folder]

MoveOut ==
  /\ op.step = "restore"
  /\ bin[op.id].items # EmptyTree /\ CanMakeParents(op.path)
  /\ LET items == bin[op.id].items
         t     == WithParents(op.path)
     IN  /\ Fits(t, op.path, items)
         /\ tree' = Graft(t, op.path, items)
  /\ bin' = [bin EXCEPT
       ![op.id].items = EmptyTree,
       ![op.id].manifest = IF bin[op.id].items[<<>>] = ManifestName
                           THEN None ELSE @]
  /\ op' = [op EXCEPT !.step = "empty"]
  /\ NoFault
  /\ UNCHANGED <<hist, known, raced, buried, limbo, astray>>

MoveOutFails ==
  /\ op.step = "restore"
  /\ \/ ~CanMakeParents(op.path) /\ NoFault /\ UNCHANGED tree
     \/ /\ CanMakeParents(op.path)
        /\ tree' = WithParents(op.path)
        /\ \/ bin[op.id].items = EmptyTree /\ NoFault
           \/ /\ bin[op.id].items # EmptyTree
              /\ ~Fits(WithParents(op.path), op.path, bin[op.id].items)
              /\ NoFault
           \/ Fault
  /\ op' = Idle
  /\ UNCHANGED <<bin, hist, known, fates>>

(* The emptied container is removed, as far as that goes.                  *)
RemoveContainer ==
  /\ op.step = "empty"
  /\ \/ bin' = [bin EXCEPT ![op.id] = NoContainer] /\ NoFault /\ UNCHANGED limbo
     \/ Fault /\ UNCHANGED bin /\ limbo' = limbo \cup {op.id}
  /\ op' = Idle
  /\ UNCHANGED <<tree, hist, known, raced, buried, astray>>

-----------------------------------------------------------------------------
Kill ==
  /\ op.step # "idle" /\ Fault
  /\ op' = Idle
  /\ limbo' = IF op.step \in {"label", "rollback", "empty"}
              THEN limbo \cup {op.id} ELSE limbo
  /\ astray' = IF op.step = "carry"
               THEN astray \cup UNION {hist[q] : q \in op.carry} ELSE astray
  /\ UNCHANGED <<tree, bin, hist, known, raced, buried>>

(* Another program: a new file, or an empty folder removed.                *)
OutsideCreate(p, f) ==
  /\ outside < MaxOutside /\ outside' = outside + 1
  /\ AddFile(p, f)
  /\ raced' = IF op.step = "idle" THEN raced ELSE raced \cup {f}
  /\ UNCHANGED <<bin, hist, op, buried, limbo, astray, faults>>

OutsideRmdir(p) ==
  /\ outside < MaxOutside /\ outside' = outside + 1
  /\ p \in DOMAIN tree /\ tree[p] = Folder /\ Under(tree, p) = {p}
  /\ tree' = Cut(tree, p)
  /\ UNCHANGED <<bin, hist, op, known, fates, faults>>

Next ==
  \/ \E p \in Path, f \in File : CreateNote(p, f) \/ OutsideCreate(p, f)
  \/ \E p \in Path : CreateFolder(p) \/ SaveNote(p) \/ OutsideRmdir(p)
  \/ \E p, q \in Path : CheckRename(p, q)
  \/ Rename \/ RenameFails \/ RenameDone
  \/ \E q \in Path : CarryHistory(q)
  \/ \E p \in Path, i \in Id : CreateContainer(p, i)
  \/ MoveIn \/ MoveInFails \/ WriteManifest \/ WriteManifestFails \/ RollBack
  \/ \E i \in Id : CheckRestore(i)
  \/ MoveOut \/ MoveOutFails \/ RemoveContainer
  \/ Kill

Spec == Init /\ [][Next]_vars
-----------------------------------------------------------------------------
IsTree(t) == DOMAIN t \subseteq Path /\ \A p \in DOMAIN t : t[p] \in Entry

(* Every variable keeps to its type, and the vault stays a tree.           *)
TypeOK ==
  /\ IsTree(tree) /\ \A p \in DOMAIN tree : InFolder(tree, p)
  /\ \A i \in Id :
       /\ {bin[i].from, bin[i].manifest} \subseteq Path \cup {None}
       /\ Files(bin[i].items) \subseteq File
  /\ hist \in [Path -> SUBSET File]
  /\ known \subseteq File
  /\ raced \subseteq File /\ buried \subseteq File /\ astray \subseteq File
  /\ limbo \subseteq Id

Places(f) ==
  {<<None, p>> : p \in {q \in DOMAIN tree : tree[q] = f}} \cup
  UNION {{<<i, r>> : r \in {q \in DOMAIN bin[i].items : bin[i].items[q] = f}}
           : i \in Id}

(* A file is in one place, the vault or the trash, whatever fails or is    *)
(* killed: but for one that another program put in the way between a       *)
(* command's check and its move, and one of the manifest's own name.       *)
OneLocation ==
  \A f \in known :
    \/ Cardinality(Places(f)) = 1
    \/ Places(f) = {} /\ f \in raced \cup buried

Busy(i) == op.id = i \/ i \in limbo

(* What is in the trash is listed, and what is listed is in the trash, but *)
(* for the containers a kill or a second failure left as they were.        *)
TrashIsListed ==
  \A i \in Id :
    \/ Busy(i)
    \/ (bin[i].manifest # None) <=> (bin[i].items # EmptyTree)

(* A file leaves the trash only for the very path it was deleted from.     *)
RestoredToOrigin ==
  [][\A i \in Id : \A r \in DOMAIN bin[i].items :
       LET f == bin[i].items[r]  p == bin[i].from \o r
       IN  f \notin Files(bin[i].items)' /\ f \in File =>
             \/ p \in DOMAIN tree' /\ tree'[p] = f
             \/ f \in buried']_vars

(* A note's versions are found under its own path, through renames of it   *)
(* and of its folders, deletion and restoration; but for a note whose      *)
(* versions a failure or a kill left behind, or that gave up its path to   *)
(* another note by being deleted.                                          *)
HistoryFollows ==
  op.step = "idle" =>
    \A p \in DOMAIN tree :
      (\E q \in Path : tree[p] \in hist[q]) =>
        tree[p] \in hist[p] \cup astray
=============================================================================
