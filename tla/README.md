# Toril in TLA+

Toril is a desktop editor for Markdown and HTML notes: a TypeScript frontend in
a webview, a Rust backend of synchronous commands behind Tauri's `invoke`, and
notes that live as plain files in a folder other programs (OneDrive, Obsidian,
Syncthing) write to as well. Nearly everything that can go wrong with it is
about one question: can text somebody wrote be lost? This directory models the
parts of the program that answer it, checks them with TLC on small instances
and proves every safety property of these checks with TLAPS for all.

## The system

| component | source | state | operations | module |
|---|---|---|---|---|
| reconciliation | `src/main.ts`, `src/sync.ts`, `commands/sync.rs`, `commands/workspace.rs` | per tab `content`, `base`, `dirty`, `diverged`, `removedOnDisk`; `reconcileTimers`, `removalEpoch` | watcher events, `reconcile`, `doSave`, `doSaveAll`, autosave's save, `resolveConflict` | `Reconcile`, `SyncPolicy` |
| load echo | `src/editor/loadecho.ts`, `onEditorChange` | `expected`; the editor listener's 200 ms debounce | `arm`, `isEcho` | `Reconcile` |
| merge | `crates/mergemd` | none | `merge3`; `unique_conflict_path` | `Merge3`; `Names` |
| atomic writes | `crates/fsatomic` | the temp file, the note | `atomic_write` | `AtomicWrite` |
| workspace | `src/main.ts`, `src/ui/tabs.ts` | the tabs, the one on screen | open, new, save, Save As, save all, rename, delete, restore a version, close | `Workspace` |
| autosave, journal, session file | `src/autosave.ts`, `commands/recovery.rs`, `installCloseGuard`, `scheduleSessionSave` | two debounces, `recovery.json`, `session.json` | `notifyChange`, `flush`, start and recovery, close guard, restart for an update | `Session` |
| version history | `crates/snapshots`, `commands/snapshots.rs`, `files.rs` | per note a manifest and blobs | `snapshot`, `prune`, `gc_blobs`, `rekey`, `read` | `History`, `Retention` |
| trash and file operations | `crates/trashbin`, `crates/fileops`, `commands/entries.rs`, `trash.rs` | the vault's tree, `.trash/<id>/` with a manifest | create, rename, move to trash, restore | `Vault` |
| names | `crates/fileops`, `crates/vaultscan`, `crates/mergemd` | the names in a folder | `available_note_name`, `with_note_extension`, `validate_name`, create, rename, what the sidebar lists | `Names` |
| front matter | `src/editor/frontmatter.ts` | none | split, join, edit a property | planned |
| sidebar, updates | `src/ui/sidebar.ts`, `src/update.ts` | inline rename, update offer | | planned |
| the rest | panes, recent files, settings, key store, images, exports, editor, chrome | | | "Not modelled" |

**How they interact.** The frontend is one JavaScript thread. Between two
`await`s a handler runs undisturbed; at an `await` (a backend command, a dialog,
a 200 ms pause) any other handler may run: keystrokes, the listener's debounce,
watcher events, timers, menu actions, another save. The backend's commands are
synchronous and run on one thread, in the order they were sent; their answers
are promises, and which continuation runs first is not for the frontend to
choose. The file system belongs to everybody. The watcher's events reach the
frontend as messages, and are only an optimisation: they may be coalesced or
lost, so each write is preceded by a check of its own (`recheckBeforeWrite`,
`reconcileWritableTabs`).

**What is hard.** State read before an `await` and used after it (`mine` in
`reconcile`, `theirs` in `resolveConflict`, the text and the path in the save
paths); events handled while a check is in flight; a listener that reports
200 ms late, perhaps about another document; files removed and recreated; and,
below that, crashes between two system calls. `PROJECT.json` lists the hazards,
each at its line, with the properties that would catch it, or why none does.

**What makes each component correct.**

- reconciliation: edits survive a verdict; a note changed outside is never
  overwritten unseen; the flags tell the truth about what is saved; an outside
  change is noticed;
- load echo: looking at a note does not make it dirty, editing it does;
- merge: both sides' changes are taken, each once and in its place, or there is
  a conflict that is one;
- atomic writes: the note is the old or the new one, whole, at any crash;
- workspace: what was typed is in a tab, a note, its history or the trash,
  whatever handlers cross; a clean tab is what its note is;
- journal: what is dirty is in the journal soon, and what a crash left there is
  neither overwritten nor forgotten by the start after it;
- version history: what is listed can be read; only age and failures lose a
  version, no rename does;
- trash: a file is in exactly one place; what is in the trash is listed, goes
  back where it came from, and its history with it;
- names: no operation takes a name that is taken; what was created is listed.

## The modules

    SyncPolicy ── Reconcile ──┬── MCReconcile
                              └── Reconcile_proofs      (TLAPS)
    AtomicFile ◁─ AtomicWrite ──── AtomicWrite_proofs   (TLAPS)
    Retention ──┬── History ──┬─── MCHistory
                │             └─── History_proofs       (TLAPS)
                └── VersionLog ◁ History
    Vault ────┬── MCVault          Names ────┬── MCNames
              └── Vault_proofs (TLAPS)       └── Names_proofs (TLAPS)
    Session ──┬── MCSession
              ├── Session_proofs (TLAPS)
              └── SessionClaims    (what a comment says)
    Workspace ┬── MCWorkspace      Merge3 ───┬── MCMerge3
              └── Workspace_proofs (TLAPS)   └── Merge3_proofs (TLAPS)

`──` is EXTENDS, `◁` an abstract specification instantiated by the one that
implements it. Each component is closed: what it needs of a neighbour it has in
the coarser form the neighbour's module justifies. A save is a number of system
calls in `AtomicWrite`, one action that replaces the note as a whole in the
others; the check before a write is a number of turns in `Reconcile`, one
call and its answer in `Workspace`, one action in `Session`; a version is a
manifest entry and a blob in `History`, an element of a set in `Workspace` and
`Vault`; a re-key is a step per blob in `History`, one step in `Vault`.

Definitions marked "Mutant" are plausible bugs. Nothing uses them; `PROJECT.json`
says which definition each could replace, and which property then fails.

### SyncPolicy

`sync.ts` and the backend's report, as operators without state. A text is a
function from `Region` to `Val`: a region is a stretch of lines the merge treats
separately, so `merge3` becomes `Combine` and `Clash`. One region, `Form`, is
the *spelling* of the file (CRLF, bullet style, ...): the editor holds only the
canonical spelling, so `Canon`, what serialising a loaded text gives, is not the
identity, and most of the subtleties of the code (why `selectMine` answers
`base` for a clean tab, why the load echo is armed with the serialised text) are
visible in the model. The coordinates of lines are the subject of `Merge3`.

### Reconcile

One file-backed tab and its note.

| model | code |
|---|---|
| `disk` | the bytes at the tab's path, `NoText` when there is no file |
| `events`, `timer`, `epoch` | `workspace:change` messages, `reconcileTimers`, `removalEpoch` |
| `active`, `editor`, `notify` | whether the tab is on screen, the shared editor serialised, the listener's debounce |
| `echo` | `LoadEcho.expected` |
| `content`, `base`, `dirty`, `diverged`, `removedOnDisk` | the fields of `TabState` |
| `op[p]` | one handler in flight: where it awaits, and its locals |
| `answers` | commands that have run in the backend and whose promise is not resolved yet |
| `parked` | conflict copies |
| `shown`, `past`, `crossed`, `fresh` | history: what the tab held, how an edit escaped the dirty flag or a divergence its check, whether answers crossed, which handlers read what is on disk now |

An action is what runs between two awaits. `ReadDisk` is `merge_external` in the
backend; then `DropOutdated`, `FoundMissing`, `AskAgain` or `TakeVerdict`,
together with what the caller does in the same turn (`Return`: a save goes on
to write, a bulk writer to its other tabs), is the frontend's continuation.
`Select` and `SendSelected` are two actions because other tabs are checked and
written between the bulk writer's check of this one and its write.
`CaptureActiveBuffer` is the autosave tick's snapshot for the journal; the
autosave debounce itself is not kept, a tick may come at any time.

`UnseenSurvivesWrite` asks two things of a write it speaks of: its check was
answered and applied, and the note has not changed since that check read it
(`fresh`). Equal bytes are not enough. An outside program may write X, restore
the old text and write X again: a check of the first X finds a conflict, a second
check in between answers "unchanged" and clears it, and the first one's handler
writes over the second X. Three more ways remain in which a handler takes its
check for more than it is, `Misled`: answers that crossed; a button of the banner
that clears another divergence than the one it was pressed for; and a failed
read, whose flag takes the place of the conflict's and is dropped when an old
report of a removal comes late.

When the tab is not on screen, `editor` is kept unchanged: nothing reads it
until `SwitchBack` replaces it. `Emit` drops an event equal to the one queued
last; two equal neighbours would be handled as one.

### Merge3

`merge3` and `changes`, step by step, from two edit scripts. The line diff
is a library's, so a script is any sequence of hunks that turns the base into
the side's text, and the library's habit of reporting an insertion at a stale
base index is in it (`stale`): the code's running cursor is what makes the
ranges right, and the mutant without it is caught. Base line `p` of the code is
`base[p + 1]`. A line is a word and whether it has its terminator; only the last
line of a text may lack it. The merge is then one action per turn of the outer
loop's parts: `SeedMine`/`SeedTheirs`/`Flush` choose the next cluster,
`GrowMine`/`GrowTheirs` the inner loop, `Decide` the three cases and the
conflict, `EmitRest` the tail with its check for fused lines. `Sorted` is the
code's stable sort; what is to be proved of it is that it has nothing to do.

The references it is compared with know neither an order nor a cursor. `Text` is
the base with a *set* of changes made, line by line: what a change writes where
it starts (`Written`), and the line itself unless a change covers it
(`Standing`). `MineApart` and `TheirsApart` are the changes of a side that touch
none of the other's. A merge must be mine with `TheirsApart` made as well, and
theirs with `MineApart`; where both sides have a change in one place, they have
agreed on its text. A conflict must be a connected cluster of changes of which
the two sides make different texts, or the merge would have fused two lines.

### AtomicFile and AtomicWrite

`AtomicFile` says what a save promises: a file replaced as a whole, and after a
power loss some whole contents it had since its directory last reached the disk.
`AtomicWrite` is `fsatomic::atomic_write`, one action per system call, each of
which may fail, for several writers; a writer may be killed anywhere, and the
power may go. A file is its bytes and whether they have been synced; unsynced
bytes may come back torn. `disk` holds the files the note's name may stand for
after a power loss, so that a rename is durable only after `SyncDir`, which is
best effort. `ReplacedAtomically` is the refinement.

Assumed of the file system: `rename` is atomic, for readers and across a power
loss (the old or the new entry), and `fsync` does what it says.

### Retention, VersionLog and History

`Retention` is `prune` and its buckets as operators on sets of versions: a
version is its time, its number in the order of recording and its hash.
`VersionLog` is the promise: versions of a path are recorded, thinned by age,
carried to another path, and released from the old one only once the new one
has them; after an index that could not be read nothing is promised.
`History` is `crates/snapshots` with the commands around it (`save_file`,
`restore_snapshot`, `rename_entry`): one action per call that touches the disk,
any of which may fail or be the last before a kill or a power loss. The blobs of
a path are whole, torn or absent; a hash stands for its contents. A manifest or
a blob is replaced by `atomic_write`, hence one step for the program; but what
the program reads is not what a power loss leaves.

| model | what a power loss may leave |
|---|---|
| `listings[p]` | the manifests of a path: the one there is, and every one replaced since its directory was last synced |
| `remains[p][h]` | the states of a blob: there or not as long as its rename or its removal is not synced, and torn where `fs::copy` wrote it, which syncs nothing |
| `loose[p]` | why it may be otherwise than there is: the directory was `created` (nothing syncs the one above it), `removed`, or could not be synced (`unsynced`) |
| `syncs` | whether a directory can be synced at all; `SyncsChange` is a fault |

`atomic_write` syncs the file's own directory, if it can ("best effort", "notably
Windows", `fsatomic/src/lib.rs:46-48`), and goes on if not: both values of `syncs`
are initial states. Removals (`gc_blobs`, `remove_dir_all`) are synced by nothing
but the next write in the same directory. So a manifest that comes back may be older
than the blobs beside it, or newer; `PowerLoss` chooses for each path and each
blob by itself. This is `AtomicWrite`'s `disk` once more, for two files and a
directory at a time. Assumed of the file system: a rename is undone or not, as a
whole; a manifest is a name in the note's directory and the blobs are in one of their own;
what a sync did is not undone later. A note that comes back older is like
one that another program wrote (`Outside`).

`VersionsSurvive` is the refinement, with the index as the log and `OnDisk` as
what the log may be after a power loss. `VersionLog` allows a power loss to
bring back no log but those its path had since the last sync. `ListedIsReadable`
excepts `maimed`: contents of which a copy or a removal of `rekey` was cut
short, of which a power loss took a copy, or a blob that stood in a directory which
could not be synced or had been removed.

What the two cannot promise the code does not keep: after `rekey` both
directories may be gone (see "Where code and comments part").

Where `rekey` finds versions at both paths, the code puts the new path's first,
drops one of two with equal hash and time, and sorts by time; the model unites
the sets, whose order is time and then the number of recording. The two differ
only in which of two versions of the same second comes first.

### Vault

The files of a vault: `tree` maps paths (sequences of names) to files or
folders, a container of the trash holds a subtree relative to the item that was
deleted and, once written, the manifest that says where it came from. Rename is
a check and a `fs::rename`, then a re-key per note (`CarryHistory`, which may
fail); deletion is `CreateContainer`, `MoveIn`, `WriteManifest`, with `RollBack`
after a manifest that could not be written; restoration is a check, `MoveOut` and
`RemoveContainer`. Between two of these another program may create a note or
remove a folder, and Toril may be killed. `purge` and `empty` exist in the crate
but no command calls them. The set of paths is finite for TLC; `PathAssumption`
says that it is a tree in which every name is possible: what may stand below one
folder may stand below any folder beside it, since the program does not look
at names here.

### Names

One folder, its names, and everything that chooses one. A name is a stem,
whether it is capitalised differently, its number and what follows the first
dot; `Folds` says whether the file system takes capitals for small letters, and
is TRUE in the run (Windows, macOS), the harder case. `available_note_name`,
`with_note_extension` and `unique_conflict_path` are operators, the
commands one action each or, where the code looks before it writes, two. The
999 tries of the code are `MaxTries`.

### Session

What outlives the window: `recovery.json`, `session.json`, the debounces that
write them, the start that reads them, and the ways to stop: a crash, the close guard and
the restart for an update. Texts are
numbers, a larger one was typed later. Commands of the frontend wait in `queue`
and run in order; a check finds the disk unchanged, reloads, or leaves the
conflict, and a save is one action, since `Reconcile` has them in detail. The
listener's 200 ms are left out (a keystroke is a dirty tab at once): they shift
the debounce's beginning, not what follows it. The writes of `session.json` that
the debounce has sent wait in `saving`; each is made, or fails and is swallowed
(`main.ts:1741`). `SessionIsCurrent` speaks of the last one on its way, or of the
file, and excepts the time after a last write that failed (`outdated`): nothing
retries it before a tab is opened, closed or renamed again. `restartForUpdate` refuses while anything is dirty, empties the journal
and relaunches; where the relaunch fails the program goes on, and whatever was
typed meanwhile must reach the journal all the same. Save As is not in it.

`owed` is what `RecoveryKept` speaks of: the entries of the journal a crash left
behind. Each stays in the journal as it was, and is the text of a dirty tab once the start
is over. An entry is struck off when the user edits, saves or closes the tab,
and also, since the code then really loses it, when the journal could not be
read, when a flush or a close happens during the start, and when a check
of the note comes between the recovered tab's text and its base.

### Workspace

Several tabs and everything a user does with them. A handler in flight is a
process: `at = "call"` means that its command waits in `calls`, the backend's
queue, which `Backend` serves in order; its answer is taken (`Continue`)
in any order. A dialog (`at = "dialog"`) holds the window: nothing else of the
user's starts, but continuations of other handlers, watcher events and a second
launch's open do. `disk`, `versions` and `trash` are the backend's files in the
coarse form of `History` and `Vault`: a write records what it replaces and
what it writes. `panel` is the path the history panel shows: `refreshHistory`
sets it when a tab comes on screen, is saved or saved as, and when the
panel itself is shown (`RefreshHistory`), not when a note is renamed, saved by a bulk
writer, or deleted with no tab left. A restoration asks first (a dialog) and
takes the panel's path of after the answer. Save As chooses a path and with it a
format: `convert` is one that changes the format. Texts are numbers that never merge, so that a check reloads,
or finds a conflict, or nothing. A closed tab keeps its record: handlers in
flight hold a reference to it. A tab starts as an Untitled buffer or a note.

Left out: folders (a path is one note; `Vault`), other programs and the two
buttons of the conflict banner (`Reconcile`), captures of the editor between two
checks, and timers that were cancelled, which no property sees.

The program loses text, or leaves a clean tab unlike its note, in more races than
one expects; every one below was first a counterexample. `TypedIsKept`
waives a text (`owed`) and `CleanTabIsOnDisk` a tab (`strayed`) for these and no
others. A tab is struck off in the step in which an answer is taken, and only if it
is then unlike its note with no word of the watcher under way (`Overtaken`), if the
screen was not what was written, or if another tab shares its path.

1. What is typed while a write of the tab is under way counts as saved, what is
   typed in a tab while a version is being restored for it is replaced, and
   what is typed while its note is being deleted goes with the tab. The listener
   makes such a tab dirty only if its 200 ms end after the answer.
   (`Late`. It spoke of the note's path before the proof, which held within the
   run's bounds only: a note renamed away while it is restored, typed in, and
   renamed back before the answer is reloaded all the same.)
2. Save As: when another tab comes on screen during its dialog (a second
   launch, an open that is answered late), that tab's text is written and the
   old tab's own replaced by it. Case 12 is the same during its write.
3. Save As does not void the checks of the old path, as a rename does
   (`main.ts:744`): one in flight reloads the old note's text into the tab at
   its new path.
4. A write that crosses a rename makes the old name anew; the tab is clean, at
   the new path, with a base that is not its note's.
5. Two tabs at one path (Save As onto an open note, a rename onto a vanished
   tab's path): `byPath` finds the first only. The watcher's word of the note
   reaches that one alone, and a version is restored into it although the
   other was checked and saved.
6. An answer overtaken by a later change of which the event came first
   (open, create, save, rename, reload) leaves a clean tab with the older text.
7. Two checks of one tab whose answers cross: the older one reloads what the note
   no longer holds, and the tab is clean (`CheckAnswered`).
8. A save that crosses a restore: `persistActive`'s answer sets content and base
   to what it sent, while the restored text is on screen.
9. A deletion voids the checks of every tab at the note's path, one that was
   opened there while the note was being trashed included: what such a check was
   to bring is not asked for again (`DeleteAnswered`).
10. A bulk save under way writes a note anew whose tab was closed, or that was
    deleted.
11. `doDeleteEntry` (`main.ts:793-801`) leaves no tab at all when the deleted
    note's was the only one, against "never leave zero tabs" (`main.ts:368`).
    What is typed then belongs to no tab, is in no journal and is never asked
    about.
12. A Save As that converts (`.md` to `.html` or back) loads what it wrote into
    the editor when the write is answered (`main.ts:624-627`), whichever tab is on
    screen by then: that tab's unsaved text is replaced by another tab's, and if
    it was clean it shows what is not its note's.
13. A restoration for a path that is not the active tab's (`main.ts:957`): the
    panel still shows the path a note had before its rename, or that of the last tab,
    closed since, or another tab came on screen while the confirmation was open.
    Nothing is checked or saved; the path's tab, if it has one, loses its unsaved
    text and its unsaved mark. Where the panel lists the path of before a rename, there
    is no such version, or the old note is made anew.

## Runs

| run | instance | distinct states | shows |
|---|---|---|---|
| `reconcile_switch` | one handler, 2 edits, 1 outside change, tab switches, lost events | 1.1 million | types, `CleanTabIsSaved`, `EditsSurviveVerdict` |
| `reconcile_faults` | one handler, 1 edit, 2 outside changes; reads, writes and conflict copies fail | 0.9 million | `VanishedTabIsDirty`, `UntouchedTabIsClean`, `UnseenSurvivesWrite` |
| `reconcile_notice` | the same under fairness, saved by the bulk writers only; only reads fail | 0.1 million | `OutsideChangeIsNoticed` |
| `reconcile_two` | two handlers, 1 edit, 1 outside change, without Use theirs | 1.6 million | `CleanTabIsSaved`, `EditsSurviveVerdict`, `UnseenSurvivesWrite` |
| `atomic_write` | two writers, three contents, every fault | 41 thousand | types, `WholeNote`, `NoLitter`, `ReplacedAtomically` |
| `history` | 2 notes, 2 contents, times 0 and 8; 3 commands, 1 outside change, 1 fault, directories that can be synced or not | 1.7 million | types, `ListedIsReadable`, `BothSidesRecorded`, `VersionsSurvive` |
| `vault` | paths `a`, `b`, `a/n`, `b/n`; 2 files, 2 containers, 1 step of another program, 1 fault | 0.7 million | types, `OneLocation`, `TrashIsListed`, `HistoryFollows`, `RestoredToOrigin` |
| `merge3` | bases of 2 and 3 lines, the latter without final newline; 2 words, 2 hunks a side | 0.2 million | types, `NeverBehindCursor`, `BothSidesApplied`, `NoLineFused`, `ConflictIsGenuine` |
| `names` | 3 files, 10 names, 4 steps, a file system that folds capitals | 0.9 million | types, `NothingReplaced`, `CreatedIsShown`, `SuggestionIsFree` |
| `session` | 1 note, 1 Untitled, 3 texts, 1 stop, 1 flush waiting and room for a clear, 1 write of the session file, every fault; under fairness | 1.6 million | types, `DirtyIsJournalled`, `RecoveryKept`, `SessionIsCurrent`, `JournalCatchesUp` |
| `workspace` | 2 tabs, 2 paths, 2 handlers in flight, 2 texts, 2 handlers started, failing writes | 0.7 million | types, `TypedIsKept`, `CleanTabIsOnDisk` |
| `claim_recovery` | one stop, one outside change | | a sentence of the source refuted, below |

**Bounds.** Each bound limits the user, other programs, the clock or the number of
faults, never the program; it stands in the guard of what it limits.

- *Reconcile.* Two regions: the spelling and one region of words. One mergeable
  region suffices for the clash, and the spelling gives the region that differs
  with no edit, so merges, conflicts and reloads all occur. Three values: the
  loaded one, mine and theirs. Two outside changes make "changed again while the
  first change was being handled", "removed and recreated" and "reverted"
  possible, two edits "typed again during the check". Two handlers are what a
  watcher's check and a save need to cross; handlers are interchangeable,
  hence the symmetry in `reconcile_two`, which has no liveness property. The
  theorems below hold for any number of either. The invariants of
  `UnseenSurvivesWrite`'s proof were also checked with three outside changes
  (3.9 million states) and, with every handler and every fault, by simulation.
- *History.* Three commands suffice to save twice and rename, or to rename onto
  a note with a history and save; the times 0 and 8 put versions in a common
  bucket, in different ones and beyond the week. One fault is one failing call,
  one kill, one power loss or one change of what can be synced, anywhere. With
  two commands, two faults and a clock set back once it was checked as well: a
  sync that fails once is a fault, and the power loss that shows it another. All
  of these are in the theorems, without a bound.
- *Vault.* A folder with a note in it and a free path for either: a rename, a
  deletion or a restoration of a note or of its folder, onto a path that is free
  or taken, with one interference.
- *Merge3.* Two hunks a side make the chains in which a change of one side
  joins two of the other, insertions at the ends and at one place, and
  deletions next to them. What a hunk puts in is a member of `New`, here a line or
  nothing; the theorems are for texts of any length, and any number of hunks.
- *Names.* The ten names are pairs that differ in capitals, number or tail, a
  name with a dot, a device name and two names of conflict copies. Two tries stand for 999: taken, and all taken.
- *Session.* One note and one Untitled buffer are the two kinds the journal
  treats differently; three texts are one on disk, one recovered and one typed
  since. Safety was also checked with two stops (1.8 million states) and,
  without the restart for an update, with tabs opened and closed during the
  start (7.5 million).
- *Workspace.* Two handlers cross; two tabs and two paths are a tab and the one
  on screen instead of it, a path and the one it is renamed to. Also checked:
  three texts (2.0 million states), and by random simulation three tabs,
  four texts and five handlers (15 million states).

**Deadlock** is checked for `AtomicWrite`, which never stops, and not for the
others, whose bounds make them stop.

**Fairness.** `Reconcile!FairSpec`: the event loop runs what is queued and the
backend answers, hence weak fairness of `HandleChange`, `HandleRemove` and of
every handler in flight. A timer that is due runs; the model lets it start only
when one of the bounded handlers is free, and the user's own actions take these
again and again, so `TimerFires` is strongly fair: the code has no such bound.
Nothing is assumed of the user, of other programs, or of `Notify`; a lossy
watcher is not part of the liveness run, since a lost event is noticed only by
the next write. `Session!FairSpec`: weak fairness of `TimerFires` (a timeout
that is not cancelled runs) and of `Backend` (a command that was sent is
served). `JournalCatchesUp` holds in spite of a debounce without maximum wait
only because the texts are bounded: the user stops typing.

**The properties' exceptions** are histories (`past`, `crossed`, `maimed`,
`raced`, `owed`, `strayed`, ...). They are what the code really does and are not
hidden: each corresponds to an entry of the next section, of the list under
Workspace, or to a documented limit, and without it TLC shows the trace.

## Where code and comments part

`claim_recovery` refutes a sentence by a run: "Recovered content is newer than
disk" (`main.ts:1826-1827`). Nothing compares the two. A note another program
changed while Toril was down, or one saved within the debounce before the
crash, is older in the journal than on disk; it is shown as a dirty tab with the
disk for its base, so that the next save overwrites the newer text unasked.

The following were met while modelling. Those of Reconcile are named exceptions
of its properties (`past`, `crossed`).

*Reconciliation*
- "A tab that is not dirty has no edits by definition" (`sync.ts:18`): type, and
  switch tabs within 200 ms; `onDeactivate` keeps the edit, nobody sets the flag.
- A note only looked at must not be "written back to disk"
  (`loadecho.ts:10-14`): after a removal that a sync client undoes,
  `removedOnDisk` is cleared and `dirty` is not; autosave rewrites the note.
- No result must not read as "clear to write" (`main.ts:1453-1455`): a check
  outdated by a removal returns without one (`1483`), and `doSave` writes over
  the recreated file; and a verdict "unchanged" of one check clears the conflict
  of another that read later or earlier than it, when the note changes back.
- "If we cannot preserve the losing side, we do not get to destroy it"
  (`main.ts:1603`): a newer conflict arriving while the copy is written is
  cleared with the older one; "Use theirs" replaces what was typed meanwhile.
- "Use theirs" on a tab whose file has vanished leaves it removed and clean; a
  save followed within 200 ms by an undo to the loaded text leaves the tab clean
  with the undone text; `saveTabsToDisk` and `persistActive` write fields after
  the await with what they read before it or with what is there then; a removal
  reported between a write and its answer is forgotten; `saveTabsToDisk` checks
  `blocksWrite` again, but not `removedOnDisk`.

*Version history*
- `load_manifest` (`snapshots/src/lib.rs:101-106`) takes a manifest it cannot
  read for an empty one; the next snapshot then lists itself alone and collects
  the blobs of all the others (`misread`).
- "A power loss leaves ≥1 intact history dir [...] never zero"
  (`snapshots/src/lib.rs:303-306`): `rekey` copies blobs with `fs::copy`, not
  synced, creates a directory in one that is never synced, syncs the manifest's
  if the system can, and then removes the old one. A power loss after that
  may leave the removal and not the new directory, or not what is in it. A torn copy
  is taken for whole (`path.exists()`, line 131); a blobs directory it cannot read
  counts as empty, and the old one is removed all the same (`maimed`, `misread`).
- `restore_snapshot` (`commands/snapshots.rs:84-93`) first records the current
  text, which may thin out and collect the very version to be restored, and
  then cannot read it.

*Trash, file operations, names*
- A trashed file called `manifest.json` is overwritten by the container's own
  manifest (`buried`). A container whose removal fails or is killed is listed
  although what was in it is back (`limbo`).
- A roll-back moves a file over one that was created at its path meanwhile
  (`raced`); a rename that replaces another program's new file is called
  survivable because "the loser ... is therefore in version history"
  (`fileops/src/lib.rs:221-228`), which holds for what Toril wrote only.
- A new note at a trashed note's path inherits its history, and a note
  restored after that has none of its own; hidden descendants of a renamed folder
  keep theirs under the old path (`astray`).
- `with_note_extension` keeps `.html` and `.htm`, and names that begin with a
  dot, both of which the sidebar does not list, against its comment
  (`fileops/src/lib.rs:158-164`). A folder with one unreadable
  subfolder is not listed at all (`scan_dir`).

*Start and stop*
- A window closed, or a flush, during the start replaces a journal whose entries
  are not recovered yet; a journal that cannot be read counts as empty; what is
  typed in a restored tab before its entry is recovered is replaced; a check
  between `tabs.open` and `setBase` reloads over the recovered text.
- A flush between `clearRecovery` and the window's end leaves a journal after a
  clean exit; undo to the base, autosave and `restoreVersion` leave entries that
  are stale ("a saved tab drops out next tick", `autosave.ts:94-95`, needs a
  tick). What is typed between the close guard's count and the window's end is
  lost.
- A write of `session.json` that fails is swallowed and not repeated
  (`main.ts:1708-1712`, `1741`): the next start reopens the tabs of before.
- `session.json` saved during the start leaves out notes not reopened yet if
  these cannot be read; a second launch's file is dropped before the
  listener is registered.

*Workspace*: the thirteen cases listed with the module.

## Proofs

`Reconcile_proofs` proves, for any set of regions and
values, any number of handlers, any format, all faults and all bounds:

- `TypeCorrect`. Types alone are not inductive: `TakeVerdict` puts the report's
  text into the editor, so the invariant `TypeInv` adds `Good`: the report a
  handler holds is what `MergeExternal` makes of the bytes it read and the
  base and mine it sent, and a handler about to write or park has a text.
- `VanishedTabStaysFlagged` and `CleanTabHoldsItsBase`, from `TypeInv`. Most
  actions leave the buffer, the base and the flags alone: `QuietOrLoud` shows it
  once, and each invariant is shown for the "loud" ones only.
- `EditsSurvive`: in the step that applies a verdict, `Raced` was false, so the
  mine that was merged is the buffer of now, and `Combine` keeps each region
  in which it differs from the base that was merged.
- `UntouchedStaysClean`: as long as nothing was edited and nothing reported
  removed, the tab is clean and not in conflict, every pending notification is
  the echo of a load, and no resolution of a conflict is in flight
  (`UntouchedInv`). Each of these rests on the others: a notification that is
  no echo would make the tab dirty, a dirty tab can conflict, a conflict can be
  resolved, and Keep mine makes the tab dirty.
- `NothingUnseenOverwritten` (`UnseenSurvivesWrite`). `OneMoves` shows that a step
  moves at most one handler, which is answered, takes an answer, or neither; from
  it, one invariant per idea. `AnswersInv`: one answer for each handler that has
  one coming. `FreshInv`: a check that is fresh is of the bytes on disk.
  `OrderInv`: as long as answers do not cross, whoever read after a fresh check
  is fresh as well, so that its verdict is about the same bytes. `KnownInv`: the
  buffer and what is being written was shown, the base of the tab and of every
  check was shown or parked; a merge keeps this since without a clash it
  takes from the other side what it does not take from the base. `CheckedInv`,
  which is the property's reason: the bytes of a check that still stands are known, or
  the tab is in conflict with them and its handler has not been selected.

`AtomicWrite_proofs` proves `TypesKept` and the inductive invariant (`Invariant`:
the temp file of a writer past its `fsync` is whole and synced, and no writer
past its rename has one), from it `NoteIsWhole` and `NothingLeftBehind`, and
`Refinement`: every step is a replacement, a settling, a power loss or a stutter
of `AtomicFile`.

`Session_proofs`, for any notes, texts, stops and faults:

- `TypeCorrect`, by `TypeInv`: with the types, what the phases of a start and of
  a close have in hand (`Phases`, `Clearing`).
- `DirtyTextsAreJournalled`: `Journalled` is the property with the queue in it. The
  journal after every command under way holds each dirty text, or the debounce is
  armed, or a write failed; it is stated for all phases in which it is true
  and not only for the quiet one.
- `OpenNotesAreInSession`: `SessionKnown`, the last write on its way, or the file if
  there is none, names the open notes unless the debounce is armed or the last
  write failed; during the start it is about the notes reopened so far.
- `RecoveredTextsAreKept`: `OwedInv`. What is owed is in the journal and in every
  journal on its way, no entry is newer, no saved note owes, and it is shown in
  its tab from the moment its entry is recovered.

`History_proofs`, for any notes, contents, clock and faults:

- `TypeCorrect`, with the shape of the command in hand (`OpShape`).
- `VersionsAreReadable`: `BlobsKept` and `DiskInv`. Whatever step of a snapshot, a
  collection or a re-key comes next, or does not come any more, each listed version
  has its blob whole, and the step that removes a blob comes after the manifest
  that does not name it. `DiskInv` is about what a power loss may leave: a directory
  is `Firm` if it was synced after its last change and no rename took it away. Of such
  a directory only the present manifest can come back, and of its whole blobs only an
  `fs::copy` that may also come back torn can be missing. In any other, a listed version
  whose blob does not come back is named by `maimed` (`Damaged`).
- `HistoryImplementsVersionLog`: each step is one of `VersionLog` or leaves the
  indices alone (`IndexKept`: what the command has in hand is the index, thinned
  and extended legally). What may be on disk grows by the log that is written, and
  shrinks to it when a directory is synced. `PruneIsLegal` is its lemma about retention.
- `SavesAreRecorded`: `Dated`, no version is later than the clock unless it was
  set back, nor any that a power loss may bring back; `Captured`, what a save replaces is listed when the save comes to write.

`Names_proofs`, for any names, files, number of tries, and a file system that folds
capitals or does not: `NoFileReplaced` (`OnlyRacedInTheWay`: between a check and its
rename only another program's file can be in the way), `WhatIsCreatedIsShown`
(`Visible`) and `ProposedNameIsFree`.

`Vault_proofs`, for any tree of any depth, any containers, other programs and faults:

- `TypeCorrect`: `Types` says that the vault is a tree, that each path's folders
  are there (`Rooted`), and that a container holds one item, whole, under the
  path it came from (`Sound`); `OpShape` and `InHand` what the command in hand
  is about. That a subtree cut out is an item and a grafted item gives a tree
  again are lemmas about `Cut`, `Subtree` and `Graft` alone.
- `TrashIsComplete`: `Listing`, which containers are without a manifest or with one
  too many, and for whom.
- `FilesAreInOnePlace`: `Unique` and `Present`, and `InTheWay`: what stands where the
  command in hand is about to put something is a file another program made.
- `FilesGoBackWhereTheyWere`, an action property, from `Types` and `OpShape`.
- `VersionsFollowTheirNote`: `AtHome`. A note's versions are under its path; while
  a rename re-keys, under the old path for those still to be carried (`Home`); in
  the trash, under the path it would go back to. The steps are put in three
  classes first (`Relocated`, `TakenIn`, `TakenOut`), and each part shown for these.

`Workspace_proofs`, for any paths, number of handlers in flight, tabs and texts:

- `TypeCorrect`: `TypeInv` says with the types what a handler's record is about
  (`Shape`): one that checks or writes has a tab with a path, a bulk save lists
  only such tabs, an answered read found a text. Each handler that calls is in
  the backend's queue once. One lemma per step.
- `NothingTypedIsLost` (`TypedIsKept`): where a text is says nothing of
  who may replace it next. `SafeInv` speaks of the *loose* texts, those that are in
  tabs alone: a tab without the unsaved mark shows none (`Clean`), no tab's base is
  one (`Bases`), nor is the record of the tab on screen unless it is on
  screen too (`Backed`), and of every handler `Good` says what it goes by: base
  and answer are not loose, what a write's tab shows is what was sent or not
  loose, a tab whose version is restored or whose note is trashed shows no
  loose text. These need each other: a check reloads because what its tab shows
  is its base, a tab counts as saved because its write's text is stored.
  A step that is `Carried` makes no text loose, and what it takes out of a tab is
  stored; `CarefulBecomes` and `SafeNext` give the invariant from it. It remains
  to show each step carried, and typing, the only step that makes a text loose.

- `CleanTabsShowTheirNotes` (`CleanTabIsOnDisk`). The property speaks of the
  moment when everything is through; `TrueInv` says what leads there. A tab
  that has not strayed and has no unsaved mark shows its base, and (`Heard`) its
  note is that base, or word of the note is under way, or a check that asks
  about the tab as it is now (`Asks`: its path, its base, its text) is not
  answered, or was answered with what the note still holds. When nothing is
  under way only the first is left. Two more parts make it inductive. `Alone`: two open
  tabs at one path have strayed, since word of a note reaches one of
  them. `Taken`: `saveTabsToDisk` takes the tab's record for what it sent, so
  the record has to be what the screen shows while the two are the same text.
  The proof corrected the model: an earlier rule for `strayed` satisfied the
  property within the run's bounds and not beyond them, where two restorations
  whose watcher's checks are answered crosswise take 24 steps to refute it (case
  7); and that rule struck off whole classes of tabs (any write that crossed a rename,
  any Save As with another tab on screen) of which most are as they should be.

`Merge3_proofs`, for any words, bases, edit scripts and number of hunks:

- *Folds.* What `FlattenSeq` and the sums compute is shown by induction over
  the prefixes of a sequence. The induction is a lemma about *sets* of naturals
  (a set with 0 and every successor has them all), from `<` being well-founded, since
  the provers cannot instantiate an induction theorem's predicate. From it,
  `TextStep`: the text that a set of changes makes, one base line at a time.
- *The diff's answer* (`ChangesMakeTheSide`): the running cursor of `changes()` puts
  the changes of any edit script in order and apart (`Ordered`), so the sort
  changes nothing, and made on the base they give the side's text. It holds whatever
  index the library reports for an insertion.
- *Clusters.* `Grown`: what a cluster has taken lies in its region and is linked; what
  it has not taken of either side lies behind it or is still to be looked at.
  When neither side's next change overlaps the region, what is left touches
  nothing of it (`Complete`).
- *The invariant* (`Inv`): at the head of the loop what is merged is the text of the
  changes taken (`Taken`: those of one side, and of the other side those apart
  from it) up to `pos`, seen from either side. From it `TypeCorrect`,
  `CursorNeverPassed`, `MergeTakesBothSides`, `MergeKeepsLinesApart` and
  `ConflictsAreGenuine`. `OnlyClustersConflict`: of the places where `merge3` gives up,
  only the conflict of a complete cluster is ever reached. The checks for changes out of
  order, for a cluster behind the cursor and for an open line before untouched
  ones guard against what cannot happen.

Assumptions: those named in the modules. A spelling region beside at least one
other, values that stand for "nothing" are none (`NoText`, `Torn`, `NoFile`,
`None`), notes are documents, bounds and times in `Nat`, the retention windows in
order, stems that exist, paths as described under Vault. TLC evaluates them in
every run.

Only model-checked: `OutsideChangeIsNoticed` and `JournalCatchesUp`, liveness under
fairness, which the prover does not reach. Every other property of a passing run
is stated by a theorem. What a merge does with texts is proved from edit scripts,
not from the diff that finds them, which is a library's. No module declares a
RECURSIVE operator, so that all of them can be proved about.

## Plan

1. Proofs: of what the runs check only the two liveness properties are without
   one, and they would need ENABLED. Next would be an abstract specification
   of `merge3` with one step per cluster, which `Complete` and `Taken` all but state.
2. What is left to model: the sidebar's inline rename against a tree that is
   refreshed meanwhile; the update offer and its install;
   the conflict banner among several tabs; front matter (split and join,
   property edits) over bounded lines.

## Not modelled

Key store (the operating system's), images (one content-addressed write each),
exports to HTML and RTF, the Milkdown editor and the HTML serializer (external,
or conversions whose output no other part reads back), pane layout, recent files,
the history panel's line diff, toolbar, search, outline, status bar, menus,
theme, zoom and links (display), window geometry. Front matter, the sidebar's
inline rename and updates are in the plan. `src-tauri/third-party/glib` is
vendored. `PROJECT.json` gives the reason per component.
