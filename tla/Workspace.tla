------------------------------- MODULE Workspace -------------------------------
(***************************************************************************)
(* Several tabs on one screen, and the handlers of main.ts that open,      *)
(* save, rename, delete, restore and close them, interleaved at their      *)
(* awaits, over notes that no other program touches.                       *)
(*                                                                         *)
(* A text is a number: the later it was typed the larger, and two of them  *)
(* never merge.  The details of a check are the subject of Reconcile, those *)
(* of a note's versions the subject of History: here a version is a text   *)
(* that Toril found or wrote at the path.  A handler that awaits a command *)
(* is a process: its call waits in the backend's queue, the backend runs   *)
(* the calls one at a time, and the answers come in any order.             *)
(***************************************************************************)
EXTENDS Naturals, Sequences, FiniteSetsExt

CONSTANTS
  Path,
  Proc,      \* handlers in flight
  None,
  Fails,     \* whether a write may fail
  MaxTabs,   \* bound: tabs ever opened; a tab is the number of its opening
  MaxText,   \* bound: texts there will be
  MaxOps     \* bound: handlers ever started, the watcher's aside

ASSUME BoundAssumption ==
  {MaxTabs, MaxText} \subseteq Nat \ {0} /\ MaxOps \in Nat /\ Fails \in BOOLEAN
ASSUME NoneAssumption == None \notin Path

VARIABLES
  disk,      \* the notes' texts, NoFile where there is none
  versions,  \* the texts in each path's version history
  trash,     \* trashed notes: where they were, and what they held
  tabs,      \* TabState, of the tabs that have been closed too
  items,     \* the open tabs
  active,    \* the tab on screen, 0 when there is none
  editor,    \* the text on screen
  panel,     \* the path whose versions the history panel offers
  op,        \* the handlers
  calls,     \* the handlers whose command waits for the backend, in order
  removals,  \* paths of the watcher's remove events under way
  changes,   \* paths of its other events under way, and of reconcileTimers
  last,      \* history: the newest text
  ops,       \* history: handlers started
  owed,      \* history: what the user typed and neither changed nor gave up
  strayed    \* history: tabs that a race has left unlike their note (README)

files == <<disk, versions, trash>>
screen == <<tabs, items, active, editor, panel>>
running == <<op, calls>>
watcher == <<removals, changes>>
vars == <<files, screen, running, watcher, last, ops, owed, strayed>>

NoFile == 0
Empty == 1
Text == 1..MaxText
Tab == 1..MaxTabs

Live(t) == IF t = active THEN editor ELSE tabs[t].content
ByPath(path) == {t \in items : tabs[t].path = path}
TheTab(path) == Min(ByPath(path))

\* selectMine: an untouched tab stands for its base.
MineIn(t, ts, text) ==
  IF ~ts[t].dirty THEN ts[t].base ELSE IF t = active THEN text ELSE ts[t].content
Mine(t) == MineIn(t, tabs, editor)

NewTab(path, text) ==
  [path |-> path, content |-> text, base |-> text,
   dirty |-> FALSE, removed |-> FALSE, diverged |-> FALSE]

Idle ==
  [kind |-> "idle", at |-> "idle", cmd |-> "none", tab |-> 0, path |-> None,
   to |-> None, text |-> NoFile, base |-> NoFile, got |-> NoFile,
   pick |-> NoFile, again |-> FALSE, outdated |-> FALSE,
   todo |-> {}, seen |-> {}, pass |-> 0]

Init ==
  /\ disk \in [Path -> {NoFile, Empty}]
  /\ versions = [p \in Path |-> {}] /\ trash = {}
  /\ \E path \in {None} \union {p \in Path : disk[p] = Empty} :
       tabs = <<NewTab(path, Empty)>> /\ panel = path
  /\ items = {1} /\ active = 1 /\ editor = Empty
  /\ op = [p \in Proc |-> Idle] /\ calls = <<>> /\ removals = {} /\ changes = {}
  /\ last = Empty /\ ops = 0 /\ owed = {} /\ strayed = {}

(***************************************************************************)
(* TabManager, and the steps of a handler.                                 *)
(***************************************************************************)

\* refreshHistory(): tab t is on screen.  A panel that is hidden is refreshed when
\* it is shown (RefreshHistory).
PanelOf(t, ts) == IF t = 0 THEN None ELSE ts[t].path

\* setActive(t), the tabs having become ts: the outgoing text is kept.
SetActive(t, ts) ==
  LET kept == IF active \in {0, t} THEN ts ELSE [ts EXCEPT ![active].content = editor]
  IN /\ tabs' = kept /\ active' = t
     /\ editor' = IF t = active THEN editor ELSE kept[t].content
     /\ panel' = IF t = active THEN panel ELSE PanelOf(t, ts)

\* openDocument(): a tab that has the path already is shown instead.
OpenDocument(path, text) ==
  IF path # None /\ ByPath(path) # {}
  THEN SetActive(TheTab(path), tabs) /\ UNCHANGED items
  ELSE LET t == Len(tabs) + 1
       IN /\ t \in Tab
          /\ items' = items \union {t}
          /\ SetActive(t, Append(tabs, NewTab(path, text)))

(* Mutant: the tab on screen is closed and no neighbour takes its place. *)
CloseInPlace(gone) == items' = items \ gone /\ UNCHANGED <<active, editor, panel>>

\* close() of each of gone: the neighbour on the right is shown, or the left one.
\* When all are closed the panel is left with the last that came on screen.
CloseTabs(gone) ==
  LET rest == items \ gone
      right == {t \in rest : t > active}
      next == IF active \in rest THEN active
              ELSE IF right # {} THEN Min(right)
              ELSE IF rest # {} THEN Max(rest) ELSE 0
      shown == IF next # 0 THEN next ELSE Max(items \union {0})
  IN /\ items' = rest /\ active' = next
     /\ editor' = IF next \in {active, 0} THEN editor ELSE tabs[next].content
     /\ panel' = IF shown = active THEN panel ELSE PanelOf(shown, tabs)

Become(p, o) ==
  /\ op' = [op EXCEPT ![p] = o]
  /\ calls' = IF o.at = "call" THEN Append(calls, p) ELSE calls

\* The removal epoch of paths is bumped: checks in flight there are void.
Outdate(paths, procs) ==
  [q \in Proc |-> IF procs[q].cmd = "check" /\ procs[q].path \in paths
                  THEN [procs[q] EXCEPT !.outdated = TRUE] ELSE procs[q]]

DialogUp == \E p \in Proc : op[p].at = "dialog"

\* A handler of the user's starts: not while a dialog holds the window.
Starts(p, o) ==
  /\ op[p] = Idle /\ ~DialogUp /\ ops < MaxOps /\ ops' = ops + 1
  /\ Become(p, o)

SaveAsKind == {"saveas", "convert"}
Command(o, cmd) == [o EXCEPT !.at = "call", !.cmd = cmd]
Of(kind) == [Idle EXCEPT !.kind = kind]

Check(o, t, ts, text) ==
  [Command(o, "check") EXCEPT
     !.tab = t, !.path = ts[t].path, !.base = ts[t].base, !.text = text,
     !.got = NoFile, !.again = FALSE, !.outdated = FALSE]

Write(o, t, path, text) ==
  [Command(o, "save") EXCEPT
     !.tab = t, !.path = path, !.text = text, !.base = NoFile, !.got = NoFile,
     !.again = FALSE, !.outdated = FALSE, !.seen = {}, !.pass = 0]

\* saveTabsToDisk(): the rest of list, whatever is diverged left out.
WriteEach(o, list, ts) ==
  LET ready == {t \in list : ~ts[t].diverged}
      t == Min(ready)
  IN IF ready = {} THEN Idle
     ELSE [Write(o, t, ts[t].path, ts[t].content) EXCEPT !.todo = {u \in list : u > t}]

\* reconcileWritableTabs(): the next of the pass, the second pass, or the writes.
BulkNext(o, ts, text) ==
  LET saved == {t \in items : ts[t].dirty /\ ts[t].path # None}
      pending == IF o.todo # {} THEN o.todo ELSE IF o.pass < 2 THEN saved \ o.seen ELSE {}
      t == Min(pending)
  IN IF pending # {}
     THEN Check([o EXCEPT !.todo = pending \ {t}, !.seen = @ \union {t},
                          !.pass = IF o.todo = {} THEN @ + 1 ELSE @],
                t, ts, MineIn(t, ts, text))
     ELSE WriteEach(o, {u \in saved \intersect o.seen : ~ts[u].diverged /\ ~ts[u].removed}, ts)

(* Mutant: the save trusts that its tab is still on screen. *)
SaveOnScreen(o, t, ts, text) == Write(o, t, ts[t].path, text)

\* doSave() after its check: the editor's text, if it still holds the tab's.
SaveNext(o, t, ts, text) ==
  IF t = active THEN Write(o, t, ts[t].path, text) ELSE WriteEach(Of("bulk"), {t}, ts)

\* What a handler does next once the check of its tab has been acted on.
AfterCheck(o, ts, text) ==
  LET t == o.tab
  IN IF o.kind = "bulk" THEN BulkNext(o, ts, text)
     ELSE IF o.kind = "watch" \/ ts[t].diverged THEN Idle
     ELSE IF o.kind = "save" THEN SaveNext(o, t, ts, text)
     ELSE IF t # active THEN Idle
     ELSE IF ts[t].dirty THEN Write(o, t, o.path, text) ELSE Command(o, "restore")

(***************************************************************************)
(* The backend runs the next command.                                      *)
(***************************************************************************)

\* snapshot_before_write(): what is on disk joins the versions.
Found(path) == IF disk[path] = NoFile THEN {} ELSE {disk[path]}

Done(p, ok, got) ==
  /\ calls' = Tail(calls)
  /\ op' = [op EXCEPT ![p].at = IF ok THEN "answer" ELSE "failed", ![p].got = got]

Keep(path, texts) == versions' = [versions EXCEPT ![path] = @ \union texts]

ReadNote(p) ==
  /\ op[p].cmd \in {"check", "read"}
  /\ Done(p, op[p].cmd = "check" \/ disk[op[p].path] # NoFile, disk[op[p].path])
  /\ UNCHANGED <<files, watcher, strayed>>

SaveFile(p) ==
  LET o == op[p]
  IN /\ o.cmd = "save" /\ Done(p, TRUE, NoFile)
     /\ disk' = [disk EXCEPT ![o.path] = o.text]
     /\ Keep(o.path, Found(o.path) \union {o.text})
     /\ changes' = changes \union {o.path}
     /\ UNCHANGED <<trash, removals, strayed>>

RestoreSnapshot(p) ==
  LET o == op[p]
  IN /\ o.cmd = "restore" /\ o.pick \in versions[o.path]
     /\ Done(p, TRUE, NoFile)
     /\ disk' = [disk EXCEPT ![o.path] = o.pick]
     /\ Keep(o.path, Found(o.path))
     /\ changes' = changes \union {o.path}
     /\ UNCHANGED <<trash, removals, strayed>>

CreateNote(p) ==
  LET o == op[p]
  IN /\ o.cmd = "create" /\ disk[o.path] = NoFile
     /\ Done(p, TRUE, NoFile)
     /\ disk' = [disk EXCEPT ![o.path] = Empty]
     /\ changes' = changes \union {o.path}
     /\ UNCHANGED <<versions, trash, removals, strayed>>

RenameEntry(p) ==
  LET o == op[p]
  IN /\ o.cmd = "rename" /\ disk[o.path] # NoFile /\ disk[o.to] = NoFile
     /\ Done(p, TRUE, NoFile)
     /\ disk' = [disk EXCEPT ![o.to] = disk[o.path], ![o.path] = NoFile]
     /\ versions' = [versions EXCEPT ![o.to] = @ \union versions[o.path], ![o.path] = {}]
     /\ removals' = removals \union {o.path} /\ changes' = changes \union {o.to}
     /\ UNCHANGED <<trash, strayed>>

MoveToTrash(p) ==
  LET o == op[p]
  IN /\ o.cmd = "trash" /\ disk[o.path] # NoFile
     /\ Done(p, TRUE, NoFile)
     /\ disk' = [disk EXCEPT ![o.path] = NoFile]
     /\ trash' = trash \union {<<o.path, disk[o.path]>>}
     /\ removals' = removals \union {o.path}
     /\ UNCHANGED <<versions, changes, strayed>>

RestoreFromTrash(p) ==
  LET o == op[p]
  IN /\ o.cmd = "undo" /\ <<o.path, o.pick>> \in trash /\ disk[o.path] = NoFile
     /\ Done(p, TRUE, NoFile)
     /\ disk' = [disk EXCEPT ![o.path] = o.pick]
     /\ trash' = trash \ {<<o.path, o.pick>>}
     /\ changes' = changes \union {o.path}
     /\ UNCHANGED <<versions, removals, strayed>>

\* What the command asks for cannot be had, or the write fails: the capture of
\* what a write was to replace has been made by then.
Refuse(p) ==
  LET o == op[p]
  IN /\ \/ o.cmd \in {"save", "restore"} /\ Fails
        \/ o.cmd = "restore" /\ o.pick \notin versions[o.path]
        \/ o.cmd = "create" /\ disk[o.path] # NoFile
        \/ o.cmd = "rename" /\ (disk[o.path] = NoFile \/ disk[o.to] # NoFile)
        \/ o.cmd = "trash" /\ disk[o.path] = NoFile
        \/ o.cmd = "undo" /\ (<<o.path, o.pick>> \notin trash \/ disk[o.path] # NoFile)
     /\ Done(p, FALSE, NoFile)
     /\ IF o.cmd \in {"save", "restore"} THEN Keep(o.path, Found(o.path))
        ELSE UNCHANGED versions
     /\ UNCHANGED <<disk, trash, watcher, strayed>>

Backend ==
  /\ calls # <<>>
  /\ LET p == Head(calls)
     IN \/ ReadNote(p) \/ SaveFile(p) \/ RestoreSnapshot(p) \/ CreateNote(p)
        \/ RenameEntry(p) \/ MoveToTrash(p) \/ RestoreFromTrash(p) \/ Refuse(p)
  /\ UNCHANGED <<screen, last, ops, owed>>

(***************************************************************************)
(* The handlers: what each does when its answer comes.                     *)
(***************************************************************************)
Answered(p, cmd) == op[p].cmd = cmd /\ op[p].at = "answer"

\* By the time the answer comes the note at path holds another text, and the
\* watcher's word of it has come first.
Overtaken(path, text) == disk[path] # text /\ path \notin changes \union removals

\* reconcile(): what the answer makes of the tab, of a closed one only its text.
Settled(t, o) ==
  LET there == [tabs[t] EXCEPT !.removed = FALSE, !.diverged = FALSE]
      found == IF o.got = NoFile THEN [tabs[t] EXCEPT !.removed = TRUE, !.dirty = TRUE]
               ELSE IF o.got = o.base THEN there
               ELSE IF o.text \in {o.base, o.got} /\ Mine(t) = o.text
               THEN [there EXCEPT !.content = o.got, !.base = o.got, !.dirty = FALSE]
               ELSE [there EXCEPT !.diverged = TRUE]
  IN IF o.outdated THEN tabs[t]
     ELSE IF t \in items THEN found ELSE [tabs[t] EXCEPT !.content = found.content]

Reloads(o) ==
  ~o.outdated /\ o.got \notin {NoFile, o.base} /\ o.text \in {o.base, o.got}

\* Typed into since: asked once more.
RetryCheck(p) ==
  LET o == op[p]
      t == o.tab
  IN /\ Answered(p, "check") /\ Reloads(o) /\ Mine(t) # o.text /\ ~o.again
     /\ tabs' = IF t \in items THEN [tabs EXCEPT ![t].removed = FALSE] ELSE tabs
     /\ Become(p, [Command(o, "check") EXCEPT !.base = tabs[t].base, !.text = Mine(t),
                                              !.got = NoFile, !.again = TRUE])
     /\ UNCHANGED <<items, active, editor, panel, ops, owed, strayed>>

\* captureActiveBuffer() of the bulk writers; they do it between checks too,
\* where nothing reads what it keeps.
Captured(o, ts, text) ==
  IF o.kind = "bulk" /\ active # 0 THEN [ts EXCEPT ![active].content = text] ELSE ts

\* An answer that another one overtook, or of a tab that Save As gave another
\* path and left its checks in force, reloads what the tab's note does not hold.
CheckAnswered(p) ==
  LET o == op[p]
      t == o.tab
      ts == [tabs EXCEPT ![t] = Settled(t, o)]
      reloads == Reloads(o) /\ Mine(t) = o.text
      text == IF reloads /\ t = active THEN o.got ELSE editor
      kept == Captured(o, ts, text)
  IN /\ Answered(p, "check") /\ (Reloads(o) /\ Mine(t) # o.text => o.again)
     /\ tabs' = kept /\ editor' = text
     /\ Become(p, AfterCheck(o, kept, text))
     /\ strayed' = IF reloads /\ Overtaken(tabs[t].path, o.got) THEN strayed \union {t} ELSE strayed
     /\ UNCHANGED <<items, active, panel, ops, owed>>

\* Another open tab has the path that t is given.
Doubled(t, path) == {u \in items \ {t} : tabs[u].path = path}

\* After a write: persistActive(), saveTabsToDisk(), doSaveAs().  A tab typed into
\* or reloaded since it was sent, or renamed meanwhile, counts as saved all the
\* same: it strays.  A Save As that converts loads what it wrote, over the text of
\* whichever tab is on screen by then (README).
WriteAnswered(p) ==
  LET o == op[p]
      t == o.tab
      tab == tabs[t]
      content == IF o.kind = "bulk" THEN tab.content ELSE o.text
      clean == [tab EXCEPT !.content = content, !.base = content,
                           !.removed = FALSE, !.dirty = FALSE]
      saved == IF t \notin items THEN [tab EXCEPT !.content = content]
               ELSE IF o.kind \in SaveAsKind
               THEN [clean EXCEPT !.path = o.path, !.diverged = FALSE]
               ELSE clean
      ts == [tabs EXCEPT ![t] = saved]
      text == IF o.kind = "convert" THEN o.text ELSE editor
      hit == {active} \ {0, t}
  IN /\ Answered(p, "save") /\ tabs' = ts /\ editor' = text
     /\ panel' = IF o.kind = "bulk" THEN panel ELSE PanelOf(active, ts)
     /\ Become(p, CASE o.kind = "bulk" -> WriteEach(Of("bulk"), o.todo, ts)
                    [] o.kind = "restore" -> Command(o, "restore")
                    [] OTHER -> Idle)
     /\ owed' = IF text # editor /\ hit # {} THEN owed \ {editor} ELSE owed
     /\ strayed' = strayed
          \union {u \in items \intersect {t} :
                    \/ Overtaken(ts[t].path, o.text)
                    \/ o.text # (IF t = active THEN text ELSE content)}
          \union (IF text # editor THEN hit ELSE {})
          \union (IF o.kind \in SaveAsKind /\ t \in items /\ Doubled(t, o.path) # {}
                  THEN {t} \union Doubled(t, o.path) ELSE {})
     /\ UNCHANGED <<items, active, ops>>

\* An error ends the handler; the bulk writers go on to the next tab.
Failed(p) ==
  /\ op[p].at = "failed"
  /\ Become(p, IF op[p].kind = "bulk" THEN WriteEach(Of("bulk"), op[p].todo, tabs) ELSE Idle)
  /\ UNCHANGED <<screen, ops, owed, strayed>>

\* doSave(): the tab on screen; a draft goes by Save As.
Save(p) ==
  /\ active # 0 /\ tabs[active].path # None
  /\ Starts(p, Check(Of("save"), active, tabs, Mine(active)))
  /\ UNCHANGED <<screen, owed, strayed>>

\* doSaveAll(), or an autosave tick, which dialogs do not hold up.
SaveAll(p) ==
  LET o == BulkNext(Of("bulk"), tabs, editor)
  IN /\ op[p] = Idle /\ ops < MaxOps /\ ops' = ops + 1
     /\ o # Idle /\ Become(p, o)
     /\ UNCHANGED <<screen, owed, strayed>>

\* handleWorkspaceChange(), and the timer it sets: the first tab that has the path.
Watch(p, path) ==
  /\ path \in changes /\ changes' = changes \ {path} /\ UNCHANGED removals
  /\ IF ByPath(path) = {} THEN UNCHANGED running
     ELSE LET t == TheTab(path)
          IN op[p] = Idle /\ Become(p, Check(Of("watch"), t, tabs, Mine(t)))
  /\ UNCHANGED <<screen, ops, owed, strayed>>

\* A remove event.  It also cancels the path's timer, whose check would find
\* the note missing again, or find it back.
NoticeRemoval(path) ==
  /\ path \in removals /\ removals' = removals \ {path} /\ UNCHANGED changes
  /\ tabs' = [t \in DOMAIN tabs |->
       IF t \in ByPath(path) THEN [tabs[t] EXCEPT !.removed = TRUE, !.dirty = TRUE]
       ELSE tabs[t]]
  /\ op' = IF ByPath(path) = {} THEN op ELSE Outdate({path}, op)
  /\ UNCHANGED <<items, active, editor, panel, calls, ops, owed, strayed>>

\* doSaveAs(): the dialog, and the tab it was asked for.
SaveAs(p) ==
  /\ active # 0
  /\ Starts(p, [Of("saveas") EXCEPT !.at = "dialog", !.tab = active])
  /\ UNCHANGED <<screen, owed, strayed>>

\* What is on screen is written, should another tab have come up meanwhile too:
\* then the tab asked for loses its own text, which is waived here (README).  The
\* extension chosen may be that of the other format.
PickSavePath(p, path) ==
  LET o == op[p]
      swapped == active # o.tab
  IN /\ o.kind = "saveas" /\ o.at = "dialog"
     /\ IF path = None THEN Become(p, Idle) /\ UNCHANGED owed
        ELSE /\ \E kind \in SaveAsKind :
                  Become(p, Write([o EXCEPT !.kind = kind], o.tab, path, editor))
             /\ owed' = IF swapped THEN owed \ {Live(o.tab)} ELSE owed
     /\ UNCHANGED <<screen, ops, strayed>>

\* doRenameEntry()
Rename(p, path, to) ==
  /\ path # to /\ disk[path] # NoFile
  /\ Starts(p, [Command(Of("rename"), "rename") EXCEPT !.path = path, !.to = to])
  /\ UNCHANGED <<screen, owed, strayed>>

RenameAnswered(p) ==
  LET o == op[p]
      moved == ByPath(o.path)
  IN /\ Answered(p, "rename")
     /\ tabs' = [t \in DOMAIN tabs |->
          IF t \in moved THEN [tabs[t] EXCEPT !.path = o.to, !.removed = FALSE] ELSE tabs[t]]
     /\ op' = [IF moved = {} THEN op ELSE Outdate({o.path}, op) EXCEPT ![p] = Idle]
     /\ strayed' = strayed
          \union {t \in moved : ~tabs[t].dirty /\ Overtaken(o.to, tabs[t].base)}
          \union (IF moved # {} /\ ByPath(o.to) # {} THEN moved \union ByPath(o.to) ELSE {})
     /\ UNCHANGED <<items, active, editor, panel, calls, ops, owed>>

\* doDeleteEntry(): the tabs are listed, unsaved ones asked about.
Delete(p, path) ==
  LET affected == ByPath(path)
      o == [Of("delete") EXCEPT !.path = path, !.todo = affected]
  IN /\ disk[path] # NoFile
     /\ Starts(p, IF \E t \in affected : tabs[t].dirty THEN [o EXCEPT !.at = "dialog"]
                  ELSE Command(o, "trash"))
     /\ UNCHANGED <<screen, owed, strayed>>

DeleteConfirmed(p, yes) ==
  LET o == op[p]
  IN /\ o.kind = "delete" /\ o.at = "dialog"
     /\ Become(p, IF yes THEN Command(o, "trash") ELSE Idle)
     /\ owed' = IF yes THEN owed \ {Live(t) : t \in o.todo} ELSE owed
     /\ UNCHANGED <<screen, ops, strayed>>

\* It voids the checks of a tab that was opened at the path since, too.
DeleteAnswered(p) ==
  LET o == op[p]
      paths == {tabs[t].path : t \in o.todo}
  IN /\ Answered(p, "trash")
     /\ CloseTabs(o.todo)
     /\ op' = [Outdate(paths, op) EXCEPT ![p] = Idle]
     /\ strayed' = strayed \union {t \in items' : /\ tabs[t].path \in paths \ {None}
                                                 /\ ~tabs[t].dirty
                                                 /\ Overtaken(tabs[t].path, tabs[t].base)}
     /\ UNCHANGED <<tabs, calls, ops, owed>>

\* undoDelete()
Undo(p, entry) ==
  /\ entry \in trash
  /\ Starts(p, [Command(Of("undo"), "undo") EXCEPT !.path = entry[1], !.pick = entry[2]])
  /\ UNCHANGED <<screen, owed, strayed>>

UndoAnswered(p) ==
  /\ Answered(p, "undo") /\ Become(p, Idle)
  /\ UNCHANGED <<screen, ops, owed, strayed>>

\* selectRail(): the history is shown, for the tab on screen.
RefreshHistory ==
  /\ ~DialogUp /\ panel' = PanelOf(active, tabs)
  /\ UNCHANGED <<tabs, items, active, editor, running, ops, owed, strayed>>

\* doRestore(): the list may still be the one of another note.
RestoreVersion(p, text) ==
  /\ panel # None /\ text \in UNION {versions[path] : path \in Path}
  /\ Starts(p, [Of("version") EXCEPT !.at = "dialog", !.pick = text])
  /\ UNCHANGED <<screen, owed, strayed>>

\* restoreVersion(), for the path the panel has by now.  The tab on screen is
\* checked and saved first; any other tab of the path is not (README).
RestoreConfirmed(p, yes) ==
  LET o == op[p]
      here == active # 0 /\ tabs[active].path = panel
  IN /\ o.kind = "version" /\ o.at = "dialog"
     /\ Become(p, IF ~yes \/ panel = None THEN Idle
                  ELSE IF here
                  THEN [Check(Of("restore"), active, tabs, Mine(active)) EXCEPT !.pick = o.pick]
                  ELSE [Command(o, "restore") EXCEPT !.path = panel])
     /\ UNCHANGED <<screen, ops, owed, strayed>>

RestoreAnswered(p) ==
  /\ Answered(p, "restore") /\ Become(p, Command(op[p], "read"))
  /\ UNCHANGED <<screen, ops, owed, strayed>>

(* Mutant: the restored text goes on screen whichever tab is there. *)
LoadAnyway(t, text) == editor' = text

LoadIfActive(t, text) == editor' = IF t = active THEN text ELSE editor

\* The first tab that has the path takes the text.  It need not be the tab that
\* was checked and saved, and none may have been (README).
ReloadAnswered(p) ==
  LET o == op[p]
      t == TheTab(o.path)
  IN /\ o.kind \in {"restore", "version"} /\ Answered(p, "read") /\ Become(p, Idle)
     /\ IF ByPath(o.path) = {} THEN UNCHANGED <<tabs, editor, owed, strayed>>
        ELSE /\ tabs' = [tabs EXCEPT ![t].content = o.got, ![t].base = o.got,
                                     ![t].dirty = FALSE]
             /\ LoadIfActive(t, o.got)
             /\ owed' = IF t = o.tab \/ ~tabs[t].dirty THEN owed ELSE owed \ {Live(t)}
             /\ strayed' = IF Overtaken(o.path, o.got) THEN strayed \union {t} ELSE strayed
     /\ UNCHANGED <<items, active, panel, ops>>

\* openPath(), from the sidebar or, at any moment, a second launch.
OpenPath(p, path) ==
  /\ op[p] = Idle /\ ops < MaxOps /\ ops' = ops + 1 /\ ByPath(path) = {}
  /\ Become(p, [Command(Of("open"), "read") EXCEPT !.path = path])
  /\ UNCHANGED <<screen, owed, strayed>>

\* A note that changed since it was read, its event past, opens stale.
OpenAnswered(p) ==
  LET o == op[p]
  IN /\ o.kind = "open" /\ Answered(p, "read") /\ Become(p, Idle)
     /\ OpenDocument(o.path, o.got)
     /\ strayed' = IF Overtaken(o.path, o.got) THEN strayed \union (items' \ items) ELSE strayed
     /\ UNCHANGED <<ops, owed>>

\* doCreateNote()
Create(p, path) ==
  /\ Starts(p, [Command(Of("create"), "create") EXCEPT !.path = path])
  /\ UNCHANGED <<screen, owed, strayed>>

CreateAnswered(p) ==
  /\ Answered(p, "create") /\ Become(p, Idle)
  /\ OpenDocument(op[p].path, Empty)
  /\ strayed' = IF Overtaken(op[p].path, Empty) THEN strayed \union (items' \ items) ELSE strayed
  /\ UNCHANGED <<ops, owed>>

\* onCloseRequest(): asks, closes, and never leaves zero tabs.
CloseTab(t) ==
  IF items \ {t} # {} THEN CloseTabs({t}) /\ UNCHANGED tabs
  ELSE /\ Len(tabs) < MaxTabs
       /\ tabs' = Append(tabs, NewTab(None, Empty))
       /\ items' = {Len(tabs) + 1} /\ active' = Len(tabs) + 1
       /\ editor' = Empty /\ panel' = None

Close(p, t) ==
  /\ t \in items
  /\ IF tabs[t].dirty
     THEN /\ Starts(p, [Of("close") EXCEPT !.at = "dialog", !.tab = t])
          /\ UNCHANGED screen
     ELSE ~DialogUp /\ CloseTab(t) /\ UNCHANGED <<running, ops>>
  /\ UNCHANGED <<owed, strayed>>

CloseConfirmed(p, yes) ==
  LET t == op[p].tab
  IN /\ op[p].kind = "close" /\ op[p].at = "dialog" /\ Become(p, Idle)
     /\ IF yes THEN CloseTab(t) /\ owed' = owed \ {Live(t)}
        ELSE UNCHANGED <<screen, owed>>
     /\ UNCHANGED <<ops, strayed>>

\* doNew()
New == ~DialogUp /\ OpenDocument(None, Empty) /\ UNCHANGED <<running, ops, owed, strayed>>

\* A tab is clicked, or a second launch names its note.
Switch(t) ==
  /\ t \in items \ {active} /\ (DialogUp => tabs[t].path # None)
  /\ SetActive(t, tabs)
  /\ UNCHANGED <<items, running, ops, owed, strayed>>

\* Keystrokes that a handler takes for written, or for given up, are waived.
Late(t) ==
  \E p \in Proc :
    LET o == op[p]
    IN \/ o.cmd = "save" /\ t \in {o.tab} \union o.todo
       \/ o.kind = "restore" /\ o.cmd \in {"restore", "read"} /\ t = o.tab
       \/ o.cmd = "trash" /\ t \in o.todo

\* Typing, which no tab takes note of when none is open.
Type ==
  /\ ~DialogUp /\ last < MaxText /\ last' = last + 1 /\ editor' = last'
  /\ IF active = 0 THEN UNCHANGED <<tabs, owed>>
     ELSE /\ tabs' = [tabs EXCEPT ![active].dirty = TRUE]
          /\ owed' = (owed \ {editor}) \union (IF Late(active) THEN {} ELSE {last'})
  /\ UNCHANGED <<items, active, panel, running, ops, strayed>>

Start(p) ==
  \/ Save(p) \/ SaveAll(p) \/ SaveAs(p)
  \/ \E path \in Path :
       Delete(p, path) \/ OpenPath(p, path) \/ Create(p, path)
       \/ \E to \in Path : Rename(p, path, to)
  \/ \E entry \in trash : Undo(p, entry)
  \/ \E text \in Text : RestoreVersion(p, text)
  \/ \E t \in items : Close(p, t)

Continue(p) ==
  \/ RetryCheck(p) \/ CheckAnswered(p) \/ WriteAnswered(p) \/ Failed(p)
  \/ RenameAnswered(p) \/ DeleteAnswered(p) \/ UndoAnswered(p)
  \/ RestoreAnswered(p) \/ ReloadAnswered(p) \/ OpenAnswered(p) \/ CreateAnswered(p)
  \/ \E path \in Path \union {None} : PickSavePath(p, path)
  \/ \E yes \in BOOLEAN :
       DeleteConfirmed(p, yes) \/ RestoreConfirmed(p, yes) \/ CloseConfirmed(p, yes)

Next ==
  \/ Backend
  \/ /\ \/ \E p \in Proc : Start(p) \/ Continue(p)
        \/ New \/ RefreshHistory
        \/ \E t \in items : Switch(t)
     /\ UNCHANGED <<files, watcher, last>>
  \/ /\ \/ \E p \in Proc, path \in Path : Watch(p, path)
        \/ \E path \in Path : NoticeRemoval(path)
     /\ UNCHANGED <<files, last>>
  \/ Type /\ UNCHANGED <<files, watcher>>

Spec == Init /\ [][Next]_vars

Known == 1..last
TabState ==
  [path : Path \union {None}, content : Known, base : Known,
   dirty : BOOLEAN, removed : BOOLEAN, diverged : BOOLEAN]

Kind == {"idle", "watch", "bulk", "save", "saveas", "convert", "delete", "close",
         "rename", "undo", "version", "restore", "open", "create"}
Cmd == {"none", "check", "save", "restore", "read", "create", "rename", "trash", "undo"}
Handler ==
  [kind : Kind, at : {"idle", "dialog", "call", "answer", "failed"}, cmd : Cmd,
   tab : 0..Len(tabs), path : Path \union {None}, to : Path \union {None},
   text : 0..last, base : 0..last, got : 0..last, pick : 0..last,
   again : BOOLEAN, outdated : BOOLEAN,
   todo : SUBSET (1..Len(tabs)), seen : SUBSET (1..Len(tabs)), pass : 0..2]

\* The variables have their types, with no text that is still to be typed, what
\* is on screen is an open tab, and each handler that calls is in the queue once.
TypeOK ==
  /\ last \in Text /\ ops \in Nat
  /\ disk \in [Path -> Known \union {NoFile}] /\ versions \in [Path -> SUBSET Known]
  /\ trash \subseteq Path \X Known
  /\ Len(tabs) \in Tab /\ tabs \in Seq(TabState)
  /\ items \subseteq 1..Len(tabs) /\ active \in items \union {0} /\ editor \in Known
  /\ panel \in Path \union {None}
  /\ (active = 0) = (items = {})
  /\ op \in [Proc -> Handler] /\ calls \in Seq(Proc)
  /\ {calls[n] : n \in DOMAIN calls} = {p \in Proc : op[p].at = "call"}
  /\ \A m, n \in DOMAIN calls : calls[m] = calls[n] => m = n
  /\ removals \subseteq Path /\ changes \subseteq Path
  /\ owed \subseteq Known /\ strayed \subseteq 1..Len(tabs)

\* Whatever order the handlers of several tabs are answered in, a text the user
\* typed and did not give up is in an open tab, in a note, in a note's version
\* history or in the trash, but for what is waived above (README).
TypedIsKept ==
  owed \subseteq {Live(t) : t \in items} \union {disk[p] : p \in Path}
                 \union (UNION {versions[p] : p \in Path}) \union {entry[2] : entry \in trash}

\* Once every handler and every event is through, a tab without the unsaved mark
\* has a note, shows it, and would merge from it, but for the tabs that strayed.
CleanTabIsOnDisk ==
  (\A p \in Proc : op[p] = Idle) /\ removals = {} /\ changes = {} =>
    \A t \in items \ strayed :
      tabs[t].path # None /\ ~tabs[t].dirty =>
        disk[tabs[t].path] = Live(t) /\ tabs[t].base = Live(t)
=============================================================================
