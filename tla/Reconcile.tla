------------------------------ MODULE Reconcile ------------------------------
(***************************************************************************)
(* One file-backed tab of Toril and the note it shows, while other         *)
(* programs (a sync client, another editor) change the note on disk.       *)
(*                                                                         *)
(* The frontend is one JavaScript thread: between two awaits a handler is  *)
(* atomic, and at an await any other handler may run.  The handlers in     *)
(* flight are the processes Proc; each is idle or is one of               *)
(*   "watch"  reconcile() fired by the watcher's debounce timer            *)
(*   "save"   doSave(): reconcile, then write the note                     *)
(*   "auto"   the bulk writers, doSaveAll() and the autosave tick          *)
(*   "keep"   resolveConflict(tab, true)   "theirs"  (tab, false)          *)
(* Backend commands are synchronous in Rust, so each one is a single step; *)
(* the note may change on disk between any two of them.                    *)
(*                                                                         *)
(* The editor's change listener is debounced (200 ms): notify says that    *)
(* its callback is still to come.  The autosave debounce is not kept here: *)
(* a bulk save may start at any time.                                      *)
(***************************************************************************)
EXTENDS SyncPolicy, Naturals, SequencesExt

CONSTANTS
  Proc,          \* handlers that may be in flight at once
  Kinds,         \* the handlers this instance lets the user and timers start
  Format,        \* the format of the tab's document
  CanSwitch,     \* whether the user leaves the tab for another one
  Faults,        \* what may go wrong: reads, writes, parking, lost events
  MaxEdits,      \* bound: edits typed by the user
  MaxSaves,      \* bound: saves of the active tab asked for by the user
  MaxExternal    \* bound: changes made to the note by other programs

AllKinds == {"watch", "save", "auto", "keep", "theirs"}

ASSUME ProcAssumption   == Proc # {}
ASSUME KindsAssumption  == Kinds \subseteq AllKinds
ASSUME FormatAssumption == Format \in Formats
ASSUME FaultsAssumption == Faults \subseteq {"read", "write", "park", "event"}
ASSUME SwitchAssumption == CanSwitch \in BOOLEAN
ASSUME BoundsAssumption ==
  MaxEdits \in Nat /\ MaxSaves \in Nat /\ MaxExternal \in Nat

VARIABLES
  disk,       \* the bytes at the tab's path, NoText when the file is gone
  events,     \* watcher events on their way to the frontend
  timer,      \* whether a debounced reconcile is queued for the path
  epoch,      \* how often the path was reported removed (removalEpoch)
  active,     \* whether the tab is the one on screen
  editor,     \* what the shared editor holds, serialised (if active)
  echo,       \* the load the echo check still expects (LoadEcho.expected)
  notify,     \* whether a debounced change notification is pending
  content,    \* TabState.content: the tab's own buffer
  base,       \* TabState.base: the merge base
  dirty, diverged, removedOnDisk,   \* TabState
  parked,     \* the texts of the conflict copies written beside the note
  op,         \* per process, the handler in flight and its locals
  answers,    \* the handlers whose backend command has run, oldest first
  crossed,    \* history: whether an answer ever overtook an older one
  edits, saves, externals,   \* how many of each happened (bounds)
  shown,      \* history: <<region, value>> pairs the tab has displayed
  past,       \* history: what happened to the tab that its flags do not tell
  fresh       \* history: the handlers that read the bytes now on disk

tabVars  == <<content, base, dirty, diverged, removedOnDisk>>
editVars == <<editor, echo, notify>>
diskVars == <<disk, events, timer, epoch>>
answered == <<answers, crossed>>
bounds   == <<edits, saves, externals>>
history  == <<shown, past, fresh>>
vars == <<diskVars, active, editVars, tabVars, parked, op, answered, bounds,
          history>>

-----------------------------------------------------------------------------
(* The locals of a handler.                                                *)
(*   reading  -> read | failed      merge_external in flight / answered    *)
(*   failed   -> reading | idle     one retry, then the error divergence   *)
(*   read     -> reading | checked | writing | idle   the verdict applied  *)
(*   checked  -> selected | idle    a bulk writer, its other tabs checked  *)
(*   selected -> writing | idle     a bulk writer, its other tabs written  *)
(*   writing  -> written | idle     save_file in flight / answered         *)
(*   parking  -> parked | idle      write_conflict_copy, likewise          *)
PCs == {"idle", "reading", "read", "failed", "checked", "selected",
        "writing", "written", "parking", "parked"}

Op == [pc : PCs, kind : AllKinds \cup {"saveTab", "none"},
       attempt : 0..1, retried : BOOLEAN, epoch : Nat,
       base : Text \cup {NoText}, mine : Text \cup {NoText},
       report : Report, read : Text \cup {NoText}, applied : BOOLEAN,
       text : Text \cup {NoText}]

NoReport == [outcome |-> "unchanged", content |-> NoText, theirs |-> NoText]

Idle == [pc |-> "idle", kind |-> "none", attempt |-> 0, retried |-> FALSE,
         epoch |-> 0, base |-> NoText, mine |-> NoText, report |-> NoReport,
         read |-> NoText, applied |-> FALSE, text |-> NoText]

(* Enter reconcile(): capture the epoch and my side, and call the backend. *)
Reading(kind) ==
  [Idle EXCEPT !.pc = "reading", !.kind = kind, !.epoch = epoch,
               !.base = base,
               !.mine = SelectMine(dirty, base, active, editor, content)]

(* Further on, read is what the check o read and applied (history) whether *)
(* its verdict was taken.                                                  *)
After(o, state, kind) ==
  [Idle EXCEPT !.pc = state, !.kind = kind, !.read = o.read,
               !.applied = o.applied]

(* save_file(path, t) called after the check o.                            *)
Writing(o, kind, t) == [After(o, "writing", kind) EXCEPT !.text = t]

(* write_conflict_copy(path, t); theirs and the kind are kept for after.   *)
Parking(kind, theirs, t) ==
  [Idle EXCEPT !.pc = "parking", !.kind = kind, !.read = theirs, !.text = t]

Busy(p, state) == op[p].pc = state

(* The backend answers p; the frontend gets the answer.  Nothing in the    *)
(* code keeps answers in the order they were given.                        *)
Answer(p) == answers' = Append(answers, p) /\ UNCHANGED crossed

Receive(p) ==
  \E i \in DOMAIN answers :
    /\ answers[i] = p
    /\ answers' = RemoveAt(answers, i)
    /\ crossed' = (crossed \/ i # 1)

Mine == SelectMine(dirty, base, active, editor, content)

(* What the user has in this tab.                                          *)
Buffer == IF active THEN editor ELSE content

Cells(t) == {<<r, t[r]>> : r \in Region}

-----------------------------------------------------------------------------
(* What past may hold: a file reported gone, the ways a tab comes to be    *)
(* clean with something in it that is not on disk, a banner's button that  *)
(* cleared a divergence other than the one it was pressed for, and a read  *)
(* failure whose flag replaced that of a conflict.                         *)
Pasts == {"removed", "echo", "switch", "save", "theirs", "resolved", "masked"}

(* Init: the tab was just opened and its load is still to be notified.     *)
InitialText == {t \in Text : \A r \in Region \ {Form} : t[r] = Canonical}

Init ==
  /\ disk \in InitialText
  /\ content = disk /\ base = disk
  /\ editor = Canon(disk) /\ echo = Canon(disk) /\ notify = TRUE
  /\ active = TRUE
  /\ dirty = FALSE /\ diverged = Undiverged /\ removedOnDisk = FALSE
  /\ events = <<>> /\ timer = FALSE /\ epoch = 0
  /\ parked = {}
  /\ op = [p \in Proc |-> Idle] /\ answers = <<>> /\ crossed = FALSE
  /\ edits = 0 /\ saves = 0 /\ externals = 0
  /\ shown = Cells(disk) \cup Cells(Canon(disk))
  /\ past = {} /\ fresh = {}

-----------------------------------------------------------------------------
(* The other programs, and the watcher.                                    *)

(* The watcher coalesces an event with an equal one still queued.          *)
Emit(kind) ==
  events' = IF events # <<>> /\ events[Len(events)] = kind
            THEN events ELSE Append(events, kind)

ExternalWrite ==
  /\ externals < MaxExternal
  /\ externals' = externals + 1
  /\ \E t \in Text :
       /\ t # disk
       /\ disk # NoText => \E r \in Region : Changed(disk, t) = {r}
       /\ disk' = t
  /\ Emit("change")
  /\ fresh' = {}
  /\ UNCHANGED <<timer, epoch, active, editVars, tabVars, parked, answered, op,
                 edits, saves, shown, past>>

ExternalRemove ==
  /\ externals < MaxExternal
  /\ externals' = externals + 1
  /\ disk # NoText
  /\ disk' = NoText
  /\ Emit("remove")
  /\ fresh' = {}
  /\ UNCHANGED <<timer, epoch, active, editVars, tabVars, parked, answered, op,
                 edits, saves, shown, past>>

(* Mutant: the removal leaves the dirty flag as it is.                     *)
MarkRemovedOnly ==
  /\ removedOnDisk' = TRUE
  /\ diverged' = IF diverged.reason = "error" THEN Undiverged ELSE diverged
  /\ past' = past \cup {"removed"}
  /\ UNCHANGED dirty

(* markRemovedOnDisk(): the buffer is the only copy left; an unreadable    *)
(* file turns out to be a deleted one, a conflict keeps its other side.    *)
MarkRemovedOnDisk ==
  /\ removedOnDisk' = TRUE
  /\ dirty' = TRUE
  /\ diverged' = IF diverged.reason = "error" THEN Undiverged ELSE diverged
  /\ past' = past \cup {"removed"}

(* Mutant: the change of a note that is being edited is not followed up.   *)
HandleChangeUnlessDirty ==
  /\ events # <<>> /\ Head(events) = "change"
  /\ events' = Tail(events)
  /\ timer' = (timer \/ ~dirty)
  /\ UNCHANGED <<disk, epoch, active, editVars, tabVars, parked, answered, op,
                 bounds, history>>

(* handleWorkspaceChange(), a modify or create: (re)arm the 250 ms timer.  *)
HandleChange ==
  /\ events # <<>> /\ Head(events) = "change"
  /\ events' = Tail(events)
  /\ timer' = TRUE
  /\ UNCHANGED <<disk, epoch, active, editVars, tabVars, parked, answered, op,
                 bounds, history>>

(* handleWorkspaceChange(), a remove: cancel the queued reconcile, outdate *)
(* those in flight, and keep the buffer.                                   *)
HandleRemove ==
  /\ events # <<>> /\ Head(events) = "remove"
  /\ events' = Tail(events)
  /\ timer' = FALSE
  /\ epoch' = epoch + 1
  /\ MarkRemovedOnDisk
  /\ UNCHANGED <<disk, active, editVars, content, base, parked, answered, op,
                 bounds, shown, fresh>>

(* The watcher loses events on network shares and with some sync clients.  *)
LoseEvent ==
  /\ "event" \in Faults
  /\ events # <<>>
  /\ events' = Tail(events)
  /\ UNCHANGED <<disk, timer, epoch, active, editVars, tabVars, parked,
                 answered, op, bounds, history>>

-----------------------------------------------------------------------------
(* The user at the editor.                                                 *)

(* A keystroke, a paste, an undo: one region becomes something else, and   *)
(* the listener's debounce is (re)armed.                                   *)
Type ==
  /\ active
  /\ edits < MaxEdits
  /\ edits' = edits + 1
  /\ \E r \in Region \ {Form}, v \in Val :
       /\ editor[r] # v
       /\ editor' = [editor EXCEPT ![r] = v]
       /\ shown' = shown \cup {<<r, v>>}
  /\ notify' = TRUE
  /\ UNCHANGED <<diskVars, active, echo, tabVars, parked, answered, op, saves,
                 externals, past, fresh>>

(* onEditorChange(), 200 ms after the last change of the editor.  Text     *)
(* equal to the last load is that load's echo, text equal to the base is   *)
(* saved, everything else makes the tab dirty.                             *)
Notify ==
  /\ active /\ notify
  /\ notify' = FALSE
  /\ IF echo = editor
     THEN /\ UNCHANGED <<echo, dirty>>
          /\ past' = IF dirty \/ editor = Canon(base) THEN past
                          ELSE past \cup {"echo"}
     ELSE /\ echo' = NoText
          /\ dirty' = (BlocksWrite(diverged) \/ removedOnDisk \/ editor # base)
          /\ UNCHANGED past
  /\ UNCHANGED <<diskVars, active, editor, content, base, diverged,
                 removedOnDisk, parked, answered, op, bounds, shown, fresh>>

(* onDeactivate(): the outgoing tab's text is kept in its buffer.  The     *)
(* pending notification will be about the document loaded next.            *)
SwitchAway ==
  /\ CanSwitch /\ active
  /\ active' = FALSE
  /\ content' = editor
  /\ notify' = FALSE
  /\ echo' = NoText
  /\ past' = IF dirty \/ editor = Canon(base) THEN past
                  ELSE past \cup {"switch"}
  /\ UNCHANGED <<diskVars, editor, base, dirty, diverged, removedOnDisk,
                 parked, answered, op, bounds, shown, fresh>>

(* Mutants: the editor keeps the spelling of the file; the echo check is   *)
(* not told of the load.                                                   *)
LoadVerbatim(t) == editor' = t /\ echo' = t /\ notify' = TRUE
LoadUnarmed(t)  == editor' = Canon(t) /\ notify' = TRUE /\ UNCHANGED echo

(* loadIntoEditor(t): the document is replaced, the echo armed with what   *)
(* it serialises to, and the listener will report the replacement.         *)
LoadIntoEditor(t) ==
  /\ editor' = Canon(t) /\ echo' = Canon(t) /\ notify' = TRUE

(* onActivate()                                                            *)
SwitchBack ==
  /\ ~active
  /\ active' = TRUE
  /\ LoadIntoEditor(content)
  /\ UNCHANGED <<diskVars, tabVars, parked, answered, op, bounds, history>>

-----------------------------------------------------------------------------
(* reconcile(): starting one.                                              *)

Start(p, kind) ==
  /\ Busy(p, "idle")
  /\ kind \in Kinds
  /\ op' = [op EXCEPT ![p] = Reading(kind)]

(* The debounce timer of the watcher fires.                                *)
TimerFires(p) ==
  /\ timer
  /\ timer' = FALSE
  /\ Start(p, "watch")
  /\ UNCHANGED <<disk, events, epoch, active, editVars, tabVars, parked,
                 answered, bounds, history>>

(* doSave() on the active tab: recheckBeforeWrite().                       *)
StartSave(p) ==
  /\ active
  /\ saves < MaxSaves
  /\ saves' = saves + 1
  /\ Start(p, "save")
  /\ UNCHANGED <<diskVars, active, editVars, tabVars, parked, answered, edits,
                 externals, history>>

(* reconcileWritableTabs(): the live buffer is captured, and the tab is    *)
(* checked only if it is dirty.                                            *)
StartAuto(p) ==
  /\ dirty
  /\ content' = IF active THEN editor ELSE content
  /\ Start(p, "auto")
  /\ UNCHANGED <<diskVars, active, editVars, base, dirty, diverged,
                 removedOnDisk, parked, answered, bounds, history>>

(* snapshotDirtyBuffers(), at each tick of the autosave debounce: the live *)
(* buffer is captured, whether or not the tab is dirty.                    *)
CaptureActiveBuffer ==
  /\ active /\ "auto" \in Kinds
  /\ content' = editor
  /\ UNCHANGED <<diskVars, active, editVars, base, dirty, diverged,
                 removedOnDisk, parked, answered, op, bounds, history>>

(* merge_external runs in the backend, or fails to read the file.          *)
ReadDisk(p) ==
  /\ Busy(p, "reading") /\ Answer(p)
  /\ op' = [op EXCEPT ![p].pc = "read", ![p].read = disk,
              ![p].report = MergeExternal(disk, op[p].base, op[p].mine)]
  /\ fresh' = fresh \cup {p}
  /\ UNCHANGED <<diskVars, active, editVars, tabVars, parked, bounds, shown,
                 past>>

ReadFails(p) ==
  /\ "read" \in Faults
  /\ Busy(p, "reading")
  /\ op' = [op EXCEPT ![p].pc = "failed"]
  /\ UNCHANGED <<diskVars, active, editVars, tabVars, parked, answered, bounds,
                 history>>

(* 200 ms after the first failure: the same mine, the base of now.         *)
RetryRead(p) ==
  /\ Busy(p, "failed") /\ ~op[p].retried
  /\ op' = [op EXCEPT ![p].pc = "reading", ![p].retried = TRUE,
                      ![p].base = base]
  /\ UNCHANGED <<diskVars, active, editVars, tabVars, parked, answered, bounds,
                 history>>

-----------------------------------------------------------------------------
(* What runs in the same turn once reconcile() has returned, on the state  *)
(* it leaves behind (primed); o is the handler as it is then.              *)

(* doSave(): not while diverged; the live editor if the tab is on screen   *)
(* (persistActive), its buffer otherwise (saveTabsToDisk).                 *)
ThenSave(o) ==
  IF BlocksWrite(diverged') THEN Idle
  ELSE IF active THEN Writing(o, "save", editor')
  ELSE Writing(o, "saveTab", content')

(* The bulk writers have their other dirty tabs to check first.            *)
Return(p, applied) ==
  LET o == [op[p] EXCEPT !.applied = applied] IN
  op' = [op EXCEPT ![p] =
           CASE o.kind = "watch" -> Idle
             [] o.kind = "save"  -> ThenSave(o)
             [] OTHER            -> After(o, "checked", "auto")]

(* Both reads failed: block writes, unless the failure was the removal the *)
(* watcher has handled meanwhile.                                          *)
Outdated(p) == epoch # op[p].epoch

GiveUp(p) ==
  /\ Busy(p, "failed") /\ op[p].retried
  /\ diverged' = IF Outdated(p) THEN diverged ELSE Unreadable
  /\ past' = IF ~Outdated(p) /\ diverged.reason = "conflict"
             THEN past \cup {"masked"} ELSE past
  /\ UNCHANGED <<diskVars, active, editVars, content, base, dirty,
                 removedOnDisk, parked, answered, bounds, shown, fresh>>
  /\ Return(p, FALSE)

(* A removal was handled while the answer was under way: drop it.          *)
DropOutdated(p) ==
  /\ Busy(p, "read") /\ Receive(p) /\ Outdated(p)
  /\ UNCHANGED <<diskVars, active, editVars, tabVars, parked, bounds,
                 history>>
  /\ Return(p, FALSE)

FoundMissing(p) ==
  /\ Busy(p, "read") /\ Receive(p) /\ ~Outdated(p)
  /\ op[p].report.outcome = "missing"
  /\ MarkRemovedOnDisk
  /\ UNCHANGED <<diskVars, active, editVars, content, base, parked, bounds,
                 shown, fresh>>
  /\ Return(p, TRUE)

(* The user typed while merge_external was in flight, and the outcome      *)
(* would replace the editor's document.                                    *)
ReplacesBuffer(p) == op[p].report.outcome \in {"theirsOnly", "merged"}

(* Mutant: nothing is asked again.                                         *)
NeverRaced(p) == FALSE

Raced(p) == ReplacesBuffer(p) /\ Mine # op[p].mine

(* The first time, ask again with what is in the editor now.               *)
AskAgain(p) ==
  /\ Busy(p, "read") /\ Receive(p) /\ ~Outdated(p)
  /\ op[p].report.outcome # "missing"
  /\ Raced(p) /\ op[p].attempt = 0
  /\ removedOnDisk' = FALSE
  /\ op' = [op EXCEPT ![p].pc = "reading", ![p].attempt = 1,
                      ![p].retried = FALSE, ![p].base = base,
                      ![p].mine = Mine]
  /\ UNCHANGED <<diskVars, active, editVars, content, base, dirty, diverged,
                 parked, bounds, history>>

(* The second time, fail closed: a conflict.                               *)
Verdict(p) ==
  IF Raced(p)
  THEN [outcome |-> "conflict", content |-> NoText,
        theirs |-> op[p].report.theirs]
  ELSE op[p].report

(* Mutant: the bytes go to the tab's buffer, the screen is not told.       *)
ShowNothing(t) == UNCHANGED editVars /\ shown' = shown \cup Cells(t)

(* loadIntoEditor() if the tab is on screen, else only its buffer changes. *)
Show(t) ==
  /\ IF active THEN LoadIntoEditor(t) ELSE UNCHANGED editVars
  /\ shown' = shown \cup Cells(t)

TakeVerdict(p) ==
  LET action == DecideAction(Verdict(p), Format, dirty) IN
  /\ Busy(p, "read") /\ Receive(p) /\ ~Outdated(p)
  /\ op[p].report.outcome # "missing"
  /\ Raced(p) => op[p].attempt = 1
  /\ removedOnDisk' = FALSE
  /\ CASE action.kind = "none" ->
            /\ diverged' = Undiverged
            /\ UNCHANGED <<editVars, content, base, dirty, shown>>
       [] action.kind \in {"reload", "applyMerge"} ->
            /\ Show(action.text)
            /\ content' = action.text
            /\ base' = action.theirs
            /\ dirty' = (action.text # action.theirs)
            /\ diverged' = Undiverged
       [] action.kind = "conflict" ->
            /\ diverged' = Diverged(action.theirs)
            /\ UNCHANGED <<editVars, content, base, dirty, shown>>
  /\ Return(p, TRUE)
  /\ UNCHANGED <<diskVars, active, parked, bounds, past, fresh>>

-----------------------------------------------------------------------------
(* The bulk writers once every dirty tab is checked: the live buffer is    *)
(* captured again and the tabs that may be written are selected ...        *)
Select(p) ==
  /\ Busy(p, "checked")
  /\ content' = IF active THEN editor ELSE content
  /\ op' = [op EXCEPT ![p] =
              IF Savable(dirty, diverged, removedOnDisk)
              THEN After(op[p], "selected", "auto") ELSE Idle]
  /\ UNCHANGED <<diskVars, active, editVars, base, dirty, diverged,
                 removedOnDisk, parked, answered, bounds, history>>

(* ... and written one after the other, a diverged one skipped.            *)
SendSelected(p) ==
  /\ Busy(p, "selected")
  /\ op' = [op EXCEPT ![p] = IF BlocksWrite(diverged) THEN Idle
                             ELSE Writing(op[p], "auto", content)]
  /\ UNCHANGED <<diskVars, active, editVars, tabVars, parked, answered, bounds,
                 history>>

-----------------------------------------------------------------------------
(* save_file: the write itself, its failure, and what runs when it         *)
(* answers.                                                                *)
WriteDisk(p) ==
  /\ Busy(p, "writing") /\ Answer(p)
  /\ disk' = op[p].text
  /\ Emit("change")
  /\ op' = [op EXCEPT ![p].pc = "written"]
  /\ fresh' = {}
  /\ UNCHANGED <<timer, epoch, active, editVars, tabVars, parked, bounds, shown,
                 past>>

WriteFails(p) ==
  /\ "write" \in Faults
  /\ Busy(p, "writing")
  /\ op' = [op EXCEPT ![p] = Idle]
  /\ UNCHANGED <<diskVars, active, editVars, tabVars, parked, answered, bounds,
                 history>>

(* persistActive() remembers the text it sent; saveTabsToDisk() takes the  *)
(* tab's buffer as it is when the write answers.                           *)
SavedText(p) == IF op[p].kind = "save" THEN op[p].text ELSE content

SaveDone(p) ==
  /\ Busy(p, "written") /\ Receive(p)
  /\ base' = SavedText(p) /\ content' = SavedText(p)
  /\ removedOnDisk' = FALSE
  /\ dirty' = FALSE
  /\ past' =
       IF active /\ ~notify /\ editor # Canon(SavedText(p))
       THEN past \cup {"save"} ELSE past
  /\ op' = [op EXCEPT ![p] = Idle]
  /\ UNCHANGED <<diskVars, active, editVars, diverged, parked, bounds, shown,
                 fresh>>

-----------------------------------------------------------------------------
(* resolveConflict(): park the losing side first, then take the other.     *)
StartResolve(p, kind) ==
  /\ Busy(p, "idle") /\ kind \in Kinds
  /\ active                                  \* the banner is the active tab's
  /\ diverged.reason = "conflict"
  /\ op' = [op EXCEPT ![p] =
              Parking(kind, diverged.theirs,
                      IF kind = "keep" THEN diverged.theirs ELSE Mine)]
  /\ UNCHANGED <<diskVars, active, editVars, tabVars, parked, answered, bounds,
                 history>>

Park(p) ==
  /\ Busy(p, "parking") /\ Answer(p)
  /\ parked' = parked \cup {op[p].text}
  /\ op' = [op EXCEPT ![p].pc = "parked"]
  /\ UNCHANGED <<diskVars, active, editVars, tabVars, bounds, history>>

(* The copy could not be written: nothing changes.                         *)
ParkFails(p) ==
  /\ "park" \in Faults
  /\ Busy(p, "parking")
  /\ op' = [op EXCEPT ![p] = Idle]
  /\ UNCHANGED <<diskVars, active, editVars, tabVars, parked, answered, bounds,
                 history>>

(* The divergence cleared is the one of now, not the one whose losing side *)
(* was parked: a verdict or a failed read may have come between.           *)
ClearsAnother(p) == diverged \notin {Undiverged, Diverged(op[p].read)}

KeepMine(p) ==
  /\ Busy(p, "parked") /\ Receive(p) /\ op[p].kind = "keep"
  /\ base' = op[p].read
  /\ diverged' = Undiverged
  /\ dirty' = TRUE
  /\ op' = [op EXCEPT ![p] = Idle]
  /\ past' = IF ClearsAnother(p) THEN past \cup {"resolved"} ELSE past
  /\ UNCHANGED <<diskVars, active, editVars, content, removedOnDisk, parked,
                 bounds, shown, fresh>>

UseTheirs(p) ==
  /\ Busy(p, "parked") /\ Receive(p) /\ op[p].kind = "theirs"
  /\ Show(op[p].read)
  /\ content' = op[p].read /\ base' = op[p].read
  /\ diverged' = Undiverged
  /\ dirty' = FALSE
  /\ op' = [op EXCEPT ![p] = Idle]
  /\ past' = past \cup (IF removedOnDisk THEN {"theirs"} ELSE {})
                   \cup (IF ClearsAnother(p) THEN {"resolved"} ELSE {})
  /\ UNCHANGED <<diskVars, active, removedOnDisk, parked, bounds, fresh>>

-----------------------------------------------------------------------------
Backend(p) ==
  \/ ReadDisk(p) \/ ReadFails(p)
  \/ WriteDisk(p) \/ WriteFails(p)
  \/ Park(p) \/ ParkFails(p)

Frontend(p) ==
  \/ RetryRead(p) \/ GiveUp(p) \/ DropOutdated(p) \/ FoundMissing(p)
  \/ AskAgain(p) \/ TakeVerdict(p) \/ Select(p) \/ SendSelected(p)
  \/ SaveDone(p) \/ KeepMine(p) \/ UseTheirs(p)

User ==
  \/ Type \/ SwitchAway \/ SwitchBack \/ CaptureActiveBuffer
  \/ \E p \in Proc : \/ StartSave(p) \/ StartAuto(p)
                     \/ StartResolve(p, "keep") \/ StartResolve(p, "theirs")

Watcher ==
  \/ HandleChange \/ HandleRemove \/ LoseEvent
  \/ \E p \in Proc : TimerFires(p)

Next ==
  \/ ExternalWrite \/ ExternalRemove
  \/ Watcher \/ User \/ Notify
  \/ \E p \in Proc : Backend(p) \/ Frontend(p)

Spec == Init /\ [][Next]_vars

(* The frontend's event loop runs what is queued, and the backend answers. *)
(* A timer that is due cannot be kept off the loop, but the bound Proc may *)
(* deny it a handler now and then: strong fairness for that one.           *)
Fairness ==
  /\ WF_vars(HandleChange) /\ WF_vars(HandleRemove)
  /\ SF_vars(\E p \in Proc : TimerFires(p))
  /\ \A p \in Proc : WF_vars(Backend(p) \/ Frontend(p))

FairSpec == Spec /\ Fairness

-----------------------------------------------------------------------------
(* The values of the variables.                                            *)
TypeOK ==
  /\ disk \in Text \cup {NoText} /\ events \in Seq({"change", "remove"})
  /\ timer \in BOOLEAN /\ epoch \in Nat /\ active \in BOOLEAN
  /\ editor \in EditorText /\ echo \in EditorText \cup {NoText}
  /\ notify \in BOOLEAN
  /\ content \in Text /\ base \in Text /\ dirty \in BOOLEAN
  /\ diverged \in {Undiverged, Unreadable} \cup {Diverged(t) : t \in Text}
  /\ removedOnDisk \in BOOLEAN
  /\ parked \subseteq Text
  /\ op \in [Proc -> Op]
  /\ answers \in Seq(Proc) /\ crossed \in BOOLEAN
  /\ edits \in Nat /\ saves \in Nat /\ externals \in Nat
  /\ shown \subseteq Region \X Val /\ past \subseteq Pasts
  /\ fresh \subseteq Proc

(* A tab that is not dirty holds the words of its merge base, so closing   *)
(* it or reloading it loses nothing -- but for the three ways in which an  *)
(* edit escapes the dirty flag (past): text equal to the last load typed   *)
(* over a saved one, a tab switch within the listener's 200 ms, and an     *)
(* edit notified while a save was in flight.                               *)
CleanTabIsSaved ==
  (~dirty /\ ~notify /\ past \cap {"echo", "switch", "save"} = {})
    => Canon(Buffer) = Canon(base)

(* The tab whose file vanished keeps its only copy flagged, so the close   *)
(* guard asks and the journal holds it -- unless the user then took the    *)
(* other side of a conflict.                                               *)
VanishedTabIsDirty ==
  (removedOnDisk /\ ~dirty) => "theirs" \in past

(* A note the user only looked at never becomes dirty, hence is never      *)
(* rewritten by autosave nor put in conflict, whatever its spelling and    *)
(* whatever other programs write to it -- unless it was reported removed.  *)
UntouchedTabIsClean ==
  (edits = 0 /\ "removed" \notin past)
    => ~dirty /\ diverged.reason # "conflict"

(* A verdict that reaches a tab with edits keeps each of them: the regions *)
(* the user changed relative to the base the merge used are still in the   *)
(* buffer, whatever was typed while the backend was reading.               *)
EditsSurviveVerdict ==
  [][\A p \in Proc :
       (TakeVerdict(p) /\ dirty) =>
         \A r \in Changed(op[p].base, Buffer) : Buffer'[r] = Buffer[r]]_vars

(* Bytes every stretch of which the tab has held, or a conflict copy holds.*)
Seen(t) ==
  \A r \in Region : <<r, t[r]>> \in shown \/ \E u \in parked : u[r] = t[r]

(* What makes a check prove less than its handler takes it for: answers    *)
(* that crossed, so that a stale "unchanged" may clear a fresh conflict; a *)
(* button that cleared another divergence; a failed read whose flag took   *)
(* the place of a conflict's and went with a late report of a removal.     *)
Misled == crossed \/ "resolved" \in past \/ {"masked", "removed"} \subseteq past

(* A handler whose check was answered, applied, and of the bytes that are  *)
(* still there replaces them only when the tab has held them or a conflict *)
(* copy keeps them: an outside change is never overwritten unseen.  (Bytes *)
(* that appear after the check are the documented window between the last  *)
(* read and the write, even when they are equal to those it read: another  *)
(* check may have cleared the conflict in between.)                        *)
UnseenSurvivesWrite ==
  [][\A p \in Proc :
       (/\ WriteDisk(p) /\ op[p].applied /\ p \in fresh
        /\ disk # NoText /\ ~Misled)
         => Seen(disk)]_vars

(* With a watcher that loses nothing, bytes on disk that the tab does not  *)
(* know are in the end taken into it, or flagged by the banner, or gone:   *)
(* no crossing of events, timers, saves and verdicts leaves the tab stale. *)
OutsideChangeIsNoticed ==
  (disk # NoText /\ disk # base)
    ~> (disk = base \/ disk = NoText \/ BlocksWrite(diverged))
=============================================================================
