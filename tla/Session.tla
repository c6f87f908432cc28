-------------------------------- MODULE Session --------------------------------
(***************************************************************************)
(* What outlives the window: the recovery journal and the session file,    *)
(* the debounces that write them (autosave.ts, scheduleSessionSave), the   *)
(* start that reads them (restoreSession, recoverCrashedBuffers), and the  *)
(* ways to stop: a crash, the close guard and the restart for an update.   *)
(*                                                                         *)
(* A text is a number; the later one was written later.  What a check, a   *)
(* merge and a save do to one tab in detail is the subject of Reconcile:   *)
(* here a check finds the disk unchanged, reloads, or leaves the conflict. *)
(***************************************************************************)
EXTENDS Naturals, Sequences

CONSTANTS
  Doc,        \* documents
  Note,       \* those with a path; the others are Untitled buffers
  None,
  Autosave,   \* whether the flush saves the notes too
  Faults,     \* what may fail: "load", "open", "write", "relaunch"
  EarlyTabs,  \* bound: whether tabs are opened and closed during the start
  MaxText,    \* bound: texts there will be
  MaxStops,   \* bound: crashes and exits
  MaxQueue,   \* bound: flushes waiting in the backend; a clear finds room
  MaxSaves    \* bound: writes of the session file waiting there

ASSUME DocAssumption == Note \subseteq Doc /\ None \notin Doc
ASSUME BoundAssumption ==
  {MaxText, MaxQueue, MaxSaves} \subseteq Nat \ {0} /\ MaxStops \in Nat
ASSUME OptionAssumption ==
  /\ {Autosave, EarlyTabs} \subseteq BOOLEAN
  /\ Faults \subseteq {"load", "open", "write", "relaunch"}

VARIABLES
  disk,      \* the notes' texts
  journal,   \* recovery.json: the texts of dirty buffers
  session,   \* session.json: the notes that were open
  phase,     \* off, starting, loading, recovering, running
  todo,      \* notes left to reopen, or entries left to recover
  entries,   \* the journal as loadRecovery() read it
  reading,   \* the recovered note whose base is being read
  tabs,      \* the open documents
  timer,     \* AutosaveScheduler.timer
  sessionTimer,
  bulk,      \* notes the autosave has still to save
  closing,   \* no, asking, clearing, close, restart: a window on its way out
  queue,     \* writes of the journal on their way to the backend
  saving,    \* writes of the session file on their way to the backend
  last,      \* history: the newest text
  stops,     \* history: how often the program stopped
  owed,      \* history: what crashes left in the journal, not yet saved
  failed,    \* history: the journal's last write failed
  outdated   \* history: the last write sent for the session file failed

settings == <<session, saving, outdated>>
files == <<disk, journal, settings>>
start == <<phase, todo, entries, reading>>
timers == <<timer, sessionTimer, bulk>>
history == <<last, stops, owed, failed>>
vars == <<files, start, tabs, timers, closing, queue, history>>

Empty == 0
First == 1
Text == 0..MaxText
Nothing == [d \in {} |-> Empty]
Put(f, d, v) == [x \in DOMAIN f \cup {d} |-> IF x = d THEN v ELSE f[x]]
Drop(f, d) == [x \in DOMAIN f \ {d} |-> f[x]]

Base(d) == IF d \in Note THEN disk[d] ELSE Empty
Clean(d) == [text |-> Base(d), base |-> Base(d), dirty |-> FALSE]
Dirty == {d \in DOMAIN tabs : tabs[d].dirty}

(* Mutant: what autosave may write, selectDirtySaved().                    *)
SnapshotDirtySaved == [d \in Dirty \cap Note |-> tabs[d].text]

(* snapshotDirty(): every dirty buffer, Untitled or not.                   *)
SnapshotDirty == [d \in Dirty |-> tabs[d].text]

(* Mutant: every tab.                                                      *)
OpenTabs == DOMAIN tabs

(* scheduleSessionSave(): the open files, not the Untitled ones.           *)
OpenFiles == DOMAIN tabs \cap Note

JournalCall(content, by) == [content |-> content, by |-> by]

Init ==
  /\ disk = [d \in Note |-> First] /\ journal = Nothing /\ session = {}
  /\ phase = "off" /\ todo = {} /\ entries = Nothing /\ reading = None
  /\ tabs = Nothing /\ timer = FALSE /\ sessionTimer = FALSE /\ bulk = {}
  /\ closing = "no" /\ queue = <<>> /\ saving = <<>> /\ outdated = FALSE
  /\ last = First /\ stops = 0 /\ owed = Nothing /\ failed = FALSE

Forget(d) == owed' = Drop(owed, d)

(* What crashes left may go: nothing is owed any more.                     *)
Waive(b) == owed' = IF b THEN Nothing ELSE owed

-----------------------------------------------------------------------------
(* Start.                                                                  *)

Launch ==
  /\ phase = "off" /\ phase' = "starting"
  /\ \/ todo' = session
     \/ "load" \in Faults /\ todo' = {}
  /\ UNCHANGED <<files, entries, reading, tabs, timers, closing, queue, history>>

OpenRestored(d) ==
  /\ phase = "starting" /\ d \in todo /\ todo' = todo \ {d}
  /\ \/ /\ tabs' = IF d \in DOMAIN tabs THEN tabs ELSE Put(tabs, d, Clean(d))
        /\ sessionTimer' = TRUE
     \/ "open" \in Faults /\ UNCHANGED <<tabs, sessionTimer>>
  /\ UNCHANGED <<files, phase, entries, reading, timer, bulk, closing, queue,
                 history>>

SessionRestored ==
  /\ phase = "starting" /\ todo = {} /\ phase' = "loading"
  /\ UNCHANGED <<files, todo, entries, reading, tabs, timers, closing, queue,
                 history>>

(* A journal that cannot be read counts as an empty one.                   *)
LoadRecovery ==
  /\ phase = "loading" /\ phase' = "recovering"
  /\ \/ entries' = journal /\ UNCHANGED owed
     \/ "load" \in Faults /\ entries' = Nothing /\ Waive(TRUE)
  /\ todo' = DOMAIN entries'
  /\ UNCHANGED <<files, reading, tabs, timers, closing, queue, last, stops,
                 failed>>

(* Mutant: the base is the text the tab was opened with.                   *)
SeededBase(d) == entries[d]

RecoveredBase(d) == Base(d)

(* An open tab has its buffer swapped; a note opened anew takes the        *)
(* recovered text for its base until the disk is read.                     *)
RecoverEntry(d) ==
  /\ phase = "recovering" /\ reading = None /\ d \in todo
  /\ todo' = todo \ {d}
  /\ IF d \in DOMAIN tabs
     THEN /\ tabs' = [tabs EXCEPT ![d].text = entries[d], ![d].dirty = TRUE]
          /\ UNCHANGED <<reading, sessionTimer>>
     ELSE /\ tabs' = Put(tabs, d,
               [text |-> entries[d], dirty |-> TRUE,
                base |-> IF d \in Note THEN entries[d] ELSE Empty])
          /\ reading' = IF d \in Note THEN d ELSE None
          /\ sessionTimer' = TRUE
  /\ UNCHANGED <<files, phase, entries, timer, bulk, closing, queue, history>>

ReadBase ==
  /\ reading # None /\ reading' = None
  /\ tabs' = [tabs EXCEPT ![reading].base = RecoveredBase(reading)]
  /\ UNCHANGED <<files, phase, todo, entries, timers, closing, queue, history>>

ReadBaseFails ==
  /\ "open" \in Faults /\ reading # None /\ reading' = None
  /\ tabs' = [tabs EXCEPT ![reading].base = Empty]
  /\ UNCHANGED <<files, phase, todo, entries, timers, closing, queue, history>>

(* Nothing recovered, nothing to journal; no tab, a blank one.             *)
Recovered ==
  /\ phase = "recovering" /\ todo = {} /\ reading = None
  /\ phase' = "running"
  /\ timer' = (timer \/ entries # Nothing) /\ entries' = Nothing
  /\ sessionTimer' = (sessionTimer \/ tabs = Nothing)
  /\ UNCHANGED <<files, todo, reading, tabs, bulk, closing, queue, history>>

-----------------------------------------------------------------------------
(* The user, the watcher and other programs.                               *)

TabsMayChange == phase = "running" \/ (EarlyTabs /\ phase # "off")

(* The path given at launch, or by a second launch, or chosen.             *)
OpenPath(d) ==
  /\ TabsMayChange /\ d \notin DOMAIN tabs
  /\ tabs' = Put(tabs, d, Clean(d)) /\ sessionTimer' = TRUE
  /\ UNCHANGED <<files, start, timer, bulk, closing, queue, history>>

(* Mutant: the debounce is armed when the tab becomes dirty.               *)
TypeArmsOnce(d) ==
  /\ d \in DOMAIN tabs /\ last < MaxText /\ last' = last + 1
  /\ tabs' = [tabs EXCEPT ![d].text = last + 1, ![d].dirty = TRUE]
  /\ timer' = (timer \/ ~tabs[d].dirty) /\ Forget(d)
  /\ UNCHANGED <<files, start, sessionTimer, bulk, closing, queue, stops,
                 failed>>

(* onEditorChange(), as soon as the text differs.                          *)
Type(d) ==
  /\ d \in DOMAIN tabs /\ last < MaxText /\ last' = last + 1
  /\ tabs' = [tabs EXCEPT ![d].text = last + 1, ![d].dirty = TRUE]
  /\ timer' = TRUE /\ Forget(d)
  /\ UNCHANGED <<files, start, sessionTimer, bulk, closing, queue, stops,
                 failed>>

(* Back to the saved text: clean, and the journal is left as it is -- but  *)
(* where the tab knows that the disk has changed.                          *)
Undo(d) ==
  /\ d \in Dirty /\ tabs[d].text # tabs[d].base
  /\ \/ /\ tabs' = [tabs EXCEPT ![d].text = tabs[d].base, ![d].dirty = FALSE]
        /\ UNCHANGED timer
     \/ /\ tabs[d].base # Base(d) /\ timer' = TRUE
        /\ tabs' = [tabs EXCEPT ![d].text = tabs[d].base]
  /\ Forget(d)
  /\ UNCHANGED <<files, start, sessionTimer, bulk, closing, queue, last, stops,
                 failed>>

(* The base of a tab that is gone is set nowhere.                          *)
Ends(d) == reading' = IF d = reading THEN None ELSE reading

(* Mutant: the session is left as it is.                                   *)
CloseTabOnly(d) ==
  /\ TabsMayChange /\ d \in DOMAIN tabs
  /\ tabs' = Drop(tabs, d) /\ timer' = TRUE
  /\ Ends(d) /\ Forget(d)
  /\ UNCHANGED <<files, phase, todo, entries, sessionTimer, bulk, closing,
                 queue, last, stops, failed>>

(* onCloseRequest(), the user having agreed where the tab is dirty.        *)
CloseTab(d) ==
  /\ TabsMayChange /\ d \in DOMAIN tabs
  /\ tabs' = Drop(tabs, d) /\ timer' = TRUE /\ sessionTimer' = TRUE
  /\ Ends(d) /\ Forget(d)
  /\ UNCHANGED <<files, phase, todo, entries, bulk, closing, queue, last,
                 stops, failed>>

(* A check with the tab's own text unchanged takes what is on disk.        *)
Reload(d) ==
  /\ d \in DOMAIN tabs /\ tabs[d].base # disk[d]
  /\ tabs[d].dirty => tabs[d].text = tabs[d].base
  /\ tabs' = [tabs EXCEPT ![d] = Clean(d)]
  /\ IF d = reading THEN Forget(d) ELSE UNCHANGED owed
  /\ UNCHANGED <<files, start, timers, closing, queue, last, stops, failed>>

Outside(d) ==
  /\ last < MaxText /\ last' = last + 1
  /\ disk' = [disk EXCEPT ![d] = last + 1]
  /\ UNCHANGED <<journal, settings, start, tabs, timers, closing, queue, stops,
                 owed, failed>>

-----------------------------------------------------------------------------
(* Debounces and saves.                                                    *)

Send(call) ==
  /\ call.by = "flush" => Len(queue) < MaxQueue
  /\ Len(queue) <= MaxQueue /\ queue' = Append(queue, call)

(* flush(), as far as its first await.                                     *)
TimerFires ==
  /\ timer /\ Send(JournalCall(SnapshotDirty, "flush"))
  /\ timer' = FALSE
  /\ Waive(phase # "running")
  /\ UNCHANGED <<files, start, tabs, sessionTimer, bulk, closing, last, stops,
                 failed>>

(* The session file is written by a call nobody waits for: a failure is    *)
(* swallowed, and arms nothing.                                            *)
SessionTimerFires ==
  /\ sessionTimer /\ sessionTimer' = FALSE
  /\ Len(saving) < MaxSaves /\ saving' = Append(saving, OpenFiles)
  /\ outdated' = FALSE
  /\ UNCHANGED <<disk, journal, session, start, tabs, timer, bulk, closing,
                 queue, history>>

(* A save, from its check, which found the note as the tab knows it, to    *)
(* its answer; the journal's writes before it are done.                    *)
SaveNote(d) ==
  /\ queue = <<>> /\ disk[d] = tabs[d].base
  /\ disk' = [disk EXCEPT ![d] = tabs[d].text]
  /\ tabs' = [tabs EXCEPT ![d].base = tabs[d].text, ![d].dirty = FALSE]
  /\ Forget(d)

(* doSave(): only persistActive() arms the debounce again.                 *)
Save(d) ==
  /\ d \in DOMAIN tabs /\ SaveNote(d) /\ timer' = TRUE
  /\ UNCHANGED <<journal, settings, start, sessionTimer, bulk, closing, queue,
                 last, stops, failed>>

(* saveDirtySaved(): the dirty notes in turn, but those changed on disk.   *)
BulkSave(d) ==
  /\ d \in bulk /\ bulk' = bulk \ {d}
  /\ \/ d \in Dirty /\ SaveNote(d)
     \/ /\ (d \in Dirty /\ disk[d] = tabs[d].base) => "write" \in Faults
        /\ UNCHANGED <<disk, tabs, owed>>
  /\ UNCHANGED <<journal, settings, start, timer, sessionTimer, closing, queue,
                 last, stops, failed>>

-----------------------------------------------------------------------------
(* The backend runs one command after another.                             *)

(* The journal is cleared: what follows is the end of the window.          *)
Cleared(call) == IF call.by = "flush" THEN closing ELSE call.by

(* A flush may go on to the notes.                                         *)
WriteJournal ==
  /\ queue # <<>> /\ queue' = Tail(queue)
  /\ journal' = Head(queue).content /\ failed' = FALSE
  /\ bulk' = IF Head(queue).by = "flush" /\ Autosave
             THEN bulk \cup (Dirty \cap Note) ELSE bulk
  /\ closing' = Cleared(Head(queue))
  /\ UNCHANGED <<disk, settings, start, tabs, timer, sessionTimer, last, stops,
                 owed>>

(* A flush ends there, a close goes on.                                    *)
WriteJournalFails ==
  /\ "write" \in Faults /\ queue # <<>> /\ queue' = Tail(queue)
  /\ failed' = (failed \/ Head(queue).by = "flush")
  /\ closing' = Cleared(Head(queue))
  /\ UNCHANGED <<files, start, tabs, timers, last, stops, owed>>

(* save_settings(): what it was called with.                               *)
WriteSession ==
  /\ saving # <<>> /\ saving' = Tail(saving)
  /\ session' = Head(saving)
  /\ UNCHANGED <<disk, journal, outdated, start, tabs, timers, closing, queue,
                 history>>

WriteSessionFails ==
  /\ "write" \in Faults /\ saving # <<>> /\ saving' = Tail(saving)
  /\ outdated' = (Tail(saving) = <<>>)
  /\ UNCHANGED <<disk, journal, session, start, tabs, timers, closing, queue,
                 history>>

-----------------------------------------------------------------------------
(* Stop.                                                                   *)

(* Everything in the window and on its way to the backend is gone.         *)
Stopped ==
  /\ stops < MaxStops /\ stops' = stops + 1
  /\ phase' = "off" /\ todo' = {} /\ entries' = Nothing /\ reading' = None
  /\ tabs' = Nothing /\ timer' = FALSE /\ sessionTimer' = FALSE /\ bulk' = {}
  /\ closing' = "no" /\ queue' = <<>> /\ failed' = FALSE
  /\ saving' = <<>> /\ outdated' = FALSE
  /\ UNCHANGED <<disk, journal, session, last>>

Crash ==
  /\ phase # "off" /\ Stopped
  /\ LET unsaved == {d \in DOMAIN journal : journal[d] \notin {Empty, Base(d)}}
     IN  owed' = [d \in DOMAIN owed \cup unsaved |->
                    IF d \in unsaved THEN journal[d] ELSE owed[d]]

Clear(by) ==
  /\ closing' = "clearing" /\ Send(JournalCall(Nothing, by))

(* The close guard counts the dirty tabs, and asks if there are any.       *)
RequestClose ==
  /\ phase # "off" /\ closing = "no"
  /\ \/ Dirty # {} /\ closing' = "asking" /\ UNCHANGED <<queue, owed>>
     \/ Dirty = {} /\ Clear("close") /\ Waive(phase # "running")
  /\ UNCHANGED <<files, start, tabs, timers, last, stops, failed>>

Keep ==
  /\ closing = "asking" /\ closing' = "no"
  /\ UNCHANGED <<files, start, tabs, timers, queue, history>>

Discard ==
  /\ closing = "asking" /\ Clear("close")
  /\ owed' = IF phase # "running" THEN Nothing
             ELSE [d \in DOMAIN owed \ Dirty |-> owed[d]]
  /\ UNCHANGED <<files, start, tabs, timers, last, stops, failed>>

Destroy == closing = "close" /\ Stopped /\ UNCHANGED owed

(* restartForUpdate(): no unsaved document, or no restart.                 *)
RestartForUpdate ==
  /\ phase # "off" /\ closing = "no" /\ Dirty = {}
  /\ Clear("restart") /\ Waive(phase # "running")
  /\ UNCHANGED <<files, start, tabs, timers, last, stops, failed>>

Relaunch == closing = "restart" /\ Stopped /\ UNCHANGED owed

(* The program goes on, its journal emptied.                               *)
RelaunchFails ==
  /\ "relaunch" \in Faults /\ closing = "restart" /\ closing' = "no"
  /\ UNCHANGED <<files, start, tabs, timers, queue, history>>

-----------------------------------------------------------------------------
Start ==
  \/ Launch \/ SessionRestored \/ LoadRecovery \/ ReadBase \/ ReadBaseFails
  \/ Recovered
  \/ \E d \in Doc : OpenRestored(d) \/ RecoverEntry(d)

Backend == WriteJournal \/ WriteJournalFails

Settings == SessionTimerFires \/ WriteSession \/ WriteSessionFails

User ==
  \/ \E d \in Doc :
       OpenPath(d) \/ Type(d) \/ Undo(d) \/ CloseTab(d)
  \/ \E d \in Note : Save(d)
  \/ RequestClose \/ Keep \/ Discard \/ RestartForUpdate \/ RelaunchFails

Stop == Crash \/ Destroy \/ Relaunch

Next ==
  \/ Start \/ User \/ Backend \/ Stop
  \/ TimerFires \/ Settings
  \/ \E d \in Note : Reload(d) \/ Outside(d) \/ BulkSave(d)

Spec == Init /\ [][Next]_vars

(* The event loop runs what is due, and the backend works off its queue.   *)
FairSpec ==
  Spec /\ WF_vars(TimerFires) /\ WF_vars(Backend)

-----------------------------------------------------------------------------
IsEntries(f) == DOMAIN f \subseteq Doc /\ \A d \in DOMAIN f : f[d] \in Text

(* The variables keep to their types, no Untitled buffer is in the session *)
(* file, and nothing of a stopped program is left but its files.           *)
TypeOK ==
  /\ disk \in [Note -> Text] /\ IsEntries(journal) /\ session \subseteq Note
  /\ phase \in {"off", "starting", "loading", "recovering", "running"}
  /\ todo \subseteq Doc /\ IsEntries(entries) /\ reading \in Note \cup {None}
  /\ DOMAIN tabs \subseteq Doc
  /\ \A d \in DOMAIN tabs :
       tabs[d] \in [text : Text, base : Text, dirty : BOOLEAN]
  /\ timer \in BOOLEAN /\ sessionTimer \in BOOLEAN /\ bulk \subseteq Note
  /\ closing \in {"no", "asking", "clearing", "close", "restart"}
  /\ Len(queue) <= MaxQueue + 1 /\ Len(saving) <= MaxSaves
  /\ \A i \in 1..Len(saving) : saving[i] \subseteq Note
  /\ phase = "off" => tabs = Nothing /\ queue = <<>> /\ saving = <<>> /\ ~timer
  /\ last \in Text /\ stops \in 0..MaxStops /\ IsEntries(owed)
  /\ failed \in BOOLEAN /\ outdated \in BOOLEAN

(* What the journal will hold when the backend has done its work.          *)
ComingJournal == IF queue = <<>> THEN journal ELSE queue[Len(queue)].content

(* The text of every dirty buffer is in the journal, or on its way there,  *)
(* or the debounce that sends it is armed -- unless the last write failed, *)
(* or the window is being closed.                                          *)
DirtyIsJournalled ==
  (phase = "running" /\ closing \in {"no", "asking"} /\ ~timer /\ ~failed)
    => \A d \in Dirty :
         d \in DOMAIN ComingJournal /\ ComingJournal[d] = tabs[d].text

(* What a crash left in the journal stays there, and once the program runs *)
(* it is the text of a dirty tab, until the user changes, saves, closes or *)
(* discards it -- but for a journal that could not be read, a window closed*)
(* or a flush during the start, and a check of a note between its tab and  *)
(* its base.                                                               *)
RecoveryKept ==
  \A d \in DOMAIN owed :
    /\ d \in DOMAIN journal /\ journal[d] = owed[d]
    /\ phase = "running" => d \in Dirty /\ tabs[d].text = owed[d]

(* What the session file will hold when the backend has done its work.     *)
ComingSession == IF saving = <<>> THEN session ELSE saving[Len(saving)]

(* With no debounce armed, session.json names the notes that are open, or  *)
(* the last write on its way does -- but for one that failed, which        *)
(* nothing repeats before the next tab is opened or closed.                *)
SessionIsCurrent ==
  (phase = "running" /\ ~sessionTimer /\ ~outdated)
    => ComingSession = OpenFiles

(* The journal catches up again and again with what is dirty, unless the   *)
(* write failed or the program stops.                                      *)
JournalCatchesUp ==
  []<>(\/ phase # "running" \/ closing # "no" \/ failed
       \/ \A d \in Dirty : d \in DOMAIN journal /\ journal[d] = tabs[d].text)
=============================================================================
