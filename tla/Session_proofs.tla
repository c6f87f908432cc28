---------------------------- MODULE Session_proofs ----------------------------
(***************************************************************************)
(* For any documents, faults and bounds: the types of Session, the journal *)
(* and the session file keeping up with the window, and what a crash left  *)
(* in the journal being kept.                                              *)
(***************************************************************************)
EXTENDS Session, SequenceTheorems, TLAPS

Entries == UNION {[S -> Text] : S \in SUBSET Doc}
TabState == [text : Text, base : Text, dirty : BOOLEAN]
Call == [content : Entries, by : {"flush", "close", "restart"}]

Types ==
  /\ disk \in [Note -> Text] /\ journal \in Entries /\ session \subseteq Note
  /\ phase \in {"off", "starting", "loading", "recovering", "running"}
  /\ todo \subseteq Doc /\ entries \in Entries /\ reading \in Note \cup {None}
  /\ tabs \in UNION {[S -> TabState] : S \in SUBSET Doc}
  /\ timer \in BOOLEAN /\ sessionTimer \in BOOLEAN /\ bulk \subseteq Note
  /\ closing \in {"no", "asking", "clearing", "close", "restart"}
  /\ queue \in Seq(Call) /\ Len(queue) <= MaxQueue + 1
  /\ saving \in Seq(SUBSET Note) /\ Len(saving) <= MaxSaves /\ outdated \in BOOLEAN
  /\ last \in Text /\ stops \in 0..MaxStops /\ owed \in Entries
  /\ failed \in BOOLEAN

(* A program that is not there has no window, no calls and no timers; what *)
(* is left to reopen are notes, what is left to recover are entries; the   *)
(* last write of the session file has failed only when none is under way.  *)
Phases ==
  /\ phase = "off" =>
       /\ tabs = Nothing /\ queue = <<>> /\ saving = <<>>
       /\ ~timer /\ ~sessionTimer /\ closing = "no"
  /\ outdated => saving = <<>>
  /\ phase = "starting" => todo \subseteq Note
  /\ phase = "recovering" => todo \subseteq DOMAIN entries
  /\ reading # None => phase = "recovering"

(* The queue holds a call that clears the journal while the window waits   *)
(* for it, and no other.                                                   *)
Clearing ==
  /\ \A i \in 1..Len(queue) :
       queue[i].by # "flush" => closing = "clearing" /\ queue[i].content = Nothing
  /\ \A i, j \in 1..Len(queue) :
       queue[i].by # "flush" /\ queue[j].by # "flush" => i = j

TypeInv == Types /\ Phases /\ Clearing

-----------------------------------------------------------------------------
(* Functions on documents.                                                 *)

(* A function on some part of a set.                                       *)
LEMMA FunctionOnPart ==
  ASSUME NEW D, NEW T, NEW f
  PROVE  f \in UNION {[S -> T] : S \in SUBSET D}
           <=> /\ f = [d \in DOMAIN f |-> f[d]] /\ DOMAIN f \subseteq D
               /\ \A d \in DOMAIN f : f[d] \in T
<1>1. ASSUME f \in UNION {[S -> T] : S \in SUBSET D}
      PROVE  /\ f = [d \in DOMAIN f |-> f[d]] /\ DOMAIN f \subseteq D
             /\ \A d \in DOMAIN f : f[d] \in T
  BY <1>1
<1>2. ASSUME /\ f = [d \in DOMAIN f |-> f[d]] /\ DOMAIN f \subseteq D
             /\ \A d \in DOMAIN f : f[d] \in T
      PROVE  f \in UNION {[S -> T] : S \in SUBSET D}
  <2>1. f \in [DOMAIN f -> T]
    BY <1>2
  <2>2. QED
    BY <1>2, <2>1
<1>3. QED
  BY <1>1, <1>2

(* No entries are entries.                                                 *)
LEMMA NothingType == Nothing \in Entries /\ DOMAIN Nothing = {}
  BY FunctionOnPart DEF Nothing, Entries

(* No tabs are tabs.                                                       *)
LEMMA NothingTabs == Nothing \in UNION {[S -> TabState] : S \in SUBSET Doc}
  BY FunctionOnPart DEF Nothing

(* An entry put.                                                           *)
LEMMA PutType ==
  ASSUME NEW D, NEW T, NEW f \in UNION {[S -> T] : S \in SUBSET D},
         NEW d \in D, NEW v \in T
  PROVE  Put(f, d, v) \in UNION {[S -> T] : S \in SUBSET D}
<1>1. /\ DOMAIN f \subseteq D /\ \A x \in DOMAIN f : f[x] \in T
  BY FunctionOnPart
<1>2. Put(f, d, v) \in [DOMAIN f \cup {d} -> T]
  BY <1>1 DEF Put
<1>3. QED
  BY <1>1, <1>2

(* Entries dropped.                                                        *)
LEMMA DropType ==
  ASSUME NEW D, NEW T, NEW f \in UNION {[S -> T] : S \in SUBSET D}, NEW d
  PROVE  Drop(f, d) \in UNION {[S -> T] : S \in SUBSET D}
<1>1. /\ DOMAIN f \subseteq D /\ \A x \in DOMAIN f : f[x] \in T
  BY FunctionOnPart
<1>2. Drop(f, d) \in [DOMAIN f \ {d} -> T]
  BY <1>1 DEF Drop
<1>3. QED
  BY <1>1, <1>2

(* A field of a tab, or a whole tab, replaced.                             *)
LEMMA ExceptType ==
  ASSUME NEW D, NEW T, NEW f \in UNION {[S -> T] : S \in SUBSET D},
         NEW d, NEW v, d \in DOMAIN f => v \in T
  PROVE  /\ [f EXCEPT ![d] = v] \in UNION {[S -> T] : S \in SUBSET D}
         /\ DOMAIN [f EXCEPT ![d] = v] = DOMAIN f
<1>1. /\ DOMAIN f \subseteq D /\ \A x \in DOMAIN f : f[x] \in T
  BY FunctionOnPart
<1>2. [f EXCEPT ![d] = v] \in [DOMAIN f -> T]
  BY <1>1
<1>3. QED
  BY <1>1, <1>2

(* The journal's entries are texts.                                        *)
LEMMA SnapshotType == Types => SnapshotDirty \in Entries
<1> SUFFICES ASSUME Types PROVE SnapshotDirty \in Entries
  OBVIOUS
<1>1. DOMAIN tabs \subseteq Doc /\ \A d \in DOMAIN tabs : tabs[d] \in TabState
  BY FunctionOnPart DEF Types
<1>2. SnapshotDirty \in [Dirty -> Text] /\ Dirty \subseteq Doc
  BY <1>1 DEF SnapshotDirty, Dirty, TabState
<1>3. QED
  BY <1>2 DEF Entries

-----------------------------------------------------------------------------
(* The queue.                                                              *)

(* What a call sent to the backend does to the queue.                      *)
LEMMA SendQueue ==
  ASSUME Types, NEW c \in Call, Send(c)
  PROVE  /\ queue' \in Seq(Call) /\ Len(queue') <= MaxQueue + 1
         /\ Len(queue') = Len(queue) + 1 /\ queue' # <<>>
         /\ Len(queue) \in Nat
         /\ \A i \in 1..Len(queue) : queue'[i] = queue[i]
         /\ queue'[Len(queue) + 1] = c
<1>1. queue \in Seq(Call) /\ Len(queue) <= MaxQueue /\ queue' = Append(queue, c)
  BY DEF Types, Send
<1>2. Len(queue) \in Nat
  BY <1>1, LenProperties
<1>3. QED
  BY <1>1, <1>2, AppendProperties, BoundAssumption

(* What the backend's next call does to it.                                *)
LEMMA TakeQueue ==
  ASSUME Types, queue # <<>>, queue' = Tail(queue)
  PROVE  /\ queue' \in Seq(Call) /\ Len(queue') <= MaxQueue + 1
         /\ Len(queue) \in Nat \ {0} /\ Len(queue') = Len(queue) - 1
         /\ Head(queue) \in Call /\ Head(queue) = queue[1]
         /\ \A i \in 1..Len(queue') : queue'[i] = queue[i + 1]
         /\ queue' = <<>> <=> Len(queue) = 1
<1>1. queue \in Seq(Call) /\ Len(queue) <= MaxQueue + 1
  BY DEF Types
<1>2. /\ Tail(queue) \in Seq(Call) /\ Len(Tail(queue)) = Len(queue) - 1
      /\ \A i \in 1..Len(Tail(queue)) : Tail(queue)[i] = queue[i + 1]
      /\ Head(queue) \in Call
  BY <1>1, HeadTailProperties
<1>3. Len(queue) \in Nat \ {0}
  BY <1>1, EmptySeq
<1>4. Head(queue) = queue[1]
  BY <1>1
<1>5. Tail(queue) = <<>> <=> Len(Tail(queue)) = 0
  BY <1>2, EmptySeq
<1>6. QED
  BY <1>1, <1>2, <1>3, <1>4, <1>5, BoundAssumption

(* What is sent for the session file, and what the backend takes up of it. *)
LEMMA SendSession ==
  ASSUME Types, SessionTimerFires
  PROVE  /\ saving' \in Seq(SUBSET Note) /\ Len(saving') <= MaxSaves
         /\ ComingSession' = OpenFiles
<1>1. saving \in Seq(SUBSET Note) /\ Len(saving) < MaxSaves
      /\ saving' = Append(saving, OpenFiles) /\ OpenFiles \in SUBSET Note
  BY DEF Types, SessionTimerFires, OpenFiles
<1>2. Len(saving) \in Nat
  BY <1>1, LenProperties
<1>3. /\ saving' \in Seq(SUBSET Note) /\ Len(saving') = Len(saving) + 1
      /\ saving'[Len(saving) + 1] = OpenFiles /\ saving' # <<>>
  BY <1>1, AppendProperties
<1>4. QED
  BY <1>1, <1>2, <1>3, BoundAssumption DEF ComingSession

LEMMA TakeSession ==
  ASSUME Types, Phases, WriteSession \/ WriteSessionFails
  PROVE  /\ saving' \in Seq(SUBSET Note) /\ Len(saving') <= MaxSaves
         /\ session' \subseteq Note /\ outdated' \in BOOLEAN /\ ~outdated
         /\ outdated' => saving' = <<>>
         /\ outdated' = TRUE \/ ComingSession' = ComingSession
<1>1. saving \in Seq(SUBSET Note) /\ saving # <<>> /\ saving' = Tail(saving)
      /\ Len(saving) <= MaxSaves
  BY DEF Types, WriteSession, WriteSessionFails
<1>2. /\ Tail(saving) \in Seq(SUBSET Note) /\ Len(Tail(saving)) = Len(saving) - 1
      /\ \A i \in 1..Len(Tail(saving)) : Tail(saving)[i] = saving[i + 1]
      /\ Head(saving) \in SUBSET Note
  BY <1>1, HeadTailProperties
<1>3. Len(saving) \in Nat \ {0} /\ Head(saving) = saving[1]
  BY <1>1, EmptySeq
<1>4. saving' = <<>> <=> Len(saving') = 0
  BY <1>1, <1>2, EmptySeq
<1>5. /\ session' \subseteq Note /\ outdated' \in BOOLEAN /\ ~outdated
      /\ outdated' => saving' = <<>>
  <2>1. ~outdated
    BY <1>1 DEF Phases
  <2>2. CASE WriteSession
    BY <2>1, <2>2, <1>2 DEF Types, WriteSession
  <2>3. CASE WriteSessionFails
    <3>1. outdated' = (saving' = <<>>) /\ session' = session
      BY <2>3, <1>1 DEF WriteSessionFails
    <3>2. QED
      BY <3>1, <2>1 DEF Types
  <2>4. QED
    BY <2>2, <2>3
<1>6. outdated' = TRUE \/ ComingSession' = ComingSession
  <2>1. CASE saving' # <<>>
    <3>1. saving'[Len(saving')] = saving[Len(saving)]
      BY <1>1, <1>2, <1>3, <1>4, <2>1
    <3>2. QED
      BY <3>1, <1>1, <2>1 DEF ComingSession
  <2>2. CASE saving' = <<>> /\ WriteSession
    <3>1. Head(saving) = saving[Len(saving)]
      BY <1>1, <1>2, <1>3, <1>4, <2>2
    <3>2. QED
      BY <3>1, <2>2, <1>1 DEF ComingSession, WriteSession
  <2>3. CASE saving' = <<>> /\ WriteSessionFails
    BY <2>3, <1>1 DEF WriteSessionFails
  <2>4. QED
    BY <2>1, <2>2, <2>3
<1>7. QED
  BY <1>1, <1>2, <1>3, <1>5, <1>6, BoundAssumption

-----------------------------------------------------------------------------
(* The types hold at first.                                                *)
LEMMA InitTypes == Init => TypeInv
<1> SUFFICES ASSUME Init PROVE TypeInv
  OBVIOUS
<1>0. /\ queue \in Seq(Call) /\ Len(queue) = 0
      /\ saving \in Seq(SUBSET Note) /\ Len(saving) = 0
  BY EmptySeq DEF Init
<1>1. Types
  <2>1. disk \in [Note -> Text] /\ last \in Text
    BY BoundAssumption DEF Init, Text, First
  <2>2. /\ stops \in 0..MaxStops /\ Len(queue) <= MaxQueue + 1
        /\ Len(saving) <= MaxSaves
    BY <1>0, BoundAssumption DEF Init
  <2>3. QED
    BY <1>0, <2>1, <2>2, NothingType, NothingTabs DEF Init, Types
<1>2. Phases /\ Clearing
  BY <1>0 DEF Init, Phases, Clearing
<1>3. QED
  BY <1>1, <1>2 DEF TypeInv

(* What a step reads of documents, texts and tabs.                         *)
LEMMA Known ==
  ASSUME Types
  PROVE  /\ tabs \in [DOMAIN tabs -> TabState] /\ DOMAIN tabs \subseteq Doc
         /\ entries \in [DOMAIN entries -> Text] /\ DOMAIN entries \subseteq Doc
         /\ journal \in [DOMAIN journal -> Text] /\ DOMAIN journal \subseteq Doc
         /\ owed \in [DOMAIN owed -> Text] /\ DOMAIN owed \subseteq Doc
         /\ \A d \in Doc : Base(d) \in Text /\ Clean(d) \in TabState
         /\ Empty \in Text
<1>1. /\ tabs \in [DOMAIN tabs -> TabState] /\ DOMAIN tabs \subseteq Doc
      /\ entries \in [DOMAIN entries -> Text] /\ DOMAIN entries \subseteq Doc
      /\ journal \in [DOMAIN journal -> Text] /\ DOMAIN journal \subseteq Doc
      /\ owed \in [DOMAIN owed -> Text] /\ DOMAIN owed \subseteq Doc
  BY FunctionOnPart DEF Types, Entries
<1>2. Empty \in Text
  BY BoundAssumption DEF Empty, Text
<1>3. \A d \in Doc : Base(d) \in Text
  BY <1>2 DEF Base, Types
<1>4. QED
  BY <1>1, <1>2, <1>3 DEF Clean, TabState

(* The steps that leave the queue alone.                                   *)
LEMMA QuietTypes ==
  ASSUME TypeInv, UNCHANGED <<queue, closing>>,
         \/ Launch \/ SessionRestored \/ LoadRecovery \/ ReadBase \/ ReadBaseFails
         \/ Recovered
         \/ \E d \in Doc : \/ OpenRestored(d) \/ RecoverEntry(d) \/ OpenPath(d)
                           \/ Type(d) \/ Undo(d) \/ CloseTab(d)
         \/ \E d \in Note : Save(d) \/ Reload(d) \/ Outside(d) \/ BulkSave(d)
  PROVE  TypeInv'
<1> USE DEF files, settings, start, timers, history
<1>a. Types /\ Phases /\ Clearing
  BY DEF TypeInv
<1>k. /\ tabs \in [DOMAIN tabs -> TabState] /\ DOMAIN tabs \subseteq Doc
      /\ entries \in [DOMAIN entries -> Text] /\ DOMAIN entries \subseteq Doc
      /\ journal \in [DOMAIN journal -> Text] /\ DOMAIN journal \subseteq Doc
      /\ \A d \in Doc : Base(d) \in Text /\ Clean(d) \in TabState
      /\ Empty \in Text
  BY <1>a, Known
<1>q. Clearing'
  BY <1>a DEF Clearing
<1>d. ASSUME NEW d PROVE Drop(owed, d) \in Entries
  <2>1. owed \in UNION {[S -> Text] : S \in SUBSET Doc}
    BY <1>a DEF Types, Entries
  <2>2. QED
    BY <2>1, DropType DEF Entries
<1>f. \A S \in SUBSET Doc : \A f \in [S -> TabState] :
        f \in UNION {[R -> TabState] : R \in SUBSET Doc}
  OBVIOUS
<1>1. CASE Launch
  BY <1>1, <1>a, <1>q, DocAssumption DEF TypeInv, Types, Phases, Launch
<1>2. CASE SessionRestored
  BY <1>2, <1>a, <1>q DEF TypeInv, Types, Phases, SessionRestored
<1>3. CASE LoadRecovery
  BY <1>3, <1>a, <1>k, <1>q, NothingType
     DEF TypeInv, Types, Phases, LoadRecovery, Waive
<1>4. CASE ReadBase
  <2>1. tabs' \in [DOMAIN tabs -> TabState]
    BY <1>4, <1>a, <1>k, DocAssumption, ZenonT(60) DEF ReadBase, RecoveredBase, TabState, Types
  <2>2. phase # "off"
    BY <1>4, <1>a DEF ReadBase, Phases
  <2>3. QED
    BY <2>1, <1>4, <1>a, <1>f, <1>k, <1>q DEF TypeInv, Types, Phases, ReadBase
<1>5. CASE ReadBaseFails
  <2>1. tabs' \in [DOMAIN tabs -> TabState]
    BY <1>5, <1>a, <1>k DEF ReadBaseFails, TabState
  <2>2. QED
    BY <2>1, <1>5, <1>a, <1>f, <1>k, <1>q DEF TypeInv, Types, Phases, ReadBaseFails
<1>6. CASE Recovered
  BY <1>6, <1>a, <1>q, NothingType DEF TypeInv, Types, Phases, Recovered
<1>8. ASSUME NEW d \in Doc, OpenRestored(d) PROVE TypeInv'
  <2>1. Put(tabs, d, Clean(d)) \in UNION {[S -> TabState] : S \in SUBSET Doc}
    BY <1>a, <1>k, PutType DEF Types
  <2>2. QED
    BY <2>1, <1>8, <1>a, <1>q DEF TypeInv, Types, Phases, OpenRestored
<1>9. ASSUME NEW d \in Doc, RecoverEntry(d) PROVE TypeInv'
  <2>1. d \in DOMAIN entries /\ entries[d] \in Text
    BY <1>9, <1>a, <1>k DEF RecoverEntry, Phases
  <2>2. tabs' \in UNION {[S -> TabState] : S \in SUBSET Doc}
    <3>1. CASE d \in DOMAIN tabs
      <4>1. tabs' \in [DOMAIN tabs -> TabState]
        <5>1. tabs' = [tabs EXCEPT ![d].text = entries[d], ![d].dirty = TRUE]
          BY <3>1, <1>9 DEF RecoverEntry
        <5>2. QED
          BY <5>1, <2>1, <1>k DEF TabState
      <4>2. QED
        BY <4>1, <1>f, <1>k
    <3>2. CASE d \notin DOMAIN tabs
      <4> DEFINE t == [text |-> entries[d], dirty |-> TRUE,
                       base |-> IF d \in Note THEN entries[d] ELSE Empty]
      <4>1. t \in TabState
        BY <2>1, <1>k DEF TabState
      <4>2. tabs' = Put(tabs, d, t)
        BY <3>2, <1>9 DEF RecoverEntry
      <4> HIDE DEF t
      <4>3. QED
        BY <4>1, <4>2, <1>a, PutType DEF Types
    <3>3. QED
      BY <3>1, <3>2
  <2>3. QED
    BY <2>2, <1>9, <1>a, <1>q DEF TypeInv, Types, Phases, RecoverEntry
<1>10. ASSUME NEW d \in Doc, OpenPath(d) PROVE TypeInv'
  <2>1. tabs' \in UNION {[S -> TabState] : S \in SUBSET Doc}
    BY <1>10, <1>a, <1>k, PutType DEF Types, OpenPath
  <2>2. phase # "off"
    BY <1>10 DEF OpenPath, TabsMayChange
  <2>3. QED
    BY <2>1, <2>2, <1>10, <1>a, <1>q DEF TypeInv, Types, Phases, OpenPath
<1>11. ASSUME NEW d \in Doc, Type(d) PROVE TypeInv'
  <2>1. last' \in Text /\ last + 1 \in Text
    BY <1>11, <1>a, BoundAssumption DEF Type, Types, Text
  <2>2. tabs' \in [DOMAIN tabs -> TabState]
    BY <2>1, <1>11, <1>k DEF Type, TabState
  <2>3. phase # "off"
    BY <1>11, <1>a, NothingType DEF Type, Phases
  <2>4. QED
    BY <2>1, <2>2, <2>3, <1>11, <1>a, <1>d, <1>f, <1>k, <1>q
       DEF TypeInv, Types, Phases, Type, Forget
<1>12. ASSUME NEW d \in Doc, Undo(d) PROVE TypeInv'
  <2>1. tabs' \in [DOMAIN tabs -> TabState]
    BY <1>12, <1>k DEF Undo, TabState, Dirty
  <2>2. phase # "off"
    BY <1>12, <1>a, NothingType DEF Undo, Phases, Dirty
  <2>3. QED
    BY <2>1, <2>2, <1>12, <1>a, <1>d, <1>f, <1>k, <1>q
       DEF TypeInv, Types, Phases, Undo, Forget
<1>13. ASSUME NEW d \in Doc, CloseTab(d) PROVE TypeInv'
  <2>1. Drop(tabs, d) \in UNION {[S -> TabState] : S \in SUBSET Doc}
    BY <1>a, DropType, ZenonT(60) DEF Types
  <2>2. phase # "off"
    BY <1>13, <1>a, NothingType DEF CloseTab, Phases
  <2>3. QED
    BY <2>1, <2>2, <1>13, <1>a, <1>d, <1>q
       DEF TypeInv, Types, Phases, CloseTab, Forget, Ends
<1>14. ASSUME NEW d \in Note, SaveNote(d), d \in DOMAIN tabs
       PROVE  /\ tabs' \in UNION {[S -> TabState] : S \in SUBSET Doc}
              /\ disk' \in [Note -> Text] /\ owed' \in Entries
              /\ phase # "off"
  <2>1. tabs' \in [DOMAIN tabs -> TabState]
    BY <1>14, <1>k DEF SaveNote, TabState
  <2>2. disk' \in [Note -> Text]
    BY <1>14, <1>a, <1>k DEF SaveNote, TabState, Types
  <2>3. phase # "off"
    BY <1>14, <1>a, NothingType DEF Phases
  <2>4. QED
    BY <2>1, <2>2, <2>3, <1>14, <1>d, <1>f, <1>k DEF SaveNote, Forget
<1>15. ASSUME NEW d \in Note, Save(d) PROVE TypeInv'
  BY <1>14, <1>15, <1>a, <1>q DEF TypeInv, Types, Phases, Save
<1>16. ASSUME NEW d \in Note, BulkSave(d) PROVE TypeInv'
  <2>1. CASE d \in Dirty /\ SaveNote(d)
    BY <2>1, <1>14, <1>16, <1>a, <1>q DEF TypeInv, Types, Phases, BulkSave, Dirty
  <2>2. CASE UNCHANGED <<disk, tabs, owed>>
    BY <2>2, <1>16, <1>a, <1>q DEF TypeInv, Types, Phases, BulkSave
  <2>3. QED
    BY <2>1, <2>2, <1>16 DEF BulkSave
<1>17. ASSUME NEW d \in Note, Reload(d) PROVE TypeInv'
  <2>1. tabs' \in [DOMAIN tabs -> TabState]
    BY <1>17, <1>k, DocAssumption DEF Reload
  <2>2. phase # "off"
    BY <1>17, <1>a, NothingType DEF Reload, Phases
  <2>3. QED
    BY <2>1, <2>2, <1>17, <1>a, <1>d, <1>f, <1>k, <1>q
       DEF TypeInv, Types, Phases, Reload, Forget
<1>18. ASSUME NEW d \in Note, Outside(d) PROVE TypeInv'
  <2>1. last' \in Text /\ last + 1 \in Text
    BY <1>18, <1>a, BoundAssumption DEF Outside, Types, Text
  <2>2. disk' \in [Note -> Text]
    BY <2>1, <1>18, <1>a DEF Outside, Types
  <2>3. QED
    BY <2>1, <2>2, <1>18, <1>a, <1>q DEF TypeInv, Types, Phases, Outside
<1>19. QED
  BY <1>1, <1>2, <1>3, <1>4, <1>5, <1>6, <1>8, <1>9, <1>10, <1>11,
     <1>12, <1>13, <1>15, <1>16, <1>17, <1>18

(* The steps of the session file.                                          *)
LEMMA SettingsTypes == TypeInv /\ Settings => TypeInv'
<1> SUFFICES ASSUME TypeInv, Settings PROVE TypeInv'
  OBVIOUS
<1> USE DEF start, timers, history
<1>a. Types /\ Phases /\ Clearing
  BY DEF TypeInv
<1>1. CASE SessionTimerFires
  <2>1. saving' \in Seq(SUBSET Note) /\ Len(saving') <= MaxSaves
    BY <1>1, <1>a, SendSession
  <2>2. phase # "off" /\ outdated' \in BOOLEAN
    BY <1>1, <1>a DEF SessionTimerFires, Phases
  <2>3. QED
    BY <2>1, <2>2, <1>1, <1>a
       DEF TypeInv, Types, Phases, Clearing, SessionTimerFires
<1>2. CASE WriteSession \/ WriteSessionFails
  <2>1. /\ saving' \in Seq(SUBSET Note) /\ Len(saving') <= MaxSaves
        /\ session' \subseteq Note /\ outdated' \in BOOLEAN
        /\ outdated' => saving' = <<>>
    BY <1>2, <1>a, TakeSession
  <2>2. phase # "off"
    BY <1>2, <1>a DEF WriteSession, WriteSessionFails, Phases
  <2>3. QED
    BY <2>1, <2>2, <1>2, <1>a
       DEF TypeInv, Types, Phases, Clearing, WriteSession, WriteSessionFails
<1>3. QED
  BY <1>1, <1>2 DEF Settings

(* The steps that put a call into the queue.                               *)
LEMMA SendingTypes ==
  ASSUME TypeInv, NEW c \in Call, Send(c),
         c.by # "flush" => /\ closing # "clearing" /\ closing' = "clearing"
                           /\ c.content = Nothing,
         closing' \in {closing, "clearing"},
         phase # "off", owed' \in Entries, timer' \in BOOLEAN,
         UNCHANGED <<files, start, tabs, sessionTimer, bulk, last, stops, failed>>
  PROVE  TypeInv'
<1> USE DEF files, settings, start
<1>1. /\ queue' \in Seq(Call) /\ Len(queue') <= MaxQueue + 1
      /\ Len(queue') = Len(queue) + 1 /\ queue' # <<>>
      /\ Len(queue) \in Nat
      /\ \A i \in 1..Len(queue) : queue'[i] = queue[i]
      /\ queue'[Len(queue) + 1] = c
  BY SendQueue DEF TypeInv
<1>2. Types' /\ Phases'
  BY <1>1 DEF TypeInv, Types, Phases
<1>3. ASSUME NEW i \in 1..Len(queue'), queue'[i].by # "flush"
      PROVE  closing' = "clearing" /\ queue'[i].content = Nothing
  <2>1. CASE i \in 1..Len(queue)
    BY <2>1, <1>1, <1>3 DEF TypeInv, Clearing
  <2>2. CASE i = Len(queue) + 1
    BY <2>2, <1>1, <1>3
  <2>3. QED
    BY <2>1, <2>2, <1>1
<1>4. ASSUME NEW i \in 1..Len(queue'), NEW j \in 1..Len(queue'),
             queue'[i].by # "flush", queue'[j].by # "flush"
      PROVE  i = j
  <2>1. CASE c.by = "flush"
    BY <2>1, <1>1, <1>4 DEF TypeInv, Clearing
  <2>2. CASE c.by # "flush"
    BY <2>2, <1>1, <1>4 DEF TypeInv, Clearing
  <2>3. QED
    BY <2>1, <2>2
<1>5. Clearing'
  BY <1>3, <1>4 DEF Clearing
<1>6. QED
  BY <1>2, <1>5 DEF TypeInv

(* Every step keeps the types.                                             *)
LEMMA NextTypes == TypeInv /\ [Next]_vars => TypeInv'
<1> SUFFICES ASSUME TypeInv, [Next]_vars PROVE TypeInv'
  OBVIOUS
<1> USE DEF files, settings, start, timers, history
<1>a. Types /\ Phases /\ Clearing
  BY DEF TypeInv
<1>n. \A by \in {"flush", "close", "restart"} : JournalCall(Nothing, by) \in Call
  BY NothingType DEF JournalCall, Call
<1>1. CASE UNCHANGED vars
  BY <1>1 DEF vars, TypeInv, Types, Phases, Clearing
<1>2. CASE \/ Start
           \/ \E d \in Doc : \/ OpenPath(d) \/ Type(d) \/ Undo(d) \/ CloseTab(d)
           \/ \E d \in Note : Save(d) \/ Reload(d) \/ Outside(d) \/ BulkSave(d)
  <2>1. UNCHANGED <<queue, closing>>
    BY <1>2 DEF Start, Launch, SessionRestored, LoadRecovery, ReadBase,
       ReadBaseFails, Recovered, OpenRestored, RecoverEntry, OpenPath,
       Type, Undo, CloseTab, Save, SaveNote, Reload, Outside, BulkSave
  <2>2. QED
    BY <2>1, <1>2, QuietTypes DEF Start
<1>3. CASE TimerFires
  <2>1. JournalCall(SnapshotDirty, "flush") \in Call
    BY <1>a, SnapshotType DEF JournalCall, Call
  <2>2. phase # "off" /\ owed' \in Entries
    BY <1>3, <1>a, NothingType DEF TimerFires, Phases, Types, Waive
  <2>3. JournalCall(SnapshotDirty, "flush").by = "flush"
    BY DEF JournalCall
  <2>4. QED
    BY <2>1, <2>2, <2>3, <1>3, SendingTypes DEF TimerFires
<1>4. ASSUME NEW by \in {"close", "restart"}, Clear(by), closing # "clearing",
             phase # "off", owed' \in Entries,
             UNCHANGED <<files, start, tabs, timers, last, stops, failed>>
      PROVE  TypeInv'
  <2>1. /\ JournalCall(Nothing, by).content = Nothing
        /\ closing' = "clearing" /\ Send(JournalCall(Nothing, by))
    BY <1>4 DEF Clear, JournalCall
  <2>2. timer' \in BOOLEAN
    BY <1>4, <1>a DEF Types
  <2>3. QED
    BY <2>1, <2>2, <1>4, <1>n, SendingTypes
<1>5. CASE RequestClose
  <2>1. CASE Dirty # {} /\ closing' = "asking" /\ UNCHANGED <<queue, owed>>
    BY <2>1, <1>5, <1>a DEF RequestClose, TypeInv, Types, Phases, Clearing
  <2>2. CASE Clear("close") /\ Waive(phase # "running")
    BY <2>2, <1>4, <1>5, <1>a, NothingType DEF RequestClose, Waive, Types
  <2>3. QED
    BY <2>1, <2>2, <1>5 DEF RequestClose
<1>6. CASE Keep
  BY <1>6, <1>a DEF Keep, TypeInv, Types, Phases, Clearing
<1>7. CASE Discard
  <2>1. [d \in DOMAIN owed \ Dirty |-> owed[d]] \in Entries
    <3>1. [d \in DOMAIN owed \ Dirty |-> owed[d]] \in [DOMAIN owed \ Dirty -> Text]
      BY <1>a, Known
    <3>2. QED
      BY <3>1, <1>a, Known DEF Entries
  <2>2. phase # "off"
    BY <1>7, <1>a DEF Discard, Phases
  <2>3. QED
    BY <2>1, <2>2, <1>4, <1>7, NothingType DEF Discard
<1>8. CASE RestartForUpdate
  BY <1>4, <1>8, <1>a, NothingType DEF RestartForUpdate, Waive, Types
<1>9. CASE RelaunchFails
  BY <1>9, <1>a DEF RelaunchFails, TypeInv, Types, Phases, Clearing
<1>10. CASE Backend
  <2>1. queue # <<>> /\ queue' = Tail(queue) /\ closing' = Cleared(Head(queue))
    BY <1>10 DEF Backend, WriteJournal, WriteJournalFails
  <2>2. /\ queue' \in Seq(Call) /\ Len(queue') <= MaxQueue + 1
        /\ Len(queue) \in Nat \ {0} /\ Len(queue') = Len(queue) - 1
        /\ Head(queue) \in Call /\ Head(queue) = queue[1]
        /\ \A i \in 1..Len(queue') : queue'[i] = queue[i + 1]
    BY <2>1, <1>a, TakeQueue
  <2>3. closing' \in {"no", "asking", "clearing", "close", "restart"}
    BY <2>1, <2>2, <1>a DEF Cleared, Types, Call
  <2>4. Types'
    BY <2>2, <2>3, <1>10, <1>a
       DEF Types, Backend, WriteJournal, WriteJournalFails, Call
  <2>5. Phases'
    BY <2>1, <1>10, <1>a DEF Phases, Backend, WriteJournal, WriteJournalFails
  <2>6. ASSUME NEW i \in 1..Len(queue'), queue'[i].by # "flush"
        PROVE  closing' = "clearing" /\ queue'[i].content = Nothing
    <3>1. i + 1 \in 1..Len(queue) /\ 1 \in 1..Len(queue) /\ i + 1 # 1
      BY <2>2
    <3>2. Head(queue).by = "flush"
      BY <3>1, <2>2, <2>6, <1>a DEF Clearing
    <3>3. QED
      BY <3>1, <3>2, <2>1, <2>2, <2>6, <1>a DEF Clearing, Cleared
  <2>7. ASSUME NEW i \in 1..Len(queue'), NEW j \in 1..Len(queue'),
               queue'[i].by # "flush", queue'[j].by # "flush"
        PROVE  i = j
    <3>1. i + 1 \in 1..Len(queue) /\ j + 1 \in 1..Len(queue)
      BY <2>2
    <3>2. i + 1 = j + 1
      BY <3>1, <2>2, <2>7, <1>a DEF Clearing
    <3>3. QED
      BY <3>2
  <2>8. QED
    BY <2>4, <2>5, <2>6, <2>7 DEF TypeInv, Clearing
<1>11. ASSUME Stopped, owed' \in Entries PROVE TypeInv'
  <2>1. /\ queue' \in Seq(Call) /\ Len(queue') = 0
        /\ saving' \in Seq(SUBSET Note) /\ Len(saving') = 0
    BY <1>11, EmptySeq DEF Stopped
  <2>2. /\ stops' \in 0..MaxStops /\ Len(queue') <= MaxQueue + 1
        /\ Len(saving') <= MaxSaves
    BY <2>1, <1>11, <1>a, BoundAssumption DEF Stopped, Types
  <2>3. Types'
    BY <2>1, <2>2, <1>11, <1>a, NothingType, NothingTabs DEF Stopped, Types
  <2>4. QED
    BY <2>1, <2>3, <1>11 DEF Stopped, TypeInv, Phases, Clearing
<1>12. CASE Stop
  <2>1. CASE Crash
    <3> DEFINE unsaved == {d \in DOMAIN journal : journal[d] \notin {Empty, Base(d)}}
               o == [d \in DOMAIN owed \cup unsaved |->
                       IF d \in unsaved THEN journal[d] ELSE owed[d]]
    <3>1. o \in [DOMAIN owed \cup unsaved -> Text]
          /\ DOMAIN owed \cup unsaved \subseteq Doc
      BY <1>a, Known
    <3>2. o \in Entries
      BY <3>1 DEF Entries
    <3>3. owed' = o /\ Stopped
      BY <2>1 DEF Crash
    <3>4. QED
      BY <3>2, <3>3, <1>11
  <2>2. CASE Destroy \/ Relaunch
    BY <2>2, <1>11, <1>a DEF Destroy, Relaunch, Types
  <2>3. QED
    BY <2>1, <2>2, <1>12 DEF Stop
<1>13. CASE Settings
  BY <1>13, SettingsTypes
<1>14. QED
  BY <1>1, <1>2, <1>3, <1>5, <1>6, <1>7, <1>8, <1>9, <1>10, <1>12, <1>13
     DEF Next, User

(* The types and what each phase of the start and the stop may hold,       *)
(* through crashes, failed reads and overtaken flushes.                    *)
THEOREM TypeInvariant == Spec => []TypeInv
  BY InitTypes, NextTypes, PTL DEF Spec

(* Every variable keeps to its type; a stopped program leaves nothing but  *)
(* its files.                                                              *)
THEOREM TypeCorrect == Spec => []TypeOK
<1>1. TypeInv => TypeOK
  <2> SUFFICES ASSUME TypeInv PROVE TypeOK
    OBVIOUS
  <2>1. Types /\ Phases
    BY DEF TypeInv
  <2>2. IsEntries(journal) /\ IsEntries(entries) /\ IsEntries(owed)
    BY <2>1, Known DEF IsEntries
  <2>3. DOMAIN tabs \subseteq Doc
        /\ \A d \in DOMAIN tabs :
             tabs[d] \in [text : Text, base : Text, dirty : BOOLEAN]
    BY <2>1, Known DEF TabState
  <2>4. QED
    BY <2>1, <2>2, <2>3 DEF TypeOK, Types, Phases
<1>2. QED
  BY <1>1, TypeInvariant, PTL

-----------------------------------------------------------------------------
(* The window is going, whatever the journal holds.                        *)
Going == closing = "close" \/ \E i \in 1..Len(queue) : queue[i].by = "close"

(* Every dirty text is in the last journal sent, or about to be sent.      *)
Journalled ==
  (phase # "off" /\ ~Going /\ ~timer /\ (queue # <<>> \/ ~failed)) =>
    \A d \in Dirty :
      \/ d \in DOMAIN ComingJournal /\ ComingJournal[d] = tabs[d].text
      \/ phase = "recovering" /\ entries # Nothing

(* During the start the session file may still be the one of the run before,*)
(* as long as no tab has come of it.                                       *)
SessionKnown ==
  (phase # "off" /\ ~sessionTimer /\ ~outdated) =>
    ComingSession = OpenFiles \/ (phase # "running" /\ DOMAIN tabs = {})

(* What is owed is in the journal and in every journal sent.               *)
OwedIsStored ==
  \A d \in DOMAIN owed :
    /\ d \in DOMAIN journal /\ journal[d] = owed[d]
    /\ \A i \in 1..Len(queue) :
         d \in DOMAIN queue[i].content /\ queue[i].content[d] = owed[d]

(* No text is newer than the last one.                                     *)
NoneIsNewer ==
  /\ \A d \in Doc : Base(d) <= last
  /\ \A d \in DOMAIN journal : journal[d] <= last
  /\ \A i \in 1..Len(queue) : \A d \in DOMAIN queue[i].content :
       queue[i].content[d] <= last
  /\ \A d \in DOMAIN tabs : tabs[d].text <= last /\ tabs[d].base <= last
  /\ \A d \in DOMAIN entries : entries[d] <= last
  /\ \A d \in DOMAIN owed : owed[d] <= last

(* What is owed is not what the disk has, nor the base of its tab.         *)
OwedIsUnsaved ==
  \A d \in DOMAIN owed :
    /\ owed[d] # Empty /\ owed[d] # Base(d)
    /\ d \in DOMAIN tabs /\ d # reading => tabs[d].base # owed[d]

(* The tab to recover it has it, or will.                                  *)
OwedIsShown ==
  \A d \in DOMAIN owed :
    /\ phase = "recovering" =>
         IF d \in todo THEN entries[d] = owed[d]
         ELSE d \in Dirty /\ tabs[d].text = owed[d]
    /\ phase = "running" => d \in Dirty /\ tabs[d].text = owed[d]

OwedInv == OwedIsStored /\ NoneIsNewer /\ OwedIsUnsaved /\ OwedIsShown

-----------------------------------------------------------------------------
(* The journal keeps up.                                                   *)

Waits == phase = "recovering" /\ entries # Nothing

(* Steps that make nobody dirty but during the recovery, and change no     *)
(* dirty text, at least not without arming the debounce.                   *)
LEMMA JournalledKept ==
  ASSUME Journalled, phase # "off",
         UNCHANGED <<journal, closing, queue, failed>>, timer => timer',
         timer' \/ \A d \in Dirty' :
           \/ Waits'
           \/ d \in Dirty /\ tabs'[d].text = tabs[d].text /\ ~Waits
  PROVE  Journalled'
<1> SUFFICES ASSUME ~timer', ~Going', queue' # <<>> \/ ~failed',
                    NEW d \in Dirty', ~Waits'
             PROVE  d \in DOMAIN ComingJournal' /\ ComingJournal'[d] = tabs'[d].text
  BY DEF Journalled, Waits
<1>1. ~timer /\ ~Going /\ (queue # <<>> \/ ~failed)
  BY DEF Going
<1>2. d \in Dirty /\ tabs'[d].text = tabs[d].text /\ ~Waits
  OBVIOUS
<1>3. d \in DOMAIN ComingJournal /\ ComingJournal[d] = tabs[d].text
  BY <1>1, <1>2 DEF Journalled, Waits
<1>4. ComingJournal' = ComingJournal
  BY DEF ComingJournal
<1>5. QED
  BY <1>2, <1>3, <1>4

(* Every step keeps what is dirty journalled, or about to be.              *)
LEMMA NextJournalled == TypeInv /\ Journalled /\ [Next]_vars => Journalled'
<1> SUFFICES ASSUME TypeInv, Journalled, [Next]_vars PROVE Journalled'
  OBVIOUS
<1> USE DEF files, settings, start, timers, history
<1>a. Types /\ Phases /\ Clearing
  BY DEF TypeInv
<1>b. Types'
  BY NextTypes DEF TypeInv
<1>k. /\ tabs \in [DOMAIN tabs -> TabState] /\ DOMAIN tabs \subseteq Doc
      /\ entries \in [DOMAIN entries -> Text]
      /\ \A d \in Doc : Base(d) \in Text /\ Clean(d) \in TabState
  BY <1>a, Known
<1>1. CASE UNCHANGED vars
  BY <1>1 DEF vars, Journalled, Going, Dirty, ComingJournal
<1>2. CASE Launch
  BY <1>2, <1>a, NothingType DEF Launch, Phases, Journalled, Dirty
<1>3. CASE SessionRestored \/ LoadRecovery
  <2>1. Dirty' = Dirty /\ phase # "off" /\ ~Waits
    BY <1>3 DEF SessionRestored, LoadRecovery, Dirty, Waits
  <2>2. /\ UNCHANGED <<journal, closing, queue, failed, tabs>> /\ timer' = timer
        /\ \A x \in Dirty' : x \in Dirty /\ tabs'[x].text = tabs[x].text
    BY <2>1, <1>3 DEF SessionRestored, LoadRecovery
  <2>3. QED
    BY <2>1, <2>2, JournalledKept
<1>4. CASE ReadBase \/ ReadBaseFails
  <2>1. \A d \in Dirty' : d \in Dirty /\ tabs'[d].text = tabs[d].text
    BY <1>4, <1>k DEF ReadBase, ReadBaseFails, Dirty, TabState
  <2>2. phase = "recovering" /\ (Waits <=> Waits')
    BY <1>4, <1>a DEF ReadBase, ReadBaseFails, Phases, Waits
  <2>3. QED
    BY <2>1, <2>2, <1>4, JournalledKept DEF ReadBase, ReadBaseFails
<1>5. CASE Recovered
  <2>1. Dirty' = Dirty /\ (timer' \/ ~Waits) /\ phase # "off"
    BY <1>5 DEF Recovered, Dirty, Waits
  <2>2. QED
    BY <2>1, <1>5, JournalledKept DEF Recovered, Dirty
<1>6. CASE Settings
  BY <1>6 DEF Settings, SessionTimerFires,
         WriteSession, WriteSessionFails, Journalled, Going, Dirty, ComingJournal
<1>7. ASSUME NEW d \in Doc, OpenRestored(d) \/ OpenPath(d) PROVE Journalled'
  <2>1. \A x \in Dirty' : x \in Dirty /\ tabs'[x].text = tabs[x].text
    BY <1>7, <1>k DEF OpenRestored, OpenPath, Dirty, Put, Clean
  <2>2. phase # "off" /\ (Waits <=> Waits')
    BY <1>7 DEF OpenRestored, OpenPath, TabsMayChange, Waits
  <2>3. QED
    BY <2>1, <2>2, <1>7, JournalledKept DEF OpenRestored, OpenPath
<1>8. ASSUME NEW d \in Doc, RecoverEntry(d) PROVE Journalled'
  <2>1. phase = "recovering" /\ d \in DOMAIN entries
    BY <1>8, <1>a DEF RecoverEntry, Phases
  <2>2. Waits'
    BY <2>1, <1>8, NothingType DEF RecoverEntry, Waits
  <2>3. QED
    BY <2>1, <2>2, <1>8, JournalledKept DEF RecoverEntry
<1>9. ASSUME NEW d \in Doc, Type(d) \/ CloseTab(d) PROVE Journalled'
  BY <1>9 DEF Type, CloseTab, Journalled
<1>10. ASSUME NEW d \in Doc, Undo(d) PROVE Journalled'
  <2>1. phase # "off" /\ (Waits <=> Waits')
    BY <1>10, <1>a, NothingType DEF Undo, Dirty, Phases, Waits
  <2>2. timer' \/ \A x \in Dirty' : x \in Dirty /\ tabs'[x].text = tabs[x].text
    BY <1>10, <1>k DEF Undo, Dirty, TabState
  <2>3. timer => timer'
    BY <1>10 DEF Undo
  <2>4. QED
    BY <2>1, <2>2, <2>3, <1>10, JournalledKept DEF Undo
<1>11. ASSUME NEW d \in Note, Save(d) PROVE Journalled'
  BY <1>11 DEF Save, Journalled
<1>12. ASSUME NEW d \in Note, Reload(d) \/ Outside(d) \/ BulkSave(d)
       PROVE  Journalled'
  <2>1. \A x \in Dirty' : x \in Dirty /\ tabs'[x].text = tabs[x].text
    BY <1>12, <1>k DEF Reload, Outside, BulkSave, SaveNote, Dirty, TabState, Clean
  <2>2. Waits <=> Waits'
    BY <1>12 DEF Reload, Outside, BulkSave, SaveNote, Waits
  <2>3. phase = "off" => Dirty' = {}
    BY <2>1, <1>a, NothingType DEF Phases, Dirty
  <2>4. CASE phase = "off"
    BY <2>3, <2>4 DEF Journalled
  <2>5. CASE phase # "off"
    BY <2>1, <2>2, <2>5, <1>12, JournalledKept DEF Reload, Outside, BulkSave, SaveNote
  <2>6. QED
    BY <2>4, <2>5
<1>13. CASE TimerFires
  <2>1. JournalCall(SnapshotDirty, "flush") \in Call
    BY <1>a, SnapshotType DEF JournalCall, Call
  <2>2. queue' # <<>> /\ queue'[Len(queue')] = JournalCall(SnapshotDirty, "flush")
    BY <2>1, <1>13, <1>a, SendQueue DEF TimerFires
  <2>3. ComingJournal' = SnapshotDirty
    BY <2>2 DEF ComingJournal, JournalCall
  <2>4. Dirty' = Dirty /\ tabs' = tabs
    BY <1>13 DEF TimerFires, Dirty
  <2>5. QED
    BY <2>3, <2>4 DEF Journalled, SnapshotDirty
<1>14. ASSUME NEW by \in {"close", "restart"}, Clear(by) PROVE
         /\ queue'[Len(queue')].by = by /\ Len(queue') \in 1..Len(queue')
  <2>1. JournalCall(Nothing, by) \in Call
    BY NothingType DEF JournalCall, Call
  <2>2. QED
    BY <2>1, <1>14, <1>a, SendQueue DEF Clear, JournalCall
<1>15. CASE RequestClose
  <2>1. CASE closing' = "asking" /\ UNCHANGED queue
    BY <2>1, <1>15 DEF RequestClose, Journalled, Going, Dirty, ComingJournal
  <2>2. CASE Clear("close")
    BY <2>2, <1>14 DEF Journalled, Going
  <2>3. QED
    BY <2>1, <2>2, <1>15 DEF RequestClose
<1>16. CASE Keep
  BY <1>16 DEF Keep, Journalled, Going, Dirty, ComingJournal
<1>17. CASE Discard
  BY <1>14, <1>17 DEF Discard, Journalled, Going
<1>18. CASE RestartForUpdate
  BY <1>18 DEF RestartForUpdate, Journalled, Dirty
<1>19. CASE RelaunchFails
  BY <1>19 DEF RelaunchFails, Journalled, Going, Dirty, ComingJournal
<1>20. CASE Backend
  <2>1. queue # <<>> /\ queue' = Tail(queue) /\ closing' = Cleared(Head(queue))
        /\ UNCHANGED <<tabs, timer, phase, entries>>
    BY <1>20 DEF Backend, WriteJournal, WriteJournalFails
  <2>2. /\ Len(queue) \in Nat \ {0} /\ Len(queue') = Len(queue) - 1
        /\ Head(queue) \in Call /\ Head(queue) = queue[1]
        /\ \A i \in 1..Len(queue') : queue'[i] = queue[i + 1]
        /\ queue' = <<>> <=> Len(queue) = 1
    BY <2>1, <1>a, TakeQueue
  <2>3. Going => Going'
    <3>1. CASE closing = "close"
      <4>1. Head(queue).by = "flush"
        BY <3>1, <2>2, <1>a DEF Clearing
      <4>2. QED
        BY <3>1, <4>1, <2>1 DEF Cleared, Going
    <3>2. ASSUME NEW i \in 1..Len(queue), queue[i].by = "close" PROVE Going'
      <4>1. CASE i = 1
        BY <4>1, <3>2, <2>1, <2>2 DEF Cleared, Going
      <4>2. CASE i # 1
        <5>1. i - 1 \in 1..Len(queue') /\ queue'[i - 1] = queue[i]
          BY <4>2, <2>2
        <5>2. QED
          BY <5>1, <3>2 DEF Going
      <4>3. QED
        BY <4>1, <4>2
    <3>3. QED
      BY <3>1, <3>2 DEF Going
  <2>4. Dirty' = Dirty
    BY <2>1 DEF Dirty
  <2>5. SUFFICES ASSUME phase # "off", ~Going', ~timer, queue' # <<>> \/ ~failed',
                        NEW d \in Dirty, ~Waits
                 PROVE  d \in DOMAIN ComingJournal' /\ ComingJournal'[d] = tabs[d].text
    BY <2>1, <2>4 DEF Journalled, Waits
  <2>6. d \in DOMAIN ComingJournal /\ ComingJournal[d] = tabs[d].text
    BY <2>1, <2>3, <2>5 DEF Journalled, Waits
  <2>7. ComingJournal = queue[Len(queue)].content
    BY <2>1 DEF ComingJournal
  <2>8. CASE queue' # <<>>
    <3>1. Len(queue') \in 1..Len(queue') /\ Len(queue') + 1 = Len(queue)
      BY <2>2, <2>8
    <3>2. queue'[Len(queue')] = queue[Len(queue)]
      BY <3>1, <2>2
    <3>3. QED
      BY <3>2, <2>6, <2>7, <2>8 DEF ComingJournal
  <2>9. CASE queue' = <<>>
    <3>0. Len(queue) = 1
      BY <2>2, <2>9
    <3>1. Head(queue) = queue[Len(queue)] /\ 1 \in 1..Len(queue)
      BY <3>0, <2>2
    <3>2. Head(queue).by = "flush"
      BY <3>1, <2>2, <2>6, <2>7, <1>a, NothingType DEF Clearing
    <3>3. journal' = Head(queue).content
      BY <3>2, <2>5, <2>9, <1>20 DEF Backend, WriteJournal, WriteJournalFails
    <3>4. QED
      BY <3>1, <3>3, <2>6, <2>7, <2>9 DEF ComingJournal
  <2>10. QED
    BY <2>8, <2>9
<1>21. CASE Stop
  BY <1>21 DEF Stop, Crash, Destroy, Relaunch, Stopped, Journalled
<1>22. QED
  BY <1>1, <1>2, <1>3, <1>4, <1>5, <1>6, <1>7, <1>8, <1>9, <1>10, <1>11,
     <1>12, <1>13, <1>15, <1>16, <1>17, <1>18, <1>19, <1>20, <1>21
     DEF Next, Start, User

(* The text of every dirty buffer is in the journal, or under way to it,   *)
(* or its debounce is armed, through failed writes, saves, undos, a start  *)
(* with entries to recover, and a relaunch that fails after the journal    *)
(* was emptied for it.                                                     *)
THEOREM DirtyTextsAreJournalled == Spec => []DirtyIsJournalled
<1>1. Init => Journalled
  BY DEF Init, Journalled
<1>2. TypeInv /\ Journalled => DirtyIsJournalled
  <2> SUFFICES ASSUME TypeInv, Journalled, phase = "running",
                      closing \in {"no", "asking"}, ~timer, ~failed, NEW d \in Dirty
               PROVE  d \in DOMAIN ComingJournal /\ ComingJournal[d] = tabs[d].text
    BY DEF DirtyIsJournalled
  <2>1. ~Going
    BY DEF Going, TypeInv, Clearing
  <2>2. QED
    BY <2>1 DEF Journalled
<1>3. QED
  BY <1>1, <1>2, NextJournalled, TypeInvariant, PTL DEF Spec

-----------------------------------------------------------------------------
(* The session file keeps up.                                              *)

(* Steps that open and close no tab, and write no session.                 *)
LEMMA SessionKept ==
  ASSUME SessionKnown, phase # "off", phase' # phase => phase' # "running",
         UNCHANGED settings, sessionTimer => sessionTimer',
         DOMAIN tabs' = DOMAIN tabs
  PROVE  SessionKnown'
  BY DEF SessionKnown, ComingSession, OpenFiles, settings

(* Every step keeps the session file true, or about to be.                 *)
LEMMA NextSessionKnown ==
  TypeInv /\ SessionKnown /\ [Next]_vars => SessionKnown'
<1> SUFFICES ASSUME TypeInv, SessionKnown, [Next]_vars PROVE SessionKnown'
  OBVIOUS
<1> USE DEF files, settings, start, timers, history
<1>a. Types /\ Phases
  BY DEF TypeInv
<1>k. tabs \in [DOMAIN tabs -> TabState]
  BY <1>a, Known
<1>n. tabs = Nothing <=> DOMAIN tabs = {}
  <2>1. CASE DOMAIN tabs = {}
    BY <2>1, <1>k DEF Nothing
  <2>2. CASE tabs = Nothing
    BY <2>2, NothingType
  <2>3. QED
    BY <2>1, <2>2, NothingType
<1>1. CASE UNCHANGED vars
  BY <1>1 DEF vars, SessionKnown, OpenFiles, ComingSession
<1>2. CASE Launch
  BY <1>2, <1>a, <1>n DEF Launch, Phases, SessionKnown
<1>3. CASE SessionRestored \/ LoadRecovery
  BY <1>3 DEF SessionRestored, LoadRecovery, SessionKnown, OpenFiles,
     ComingSession
<1>4. CASE ReadBase \/ ReadBaseFails
  <2>1. DOMAIN tabs' = DOMAIN tabs /\ phase = "recovering" /\ phase' = phase
    BY <1>4, <1>a, <1>k DEF ReadBase, ReadBaseFails, Phases
  <2>2. QED
    BY <2>1, <1>4, SessionKept DEF ReadBase, ReadBaseFails
<1>5. CASE Recovered
  BY <1>5, <1>n DEF Recovered, SessionKnown, OpenFiles, ComingSession
<1>6. CASE Settings
  <2>1. CASE SessionTimerFires
    BY <2>1, <1>a, SendSession DEF SessionTimerFires, SessionKnown, OpenFiles
  <2>2. CASE WriteSession \/ WriteSessionFails
    <3>1. ~outdated /\ (outdated' = TRUE \/ ComingSession' = ComingSession)
      BY <2>2, <1>a, TakeSession
    <3>2. UNCHANGED <<phase, sessionTimer, tabs>>
      BY <2>2 DEF WriteSession, WriteSessionFails
    <3>3. QED
      BY <3>1, <3>2 DEF SessionKnown, OpenFiles
  <2>3. QED
    BY <2>1, <2>2, <1>6 DEF Settings
<1>7. ASSUME NEW d \in Doc, OpenRestored(d) PROVE SessionKnown'
  BY <1>7 DEF OpenRestored, SessionKnown, OpenFiles, ComingSession
<1>8. ASSUME NEW d \in Doc, OpenPath(d) \/ CloseTab(d) PROVE SessionKnown'
  BY <1>8 DEF OpenPath, CloseTab, SessionKnown
<1>9. ASSUME NEW d \in Doc, RecoverEntry(d) PROVE SessionKnown'
  <2>1. CASE d \in DOMAIN tabs
    <3>1. tabs' = [tabs EXCEPT ![d].text = entries[d], ![d].dirty = TRUE]
      BY <2>1, <1>9 DEF RecoverEntry
    <3>2. DOMAIN tabs' = DOMAIN tabs
      BY <3>1, <1>k
    <3>3. QED
      BY <3>2, <2>1, <1>9, SessionKept DEF RecoverEntry
  <2>2. CASE d \notin DOMAIN tabs
    BY <2>2, <1>9 DEF RecoverEntry, SessionKnown
  <2>3. QED
    BY <2>1, <2>2
<1>10. ASSUME NEW d \in Doc, Type(d) \/ Undo(d) PROVE SessionKnown'
  <2>1. DOMAIN tabs' = DOMAIN tabs
    BY <1>10, <1>k DEF Type, Undo
  <2>2. phase # "off"
    BY <1>10, <1>a, <1>n DEF Type, Undo, Dirty, Phases
  <2>3. QED
    BY <2>1, <2>2, <1>10, SessionKept DEF Type, Undo
<1>11. ASSUME NEW d \in Note,
              Save(d) \/ Reload(d) \/ Outside(d) \/ BulkSave(d)
       PROVE  SessionKnown'
  <2>1. DOMAIN tabs' = DOMAIN tabs
    BY <1>11, <1>k DEF Save, SaveNote, Reload, Outside, BulkSave
  <2>2. UNCHANGED <<phase, settings, sessionTimer>>
    BY <1>11 DEF Save, SaveNote, Reload, Outside, BulkSave
  <2>3. QED
    BY <2>1, <2>2 DEF SessionKnown, OpenFiles, ComingSession
<1>12. CASE TimerFires \/ RequestClose \/ Keep \/ Discard \/ RestartForUpdate
            \/ RelaunchFails \/ Backend
  <2>1. UNCHANGED <<phase, settings, sessionTimer, tabs>>
    BY <1>12 DEF TimerFires, RequestClose, Keep, Discard, RestartForUpdate,
       RelaunchFails, Backend, WriteJournal, WriteJournalFails
  <2>2. QED
    BY <2>1 DEF SessionKnown, OpenFiles, ComingSession
<1>13. CASE Stop
  BY <1>13 DEF Stop, Crash, Destroy, Relaunch, Stopped, SessionKnown
<1>14. QED
  BY <1>1, <1>2, <1>3, <1>4, <1>5, <1>6, <1>7, <1>8, <1>9, <1>10, <1>11,
     <1>12, <1>13 DEF Next, Start, User

(* With no debounce armed, session.json names the notes that are open, or  *)
(* the last write on its way does, unless that write failed: whatever was  *)
(* opened, recovered or closed, and whenever.                              *)
THEOREM OpenNotesAreInSession == Spec => []SessionIsCurrent
<1>1. Init => SessionKnown
  BY DEF Init, SessionKnown
<1>2. SessionKnown => SessionIsCurrent
  BY DEF SessionKnown, SessionIsCurrent
<1>3. QED
  BY <1>1, <1>2, NextSessionKnown, TypeInvariant, PTL DEF Spec

-----------------------------------------------------------------------------
(* What is owed.                                                           *)

(* A step may forgive, it cannot change what is owed.                      *)
NoMoreOwed ==
  DOMAIN owed' \subseteq DOMAIN owed /\ \A d \in DOMAIN owed' : owed'[d] = owed[d]

(* Texts struck off are owed no more, and none is owed anew.               *)
LEMMA OwedForgiven ==
  /\ \A d : Forget(d) => NoMoreOwed /\ d \notin DOMAIN owed'
  /\ \A b : Waive(b) => NoMoreOwed /\ (b => DOMAIN owed' = {})
  /\ UNCHANGED owed => NoMoreOwed
<1>1. ASSUME NEW d, Forget(d) PROVE NoMoreOwed /\ d \notin DOMAIN owed'
  BY <1>1 DEF Forget, Drop, NoMoreOwed
<1>2. ASSUME NEW b, Waive(b) PROVE NoMoreOwed /\ (b => DOMAIN owed' = {})
  BY <1>2, NothingType DEF Waive, NoMoreOwed
<1>3. QED
  BY <1>1, <1>2 DEF NoMoreOwed

(* What a step makes of the texts owed, but for a crash.                   *)
LEMMA NextForgiven == [Next]_vars /\ ~Crash => NoMoreOwed
<1> SUFFICES ASSUME [Next]_vars, ~Crash PROVE NoMoreOwed
  OBVIOUS
<1> USE DEF history
<1>1. CASE UNCHANGED owed
  BY <1>1, OwedForgiven
<1>2. ASSUME NEW b, Waive(b) PROVE NoMoreOwed
  BY <1>2, OwedForgiven
<1>3. ASSUME NEW d, Forget(d) PROVE NoMoreOwed
  BY <1>3, OwedForgiven
<1>4. CASE Discard
  BY <1>4, NothingType DEF Discard, NoMoreOwed
<1>5. QED
  BY <1>1, <1>2, <1>3, <1>4
     DEF Next, vars, Start, User, Stop, Backend, Launch, SessionRestored,
         LoadRecovery, ReadBase, ReadBaseFails, Recovered, OpenRestored,
         RecoverEntry, OpenPath, Type, Undo, CloseTab, Save, SaveNote, Reload,
         Outside, BulkSave, TimerFires, Settings, SessionTimerFires,
         WriteSession, WriteSessionFails, WriteJournal,
         WriteJournalFails, RequestClose, Keep, RestartForUpdate,
         RelaunchFails, Destroy, Relaunch

(* A flush sends what is owed, and nothing else is sent while any is.      *)
LEMMA NextStored ==
  TypeInv /\ OwedInv /\ [Next]_vars => OwedIsStored'
<1> SUFFICES ASSUME TypeInv, OwedInv, [Next]_vars PROVE OwedIsStored'
  OBVIOUS
<1> USE DEF files, settings, start, timers, history
<1>a. Types /\ Phases /\ OwedIsStored /\ OwedIsShown
  BY DEF TypeInv, OwedInv
<1>1. ASSUME NoMoreOwed, UNCHANGED <<journal, queue>> PROVE OwedIsStored'
  BY <1>1, <1>a DEF NoMoreOwed, OwedIsStored
<1>2. CASE TimerFires
  <2>1. JournalCall(SnapshotDirty, "flush") \in Call
    BY <1>a, SnapshotType DEF JournalCall, Call
  <2>2. /\ Len(queue') = Len(queue) + 1 /\ Len(queue) \in Nat
        /\ \A i \in 1..Len(queue) : queue'[i] = queue[i]
        /\ queue'[Len(queue) + 1].content = SnapshotDirty
    BY <2>1, <1>2, <1>a, SendQueue DEF TimerFires, JournalCall
  <2>3. NoMoreOwed /\ (phase # "running" => DOMAIN owed' = {}) /\ journal' = journal
    BY <1>2, OwedForgiven DEF TimerFires
  <2>4. \A d \in DOMAIN owed' : d \in DOMAIN SnapshotDirty /\ SnapshotDirty[d] = owed[d]
    BY <2>3, <1>a DEF SnapshotDirty, NoMoreOwed, OwedIsShown
  <2>5. ASSUME NEW d \in DOMAIN owed', NEW i \in 1..Len(queue')
        PROVE  d \in DOMAIN queue'[i].content /\ queue'[i].content[d] = owed'[d]
    <3>1. d \in DOMAIN owed /\ owed'[d] = owed[d]
      BY <2>3 DEF NoMoreOwed
    <3>2. CASE i \in 1..Len(queue)
      BY <3>1, <3>2, <2>2, <1>a DEF OwedIsStored
    <3>3. CASE i = Len(queue) + 1
      BY <3>1, <3>3, <2>2, <2>4
    <3>4. QED
      BY <3>2, <3>3, <2>2
  <2>6. QED
    BY <2>3, <2>5, <1>a DEF OwedIsStored, NoMoreOwed
<1>3. CASE RequestClose \/ Discard \/ RestartForUpdate
  <2>1. CASE UNCHANGED <<queue, owed>>
    BY <2>1, <1>1, <1>3, OwedForgiven DEF RequestClose, Discard, RestartForUpdate
  <2>2. CASE ~UNCHANGED <<queue, owed>>
    <3>1. phase # "running" => DOMAIN owed' = {}
      BY <2>2, <1>3, NothingType DEF RequestClose, Discard, RestartForUpdate, Waive
    <3>2. phase = "running" => DOMAIN owed' \subseteq DOMAIN owed \ Dirty
      BY <2>2, <1>3 DEF RequestClose, Discard, RestartForUpdate, Waive
    <3>3. DOMAIN owed' = {}
      BY <3>1, <3>2, <1>a DEF OwedIsShown
    <3>4. QED
      BY <3>3 DEF OwedIsStored
  <2>3. QED
    BY <2>1, <2>2
<1>4. CASE Backend
  <2>1. queue # <<>> /\ queue' = Tail(queue) /\ owed' = owed
        /\ journal' \in {journal, Head(queue).content}
    BY <1>4 DEF Backend, WriteJournal, WriteJournalFails
  <2>2. /\ Len(queue) \in Nat \ {0} /\ Len(queue') = Len(queue) - 1
        /\ Head(queue) = queue[1]
        /\ \A i \in 1..Len(queue') : queue'[i] = queue[i + 1]
    BY <2>1, <1>a, TakeQueue
  <2>3. 1 \in 1..Len(queue) /\ \A i \in 1..Len(queue') : i + 1 \in 1..Len(queue)
    BY <2>2
  <2>4. QED
    BY <2>1, <2>2, <2>3, <1>a DEF OwedIsStored
<1>5. CASE Stop
  <2>1. Len(queue') = 0 /\ journal' = journal
    BY <1>5, EmptySeq DEF Stop, Crash, Destroy, Relaunch, Stopped
  <2>2. \A d \in DOMAIN owed' : d \in DOMAIN journal /\ journal[d] = owed'[d]
    <3>1. CASE Crash
      BY <3>1, <1>a DEF Crash, OwedIsStored
    <3>2. CASE owed' = owed
      BY <3>2, <1>a DEF OwedIsStored
    <3>3. QED
      BY <3>1, <3>2, <1>5 DEF Stop, Destroy, Relaunch
  <2>3. QED
    BY <2>1, <2>2 DEF OwedIsStored
<1>6. CASE UNCHANGED <<journal, queue>> /\ ~Crash
  BY <1>1, <1>6, NextForgiven
<1>7. QED
  BY <1>2, <1>3, <1>4, <1>5, <1>6
     DEF Next, vars, Start, User, Launch, SessionRestored, Stop,
         LoadRecovery, ReadBase, ReadBaseFails, Recovered, OpenRestored,
         RecoverEntry, OpenPath, Type, Undo, CloseTab, Save, SaveNote, Reload,
         Outside, BulkSave, Settings, SessionTimerFires,
         WriteSession, WriteSessionFails, Keep, RelaunchFails

(* A text comes from a file, a tab, the journal or the user, who writes the*)
(* last one.                                                               *)
LEMMA NextNewer ==
  TypeInv /\ OwedInv /\ [Next]_vars => NoneIsNewer'
<1> SUFFICES ASSUME TypeInv, OwedInv, [Next]_vars PROVE NoneIsNewer'
  OBVIOUS
<1> USE DEF files, settings, start, timers, history
<1>a. Types /\ Phases /\ NoneIsNewer
  BY DEF TypeInv, OwedInv
<1>k. /\ tabs \in [DOMAIN tabs -> TabState] /\ DOMAIN tabs \subseteq Doc
      /\ journal \in [DOMAIN journal -> Text]
      /\ entries \in [DOMAIN entries -> Text]
      /\ owed \in [DOMAIN owed -> Text]
      /\ \A d \in Doc : Base(d) \in Text /\ Clean(d) \in TabState
      /\ Empty \in Text
  BY <1>a, Known
<1>l. last \in Nat /\ Text \subseteq Nat /\ Empty <= last
  BY <1>a DEF Types, Text, Empty
<1>m. \A i \in 1..Len(queue) : \A d \in DOMAIN queue[i].content :
        queue[i].content[d] <= last + 1
  <2> SUFFICES ASSUME NEW i \in 1..Len(queue), NEW d \in DOMAIN queue[i].content
               PROVE  queue[i].content[d] <= last + 1
    OBVIOUS
  <2>1. queue[i] \in Call
    BY <1>a, ElementOfSeq DEF Types
  <2>2. queue[i].content \in Entries
    BY <2>1 DEF Call
  <2>3. queue[i].content[d] \in Text /\ queue[i].content[d] <= last
    BY <2>2, <1>a, FunctionOnPart DEF Entries, NoneIsNewer
  <2>4. \A v \in Nat : v <= last => v <= last + 1
    BY <1>l
  <2>5. QED
    BY <2>3, <2>4, <1>l
<1>f. ASSUME NoMoreOwed, last' \in {last, last + 1}
      PROVE  \A d \in DOMAIN owed' : owed'[d] <= last'
  BY <1>f, <1>a, <1>k, <1>l DEF NoMoreOwed, NoneIsNewer
<1>1. ASSUME NoMoreOwed, UNCHANGED <<disk, journal, queue, last, entries>>,
             \A d \in DOMAIN tabs' : tabs'[d].text <= last /\ tabs'[d].base <= last
      PROVE  NoneIsNewer'
  BY <1>1, <1>a, <1>f DEF NoneIsNewer, Base
<1>2. ASSUME ~Crash, UNCHANGED <<disk, journal, queue, last, entries, tabs>>
      PROVE  NoneIsNewer'
  BY <1>2, <1>1, <1>a, NextForgiven DEF NoneIsNewer
<1>3. CASE LoadRecovery
  <2>1. /\ NoMoreOwed /\ UNCHANGED <<disk, journal, queue, last, tabs>>
        /\ entries' = journal \/ entries' = Nothing
    BY <1>3, OwedForgiven DEF LoadRecovery
  <2>2. QED
    BY <2>1, <1>a, <1>f, NothingType DEF NoneIsNewer, Base
<1>4. CASE Recovered
  <2>1. /\ NoMoreOwed /\ UNCHANGED <<disk, journal, queue, last, tabs>>
        /\ entries' = Nothing
    BY <1>4, OwedForgiven DEF Recovered
  <2>2. QED
    BY <2>1, <1>a, <1>f, NothingType DEF NoneIsNewer, Base
<1>5. CASE ReadBase \/ ReadBaseFails
  <2>1. reading \in Doc
    BY <1>5, <1>a, DocAssumption DEF ReadBase, ReadBaseFails, Types
  <2>2. PICK t \in {Base(reading), Empty} :
          tabs' = [tabs EXCEPT ![reading].base = t]
    BY <1>5 DEF ReadBase, ReadBaseFails, RecoveredBase
  <2>3. t <= last
    BY <2>1, <1>a, <1>l DEF NoneIsNewer
  <2>4. \A d \in DOMAIN tabs' : tabs'[d].text <= last /\ tabs'[d].base <= last
    BY <2>2, <2>3, <1>a, <1>k DEF TabState, NoneIsNewer
  <2>5. QED
    BY <2>4, <1>1, <1>5, OwedForgiven DEF ReadBase, ReadBaseFails
<1>6. ASSUME NEW d \in Doc, tabs' = Put(tabs, d, Clean(d)), NoMoreOwed,
             UNCHANGED <<disk, journal, queue, last, entries>>
      PROVE  NoneIsNewer'
  BY <1>1, <1>6, <1>a DEF Put, Clean, NoneIsNewer
<1>7. ASSUME NEW d \in Doc, OpenRestored(d) \/ OpenPath(d) PROVE NoneIsNewer'
  <2>1. NoMoreOwed /\ UNCHANGED <<disk, journal, queue, last, entries>>
    BY <1>7, OwedForgiven DEF OpenRestored, OpenPath
  <2>2. tabs' = tabs \/ tabs' = Put(tabs, d, Clean(d))
    BY <1>7 DEF OpenRestored, OpenPath
  <2>3. QED
    BY <2>1, <2>2, <1>1, <1>6, <1>a DEF NoneIsNewer
<1>8. ASSUME NEW d \in Doc, RecoverEntry(d) PROVE NoneIsNewer'
  <2>1. d \in DOMAIN entries /\ entries[d] <= last /\ Empty <= last
    BY <1>8, <1>a, <1>l DEF RecoverEntry, Phases, NoneIsNewer
  <2>2. NoMoreOwed /\ UNCHANGED <<disk, journal, queue, last, entries>>
    BY <1>8, OwedForgiven DEF RecoverEntry
  <2>3. CASE d \in DOMAIN tabs
    <3>1. tabs' = [tabs EXCEPT ![d].text = entries[d], ![d].dirty = TRUE]
      BY <2>3, <1>8 DEF RecoverEntry
    <3>2. \A x \in DOMAIN tabs' : tabs'[x].text <= last /\ tabs'[x].base <= last
      BY <3>1, <2>1, <1>a, <1>k DEF NoneIsNewer, TabState
    <3>3. QED
      BY <3>2, <2>2, <1>1
  <2>4. CASE d \notin DOMAIN tabs
    <3>1. \A x \in DOMAIN tabs' : tabs'[x].text <= last /\ tabs'[x].base <= last
      BY <2>1, <2>4, <1>8, <1>a DEF RecoverEntry, Put, NoneIsNewer
    <3>2. QED
      BY <3>1, <2>2, <1>1
  <2>5. QED
    BY <2>3, <2>4
<1>9. ASSUME NEW d \in Doc, Type(d) PROVE NoneIsNewer'
  <2>1. NoMoreOwed /\ last' = last + 1
        /\ UNCHANGED <<disk, journal, queue, entries>>
    BY <1>9, OwedForgiven DEF Type
  <2>2. \A x \in DOMAIN tabs' : tabs'[x].text <= last' /\ tabs'[x].base <= last'
    BY <2>1, <1>9, <1>a, <1>k, <1>l DEF Type, TabState, NoneIsNewer
  <2>3. \A x \in Doc : Base(x)' <= last'
    BY <2>1, <1>a, <1>k, <1>l DEF Base, NoneIsNewer
  <2>4. /\ \A x \in DOMAIN journal' : journal'[x] <= last'
        /\ \A x \in DOMAIN entries' : entries'[x] <= last'
    BY <2>1, <1>a, <1>k, <1>l DEF NoneIsNewer
  <2>5. \A i \in 1..Len(queue') : \A x \in DOMAIN queue'[i].content :
          queue'[i].content[x] <= last'
    BY <2>1, <1>m DEF NoneIsNewer
  <2>6. QED
    BY <2>1, <2>2, <2>3, <2>4, <2>5, <1>f DEF NoneIsNewer
<1>10. ASSUME NEW d \in Note, Outside(d) PROVE NoneIsNewer'
  <2>1. NoMoreOwed /\ last' = last + 1
        /\ UNCHANGED <<tabs, journal, queue, entries>>
    BY <1>10, OwedForgiven DEF Outside
  <2>2. \A x \in DOMAIN tabs' : tabs'[x].text <= last' /\ tabs'[x].base <= last'
    BY <2>1, <1>a, <1>k, <1>l DEF TabState, NoneIsNewer
  <2>3. \A x \in Doc : Base(x)' <= last'
    BY <2>1, <1>10, <1>a, <1>k, <1>l DEF Base, NoneIsNewer, Outside, Types
  <2>4. /\ \A x \in DOMAIN journal' : journal'[x] <= last'
        /\ \A x \in DOMAIN entries' : entries'[x] <= last'
    BY <2>1, <1>a, <1>k, <1>l DEF NoneIsNewer
  <2>5. \A i \in 1..Len(queue') : \A x \in DOMAIN queue'[i].content :
          queue'[i].content[x] <= last'
    BY <2>1, <1>m DEF NoneIsNewer
  <2>6. QED
    BY <2>1, <2>2, <2>3, <2>4, <2>5, <1>f DEF NoneIsNewer
<1>11. ASSUME NEW d \in Doc, Undo(d) \/ CloseTab(d) PROVE NoneIsNewer'
  <2>1. \A x \in DOMAIN tabs' : tabs'[x].text <= last /\ tabs'[x].base <= last
    BY <1>11, <1>a, <1>k DEF Undo, CloseTab, Drop, TabState, NoneIsNewer, Dirty
  <2>2. QED
    BY <2>1, <1>1, <1>11, OwedForgiven DEF Undo, CloseTab
<1>12. ASSUME NEW d \in Note, Reload(d) PROVE NoneIsNewer'
  <2>1. \A x \in DOMAIN tabs' : tabs'[x].text <= last /\ tabs'[x].base <= last
    BY <1>12, <1>a, <1>k, DocAssumption DEF Reload, Clean, NoneIsNewer
  <2>2. QED
    BY <2>1, <1>1, <1>12, OwedForgiven DEF Reload
<1>13. ASSUME NEW d \in Note, Save(d) \/ BulkSave(d) PROVE NoneIsNewer'
  <2>1. UNCHANGED <<journal, queue, last, entries>>
    BY <1>13 DEF Save, BulkSave
  <2>2. CASE SaveNote(d) /\ d \in DOMAIN tabs
    <3>1. \A x \in DOMAIN tabs' : tabs'[x].text <= last /\ tabs'[x].base <= last
      BY <2>2, <1>a, <1>k DEF SaveNote, TabState, NoneIsNewer
    <3>2. \A x \in Doc : Base(x)' <= last
      BY <2>2, <1>a, <1>l DEF SaveNote, Base, NoneIsNewer, Types
    <3>3. NoMoreOwed
      BY <2>2, OwedForgiven DEF SaveNote
    <3>4. QED
      BY <2>1, <3>1, <3>2, <3>3, <1>a, <1>f DEF NoneIsNewer
  <2>3. CASE UNCHANGED <<disk, tabs, owed>>
    BY <2>1, <2>3, <1>1, <1>a, OwedForgiven DEF NoneIsNewer
  <2>4. QED
    BY <2>2, <2>3, <1>13 DEF Save, BulkSave, Dirty
<1>14. ASSUME NEW c \in Call, Send(c), ~Crash,
              \A d \in DOMAIN c.content : c.content[d] <= last,
              UNCHANGED <<disk, journal, last, entries, tabs>>
       PROVE  NoneIsNewer'
  <2>1. /\ Len(queue') = Len(queue) + 1 /\ Len(queue) \in Nat
        /\ \A i \in 1..Len(queue) : queue'[i] = queue[i]
        /\ queue'[Len(queue) + 1] = c
    BY <1>14, <1>a, SendQueue
  <2>2. ASSUME NEW i \in 1..Len(queue'), NEW d \in DOMAIN queue'[i].content
        PROVE  queue'[i].content[d] <= last
    <3>1. CASE i \in 1..Len(queue)
      BY <3>1, <2>1, <2>2, <1>a DEF NoneIsNewer
    <3>2. CASE i = Len(queue) + 1
      BY <3>2, <2>1, <2>2, <1>14
    <3>3. QED
      BY <3>1, <3>2, <2>1
  <2>3. NoMoreOwed
    BY <1>14, NextForgiven
  <2>4. QED
    BY <2>2, <2>3, <1>14, <1>a, <1>f DEF NoneIsNewer, Base
<1>15. CASE TimerFires
  <2>1. JournalCall(SnapshotDirty, "flush") \in Call
    BY <1>a, SnapshotType DEF JournalCall, Call
  <2>2. \A d \in DOMAIN SnapshotDirty : SnapshotDirty[d] <= last
    BY <1>a DEF SnapshotDirty, Dirty, NoneIsNewer
  <2>3. /\ JournalCall(SnapshotDirty, "flush").content = SnapshotDirty
        /\ Send(JournalCall(SnapshotDirty, "flush"))
        /\ UNCHANGED <<disk, journal, last, entries, tabs>>
    BY <1>15 DEF TimerFires, JournalCall
  <2>4. ~Crash
    BY <1>a, <1>15, SendQueue, <2>1 DEF TimerFires, Crash, Stopped
  <2>5. QED
    BY <2>1, <2>2, <2>3, <2>4, <1>14
<1>16. CASE RequestClose \/ Discard \/ RestartForUpdate
  <2>1. UNCHANGED <<disk, journal, last, entries, tabs, phase>> /\ phase # "off"
    BY <1>16, <1>a DEF RequestClose, Discard, RestartForUpdate, Phases
  <2>2. ~Crash
    BY <2>1 DEF Crash, Stopped
  <2>3. ASSUME NEW by \in {"close", "restart"}, Clear(by) PROVE NoneIsNewer'
    <3>1. JournalCall(Nothing, by) \in Call /\ JournalCall(Nothing, by).content = Nothing
      BY NothingType DEF JournalCall, Call
    <3>2. Send(JournalCall(Nothing, by))
      BY <2>3 DEF Clear
    <3>3. QED
      BY <3>1, <3>2, <2>1, <2>2, <1>14, NothingType
  <2>4. QED
    BY <2>1, <2>2, <2>3, <1>2, <1>16 DEF RequestClose, Discard, RestartForUpdate
<1>17. CASE Backend
  <2>1. queue # <<>> /\ queue' = Tail(queue) /\ owed' = owed
        /\ journal' \in {journal, Head(queue).content}
        /\ UNCHANGED <<disk, last, entries, tabs>>
    BY <1>17 DEF Backend, WriteJournal, WriteJournalFails
  <2>2. /\ Len(queue) \in Nat \ {0} /\ Len(queue') = Len(queue) - 1
        /\ Head(queue) = queue[1]
        /\ \A i \in 1..Len(queue') : queue'[i] = queue[i + 1]
    BY <2>1, <1>a, TakeQueue
  <2>3. 1 \in 1..Len(queue) /\ \A i \in 1..Len(queue') : i + 1 \in 1..Len(queue)
    BY <2>2
  <2>4. QED
    BY <2>1, <2>2, <2>3, <1>a DEF NoneIsNewer, Base
<1>18. CASE Stop
  <2>1. /\ Len(queue') = 0 /\ DOMAIN tabs' = {} /\ DOMAIN entries' = {}
        /\ UNCHANGED <<disk, journal, last>>
    BY <1>18, EmptySeq, NothingType DEF Stop, Crash, Destroy, Relaunch, Stopped
  <2>2. \A d \in DOMAIN owed' : owed'[d] <= last
    BY <1>18, <1>a DEF Stop, Crash, Destroy, Relaunch, NoneIsNewer
  <2>3. QED
    BY <2>1, <2>2, <1>a DEF NoneIsNewer, Base
<1>19. CASE UNCHANGED vars \/ Launch \/ SessionRestored \/ Settings
            \/ Keep \/ RelaunchFails
  <2>1. UNCHANGED <<disk, journal, queue, last, entries, tabs, owed>>
    BY <1>19 DEF vars, Launch, SessionRestored, Settings, SessionTimerFires,
         WriteSession, WriteSessionFails, Keep,
       RelaunchFails
  <2>2. QED
    BY <2>1, <1>1, <1>a, OwedForgiven DEF NoneIsNewer
<1>20. QED
  BY <1>3, <1>4, <1>5, <1>7, <1>8, <1>9, <1>10, <1>11, <1>12, <1>13, <1>15,
     <1>16, <1>17, <1>18, <1>19 DEF Next, Start, User

(* A step that leaves the disk alone, forgets the tab it changes, or gives *)
(* it a base that is not owed.                                             *)
LEMMA UnsavedKept ==
  ASSUME OwedIsUnsaved, NoMoreOwed, UNCHANGED disk,
         \A d \in DOMAIN owed' : d \in DOMAIN tabs' /\ d # reading' =>
           \/ d \in DOMAIN tabs /\ d # reading /\ tabs'[d].base = tabs[d].base
           \/ tabs'[d].base \in {Empty, Base(d)}
  PROVE  OwedIsUnsaved'
  BY DEF OwedIsUnsaved, NoMoreOwed, Base

(* Every step keeps what is owed unsaved.                                  *)
LEMMA NextUnsaved ==
  TypeInv /\ OwedInv /\ [Next]_vars => OwedIsUnsaved'
<1> SUFFICES ASSUME TypeInv, OwedInv, [Next]_vars PROVE OwedIsUnsaved'
  OBVIOUS
<1> USE DEF files, settings, start, timers, history
<1>a. Types /\ Phases /\ NoneIsNewer /\ OwedIsUnsaved
  BY DEF TypeInv, OwedInv
<1>k. /\ tabs \in [DOMAIN tabs -> TabState] /\ DOMAIN tabs \subseteq Doc
      /\ journal \in [DOMAIN journal -> Text]
      /\ owed \in [DOMAIN owed -> Text] /\ DOMAIN owed \subseteq Doc
  BY <1>a, Known
<1>2. CASE ReadBase \/ ReadBaseFails
  <2>1. PICK t \in {Base(reading), Empty} :
          tabs' = [tabs EXCEPT ![reading].base = t]
    BY <1>2 DEF ReadBase, ReadBaseFails, RecoveredBase
  <2>2. NoMoreOwed /\ UNCHANGED disk
    BY <1>2, OwedForgiven DEF ReadBase, ReadBaseFails
  <2>3. \A d \in DOMAIN tabs' :
          \/ d # reading /\ d \in DOMAIN tabs /\ tabs'[d].base = tabs[d].base
          \/ tabs'[d].base \in {Empty, Base(d)}
    BY <2>1, <1>k DEF TabState
  <2>4. QED
    BY <2>2, <2>3, <1>a, UnsavedKept
<1>3. ASSUME NEW d \in Doc, OpenRestored(d) \/ OpenPath(d) PROVE OwedIsUnsaved'
  <2>1. NoMoreOwed /\ UNCHANGED <<disk, reading>>
    BY <1>3, OwedForgiven DEF OpenRestored, OpenPath
  <2>2. tabs' = tabs \/ tabs' = Put(tabs, d, Clean(d))
    BY <1>3 DEF OpenRestored, OpenPath
  <2>3. \A x \in DOMAIN tabs' :
          \/ x \in DOMAIN tabs /\ tabs'[x].base = tabs[x].base
          \/ tabs'[x].base = Base(x)
    BY <2>2 DEF Put, Clean
  <2>4. QED
    BY <2>1, <2>3, <1>a, UnsavedKept
<1>4. ASSUME NEW d \in Doc, RecoverEntry(d) PROVE OwedIsUnsaved'
  <2>1. NoMoreOwed /\ UNCHANGED disk /\ reading = None /\ None \notin Doc
    BY <1>4, OwedForgiven, DocAssumption DEF RecoverEntry
  <2>2. CASE d \in DOMAIN tabs
    <3>1. tabs' = [tabs EXCEPT ![d].text = entries[d], ![d].dirty = TRUE]
          /\ UNCHANGED reading
      BY <2>2, <1>4 DEF RecoverEntry
    <3>2. \A x \in DOMAIN tabs' : x \in DOMAIN tabs /\ tabs'[x].base = tabs[x].base
      BY <3>1, <1>k DEF TabState
    <3>3. QED
      BY <3>1, <3>2, <2>1, <1>a, UnsavedKept
  <2>3. CASE d \notin DOMAIN tabs
    <3>1. \A x \in DOMAIN tabs' : x # reading' =>
            \/ x \in DOMAIN tabs /\ tabs'[x].base = tabs[x].base
            \/ tabs'[x].base = Empty
      BY <2>3, <1>4 DEF RecoverEntry, Put
    <3>2. QED
      BY <3>1, <2>1, <1>a, <1>k, UnsavedKept
  <2>4. QED
    BY <2>2, <2>3
<1>5. ASSUME NEW d \in Doc, Type(d) \/ Undo(d) PROVE OwedIsUnsaved'
  <2>1. NoMoreOwed /\ UNCHANGED <<disk, reading>>
    BY <1>5, OwedForgiven DEF Type, Undo
  <2>2. \A x \in DOMAIN tabs' : x \in DOMAIN tabs /\ tabs'[x].base = tabs[x].base
    BY <1>5, <1>k DEF Type, Undo, TabState
  <2>3. QED
    BY <2>1, <2>2, <1>a, UnsavedKept
<1>6. ASSUME NEW d \in Doc, CloseTab(d) PROVE OwedIsUnsaved'
  <2>1. NoMoreOwed /\ d \notin DOMAIN owed' /\ UNCHANGED disk
    BY <1>6, OwedForgiven DEF CloseTab
  <2>2. \A x \in DOMAIN tabs' :
          x \in DOMAIN tabs /\ x # d /\ tabs'[x].base = tabs[x].base
    BY <1>6 DEF CloseTab, Drop
  <2>3. \A x : x # d /\ x # reading' /\ x # None => x # reading
    BY <1>6 DEF CloseTab, Ends
  <2>4. QED
    BY <2>1, <2>2, <2>3, <1>a, <1>k, UnsavedKept, DocAssumption
<1>7. ASSUME NEW d \in Note, Reload(d) PROVE OwedIsUnsaved'
  <2>1. NoMoreOwed /\ UNCHANGED <<disk, reading>>
    BY <1>7, OwedForgiven DEF Reload
  <2>2. \A x \in DOMAIN tabs' :
          \/ x \in DOMAIN tabs /\ tabs'[x].base = tabs[x].base
          \/ tabs'[x].base = Base(x)
    BY <1>7, <1>k DEF Reload, Clean
  <2>3. QED
    BY <2>1, <2>2, <1>a, UnsavedKept
<1>8. ASSUME NEW d \in Note, SaveNote(d), d \in DOMAIN tabs, UNCHANGED reading
      PROVE  OwedIsUnsaved'
  <2>1. NoMoreOwed /\ d \notin DOMAIN owed'
    BY <1>8, OwedForgiven DEF SaveNote
  <2>2. \A x \in DOMAIN tabs' :
          x # d => x \in DOMAIN tabs /\ tabs'[x].base = tabs[x].base
    BY <1>8, <1>k DEF SaveNote
  <2>3. \A x : x # d => Base(x)' = Base(x)
    BY <1>8, <1>a DEF SaveNote, Base, Types
  <2>4. QED
    BY <2>1, <2>2, <2>3, <1>a, <1>8 DEF OwedIsUnsaved, NoMoreOwed
<1>9. ASSUME NEW d \in Note, Save(d) \/ BulkSave(d) PROVE OwedIsUnsaved'
  <2>1. UNCHANGED reading /\ NoMoreOwed
        /\ ((SaveNote(d) /\ d \in DOMAIN tabs) \/ UNCHANGED <<disk, tabs>>)
    BY <1>9, OwedForgiven DEF Save, BulkSave, SaveNote, Dirty
  <2>2. QED
    BY <2>1, <1>8, <1>a, UnsavedKept
<1>10. ASSUME NEW d \in Note, Outside(d) PROVE OwedIsUnsaved'
  <2>1. UNCHANGED <<tabs, owed, reading>>
    BY <1>10 DEF Outside
  <2>2. \A x : Base(x)' = IF x = d THEN last + 1 ELSE Base(x)
    BY <1>10, <1>a DEF Outside, Base, Types
  <2>3. \A x \in DOMAIN owed : owed[x] # last + 1
    BY <1>a, <1>k DEF NoneIsNewer, Text, Types
  <2>4. QED
    BY <2>1, <2>2, <2>3, <1>a DEF OwedIsUnsaved
<1>11. CASE Stop
  <2>1. DOMAIN tabs' = {} /\ UNCHANGED disk
    BY <1>11, NothingType DEF Stop, Crash, Destroy, Relaunch, Stopped
  <2>2. \A d \in DOMAIN owed' : owed'[d] # Empty /\ owed'[d] # Base(d)
    BY <1>11, <1>a DEF Stop, Crash, Destroy, Relaunch, OwedIsUnsaved
  <2>3. QED
    BY <2>1, <2>2 DEF OwedIsUnsaved, Base
<1>12. CASE Recovered \/ LoadRecovery \/ Launch \/ SessionRestored \/ TimerFires
            \/ Settings \/ Keep \/ Discard \/ RequestClose
            \/ RestartForUpdate \/ RelaunchFails \/ Backend
  <2>1. UNCHANGED <<disk, tabs, reading>> /\ NoMoreOwed
    <3>1. UNCHANGED <<disk, tabs, reading>>
      BY <1>12 DEF Recovered, LoadRecovery, Launch, SessionRestored, TimerFires,
         Settings, SessionTimerFires,
         WriteSession, WriteSessionFails, Keep, Discard, RequestClose, RestartForUpdate,
         RelaunchFails, Backend, WriteJournal, WriteJournalFails
    <3>2. CASE Crash
      <4>1. phase' = "off" /\ stops' = stops + 1
        BY <3>2 DEF Crash, Stopped
      <4>2. phase' # "off" \/ stops' = stops
        BY <1>12, <1>a DEF Recovered, LoadRecovery, Launch, SessionRestored,
           TimerFires, Settings, SessionTimerFires,
         WriteSession, WriteSessionFails, Keep, Discard, RequestClose,
           RestartForUpdate, RelaunchFails, Backend, WriteJournal,
           WriteJournalFails
      <4>3. QED
        BY <4>1, <4>2, <1>a DEF Types
    <3>3. QED
      BY <3>1, <3>2, NextForgiven
  <2>2. QED
    BY <2>1, <1>a, UnsavedKept
<1>13. CASE UNCHANGED vars
  BY <1>13, <1>a, UnsavedKept, OwedForgiven DEF vars
<1>14. QED
  BY <1>2, <1>3, <1>4, <1>5, <1>6, <1>7, <1>9, <1>10, <1>11, <1>12, <1>13
     DEF Next, Start, User

(* A step that changes no tab of a note that is still owed.                *)
LEMMA ShownKept ==
  ASSUME OwedIsShown, NoMoreOwed, UNCHANGED <<phase, todo, entries>>,
         \A d \in DOMAIN owed' : d \in Dirty =>
           d \in Dirty' /\ tabs'[d].text = tabs[d].text
  PROVE  OwedIsShown'
  BY DEF OwedIsShown, NoMoreOwed

(* Every step keeps what is owed on its tab.                               *)
LEMMA NextShown ==
  TypeInv /\ OwedInv /\ [Next]_vars => OwedIsShown'
<1> SUFFICES ASSUME TypeInv, OwedInv, [Next]_vars PROVE OwedIsShown'
  OBVIOUS
<1> USE DEF files, settings, start, timers, history
<1>a. Types /\ Phases /\ OwedIsStored /\ OwedIsUnsaved /\ OwedIsShown
  BY DEF TypeInv, OwedInv
<1>k. tabs \in [DOMAIN tabs -> TabState]
  BY <1>a, Known
<1>1. ASSUME UNCHANGED <<phase, todo, entries, tabs>>, NoMoreOwed PROVE OwedIsShown'
  BY <1>1, <1>a, ShownKept DEF Dirty
<1>2. CASE Launch \/ SessionRestored
  BY <1>2 DEF Launch, SessionRestored, OwedIsShown
<1>3. CASE LoadRecovery
  <2>1. CASE entries' = journal /\ UNCHANGED owed
    BY <2>1, <1>3, <1>a DEF LoadRecovery, OwedIsStored, OwedIsShown
  <2>2. CASE Waive(TRUE)
    BY <2>2, OwedForgiven DEF OwedIsShown
  <2>3. QED
    BY <2>1, <2>2, <1>3 DEF LoadRecovery
<1>4. CASE ReadBase \/ ReadBaseFails
  <2>1. NoMoreOwed /\ UNCHANGED <<phase, todo, entries>>
    BY <1>4, OwedForgiven DEF ReadBase, ReadBaseFails
  <2>2. \A d \in Dirty : d \in Dirty' /\ tabs'[d].text = tabs[d].text
    BY <1>4, <1>k DEF ReadBase, ReadBaseFails, Dirty, TabState
  <2>3. QED
    BY <2>1, <2>2, <1>a, ShownKept
<1>5. CASE Recovered
  BY <1>5, <1>a DEF Recovered, OwedIsShown, Dirty
<1>6. ASSUME NEW d \in Doc, OpenRestored(d) PROVE OwedIsShown'
  BY <1>6 DEF OpenRestored, OwedIsShown
<1>7. ASSUME NEW d \in Doc, OpenPath(d) PROVE OwedIsShown'
  <2>1. NoMoreOwed /\ UNCHANGED <<phase, todo, entries>>
    BY <1>7, OwedForgiven DEF OpenPath
  <2>2. \A x \in Dirty : x \in Dirty' /\ tabs'[x].text = tabs[x].text
    BY <1>7 DEF OpenPath, Put, Dirty
  <2>3. QED
    BY <2>1, <2>2, <1>a, ShownKept
<1>8. ASSUME NEW d \in Doc, RecoverEntry(d) PROVE OwedIsShown'
  <2>1. owed' = owed /\ todo' = todo \ {d} /\ UNCHANGED <<phase, entries>>
        /\ phase = "recovering" /\ d \in todo
    BY <1>8 DEF RecoverEntry
  <2>2. \A x \in Dirty \ {d} : x \in Dirty' /\ tabs'[x].text = tabs[x].text
    BY <1>8, <1>k DEF RecoverEntry, Put, Dirty
  <2>3. d \in Dirty' /\ tabs'[d].text = entries[d]
    <3>1. CASE d \in DOMAIN tabs
      <4>1. tabs' = [tabs EXCEPT ![d].text = entries[d], ![d].dirty = TRUE]
        BY <3>1, <1>8 DEF RecoverEntry
      <4>2. QED
        BY <3>1, <4>1, <1>k DEF Dirty, TabState
    <3>2. CASE d \notin DOMAIN tabs
      BY <3>2, <1>8 DEF RecoverEntry, Put, Dirty
    <3>3. QED
      BY <3>1, <3>2
  <2>4. QED
    BY <2>1, <2>2, <2>3, <1>a DEF OwedIsShown
<1>9. ASSUME NEW d \in Doc, Type(d) \/ Undo(d) \/ CloseTab(d) PROVE OwedIsShown'
  <2>1. NoMoreOwed /\ d \notin DOMAIN owed' /\ UNCHANGED <<phase, todo, entries>>
    BY <1>9, OwedForgiven DEF Type, Undo, CloseTab
  <2>2. \A x \in Dirty \ {d} : x \in Dirty' /\ tabs'[x].text = tabs[x].text
    BY <1>9, <1>k DEF Type, Undo, CloseTab, Drop, Dirty
  <2>3. QED
    BY <2>1, <2>2, <1>a, ShownKept
<1>10. ASSUME NEW d \in Note, Reload(d) PROVE OwedIsShown'
  <2>1. NoMoreOwed /\ (d = reading => d \notin DOMAIN owed')
        /\ UNCHANGED <<phase, todo, entries>>
    BY <1>10, OwedForgiven DEF Reload
  <2>2. \A x \in Dirty \ {d} : x \in Dirty' /\ tabs'[x].text = tabs[x].text
    BY <1>10, <1>k DEF Reload, Dirty
  <2>3. ASSUME d \in DOMAIN owed', d \in Dirty PROVE tabs[d].text # owed[d]
    BY <2>1, <2>3, <1>10, <1>a DEF Reload, OwedIsUnsaved, NoMoreOwed, Dirty
  <2>4. QED
    BY <2>1, <2>2, <2>3, <1>a DEF OwedIsShown, NoMoreOwed
<1>11. ASSUME NEW d \in Note, Save(d) \/ BulkSave(d) PROVE OwedIsShown'
  <2>1. UNCHANGED <<phase, todo, entries>>
        /\ (SaveNote(d) \/ UNCHANGED <<tabs, owed>>)
    BY <1>11 DEF Save, BulkSave
  <2>2. CASE SaveNote(d)
    <3>1. NoMoreOwed /\ d \notin DOMAIN owed'
      BY <2>2, OwedForgiven DEF SaveNote
    <3>2. \A x \in Dirty \ {d} : x \in Dirty' /\ tabs'[x].text = tabs[x].text
      BY <2>2, <1>k DEF SaveNote, Dirty
    <3>3. QED
      BY <3>1, <3>2, <2>1, <1>a, ShownKept
  <2>3. QED
    BY <2>1, <2>2, <1>1, OwedForgiven
<1>12. CASE Stop
  BY <1>12 DEF Stop, Crash, Destroy, Relaunch, Stopped, OwedIsShown
<1>13. CASE (\E d \in Note : Outside(d)) \/ Settings \/ Keep
            \/ RelaunchFails \/ Backend
  BY <1>13, <1>1, OwedForgiven
     DEF Outside, Settings, SessionTimerFires,
         WriteSession, WriteSessionFails, Keep, RelaunchFails, Backend, WriteJournal,
         WriteJournalFails
<1>14. CASE TimerFires \/ RestartForUpdate
  BY <1>14, <1>1, OwedForgiven DEF TimerFires, RestartForUpdate
<1>15. CASE RequestClose \/ Discard
  <2>1. UNCHANGED <<phase, todo, entries, tabs>>
    BY <1>15 DEF RequestClose, Discard
  <2>2. NoMoreOwed
    BY <1>15, OwedForgiven, NothingType DEF RequestClose, Discard, NoMoreOwed
  <2>3. QED
    BY <2>1, <2>2, <1>1
<1>16. CASE UNCHANGED vars
  BY <1>1, <1>16, OwedForgiven DEF vars
<1>17. QED
  BY <1>2, <1>3, <1>4, <1>5, <1>6, <1>7, <1>8, <1>9, <1>10, <1>11, <1>12,
     <1>13, <1>14, <1>15, <1>16 DEF Next, Start, User

(* What a crash left in the journal stays there and comes back as a dirty  *)
(* tab: neither the session's tabs, opened before it is recovered, nor a   *)
(* check, a save or a flush of other notes, nor the next crash takes it    *)
(* out of the journal or the tab.                                          *)
THEOREM RecoveredTextsAreKept == Spec => []RecoveryKept
<1>1. Init => OwedInv
  <2> SUFFICES ASSUME Init PROVE OwedInv
    OBVIOUS
  <2>1. /\ DOMAIN owed = {} /\ DOMAIN journal = {} /\ DOMAIN tabs = {}
        /\ DOMAIN entries = {} /\ Len(queue) = 0
    BY NothingType, EmptySeq DEF Init
  <2>2. \A d \in Doc : Base(d) <= last
    BY DEF Init, Base, First, Empty
  <2>3. QED
    BY <2>1, <2>2 DEF OwedInv, OwedIsStored, NoneIsNewer, OwedIsUnsaved, OwedIsShown
<1>2. TypeInv /\ OwedInv /\ [Next]_vars => OwedInv'
  BY NextStored, NextNewer, NextUnsaved, NextShown DEF OwedInv
<1>3. OwedInv => RecoveryKept
  BY DEF OwedInv, OwedIsStored, OwedIsShown, RecoveryKept
<1>4. QED
  BY <1>1, <1>2, <1>3, TypeInvariant, PTL DEF Spec
=============================================================================
