-------------------------- MODULE Reconcile_proofs ---------------------------
(***************************************************************************)
(* What holds of Reconcile whatever the regions, values, handlers, faults  *)
(* and bounds are.                                                         *)
(*                                                                         *)
(* The argument: every handler in flight carries well-formed locals (Good) *)
(* and an answer that is the merge of what it read with what it sent; this *)
(* gives TypeInv, from which the safety invariants follow one action at a  *)
(* time.                                                                   *)
(***************************************************************************)
EXTENDS Reconcile, TLAPS

-----------------------------------------------------------------------------
(* The policy operators map texts to texts.                                *)

(* Serialising gives a text.                                               *)
LEMMA CanonType ==
  \A t \in Text : /\ Canon(t) \in EditorText
                  /\ Canon(t) \in Text
                  /\ Canon(Canon(t)) = Canon(t)
  BY RegionAssumption, ValAssumption DEF Canon, EditorText, Text

(* What the editor holds is a text.                                        *)
LEMMA EditorTextType ==
  \A t \in EditorText : t \in Text /\ Canon(t) = t
  BY RegionAssumption, ValAssumption DEF Canon, EditorText, Text

(* A merge gives a text.                                                   *)
LEMMA CombineType ==
  ASSUME NEW b \in Text, NEW m \in Text, NEW t \in Text
  PROVE  Combine(b, m, t) \in Text
<1>1. Combine(b, m, t) \in [Region -> Val]
  BY DEF Combine, Text
<1>2. Combine(b, m, t)[Form] \in Spelling
  BY RegionAssumption DEF Combine, Text
<1>3. QED
  BY <1>1, <1>2 DEF Text

(* A merge reports what it found, or that it found nothing; its bytes are  *)
(* there when the outcome says so.                                         *)
LEMMA MergeType ==
  ASSUME NEW found \in Text \cup {NoText}, NEW b \in Text, NEW m \in Text
  PROVE  LET r == MergeExternal(found, b, m) IN
         /\ r \in Report
         /\ r.outcome \notin {"unchanged", "missing"} => r.theirs \in Text
         /\ r.outcome = "merged" => r.content = Combine(b, m, found)
         /\ r.outcome = "merged" => r.content \in Text
         /\ r.outcome = "theirsOnly" => m = b
  BY CombineType, NoTextAssumption DEF MergeExternal, Report, Outcomes

(* A decision gives a reason that exists.                                  *)
LEMMA DecideType ==
  ASSUME NEW v \in Report, NEW d,
         v.outcome # "missing",
         v.outcome # "unchanged" => v.theirs \in Text
  PROVE  LET a == DecideAction(v, Format, d) IN
         /\ a.kind \in {"none", "reload", "applyMerge", "conflict"}
         /\ a.kind \in {"reload", "applyMerge"} =>
              a.text \in Text /\ a.theirs \in Text
         /\ a.kind = "conflict" => a.theirs \in Text
         /\ a.kind \in {"conflict", "applyMerge"} => d
         /\ a.kind = "reload" => a.text = a.theirs
         /\ a.kind = "applyMerge" => v.outcome = "merged" /\ a.text = v.content
         /\ a.kind = "reload" /\ d => v.outcome = "theirsOnly"
  BY NoTextAssumption
     DEF DecideAction, None, Reload, Merge, Conflict, Report

-----------------------------------------------------------------------------
(* The locals of a handler, by the state it is in.                         *)
Good(o) ==
  /\ o \in Op
  /\ o.pc \in {"reading", "read", "failed"} =>
       o.base \in Text /\ o.mine \in Text
  /\ o.pc = "read" => o.report = MergeExternal(o.read, o.base, o.mine)
  /\ o.pc \in {"writing", "written"} => o.text \in Text
  /\ o.pc \in {"parking", "parked"} => o.read \in Text /\ o.text \in Text

TypeInv == TypeOK /\ \A p \in Proc : Good(op[p])

(* A free handler is in order.                                             *)
LEMMA IdleGood == Good(Idle)
  BY DEF Good, Idle, Op, PCs, Report, Outcomes, NoReport

(* What a check sends is a text.                                           *)
LEMMA MineType == TypeOK => Mine \in Text
  BY EditorTextType DEF Mine, SelectMine, TypeOK

(* A check just sent is in order.                                          *)
LEMMA ReadingGood ==
  ASSUME TypeOK, NEW k \in AllKinds
  PROVE  Good(Reading(k))
<1>1. Idle \in Op /\ Mine \in Text /\ base \in Text /\ epoch \in Nat
  BY IdleGood, MineType DEF Good, TypeOK
<1>2. Reading(k) = [Idle EXCEPT !.pc = "reading", !.kind = k, !.epoch = epoch,
                                !.base = base, !.mine = Mine]
  BY DEF Reading, Mine
<1>3. Reading(k) \in Op
  BY <1>1, <1>2 DEF Op, PCs
<1>4. /\ Reading(k).pc = "reading"
      /\ Reading(k).base \in Text /\ Reading(k).mine \in Text
  BY <1>1, <1>2 DEF Op
<1>5. QED
  BY <1>3, <1>4 DEF Good

(* A handler moved on is a handler.                                        *)
LEMMA AfterOp ==
  ASSUME NEW o \in Op, NEW s \in PCs, NEW k \in {"save", "saveTab", "auto"}
  PROVE  After(o, s, k) \in Op /\ After(o, s, k).pc = s
<1>1. Idle \in Op
  BY IdleGood DEF Good
<1>2. QED
  BY <1>1, ZenonT(60) DEF Op, AllKinds, After

(* A handler moved on is in order.                                         *)
LEMMA AfterGood ==
  ASSUME NEW o \in Op, NEW s \in {"checked", "selected"}
  PROVE  Good(After(o, s, "auto"))
<1>1. s \in PCs
  BY DEF PCs
<1>2. QED
  BY <1>1, AfterOp DEF Good

(* A handler about to write has a text.                                    *)
LEMMA WritingGood ==
  ASSUME NEW o \in Op, NEW t \in Text, NEW k \in {"save", "saveTab", "auto"}
  PROVE  Good(Writing(o, k, t))
<1>1. /\ After(o, "writing", k) \in Op
      /\ After(o, "writing", k).pc = "writing"
  BY AfterOp DEF PCs
<1>2. /\ Writing(o, k, t) \in Op
      /\ Writing(o, k, t).pc = "writing" /\ Writing(o, k, t).text = t
  BY <1>1 DEF Writing, Op
<1>3. QED
  BY <1>2 DEF Good

(* A handler about to park has the text of the losing side.                *)
LEMMA ParkingGood ==
  ASSUME NEW u \in Text, NEW t \in Text, NEW k \in {"keep", "theirs"}
  PROVE  Good(Parking(k, u, t))
<1>1. Idle \in Op
  BY IdleGood DEF Good
<1>2. /\ Parking(k, u, t) \in Op
      /\ Parking(k, u, t).pc = "parking"
      /\ Parking(k, u, t).read = u /\ Parking(k, u, t).text = t
  BY <1>1 DEF Parking, Op, PCs, AllKinds
<1>3. QED
  BY <1>2 DEF Good

(* A handler that moves on leaves the others alone.                        *)
LEMMA HandlerMoves ==
  ASSUME TypeInv, NEW p \in Proc, NEW o, Good(o), op' = [op EXCEPT ![p] = o]
  PROVE  op' \in [Proc -> Op] /\ \A q \in Proc : Good(op'[q])
  BY DEF TypeInv, TypeOK, Good

(* A handler that goes on with what its check was for stays in order.      *)
LEMMA ReturnGood ==
  ASSUME TypeInv, NEW p \in Proc, NEW b \in BOOLEAN, Return(p, b),
         editor' \in Text, content' \in Text
  PROVE  op' \in [Proc -> Op] /\ \A q \in Proc : Good(op'[q])
<1> DEFINE o == [op[p] EXCEPT !.applied = b]
           n == CASE o.kind = "watch" -> Idle
                  [] o.kind = "save"  -> ThenSave(o)
                  [] OTHER            -> After(o, "checked", "auto")
<1>1. o \in Op
  BY ZenonT(60) DEF TypeInv, TypeOK, Op
<1>2. Good(ThenSave(o))
  <2>1. /\ Good(Writing(o, "save", editor'))
        /\ Good(Writing(o, "saveTab", content'))
    BY <1>1, WritingGood
  <2>2. QED
    BY <2>1, IdleGood DEF ThenSave
<1>3. Good(n)
  BY <1>1, <1>2, IdleGood, AfterGood
<1>4. op' = [op EXCEPT ![p] = n]
  BY DEF Return
<1>5. QED
  BY <1>3, <1>4, HandlerMoves

(* An answer taken leaves a queue of handlers.                             *)
LEMMA ReceiveType ==
  ASSUME TypeOK, NEW p \in Proc, Receive(p)
  PROVE  answers' \in Seq(Proc) /\ crossed' \in BOOLEAN
<1>1. PICK i \in DOMAIN answers : /\ answers' = RemoveAt(answers, i)
                                  /\ crossed' = (crossed \/ i # 1)
  BY DEF Receive
<1>2. answers \in Seq(Proc) /\ i \in 1..Len(answers) /\ crossed \in BOOLEAN
  BY DEF TypeOK
<1>3. answers' \in Seq(Proc)
  BY <1>1, <1>2 DEF RemoveAt
<1>4. crossed' \in BOOLEAN
  BY <1>1, <1>2
<1>5. QED
  BY <1>3, <1>4

(* An event sent leaves a queue of events.                                 *)
LEMMA EmitType ==
  ASSUME TypeOK, NEW k \in {"change", "remove"}, Emit(k)
  PROVE  events' \in Seq({"change", "remove"})
  BY DEF TypeOK, Emit

(* A step that starts no handler and moves none.                           *)
LEMMA HandlersStay ==
  ASSUME TypeInv, UNCHANGED op
  PROVE  op' \in [Proc -> Op] /\ \A q \in Proc : Good(op'[q])
  BY DEF TypeInv, TypeOK

(* What was shown is regions and values.                                   *)
LEMMA ShowType ==
  ASSUME TypeOK, NEW t \in Text, Show(t)
  PROVE  /\ editor' \in EditorText /\ notify' \in BOOLEAN
         /\ echo' \in EditorText \cup {NoText}
         /\ shown' \subseteq Region \X Val
<1>1. Cells(t) \subseteq Region \X Val
  BY DEF Cells, Text
<1>2. Canon(t) \in EditorText
  BY CanonType
<1>3. QED
  BY <1>1, <1>2 DEF Show, LoadIntoEditor, editVars, TypeOK

(* The bytes in an answer, and in the verdict drawn from it.               *)
LEMMA VerdictType ==
  ASSUME TypeInv, NEW p \in Proc, Busy(p, "read"),
         op[p].report.outcome # "missing"
  PROVE  LET v == Verdict(p) IN
         /\ v \in Report /\ v.outcome # "missing"
         /\ v.outcome # "unchanged" => v.theirs \in Text
         /\ v.outcome \in {"theirsOnly", "merged"} =>
              v = op[p].report /\ ~Raced(p)
<1> DEFINE r == op[p].report
<1>1. /\ op[p] \in Op /\ op[p].base \in Text /\ op[p].mine \in Text
      /\ r = MergeExternal(op[p].read, op[p].base, op[p].mine)
  BY DEF TypeInv, Good, Busy
<1>2. op[p].read \in Text \cup {NoText}
  BY <1>1 DEF Op
<1>3. /\ r \in Report
      /\ r.outcome \notin {"unchanged", "missing"} => r.theirs \in Text
  BY <1>1, <1>2, MergeType
<1>4. CASE Raced(p)
  <2>1. r.theirs \in Text
    BY <1>3, <1>4 DEF Raced, ReplacesBuffer
  <2>2. QED
    BY <1>4, <2>1 DEF Verdict, Report, Outcomes
<1>5. CASE ~Raced(p)
  BY <1>3, <1>5 DEF Verdict
<1>6. QED
  BY <1>4, <1>5

(* A verdict applied leaves texts in the tab.                              *)
LEMMA TakeVerdictType ==
  ASSUME TypeInv, NEW p \in Proc, TakeVerdict(p)
  PROVE  TypeInv'
<1> DEFINE a == DecideAction(Verdict(p), Format, dirty)
<1>1. /\ a.kind \in {"none", "reload", "applyMerge", "conflict"}
      /\ a.kind \in {"reload", "applyMerge"} =>
           a.text \in Text /\ a.theirs \in Text
      /\ a.kind = "conflict" => a.theirs \in Text
  BY VerdictType, DecideType DEF TakeVerdict
<1>2. /\ editor' \in EditorText /\ notify' \in BOOLEAN
      /\ echo' \in EditorText \cup {NoText}
      /\ content' \in Text /\ base' \in Text /\ dirty' \in BOOLEAN
      /\ diverged' \in {Undiverged, Unreadable} \cup {Diverged(t) : t \in Text}
      /\ shown' \subseteq Region \X Val
  <2>1. CASE a.kind \in {"none", "conflict"}
    BY <1>1, <2>1 DEF TakeVerdict, TypeInv, TypeOK, editVars
  <2>2. CASE a.kind \in {"reload", "applyMerge"}
    <3>1. Show(a.text) /\ content' = a.text /\ base' = a.theirs
      BY <2>2 DEF TakeVerdict
    <3>2. dirty' \in BOOLEAN /\ diverged' = Undiverged
      BY <2>2 DEF TakeVerdict
    <3>3. QED
      BY <1>1, <2>2, <3>1, <3>2, ShowType DEF TypeInv
  <2>3. QED
    BY <1>1, <2>1, <2>2
<1>3. op' \in [Proc -> Op] /\ \A q \in Proc : Good(op'[q])
  <2>1. Return(p, TRUE)
    BY DEF TakeVerdict
  <2>2. QED
    BY <1>2, <2>1, ReturnGood, EditorTextType
<1>4. answers' \in Seq(Proc) /\ crossed' \in BOOLEAN
  BY ReceiveType DEF TakeVerdict, TypeInv
<1>5. QED
  BY <1>2, <1>3, <1>4 DEF TakeVerdict, TypeInv, TypeOK, diskVars, bounds

(* What the other actions do to the variables' types.                      *)
LEMMA InitType == Init => TypeInv
<1> SUFFICES ASSUME Init PROVE TypeInv
  OBVIOUS
<1>1. disk \in Text /\ Canon(disk) \in EditorText /\ Canon(disk) \in Text
  BY CanonType DEF Init, InitialText
<1>2. shown \subseteq Region \X Val
  BY <1>1 DEF Init, Cells, Text
<1>3. op \in [Proc -> Op] /\ \A q \in Proc : Good(op[q])
  BY IdleGood DEF Init, Good
<1>4. events \in Seq({"change", "remove"}) /\ answers \in Seq(Proc)
  BY DEF Init
<1>5. /\ diverged \in {Undiverged, Unreadable} \cup {Diverged(t) : t \in Text}
      /\ past \subseteq Pasts /\ parked \subseteq Text
  BY DEF Init
<1>6. QED
  BY <1>1, <1>2, <1>3, <1>4, <1>5 DEF Init, TypeInv, TypeOK

(* Every step keeps the types.                                             *)
LEMMA NextType == TypeInv /\ [Next]_vars => TypeInv'
<1> SUFFICES ASSUME TypeInv, [Next]_vars PROVE TypeInv'
  OBVIOUS
<1> USE DEF diskVars, editVars, tabVars, bounds, history, answered
<1>1. CASE ExternalWrite
  BY <1>1, HandlersStay, EmitType DEF ExternalWrite, TypeInv, TypeOK
<1>2. CASE ExternalRemove
  BY <1>2, HandlersStay, EmitType DEF ExternalRemove, TypeInv, TypeOK
<1>3. CASE HandleChange
  BY <1>3, HandlersStay DEF HandleChange, TypeInv, TypeOK
<1>4. CASE HandleRemove
  <2>1. events' \in Seq({"change", "remove"})
    BY <1>4 DEF HandleRemove, TypeInv, TypeOK
  <2>2. diverged' \in {Undiverged, Unreadable} \cup {Diverged(t) : t \in Text}
    BY <1>4 DEF HandleRemove, MarkRemovedOnDisk, TypeInv, TypeOK
  <2>3. /\ past' \subseteq Pasts
        /\ removedOnDisk' \in BOOLEAN /\ dirty' \in BOOLEAN
    BY <1>4 DEF HandleRemove, MarkRemovedOnDisk, Pasts, TypeInv, TypeOK
  <2>4. QED
    <3>1. timer' = FALSE /\ epoch' = epoch + 1
      BY <1>4 DEF HandleRemove
    <3>2. /\ UNCHANGED <<disk, active, editor, echo, notify, content, base>>
          /\ UNCHANGED <<parked, op, answers, crossed>>
          /\ UNCHANGED <<edits, saves, externals, shown, fresh>>
      BY <1>4 DEF HandleRemove
    <3>3. op' \in [Proc -> Op] /\ \A q \in Proc : Good(op'[q])
      BY <3>2, HandlersStay
    <3>4. epoch' \in Nat
      <4>1. epoch \in Nat
        BY DEF TypeInv, TypeOK
      <4>2. QED
        BY <3>1, <4>1
    <3>5. TypeOK'
      BY <2>1, <2>2, <2>3, <3>1, <3>2, <3>3, <3>4 DEF TypeInv, TypeOK
    <3>6. QED
      BY <3>3, <3>5 DEF TypeInv
<1>5. CASE LoseEvent
  BY <1>5, HandlersStay DEF LoseEvent, TypeInv, TypeOK
<1>6. CASE Type
  <2>1. PICK r \in Region \ {Form}, v \in Val :
          /\ editor' = [editor EXCEPT ![r] = v]
          /\ shown' = shown \cup {<<r, v>>}
    BY <1>6 DEF Type
  <2>2. editor' \in EditorText
    <3>1. editor \in [Region -> Val] /\ editor[Form] = Canonical
      BY DEF TypeInv, TypeOK, EditorText, Text
    <3>2. editor' \in [Region -> Val] /\ editor'[Form] = Canonical
      BY <2>1, <3>1
    <3>3. QED
      BY <3>2, ValAssumption DEF EditorText, Text
  <2>3. shown' \subseteq Region \X Val
    BY <2>1 DEF TypeInv, TypeOK
  <2>4. QED
    BY <1>6, <2>2, <2>3, HandlersStay DEF Type, TypeInv, TypeOK
<1>7. CASE Notify
  BY <1>7, HandlersStay DEF Notify, Pasts, TypeInv, TypeOK, BlocksWrite
<1>8. CASE SwitchAway
  BY <1>8, HandlersStay, EditorTextType
     DEF SwitchAway, Pasts, TypeInv, TypeOK
<1>9. CASE SwitchBack
  BY <1>9, HandlersStay, CanonType
     DEF SwitchBack, LoadIntoEditor, TypeInv, TypeOK
<1>10. CASE CaptureActiveBuffer
  <2>1. editor \in Text
    BY DEF TypeInv, TypeOK, EditorText
  <2>2. QED
    BY <1>10, <2>1, HandlersStay DEF CaptureActiveBuffer, TypeInv, TypeOK
<1>11. ASSUME NEW p \in Proc, TimerFires(p)
       PROVE  TypeInv'
  <2>1. op' \in [Proc -> Op] /\ \A q \in Proc : Good(op'[q])
    <3>1. Good(Reading("watch")) /\ op' = [op EXCEPT ![p] = Reading("watch")]
      BY <1>11, ReadingGood, KindsAssumption DEF TimerFires, Start, TypeInv
    <3>2. QED
      BY <3>1, HandlerMoves
  <2>2. QED
    BY <1>11, <2>1, EditorTextType DEF TimerFires, TypeInv, TypeOK
<1>12. ASSUME NEW p \in Proc, StartSave(p)
       PROVE  TypeInv'
  <2>1. op' \in [Proc -> Op] /\ \A q \in Proc : Good(op'[q])
    <3>1. Good(Reading("save")) /\ op' = [op EXCEPT ![p] = Reading("save")]
      BY <1>12, ReadingGood, KindsAssumption DEF StartSave, Start, TypeInv
    <3>2. QED
      BY <3>1, HandlerMoves
  <2>2. QED
    BY <1>12, <2>1, EditorTextType DEF StartSave, TypeInv, TypeOK
<1>13. ASSUME NEW p \in Proc, StartAuto(p)
       PROVE  TypeInv'
  <2>1. op' \in [Proc -> Op] /\ \A q \in Proc : Good(op'[q])
    <3>1. Good(Reading("auto")) /\ op' = [op EXCEPT ![p] = Reading("auto")]
      BY <1>13, ReadingGood, KindsAssumption DEF StartAuto, Start, TypeInv
    <3>2. QED
      BY <3>1, HandlerMoves
  <2>2. QED
    BY <1>13, <2>1, EditorTextType DEF StartAuto, TypeInv, TypeOK
<1>14. ASSUME NEW p \in Proc, ReadDisk(p)
       PROVE  TypeInv'
  <2>1. op' \in [Proc -> Op] /\ \A q \in Proc : Good(op'[q])
    <3> DEFINE o == [op[p] EXCEPT !.pc = "read", !.read = disk,
                   !.report = MergeExternal(disk, op[p].base, op[p].mine)]
    <3>1. Good(o)
      <4>1. op[p] \in Op /\ op[p].base \in Text /\ op[p].mine \in Text
        BY <1>14 DEF ReadDisk, Busy, Good, TypeInv
      <4>2. disk \in Text \cup {NoText}
        BY DEF TypeInv, TypeOK
      <4>3. MergeExternal(disk, op[p].base, op[p].mine) \in Report
        BY <4>1, <4>2, MergeType
      <4>4. /\ o \in Op /\ o.pc = "read" /\ o.read = disk
            /\ o.base = op[p].base /\ o.mine = op[p].mine
            /\ o.report = MergeExternal(disk, op[p].base, op[p].mine)
        BY <4>1, <4>2, <4>3 DEF Op, PCs
      <4>5. QED
        BY <4>1, <4>4 DEF Good
    <3>2. op' = [op EXCEPT ![p] = o]
      BY <1>14 DEF ReadDisk, TypeInv, TypeOK
    <3>3. QED
      BY <3>1, <3>2, HandlerMoves
  <2>2. QED
    BY <1>14, <2>1 DEF ReadDisk, Answer, TypeInv, TypeOK
<1>15. ASSUME NEW p \in Proc, ReadFails(p)
       PROVE  TypeInv'
  <2>1. op' \in [Proc -> Op] /\ \A q \in Proc : Good(op'[q])
    <3> DEFINE o == [op[p] EXCEPT !.pc = "failed"]
    <3>1. Good(o)
      BY <1>15 DEF ReadFails, Busy, Good, Op, PCs, TypeInv
    <3>2. op' = [op EXCEPT ![p] = o]
      BY <1>15 DEF ReadFails, TypeInv, TypeOK
    <3>3. QED
      BY <3>1, <3>2, HandlerMoves
  <2>2. QED
    BY <1>15, <2>1, ZenonT(60) DEF ReadFails, TypeInv, TypeOK
<1>16. ASSUME NEW p \in Proc, RetryRead(p)
       PROVE  TypeInv'
  <2>1. op' \in [Proc -> Op] /\ \A q \in Proc : Good(op'[q])
    <3> DEFINE o == [op[p] EXCEPT !.pc = "reading", !.retried = TRUE,
                                !.base = base]
    <3>1. Good(o)
      <4>1. op[p] \in Op /\ op[p].mine \in Text /\ base \in Text
        BY <1>16 DEF RetryRead, Busy, Good, TypeInv, TypeOK
      <4>2. /\ o \in Op /\ o.pc = "reading"
            /\ o.base = base /\ o.mine = op[p].mine
        BY <4>1 DEF Op, PCs
      <4>3. QED
        BY <4>1, <4>2 DEF Good
    <3>2. op' = [op EXCEPT ![p] = o]
      BY <1>16 DEF RetryRead, TypeInv, TypeOK
    <3>3. QED
      BY <3>1, <3>2, HandlerMoves
  <2>2. QED
    BY <1>16, <2>1 DEF RetryRead, TypeInv, TypeOK
<1>17. ASSUME NEW p \in Proc, GiveUp(p)
       PROVE  TypeInv'
  <2>1. op' \in [Proc -> Op] /\ \A q \in Proc : Good(op'[q])
    BY <1>17, ReturnGood, EditorTextType DEF GiveUp, TypeInv, TypeOK
  <2>2. QED
    BY <1>17, <2>1 DEF GiveUp, Pasts, TypeInv, TypeOK
<1>18. ASSUME NEW p \in Proc, DropOutdated(p)
       PROVE  TypeInv'
  <2>1. op' \in [Proc -> Op] /\ \A q \in Proc : Good(op'[q])
    BY <1>18, ReturnGood, EditorTextType DEF DropOutdated, TypeInv, TypeOK
  <2>2. QED
    BY <1>18, <2>1, ReceiveType DEF DropOutdated, TypeInv, TypeOK
<1>19. ASSUME NEW p \in Proc, FoundMissing(p)
       PROVE  TypeInv'
  <2>1. op' \in [Proc -> Op] /\ \A q \in Proc : Good(op'[q])
    BY <1>19, ReturnGood, EditorTextType DEF FoundMissing, TypeInv, TypeOK
  <2>2. QED
    BY <1>19, <2>1, ReceiveType
       DEF FoundMissing, MarkRemovedOnDisk, Pasts, TypeInv, TypeOK
<1>20. ASSUME NEW p \in Proc, AskAgain(p)
       PROVE  TypeInv'
  <2>1. op' \in [Proc -> Op] /\ \A q \in Proc : Good(op'[q])
    <3> DEFINE o == [op[p] EXCEPT !.pc = "reading", !.attempt = 1,
                                !.retried = FALSE, !.base = base,
                                !.mine = Mine]
    <3>1. Good(o)
      BY <1>20, MineType DEF AskAgain, Busy, Good, Op, PCs, TypeInv, TypeOK
    <3>2. op' = [op EXCEPT ![p] = o]
      BY <1>20 DEF AskAgain, TypeInv, TypeOK
    <3>3. QED
      BY <3>1, <3>2, HandlerMoves
  <2>2. QED
    BY <1>20, <2>1, ReceiveType DEF AskAgain, TypeInv, TypeOK
<1>21. ASSUME NEW p \in Proc, TakeVerdict(p)
      PROVE  TypeInv'
  BY <1>21, TakeVerdictType
<1>22. ASSUME NEW p \in Proc, Select(p)
       PROVE  TypeInv'
  <2>1. op' \in [Proc -> Op] /\ \A q \in Proc : Good(op'[q])
    <3> DEFINE o == IF Savable(dirty, diverged, removedOnDisk)
                    THEN After(op[p], "selected", "auto") ELSE Idle
    <3>1. Good(o)
      BY AfterGood, IdleGood DEF TypeInv, TypeOK
    <3>2. op' = [op EXCEPT ![p] = o]
      BY <1>22 DEF Select
    <3>3. QED
      BY <3>1, <3>2, HandlerMoves
  <2>2. QED
    BY <1>22, <2>1, EditorTextType DEF Select, TypeInv, TypeOK
<1>23. ASSUME NEW p \in Proc, SendSelected(p)
       PROVE  TypeInv'
  <2>1. op' \in [Proc -> Op] /\ \A q \in Proc : Good(op'[q])
    <3> DEFINE o == IF BlocksWrite(diverged) THEN Idle
                    ELSE Writing(op[p], "auto", content)
    <3>1. Good(o)
      BY WritingGood, IdleGood DEF TypeInv, TypeOK
    <3>2. op' = [op EXCEPT ![p] = o]
      BY <1>23 DEF SendSelected
    <3>3. QED
      BY <3>1, <3>2, HandlerMoves
  <2>2. QED
    BY <1>23, <2>1 DEF SendSelected, TypeInv, TypeOK
<1>24. ASSUME NEW p \in Proc, WriteDisk(p)
       PROVE  TypeInv'
  <2>1. op' \in [Proc -> Op] /\ \A q \in Proc : Good(op'[q])
    <3> DEFINE o == [op[p] EXCEPT !.pc = "written"]
    <3>1. Good(o)
      BY <1>24 DEF WriteDisk, Busy, Good, Op, PCs, TypeInv
    <3>2. op' = [op EXCEPT ![p] = o]
      BY <1>24 DEF WriteDisk, TypeInv, TypeOK
    <3>3. QED
      BY <3>1, <3>2, HandlerMoves
  <2>2. disk' \in Text
    BY <1>24 DEF WriteDisk, Busy, Good, TypeInv
  <2>3. events' \in Seq({"change", "remove"}) /\ answers' \in Seq(Proc)
    BY <1>24, EmitType DEF WriteDisk, Answer, TypeInv, TypeOK
  <2>4. QED
    BY <1>24, <2>1, <2>2, <2>3 DEF WriteDisk, Answer, TypeInv, TypeOK
<1>25. ASSUME NEW p \in Proc, WriteFails(p)
       PROVE  TypeInv'
  <2>1. op' \in [Proc -> Op] /\ \A q \in Proc : Good(op'[q])
    BY <1>25, IdleGood, HandlerMoves DEF WriteFails
  <2>2. QED
    BY <1>25, <2>1 DEF WriteFails, TypeInv, TypeOK
<1>26. ASSUME NEW p \in Proc, SaveDone(p)
       PROVE  TypeInv'
  <2>1. op' \in [Proc -> Op] /\ \A q \in Proc : Good(op'[q])
    BY <1>26, IdleGood, HandlerMoves DEF SaveDone
  <2>2. QED
    BY <1>26, <2>1, ReceiveType
       DEF SaveDone, Busy, Good, SavedText, Pasts, TypeInv, TypeOK
<1>27. ASSUME NEW p \in Proc, StartResolve(p, "keep")
       PROVE  TypeInv'
  <2>1. op' \in [Proc -> Op] /\ \A q \in Proc : Good(op'[q])
    <3>1. diverged.theirs \in Text
      BY <1>27
         DEF StartResolve, TypeInv, TypeOK, Undiverged, Unreadable, Diverged
    <3>2. Good(Parking("keep", diverged.theirs,
                       IF "keep" = "keep" THEN diverged.theirs ELSE Mine))
      BY <3>1, MineType, ParkingGood DEF TypeInv
    <3>3. QED
      BY <1>27, <3>2, HandlerMoves DEF StartResolve
  <2>2. QED
    BY <1>27, <2>1 DEF StartResolve, TypeInv, TypeOK
<1>28. ASSUME NEW p \in Proc, StartResolve(p, "theirs")
       PROVE  TypeInv'
  <2>1. op' \in [Proc -> Op] /\ \A q \in Proc : Good(op'[q])
    <3>1. diverged.theirs \in Text
      BY <1>28
         DEF StartResolve, TypeInv, TypeOK, Undiverged, Unreadable, Diverged
    <3>2. Good(Parking("theirs", diverged.theirs,
                       IF "theirs" = "keep" THEN diverged.theirs ELSE Mine))
      BY <3>1, MineType, ParkingGood DEF TypeInv
    <3>3. QED
      BY <1>28, <3>2, HandlerMoves DEF StartResolve
  <2>2. QED
    BY <1>28, <2>1 DEF StartResolve, TypeInv, TypeOK
<1>29. ASSUME NEW p \in Proc, Park(p)
       PROVE  TypeInv'
  <2>1. op' \in [Proc -> Op] /\ \A q \in Proc : Good(op'[q])
    <3> DEFINE o == [op[p] EXCEPT !.pc = "parked"]
    <3>1. Good(o)
      BY <1>29 DEF Park, Busy, Good, Op, PCs, TypeInv
    <3>2. op' = [op EXCEPT ![p] = o]
      BY <1>29 DEF Park, TypeInv, TypeOK
    <3>3. QED
      BY <3>1, <3>2, HandlerMoves
  <2>2. parked' \subseteq Text
    BY <1>29 DEF Park, Busy, Good, TypeInv, TypeOK
  <2>3. answers' \in Seq(Proc)
    BY <1>29 DEF Park, Answer, TypeInv, TypeOK
  <2>4. QED
    BY <1>29, <2>1, <2>2, <2>3, ZenonT(60) DEF Park, Answer, TypeInv, TypeOK
<1>30. ASSUME NEW p \in Proc, ParkFails(p)
       PROVE  TypeInv'
  <2>1. op' \in [Proc -> Op] /\ \A q \in Proc : Good(op'[q])
    BY <1>30, IdleGood, HandlerMoves DEF ParkFails
  <2>2. QED
    BY <1>30, <2>1 DEF ParkFails, TypeInv, TypeOK
<1>31. ASSUME NEW p \in Proc, KeepMine(p)
       PROVE  TypeInv'
  <2>1. op' \in [Proc -> Op] /\ \A q \in Proc : Good(op'[q])
    BY <1>31, IdleGood, HandlerMoves DEF KeepMine
  <2>2. QED
    BY <1>31, <2>1, ReceiveType
       DEF KeepMine, Busy, Good, Pasts, TypeInv, TypeOK
<1>32. ASSUME NEW p \in Proc, UseTheirs(p)
       PROVE  TypeInv'
  <2>1. op' \in [Proc -> Op] /\ \A q \in Proc : Good(op'[q])
    BY <1>32, IdleGood, HandlerMoves DEF UseTheirs
  <2>2. QED
    BY <1>32, <2>1, ReceiveType, ShowType
       DEF UseTheirs, Busy, Good, Pasts, TypeInv, TypeOK
<1>33. CASE UNCHANGED vars
  BY <1>33, HandlersStay DEF vars, TypeInv, TypeOK
<1>34. QED
  BY <1>1, <1>2, <1>3, <1>4, <1>5, <1>6, <1>7, <1>8, <1>9, <1>11, <1>12,
     <1>13, <1>14, <1>15, <1>16, <1>17, <1>18, <1>19, <1>20, <1>21, <1>22,
     <1>23, <1>24, <1>25, <1>26, <1>27, <1>28, <1>29, <1>30, <1>31, <1>32,
     <1>33,
     <1>10
     DEF Next, Watcher, User, Backend, Frontend

(* Every variable keeps to its type, and no handler ever sends or applies  *)
(* a text that is not there.                                               *)
THEOREM TypeCorrect == Spec => []TypeOK
<1>1. Spec => []TypeInv
  BY InitType, NextType, PTL DEF Spec
<1>2. TypeInv => TypeOK
  BY DEF TypeInv
<1>3. QED
  BY <1>1, <1>2, PTL

-----------------------------------------------------------------------------
(* Most actions leave what the user has in the tab, its base and its flags *)
(* alone; the invariants below only have to be shown for the others.       *)
Quiet ==
  /\ Buffer' = Buffer
  /\ UNCHANGED <<active, editVars, base, dirty, diverged, removedOnDisk, past,
                 edits>>

Loud ==
  \/ HandleRemove \/ Type \/ Notify \/ SwitchAway \/ SwitchBack
  \/ \E p \in Proc :
       \/ GiveUp(p) \/ FoundMissing(p) \/ AskAgain(p) \/ TakeVerdict(p)
       \/ SaveDone(p) \/ KeepMine(p) \/ UseTheirs(p)

(* Every step that is not named loud leaves the tab alone.                 *)
LEMMA QuietOrLoud == [Next]_vars => Quiet \/ Loud
<1> SUFFICES ASSUME [Next]_vars, ~Loud PROVE Quiet
  OBVIOUS
<1> USE DEF diskVars, editVars, tabVars, bounds, history, Quiet, Buffer
<1>1. CASE ExternalWrite
  BY <1>1 DEF ExternalWrite
<1>2. CASE ExternalRemove
  BY <1>2 DEF ExternalRemove
<1>3. CASE HandleChange
  BY <1>3 DEF HandleChange
<1>4. CASE LoseEvent
  BY <1>4 DEF LoseEvent
<1>5. CASE CaptureActiveBuffer
  BY <1>5 DEF CaptureActiveBuffer
<1>6. ASSUME NEW p \in Proc, TimerFires(p) PROVE Quiet
  BY <1>6 DEF TimerFires
<1>7. ASSUME NEW p \in Proc, StartSave(p) PROVE Quiet
  BY <1>7 DEF StartSave
<1>8. ASSUME NEW p \in Proc, StartAuto(p) PROVE Quiet
  BY <1>8 DEF StartAuto
<1>9. ASSUME NEW p \in Proc, ReadDisk(p) PROVE Quiet
  BY <1>9 DEF ReadDisk
<1>10. ASSUME NEW p \in Proc, ReadFails(p) PROVE Quiet
  BY <1>10 DEF ReadFails
<1>11. ASSUME NEW p \in Proc, RetryRead(p) PROVE Quiet
  BY <1>11 DEF RetryRead
<1>12. ASSUME NEW p \in Proc, DropOutdated(p) PROVE Quiet
  BY <1>12 DEF DropOutdated
<1>13. ASSUME NEW p \in Proc, Select(p) PROVE Quiet
  BY <1>13 DEF Select
<1>14. ASSUME NEW p \in Proc, SendSelected(p) PROVE Quiet
  BY <1>14 DEF SendSelected
<1>15. ASSUME NEW p \in Proc, WriteDisk(p) PROVE Quiet
  BY <1>15 DEF WriteDisk
<1>16. ASSUME NEW p \in Proc, WriteFails(p) PROVE Quiet
  BY <1>16 DEF WriteFails
<1>17. ASSUME NEW p \in Proc, StartResolve(p, "keep") PROVE Quiet
  BY <1>17 DEF StartResolve
<1>18. ASSUME NEW p \in Proc, StartResolve(p, "theirs") PROVE Quiet
  BY <1>18 DEF StartResolve
<1>19. ASSUME NEW p \in Proc, Park(p) PROVE Quiet
  BY <1>19 DEF Park
<1>20. ASSUME NEW p \in Proc, ParkFails(p) PROVE Quiet
  BY <1>20 DEF ParkFails
<1>21. CASE UNCHANGED vars
  BY <1>21 DEF vars
<1>22. QED
  BY <1>1, <1>2, <1>3, <1>4, <1>6, <1>7, <1>8, <1>9, <1>10, <1>11, <1>12,
     <1>13, <1>14, <1>15, <1>16, <1>17, <1>18, <1>19, <1>20, <1>21,
     <1>5
     DEF Next, Watcher, User, Backend, Frontend, Loud

(* The tab whose file is gone stays flagged.                               *)
LEMMA VanishedStep ==
  VanishedTabIsDirty /\ [Next]_vars => VanishedTabIsDirty'
<1> SUFFICES ASSUME VanishedTabIsDirty, [Next]_vars
             PROVE  VanishedTabIsDirty'
  OBVIOUS
<1> USE DEF VanishedTabIsDirty, tabVars, history
<1>1. CASE Quiet
  BY <1>1 DEF Quiet
<1>2. CASE HandleRemove
  BY <1>2 DEF HandleRemove, MarkRemovedOnDisk
<1>3. CASE Type
  BY <1>3 DEF Type
<1>4. CASE Notify
  BY <1>4 DEF Notify
<1>5. CASE SwitchAway
  BY <1>5 DEF SwitchAway
<1>6. CASE SwitchBack
  BY <1>6 DEF SwitchBack
<1>7. ASSUME NEW p \in Proc, GiveUp(p) PROVE VanishedTabIsDirty'
  BY <1>7 DEF GiveUp
<1>8. ASSUME NEW p \in Proc, FoundMissing(p) PROVE VanishedTabIsDirty'
  BY <1>8 DEF FoundMissing, MarkRemovedOnDisk
<1>9. ASSUME NEW p \in Proc, AskAgain(p) PROVE VanishedTabIsDirty'
  BY <1>9 DEF AskAgain
<1>10. ASSUME NEW p \in Proc, TakeVerdict(p) PROVE VanishedTabIsDirty'
  BY <1>10 DEF TakeVerdict
<1>11. ASSUME NEW p \in Proc, SaveDone(p) PROVE VanishedTabIsDirty'
  BY <1>11 DEF SaveDone
<1>12. ASSUME NEW p \in Proc, KeepMine(p) PROVE VanishedTabIsDirty'
  BY <1>12 DEF KeepMine
<1>13. ASSUME NEW p \in Proc, UseTheirs(p) PROVE VanishedTabIsDirty'
  BY <1>13 DEF UseTheirs
<1>14. QED
  BY <1>1, <1>2, <1>3, <1>4, <1>5, <1>6, <1>7, <1>8, <1>9, <1>10, <1>11,
     <1>12, <1>13, QuietOrLoud DEF Loud

(* A tab whose file was removed keeps its only copy marked as unsaved, for *)
(* every interleaving of removals, verdicts, saves and resolutions, but    *)
(* for the one past records.                                               *)
THEOREM VanishedTabStaysFlagged == Spec => []VanishedTabIsDirty
<1>1. Init => VanishedTabIsDirty
  BY DEF Init, VanishedTabIsDirty
<1>2. QED
  BY <1>1, VanishedStep, PTL DEF Spec

(* A clean tab's words are those of its base.                              *)
LEMMA CleanStep ==
  TypeInv /\ TypeInv' /\ CleanTabIsSaved /\ [Next]_vars => CleanTabIsSaved'
<1> SUFFICES ASSUME TypeInv, TypeInv', CleanTabIsSaved, [Next]_vars
             PROVE  CleanTabIsSaved'
  OBVIOUS
<1> USE DEF CleanTabIsSaved, Buffer, tabVars, editVars, history
<1>0. /\ editor \in EditorText /\ Canon(editor) = editor
      /\ base \in Text /\ Canon(Canon(base)) = Canon(base)
  BY CanonType, EditorTextType DEF TypeInv, TypeOK
<1>1. CASE Quiet
  BY <1>1 DEF Quiet
<1>2. CASE HandleRemove
  BY <1>2 DEF HandleRemove, MarkRemovedOnDisk
<1>3. CASE Type
  BY <1>3 DEF Type
<1>4. CASE Notify
  <2>1. UNCHANGED <<active, editor, content, base>> /\ active
    BY <1>4 DEF Notify
  <2>2. CASE echo = editor
    <3>1. /\ dirty' = dirty
          /\ dirty \/ editor = Canon(base) \/ "echo" \in past'
      BY <1>4, <2>2 DEF Notify
    <3>2. QED
      BY <1>0, <2>1, <3>1
  <2>3. CASE echo # editor
    <3>1. editor # base => dirty'
      BY <1>4, <2>3 DEF Notify
    <3>2. QED
      BY <1>0, <2>1, <3>1
  <2>4. QED
    BY <2>2, <2>3
<1>5. CASE SwitchAway
  BY <1>0, <1>5 DEF SwitchAway
<1>6. CASE SwitchBack
  BY <1>6 DEF SwitchBack, LoadIntoEditor
<1>7. ASSUME NEW p \in Proc, GiveUp(p) PROVE CleanTabIsSaved'
  BY <1>7 DEF GiveUp
<1>8. ASSUME NEW p \in Proc, FoundMissing(p) PROVE CleanTabIsSaved'
  BY <1>8 DEF FoundMissing, MarkRemovedOnDisk
<1>9. ASSUME NEW p \in Proc, AskAgain(p) PROVE CleanTabIsSaved'
  BY <1>9 DEF AskAgain
<1>10. ASSUME NEW p \in Proc, TakeVerdict(p) PROVE CleanTabIsSaved'
  <2> DEFINE a == DecideAction(Verdict(p), Format, dirty)
  <2>1. a.kind \in {"none", "reload", "applyMerge", "conflict"}
    BY <1>10, VerdictType, DecideType DEF TakeVerdict
  <2>2. CASE a.kind \in {"none", "conflict"}
    BY <1>10, <2>2 DEF TakeVerdict
  <2>3. CASE a.kind \in {"reload", "applyMerge"}
    <3>1. /\ Show(a.text) /\ content' = a.text /\ base' = a.theirs
          /\ dirty' = (a.text # a.theirs) /\ UNCHANGED active
      BY <1>10, <2>3 DEF TakeVerdict
    <3>2. CASE active
      BY <3>1, <3>2 DEF Show, LoadIntoEditor
    <3>3. CASE ~active
      BY <3>1, <3>3
    <3>4. QED
      BY <3>2, <3>3
  <2>4. QED
    BY <2>1, <2>2, <2>3
<1>11. ASSUME NEW p \in Proc, SaveDone(p) PROVE CleanTabIsSaved'
  BY <1>0, <1>11 DEF SaveDone
<1>12. ASSUME NEW p \in Proc, KeepMine(p) PROVE CleanTabIsSaved'
  BY <1>12 DEF KeepMine
<1>13. ASSUME NEW p \in Proc, UseTheirs(p) PROVE CleanTabIsSaved'
  BY <1>13 DEF UseTheirs, Show, LoadIntoEditor
<1>14. QED
  BY <1>1, <1>2, <1>3, <1>4, <1>5, <1>6, <1>7, <1>8, <1>9, <1>10, <1>11,
     <1>12, <1>13, QuietOrLoud DEF Loud

(* Closing or reloading a clean tab loses nothing, but for the ways past   *)
(* records.                                                                *)
THEOREM CleanTabHoldsItsBase == Spec => []CleanTabIsSaved
<1>1. Init => CleanTabIsSaved
  BY DEF Init, CleanTabIsSaved
<1>2. Spec => []TypeInv
  BY InitType, NextType, PTL DEF Spec
<1>3. QED
  BY <1>1, <1>2, CleanStep, PTL DEF Spec

-----------------------------------------------------------------------------
(* A verdict that is applied: it replaces the buffer only if the buffer is *)
(* what the backend merged, and the merge keeps what differs from its base.*)
LEMMA VerdictKeepsEdits ==
  ASSUME TypeInv, NEW p \in Proc, TakeVerdict(p), dirty,
         NEW r \in Changed(op[p].base, Buffer)
  PROVE  Buffer'[r] = Buffer[r]
<1> DEFINE a == DecideAction(Verdict(p), Format, dirty)
           v == Verdict(p)
<1>1. /\ op[p] \in Op /\ op[p].base \in Text /\ op[p].mine \in Text
      /\ op[p].read \in Text \cup {NoText}
      /\ op[p].report = MergeExternal(op[p].read, op[p].base, op[p].mine)
  BY DEF TypeInv, Good, TakeVerdict, Busy, Op
<1> DEFINE m == op[p].report
<1>0. /\ m.outcome = "merged" =>
           /\ m.content = Combine(op[p].base, op[p].mine, op[p].read)
           /\ m.content \in Text
      /\ m.outcome = "theirsOnly" => op[p].mine = op[p].base
  BY <1>1, MergeType
<1>2. Buffer = Mine
  BY DEF Buffer, Mine, SelectMine
<1>3. /\ v \in Report
      /\ v.outcome \in {"theirsOnly", "merged"} =>
           v = op[p].report /\ ~Raced(p)
  BY VerdictType DEF TakeVerdict
<1>4. /\ a.kind \in {"none", "reload", "applyMerge", "conflict"}
      /\ a.kind = "reload" => v.outcome = "theirsOnly"
      /\ a.kind = "applyMerge" => v.outcome = "merged" /\ a.text = v.content
  BY VerdictType, DecideType DEF TakeVerdict
<1>5. v.outcome \in {"theirsOnly", "merged"} => Buffer = op[p].mine
  BY <1>2, <1>3 DEF Raced, ReplacesBuffer
<1>6. CASE a.kind \in {"none", "conflict"}
  BY <1>6 DEF TakeVerdict, Buffer, editVars
<1>7. CASE a.kind = "reload"
  <2>1. op[p].mine = op[p].base
    BY <1>0, <1>3, <1>4, <1>7
  <2>2. QED
    BY <1>4, <1>5, <1>7, <2>1 DEF Changed
<1>8. CASE a.kind = "applyMerge"
  <2>1. /\ a.text = Combine(op[p].base, op[p].mine, op[p].read)
        /\ a.text \in Text
    BY <1>0, <1>3, <1>4, <1>8
  <2>2. /\ r \in Region /\ Buffer[r] # op[p].base[r]
        /\ Buffer = op[p].mine
    BY <1>4, <1>5, <1>8 DEF Changed
  <2>3. a.text[r] = Buffer[r]
    BY <2>1, <2>2 DEF Combine
  <2>4. CASE active
    <3>1. editor' = Canon(a.text) /\ active' /\ Buffer = editor
      BY <1>8, <2>4 DEF TakeVerdict, Show, LoadIntoEditor, Buffer
    <3>2. a.text \in [Region -> Val]
      BY <2>1 DEF Text
    <3>3. editor[Form] = Canonical
      BY DEF TypeInv, TypeOK, EditorText
    <3>4. Canon(a.text)[r] = Buffer[r]
      BY <2>2, <2>3, <3>1, <3>2, <3>3 DEF Canon
    <3>5. QED
      BY <3>1, <3>4 DEF Buffer
  <2>5. CASE ~active
    BY <1>8, <2>3, <2>5 DEF TakeVerdict, Buffer
  <2>6. QED
    BY <2>4, <2>5
<1>9. QED
  BY <1>4, <1>6, <1>7, <1>8

(* No verdict of the merge, however late, undoes what the user typed.      *)
THEOREM EditsSurvive == Spec => EditsSurviveVerdict
<1> DEFINE A == \A p \in Proc :
                  (TakeVerdict(p) /\ dirty) =>
                    \A r \in Changed(op[p].base, Buffer) :
                      Buffer'[r] = Buffer[r]
<1>1. TypeInv => A
  BY VerdictKeepsEdits
<1>2. Spec => []TypeInv
  BY InitType, NextType, PTL DEF Spec
<1>3. QED
  BY <1>1, <1>2, PTL DEF EditsSurviveVerdict

-----------------------------------------------------------------------------
(* A tab nobody has typed in.                                              *)
Untouched == edits = 0 /\ "removed" \notin past

Parked(q) == op[q].pc \in {"parking", "parked"}

UntouchedInv ==
  Untouched => /\ ~dirty /\ diverged.reason # "conflict"
               /\ notify => echo = editor
               /\ \A q \in Proc : ~Parked(q)

(* Only the banner's buttons start to park a copy.                         *)
LEMMA ReturnParks ==
  ASSUME TypeInv, NEW p \in Proc, NEW b \in BOOLEAN, Return(p, b),
         NEW q \in Proc, Parked(q)'
  PROVE  Parked(q)
<1> DEFINE o == [op[p] EXCEPT !.applied = b]
<1>1. o \in Op
  BY ZenonT(60) DEF TypeInv, TypeOK, Op
<1>2. /\ After(o, "checked", "auto").pc = "checked"
      /\ \A k \in {"save", "saveTab"} : After(o, "writing", k).pc = "writing"
  BY <1>1, AfterOp DEF PCs
<1>3. \A k \in {"save", "saveTab"} : \A t : Writing(o, k, t).pc = "writing"
  BY <1>1, <1>2, AfterOp DEF Writing, Op, PCs
<1>4. ThenSave(o).pc \in {"idle", "writing"} /\ Idle.pc = "idle"
  BY <1>3 DEF ThenSave, Idle
<1>5. CASE q = p
  <2>1. op'[p].pc \in {"idle", "writing", "checked"}
    BY <1>2, <1>4 DEF Return, TypeInv, TypeOK
  <2>2. QED
    BY <1>5, <2>1 DEF Parked
<1>6. CASE q # p
  BY <1>6 DEF Return, Parked, TypeInv, TypeOK
<1>7. QED
  BY <1>5, <1>6

(* Only the banner's buttons start a resolution.                           *)
LEMMA ParkingStarts ==
  ASSUME TypeInv, [Next]_vars, NEW q \in Proc, Parked(q)', ~Parked(q)
  PROVE  \E k \in {"keep", "theirs"} : StartResolve(q, k)
<1> SUFFICES ASSUME \A k \in {"keep", "theirs"} : ~StartResolve(q, k)
             PROVE  FALSE
  OBVIOUS
<1> USE DEF Parked
<1>0. op \in [Proc -> Op] /\ Idle.pc = "idle"
  BY DEF TypeInv, TypeOK, Idle
<1>1. /\ \A k : Reading(k).pc = "reading"
      /\ \A p \in Proc : \A t : Writing(op[p], "auto", t).pc = "writing"
      /\ \A p \in Proc : After(op[p], "selected", "auto").pc = "selected"
  BY <1>0 DEF Reading, Writing, After, Idle
<1>2. CASE ExternalWrite
  BY <1>2, <1>0 DEF ExternalWrite
<1>3. CASE ExternalRemove
  BY <1>3, <1>0 DEF ExternalRemove
<1>4. CASE HandleChange
  BY <1>4, <1>0 DEF HandleChange
<1>5. CASE HandleRemove
  BY <1>5, <1>0 DEF HandleRemove
<1>6. CASE LoseEvent
  BY <1>6, <1>0 DEF LoseEvent
<1>7. CASE Type
  BY <1>7, <1>0 DEF Type
<1>8. CASE Notify
  BY <1>8, <1>0 DEF Notify
<1>9. CASE SwitchAway
  BY <1>9, <1>0 DEF SwitchAway
<1>10. CASE SwitchBack
  BY <1>10, <1>0 DEF SwitchBack
<1>11. CASE CaptureActiveBuffer
  BY <1>11, <1>0 DEF CaptureActiveBuffer
<1>12. ASSUME NEW p \in Proc, TimerFires(p) PROVE FALSE
  BY <1>12, <1>0, <1>1 DEF TimerFires, Start
<1>13. ASSUME NEW p \in Proc, StartSave(p) PROVE FALSE
  BY <1>13, <1>0, <1>1 DEF StartSave, Start
<1>14. ASSUME NEW p \in Proc, StartAuto(p) PROVE FALSE
  BY <1>14, <1>0, <1>1 DEF StartAuto, Start
<1>15. ASSUME NEW p \in Proc, ReadDisk(p) PROVE FALSE
  BY <1>15, <1>0 DEF ReadDisk, Op
<1>16. ASSUME NEW p \in Proc, ReadFails(p) PROVE FALSE
  BY <1>16, <1>0 DEF ReadFails, Op
<1>17. ASSUME NEW p \in Proc, RetryRead(p) PROVE FALSE
  BY <1>17, <1>0 DEF RetryRead, Op
<1>18. ASSUME NEW p \in Proc, AskAgain(p) PROVE FALSE
  BY <1>18, <1>0 DEF AskAgain, Op
<1>19. ASSUME NEW p \in Proc, GiveUp(p) PROVE FALSE
  BY <1>19, ReturnParks DEF GiveUp
<1>20. ASSUME NEW p \in Proc, DropOutdated(p) PROVE FALSE
  BY <1>20, ReturnParks DEF DropOutdated
<1>21. ASSUME NEW p \in Proc, FoundMissing(p) PROVE FALSE
  BY <1>21, ReturnParks DEF FoundMissing
<1>22. ASSUME NEW p \in Proc, TakeVerdict(p) PROVE FALSE
  BY <1>22, ReturnParks DEF TakeVerdict
<1>23. ASSUME NEW p \in Proc, Select(p) PROVE FALSE
  BY <1>23, <1>0, <1>1 DEF Select
<1>24. ASSUME NEW p \in Proc, SendSelected(p) PROVE FALSE
  BY <1>24, <1>0, <1>1 DEF SendSelected
<1>25. ASSUME NEW p \in Proc, WriteDisk(p) PROVE FALSE
  BY <1>25, <1>0 DEF WriteDisk, Op
<1>26. ASSUME NEW p \in Proc, WriteFails(p) PROVE FALSE
  BY <1>26, <1>0 DEF WriteFails
<1>27. ASSUME NEW p \in Proc, SaveDone(p) PROVE FALSE
  BY <1>27, <1>0 DEF SaveDone
<1>28. ASSUME NEW p \in Proc, Park(p) PROVE FALSE
  BY <1>28, <1>0 DEF Park, Op, Busy
<1>29. ASSUME NEW p \in Proc, ParkFails(p) PROVE FALSE
  BY <1>29, <1>0 DEF ParkFails
<1>30. ASSUME NEW p \in Proc, KeepMine(p) PROVE FALSE
  BY <1>30, <1>0 DEF KeepMine
<1>31. ASSUME NEW p \in Proc, UseTheirs(p) PROVE FALSE
  BY <1>31, <1>0 DEF UseTheirs
<1>32. ASSUME NEW p \in Proc, NEW k \in {"keep", "theirs"}, StartResolve(p, k)
       PROVE  FALSE
  BY <1>32, <1>0 DEF StartResolve
<1>33. CASE UNCHANGED vars
  BY <1>33, <1>0 DEF vars
<1>34. QED
  BY <1>2, <1>3, <1>4, <1>5, <1>6, <1>7, <1>8, <1>9, <1>10, <1>12, <1>13,
     <1>14, <1>15, <1>16, <1>17, <1>18, <1>19, <1>20, <1>21, <1>22, <1>23,
     <1>24, <1>25, <1>26, <1>27, <1>28, <1>29, <1>30, <1>31, <1>32, <1>33,
     <1>11
     DEF Next, Watcher, User, Backend, Frontend

(* Every step keeps an untouched tab clean.                                *)
LEMMA UntouchedStep ==
  TypeInv /\ UntouchedInv /\ [Next]_vars => UntouchedInv'
<1> SUFFICES ASSUME TypeInv, UntouchedInv, [Next]_vars, Untouched'
             PROVE  /\ ~dirty' /\ diverged'.reason # "conflict"
                    /\ notify' => echo' = editor'
                    /\ \A q \in Proc : ~Parked(q)'
  BY DEF UntouchedInv
<1> DEFINE Clean == /\ ~dirty' /\ diverged'.reason # "conflict"
                    /\ notify' => echo' = editor'
<1> USE DEF tabVars, editVars, history, bounds
<1>0. edits \in Nat
  BY DEF TypeInv, TypeOK
<1>1. Untouched
  <2>1. CASE Quiet
    BY <2>1 DEF Quiet, Untouched
  <2>2. CASE Type
    BY <1>0, <2>2 DEF Type, Untouched
  <2>3. CASE Loud /\ ~Type
    BY <2>3 DEF Loud, Untouched, HandleRemove, MarkRemovedOnDisk, Notify,
       SwitchAway, SwitchBack, GiveUp, FoundMissing, AskAgain, TakeVerdict,
       SaveDone, KeepMine, UseTheirs
  <2>4. QED
    BY <2>1, <2>2, <2>3, QuietOrLoud
<1>2. /\ ~dirty /\ diverged.reason # "conflict"
      /\ notify => echo = editor
      /\ \A q \in Proc : ~Parked(q)
  BY <1>1 DEF UntouchedInv
<1>3. \A q \in Proc : ~Parked(q)'
  <2>1. ASSUME NEW q \in Proc, Parked(q)' PROVE FALSE
    <3>1. PICK k \in {"keep", "theirs"} : StartResolve(q, k)
      BY <1>2, <2>1, ParkingStarts
    <3>2. QED
      BY <1>2, <3>1 DEF StartResolve
  <2>2. QED
    BY <2>1
<1>4. CASE Quiet
  BY <1>2, <1>3, <1>4 DEF Quiet
<1>5. CASE HandleRemove
  BY <1>5 DEF HandleRemove, MarkRemovedOnDisk, Untouched
<1>6. CASE Type
  BY <1>0, <1>6 DEF Type, Untouched
<1>7. CASE Notify
  <2>1. echo = editor
    BY <1>2, <1>7 DEF Notify
  <2>2. Clean
    BY <1>2, <1>7, <2>1 DEF Notify
  <2>3. QED
    BY <1>3, <2>2
<1>8. CASE SwitchAway
  BY <1>2, <1>3, <1>8 DEF SwitchAway
<1>9. CASE SwitchBack
  BY <1>2, <1>3, <1>9 DEF SwitchBack, LoadIntoEditor
<1>10. ASSUME NEW p \in Proc, GiveUp(p) PROVE Clean
  BY <1>2, <1>10 DEF GiveUp, Unreadable
<1>11. ASSUME NEW p \in Proc, FoundMissing(p) PROVE Clean
  BY <1>11 DEF FoundMissing, MarkRemovedOnDisk, Untouched
<1>12. ASSUME NEW p \in Proc, AskAgain(p) PROVE Clean
  BY <1>2, <1>12 DEF AskAgain
<1>13. ASSUME NEW p \in Proc, TakeVerdict(p) PROVE Clean
  <2> DEFINE a == DecideAction(Verdict(p), Format, dirty)
  <2>1. /\ a.kind \in {"none", "reload"}
        /\ a.kind = "reload" => a.text = a.theirs
    BY <1>2, <1>13, VerdictType, DecideType DEF TakeVerdict
  <2>2. CASE a.kind = "none"
    BY <1>2, <1>13, <2>2 DEF TakeVerdict, Undiverged
  <2>3. CASE a.kind = "reload"
    <3>1. ~dirty' /\ diverged' = Undiverged /\ Show(a.text)
      BY <1>13, <2>1, <2>3 DEF TakeVerdict
    <3>2. QED
      BY <1>2, <3>1 DEF Show, LoadIntoEditor, Undiverged
  <2>4. QED
    BY <2>1, <2>2, <2>3
<1>14. ASSUME NEW p \in Proc, SaveDone(p) PROVE Clean
  BY <1>2, <1>14 DEF SaveDone
<1>15. ASSUME NEW p \in Proc, KeepMine(p) PROVE Clean
  BY <1>2, <1>15 DEF KeepMine, Busy, Parked
<1>16. ASSUME NEW p \in Proc, UseTheirs(p) PROVE Clean
  BY <1>2, <1>16 DEF UseTheirs, Busy, Parked
<1>17. QED
  BY <1>3, <1>4, <1>5, <1>6, <1>7, <1>8, <1>9, <1>10, <1>11, <1>12, <1>13,
     <1>14, <1>15, <1>16, QuietOrLoud DEF Loud

(* Looking at a note never makes it dirty nor puts it in conflict, however *)
(* it is spelled and whatever other programs write to it.                  *)
THEOREM UntouchedStaysClean == Spec => []UntouchedTabIsClean
<1>1. Init => UntouchedInv
  BY DEF Init, UntouchedInv, Parked, Idle, Undiverged
<1>2. Spec => []TypeInv
  BY InitType, NextType, PTL DEF Spec
<1>3. UntouchedInv => UntouchedTabIsClean
  BY DEF UntouchedInv, Untouched, UntouchedTabIsClean
<1>4. QED
  BY <1>1, <1>2, <1>3, UntouchedStep, PTL DEF Spec

-----------------------------------------------------------------------------
(* What a step does to the handlers: at most one moves, and it is answered,*)
(* takes its answer, or does neither.                                      *)
Answering(p) == op[p].pc \in {"read", "written", "parked"}

(* A handler whose check was applied and that may write by it.             *)
Checked(p) == op[p].applied /\ op[p].pc \in {"checked", "selected", "writing"}

Alone(p) == \A q \in Proc \ {p} : op'[q] = op[q]

Replaced == fresh' = {}
Still    == UNCHANGED <<disk, fresh>>

Reads(p) ==
  /\ op[p].pc = "reading" /\ op'[p].pc = "read" /\ Answer(p)
  /\ op'[p].read = disk /\ disk' = disk /\ fresh' = fresh \cup {p}

Sends(p) ==
  /\ ~Answering(p) /\ op'[p].pc \in {"written", "parked"} /\ Answer(p)
  /\ Replaced \/ Still

GoesOn(p) ==
  /\ ~Answering(p) /\ ~Answering(p)' /\ UNCHANGED answered /\ Still
  /\ Checked(p)' => /\ Checked(p) /\ op'[p].read = op[p].read
                    /\ op[p].pc = "checked" => diverged = Undiverged

Gets(p) ==
  /\ Answering(p) /\ ~Answering(p)' /\ Receive(p) /\ Still
  /\ Checked(p)' => /\ FoundMissing(p) \/ TakeVerdict(p)
                    /\ op'[p].read = op[p].read
                    /\ op'[p].pc # "checked" => ~BlocksWrite(diverged')

Moves(p) == Alone(p) /\ (Reads(p) \/ Sends(p) \/ GoesOn(p) \/ Gets(p))

(* What a handler is after its check.                                      *)
LEMMA ReturnMoves ==
  ASSUME TypeInv, NEW p \in Proc, NEW b \in BOOLEAN, Return(p, b)
  PROVE  /\ Alone(p) /\ ~Answering(p)'
         /\ Checked(p)' => b /\ op'[p].read = op[p].read
         /\ Checked(p)' => op'[p].pc = "checked" \/ ~BlocksWrite(diverged')
<1> DEFINE o == [op[p] EXCEPT !.applied = b]
<1>1. /\ o \in Op /\ o.applied = b /\ o.read = op[p].read
      /\ op \in [Proc -> Op]
  BY ZenonT(60) DEF TypeInv, TypeOK, Op
<1> HIDE DEF o
<1>2. \A s \in PCs, k \in {"save", "saveTab", "auto"} :
        /\ After(o, s, k).pc = s
        /\ After(o, s, k).applied = b /\ After(o, s, k).read = op[p].read
  <2>1. Idle \in Op
    BY IdleGood DEF Good
  <2>2. QED
    BY <1>1, <2>1 DEF After, Op, PCs, AllKinds
<1>3. \A k \in {"save", "saveTab"} : \A t :
        /\ Writing(o, k, t).pc = "writing"
        /\ Writing(o, k, t).applied = b /\ Writing(o, k, t).read = op[p].read
  BY <1>1, <1>2, AfterOp DEF Writing, Op, PCs
<1>4. Idle.pc = "idle" /\ ~Idle.applied
  BY DEF Idle
<1>5. op'[p] = CASE o.kind = "watch" -> Idle
                 [] o.kind = "save"  -> ThenSave(o)
                 [] OTHER            -> After(o, "checked", "auto")
  BY <1>1 DEF Return, o
<1>6. \/ op'[p] = Idle
      \/ op'[p] = After(o, "checked", "auto")
      \/ /\ ~BlocksWrite(diverged')
         /\ op'[p] \in {Writing(o, "save", editor'), Writing(o, "saveTab", content')}
  BY <1>5 DEF ThenSave
<1>7. /\ ~Answering(p)'
      /\ Checked(p)' => b /\ op'[p].read = op[p].read
      /\ Checked(p)' => op'[p].pc = "checked" \/ ~BlocksWrite(diverged')
  BY <1>2, <1>3, <1>4, <1>6 DEF Answering, Checked, PCs
<1>8. Alone(p)
  BY <1>1 DEF Return, Alone
<1>9. QED
  BY <1>7, <1>8

(* A step moves one handler, as above, or none.                            *)
LEMMA OneMoves ==
  ASSUME TypeInv, [Next]_vars
  PROVE  \/ UNCHANGED <<op, answered>> /\ (Replaced \/ Still)
         \/ \E p \in Proc : Moves(p)
<1> DEFINE Nobody == UNCHANGED <<op, answered>> /\ (Replaced \/ Still)
           Some == \E p \in Proc : Moves(p)
<1> USE DEF diskVars, answered, history, Moves
<1>0. op \in [Proc -> Op] /\ Idle.pc = "idle" /\ ~Idle.applied
  BY DEF TypeInv, TypeOK, Idle
<1>1. /\ \A k : Reading(k).pc = "reading"
      /\ \A k, u, t : Parking(k, u, t).pc = "parking"
      /\ \A p \in Proc :
           LET a == After(op[p], "selected", "auto") IN
           a.pc = "selected" /\ a.applied = op[p].applied /\ a.read = op[p].read
      /\ \A p \in Proc : \A t :
           LET w == Writing(op[p], "auto", t) IN
           w.pc = "writing" /\ w.applied = op[p].applied /\ w.read = op[p].read
  BY <1>0 DEF Reading, Parking, Writing, After, Idle
<1>2. CASE ExternalWrite
  BY <1>2 DEF ExternalWrite, Replaced
<1>3. CASE ExternalRemove
  BY <1>3 DEF ExternalRemove, Replaced
<1>4. CASE HandleChange
  BY <1>4 DEF HandleChange, Still
<1>5. CASE HandleRemove
  BY <1>5 DEF HandleRemove, Still
<1>6. CASE LoseEvent
  BY <1>6 DEF LoseEvent, Still
<1>7. CASE Type
  BY <1>7 DEF Type, Still
<1>8. CASE Notify
  BY <1>8 DEF Notify, Still
<1>9. CASE SwitchAway
  BY <1>9 DEF SwitchAway, Still
<1>10. CASE SwitchBack
  BY <1>10 DEF SwitchBack, Still
<1>11. CASE CaptureActiveBuffer
  BY <1>11 DEF CaptureActiveBuffer, Still
<1> USE DEF Answering, Checked, Alone, Busy
<1>12. ASSUME NEW p \in Proc, TimerFires(p) PROVE Some
  <2>1. GoesOn(p) /\ Alone(p)
    BY <1>12, <1>0, <1>1 DEF TimerFires, Start, GoesOn, Still
  <2>2. QED
    BY <2>1
<1>13. ASSUME NEW p \in Proc, StartSave(p) PROVE Some
  <2>1. GoesOn(p) /\ Alone(p)
    BY <1>13, <1>0, <1>1 DEF StartSave, Start, GoesOn, Still
  <2>2. QED
    BY <2>1
<1>14. ASSUME NEW p \in Proc, StartAuto(p) PROVE Some
  <2>1. GoesOn(p) /\ Alone(p)
    BY <1>14, <1>0, <1>1 DEF StartAuto, Start, GoesOn, Still
  <2>2. QED
    BY <2>1
<1>15. ASSUME NEW p \in Proc, ReadDisk(p) PROVE Some
  <2>1. Reads(p) /\ Alone(p)
    BY <1>15, <1>0 DEF ReadDisk, Reads, Op
  <2>2. QED
    BY <2>1
<1>16. ASSUME NEW p \in Proc, ReadFails(p) PROVE Some
  <2>1. GoesOn(p) /\ Alone(p)
    BY <1>16, <1>0 DEF ReadFails, GoesOn, Still, Op
  <2>2. QED
    BY <2>1
<1>17. ASSUME NEW p \in Proc, RetryRead(p) PROVE Some
  <2>1. GoesOn(p) /\ Alone(p)
    BY <1>17, <1>0 DEF RetryRead, GoesOn, Still, Op
  <2>2. QED
    BY <2>1
<1>18. ASSUME NEW p \in Proc, GiveUp(p) PROVE Some
  <2>1. Alone(p) /\ ~Answering(p)' /\ ~Checked(p)'
    BY <1>18, ReturnMoves DEF GiveUp
  <2>2. GoesOn(p)
    BY <1>18, <2>1 DEF GiveUp, GoesOn, Still
  <2>3. QED
    BY <2>1, <2>2
<1>19. ASSUME NEW p \in Proc, DropOutdated(p) PROVE Some
  <2>1. Alone(p) /\ ~Answering(p)' /\ ~Checked(p)'
    BY <1>19, ReturnMoves DEF DropOutdated
  <2>2. Gets(p)
    BY <1>19, <2>1 DEF DropOutdated, Gets, Still
  <2>3. QED
    BY <2>1, <2>2
<1>20. ASSUME NEW p \in Proc, FoundMissing(p) PROVE Some
  <2>1. /\ Alone(p) /\ ~Answering(p)'
        /\ Checked(p)' => op'[p].read = op[p].read
        /\ Checked(p)' => op'[p].pc = "checked" \/ ~BlocksWrite(diverged')
    BY <1>20, ReturnMoves DEF FoundMissing
  <2>2. Receive(p) /\ Answering(p) /\ Still
    BY <1>20 DEF FoundMissing, Still
  <2>3. Gets(p)
    BY <1>20, <2>1, <2>2 DEF Gets
  <2>4. QED
    BY <2>1, <2>3
<1>21. ASSUME NEW p \in Proc, TakeVerdict(p) PROVE Some
  <2>1. /\ Alone(p) /\ ~Answering(p)'
        /\ Checked(p)' => op'[p].read = op[p].read
        /\ Checked(p)' => op'[p].pc = "checked" \/ ~BlocksWrite(diverged')
    BY <1>21, ReturnMoves DEF TakeVerdict
  <2>2. Receive(p) /\ Answering(p) /\ Still
    BY <1>21 DEF TakeVerdict, Still
  <2>3. Gets(p)
    BY <1>21, <2>1, <2>2 DEF Gets
  <2>4. QED
    BY <2>1, <2>3
<1>22. ASSUME NEW p \in Proc, AskAgain(p) PROVE Some
  <2>1. Alone(p) /\ op'[p].pc = "reading"
    BY <1>22, <1>0 DEF AskAgain, Op
  <2>2. Gets(p)
    BY <1>22, <2>1 DEF AskAgain, Gets, Still
  <2>3. QED
    BY <2>1, <2>2
<1>23. ASSUME NEW p \in Proc, Select(p) PROVE Some
  <2>1. CASE Savable(dirty, diverged, removedOnDisk)
    <3>1. op'[p] = After(op[p], "selected", "auto") /\ Alone(p)
      BY <1>0, <1>23, <2>1 DEF Select
    <3>2. diverged = Undiverged
      BY <2>1 DEF Savable, BlocksWrite, TypeInv, TypeOK, Unreadable, Diverged
    <3>3. GoesOn(p)
      BY <1>1, <1>23, <3>1, <3>2 DEF Select, GoesOn, Still
    <3>4. QED
      BY <3>1, <3>3
  <2>2. CASE ~Savable(dirty, diverged, removedOnDisk)
    <3>1. op'[p] = Idle /\ Alone(p)
      BY <1>0, <1>23, <2>2 DEF Select
    <3>2. GoesOn(p)
      BY <1>0, <1>23, <3>1 DEF Select, GoesOn, Still
    <3>3. QED
      BY <3>1, <3>2
  <2>3. QED
    BY <2>1, <2>2
<1>24. ASSUME NEW p \in Proc, SendSelected(p) PROVE Some
  <2>1. op'[p] \in {Idle, Writing(op[p], "auto", content)} /\ Alone(p)
    BY <1>0, <1>24 DEF SendSelected
  <2>2. GoesOn(p)
    BY <1>0, <1>1, <1>24, <2>1 DEF SendSelected, GoesOn, Still
  <2>3. QED
    BY <2>1, <2>2
<1>25. ASSUME NEW p \in Proc, WriteDisk(p) PROVE Some
  <2>1. Sends(p) /\ Alone(p)
    BY <1>25, <1>0 DEF WriteDisk, Sends, Replaced, Op
  <2>2. QED
    BY <2>1
<1>26. ASSUME NEW p \in Proc, WriteFails(p) PROVE Some
  <2>1. GoesOn(p) /\ Alone(p)
    BY <1>26, <1>0 DEF WriteFails, GoesOn, Still
  <2>2. QED
    BY <2>1
<1>27. ASSUME NEW p \in Proc, SaveDone(p) PROVE Some
  <2>1. Gets(p) /\ Alone(p)
    BY <1>27, <1>0 DEF SaveDone, Gets, Still
  <2>2. QED
    BY <2>1
<1>28. ASSUME NEW p \in Proc, NEW k \in {"keep", "theirs"}, StartResolve(p, k)
       PROVE  Some
  <2>1. GoesOn(p) /\ Alone(p)
    BY <1>28, <1>0, <1>1 DEF StartResolve, GoesOn, Still
  <2>2. QED
    BY <2>1
<1>29. ASSUME NEW p \in Proc, Park(p) PROVE Some
  <2>1. Sends(p) /\ Alone(p)
    BY <1>29, <1>0 DEF Park, Sends, Still, Op
  <2>2. QED
    BY <2>1
<1>30. ASSUME NEW p \in Proc, ParkFails(p) PROVE Some
  <2>1. GoesOn(p) /\ Alone(p)
    BY <1>30, <1>0 DEF ParkFails, GoesOn, Still
  <2>2. QED
    BY <2>1
<1>31. ASSUME NEW p \in Proc, KeepMine(p) PROVE Some
  <2>1. Gets(p) /\ Alone(p)
    BY <1>31, <1>0 DEF KeepMine, Gets, Still
  <2>2. QED
    BY <2>1
<1>32. ASSUME NEW p \in Proc, UseTheirs(p) PROVE Some
  <2>1. Gets(p) /\ Alone(p)
    BY <1>32, <1>0 DEF UseTheirs, Gets, Still
  <2>2. QED
    BY <2>1
<1>33. CASE UNCHANGED vars
  BY <1>33 DEF vars, Still
<1>34. QED
  BY <1>2, <1>3, <1>4, <1>5, <1>6, <1>7, <1>8, <1>9, <1>10, <1>11, <1>12,
     <1>13, <1>14, <1>15, <1>16, <1>17, <1>18, <1>19, <1>20, <1>21, <1>22,
     <1>23, <1>24, <1>25, <1>26, <1>27, <1>28, <1>29, <1>30, <1>31, <1>32,
     <1>33
     DEF Next, Watcher, User, Backend, Frontend

-----------------------------------------------------------------------------
(* The backend's answers: one for each handler that has one coming.        *)
AnswersInv ==
  /\ \A i \in DOMAIN answers : Answering(answers[i])
  /\ \A i, j \in DOMAIN answers : answers[i] = answers[j] => i = j
  /\ \A p \in Proc : Answering(p) => \E i \in DOMAIN answers : answers[i] = p

(* A fresh check is of the bytes that are there.                           *)
FreshInv ==
  \A p \in fresh : op[p].pc = "read" \/ Checked(p) => op[p].read = disk

(* As long as no answer overtakes another, whoever read later than a fresh *)
(* check is fresh too.                                                     *)
OrderInv ==
  ~crossed =>
    /\ \A i, j \in DOMAIN answers :
         (/\ i < j /\ answers[i] \in fresh
          /\ op[answers[i]].pc = "read" /\ op[answers[j]].pc = "read")
           => answers[j] \in fresh
    /\ \A p \in fresh, q \in Proc :
         Checked(p) /\ op[q].pc = "read" => q \in fresh

(* A sequence without one of its elements.                                 *)
LEMMA RemoveAtElements ==
  ASSUME NEW S, NEW s \in Seq(S), NEW i \in 1..Len(s)
  PROVE  /\ RemoveAt(s, i) \in Seq(S) /\ Len(RemoveAt(s, i)) = Len(s) - 1
         /\ \A j \in 1..(Len(s) - 1) :
              RemoveAt(s, i)[j] = s[IF j < i THEN j ELSE j + 1]
<1>1. /\ SubSeq(s, 1, i - 1) \in Seq(S) /\ Len(SubSeq(s, 1, i - 1)) = i - 1
      /\ \A j \in 1..(i - 1) : SubSeq(s, 1, i - 1)[j] = s[j]
  OBVIOUS
<1>2. /\ SubSeq(s, i + 1, Len(s)) \in Seq(S)
      /\ Len(SubSeq(s, i + 1, Len(s))) = Len(s) - i
      /\ \A j \in 1..(Len(s) - i) : SubSeq(s, i + 1, Len(s))[j] = s[i + j]
  OBVIOUS
<1> DEFINE a == SubSeq(s, 1, i - 1)
           b == SubSeq(s, i + 1, Len(s))
<1>3. RemoveAt(s, i) = a \o b
  BY DEF RemoveAt
<1>4. Len(a) = i - 1 /\ Len(b) = Len(s) - i /\ i \in Nat /\ Len(s) \in Nat
  BY <1>1, <1>2
<1>5. a \in Seq(S) /\ b \in Seq(S)
  BY <1>1, <1>2
<1> HIDE DEF a, b
<1>6. /\ a \o b \in Seq(S) /\ Len(a \o b) = Len(a) + Len(b)
      /\ \A j \in 1..(Len(a) + Len(b)) :
           (a \o b)[j] = IF j <= Len(a) THEN a[j] ELSE b[j - Len(a)]
  BY <1>5
<1>7. ASSUME NEW j \in 1..(Len(s) - 1)
      PROVE  (a \o b)[j] = s[IF j < i THEN j ELSE j + 1]
  <2>1. CASE j < i
    <3>1. j \in 1..(i - 1) /\ j <= Len(a)
      BY <1>4, <2>1
    <3>2. QED
      BY <1>1, <1>4, <1>6, <2>1, <3>1 DEF a
  <2>2. CASE ~(j < i)
    <3>1. j - (i - 1) \in 1..(Len(s) - i) /\ i + (j - (i - 1)) = j + 1
      BY <1>4, <2>2
    <3>2. (a \o b)[j] = b[j - (i - 1)]
      BY <1>4, <1>6, <2>2
    <3>3. b[j - (i - 1)] = s[i + (j - (i - 1))]
      BY <1>2, <3>1 DEF b
    <3>4. QED
      BY <2>2, <3>1, <3>2, <3>3
  <2>3. QED
    BY <2>1, <2>2
<1>8. QED
  BY <1>3, <1>4, <1>6, <1>7

(* An answer taken leaves the others, in their order.                      *)
LEMMA AnswerTaken ==
  ASSUME TypeInv, NEW p \in Proc, Receive(p)
  PROVE  \E i \in 1..Len(answers) :
           /\ answers[i] = p /\ crossed' = (crossed \/ i # 1)
           /\ DOMAIN answers' = 1..(Len(answers) - 1)
           /\ \A j \in 1..(Len(answers) - 1) :
                answers'[j] = answers[IF j < i THEN j ELSE j + 1]
<1>1. answers \in Seq(Proc) /\ DOMAIN answers = 1..Len(answers)
  BY DEF TypeInv, TypeOK
<1>2. PICK i \in 1..Len(answers) :
        /\ answers[i] = p /\ answers' = RemoveAt(answers, i)
        /\ crossed' = (crossed \/ i # 1)
  BY <1>1 DEF Receive
<1>3. /\ RemoveAt(answers, i) \in Seq(Proc)
      /\ Len(RemoveAt(answers, i)) = Len(answers) - 1
      /\ \A j \in 1..(Len(answers) - 1) :
           RemoveAt(answers, i)[j] = answers[IF j < i THEN j ELSE j + 1]
  BY <1>1, RemoveAtElements
<1>4. QED
  BY <1>2, <1>3

(* Every step keeps one answer for each handler that has one coming.       *)
LEMMA AnswersStep ==
  ASSUME TypeInv, [Next]_vars, AnswersInv
  PROVE  AnswersInv'
<1> USE DEF AnswersInv
<1>0. answers \in Seq(Proc) /\ DOMAIN answers = 1..Len(answers)
  BY DEF TypeInv, TypeOK
<1>1. CASE UNCHANGED <<op, answered>>
  BY <1>1 DEF answered, Answering
<1>2. ASSUME NEW p \in Proc, Moves(p) PROVE AnswersInv'
  <2>1. \A q \in Proc \ {p} : Answering(q)' = Answering(q)
    BY <1>2 DEF Moves, Alone, Answering
  <2>2. CASE GoesOn(p)
    BY <2>1, <2>2, <1>0 DEF GoesOn, answered
  <2>3. CASE ~Answering(p) /\ Answering(p)' /\ Answer(p)
    <3>1. /\ answers' = Append(answers, p) /\ Len(answers') = Len(answers) + 1
          /\ DOMAIN answers' = 1..(Len(answers) + 1)
          /\ \A j \in 1..Len(answers) : answers'[j] = answers[j]
          /\ answers'[Len(answers) + 1] = p
      BY <2>3, <1>0 DEF Answer
    <3>2. \A j \in 1..Len(answers) : answers[j] \in Proc \ {p}
      BY <2>3, <1>0
    <3>3. \A j \in DOMAIN answers' : op'[answers'[j]].pc \in {"read", "written", "parked"}
      BY <2>1, <2>3, <3>1, <3>2, <1>0 DEF Answering
    <3>4. \A q \in Proc : Answering(q)' => \E j \in DOMAIN answers' : answers'[j] = q
      <4>1. ASSUME NEW q \in Proc \ {p}, Answering(q)'
            PROVE  \E j \in DOMAIN answers' : answers'[j] = q
        <5>1. PICK j \in 1..Len(answers) : answers[j] = q
          BY <2>1, <4>1, <1>0
        <5>2. j \in DOMAIN answers' /\ answers'[j] = q
          BY <3>1, <5>1, <1>0
        <5>3. QED
          BY <5>2
      <4>2. Len(answers) + 1 \in DOMAIN answers'
        BY <3>1, <1>0
      <4>3. QED
        BY <3>1, <4>1, <4>2
    <3>5. \A i, j \in DOMAIN answers' : answers'[i] = answers'[j] => i = j
      BY <3>1, <3>2, <1>0
    <3>6. QED
      BY <3>3, <3>4, <3>5 DEF Answering
  <2>4. CASE Gets(p)
    <3>1. PICK i \in 1..Len(answers) :
            /\ answers[i] = p
            /\ DOMAIN answers' = 1..(Len(answers) - 1)
            /\ \A j \in 1..(Len(answers) - 1) :
                 answers'[j] = answers[IF j < i THEN j ELSE j + 1]
      BY <2>4, AnswerTaken DEF Gets
    <3> DEFINE at(j) == IF j < i THEN j ELSE j + 1
    <3>2. /\ DOMAIN answers' = 1..(Len(answers) - 1)
          /\ \A j \in 1..(Len(answers) - 1) : answers'[j] = answers[at(j)]
      BY <3>1
    <3>3. \A j \in 1..(Len(answers) - 1) : at(j) \in 1..Len(answers) /\ at(j) # i
      BY <3>1, <1>0
    <3>4. \A j \in 1..(Len(answers) - 1) : answers[at(j)] \in Proc \ {p}
      BY <3>1, <3>3, <1>0
    <3>5. \A j \in DOMAIN answers' : op'[answers'[j]].pc \in {"read", "written", "parked"}
      BY <2>1, <3>2, <3>3, <3>4, <1>0 DEF Answering
    <3>6. \A j, k \in DOMAIN answers' : answers'[j] = answers'[k] => j = k
      <4>1. \A j, k \in 1..(Len(answers) - 1) : at(j) = at(k) => j = k
        BY <3>1, <1>0
      <4>2. ASSUME NEW j \in DOMAIN answers', NEW k \in DOMAIN answers',
                   answers'[j] = answers'[k]
            PROVE  j = k
        <5>1. answers[at(j)] = answers[at(k)]
          BY <3>2, <4>2
        <5>2. at(j) \in 1..Len(answers) /\ at(k) \in 1..Len(answers)
          BY <3>2, <3>3
        <5>3. at(j) = at(k)
          BY <5>1, <5>2, <1>0
        <5>4. QED
          BY <3>2, <4>1, <5>3
      <4>3. QED
        BY <4>2
    <3>7. ASSUME NEW q \in Proc, Answering(q)'
          PROVE  \E j \in DOMAIN answers' : answers'[j] = q
      <4>1. q # p /\ Answering(q)
        BY <2>1, <2>4, <3>7 DEF Gets
      <4>2. PICK k \in 1..Len(answers) : answers[k] = q
        BY <4>1, <1>0
      <4>3. k # i
        BY <3>1, <4>1, <4>2
      <4>4. CASE k < i
        <5>1. k \in 1..(Len(answers) - 1) /\ at(k) = k
          BY <4>4, <1>0
        <5>2. QED
          BY <3>2, <4>2, <5>1
      <4>5. CASE k > i
        <5>1. k - 1 \in 1..(Len(answers) - 1) /\ at(k - 1) = k
          BY <4>5, <1>0
        <5>2. QED
          BY <3>2, <4>2, <5>1
      <4>6. QED
        BY <4>3, <4>4, <4>5, <1>0
    <3>8. QED
      BY <3>5, <3>6, <3>7 DEF Answering
  <2>5. QED
    <3>1. CASE Reads(p)
      BY <2>3, <3>1 DEF Reads, Answering
    <3>2. CASE Sends(p)
      BY <2>3, <3>2 DEF Sends, Answering
    <3>3. QED
      BY <1>2, <2>2, <2>4, <3>1, <3>2 DEF Moves
<1>3. QED
  BY <1>1, <1>2, OneMoves

(* Every step keeps fresh checks the checks of what is there.              *)
LEMMA FreshStep ==
  ASSUME TypeInv, [Next]_vars, FreshInv
  PROVE  FreshInv'
<1> SUFFICES ASSUME NEW p \in fresh', (op[p].pc = "read" \/ Checked(p))'
             PROVE  op'[p].read = disk'
  BY DEF FreshInv
<1>0. fresh \subseteq Proc
  BY DEF TypeInv, TypeOK
<1>1. CASE UNCHANGED <<op, answered>> /\ Still
  BY <1>1 DEF Still, FreshInv, Checked
<1>2. ASSUME NEW q \in Proc, Moves(q), ~Replaced PROVE op'[p].read = disk'
  <2>1. CASE p # q
    <3>1. p \in fresh /\ disk' = disk /\ p \in Proc
      BY <1>0, <1>2, <2>1 DEF Moves, Reads, Sends, GoesOn, Gets, Still
    <3>2. op'[p] = op[p]
      BY <1>2, <2>1, <3>1 DEF Moves, Alone
    <3>3. QED
      BY <3>1, <3>2 DEF FreshInv, Checked
  <2>2. CASE p = q /\ Reads(q)
    BY <2>2 DEF Reads
  <2>3. CASE p = q /\ Sends(q)
    BY <2>3 DEF Sends, Checked
  <2>4. CASE p = q /\ (GoesOn(q) \/ Gets(q))
    <3>1. p \in fresh /\ disk' = disk /\ Checked(p)' /\ op'[p].read = op[p].read
      BY <2>4 DEF GoesOn, Gets, Still, Answering
    <3>2. op[p].pc = "read" \/ Checked(p)
      BY <2>4, <3>1 DEF GoesOn, Gets, FoundMissing, TakeVerdict, Busy
    <3>3. QED
      BY <3>1, <3>2 DEF FreshInv
  <2>5. QED
    BY <1>2, <2>1, <2>2, <2>3, <2>4 DEF Moves
<1>3. ~Replaced
  BY DEF Replaced
<1>4. QED
  BY <1>1, <1>2, <1>3, OneMoves

(* Every step keeps whoever read after a fresh check fresh.                *)
LEMMA OrderStep ==
  ASSUME TypeInv, [Next]_vars, AnswersInv, OrderInv
  PROVE  OrderInv'
<1> DEFINE InQueue == \A i, j \in DOMAIN answers :
                        (/\ i < j /\ answers[i] \in fresh
                         /\ op[answers[i]].pc = "read" /\ op[answers[j]].pc = "read")
                          => answers[j] \in fresh
           Past == \A p \in fresh, q \in Proc :
                     Checked(p) /\ op[q].pc = "read" => q \in fresh
<1> SUFFICES ASSUME ~crossed' PROVE InQueue' /\ Past'
  BY DEF OrderInv
<1>0. /\ answers \in Seq(Proc) /\ DOMAIN answers = 1..Len(answers)
      /\ crossed \in BOOLEAN /\ fresh \subseteq Proc
  BY DEF TypeInv, TypeOK
<1>1. CASE Replaced
  BY <1>1 DEF Replaced
<1>2. CASE UNCHANGED <<op, answered>> /\ Still
  BY <1>2 DEF Still, OrderInv, answered, Checked
<1>3. ASSUME NEW p \in Proc, Moves(p), ~Replaced PROVE InQueue' /\ Past'
  <2>0. \A q \in Proc \ {p} : op'[q] = op[q] /\ (Checked(q)' = Checked(q))
    BY <1>3 DEF Moves, Alone, Checked
  <2>1. ~crossed
    <3>1. CASE Gets(p)
      BY <1>0, <3>1 DEF Gets, Receive
    <3>2. CASE ~Gets(p)
      BY <1>3, <3>2 DEF Moves, Reads, Sends, GoesOn, Answer, answered
    <3>3. QED
      BY <3>1, <3>2
  <2>2. InQueue /\ Past
    BY <2>1 DEF OrderInv
  <2>3. CASE Reads(p)
    <3>1. /\ DOMAIN answers' = 1..(Len(answers) + 1)
          /\ \A j \in 1..Len(answers) : answers'[j] = answers[j]
          /\ answers'[Len(answers) + 1] = p
      BY <2>3, <1>0 DEF Reads, Answer
    <3>2. \A j \in 1..Len(answers) : answers[j] \in Proc \ {p}
      BY <2>3, <1>0 DEF Reads, AnswersInv, Answering
    <3>3. /\ fresh' = fresh \cup {p} /\ ~Checked(p)'
      BY <2>3 DEF Reads, Checked
    <3>4. InQueue'
      <4> SUFFICES ASSUME NEW i \in DOMAIN answers', NEW j \in DOMAIN answers',
                          i < j, answers'[i] \in fresh',
                          op'[answers'[i]].pc = "read", op'[answers'[j]].pc = "read"
                   PROVE  answers'[j] \in fresh'
        OBVIOUS
      <4>1. CASE j = Len(answers) + 1
        BY <3>1, <3>3, <4>1
      <4>2. CASE j # Len(answers) + 1
        <5>1. /\ i \in 1..Len(answers) /\ j \in 1..Len(answers)
              /\ answers'[i] = answers[i] /\ answers'[j] = answers[j]
          BY <3>1, <4>2, <1>0
        <5>2. /\ op[answers[i]].pc = "read" /\ op[answers[j]].pc = "read"
              /\ answers[i] \in fresh
          BY <2>0, <3>2, <3>3, <5>1
        <5>3. answers[j] \in fresh
          BY <2>2, <5>1, <5>2, <1>0
        <5>4. QED
          BY <3>3, <5>1, <5>3
      <4>3. QED
        BY <4>1, <4>2
    <3>5. Past'
      <4> SUFFICES ASSUME NEW a \in fresh', NEW b \in Proc,
                          Checked(a)', op'[b].pc = "read"
                   PROVE  b \in fresh'
        OBVIOUS
      <4>1. CASE b = p
        BY <3>3, <4>1
      <4>2. CASE b # p
        <5>1. a # p /\ a \in fresh /\ a \in Proc
          BY <1>0, <3>3
        <5>2. Checked(a) /\ op[b].pc = "read"
          BY <2>0, <4>2, <5>1
        <5>3. QED
          BY <2>2, <3>3, <5>1, <5>2
      <4>3. QED
        BY <4>1, <4>2
    <3>6. QED
      BY <3>4, <3>5
  <2>4. CASE Sends(p)
    <3>1. /\ DOMAIN answers' = 1..(Len(answers) + 1)
          /\ \A j \in 1..Len(answers) : answers'[j] = answers[j]
          /\ answers'[Len(answers) + 1] = p
      BY <2>4, <1>0 DEF Sends, Answer
    <3>2. \A j \in 1..Len(answers) : answers[j] \in Proc \ {p}
      BY <2>4, <1>0 DEF Sends, AnswersInv
    <3>3. fresh' = fresh /\ op'[p].pc # "read" /\ ~Checked(p)'
      BY <1>3, <2>4 DEF Sends, Still, Checked
    <3>4. InQueue'
      <4> SUFFICES ASSUME NEW i \in DOMAIN answers', NEW j \in DOMAIN answers',
                          i < j, answers'[i] \in fresh',
                          op'[answers'[i]].pc = "read", op'[answers'[j]].pc = "read"
                   PROVE  answers'[j] \in fresh'
        OBVIOUS
      <4>1. j # Len(answers) + 1
        BY <3>1, <3>3
      <4>2. /\ i \in 1..Len(answers) /\ j \in 1..Len(answers)
            /\ answers'[i] = answers[i] /\ answers'[j] = answers[j]
        BY <3>1, <4>1, <1>0
      <4>3. op[answers[i]].pc = "read" /\ op[answers[j]].pc = "read"
        BY <2>0, <3>2, <4>2
      <4>4. QED
        BY <2>2, <3>3, <4>2, <4>3, <1>0
    <3>5. Past'
      BY <2>0, <2>2, <3>3, <1>0
    <3>6. QED
      BY <3>4, <3>5
  <2>5. CASE GoesOn(p)
    <3>1. /\ fresh' = fresh /\ answers' = answers
          /\ op'[p].pc # "read" /\ op[p].pc # "read"
          /\ Checked(p)' => Checked(p)
      BY <2>5 DEF GoesOn, Still, answered, Answering
    <3>2. \A q \in Proc : (op'[q].pc = "read") = (op[q].pc = "read")
      BY <2>0, <3>1
    <3>3. InQueue'
      <4>1. \A j \in 1..Len(answers) : answers[j] \in Proc
        BY <1>0
      <4>2. QED
        BY <2>2, <3>1, <3>2, <4>1, <1>0
    <3>4. Past'
      BY <2>0, <2>2, <3>1, <3>2, <1>0
    <3>5. QED
      BY <3>3, <3>4
  <2>6. CASE Gets(p)
    <3>1. PICK i \in 1..Len(answers) :
            /\ answers[i] = p /\ crossed' = (crossed \/ i # 1)
            /\ DOMAIN answers' = 1..(Len(answers) - 1)
            /\ \A j \in 1..(Len(answers) - 1) :
                 answers'[j] = answers[IF j < i THEN j ELSE j + 1]
      BY <2>6, AnswerTaken DEF Gets
    <3>2. i = 1
      BY <3>1
    <3>3. /\ DOMAIN answers' = 1..(Len(answers) - 1)
          /\ \A j \in 1..(Len(answers) - 1) : answers'[j] = answers[j + 1]
      BY <3>1, <3>2, <1>0
    <3>4. /\ fresh' = fresh /\ op'[p].pc # "read"
          /\ Checked(p)' => op[p].pc = "read"
      BY <2>6 DEF Gets, Still, Answering, FoundMissing, TakeVerdict, Busy
    <3>5. \A q \in Proc : op'[q].pc = "read" => op[q].pc = "read"
      BY <2>0, <3>4
    <3>6. InQueue'
      <4> SUFFICES ASSUME NEW k \in DOMAIN answers', NEW j \in DOMAIN answers',
                          k < j, answers'[k] \in fresh',
                          op'[answers'[k]].pc = "read", op'[answers'[j]].pc = "read"
                   PROVE  answers'[j] \in fresh'
        OBVIOUS
      <4>1. /\ k + 1 \in 1..Len(answers) /\ j + 1 \in 1..Len(answers)
            /\ k + 1 < j + 1
            /\ answers'[k] = answers[k + 1] /\ answers'[j] = answers[j + 1]
        BY <3>3, <1>0
      <4>2. answers[k + 1] \in Proc /\ answers[j + 1] \in Proc
        BY <4>1, <1>0
      <4>3. op[answers[k + 1]].pc = "read" /\ op[answers[j + 1]].pc = "read"
        BY <3>5, <4>1, <4>2
      <4>4. QED
        BY <2>2, <3>4, <4>1, <4>3, <1>0
    <3>7. Past'
      <4> SUFFICES ASSUME NEW a \in fresh', NEW b \in Proc,
                          Checked(a)', op'[b].pc = "read"
                   PROVE  b \in fresh'
        OBVIOUS
      <4>1. b # p /\ op[b].pc = "read" /\ a \in Proc /\ a \in fresh
        BY <3>4, <3>5, <1>0
      <4>2. CASE a # p
        BY <2>0, <2>2, <3>4, <4>1, <4>2
      <4>3. CASE a = p
        <5>1. PICK j \in 1..Len(answers) : answers[j] = b
          BY <4>1, <1>0 DEF AnswersInv, Answering
        <5>2. 1 < j
          BY <3>1, <3>2, <4>1, <5>1, <1>0
        <5>3. op[answers[1]].pc = "read" /\ answers[1] \in fresh
          BY <3>1, <3>2, <3>4, <4>1, <4>3
        <5>4. QED
          BY <2>2, <3>1, <3>2, <3>4, <4>1, <5>1, <5>2, <5>3, <1>0
      <4>4. QED
        BY <4>2, <4>3
    <3>8. QED
      BY <3>6, <3>7
  <2>7. QED
    BY <1>3, <2>3, <2>4, <2>5, <2>6 DEF Moves
<1>4. QED
  BY <1>1, <1>2, <1>3, OneMoves

-----------------------------------------------------------------------------
(* What the tab has held.                                                  *)
Held(t) == Cells(t) \subseteq shown

KnownOp(o) ==
  /\ o.pc \in {"reading", "read", "failed"} => Seen(o.base)
  /\ o.pc \in {"writing", "written"} => Held(o.text)
  /\ o.pc \in {"parking", "parked"} /\ o.kind = "keep" => o.text = o.read
  /\ o.pc = "parked" => o.text \in parked

KnownTab ==
  /\ Held(editor) /\ Held(content) /\ Seen(base)
  /\ <<Form, Canonical>> \in shown

KnownInv == KnownTab /\ \A p \in Proc : KnownOp(op[p])

(* The same of a text known now, after the step.                           *)
HeldThen(t) == Cells(t) \subseteq shown'
SeenThen(t) ==
  \A r \in Region : <<r, t[r]>> \in shown' \/ \E u \in parked' : u[r] = t[r]
KnownThen(o) ==
  /\ o.pc \in {"reading", "read", "failed"} => SeenThen(o.base)
  /\ o.pc \in {"writing", "written"} => HeldThen(o.text)
  /\ o.pc \in {"parking", "parked"} /\ o.kind = "keep" => o.text = o.read
  /\ o.pc = "parked" => o.text \in parked'

(* What was shown, parked or happened stays so.                            *)
LEMMA HistoryGrows ==
  ASSUME TypeInv, [Next]_vars
  PROVE  shown \subseteq shown' /\ parked \subseteq parked' /\ past \subseteq past'
<1> DEFINE Grows == shown \subseteq shown' /\ parked \subseteq parked' /\ past \subseteq past'
<1> USE DEF history
<1>1. CASE ExternalWrite
  BY <1>1 DEF ExternalWrite
<1>2. CASE ExternalRemove
  BY <1>2 DEF ExternalRemove
<1>3. CASE HandleChange \/ LoseEvent
  BY <1>3 DEF HandleChange, LoseEvent
<1>4. CASE HandleRemove
  BY <1>4 DEF HandleRemove, MarkRemovedOnDisk
<1>5. CASE Type
  BY <1>5 DEF Type
<1>6. CASE Notify
  BY <1>6 DEF Notify
<1>7. CASE SwitchAway
  BY <1>7 DEF SwitchAway
<1>8. CASE SwitchBack \/ CaptureActiveBuffer
  BY <1>8 DEF SwitchBack, CaptureActiveBuffer
<1>9. ASSUME NEW p \in Proc, TimerFires(p) \/ StartSave(p) \/ StartAuto(p)
      PROVE  Grows
  BY <1>9 DEF TimerFires, StartSave, StartAuto
<1>10. ASSUME NEW p \in Proc, NEW k \in {"keep", "theirs"}, StartResolve(p, k)
       PROVE  Grows
  BY <1>10 DEF StartResolve
<1>11. ASSUME NEW p \in Proc, ReadDisk(p) \/ ReadFails(p) \/ RetryRead(p)
       PROVE  Grows
  BY <1>11 DEF ReadDisk, ReadFails, RetryRead
<1>12. ASSUME NEW p \in Proc, GiveUp(p) PROVE Grows
  BY <1>12 DEF GiveUp
<1>13. ASSUME NEW p \in Proc, DropOutdated(p) \/ AskAgain(p) PROVE Grows
  BY <1>13 DEF DropOutdated, AskAgain
<1>14. ASSUME NEW p \in Proc, FoundMissing(p) PROVE Grows
  BY <1>14 DEF FoundMissing, MarkRemovedOnDisk
<1>15. ASSUME NEW p \in Proc, TakeVerdict(p) PROVE Grows
  <2> DEFINE a == DecideAction(Verdict(p), Format, dirty)
  <2>1. a.kind \in {"none", "reload", "applyMerge", "conflict"}
    BY <1>15, VerdictType, DecideType DEF TakeVerdict
  <2>2. shown \subseteq shown'
    BY <1>15, <2>1 DEF TakeVerdict, Show
  <2>3. QED
    BY <1>15, <2>2 DEF TakeVerdict
<1>16. ASSUME NEW p \in Proc,
              Select(p) \/ SendSelected(p) \/ WriteDisk(p) \/ WriteFails(p)
       PROVE  Grows
  BY <1>16 DEF Select, SendSelected, WriteDisk, WriteFails
<1>17. ASSUME NEW p \in Proc, SaveDone(p) PROVE Grows
  BY <1>17 DEF SaveDone
<1>18. ASSUME NEW p \in Proc, Park(p) \/ ParkFails(p) PROVE Grows
  BY <1>18 DEF Park, ParkFails
<1>19. ASSUME NEW p \in Proc, KeepMine(p) PROVE Grows
  BY <1>19 DEF KeepMine
<1>20. ASSUME NEW p \in Proc, UseTheirs(p) PROVE Grows
  BY <1>20 DEF UseTheirs, Show
<1>21. CASE UNCHANGED vars
  BY <1>21 DEF vars
<1>22. QED
  BY <1>1, <1>2, <1>3, <1>4, <1>5, <1>6, <1>7, <1>8, <1>9, <1>10, <1>11,
     <1>12, <1>13, <1>14, <1>15, <1>16, <1>17, <1>18, <1>19, <1>20, <1>21
     DEF Next, Watcher, User, Backend, Frontend

(* What is known stays known.                                              *)
LEMMA SeenStays ==
  ASSUME shown \subseteq shown', parked \subseteq parked'
  PROVE  /\ \A t : Held(t) => HeldThen(t) /\ SeenThen(t)
         /\ \A t : Seen(t) => SeenThen(t)
         /\ \A t : HeldThen(t) => SeenThen(t)
<1>1. \A t : Seen(t) => SeenThen(t)
  BY DEF Seen, SeenThen
<1>2. \A t : HeldThen(t) => SeenThen(t)
  BY DEF HeldThen, SeenThen, Cells
<1>3. \A t : Held(t) => HeldThen(t)
  BY DEF Held, HeldThen
<1>4. QED
  BY <1>1, <1>2, <1>3

(* An untouched handler is as known as before.                             *)
LEMMA OpStays ==
  ASSUME shown \subseteq shown', parked \subseteq parked'
  PROVE  \A o : KnownOp(o) => KnownThen(o)
  BY SeenStays DEF KnownOp, KnownThen

(* A merge without a clash keeps the other side, but where it changed      *)
(* nothing.                                                                *)
LEMMA MergeKeepsTheirs ==
  ASSUME NEW found \in Text, NEW b \in Text, NEW m \in Text,
         MergeExternal(found, b, m).outcome = "merged", NEW r \in Region
  PROVE  Combine(b, m, found)[r] = found[r] \/ found[r] = b[r]
<1>1. ~Clash(b, m, found)
  BY DEF MergeExternal
<1>2. QED
  BY <1>1 DEF Clash, Changed, Combine

(* What is loaded was shown.                                               *)
LEMMA ShownIsHeld ==
  ASSUME TypeInv, KnownTab, NEW t \in Text, Show(t), shown \subseteq shown'
  PROVE  HeldThen(t) /\ HeldThen(editor')
<1>1. HeldThen(t)
  BY DEF Show, HeldThen
<1>2. CASE active
  <2>1. editor' = Canon(t)
    BY <1>2 DEF Show, LoadIntoEditor
  <2>2. \A r \in Region : Canon(t)[r] = IF r = Form THEN Canonical ELSE t[r]
    BY DEF Canon, Text
  <2>3. \A r \in Region : <<r, Canon(t)[r]>> \in shown'
    BY <1>1, <2>2 DEF HeldThen, Cells, KnownTab
  <2>4. QED
    BY <1>1, <2>1, <2>3 DEF HeldThen, Cells
<1>3. CASE ~active
  BY <1>1, <1>3 DEF Show, editVars, KnownTab, Held, HeldThen
<1>4. QED
  BY <1>2, <1>3

(* A verdict applied leaves the bytes it is about known to the tab, or the *)
(* tab in conflict with them.                                              *)
LEMMA VerdictSettles ==
  ASSUME TypeInv, KnownInv, NEW p \in Proc, TakeVerdict(p),
         shown \subseteq shown', parked \subseteq parked'
  PROVE  /\ op[p].read \in Text
         /\ SeenThen(op[p].read) \/ diverged' = Diverged(op[p].read)
         /\ HeldThen(editor') /\ HeldThen(content') /\ SeenThen(base')
<1> DEFINE m == op[p].report
           v == Verdict(p)
           a == DecideAction(Verdict(p), Format, dirty)
<1>0. Busy(p, "read") /\ m.outcome # "missing"
  BY DEF TakeVerdict
<1>1. /\ op[p].base \in Text /\ op[p].mine \in Text
      /\ op[p].read \in Text \cup {NoText}
      /\ m = MergeExternal(op[p].read, op[p].base, op[p].mine)
  BY <1>0 DEF TypeInv, Good, Busy, Op
<1>2. op[p].read \in Text
  BY <1>0, <1>1 DEF MergeExternal
<1>3. /\ m.outcome = "unchanged" => op[p].read = op[p].base
      /\ m.outcome # "unchanged" => m.theirs = op[p].read
      /\ m.outcome = "merged" =>
           m.content = Combine(op[p].base, op[p].mine, op[p].read)
  BY <1>1, <1>2, NoTextAssumption DEF MergeExternal
<1>4. /\ v \in Report /\ v.outcome # "missing"
      /\ v.outcome # "unchanged" => v.theirs \in Text
      /\ v.outcome \in {"theirsOnly", "merged"} => v = m
  BY <1>0, VerdictType
<1>5. /\ v.outcome = "unchanged" => m.outcome = "unchanged"
      /\ v.outcome # "unchanged" => v.theirs = op[p].read
  BY <1>3 DEF Verdict, Raced, ReplacesBuffer
<1>6. /\ a.kind \in {"none", "reload", "applyMerge", "conflict"}
      /\ a.kind \in {"reload", "applyMerge"} => a.text \in Text
      /\ a.kind = "none" => v.outcome = "unchanged"
      /\ a.kind # "none" => v.outcome # "unchanged" /\ a.theirs = v.theirs
      /\ a.kind = "reload" => a.text = a.theirs
      /\ a.kind = "applyMerge" => v.outcome = "merged" /\ a.text = v.content
  <2>1. v.outcome = "unchanged" <=> a.kind = "none"
    BY DEF DecideAction, None, Reload, Merge, Conflict
  <2>2. v.outcome # "unchanged" => v.theirs # NoText
    BY <1>4, NoTextAssumption
  <2>3. v.outcome # "unchanged" => a.theirs = v.theirs
    BY <2>2 DEF DecideAction, None, Reload, Merge, Conflict
  <2>4. QED
    BY <1>4, <2>1, <2>3, DecideType
<1>7. Seen(op[p].base)
  BY <1>0 DEF KnownInv, KnownOp, Busy
<1>8. Held(editor) /\ Held(content) /\ Seen(base)
  BY DEF KnownInv, KnownTab
<1>9. CASE a.kind = "none"
  <2>1. op[p].read = op[p].base
    BY <1>3, <1>5, <1>6, <1>9
  <2>2. editor' = editor /\ content' = content /\ base' = base
    BY <1>9 DEF TakeVerdict, editVars
  <2>3. QED
    BY <1>2, <1>7, <1>8, <2>1, <2>2, SeenStays
<1>10. CASE a.kind = "conflict"
  <2>1. diverged' = Diverged(op[p].read)
    BY <1>5, <1>6, <1>10 DEF TakeVerdict
  <2>2. editor' = editor /\ content' = content /\ base' = base
    BY <1>10 DEF TakeVerdict, editVars
  <2>3. QED
    BY <1>2, <1>8, <2>1, <2>2, SeenStays
<1>11. CASE a.kind \in {"reload", "applyMerge"}
  <2>1. Show(a.text) /\ content' = a.text /\ base' = a.theirs
    BY <1>11 DEF TakeVerdict
  <2>2. a.theirs = op[p].read
    BY <1>5, <1>6, <1>11
  <2>3. HeldThen(a.text) /\ HeldThen(editor')
    BY <1>6, <1>11, <2>1, ShownIsHeld DEF KnownInv
  <2>4. SeenThen(op[p].read)
    <3>1. CASE a.kind = "reload"
      BY <1>6, <2>2, <2>3, <3>1, SeenStays
    <3>2. CASE a.kind = "applyMerge"
      <4>1. /\ m.outcome = "merged"
            /\ a.text = Combine(op[p].base, op[p].mine, op[p].read)
        BY <1>3, <1>4, <1>6, <3>2
      <4>2. \A r \in Region :
              a.text[r] = op[p].read[r] \/ op[p].read[r] = op[p].base[r]
        BY <1>1, <1>2, <4>1, MergeKeepsTheirs
      <4>3. SeenThen(a.text) /\ SeenThen(op[p].base)
        BY <1>7, <2>3, SeenStays
      <4>4. QED
        BY <4>2, <4>3 DEF SeenThen
    <3>3. QED
      BY <1>11, <3>1, <3>2
  <2>5. QED
    BY <1>2, <2>1, <2>2, <2>3, <2>4
<1>12. QED
  BY <1>6, <1>9, <1>10, <1>11

(* A handler that goes on to write has a text the tab holds.               *)
LEMMA ReturnKnown ==
  ASSUME TypeInv, NEW p \in Proc, NEW b \in BOOLEAN, Return(p, b),
         HeldThen(editor'), HeldThen(content')
  PROVE  Alone(p) /\ KnownThen(op'[p])
<1> DEFINE o == [op[p] EXCEPT !.applied = b]
<1>1. o \in Op /\ op \in [Proc -> Op]
  BY ZenonT(60) DEF TypeInv, TypeOK, Op
<1>2. op'[p] = CASE o.kind = "watch" -> Idle
                 [] o.kind = "save"  -> ThenSave(o)
                 [] OTHER            -> After(o, "checked", "auto")
  BY <1>1 DEF Return
<1> HIDE DEF o
<1>3. After(o, "checked", "auto").pc = "checked" /\ Idle.pc = "idle"
  BY <1>1, AfterOp DEF PCs, Idle
<1>4. \A k \in {"save", "saveTab"} : \A t :
        Writing(o, k, t).pc = "writing" /\ Writing(o, k, t).text = t
  BY <1>1, AfterOp DEF Writing, Op, PCs
<1>5. op'[p] \in {Idle, After(o, "checked", "auto"), Writing(o, "save", editor'),
                  Writing(o, "saveTab", content')}
  BY <1>2 DEF ThenSave
<1>6. KnownThen(op'[p])
  BY <1>3, <1>4, <1>5 DEF KnownThen
<1>7. QED
  BY <1>6, ReturnMoves

(* Every step keeps the tab, its base and its handlers known.              *)
LEMMA KnownStep ==
  ASSUME TypeInv, [Next]_vars, KnownInv
  PROVE  KnownInv'
<1>0. /\ shown \subseteq shown' /\ parked \subseteq parked'
      /\ op \in [Proc -> Op] /\ \A p \in Proc : KnownOp(op[p])
      /\ Held(editor) /\ Held(content) /\ Seen(base)
  BY HistoryGrows DEF TypeInv, TypeOK, KnownInv, KnownTab
<1>1. /\ HeldThen(editor) /\ HeldThen(content) /\ SeenThen(base)
      /\ \A p \in Proc : KnownThen(op[p])
      /\ \A t : HeldThen(t) => SeenThen(t)
  BY <1>0, SeenStays, OpStays
<1> DEFINE TabThen == HeldThen(editor') /\ HeldThen(content') /\ SeenThen(base')
           OpsThen == \A p \in Proc : KnownThen(op'[p])
<1>2. SUFFICES TabThen /\ OpsThen
  <2>1. <<Form, Canonical>> \in shown'
    BY <1>0 DEF KnownInv, KnownTab
  <2>2. ASSUME TabThen, OpsThen PROVE KnownInv'
    BY <2>1, <2>2 DEF KnownInv, KnownTab, KnownOp, Seen, Held, SeenThen,
       HeldThen, KnownThen, Cells
  <2>3. QED
    BY <2>2
<1>3. ASSUME UNCHANGED op PROVE OpsThen
  BY <1>1, <1>3
<1>4. ASSUME NEW p \in Proc, Alone(p), KnownThen(op'[p]) PROVE OpsThen
  BY <1>1, <1>4 DEF Alone
<1>5. ASSUME UNCHANGED <<editor, content, base>> PROVE TabThen
  BY <1>1, <1>5
<1>6. ASSUME editor' = editor, content' \in {content, editor}, base' = base
      PROVE  TabThen
  BY <1>1, <1>6
<1>7. Idle.pc = "idle" /\ KnownThen(Idle)
  BY DEF Idle, KnownThen
<1>8. ASSUME NEW p \in Proc, op' = [op EXCEPT ![p] = Idle] PROVE OpsThen
  <2>1. Alone(p) /\ op'[p] = Idle
    BY <1>0, <1>8 DEF Alone
  <2>2. QED
    BY <1>4, <1>7, <2>1
<1>9. \A k : KnownThen(Reading(k))
  <2>1. \A k : Reading(k).pc = "reading" /\ Reading(k).base = base
    BY DEF Reading, Idle
  <2>2. QED
    BY <1>1, <2>1 DEF KnownThen
<1>10. ASSUME NEW p \in Proc, NEW k, Start(p, k) PROVE OpsThen
  <2>1. Alone(p) /\ op'[p] = Reading(k)
    BY <1>0, <1>10 DEF Alone, Start
  <2>2. QED
    BY <1>4, <1>9, <2>1
<1> USE DEF diskVars, editVars, tabVars, history, Busy
<1>11. CASE ExternalWrite \/ ExternalRemove \/ HandleChange \/ HandleRemove \/ LoseEvent
  <2>1. UNCHANGED <<editor, content, base, op>>
    BY <1>11 DEF ExternalWrite, ExternalRemove, HandleChange, HandleRemove, LoseEvent
  <2>2. QED
    BY <1>3, <1>5, <2>1
<1>12. CASE Type
  <2>1. PICK r \in Region \ {Form}, v \in Val :
          /\ editor' = [editor EXCEPT ![r] = v]
          /\ shown' = shown \cup {<<r, v>>}
    BY <1>12 DEF Type
  <2>2. editor \in [Region -> Val]
    BY DEF TypeInv, TypeOK, EditorText, Text
  <2>3. HeldThen(editor')
    BY <1>1, <2>1, <2>2 DEF HeldThen, Cells
  <2>4. content' = content /\ base' = base /\ UNCHANGED op
    BY <1>12 DEF Type
  <2>5. QED
    BY <1>1, <1>3, <2>3, <2>4
<1>13. CASE Notify \/ SwitchAway \/ CaptureActiveBuffer
  <2>1. editor' = editor /\ content' \in {content, editor} /\ base' = base
    BY <1>13 DEF Notify, SwitchAway, CaptureActiveBuffer
  <2>2. UNCHANGED op
    BY <1>13 DEF Notify, SwitchAway, CaptureActiveBuffer
  <2>3. QED
    BY <1>3, <1>6, <2>1, <2>2
<1>14. CASE SwitchBack
  <2>1. editor' = Canon(content) /\ UNCHANGED <<content, base, op>>
    BY <1>14 DEF SwitchBack, LoadIntoEditor
  <2>2. content \in Text
    BY DEF TypeInv, TypeOK
  <2>3. \A r \in Region : Canon(content)[r] = IF r = Form THEN Canonical ELSE content[r]
    BY <2>2 DEF Canon, Text
  <2>4. <<Form, Canonical>> \in shown'
    BY <1>0 DEF KnownInv, KnownTab
  <2>5. HeldThen(Canon(content))
    BY <1>1, <2>3, <2>4 DEF HeldThen, Cells
  <2>6. QED
    BY <1>1, <1>3, <2>1, <2>5
<1>15. ASSUME NEW p \in Proc, TimerFires(p) \/ StartSave(p) \/ StartAuto(p)
       PROVE  TabThen /\ OpsThen
  <2>1. PICK k : Start(p, k)
    BY <1>15 DEF TimerFires, StartSave, StartAuto
  <2>2. editor' = editor /\ content' \in {content, editor} /\ base' = base
    BY <1>15 DEF TimerFires, StartSave, StartAuto
  <2>3. QED
    BY <1>6, <1>10, <2>1, <2>2
<1>16. ASSUME NEW p \in Proc, ReadDisk(p) PROVE TabThen /\ OpsThen
  <2>1. UNCHANGED <<editor, content, base>>
    BY <1>16 DEF ReadDisk
  <2>2. Alone(p) /\ op'[p].pc = "read" /\ op'[p].base = op[p].base /\ op[p].pc = "reading"
    BY <1>0, <1>16 DEF ReadDisk, Alone, Op
  <2>3. KnownThen(op'[p])
    BY <1>1, <2>2 DEF KnownThen
  <2>4. QED
    BY <1>4, <1>5, <2>1, <2>2, <2>3
<1>17. ASSUME NEW p \in Proc, ReadFails(p) \/ RetryRead(p) PROVE TabThen /\ OpsThen
  <2>1. UNCHANGED <<editor, content, base>>
    BY <1>17 DEF ReadFails, RetryRead
  <2>2. /\ Alone(p) /\ op'[p].pc \in {"reading", "failed"}
        /\ SeenThen(op'[p].base)
    <3>1. CASE ReadFails(p)
      <4>1. Alone(p) /\ op'[p].pc = "failed" /\ op'[p].base = op[p].base /\ op[p].pc = "reading"
        BY <1>0, <3>1 DEF ReadFails, Alone, Op
      <4>2. QED
        BY <1>1, <4>1 DEF KnownThen
    <3>2. CASE RetryRead(p)
      <4>1. Alone(p) /\ op'[p].pc = "reading" /\ op'[p].base = base
        BY <1>0, <3>2 DEF RetryRead, Alone, Op
      <4>2. QED
        BY <1>1, <4>1
    <3>3. QED
      BY <1>17, <3>1, <3>2
  <2>3. KnownThen(op'[p])
    BY <2>2 DEF KnownThen
  <2>4. QED
    BY <1>4, <1>5, <2>1, <2>2, <2>3
<1>18. ASSUME NEW p \in Proc, GiveUp(p) \/ DropOutdated(p) \/ FoundMissing(p)
       PROVE  TabThen /\ OpsThen
  <2>1. UNCHANGED <<editor, content, base>> /\ \E b \in BOOLEAN : Return(p, b)
    BY <1>18 DEF GiveUp, DropOutdated, FoundMissing
  <2>2. TabThen
    BY <1>5, <2>1
  <2>3. Alone(p) /\ KnownThen(op'[p])
    BY <2>1, <2>2, ReturnKnown
  <2>4. QED
    BY <1>4, <2>2, <2>3
<1>19. ASSUME NEW p \in Proc, AskAgain(p) PROVE TabThen /\ OpsThen
  <2>1. UNCHANGED <<editor, content, base>>
    BY <1>19 DEF AskAgain
  <2>2. Alone(p) /\ op'[p].pc = "reading" /\ op'[p].base = base
    BY <1>0, <1>19 DEF AskAgain, Alone, Op
  <2>3. KnownThen(op'[p])
    BY <1>1, <2>2 DEF KnownThen
  <2>4. QED
    BY <1>4, <1>5, <2>1, <2>2, <2>3
<1>20. ASSUME NEW p \in Proc, TakeVerdict(p) PROVE TabThen /\ OpsThen
  <2>1. TabThen
    BY <1>0, <1>20, VerdictSettles
  <2>2. Return(p, TRUE)
    BY <1>20 DEF TakeVerdict
  <2>3. Alone(p) /\ KnownThen(op'[p])
    BY <2>1, <2>2, ReturnKnown
  <2>4. QED
    BY <1>4, <2>1, <2>3
<1>21. ASSUME NEW p \in Proc, Select(p) PROVE TabThen /\ OpsThen
  <2>1. editor' = editor /\ content' \in {content, editor} /\ base' = base
    BY <1>21 DEF Select
  <2>2. After(op[p], "selected", "auto").pc = "selected"
    BY <1>0, AfterOp DEF PCs
  <2>3. Alone(p) /\ op'[p].pc \in {"idle", "selected"}
    BY <1>0, <1>7, <1>21, <2>2 DEF Select, Alone
  <2>4. KnownThen(op'[p])
    BY <2>3 DEF KnownThen
  <2>5. QED
    BY <1>4, <1>6, <2>1, <2>3, <2>4
<1>22. ASSUME NEW p \in Proc, SendSelected(p) PROVE TabThen /\ OpsThen
  <2>1. UNCHANGED <<editor, content, base>>
    BY <1>22 DEF SendSelected
  <2>2. /\ Writing(op[p], "auto", content).pc = "writing"
        /\ Writing(op[p], "auto", content).text = content
    BY <1>0, AfterOp DEF Writing, Op, PCs
  <2>3. KnownThen(Writing(op[p], "auto", content))
    BY <1>1, <2>2 DEF KnownThen
  <2>4. Alone(p) /\ op'[p] \in {Idle, Writing(op[p], "auto", content)}
    BY <1>0, <1>22 DEF SendSelected, Alone
  <2>5. QED
    BY <1>4, <1>5, <1>7, <2>1, <2>3, <2>4
<1>23. ASSUME NEW p \in Proc, WriteDisk(p) PROVE TabThen /\ OpsThen
  <2>1. UNCHANGED <<editor, content, base>>
    BY <1>23 DEF WriteDisk
  <2>2. Alone(p) /\ op'[p].pc = "written" /\ op'[p].text = op[p].text /\ op[p].pc = "writing"
    BY <1>0, <1>23 DEF WriteDisk, Alone, Op
  <2>3. KnownThen(op'[p])
    BY <1>1, <2>2 DEF KnownThen
  <2>4. QED
    BY <1>4, <1>5, <2>1, <2>2, <2>3
<1>24. ASSUME NEW p \in Proc, WriteFails(p) \/ ParkFails(p) PROVE TabThen /\ OpsThen
  <2>1. UNCHANGED <<editor, content, base>> /\ op' = [op EXCEPT ![p] = Idle]
    BY <1>24 DEF WriteFails, ParkFails
  <2>2. QED
    BY <1>5, <1>8, <2>1
<1>25. ASSUME NEW p \in Proc, SaveDone(p) PROVE TabThen /\ OpsThen
  <2>1. HeldThen(SavedText(p))
    BY <1>1, <1>25 DEF SaveDone, SavedText, KnownThen
  <2>2. /\ editor' = editor /\ content' = SavedText(p) /\ base' = SavedText(p)
        /\ op' = [op EXCEPT ![p] = Idle]
    BY <1>25 DEF SaveDone
  <2>3. QED
    BY <1>1, <1>8, <2>1, <2>2
<1>26. ASSUME NEW p \in Proc, NEW k \in {"keep", "theirs"}, StartResolve(p, k)
       PROVE  TabThen /\ OpsThen
  <2> DEFINE t == IF k = "keep" THEN diverged.theirs ELSE Mine
             n == Parking(k, diverged.theirs, t)
  <2>1. UNCHANGED <<editor, content, base>>
    BY <1>26 DEF StartResolve
  <2>2. n.pc = "parking" /\ n.kind = k /\ n.read = diverged.theirs /\ n.text = t
    BY DEF Parking, Idle
  <2>3. Alone(p) /\ op'[p] = n
    BY <1>0, <1>26 DEF StartResolve, Alone
  <2>4. KnownThen(n)
    BY <2>2 DEF KnownThen
  <2>5. QED
    BY <1>4, <1>5, <2>1, <2>3, <2>4
<1>27. ASSUME NEW p \in Proc, Park(p) PROVE TabThen /\ OpsThen
  <2>1. UNCHANGED <<editor, content, base>>
    BY <1>27 DEF Park
  <2>2. /\ Alone(p) /\ op'[p].pc = "parked" /\ op'[p].text = op[p].text
        /\ op'[p].read = op[p].read /\ op'[p].kind = op[p].kind
        /\ op[p].pc = "parking" /\ op[p].text \in parked'
    BY <1>0, <1>27 DEF Park, Alone, Op
  <2>3. KnownThen(op'[p])
    BY <1>1, <2>2 DEF KnownThen
  <2>4. QED
    BY <1>4, <1>5, <2>1, <2>2, <2>3
<1>28. ASSUME NEW p \in Proc, KeepMine(p) PROVE TabThen /\ OpsThen
  <2>1. /\ editor' = editor /\ content' = content /\ base' = op[p].read
        /\ op' = [op EXCEPT ![p] = Idle]
    BY <1>28 DEF KeepMine
  <2>2. op[p].read \in parked'
    BY <1>1, <1>28 DEF KeepMine, KnownThen
  <2>3. SeenThen(op[p].read)
    BY <2>2 DEF SeenThen
  <2>4. QED
    BY <1>1, <1>8, <2>1, <2>3
<1>29. ASSUME NEW p \in Proc, UseTheirs(p) PROVE TabThen /\ OpsThen
  <2>1. /\ Show(op[p].read) /\ content' = op[p].read /\ base' = op[p].read
        /\ op' = [op EXCEPT ![p] = Idle]
    BY <1>29 DEF UseTheirs
  <2>2. op[p].read \in Text
    BY <1>29 DEF UseTheirs, TypeInv, Good
  <2>3. HeldThen(op[p].read) /\ HeldThen(editor')
    BY <1>0, <2>1, <2>2, ShownIsHeld DEF KnownInv
  <2>4. QED
    BY <1>1, <1>8, <2>1, <2>3
<1>30. CASE UNCHANGED vars
  <2>1. UNCHANGED <<editor, content, base, op>>
    BY <1>30 DEF vars
  <2>2. QED
    BY <1>3, <1>5, <2>1
<1>31. QED
  BY <1>11, <1>12, <1>13, <1>14, <1>15, <1>16, <1>17, <1>18, <1>19, <1>20,
     <1>21, <1>22, <1>23, <1>24, <1>25, <1>26, <1>27, <1>28, <1>29, <1>30
     DEF Next, Watcher, User, Backend, Frontend

-----------------------------------------------------------------------------
(* What a check that was applied leaves behind, until its handler writes.  *)
Accounted(p) ==
  \/ op[p].read = NoText \/ Seen(op[p].read)
  \/ /\ op[p].pc = "checked"
     /\ \/ diverged = Diverged(op[p].read)
        \/ diverged = Unreadable /\ "masked" \in past

CheckedInv == ~Misled => \A p \in fresh : Checked(p) => Accounted(p)

(* Who was misled stays so.                                                *)
LEMMA MisledStays ==
  ASSUME TypeInv, [Next]_vars, Misled
  PROVE  Misled'
<1>1. past \subseteq past'
  BY HistoryGrows
<1>2. crossed => crossed'
  <2>1. ASSUME NEW p \in Proc, Moves(p) PROVE crossed => crossed'
    BY <2>1, AnswerTaken DEF Moves, Reads, Sends, GoesOn, Gets, Answer, answered
  <2>2. QED
    BY <2>1, OneMoves DEF answered
<1>3. QED
  BY <1>1, <1>2 DEF Misled

(* Every step keeps what a check leaves behind, unless it is misled.       *)
LEMMA CheckedStep ==
  ASSUME TypeInv, TypeInv', [Next]_vars, KnownInv, FreshInv, OrderInv, CheckedInv
  PROVE  CheckedInv'
<1> SUFFICES ASSUME ~Misled', NEW p \in fresh', Checked(p)'
             PROVE  Accounted(p)'
  BY DEF CheckedInv
<1>0. /\ ~Misled /\ ~crossed /\ ~crossed'
      /\ shown \subseteq shown' /\ parked \subseteq parked' /\ past \subseteq past'
      /\ p \in Proc /\ op \in [Proc -> Op] /\ op' \in [Proc -> Op]
  BY MisledStays, HistoryGrows DEF Misled, TypeInv, TypeOK
<1> DEFINE Settled(t) == t = NoText \/ SeenThen(t)
           Flagged(t) == \/ diverged' = Diverged(t)
                         \/ diverged' = Unreadable /\ "masked" \in past'
<1>1. ASSUME Settled(op'[p].read) \/ (op'[p].pc = "checked" /\ Flagged(op'[p].read))
      PROVE  Accounted(p)'
  BY <1>1 DEF Accounted, Seen, SeenThen
<1>2. ASSUME TakeVerdict(p) \/ FoundMissing(p), op'[p].read = op[p].read,
             op'[p].pc # "checked" => ~BlocksWrite(diverged')
      PROVE  Accounted(p)'
  <2>1. CASE TakeVerdict(p)
    <3>1. SeenThen(op[p].read) \/ diverged' = Diverged(op[p].read)
      BY <1>0, <2>1, VerdictSettles
    <3>2. diverged' = Diverged(op[p].read) => BlocksWrite(diverged')
      BY DEF Diverged, BlocksWrite
    <3>3. QED
      BY <1>1, <1>2, <3>1, <3>2
  <2>2. CASE FoundMissing(p)
    <3>1. op[p].read = NoText
      <4>1. /\ op[p].pc = "read" /\ op[p].report.outcome = "missing"
            /\ op[p].report = MergeExternal(op[p].read, op[p].base, op[p].mine)
        BY <1>0, <2>2 DEF FoundMissing, Busy, TypeInv, Good
      <4>2. \A t, b, m : t # NoText => MergeExternal(t, b, m).outcome # "missing"
        BY DEF MergeExternal
      <4>3. QED
        BY <4>1, <4>2
    <3>2. QED
      BY <1>1, <1>2, <3>1
  <2>3. QED
    BY <1>2, <2>1, <2>2
<1>3. ASSUME p \in fresh, Checked(p), op'[p].read = op[p].read,
             GoesOn(p) \/ op'[p] = op[p]
      PROVE  Accounted(p)'
  <2>1. CASE op[p].read = NoText \/ Seen(op[p].read)
    BY <1>0, <1>1, <1>3, <2>1, SeenStays
  <2>2. CASE ~(op[p].read = NoText \/ Seen(op[p].read))
    <3>1. /\ op[p].pc = "checked"
          /\ \/ diverged = Diverged(op[p].read)
             \/ diverged = Unreadable /\ "masked" \in past
      BY <1>0, <1>3, <2>2 DEF CheckedInv, Accounted
    <3>2. op'[p] = op[p]
      BY <1>3, <3>1 DEF GoesOn, Undiverged, Diverged, Unreadable
    <3>3. ASSUME Settled(op[p].read) \/ Flagged(op[p].read) PROVE Accounted(p)'
      BY <1>1, <3>1, <3>2, <3>3
    <3>4. SUFFICES Settled(op[p].read) \/ Flagged(op[p].read)
      BY <3>3
    <3>5. ASSUME diverged' = diverged PROVE Flagged(op[p].read)
      BY <1>0, <3>1, <3>5
    <3>6. ASSUME MarkRemovedOnDisk PROVE Flagged(op[p].read)
      <4>1. CASE diverged = Diverged(op[p].read)
        BY <3>6, <4>1 DEF MarkRemovedOnDisk, Diverged
      <4>2. CASE diverged # Diverged(op[p].read)
        <5>1. {"masked", "removed"} \subseteq past'
          BY <1>0, <3>1, <3>6, <4>2 DEF MarkRemovedOnDisk
        <5>2. QED
          BY <5>1 DEF Misled
      <4>3. QED
        BY <4>1, <4>2
    <3>7. CASE Quiet
      BY <3>5, <3>7 DEF Quiet
    <3>8. CASE HandleRemove
      BY <3>6, <3>8 DEF HandleRemove
    <3>9. CASE Type \/ Notify \/ SwitchAway \/ SwitchBack
      BY <3>5, <3>9 DEF Type, Notify, SwitchAway, SwitchBack, tabVars
    <3>10. ASSUME NEW q \in Proc, GiveUp(q) PROVE Flagged(op[p].read)
      <4>1. CASE Outdated(q)
        BY <3>5, <3>10, <4>1 DEF GiveUp
      <4>2. CASE ~Outdated(q)
        <5>1. /\ diverged' = Unreadable
              /\ diverged.reason = "conflict" => "masked" \in past'
          BY <3>10, <4>2 DEF GiveUp
        <5>2. QED
          BY <1>0, <3>1, <5>1 DEF Diverged
      <4>3. QED
        BY <4>1, <4>2
    <3>11. ASSUME NEW q \in Proc, FoundMissing(q) PROVE Flagged(op[p].read)
      BY <3>6, <3>11 DEF FoundMissing
    <3>12. ASSUME NEW q \in Proc, AskAgain(q) \/ SaveDone(q)
           PROVE  Flagged(op[p].read)
      BY <3>5, <3>12 DEF AskAgain, SaveDone
    <3>13. ASSUME NEW q \in Proc, TakeVerdict(q)
           PROVE  Settled(op[p].read) \/ Flagged(op[p].read)
      <4>1. op[q].pc = "read"
        BY <3>13 DEF TakeVerdict, Busy
      <4>2. q \in fresh
        BY <1>0, <1>3, <4>1 DEF OrderInv
      <4>3. op[q].read = op[p].read
        BY <1>3, <4>1, <4>2 DEF FreshInv
      <4>4. SeenThen(op[q].read) \/ diverged' = Diverged(op[q].read)
        BY <1>0, <3>13, VerdictSettles
      <4>5. QED
        BY <4>3, <4>4
    <3>14. ASSUME NEW q \in Proc, ~ClearsAnother(q) PROVE op[q].read = op[p].read
      BY <3>1, <3>14 DEF ClearsAnother, Undiverged, Diverged, Unreadable
    <3>15. ASSUME NEW q \in Proc, KeepMine(q)
           PROVE  Settled(op[p].read) \/ Flagged(op[p].read)
      <4>1. ~ClearsAnother(q)
        BY <3>15 DEF KeepMine, Misled
      <4>2. op[q].read \in parked
        BY <3>15 DEF KeepMine, Busy, KnownInv, KnownOp
      <4>3. SeenThen(op[q].read)
        BY <1>0, <4>2 DEF SeenThen
      <4>4. QED
        BY <3>14, <4>1, <4>3
    <3>16. ASSUME NEW q \in Proc, UseTheirs(q)
           PROVE  Settled(op[p].read) \/ Flagged(op[p].read)
      <4>1. ~ClearsAnother(q)
        BY <3>16 DEF UseTheirs, Misled
      <4>2. HeldThen(op[q].read)
        BY <3>16 DEF UseTheirs, Show, HeldThen
      <4>3. QED
        BY <1>0, <3>14, <4>1, <4>2, SeenStays
    <3>17. QED
      BY <3>7, <3>8, <3>9, <3>10, <3>11, <3>12, <3>13, <3>15, <3>16,
         QuietOrLoud DEF Loud
  <2>3. QED
    BY <2>1, <2>2
<1>4. ASSUME NEW q \in Proc, Moves(q) PROVE Accounted(p)'
  <2>1. ~Replaced
    BY DEF Replaced
  <2>2. CASE q # p
    <3>1. op'[p] = op[p]
      BY <1>0, <1>4, <2>2 DEF Moves, Alone
    <3>2. p \in fresh
      BY <1>4, <2>1, <2>2 DEF Moves, Reads, Sends, GoesOn, Gets, Still
    <3>3. Checked(p)
      BY <3>1 DEF Checked
    <3>4. QED
      BY <1>3, <3>1, <3>2, <3>3
  <2>3. CASE q = p
    <3>1. ~Reads(p) /\ ~Sends(p)
      BY DEF Reads, Sends, Checked
    <3>2. CASE GoesOn(p)
      BY <1>3, <3>2 DEF GoesOn, Still
    <3>3. CASE Gets(p)
      BY <1>2, <3>3 DEF Gets
    <3>4. QED
      BY <1>4, <2>3, <3>1, <3>2, <3>3 DEF Moves
  <2>4. QED
    BY <2>2, <2>3
<1>5. CASE UNCHANGED <<op, answered>> /\ Still
  BY <1>3, <1>5 DEF Still, Checked
<1>6. QED
  BY <1>4, <1>5, OneMoves DEF Replaced

-----------------------------------------------------------------------------
UnseenInv == AnswersInv /\ FreshInv /\ OrderInv /\ KnownInv /\ CheckedInv

(* At the start the tab has held what is on disk, in both spellings.       *)
LEMMA UnseenInit == Init => UnseenInv
<1> SUFFICES ASSUME Init PROVE UnseenInv
  OBVIOUS
<1>1. /\ op = [p \in Proc |-> Idle] /\ answers = <<>> /\ fresh = {}
      /\ Idle.pc = "idle" /\ disk \in Text
      /\ content = disk /\ base = disk /\ editor = Canon(disk)
      /\ shown = Cells(disk) \cup Cells(Canon(disk))
  BY DEF Init, Idle, InitialText
<1>2. AnswersInv /\ FreshInv /\ OrderInv /\ CheckedInv
  BY <1>1 DEF AnswersInv, FreshInv, OrderInv, CheckedInv, Answering
<1>3. Canon(disk)[Form] = Canonical /\ Form \in Region
  BY <1>1, RegionAssumption DEF Canon, Text
<1>4. KnownTab
  BY <1>1, <1>3 DEF KnownTab, Held, Seen, Cells
<1>5. \A p \in Proc : KnownOp(op[p])
  BY <1>1 DEF KnownOp
<1>6. QED
  BY <1>2, <1>4, <1>5 DEF UnseenInv, KnownInv

(* No write of a handler whose check still stands replaces bytes that      *)
(* nobody has seen, for any number of handlers, edits, outside changes and *)
(* faults.                                                                 *)
THEOREM NothingUnseenOverwritten == Spec => UnseenSurvivesWrite
<1> DEFINE A == \A p \in Proc :
                  (/\ WriteDisk(p) /\ op[p].applied /\ p \in fresh
                   /\ disk # NoText /\ ~Misled)
                    => Seen(disk)
<1>1. FreshInv /\ CheckedInv => A
  <2> SUFFICES ASSUME FreshInv, CheckedInv, NEW p \in Proc, WriteDisk(p),
                      op[p].applied, p \in fresh, disk # NoText, ~Misled
               PROVE  Seen(disk)
    OBVIOUS
  <2>1. Checked(p) /\ op[p].pc = "writing"
    BY DEF WriteDisk, Busy, Checked
  <2>2. op[p].read = disk
    BY <2>1 DEF FreshInv
  <2>3. QED
    BY <2>1, <2>2 DEF CheckedInv, Accounted
<1>2. Spec => []TypeInv
  BY InitType, NextType, PTL DEF Spec
<1>3. TypeInv /\ TypeInv' /\ UnseenInv /\ [Next]_vars => UnseenInv'
  BY AnswersStep, FreshStep, OrderStep, KnownStep, CheckedStep DEF UnseenInv
<1>4. Spec => []UnseenInv
  BY <1>2, <1>3, UnseenInit, PTL DEF Spec
<1>5. UnseenInv => FreshInv /\ CheckedInv
  BY DEF UnseenInv
<1>6. QED
  BY <1>1, <1>4, <1>5, PTL DEF UnseenSurvivesWrite
=============================================================================
