----------------------------- MODULE SyncPolicy -----------------------------
(***************************************************************************)
(* The decisions Toril takes when a note changed on disk behind an open    *)
(* tab: whose bytes stand for "mine", what the three-way merge answers and *)
(* what is done with the answer.  Pure operators, no state.                *)
(*                                                                         *)
(* A text is a function from Region to Val.  A region is a stretch of      *)
(* lines far enough from the next one that the merge treats the two        *)
(* separately; its value is whatever stands there.  One region, Form, is   *)
(* the spelling of the file: the editor can hold only the Canonical        *)
(* spelling, so serialising a document that came from a file spelled       *)
(* otherwise gives a text different from the file, with no user edit.      *)
(***************************************************************************)
CONSTANTS
  Region,       \* the mergeable stretches of a text
  Val,          \* what may stand in a region
  Form,         \* the region that stands for the spelling of the file
  Spelling,     \* what may stand there
  Canonical,    \* the spelling the serialiser produces
  NoText        \* "no bytes": a null string, or a file that is not there

ASSUME RegionAssumption == Form \in Region /\ Region # {Form}
ASSUME ValAssumption    == Canonical \in Spelling /\ Spelling \subseteq Val

Text == {t \in [Region -> Val] : t[Form] \in Spelling}
ASSUME NoTextAssumption == NoText \notin Text

Formats == {"markdown", "html"}

(* What is in the editor after loading t, and what it serialises to: the   *)
(* same words in the canonical spelling.                                   *)
Canon(t) == [t EXCEPT ![Form] = Canonical]

(* The texts the editor can hold.                                          *)
EditorText == {t \in Text : t[Form] = Canonical}

-----------------------------------------------------------------------------
(* diff3 over regions.                                                     *)

Changed(base, t) == {r \in Region : t[r] # base[r]}

(* A region both sides changed, and not to the same thing.                 *)
Clash(base, mine, theirs) ==
  \E r \in Changed(base, mine) \cap Changed(base, theirs) : mine[r] # theirs[r]

(* Mutant: the merge keeps my whole text.                                  *)
KeepAllMine(base, mine, theirs) == mine

Combine(base, mine, theirs) ==
  [r \in Region |-> IF mine[r] # base[r] THEN mine[r] ELSE theirs[r]]

Outcomes == {"unchanged", "theirsOnly", "merged", "conflict", "missing"}

Report == [outcome : Outcomes, content : Text \cup {NoText},
           theirs : Text \cup {NoText}]

(* What merge_external reports for the bytes it finds at the path.         *)
MergeExternal(found, base, mine) ==
  CASE found = NoText ->
         [outcome |-> "missing", content |-> NoText, theirs |-> NoText]
    [] found = base ->
         [outcome |-> "unchanged", content |-> NoText, theirs |-> NoText]
    [] found # NoText /\ found # base /\ mine = base ->
         [outcome |-> "theirsOnly", content |-> NoText, theirs |-> found]
    [] found # NoText /\ found # base /\ mine # base
         /\ ~Clash(base, mine, found) ->
         [outcome |-> "merged", content |-> Combine(base, mine, found),
          theirs |-> found]
    [] OTHER ->
         [outcome |-> "conflict", content |-> NoText, theirs |-> found]

-----------------------------------------------------------------------------
(* My side of the merge: the merge base unless the tab has edits; then the *)
(* live editor if the tab is on screen, else the tab's own buffer.         *)
SelectMine(dirty, base, onScreen, editor, content) ==
  IF ~dirty THEN base ELSE IF onScreen THEN editor ELSE content

None == [kind |-> "none", text |-> NoText, theirs |-> NoText]
Reload(theirs) == [kind |-> "reload", text |-> theirs, theirs |-> theirs]
Merge(text, theirs) ==
  [kind |-> "applyMerge", text |-> text, theirs |-> theirs]
Conflict(theirs) == [kind |-> "conflict", text |-> NoText, theirs |-> theirs]

(* What to do with a report.  Anything that cannot be applied safely is a  *)
(* conflict, which writes nothing; HTML is never merged line by line.      *)
DecideAction(report, format, dirty) ==
  IF report.outcome = "unchanged" THEN None
  ELSE IF report.theirs = NoText THEN Conflict(NoText)
  ELSE IF ~dirty \/ report.outcome = "theirsOnly" THEN Reload(report.theirs)
  ELSE IF /\ report.outcome = "merged" /\ format # "html"
          /\ report.content # NoText
       THEN Merge(report.content, report.theirs)
  ELSE Conflict(report.theirs)

(* The divergence a tab carries: nothing, a conflict with the bytes of the *)
(* other side, or a file that could not be read.                           *)
Undiverged == [reason |-> "none", theirs |-> NoText]
Unreadable == [reason |-> "error", theirs |-> NoText]
Diverged(theirs) == [reason |-> "conflict", theirs |-> theirs]

(* Mutant: only a file that cannot be read blocks writes.                  *)
BlocksIfUnreadable(diverged) == diverged.reason = "error"

BlocksWrite(diverged) == diverged.reason # "none"

(* The tabs a bulk writer (Save All, autosave) may write.                  *)
Savable(dirty, diverged, removedOnDisk) ==
  dirty /\ ~BlocksWrite(diverged) /\ ~removedOnDisk
=============================================================================
