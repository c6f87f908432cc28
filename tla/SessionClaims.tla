----------------------------- MODULE SessionClaims -----------------------------
(***************************************************************************)
(* What a comment in the source takes for granted of the recovery journal. *)
(* A run refutes it: README, "Where code and comments part".               *)
(***************************************************************************)
EXTENDS Session

(* main.ts, recoverCrashedBuffers(): "Recovered content is newer than disk *)
(* (a saved buffer would have dropped from the journal)".  Entries to be   *)
(* recovered are no older than the note they will be put over.             *)
RecoveredIsNewer ==
  phase = "recovering" => \A d \in todo \cap Note : entries[d] >= disk[d]
=============================================================================
