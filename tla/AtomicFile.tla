----------------------------- MODULE AtomicFile ------------------------------
(***************************************************************************)
(* What a save promises: a file that is replaced as a whole or not at all. *)
(* Readers see complete contents only; a power loss brings back contents   *)
(* the file had since the last time its directory reached the disk.        *)
(***************************************************************************)
CONSTANTS Data, NoFile

VARIABLES
  file,         \* what a reader finds
  recoverable   \* what a power loss may leave

Contents == Data \cup {NoFile}

Init == file \in Contents /\ recoverable = {file}

Replace ==
  \E d \in Data : file' = d /\ recoverable' = recoverable \cup {d}

Settle == recoverable' = {file} /\ UNCHANGED file

PowerLoss ==
  \E d \in recoverable : file' = d /\ recoverable' = {d}

Next == Replace \/ Settle \/ PowerLoss

Spec == Init /\ [][Next]_<<file, recoverable>>
=============================================================================
