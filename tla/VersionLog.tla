------------------------------ MODULE VersionLog ------------------------------
(***************************************************************************)
(* What the version history promises: the versions of a note are only ever *)
(* added to, thinned by age, or carried along with the note's path; a      *)
(* carried version leaves its old path only once the new path has it.  A   *)
(* power loss brings back logs that the paths had, each of its own time,   *)
(* but none from before the last time its log was synced.                  *)
(***************************************************************************)
EXTENDS Retention

CONSTANT Path

VARIABLES
  log,      \* the versions listed for each path
  onDisk,   \* the logs of each path that a power loss may leave
  clock,
  misread   \* an index could not be read: nothing is promised from there on

Init ==
  /\ log = [p \in Path |-> {}] /\ onDisk = [p \in Path |-> {{}}]
  /\ misread = FALSE

(* The new log is on disk, or may be; what is forgotten is never back.     *)
Stored ==
  \A p \in Path : log'[p] \in onDisk'[p] /\ onDisk'[p] \subseteq onDisk[p] \cup {log'[p]}

Record(p) ==
  /\ \A v, w \in log'[p] \ log[p] : v = w
  /\ LegalThinning(log'[p], log[p] \cup log'[p], clock)
  /\ log' = [log EXCEPT ![p] = log'[p]]

Carry(p, q) == log' = [log EXCEPT ![q] = log[p] \cup log[q]]

Release(p, q) ==
  /\ p # q /\ log[p] \subseteq log[q]
  /\ log' = [log EXCEPT ![p] = {}]

Tick == UNCHANGED log

PowerLoss ==
  \A p \in Path : log'[p] \in onDisk[p] /\ onDisk'[p] = {log'[p]}

Misread == misread' = TRUE

Next ==
  \/ Misread
  \/ /\ UNCHANGED misread
     /\ \/ PowerLoss
        \/ /\ Stored
           /\ \/ \E p \in Path : Record(p)
              \/ \E p, q \in Path : Carry(p, q) \/ Release(p, q)
              \/ Tick

Spec == Init /\ [][Next]_<<log, onDisk, clock, misread>>
=============================================================================
