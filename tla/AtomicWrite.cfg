SPECIFICATION Spec
CONSTANTS
  Writer = {w1, w2}
  Data = {d1, d2, d3}
  Torn = Torn
  NoFile = NoFile
  Faults = {"write", "sync", "rename", "remove", "dir", "kill", "power"}
INVARIANTS
  TypeOK
  WholeNote
  NoLitter
PROPERTY ReplacedAtomically
