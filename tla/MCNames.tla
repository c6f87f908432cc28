------------------------------- MODULE MCNames --------------------------------
EXTENDS Names, TLC

N(stem, cap, no, tail) == [stem |-> stem, cap |-> cap, no |-> no, tail |-> tail]

(* Untitled.md, UNTITLED.md, Untitled 2.md, a date for a tail, a name with *)
(* no tail, HTML, a dot, a device, a conflict copy and a second one.       *)
MCTyped ==
  {N("untitled", FALSE, 1, "md"), N("untitled", TRUE, 1, "md"),
   N("untitled", FALSE, 2, "md"), N("untitled", FALSE, 1, "17"),
   N("untitled", FALSE, 1, "none"), N("untitled", FALSE, 1, "html"),
   N("dot", FALSE, 1, "md"), N("con", FALSE, 1, "none"),
   N("conflict", FALSE, 1, "md"), N("conflict", FALSE, 2, "md")}

Symmetry == Permutations(File)
=============================================================================
