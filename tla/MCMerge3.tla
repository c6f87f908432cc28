------------------------------- MODULE MCMerge3 -------------------------------
EXTENDS Merge3

CONSTANTS a, b

L(w) == [word |-> w, nl |-> TRUE]
Open(w) == [word |-> w, nl |-> FALSE]

MCNew == {<<>>} \cup {<<l>> : l \in Line}
MCBase == {<<L(a), L(b)>>, <<L(a), L(b), Open(a)>>}
=============================================================================
