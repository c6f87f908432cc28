-------------------------------- MODULE Merge3 --------------------------------
(***************************************************************************)
(* merge3() of crates/mergemd: the line-based three-way merge behind every *)
(* reload of a note that was edited on both sides.                         *)
(*                                                                         *)
(* A text is a sequence of lines, each with or without its terminator;     *)
(* base line p of the code is base[p + 1].  The line diff is a library's:  *)
(* it may answer any edit script that turns one text into the other.       *)
(***************************************************************************)
EXTENDS Naturals, Sequences, FiniteSets, SequencesExt

CONSTANTS
  Word,    \* what a line says
  Base,    \* the merge bases
  New,     \* bound: what a hunk may put in
  MaxHunks \* bound: hunks of an edit script

Line == [word : Word, nl : BOOLEAN]

(* split_lines(): only the last line may lack its terminator.              *)
WholeText(text) == \A k \in 1..(Len(text) - 1) : text[k].nl

ASSUME BaseAssumption == \A b \in Base : b \in Seq(Line) /\ WholeText(b)
ASSUME BoundAssumption == New \subseteq Seq(Line) /\ MaxHunks \in Nat

-----------------------------------------------------------------------------
(* The diff: a script of hunks.  A hunk leaves skip lines of the base as   *)
(* they are, then has new lines in the place of old ones.  The library may *)
(* report an insertion at the beginning of the lines it skips (stale).     *)

Hunk(b) ==
  {h \in [skip : 0..Len(b), old : 0..Len(b), stale : BOOLEAN, new : New] :
     /\ h.skip + h.old <= Len(b)
     /\ h.stale => h.old = 0 /\ h.skip > 0
     /\ h.old = 0 => h.new # <<>>}

SumOf(s) == FoldLeft(LAMBDA sum, n : sum + n, 0, s)
Spans(hunks) == [k \in DOMAIN hunks |-> hunks[k].skip + hunks[k].old]

(* The running cursor: how much of the base is consumed before hunk k.     *)
Cursor(hunks, k) == SumOf(SubSeq(Spans(hunks), 1, k - 1)) + hunks[k].skip

Applied(b, hunks) ==
  FlattenSeq([k \in DOMAIN hunks |->
    SubSeq(b, Cursor(hunks, k) - hunks[k].skip + 1, Cursor(hunks, k))
      \o hunks[k].new])
  \o SubSeq(b, SumOf(Spans(hunks)) + 1, Len(b))

IsScript(b, hunks) ==
  /\ SumOf(Spans(hunks)) <= Len(b)
  /\ \A k \in DOMAIN hunks :
       /\ k > 1 => hunks[k].skip > 0
       /\ hunks[k].new # SubSeq(b, Cursor(hunks, k) + 1, Cursor(hunks, k) + hunks[k].old)
  /\ WholeText(Applied(b, hunks))

Scripts(b) ==
  {hunks \in UNION {[1..n -> Hunk(b)] : n \in 0..MaxHunks} : IsScript(b, hunks)}
ScriptsOf == [b \in Base |-> Scripts(b)]

-----------------------------------------------------------------------------
(* Changes: base lines start to end - 1 are replaced by lines.             *)

(* Mutant: the new lines count for the region too.                         *)
ChangeNew(hunk, start) ==
  [start |-> start, end |-> start + hunk.old + Len(hunk.new),
   lines |-> hunk.new]

Change(hunk, start) ==
  [start |-> start, end |-> start + hunk.old, lines |-> hunk.new]

Earlier(c, d) == c.start < d.start \/ (c.start = d.start /\ c.end < d.end)

(* sort_by_key(), which is stable.                                         *)
Sorted(cs) ==
  LET Ahead(k) == {l \in DOMAIN cs :
                     Earlier(cs[l], cs[k]) \/ (~Earlier(cs[k], cs[l]) /\ l < k)}
  IN  [n \in DOMAIN cs |-> cs[CHOOSE k \in DOMAIN cs : Cardinality(Ahead(k)) = n - 1]]

(* Mutant: a hunk stands where the library says it does.                   *)
TrustIndex(hunks) ==
  Sorted([k \in DOMAIN hunks |->
    Change(hunks[k], Cursor(hunks, k) - (IF hunks[k].stale THEN hunks[k].skip ELSE 0))])

(* changes(): positions come from the cursor, never from the library.      *)
Changes(hunks) ==
  Sorted([k \in DOMAIN hunks |-> Change(hunks[k], Cursor(hunks, k))])

InOrder(cs) == \A n \in 1..(Len(cs) - 1) : cs[n + 1].start >= cs[n].end

(* Mutant: changes that only meet count as overlapping.                    *)
Meets(c, d) == c.start <= d.end /\ d.start <= c.end

(* overlaps(): a region that ends where another begins does not touch it,  *)
(* an insertion belongs to the region it would begin.                      *)
Overlaps(c, d) ==
  \/ c.start = c.end /\ d.start = d.end /\ c.start = d.start
  \/ c.start = c.end /\ d.start < d.end /\ d.start <= c.start /\ c.start < d.end
  \/ c.start < c.end /\ d.start = d.end /\ c.start <= d.start /\ d.start < c.end
  \/ c.start < c.end /\ d.start < d.end /\ c.start < d.end /\ d.start < c.end

(* render(): base lines from to to - 1 with a side's changes made.         *)
Render(b, cs, from, to) ==
  LET Starting(p) == FlattenSeq([n \in DOMAIN cs |->
                       IF cs[n].start = p THEN cs[n].lines ELSE <<>>])
      Covered(p)  == \E n \in DOMAIN cs : cs[n].start <= p /\ p < cs[n].end
      At(p)       == IF p < to /\ ~Covered(p) THEN <<b[p + 1]>> ELSE <<>>
  IN  FlattenSeq([k \in 1..(to - from + 1) |->
                    Starting(from + k - 1) \o At(from + k - 1)])

-----------------------------------------------------------------------------
VARIABLES
  base, mine, theirs,  \* the base and the scripts of the two sides
  M, T,                \* the changes of the two sides
  step,
  out, pos,            \* what is merged, and how much of the base that is
  i, j,                \* changes of the sides already merged
  mi, tj,              \* and those of the cluster at hand
  envelope,            \* the region of the cluster at hand
  verdict

inputs == <<base, mine, theirs>>
lists == <<M, T>>
vars == <<inputs, lists, step, out, pos, i, j, mi, tj, envelope, verdict>>

NoRegion == [start |-> 0, end |-> 0]

Init ==
  /\ base \in Base /\ mine \in ScriptsOf[base] /\ theirs \in ScriptsOf[base]
  /\ M = <<>> /\ T = <<>>
  /\ step = "compare" /\ out = <<>> /\ pos = 0
  /\ i = 0 /\ j = 0 /\ mi = 0 /\ tj = 0
  /\ envelope = NoRegion /\ verdict = "none"

Finish(v) == step' = "done" /\ verdict' = v
Goto(s) == step' = s /\ UNCHANGED verdict

Compare ==
  /\ step = "compare"
  /\ M' = Changes(mine) /\ T' = Changes(theirs)
  /\ IF Applied(base, theirs) = base THEN Finish("unchanged")
     ELSE IF Applied(base, mine) = base THEN Finish("theirsOnly")
     ELSE IF ~(InOrder(Changes(mine)) /\ InOrder(Changes(theirs)))
          THEN Finish("conflict")
     ELSE Goto("seed")
  /\ UNCHANGED <<inputs, out, pos, i, j, mi, tj, envelope>>

Region(c) == [start |-> c.start, end |-> c.end]
Hull(c, d) == [start |-> IF c.start < d.start THEN c.start ELSE d.start,
               end   |-> IF c.end > d.end THEN c.end ELSE d.end]

MineLeft(n) == n < Len(M)
TheirsLeft(n) == n < Len(T)

(* The next cluster begins with the change that starts first, mine if both.*)
SeedMine ==
  /\ step = "seed" /\ MineLeft(i)
  /\ TheirsLeft(j) => M[i + 1].start <= T[j + 1].start
  /\ envelope' = Region(M[i + 1]) /\ mi' = i + 1 /\ tj' = j
  /\ Goto("flush") /\ UNCHANGED <<inputs, lists, out, pos, i, j>>

SeedTheirs ==
  /\ step = "seed" /\ TheirsLeft(j)
  /\ MineLeft(i) => T[j + 1].start < M[i + 1].start
  /\ envelope' = Region(T[j + 1]) /\ mi' = i /\ tj' = j + 1
  /\ Goto("flush") /\ UNCHANGED <<inputs, lists, out, pos, i, j>>

(* Nothing may follow a line without a terminator: the two would fuse.     *)
EndsOpen == out # <<>> /\ ~out[Len(out)].nl

Unchanged(from, to) == SubSeq(base, from + 1, to)

Flush ==
  /\ step = "flush"
  /\ IF pos < envelope.start /\ EndsOpen
     THEN Finish("conflict") /\ UNCHANGED <<out, pos>>
     ELSE /\ out' = out \o Unchanged(pos, envelope.start)
          /\ pos' = IF pos < envelope.start THEN envelope.start ELSE pos
          /\ Goto("grow")
  /\ UNCHANGED <<inputs, lists, i, j, mi, tj, envelope>>

MineTouches == MineLeft(mi) /\ Overlaps(M[mi + 1], envelope)

(* Mutant: a cluster of mine absorbs no change of theirs.                  *)
TheirsIgnored == TheirsLeft(tj) /\ mi = i /\ Overlaps(T[tj + 1], envelope)

TheirsTouches == TheirsLeft(tj) /\ Overlaps(T[tj + 1], envelope)

GrowMine ==
  /\ step = "grow" /\ MineTouches
  /\ envelope' = Hull(envelope, M[mi + 1]) /\ mi' = mi + 1
  /\ UNCHANGED <<inputs, lists, step, out, pos, i, j, tj, verdict>>

GrowTheirs ==
  /\ step = "grow" /\ TheirsTouches
  /\ envelope' = Hull(envelope, T[tj + 1]) /\ tj' = tj + 1
  /\ UNCHANGED <<inputs, lists, step, out, pos, i, j, mi, verdict>>

Mine == Render(base, SubSeq(M, i + 1, mi), envelope.start, envelope.end)
Theirs == Render(base, SubSeq(T, j + 1, tj), envelope.start, envelope.end)

(* Mutant: a cluster is emitted whatever the line before it ends with.     *)
DecideFused ==
  /\ step = "grow" /\ ~MineTouches /\ ~TheirsTouches
  /\ IF envelope.start < pos \/ (mi > i /\ tj > j /\ Mine # Theirs)
     THEN Finish("conflict") /\ UNCHANGED <<out, pos, i, j>>
     ELSE /\ out' = out \o (IF mi > i THEN Mine ELSE Theirs)
          /\ i' = mi /\ j' = tj
          /\ pos' = IF envelope.end > pos THEN envelope.end ELSE pos
          /\ Goto("seed")
  /\ UNCHANGED <<inputs, lists, mi, tj, envelope>>

(* The cluster is complete: one side's text, or the text both agree on.    *)
Decide ==
  /\ step = "grow" /\ ~MineTouches /\ ~TheirsTouches
  /\ IF \/ envelope.start < pos
        \/ mi > i /\ tj > j /\ Mine # Theirs
        \/ EndsOpen
     THEN Finish("conflict") /\ UNCHANGED <<out, pos, i, j>>
     ELSE /\ out' = out \o (IF mi > i THEN Mine ELSE Theirs)
          /\ i' = mi /\ j' = tj
          /\ pos' = IF envelope.end > pos THEN envelope.end ELSE pos
          /\ Goto("seed")
  /\ UNCHANGED <<inputs, lists, mi, tj, envelope>>

EmitRest ==
  /\ step = "seed" /\ ~MineLeft(i) /\ ~TheirsLeft(j)
  /\ IF pos < Len(base) /\ EndsOpen
     THEN Finish("conflict") /\ UNCHANGED <<out, pos>>
     ELSE /\ out' = out \o Unchanged(pos, Len(base))
          /\ pos' = Len(base) /\ Finish("merged")
  /\ UNCHANGED <<inputs, lists, i, j, mi, tj, envelope>>

Next ==
  \/ Compare \/ SeedMine \/ SeedTheirs \/ Flush
  \/ GrowMine \/ GrowTheirs \/ Decide \/ EmitRest

Spec == Init /\ [][Next]_vars

-----------------------------------------------------------------------------
(* The counters, the region and the text stay within the inputs.           *)
TypeOK ==
  /\ step \in {"compare", "seed", "flush", "grow", "done"}
  /\ verdict \in {"none", "unchanged", "theirsOnly", "merged", "conflict"}
  /\ mi \in 0..Len(M) /\ i \in 0..mi /\ tj \in 0..Len(T) /\ j \in 0..tj
  /\ envelope.end \in 0..Len(base) /\ envelope.start \in 0..envelope.end
  /\ pos \in 0..Len(base) /\ out \in Seq(Line)

(* The bail for a cluster behind the cursor is never needed: no text is    *)
(* emitted out of order.                                                   *)
NeverBehindCursor == step = "grow" => pos <= envelope.start

(* What a change stands on: its base lines, or the place of an insertion.  *)
Ground(c) == IF c.start = c.end THEN {c.start} ELSE c.start..(c.end - 1)
Touch(c, d) == Ground(c) \cap Ground(d) # {}

(* Changes that touch none of the other side's.                            *)
MineApart == {c \in Range(M) : \A d \in Range(T) : ~Touch(c, d)}
TheirsApart == {d \in Range(T) : \A c \in Range(M) : ~Touch(c, d)}

(* Base lines from to to - 1 with the changes cs made, whoever made them.  *)
Written(cs, p) ==
  IF \E c \in cs : c.start = p THEN (CHOOSE c \in cs : c.start = p).lines ELSE <<>>
Standing(b, cs, p) ==
  IF \E c \in cs : c.start <= p /\ p < c.end THEN <<>> ELSE <<b[p + 1]>>
Text(b, cs, from, to) ==
  FlattenSeq([k \in 1..(to - from) |->
    Written(cs, from + k - 1) \o Standing(b, cs, from + k - 1)]) \o Written(cs, to)
All(cs) == Text(base, cs, 0, Len(base))

(* A merge is mine with every change of theirs that touches none of mine,  *)
(* and theirs with every change of mine that touches none of theirs:       *)
(* nobody's line is lost, doubled or moved.                                *)
BothSidesApplied ==
  verdict = "merged" =>
    /\ out = All(Range(M) \cup TheirsApart)
    /\ out = All(Range(T) \cup MineApart)

(* A merge never appends to a line without terminator.                     *)
NoLineFused == verdict = "merged" => WholeText(out)

(* Changes K of mine and L of theirs that touch no other change.           *)
Closed(K, L) ==
  \A c \in K \cup L :
    /\ \A d \in Range(M) \ K : ~Touch(c, d)
    /\ \A d \in Range(T) \ L : ~Touch(c, d)

Cluster(K, L) ==
  /\ K # {} /\ L # {} /\ Closed(K, L)
  /\ \A K2 \in SUBSET K, L2 \in SUBSET L :
       Closed(K2, L2) => K2 \cup L2 = {} \/ (K2 = K /\ L2 = L)

Differ(K, L) ==
  LET from == Min({c.start : c \in K \cup L})
      to   == Max({c.end : c \in K \cup L})
  IN  Text(base, K, from, to) # Text(base, L, from, to)

(* A conflict is reported only where the sides disagree about a region, or *)
(* where merging would fuse two lines.                                     *)
ConflictIsGenuine ==
  verdict = "conflict" =>
    \/ \E K \in SUBSET Range(M), L \in SUBSET Range(T) : Cluster(K, L) /\ Differ(K, L)
    \/ ~WholeText(All(Range(M) \cup TheirsApart))
=============================================================================
