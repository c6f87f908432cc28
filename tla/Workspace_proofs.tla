--------------------------- MODULE Workspace_proofs ---------------------------
(***************************************************************************)
(* Workspace keeps its types, loses nothing that the user typed, and does  *)
(* not show for saved what is not in the note.                             *)
(*                                                                         *)
(* TypedIsKept says of a text that it is somewhere.  It is not inductive:  *)
(* whether a handler may replace a tab's text, or close the tab, depends   *)
(* on what the handler has seen.  SafeInv says what each of them relies on *)
(* when it goes on, in terms of the loose texts, which are in tabs alone:  *)
(* a tab without the unsaved mark shows none, no base is one, a handler's  *)
(* base and answer are none, and what a write replaces, a restore reloads  *)
(* or a removal closes is the text that was sent, or none.                 *)
(*                                                                         *)
(* CleanTabIsOnDisk speaks of the moment when everything is through.  What *)
(* holds at every other is TrueInv: a tab without the unsaved mark that    *)
(* has not strayed shows its base, and its note is that base, or the       *)
(* watcher's word of another text is under way, or a check that asks about *)
(* the tab as it is has not been answered.  The word of a note reaches one *)
(* tab only, so no other trusted tab may have the path; and a bulk save    *)
(* takes its tab's record for what it sent, so the record must be what the *)
(* screen shows when the two were the same text.                           *)
(*                                                                         *)
(* The first part of the module proves the types, the second that every    *)
(* step keeps SafeInv, the third that every step keeps TrueInv.            *)
(***************************************************************************)
EXTENDS Workspace, SequenceTheorems, FiniteSetTheorems, TLAPS

(* A handler's record, of at most n tabs and l texts.                      *)
HandlerOf(n, l) ==
  [kind : Kind, at : {"idle", "dialog", "call", "answer", "failed"}, cmd : Cmd,
   tab : 0..n, path : Path \union {None}, to : Path \union {None},
   text : 0..l, base : 0..l, got : 0..l, pick : 0..l,
   again : BOOLEAN, outdated : BOOLEAN,
   todo : SUBSET (1..n), seen : SUBSET (1..n), pass : 0..2]

(* What a handler's record is about, the tabs being ts.                    *)
Noted(o, ts) ==
  /\ o.kind \in {"watch", "bulk", "save", "restore", "saveas", "convert", "close"} =>
       o.tab # 0
  /\ o.kind \in {"watch", "bulk", "save", "restore"} => ts[o.tab].path # None
  /\ o.kind = "bulk" => \A t \in o.todo : ts[t].path # None
Fitting(o) ==
  /\ o.at = "idle" => o = Idle
  /\ o.at = "dialog" => o.cmd = "none"
  /\ o.at \in {"call", "answer", "failed"} => o.cmd # "none" /\ o.path \in Path
  /\ o.cmd = "none" => o.kind \in {"idle", "saveas", "delete", "close", "version"}
  /\ o.cmd = "check" => o.kind \in {"watch", "bulk", "save", "restore"}
  /\ o.cmd = "save" => o.kind \in {"bulk", "save", "restore", "saveas", "convert"}
                        /\ o.text # NoFile
  /\ o.cmd = "restore" => o.kind \in {"restore", "version"}
  /\ o.cmd = "read" => o.kind \in {"restore", "version", "open"} /\ (o.at = "answer" => o.got # NoFile)
  /\ o.cmd = "trash" => o.kind = "delete"
  /\ o.cmd = "rename" => o.kind = "rename" /\ o.to \in Path
  /\ o.cmd = "undo" => o.pick # NoFile
  /\ o.kind \in {"restore", "version"} => o.pick # NoFile
  /\ o.kind = "version" => o.tab = 0
  /\ o.kind = "delete" => o.path \in Path
Shape(o, ts) == Noted(o, ts) /\ Fitting(o)

Files ==
  /\ disk \in [Path -> Known \union {NoFile}] /\ versions \in [Path -> SUBSET Known]
  /\ trash \subseteq Path \X Known
Screen ==
  /\ Len(tabs) \in Tab /\ tabs \in Seq(TabState)
  /\ items \subseteq 1..Len(tabs) /\ active \in items \union {0} /\ editor \in Known
  /\ (active = 0) = (items = {}) /\ panel \in Path \union {None}
Queue ==
  /\ calls \in Seq(Proc)
  /\ {calls[n] : n \in DOMAIN calls} = {p \in Proc : op[p].at = "call"}
  /\ \A m, n \in DOMAIN calls : calls[m] = calls[n] => m = n
Handlers ==
  /\ op \in [Proc -> Handler]
  /\ \A p \in Proc : Shape(op[p], tabs)
Rest ==
  /\ last \in Text /\ ops \in Nat
  /\ removals \subseteq Path /\ changes \subseteq Path
  /\ owed \subseteq Known /\ strayed \subseteq 1..Len(tabs)
TypeInv == Files /\ Screen /\ Queue /\ Handlers /\ Rest

-----------------------------------------------------------------------------
(* The least and the greatest of a set.                                    *)
LEMMA LeastIs ==
  ASSUME NEW n \in Nat, NEW S, S \subseteq 1..n, S # {}
  PROVE  Min(S) \in S
<1> DEFINE Below(x) == {y \in S : y < x}
           T == {Below(x) : x \in S}
<1>0. IsFiniteSet(S)
  <2>1. IsFiniteSet(1..n)
    BY FS_Interval
  <2>2. QED
    BY <2>1, FS_Subset
<1>i. \A x \in S : x \in Int
  OBVIOUS
<1>1. T \subseteq FiniteSubsetsOf(S) /\ T # {}
  <2>1. \A x \in S : Below(x) \in SUBSET S /\ IsFiniteSet(Below(x))
    BY <1>0, FS_Subset
  <2>2. QED
    BY <2>1 DEF FiniteSubsetsOf
<1>2. PICK X \in T : \A Y \in T : ~(<<Y, X>> \in StrictSubsetOrdering(S))
  <2> HIDE DEF T
  <2>1. QED
    BY <1>0, <1>1, FS_StrictSubsetOrderingWellFounded, WFMin
<1>3. PICK x \in S : X = Below(x)
  OBVIOUS
<1>4. ASSUME NEW y \in S, y < x PROVE FALSE
  <2>0. ~(y < y) /\ \A z \in S : z < y => z < x
    BY <1>4, <1>i
  <2>1. Below(y) \subseteq Below(x) /\ y \in Below(x) /\ y \notin Below(y)
    BY <1>4, <2>0
  <2>2. <<Below(y), X>> \in StrictSubsetOrdering(S)
    BY <2>1, <1>3 DEF StrictSubsetOrdering
  <2>3. QED
    BY <2>2, <1>2
<1>5. \A y \in S : x =< y
  BY <1>i, <1>4
<1>6. QED
  BY <1>5 DEF Min

(* The greatest of some tabs is one of them.                               *)
LEMMA GreatestIs ==
  ASSUME NEW n \in Nat, NEW S, S \subseteq 0..n, S # {}
  PROVE  Max(S) \in S
<1> DEFINE Above(x) == {y \in S : y > x}
           T == {Above(x) : x \in S}
<1>0. IsFiniteSet(S)
  <2>1. IsFiniteSet(0..n)
    BY FS_Interval
  <2>2. QED
    BY <2>1, FS_Subset
<1>i. \A x \in S : x \in Int
  OBVIOUS
<1>1. T \subseteq FiniteSubsetsOf(S) /\ T # {}
  <2>1. \A x \in S : Above(x) \in SUBSET S /\ IsFiniteSet(Above(x))
    BY <1>0, FS_Subset
  <2>2. QED
    BY <2>1 DEF FiniteSubsetsOf
<1>2. PICK X \in T : \A Y \in T : ~(<<Y, X>> \in StrictSubsetOrdering(S))
  <2> HIDE DEF T
  <2>1. QED
    BY <1>0, <1>1, FS_StrictSubsetOrderingWellFounded, WFMin
<1>3. PICK x \in S : X = Above(x)
  OBVIOUS
<1>4. ASSUME NEW y \in S, y > x PROVE FALSE
  <2>0. ~(y > y) /\ \A z \in S : z > y => z > x
    BY <1>4, <1>i
  <2>1. Above(y) \subseteq Above(x) /\ y \in Above(x) /\ y \notin Above(y)
    BY <1>4, <2>0
  <2>2. <<Above(y), X>> \in StrictSubsetOrdering(S)
    BY <2>1, <1>3 DEF StrictSubsetOrdering
  <2>3. QED
    BY <2>2, <1>2
<1>5. \A y \in S : x >= y
  BY <1>i, <1>4
<1>6. QED
  BY <1>5 DEF Max

(* A function over 1..n is a sequence.                                     *)
LEMMA Numbered ==
  ASSUME NEW n \in Nat, NEW S, NEW s \in [1..n -> S]
  PROVE  s \in Seq(S) /\ Len(s) = n /\ DOMAIN s = 1..n
OBVIOUS

(* The tab t is changed.                                                   *)
LEMMA Replaced ==
  ASSUME NEW S, NEW s \in Seq(S), NEW t \in 1..Len(s), NEW x \in S
  PROVE  /\ [s EXCEPT ![t] = x] \in Seq(S) /\ Len([s EXCEPT ![t] = x]) = Len(s)
         /\ Len(s) \in Nat /\ DOMAIN s = 1..Len(s)
         /\ DOMAIN [s EXCEPT ![t] = x] = 1..Len(s)
         /\ \A u \in 1..Len(s) : [s EXCEPT ![t] = x][u] = IF u = t THEN x ELSE s[u]
BY ExceptSeq, LenProperties

(* A sequence that has grown by one element keeps the others where they    *)
(* were.                                                                   *)
LEMMA Appended ==
  ASSUME NEW S, NEW s \in Seq(S), NEW x \in S
  PROVE  /\ Append(s, x) \in Seq(S) /\ Len(Append(s, x)) = Len(s) + 1
         /\ Len(s) \in Nat /\ DOMAIN s = 1..Len(s)
         /\ DOMAIN Append(s, x) = 1..(Len(s) + 1)
         /\ \A u \in 1..(Len(s) + 1) :
              Append(s, x)[u] = IF u = Len(s) + 1 THEN x ELSE s[u]
OBVIOUS

-----------------------------------------------------------------------------
(* The records that handlers become.                                       *)

(* A handler at rest is a record of its type, with nothing to go by.       *)
LEMMA IdleIs ==
  ASSUME NEW n \in Nat, NEW l \in Nat
  PROVE  /\ Idle \in HandlerOf(n, l) /\ \A ts : Shape(Idle, ts)
         /\ Idle.at = "idle" /\ Idle.cmd = "none" /\ Idle.kind = "idle"
         /\ Idle.todo = {} /\ Idle.base = 0 /\ Idle.got = 0
BY DEF Idle, HandlerOf, Kind, Cmd, Shape, Noted, Fitting, NoFile

(* A handler of some kind that has not called yet.                         *)
LEMMA OfIs ==
  ASSUME NEW n \in Nat, NEW l \in Nat, NEW k \in Kind
  PROVE  LET o == Of(k) IN
         /\ o \in HandlerOf(n, l) /\ o.kind = k /\ o.at = "idle" /\ o.cmd = "none"
         /\ o.todo = {} /\ o.seen = {} /\ o.pass = 0
         /\ o.base = 0 /\ o.got = 0 /\ o.pick = 0 /\ o.tab = 0
<1> DEFINE r == Of(k)
<1>1. r = [Idle EXCEPT !.kind = k]
  BY DEF Of
<1>2. /\ Idle \in HandlerOf(n, l)
      /\ Idle.at = "idle" /\ Idle.cmd = "none" /\ Idle.todo = {} /\ Idle.seen = {}
      /\ Idle.pass = 0 /\ Idle.base = 0 /\ Idle.got = 0 /\ Idle.pick = 0 /\ Idle.tab = 0
  BY IdleIs DEF Idle, NoFile
<1> HIDE DEF r
<1>3. r \in HandlerOf(n, l)
  BY <1>1, <1>2 DEF HandlerOf
<1>4. /\ r.kind = k /\ r.at = "idle" /\ r.cmd = "none"
      /\ r.todo = {} /\ r.seen = {} /\ r.pass = 0
      /\ r.base = 0 /\ r.got = 0 /\ r.pick = 0 /\ r.tab = 0
  BY <1>1, <1>2 DEF HandlerOf
<1>5. QED
  BY <1>3, <1>4 DEF r

(* Calling a command changes what the handler waits for, and nothing else  *)
(* of it.                                                                  *)
LEMMA CommandIs ==
  ASSUME NEW n \in Nat, NEW l \in Nat, NEW o \in HandlerOf(n, l), NEW c \in Cmd
  PROVE  LET r == Command(o, c) IN
         /\ r \in HandlerOf(n, l) /\ r.at = "call" /\ r.cmd = c
         /\ r.kind = o.kind /\ r.tab = o.tab /\ r.path = o.path /\ r.to = o.to
         /\ r.text = o.text /\ r.base = o.base /\ r.got = o.got /\ r.pick = o.pick
         /\ r.todo = o.todo /\ r.seen = o.seen /\ r.pass = o.pass
<1> DEFINE r == Command(o, c)
<1>1. r = [o EXCEPT !.at = "call", !.cmd = c]
  BY DEF Command
<1> HIDE DEF r
<1>2. r \in HandlerOf(n, l)
  BY <1>1 DEF HandlerOf, Cmd
<1>3. /\ r.at = "call" /\ r.cmd = c
      /\ r.kind = o.kind /\ r.tab = o.tab /\ r.path = o.path /\ r.to = o.to
      /\ r.text = o.text /\ r.base = o.base /\ r.got = o.got /\ r.pick = o.pick
      /\ r.todo = o.todo /\ r.seen = o.seen /\ r.pass = o.pass
  BY <1>1 DEF HandlerOf
<1>4. QED
  BY <1>2, <1>3 DEF r

(* The fields that a check sets are of their types.                        *)
LEMMA Refilled ==
  ASSUME NEW n \in Nat, NEW l \in Nat, NEW q \in HandlerOf(n, l), NEW t \in 0..n,
         NEW path \in Path \union {None}, NEW base \in 0..l, NEW text \in 0..l, 0 \in 0..l
  PROVE  [q EXCEPT !.tab = t, !.path = path, !.base = base, !.text = text, !.got = 0,
                   !.again = FALSE, !.outdated = FALSE] \in HandlerOf(n, l)
BY DEF HandlerOf

(* The fields that a write sets are of their types.                        *)
LEMMA Rewritten ==
  ASSUME NEW n \in Nat, NEW l \in Nat, NEW q \in HandlerOf(n, l), NEW t \in 0..n,
         NEW path \in Path \union {None}, NEW text \in 0..l, 0 \in 0..l
  PROVE  [q EXCEPT !.tab = t, !.path = path, !.text = text, !.base = 0, !.got = 0,
                   !.again = FALSE, !.outdated = FALSE, !.seen = {}, !.pass = 0]
         \in HandlerOf(n, l)
<1> DEFINE r == [q EXCEPT !.tab = t, !.path = path, !.text = text, !.base = 0, !.got = 0,
                          !.again = FALSE, !.outdated = FALSE]
<1>1. r \in HandlerOf(n, l)
  BY DEF HandlerOf
<1> HIDE DEF r
<1>2. {} \in SUBSET (1..n) /\ 0 \in 0..2
  OBVIOUS
<1>3. [r EXCEPT !.seen = {}, !.pass = 0] \in HandlerOf(n, l)
  BY <1>1, <1>2 DEF HandlerOf
<1>4. QED
  BY <1>3 DEF r

(* r is o, about to check the tab t with text as the user's side.          *)
Asking(r, o, t, ts, text, n, l) ==
  /\ r \in HandlerOf(n, l) /\ r.at = "call" /\ r.cmd = "check" /\ ~r.outdated
  /\ r.kind = o.kind /\ r.tab = t /\ r.path = ts[t].path
  /\ r.text = text /\ r.base = ts[t].base /\ r.got = 0 /\ r.pick = o.pick
  /\ r.todo = o.todo /\ r.seen = o.seen /\ r.pass = o.pass

(* A check that is sent asks about its tab, from the base and the text     *)
(* given.                                                                  *)
LEMMA CheckIs ==
  ASSUME NEW n \in Nat, NEW l \in Nat, NEW o \in HandlerOf(n, l), NEW t \in 1..n,
         NEW ts, ts[t].path \in Path \union {None}, ts[t].base \in 0..l, NEW text \in 0..l
  PROVE  Asking(Check(o, t, ts, text), o, t, ts, text, n, l)
<1> DEFINE q == Command(o, "check")
           r == Check(o, t, ts, text)
<1>1. r = [q EXCEPT !.tab = t, !.path = ts[t].path, !.base = ts[t].base,
                    !.text = text, !.got = 0, !.again = FALSE, !.outdated = FALSE]
  BY DEF Check, NoFile
<1>2. /\ q \in HandlerOf(n, l) /\ q.at = "call" /\ q.cmd = "check"
      /\ q.kind = o.kind /\ q.pick = o.pick
      /\ q.todo = o.todo /\ q.seen = o.seen /\ q.pass = o.pass
  BY CommandIs DEF Cmd
<1> HIDE DEF q, r
<1>t. t \in 0..n /\ 0 \in 0..l
  OBVIOUS
<1>3. r \in HandlerOf(n, l)
  BY <1>1, <1>2, <1>t, Refilled
<1>4. /\ r.at = "call" /\ r.cmd = "check" /\ ~r.outdated
      /\ r.kind = o.kind /\ r.tab = t /\ r.path = ts[t].path
      /\ r.text = text /\ r.base = ts[t].base /\ r.got = 0 /\ r.pick = o.pick
      /\ r.todo = o.todo /\ r.seen = o.seen /\ r.pass = o.pass
  BY <1>1, <1>2 DEF HandlerOf
<1>5. QED
  BY <1>3, <1>4 DEF r, Asking

(* r is o, about to write text to path for the tab t.                      *)
Sending(r, o, t, path, text, n, l) ==
  /\ r \in HandlerOf(n, l) /\ r.at = "call" /\ r.cmd = "save"
  /\ r.kind = o.kind /\ r.tab = t /\ r.path = path
  /\ r.text = text /\ r.base = 0 /\ r.got = 0 /\ r.pick = o.pick
  /\ r.todo = o.todo

(* A write that is sent holds its tab, its path and the text given.        *)
LEMMA WriteIs ==
  ASSUME NEW n \in Nat, NEW l \in Nat, NEW o \in HandlerOf(n, l), NEW t \in 1..n,
         NEW path \in Path \union {None}, NEW text \in 0..l
  PROVE  Sending(Write(o, t, path, text), o, t, path, text, n, l)
<1> DEFINE q == Command(o, "save")
           r == Write(o, t, path, text)
<1>1. r = [q EXCEPT !.tab = t, !.path = path, !.text = text, !.base = 0, !.got = 0,
                    !.again = FALSE, !.outdated = FALSE, !.seen = {}, !.pass = 0]
  BY DEF Write, NoFile
<1>2. /\ q \in HandlerOf(n, l) /\ q.at = "call" /\ q.cmd = "save"
      /\ q.kind = o.kind /\ q.pick = o.pick
      /\ q.todo = o.todo /\ q.seen = o.seen /\ q.pass = o.pass
  BY CommandIs DEF Cmd
<1> HIDE DEF q, r
<1>t. t \in 0..n /\ 0 \in 0..l
  OBVIOUS
<1>3. r \in HandlerOf(n, l)
  BY <1>1, <1>2, <1>t, Rewritten
<1>4. /\ r.at = "call" /\ r.cmd = "save"
      /\ r.kind = o.kind /\ r.tab = t /\ r.path = path
      /\ r.text = text /\ r.base = 0 /\ r.got = 0 /\ r.pick = o.pick
      /\ r.todo = o.todo
  BY <1>1, <1>2 DEF HandlerOf
<1>5. QED
  BY <1>3, <1>4 DEF r, Sending

(* saveTabsToDisk(): nothing is left to write, or one of the list is       *)
(* written and the rest is some of the list.                               *)
Written(r, kind, pick, list, ts, n, l) ==
  /\ r \in HandlerOf(n, l) /\ r.at = "call" /\ r.cmd = "save" /\ r.kind = kind
  /\ r.tab \in list /\ r.path = ts[r.tab].path /\ r.text = ts[r.tab].content
  /\ r.base = 0 /\ r.got = 0 /\ r.pick = pick /\ r.todo \subseteq list

(* The next write of a list is of one of its tabs, or there is none left.  *)
LEMMA WriteEachIs ==
  ASSUME NEW n \in Nat, NEW l \in Nat, NEW o \in HandlerOf(n, l),
         NEW list \in SUBSET (1..n), NEW ts,
         \A t \in list : ts[t].path \in Path \union {None} /\ ts[t].content \in 0..l
  PROVE  LET r == WriteEach(o, list, ts) IN
         r = Idle \/ Written(r, o.kind, o.pick, list, ts, n, l)
<1> DEFINE ready == {t \in list : ~ts[t].diverged}
           t == Min(ready)
           w == Write(o, t, ts[t].path, ts[t].content)
<1>1. CASE ready = {}
  BY <1>1 DEF WriteEach
<1>2. CASE ready # {}
  <2>1. t \in ready
    BY <1>2, LeastIs
  <2>2. t \in list
    BY <2>1
  <2> HIDE DEF t
  <2>3. /\ w \in HandlerOf(n, l) /\ w.at = "call" /\ w.cmd = "save"
        /\ w.kind = o.kind /\ w.tab = t /\ w.path = ts[t].path
        /\ w.text = ts[t].content /\ w.base = 0 /\ w.got = 0 /\ w.pick = o.pick
    BY <2>2, WriteIs DEF Sending
  <2>4. WriteEach(o, list, ts) = [w EXCEPT !.todo = {u \in list : u > t}]
    BY <1>2 DEF WriteEach, t
  <2> HIDE DEF w
  <2>5. QED
    BY <2>2, <2>3, <2>4 DEF Written, HandlerOf
<1>3. QED
  BY <1>1, <1>2

(* The tabs' records hold paths and texts there are.                       *)
Tabbed(ts, n, l) ==
  \A t \in 1..n : /\ ts[t].path \in Path \union {None}
                  /\ ts[t].content \in 1..l /\ ts[t].base \in 1..l

(* The tab of r is about to be checked.                                    *)
Checked(r, kind, pick, ts, n, l) ==
  /\ r \in HandlerOf(n, l) /\ r.at = "call" /\ r.cmd = "check" /\ r.kind = kind
  /\ r.tab \in 1..n /\ r.path = ts[r.tab].path /\ r.base = ts[r.tab].base
  /\ r.path # None /\ r.got = 0 /\ r.pick = pick
  /\ \A t \in r.todo : kind = "bulk" => ts[t].path # None

(* The text on screen is about to be written.                              *)
Shown(r, kind, pick, text, n, l) ==
  /\ r \in HandlerOf(n, l) /\ r.at = "call" /\ r.cmd = "save" /\ r.kind = kind
  /\ kind \in {"save", "restore"}
  /\ r.tab = active /\ r.tab # 0 /\ r.path # None /\ r.text = text
  /\ r.base = 0 /\ r.got = 0 /\ r.pick = pick

(* reconcileWritableTabs(): the next check, the writes, or nothing.        *)
LEMMA BulkNextIs ==
  ASSUME NEW n \in Nat, NEW l \in Nat, NEW o \in HandlerOf(n, l), NEW ts, Tabbed(ts, n, l),
         items \subseteq 1..n, NEW text \in 1..l, o.kind = "bulk",
         \A t \in o.todo : ts[t].path # None
  PROVE  LET r == BulkNext(o, ts, text) IN
         \/ r = Idle
         \/ Checked(r, "bulk", o.pick, ts, n, l)
         \/ \E list \in SUBSET {t \in items \intersect o.seen : ts[t].path # None} :
              Written(r, "bulk", o.pick, list, ts, n, l)
<1> DEFINE saved == {t \in items : ts[t].dirty /\ ts[t].path # None}
           pending == IF o.todo # {} THEN o.todo
                      ELSE IF o.pass < 2 THEN saved \ o.seen ELSE {}
           t == Min(pending)
           list == {u \in saved \intersect o.seen : ~ts[u].diverged /\ ~ts[u].removed}
<1>1. CASE pending # {}
  <2>1. pending \in SUBSET (1..n) /\ \A u \in pending : ts[u].path # None
    BY DEF HandlerOf
  <2>2. t \in pending /\ t \in 1..n /\ ts[t].path # None
    <3>1. t \in pending
      BY <1>1, <2>1, LeastIs
    <3>2. QED
      BY <2>1, <3>1
  <2>3. BulkNext(o, ts, text) =
          Check([o EXCEPT !.todo = pending \ {t}, !.seen = @ \union {t},
                          !.pass = IF o.todo = {} THEN @ + 1 ELSE @],
                t, ts, MineIn(t, ts, text))
    BY <1>1 DEF BulkNext
  <2>4. o.todo = {} => o.pass < 2
    BY <1>1
  <2> HIDE DEF pending, t
  <2> DEFINE left == pending \ {t}
             seen == o.seen \union {t}
             pass == IF o.todo = {} THEN o.pass + 1 ELSE o.pass
             q == [o EXCEPT !.todo = left, !.seen = seen, !.pass = pass]
  <2>5. left \in SUBSET (1..n) /\ seen \in SUBSET (1..n) /\ pass \in 0..2
    BY <2>1, <2>2, <2>4 DEF HandlerOf
  <2>6. BulkNext(o, ts, text) = Check(q, t, ts, MineIn(t, ts, text))
    BY <2>3
  <2>7. /\ q \in HandlerOf(n, l) /\ q.kind = o.kind /\ q.pick = o.pick
        /\ q.todo \subseteq pending
    <3> left \subseteq pending
      OBVIOUS
    <3> HIDE DEF left, seen, pass
    <3>1. QED
      BY <2>5 DEF HandlerOf
  <2>8. MineIn(t, ts, text) \in 0..l /\ ts[t].base \in 0..l
    BY <2>2 DEF MineIn, Tabbed
  <2>9. ts[t].path \in Path \union {None}
    BY <2>2 DEF Tabbed
  <2> HIDE DEF q
  <2>10. Asking(Check(q, t, ts, MineIn(t, ts, text)), q, t, ts, MineIn(t, ts, text), n, l)
    BY <2>2, <2>7, <2>8, <2>9, CheckIs
  <2>11. Checked(BulkNext(o, ts, text), "bulk", o.pick, ts, n, l)
    BY <2>1, <2>2, <2>6, <2>7, <2>10 DEF Checked, Asking
  <2>12. QED
    BY <2>11
<1>2. CASE pending = {}
  <2>1. BulkNext(o, ts, text) = WriteEach(o, list, ts)
    BY <1>2 DEF BulkNext
  <2>2. list \in SUBSET {u \in items \intersect o.seen : ts[u].path # None}
    OBVIOUS
  <2>3. list \in SUBSET (1..n)
    BY <2>2
  <2> HIDE DEF list
  <2>4. \A u \in list : ts[u].path \in Path \union {None} /\ ts[u].content \in 0..l
    <3>1. \A u \in list : ts[u].path \in Path \union {None} /\ ts[u].content \in 1..l
      BY <2>3 DEF Tabbed
    <3>2. QED
      BY <3>1
  <2>5. LET r == WriteEach(o, list, ts) IN
        r = Idle \/ Written(r, o.kind, o.pick, list, ts, n, l)
    BY <2>3, <2>4, WriteEachIs
  <2>6. QED
    BY <2>1, <2>2, <2>5
<1>3. QED
  BY <1>1, <1>2

(* What a handler does next once a check has been acted on.                *)
Onward(r, o, ts, text, n, l) ==
  \/ r = Idle
  \/ o.kind = "bulk" /\ Checked(r, "bulk", o.pick, ts, n, l)
  \/ o.kind = "bulk" /\ \E list \in SUBSET {t \in items \intersect o.seen : ts[t].path # None} :
                           Written(r, "bulk", o.pick, list, ts, n, l)
  \/ o.tab # active /\ o.kind = "save" /\ Written(r, "bulk", 0, {o.tab}, ts, n, l)
  \/ Shown(r, o.kind, o.pick, text, n, l) /\ r.tab = o.tab
  \/ /\ r = Command(o, "restore")
     /\ o.kind = "restore" /\ o.tab = active /\ ~ts[o.tab].dirty

(* After a check the handler rests, checks on, writes, or asks for the     *)
(* version.                                                                *)
LEMMA AfterCheckIs ==
  ASSUME NEW n \in Nat, NEW l \in Nat, NEW o \in HandlerOf(n, l), NEW ts, Tabbed(ts, n, l),
         items \subseteq 1..n, NEW text, text \in 1..l, Shape(o, ts),
         o.at = "answer", o.cmd = "check", NEW r, r = AfterCheck(o, ts, text)
  PROVE  Onward(r, o, ts, text, n, l)
<1> DEFINE t == o.tab
<1>0. /\ t \in 1..n /\ ts[t].path \in Path /\ o.path \in Path
      /\ o.kind \in {"watch", "bulk", "save", "restore"}
      /\ o.kind = "bulk" => \A u \in o.todo : ts[u].path # None
  BY DEF Shape, Noted, Fitting, HandlerOf, Tabbed
<1>7. ts[t].path \in Path \union {None} /\ o.path \in Path \union {None}
  BY <1>0
<1>8. t \in 1..n
  BY <1>0
<1>1. CASE o.kind = "bulk"
  <2>1. r = BulkNext(o, ts, text)
    BY <1>1 DEF AfterCheck
  <2>2. QED
    BY <1>0, <1>1, <2>1, BulkNextIs DEF Onward
<1>2. CASE o.kind = "watch" \/ (o.kind # "bulk" /\ ts[t].diverged)
           \/ (o.kind = "restore" /\ t # active)
  <2>1. r = Idle
    BY <1>0, <1>2 DEF AfterCheck
  <2>2. QED
    BY <2>1 DEF Onward
<1>3. CASE o.kind = "save" /\ ~ts[t].diverged
  <2>1. r = SaveNext(o, t, ts, text)
    BY <1>3 DEF AfterCheck
  <2>2. CASE t = active
    <3>1. r = Write(o, t, ts[t].path, text)
      BY <2>1, <2>2 DEF SaveNext
    <3>2. text \in 0..l
      OBVIOUS
    <3>3. Sending(Write(o, t, ts[t].path, text), o, t, ts[t].path, text, n, l)
      BY <1>7, <1>8, <3>2, WriteIs
    <3>4. Shown(r, o.kind, o.pick, text, n, l) /\ r.tab = t
      BY <1>0, <1>3, <2>2, <3>1, <3>3, NoneAssumption DEF Shown, Sending
    <3>5. QED
      BY <3>4 DEF Onward
  <2>3. CASE t # active
    <3>1. r = WriteEach(Of("bulk"), {t}, ts)
      BY <2>1, <2>3 DEF SaveNext
    <3>2. Of("bulk") \in HandlerOf(n, l) /\ Of("bulk").kind = "bulk" /\ Of("bulk").pick = 0
      BY OfIs DEF Kind
    <3>3. {t} \in SUBSET (1..n)
          /\ \A u \in {t} : ts[u].path \in Path \union {None} /\ ts[u].content \in 0..l
      BY <1>0 DEF Tabbed
    <3>4. r = Idle \/ Written(r, "bulk", 0, {t}, ts, n, l)
      BY <3>1, <3>2, <3>3, WriteEachIs
    <3>5. QED
      BY <1>3, <2>3, <3>4 DEF Onward
  <2>4. QED
    BY <2>2, <2>3
<1>4. CASE o.kind = "restore" /\ ~ts[t].diverged /\ t = active /\ ts[t].dirty
  <2>1. r = Write(o, t, o.path, text)
    BY <1>4 DEF AfterCheck
  <2>2. text \in 0..l
    OBVIOUS
  <2>3. Sending(Write(o, t, o.path, text), o, t, o.path, text, n, l)
    BY <1>7, <1>8, <2>2, WriteIs
  <2>4. Shown(r, o.kind, o.pick, text, n, l) /\ r.tab = t
    BY <1>0, <1>4, <2>1, <2>3, NoneAssumption DEF Shown, Sending
  <2>5. QED
    BY <2>4 DEF Onward
<1>5. CASE o.kind = "restore" /\ ~ts[t].diverged /\ t = active /\ ~ts[t].dirty
  <2>1. r = Command(o, "restore")
    BY <1>5 DEF AfterCheck
  <2>2. QED
    BY <1>5, <2>1 DEF Onward
<1>6. QED
  BY <1>0, <1>1, <1>2, <1>3, <1>4, <1>5

(* No tab goes, no text is forgotten, and a tab keeps having a path.       *)
Grown ==
  /\ Len(tabs) \in Nat /\ Len(tabs)' \in Nat /\ Len(tabs) <= Len(tabs)'
  /\ last \in Nat /\ last' \in Nat /\ last <= last'
  /\ \A t \in 1..Len(tabs) : tabs[t].path # None => tabs'[t].path # None

(* The handlers, of as many tabs and texts as there are.                   *)
LEMMA HandlersAre == Handler = HandlerOf(Len(tabs), last)
BY DEF Handler, HandlerOf

(* A handler that does nothing stays one when tabs or texts are added.     *)
LEMMA StillHandler ==
  ASSUME Grown, NEW o, o \in Handler
  PROVE  o \in Handler' /\ (Shape(o, tabs) => Shape(o, tabs'))
<1>1. /\ 0..Len(tabs) \subseteq 0..Len(tabs)' /\ 0..last \subseteq 0..last'
      /\ 1..Len(tabs) \subseteq 1..Len(tabs)'
  BY DEF Grown
<1>2. o \in Handler'
  BY <1>1 DEF Handler
<1>3. o.tab \in 0..Len(tabs) /\ o.todo \subseteq 1..Len(tabs)
  BY DEF Handler
<1>4. Noted(o, tabs) => Noted(o, tabs')
  <2>1. o.tab # 0 => o.tab \in 1..Len(tabs)
    BY <1>3 DEF Grown
  <2>2. QED
    BY <1>3, <2>1 DEF Grown, Noted
<1>5. QED
  BY <1>2, <1>4 DEF Shape

(* A handler that has no command in the queue becomes o.                   *)
LEMMA Becomes ==
  ASSUME Queue, Handlers, Grown, NEW p \in Proc, op[p].at # "call",
         NEW o, o \in Handler', Shape(o, tabs'), Become(p, o)
  PROVE  Queue' /\ Handlers'
<1>1. op' = [op EXCEPT ![p] = o] /\ op' \in [Proc -> Handler']
  <2>1. \A q \in Proc : op[q] \in Handler'
    BY StillHandler DEF Handlers
  <2>2. QED
    BY <2>1 DEF Become, Handlers
<1>2. Handlers'
  <2>1. \A q \in Proc : Shape(op'[q], tabs')
    BY <1>1, StillHandler DEF Handlers
  <2>2. QED
    BY <1>1, <2>1 DEF Handlers
<1>3. \A q \in Proc : op'[q] = IF q = p THEN o ELSE op[q]
  BY <1>1 DEF Handlers
<1>4. CASE o.at = "call"
  <2>1. calls' = Append(calls, p)
    BY <1>4 DEF Become
  <2>2. /\ calls' \in Seq(Proc) /\ Len(calls) \in Nat /\ DOMAIN calls = 1..Len(calls)
        /\ DOMAIN calls' = 1..(Len(calls) + 1)
        /\ \A n \in 1..(Len(calls) + 1) :
             calls'[n] = IF n = Len(calls) + 1 THEN p ELSE calls[n]
    BY <2>1, Appended DEF Queue
  <2>3. {calls'[n] : n \in DOMAIN calls'} = {calls[n] : n \in DOMAIN calls} \union {p}
    BY <2>2
  <2>4. {q \in Proc : op'[q].at = "call"} = {q \in Proc : op[q].at = "call"} \union {p}
    BY <1>3, <1>4
  <2>5. \A n \in 1..Len(calls) : calls[n] # p
    BY <2>2 DEF Queue
  <2>6. \A m, n \in 1..(Len(calls) + 1) : calls'[m] = calls'[n] => m = n
    BY <2>2, <2>5 DEF Queue
  <2>7. QED
    BY <1>2, <2>2, <2>3, <2>4, <2>6 DEF Queue
<1>5. CASE o.at # "call"
  <2>1. calls' = calls
    BY <1>5 DEF Become
  <2>2. {q \in Proc : op'[q].at = "call"} = {q \in Proc : op[q].at = "call"}
    BY <1>3, <1>5
  <2>3. QED
    BY <1>2, <2>1, <2>2 DEF Queue
<1>6. QED
  BY <1>4, <1>5

(* Nothing happens to the handlers.                                        *)
LEMMA HandlersStay ==
  ASSUME Queue, Handlers, Grown, UNCHANGED running
  PROVE  Queue' /\ Handlers'
<1>1. op' = op /\ calls' = calls
  BY DEF running
<1>2. \A q \in Proc : op[q] \in Handler' /\ Shape(op[q], tabs')
  BY StillHandler DEF Handlers
<1>3. QED
  BY <1>1, <1>2 DEF Queue, Handlers

Voided(r, o) ==
  /\ r \in Handler /\ \A ts : Shape(o, ts) => Shape(r, ts)
  /\ r = o \/ (o.cmd = "check" /\ r = [o EXCEPT !.outdated = TRUE])

(* The checks in flight are made void: no field of theirs is read that     *)
(* the lemmas above speak of.                                              *)
LEMMA OutdateIs ==
  ASSUME NEW procs \in [Proc -> Handler], NEW paths, NEW q \in Proc
  PROVE  Voided(Outdate(paths, procs)[q], procs[q])
<1> DEFINE r == Outdate(paths, procs)[q]
           o == procs[q]
<1>1. r = o \/ (o.cmd = "check" /\ r = [o EXCEPT !.outdated = TRUE])
  <2>1. r = IF o.cmd = "check" /\ o.path \in paths
            THEN [o EXCEPT !.outdated = TRUE] ELSE o
    BY DEF Outdate
  <2> HIDE DEF r, o
  <2>2. QED
    BY <2>1
<1>2. o \in Handler
  OBVIOUS
<1> HIDE DEF r, o
<1>3. ASSUME r = o PROVE Voided(r, o)
  BY <1>2, <1>3 DEF Voided
<1>4. ASSUME o.cmd = "check" /\ r = [o EXCEPT !.outdated = TRUE] PROVE Voided(r, o)
  <2>1. r \in Handler
    BY <1>2, <1>4 DEF Handler
  <2>2. /\ r.kind = o.kind /\ r.at = o.at /\ r.cmd = o.cmd /\ r.tab = o.tab
        /\ r.path = o.path /\ r.to = o.to /\ r.text = o.text /\ r.got = o.got
        /\ r.pick = o.pick /\ r.todo = o.todo
    BY <1>2, <1>4 DEF Handler
  <2>3. \A ts : Noted(o, ts) => Noted(r, ts)
    BY <2>2 DEF Noted
  <2>4. Idle.cmd = "none"
    BY DEF Idle
  <2>5. Fitting(o) => Fitting(r)
    BY <1>4, <2>2, <2>4 DEF Fitting
  <2>6. \A ts : Shape(o, ts) => Shape(r, ts)
    BY <2>3, <2>5 DEF Shape
  <2>7. QED
    BY <1>4, <2>1, <2>6 DEF Voided
<1>5. Voided(r, o)
  BY <1>1, <1>3, <1>4
<1>6. QED
  BY <1>5 DEF r, o

(* Checks are made void, and a handler ends, or none.                      *)
LEMMA EndsOutdating ==
  ASSUME Queue, Handlers, Grown, calls' = calls, NEW paths,
         \/ op' = Outdate(paths, op)
         \/ \E p \in Proc : op[p].at # "call" /\ op' = [Outdate(paths, op) EXCEPT ![p] = Idle]
  PROVE  Queue' /\ Handlers'
<1>0. \A q \in Proc :
        LET r == Outdate(paths, op)[q] IN
        /\ r \in Handler /\ Shape(r, tabs) /\ r.at = op[q].at
  <2>1. ASSUME NEW q \in Proc
        PROVE  LET r == Outdate(paths, op)[q] IN
               /\ r \in Handler /\ Shape(r, tabs) /\ r.at = op[q].at
    <3>1. op \in [Proc -> Handler] /\ Shape(op[q], tabs) /\ op[q] \in Handler
      BY DEF Handlers
    <3>2. Voided(Outdate(paths, op)[q], op[q])
      BY <3>1, OutdateIs
    <3>3. [op[q] EXCEPT !.outdated = TRUE].at = op[q].at
      BY <3>1 DEF Handler
    <3>4. QED
      BY <3>1, <3>2, <3>3 DEF Voided
  <2>2. QED
    BY <2>1
<1>1. Idle \in Handler /\ Shape(Idle, tabs) /\ Idle.at = "idle"
  <2>1. Len(tabs) \in Nat /\ last \in Nat
    BY DEF Grown
  <2>2. QED
    BY <2>1, IdleIs, HandlersAre
<1>2. DOMAIN Outdate(paths, op) = Proc
  BY DEF Outdate
<1>3. \A q \in Proc : /\ op'[q] \in Handler /\ Shape(op'[q], tabs)
                      /\ op'[q].at = "call" <=> op[q].at = "call"
  BY <1>0, <1>1, <1>2
<1>4. \A q \in Proc : op'[q] \in Handler' /\ Shape(op'[q], tabs')
  BY <1>3, StillHandler
<1>5. op' \in [Proc -> Handler']
  BY <1>2, <1>4 DEF Outdate
<1>6. {q \in Proc : op'[q].at = "call"} = {q \in Proc : op[q].at = "call"}
  BY <1>3
<1>7. QED
  BY <1>4, <1>5, <1>6 DEF Queue, Handlers

(* The backend runs the first command of the queue.                        *)
LEMMA DoneIs ==
  ASSUME Queue, Handlers, Grown, calls # <<>>, NEW p, p = Head(calls),
         NEW ok \in BOOLEAN, NEW got \in 0..last, Done(p, ok, got), UNCHANGED <<tabs, last>>,
         op[p].cmd = "read" /\ ok => got # NoFile
  PROVE  Queue' /\ Handlers' /\ p \in Proc /\ op[p].at = "call"
<1> DEFINE at == IF ok THEN "answer" ELSE "failed"
           o == [op[p] EXCEPT !.at = at, !.got = got]
<1>1. /\ p \in Proc /\ Len(calls) \in Nat \ {0} /\ DOMAIN calls = 1..Len(calls)
      /\ p = calls[1]
      /\ calls' \in Seq(Proc) /\ Len(calls') = Len(calls) - 1
      /\ DOMAIN calls' = 1..(Len(calls) - 1)
      /\ \A n \in 1..(Len(calls) - 1) : calls'[n] = calls[n + 1]
  BY HeadTailProperties, LenProperties, EmptySeq DEF Queue, Done
<1>2. op[p].at = "call"
  BY <1>1 DEF Queue
<1>3. op' = [op EXCEPT ![p] = o]
  BY DEF Done
<1>4. op[p] \in Handler /\ Shape(op[p], tabs)
  BY <1>1 DEF Handlers
<1>5. /\ o \in Handler /\ o.at = at /\ o.got = got
      /\ o.kind = op[p].kind /\ o.cmd = op[p].cmd /\ o.tab = op[p].tab
      /\ o.path = op[p].path /\ o.to = op[p].to /\ o.text = op[p].text
      /\ o.pick = op[p].pick /\ o.todo = op[p].todo
  BY <1>4 DEF Handler
<1>6. Shape(o, tabs)
  <2> HIDE DEF o
  <2>1. Noted(o, tabs)
    BY <1>4, <1>5 DEF Shape, Noted
  <2>2. Fitting(o)
    BY <1>2, <1>4, <1>5 DEF Shape, Fitting
  <2>3. QED
    BY <2>1, <2>2 DEF Shape
<1>7. Handlers'
  <2> HIDE DEF o
  <2>1. Handler' = Handler
    BY DEF Handler
  <2>2. op' \in [Proc -> Handler]
    BY <1>3, <1>5 DEF Handlers
  <2>3. \A q \in Proc : Shape(op'[q], tabs)
    BY <1>3, <1>6 DEF Handlers
  <2>4. QED
    BY <2>1, <2>2, <2>3 DEF Handlers
<1>8. \A q \in Proc : op'[q] = IF q = p THEN o ELSE op[q]
  BY <1>3 DEF Handlers
<1> HIDE DEF o
<1>9. {q \in Proc : op'[q].at = "call"} = {q \in Proc : op[q].at = "call"} \ {p}
  BY <1>5, <1>8
<1>10. {calls'[n] : n \in DOMAIN calls'} = {calls[n] : n \in DOMAIN calls} \ {p}
  <2>1. ASSUME NEW n \in 1..(Len(calls) - 1)
        PROVE  calls'[n] \in {calls[m] : m \in DOMAIN calls} \ {p}
    <3>1. n + 1 \in DOMAIN calls /\ calls[n + 1] # p /\ calls'[n] = calls[n + 1]
      BY <1>1 DEF Queue
    <3>2. QED
      BY <3>1
  <2>2. ASSUME NEW n \in DOMAIN calls, calls[n] # p
        PROVE  calls[n] \in {calls'[m] : m \in 1..(Len(calls) - 1)}
    <3>1. n - 1 \in 1..(Len(calls) - 1) /\ calls'[n - 1] = calls[n]
      BY <1>1, <2>2
    <3>2. QED
      BY <3>1
  <2>3. DOMAIN calls' = 1..(Len(calls) - 1)
    BY <1>1
  <2>4. QED
    BY <2>1, <2>2, <2>3
<1>11. \A m, n \in DOMAIN calls' : calls'[m] = calls'[n] => m = n
  <2>1. ASSUME NEW m \in 1..(Len(calls) - 1), NEW n \in 1..(Len(calls) - 1),
               calls'[m] = calls'[n]
        PROVE  m = n
    <3>1. m + 1 \in DOMAIN calls /\ n + 1 \in DOMAIN calls
      BY <1>1
    <3>2. calls[m + 1] = calls[n + 1]
      BY <1>1, <2>1
    <3>3. m + 1 = n + 1
      BY <3>1, <3>2 DEF Queue
    <3>4. QED
      BY <3>3
  <2>2. DOMAIN calls' = 1..(Len(calls) - 1)
    BY <1>1
  <2>3. QED
    BY <2>1, <2>2
<1>12. QED
  BY <1>1, <1>2, <1>7, <1>9, <1>10, <1>11 DEF Queue

(* A tab's record, of l texts.                                             *)
TabOf(l) ==
  [path : Path \union {None}, content : 1..l, base : 1..l,
   dirty : BOOLEAN, removed : BOOLEAN, diverged : BOOLEAN]

(* The tabs, of as many texts as there are.                                *)
LEMMA TabsAre ==
  /\ TabState = TabOf(last) /\ Known = 1..last
  /\ last' = last => TabState' = TabState /\ Known' = Known
BY DEF TabState, TabOf, Known

(* A new tab shows its text, is based on it, and is not marked unsaved.    *)
LEMMA NewTabIs ==
  ASSUME last \in Nat, NEW path \in Path \union {None}, NEW text \in Known
  PROVE  LET tab == NewTab(path, text) IN
         /\ tab \in TabState /\ tab.path = path /\ tab.content = text /\ tab.base = text
         /\ tab.dirty = FALSE
BY DEF NewTab, TabState

(* What is known of the tabs.                                              *)
LEMMA TabIs ==
  ASSUME Screen, last \in Nat
  PROVE  /\ Len(tabs) \in Nat /\ DOMAIN tabs = 1..Len(tabs) /\ items \subseteq Nat
         /\ \A t \in 1..Len(tabs) : tabs[t] \in TabState
         /\ active # 0 => active \in 1..Len(tabs) /\ active \in items
         /\ \A t \in items : t \in 1..Len(tabs) /\ Live(t) \in Known /\ Mine(t) \in Known
         /\ Tabbed(tabs, Len(tabs), last)
<1>1. /\ Len(tabs) \in Nat /\ DOMAIN tabs = 1..Len(tabs)
      /\ \A t \in 1..Len(tabs) : tabs[t] \in TabState
  BY LenProperties, ElementOfSeq DEF Screen
<1>2. \A t \in items : t \in 1..Len(tabs) /\ Live(t) \in Known /\ Mine(t) \in Known
  BY <1>1 DEF Screen, Live, Mine, MineIn, TabState
<1>3. Tabbed(tabs, Len(tabs), last)
  BY <1>1 DEF Tabbed, TabState, Known
<1>4. QED
  BY <1>1, <1>2, <1>3 DEF Screen

(* The first of the tabs that have a path.                                 *)
LEMMA TheTabIs ==
  ASSUME Screen, last \in Nat, NEW path, ByPath(path) # {}
  PROVE  TheTab(path) \in items /\ tabs[TheTab(path)].path = path
<1>1. ByPath(path) \subseteq 1..Len(tabs) /\ Len(tabs) \in Nat
  BY TabIs DEF ByPath
<1>2. TheTab(path) \in ByPath(path)
  BY <1>1, LeastIs DEF TheTab
<1>3. QED
  BY <1>2 DEF ByPath

(* refreshHistory(): the panel has a path, or none.                        *)
LEMMA PanelIs ==
  ASSUME Screen, NEW ts, ts \in [1..Len(tabs) -> TabState], Len(tabs) \in Nat
  PROVE  PanelOf(active, ts) \in Path \union {None}
<1>1. active # 0 => ts[active] \in TabState
  BY DEF Screen
<1>2. QED
  BY <1>1 DEF PanelOf, TabState

(* setActive(): what becomes of the screen.                                *)
LEMMA SetActiveIs ==
  ASSUME Screen, Rest, UNCHANGED last, NEW ts \in Seq(TabState), Len(ts) \in Tab,
         items \subseteq 1..Len(ts), NEW t \in 1..Len(ts), SetActive(t, ts)
  PROVE  /\ tabs' \in Seq(TabState) /\ Len(tabs') = Len(ts) /\ DOMAIN tabs' = 1..Len(ts)
         /\ active' = t /\ editor' \in Known /\ panel' \in Path \union {None}
         /\ editor' = IF t = active THEN editor ELSE tabs'[t].content
         /\ \A u \in 1..Len(ts) :
              /\ tabs'[u].path = ts[u].path /\ tabs'[u].base = ts[u].base
              /\ tabs'[u].dirty = ts[u].dirty
              /\ tabs'[u].content =
                   IF u = active /\ u # t THEN editor ELSE ts[u].content
<1>1. /\ Len(ts) \in Nat /\ DOMAIN ts = 1..Len(ts) /\ \A u \in 1..Len(ts) : ts[u] \in TabState
  BY LenProperties, ElementOfSeq
<1>2. active' = t /\ editor \in Known
  BY DEF SetActive, Screen
<1>0. panel' \in Path \union {None}
  <2>1. t # 0 /\ ts[t] \in TabState
    BY <1>1
  <2>2. panel' = IF t = active THEN panel ELSE ts[t].path
    BY <2>1 DEF SetActive, PanelOf
  <2>3. QED
    BY <2>1, <2>2 DEF TabState, Screen
<1>3. CASE active \in {0, t}
  <2>1. tabs' = ts /\ editor' = IF t = active THEN editor ELSE ts[t].content
    BY <1>3 DEF SetActive
  <2>2. 0 \notin 1..Len(ts)
    BY <1>1
  <2>3. ts[t].content \in Known
    BY <1>1 DEF TabState
  <2>4. QED
    BY <1>1, <1>2, <1>3, <1>0, <2>1, <2>2, <2>3
<1>4. CASE active \notin {0, t}
  <2> DEFINE x == [ts[active] EXCEPT !.content = editor]
  <2>1. active \in 1..Len(ts)
    BY <1>4 DEF Screen
  <2>2. x \in TabState
    BY <1>1, <1>2, <2>1 DEF TabState
  <2>3. x.path = ts[active].path /\ x.base = ts[active].base /\ x.dirty = ts[active].dirty
        /\ x.content = editor
    BY <1>1, <2>1 DEF TabState
  <2>4. tabs' = [ts EXCEPT ![active] = x] /\ editor' = tabs'[t].content
    BY <1>4 DEF SetActive
  <2> HIDE DEF x
  <2>5. /\ tabs' \in Seq(TabState) /\ Len(tabs') = Len(ts) /\ DOMAIN tabs' = 1..Len(ts)
        /\ \A u \in 1..Len(ts) : tabs'[u] = IF u = active THEN x ELSE ts[u]
    BY <2>1, <2>2, <2>4, Replaced
  <2>6. tabs'[t].content \in Known
    BY <1>1, <1>4, <2>5 DEF TabState
  <2>7. QED
    BY <1>2, <1>4, <1>0, <2>3, <2>4, <2>5, <2>6
<1>6. QED
  BY <1>3, <1>4

(* openDocument(): the tab that has the path, or a new one.                *)
LEMMA OpenDocumentIs ==
  ASSUME Screen, Rest, UNCHANGED last, NEW path \in Path \union {None},
         NEW text \in Known, OpenDocument(path, text)
  PROVE  /\ Screen' /\ Grown
         /\ \/ /\ items' = items /\ Len(tabs') = Len(tabs)
               /\ \E t \in items : SetActive(t, tabs)
            \/ /\ items' = items \union {Len(tabs) + 1} /\ Len(tabs') = Len(tabs) + 1
               /\ SetActive(Len(tabs) + 1, Append(tabs, NewTab(path, text)))
<1>0. last \in Nat /\ last' = last /\ TabState' = TabState /\ Known' = Known /\ MaxTabs \in Nat
  BY TabsAre, BoundAssumption DEF Rest, Text
<1>1. /\ Len(tabs) \in Nat /\ DOMAIN tabs = 1..Len(tabs)
      /\ Len(tabs) \in 1..MaxTabs /\ items \subseteq 1..Len(tabs)
  BY <1>0, TabIs DEF Screen, Tab
<1>2. CASE path # None /\ ByPath(path) # {}
  <2>1. TheTab(path) \in items /\ TheTab(path) \in 1..Len(tabs)
    BY <1>0, <1>1, <1>2, TheTabIs
  <2>2. SetActive(TheTab(path), tabs) /\ items' = items
    BY <1>2 DEF OpenDocument
  <2>3. /\ tabs' \in Seq(TabState) /\ Len(tabs') = Len(tabs)
        /\ active' = TheTab(path) /\ editor' \in Known /\ panel' \in Path \union {None}
        /\ \A u \in 1..Len(tabs) : tabs'[u].path = tabs[u].path
    BY <2>1, <2>2, SetActiveIs DEF Screen
  <2>4. Screen' /\ Grown
    BY <1>0, <1>1, <2>1, <2>2, <2>3 DEF Screen, Grown, Tab
  <2>5. QED
    BY <2>1, <2>2, <2>3, <2>4
<1>3. CASE ~(path # None /\ ByPath(path) # {})
  <2> DEFINE t == Len(tabs) + 1
             tab == NewTab(path, text)
             ts == Append(tabs, tab)
  <2>1. t \in Tab /\ items' = items \union {t} /\ SetActive(t, ts)
    BY <1>3 DEF OpenDocument
  <2>2. tab \in TabState
    BY <1>0, NewTabIs
  <2> HIDE DEF tab
  <2>3. /\ ts \in Seq(TabState) /\ Len(ts) = t
        /\ \A u \in 1..t : ts[u] = IF u = t THEN tab ELSE tabs[u]
    BY <2>2, Appended DEF Screen
  <2>4. t \in 1..Len(ts) /\ items \subseteq 1..Len(ts) /\ Len(ts) \in Tab
    BY <1>1, <2>1, <2>3
  <2> HIDE DEF ts
  <2>5. /\ tabs' \in Seq(TabState) /\ Len(tabs') = t
        /\ active' = t /\ editor' \in Known /\ panel' \in Path \union {None}
        /\ \A u \in 1..t : tabs'[u].path = ts[u].path
    BY <2>1, <2>3, <2>4, SetActiveIs
  <2>6. \A u \in 1..Len(tabs) : u \in 1..t /\ u # t
    BY <1>1
  <2>7. Screen'
    BY <1>0, <1>1, <2>1, <2>5 DEF Screen
  <2>8. Grown
    BY <1>0, <1>1, <2>3, <2>5, <2>6 DEF Grown
  <2>9. QED
    BY <2>1, <2>5, <2>7, <2>8 DEF ts, tab
<1>4. QED
  BY <1>2, <1>3

(* close() of some tabs: which tabs are left, and what is on screen.       *)
LEMMA CloseTabsIs ==
  ASSUME Screen, Rest, UNCHANGED <<last, tabs>>, NEW gone, CloseTabs(gone)
  PROVE  /\ Screen' /\ Grown /\ items' = items \ gone
         /\ editor' = IF active' \in {active, 0} THEN editor ELSE tabs[active'].content
<1> DEFINE rest == items \ gone
           right == {t \in rest : t > active}
           next == IF active \in rest THEN active
                   ELSE IF right # {} THEN Min(right)
                   ELSE IF rest # {} THEN Max(rest) ELSE 0
           shown == IF next # 0 THEN next ELSE Max(items \union {0})
<1>0. last \in Nat /\ last' = last /\ TabState' = TabState /\ Known' = Known
  BY TabsAre DEF Rest, Text
<1>1. /\ Len(tabs) \in Nat /\ items \subseteq 1..Len(tabs)
      /\ \A t \in 1..Len(tabs) : tabs[t] \in TabState
  BY <1>0, TabIs DEF Screen
<1>2. rest \subseteq 1..Len(tabs) /\ right \subseteq 1..Len(tabs)
      /\ right \subseteq rest /\ 0 \notin 1..Len(tabs)
  <2>0. 0 \notin 1..Len(tabs)
    BY <1>1
  <2>1. rest \subseteq 1..Len(tabs)
    BY <1>1
  <2>2. right \subseteq rest
    OBVIOUS
  <2> HIDE DEF rest, right
  <2>3. QED
    BY <2>0, <2>1, <2>2
<1>3. /\ right # {} => Min(right) \in right
      /\ rest # {} => Max(rest) \in rest
  <2> HIDE DEF rest, right
  <2>1. rest \subseteq 0..Len(tabs)
    BY <1>1, <1>2
  <2>2. QED
    BY <1>1, <1>2, <2>1, LeastIs, GreatestIs
<1>4. /\ items' = rest /\ active' = next
      /\ editor' = IF next \in {active, 0} THEN editor ELSE tabs[next].content
      /\ panel' = IF shown = active THEN panel ELSE PanelOf(shown, tabs)
  BY DEF CloseTabs
<1>5. next \in rest \union {0} /\ (next = 0) = (rest = {})
  <2> HIDE DEF rest, right
  <2>1. QED
    BY <1>2, <1>3
<1>9. shown \in 0..Len(tabs)
  <2>1. Max(items \union {0}) \in items \union {0}
    <3>1. items \union {0} \subseteq 0..Len(tabs) /\ items \union {0} # {}
      BY <1>1
    <3> DEFINE ground == items \union {0}
    <3> HIDE DEF ground
    <3>2. ground \subseteq 0..Len(tabs) /\ ground # {}
      BY <3>1 DEF ground
    <3>3. Max(ground) \in ground
      BY <1>1, <3>2, GreatestIs
    <3>4. QED
      BY <3>3 DEF ground
  <2> HIDE DEF next, rest, right
  <2>2. next \in 0..Len(tabs)
    BY <1>1, <1>2, <1>5
  <2>3. shown = next \/ shown = Max(items \union {0})
    OBVIOUS
  <2>4. items \union {0} \subseteq 0..Len(tabs)
    BY <1>1
  <2>5. QED
    BY <2>1, <2>2, <2>3, <2>4
<1> HIDE DEF next, shown
<1>10. panel' \in Path \union {None}
  BY <1>1, <1>4, <1>9, SMT DEF PanelOf, TabState, Screen
<1>6. Screen'
  <2>1. rest \subseteq 1..Len(tabs)
    BY <1>2
  <2>2. editor' \in Known
    BY <1>1, <1>2, <1>4, <1>5 DEF Screen, TabState
  <2>3. QED
    BY <1>0, <1>4, <1>5, <1>10, <2>1, <2>2 DEF Screen
<1>7. Grown
  BY <1>0, <1>1 DEF Grown
<1>8. QED
  BY <1>4, <1>6, <1>7

(* What the other proofs use of the typed state.                           *)
LEMMA Typed ==
  ASSUME TypeInv
  PROVE  /\ last \in Nat /\ Len(tabs) \in Nat /\ ops \in Nat
         /\ Known = 1..last /\ TabState = TabOf(last) /\ Handler = HandlerOf(Len(tabs), last)
         /\ Screen /\ Rest /\ Files /\ Queue /\ Handlers
         /\ \A p \in Proc : op[p] \in Handler /\ Shape(op[p], tabs)
         /\ items \subseteq 1..Len(tabs) /\ editor \in Known /\ 0 \in 0..last
         /\ Tabbed(tabs, Len(tabs), last)
<1>1. last \in Nat
  BY DEF TypeInv, Rest, Text
<1>2. Screen /\ Rest /\ Files /\ Queue /\ Handlers
  BY DEF TypeInv
<1>3. Len(tabs) \in Nat /\ Tabbed(tabs, Len(tabs), last)
  BY <1>1, <1>2, TabIs
<1>4. QED
  BY <1>1, <1>2, <1>3, TabsAre, HandlersAre DEF Rest, Handlers, Screen

(* The screen stays as it is.                                              *)
LEMMA ScreenStays ==
  ASSUME TypeInv, UNCHANGED <<screen, last>>
  PROVE  Screen' /\ Grown /\ Handler' = Handler
<1>1. last' = last /\ tabs' = tabs /\ items' = items /\ active' = active /\ editor' = editor
      /\ panel' = panel
  BY DEF screen
<1>2. TabState' = TabState /\ Known' = Known
  BY <1>1, TabsAre
<1>3. Screen'
  BY <1>1, <1>2, Typed DEF Screen
<1>4. Grown
  BY <1>1, Typed DEF Grown
<1>5. QED
  BY <1>1, <1>3, <1>4 DEF Handler

(* A step of the user's, of a handler or of the watcher.                   *)
LEMMA Assembled ==
  ASSUME TypeInv, UNCHANGED <<files, last>>, Screen', Grown, Queue', Handlers',
         ops' \in Nat, owed' \subseteq owed, strayed' \subseteq 1..Len(tabs)',
         removals' \subseteq removals, changes' \subseteq changes
  PROVE  TypeInv'
<1>1. last' = last /\ disk' = disk /\ versions' = versions /\ trash' = trash
  BY DEF files
<1>2. Known' = Known
  BY <1>1, TabsAre
<1>3. Files'
  BY <1>1, <1>2, Typed DEF Files
<1>4. Rest'
  BY <1>1, <1>2, Typed DEF Rest
<1>5. QED
  BY <1>3, <1>4 DEF TypeInv

(* A handler becomes o, and nothing happens on screen.                     *)
LEMMA Quiet ==
  ASSUME TypeInv, UNCHANGED <<files, watcher, last, screen>>, NEW p \in Proc,
         op[p].at # "call", NEW o, o \in Handler, Shape(o, tabs), Become(p, o),
         ops' \in Nat, owed' \subseteq owed, strayed' \subseteq 1..Len(tabs)
  PROVE  TypeInv'
<1>1. Screen' /\ Grown /\ Handler' = Handler
  BY ScreenStays
<1>2. tabs' = tabs /\ UNCHANGED <<files, last>> /\ removals' = removals /\ changes' = changes
  BY DEF screen, watcher
<1>3. Queue' /\ Handlers'
  BY <1>1, <1>2, Typed, Becomes
<1>4. QED
  BY <1>1, <1>2, <1>3, Assembled

(* A handler starts.                                                       *)
LEMMA QuietStart ==
  ASSUME TypeInv, UNCHANGED <<files, watcher, last, screen, owed, strayed>>, NEW p \in Proc,
         NEW o, o \in Handler, Shape(o, tabs), op[p] = Idle, Become(p, o), ops' = ops + 1
  PROVE  TypeInv'
<1>1. op[p].at # "call"
  BY DEF Idle
<1>2. ops' \in Nat /\ owed' \subseteq owed /\ strayed' \subseteq 1..Len(tabs)
  BY Typed DEF Rest
<1>3. QED
  BY <1>1, <1>2, Quiet

-----------------------------------------------------------------------------
(* What the next command of a handler is about.                            *)
LEMMA CheckedShape ==
  ASSUME NEW n \in Nat, NEW l \in Nat, NEW ts, Tabbed(ts, n, l), NEW r, NEW kind, NEW pick,
         Checked(r, kind, pick, ts, n, l),
         kind \in {"watch", "bulk", "save", "restore"}, kind = "restore" => pick # NoFile
  PROVE  r \in HandlerOf(n, l) /\ Shape(r, ts)
<1>1. r.tab # 0 /\ r.path \in Path /\ ts[r.tab].path # None
  BY DEF Checked, Tabbed
<1>2. QED
  BY <1>1 DEF Checked, Shape, Noted, Fitting

(* A write of the bulk writers is about a tab that has a path.             *)
LEMMA WrittenShape ==
  ASSUME NEW n \in Nat, NEW l \in Nat, NEW ts, Tabbed(ts, n, l), NEW r, NEW pick,
         NEW list \in SUBSET (1..n), \A t \in list : ts[t].path # None,
         Written(r, "bulk", pick, list, ts, n, l)
  PROVE  r \in HandlerOf(n, l) /\ Shape(r, ts)
<1>1. r.tab \in 1..n /\ r.tab # 0 /\ r.path \in Path /\ ts[r.tab].path # None
      /\ r.text \in 1..l
  <2>1. r.tab \in list /\ r.tab \in 1..n /\ r.path = ts[r.tab].path
        /\ r.text = ts[r.tab].content
    BY DEF Written
  <2>2. r.tab # 0
    BY <2>1
  <2>3. QED
    BY <2>1, <2>2 DEF Tabbed
<1>2. r.text # NoFile
  BY <1>1 DEF NoFile
<1>3. QED
  BY <1>1, <1>2 DEF Written, Shape, Noted, Fitting

(* A write of what is on screen is about a tab that has a path.            *)
LEMMA ShownShape ==
  ASSUME NEW n \in Nat, NEW l \in Nat, NEW ts, NEW r, NEW kind, NEW pick, NEW text \in 1..l,
         Shown(r, kind, pick, text, n, l), ts[r.tab].path # None,
         kind = "restore" => pick # NoFile
  PROVE  r \in HandlerOf(n, l) /\ Shape(r, ts)
<1>1. r.path \in Path /\ r.text # NoFile
  BY DEF Shown, HandlerOf, NoFile
<1>2. QED
  BY <1>1 DEF Shown, Shape, Noted, Fitting

(* A handler of kind k, begun with a command about a path.                 *)
LEMMA Begun ==
  ASSUME NEW n \in Nat, NEW l \in Nat, NEW ts, NEW o, NEW k \in Kind, NEW c \in Cmd,
         o \in HandlerOf(n, l), o.kind = k, o.path \in Path,
         \/ k = "delete" /\ c = "trash"
         \/ k = "open" /\ c = "read"
  PROVE  Command(o, c) \in HandlerOf(n, l) /\ Shape(Command(o, c), ts)
<1> DEFINE r == Command(o, c)
<1>1. /\ r \in HandlerOf(n, l) /\ r.at = "call" /\ r.cmd = c
      /\ r.kind = o.kind /\ r.path = o.path /\ r.to = o.to /\ r.pick = o.pick
  BY CommandIs
<1> HIDE DEF r
<1>2. Shape(r, ts)
  BY <1>1 DEF Shape, Noted, Fitting
<1>3. QED
  BY <1>1, <1>2 DEF r

-----------------------------------------------------------------------------
(* The handlers that start.                                                *)

(* doSave(): the types are kept.                                           *)
LEMMA SaveTypes ==
  ASSUME TypeInv, NEW p \in Proc, Save(p), UNCHANGED <<files, watcher, last>>
  PROVE  TypeInv'
<1> DEFINE r == Check(Of("save"), active, tabs, Mine(active))
<1>1. /\ active # 0 /\ tabs[active].path # None /\ op[p] = Idle /\ ops' = ops + 1
      /\ Become(p, r) /\ UNCHANGED <<screen, owed, strayed>>
  BY DEF Save, Starts
<1>2. active \in 1..Len(tabs) /\ Mine(active) \in 0..last
  BY <1>1, Typed, TabIs
<1>3. Of("save") \in HandlerOf(Len(tabs), last) /\ Of("save").kind = "save"
      /\ Of("save").pick = 0 /\ Of("save").todo = {}
  BY Typed, OfIs DEF Kind
<1>4. tabs[active].path \in Path \union {None} /\ tabs[active].base \in 0..last
  BY <1>2, Typed DEF Tabbed
<1>5. Checked(r, "save", 0, tabs, Len(tabs), last)
  <2>1. Asking(r, Of("save"), active, tabs, Mine(active), Len(tabs), last)
    BY <1>2, <1>3, <1>4, Typed, CheckIs
  <2>2. QED
    BY <1>1, <1>2, <1>3, <2>1 DEF Checked, Asking
<1> HIDE DEF r
<1>6. r \in Handler /\ Shape(r, tabs)
  BY <1>5, Typed, CheckedShape
<1>7. QED
  BY <1>1, <1>6, QuietStart

(* doRestore(), before its dialog: the types are kept.                     *)
LEMMA RestoreVersionTypes ==
  ASSUME TypeInv, NEW p \in Proc, NEW text \in Text, RestoreVersion(p, text),
         UNCHANGED <<files, watcher, last>>
  PROVE  TypeInv'
<1> DEFINE q == Of("version")
           r == [q EXCEPT !.at = "dialog", !.pick = text]
<1>1. /\ op[p] = Idle /\ ops' = ops + 1 /\ text \in UNION {versions[path] : path \in Path}
      /\ Become(p, r) /\ UNCHANGED <<screen, owed, strayed>>
  BY DEF RestoreVersion, Starts
<1>2. text \in 1..last /\ text \in 0..last
  BY <1>1, Typed DEF Files
<1>3. q \in HandlerOf(Len(tabs), last) /\ q.kind = "version" /\ q.cmd = "none" /\ q.tab = 0
  BY Typed, OfIs DEF Kind
<1> HIDE DEF q
<1>4. r \in HandlerOf(Len(tabs), last) /\ r.kind = "version" /\ r.cmd = "none"
      /\ r.at = "dialog" /\ r.pick = text /\ r.tab = 0
  BY <1>2, <1>3 DEF HandlerOf
<1> HIDE DEF r
<1>5. r \in Handler /\ Shape(r, tabs)
  BY <1>2, <1>4, Typed DEF Shape, Noted, Fitting, NoFile
<1>6. QED
  BY <1>1, <1>5, QuietStart

(* doRestore(), confirmed or not: the types are kept.                      *)
LEMMA RestoreConfirmedTypes ==
  ASSUME TypeInv, NEW p \in Proc, NEW yes, RestoreConfirmed(p, yes),
         UNCHANGED <<files, watcher, last>>
  PROVE  TypeInv'
<1> DEFINE o == op[p]
           q == Check(Of("restore"), active, tabs, Mine(active))
           asks == [q EXCEPT !.pick = o.pick]
           restores == [Command(o, "restore") EXCEPT !.path = panel]
<1>1. /\ o.kind = "version" /\ o.at = "dialog" /\ UNCHANGED <<screen, ops, owed, strayed>>
      /\ \/ Become(p, Idle)
         \/ active # 0 /\ tabs[active].path = panel /\ panel # None /\ Become(p, asks)
         \/ panel # None /\ Become(p, restores)
  BY DEF RestoreConfirmed
<1>2. o \in HandlerOf(Len(tabs), last) /\ o.pick \in 1..last
  <2>1. o \in HandlerOf(Len(tabs), last) /\ o.pick # 0
    BY <1>1, Typed DEF Shape, Fitting, NoFile
  <2>2. o.pick \in 0..last
    BY <2>1 DEF HandlerOf
  <2>3. QED
    BY <2>1, <2>2, Typed
<1>3. o.pick # NoFile /\ o.pick \in 0..last /\ o.at # "call"
  BY <1>1, <1>2 DEF NoFile
<1>4. ops' \in Nat /\ owed' \subseteq owed /\ strayed' \subseteq 1..Len(tabs)
  BY <1>1, Typed DEF Rest
<1> HIDE DEF o
<1>5. CASE Become(p, Idle)
  BY <1>1, <1>3, <1>4, <1>5, Typed, IdleIs, Quiet DEF o
<1>6. CASE active # 0 /\ tabs[active].path = panel /\ panel # None /\ Become(p, asks)
  <2>1. active \in 1..Len(tabs) /\ Mine(active) \in 0..last
    BY <1>6, Typed, TabIs
  <2>2. Of("restore") \in HandlerOf(Len(tabs), last) /\ Of("restore").kind = "restore"
        /\ Of("restore").todo = {}
    BY Typed, OfIs DEF Kind
  <2>3. tabs[active].path \in Path /\ tabs[active].base \in 0..last
    BY <1>6, <2>1, Typed DEF Tabbed
  <2>4. /\ q \in HandlerOf(Len(tabs), last) /\ q.at = "call" /\ q.cmd = "check"
        /\ q.kind = "restore" /\ q.tab = active /\ q.path = tabs[active].path
        /\ q.base = tabs[active].base /\ q.got = 0
    BY <2>1, <2>2, <2>3, Typed, CheckIs, SMTT(30) DEF Asking
  <2> HIDE DEF q
  <2>5. Checked(asks, "restore", o.pick, tabs, Len(tabs), last)
    <3>1. asks \in HandlerOf(Len(tabs), last)
      BY <1>3, <2>4 DEF HandlerOf
    <3>2. asks.at = q.at /\ asks.cmd = q.cmd /\ asks.kind = q.kind /\ asks.tab = q.tab
          /\ asks.path = q.path /\ asks.base = q.base /\ asks.got = q.got
          /\ asks.pick = o.pick
      BY <2>4 DEF HandlerOf
    <3> HIDE DEF asks
    <3>3. QED
      BY <1>6, <2>1, <2>3, <2>4, <3>1, <3>2, NoneAssumption DEF Checked
  <2> HIDE DEF asks
  <2>6. asks \in Handler /\ Shape(asks, tabs)
    BY <1>3, <2>5, Typed, CheckedShape
  <2>7. QED
    BY <1>1, <1>3, <1>4, <1>6, <2>6, Quiet DEF o
<1>7. CASE panel # None /\ Become(p, restores)
  <2> DEFINE c == Command(o, "restore")
  <2>1. panel \in Path
    BY <1>7, Typed DEF Screen
  <2>2. /\ c \in HandlerOf(Len(tabs), last) /\ c.at = "call" /\ c.cmd = "restore"
        /\ c.kind = o.kind /\ c.pick = o.pick /\ c.tab = o.tab
    BY <1>2, Typed, CommandIs DEF Cmd
  <2> HIDE DEF c
  <2>3. /\ restores \in HandlerOf(Len(tabs), last) /\ restores.at = "call"
        /\ restores.cmd = "restore" /\ restores.kind = o.kind /\ restores.pick = o.pick
        /\ restores.path = panel /\ restores.tab = o.tab
    BY <2>1, <2>2 DEF HandlerOf, c
  <2> HIDE DEF restores
  <2>4. restores \in Handler /\ Shape(restores, tabs)
    <3>1. o.tab = 0
      BY <1>1, Typed DEF Shape, Fitting, o
    <3>2. QED
      BY <1>1, <1>3, <2>1, <2>3, <3>1, Typed DEF Shape, Noted, Fitting
  <2>5. QED
    BY <1>1, <1>3, <1>4, <1>7, <2>4, Quiet DEF o
<1>8. QED
  BY <1>1, <1>5, <1>6, <1>7

(* selectRail(): the types are kept.                                       *)
LEMMA RefreshHistoryTypes ==
  ASSUME TypeInv, RefreshHistory, UNCHANGED <<files, watcher, last>>
  PROVE  TypeInv'
<1>1. /\ panel' = PanelOf(active, tabs)
      /\ UNCHANGED <<tabs, items, active, editor, running, ops, owed, strayed>>
  BY DEF RefreshHistory
<1>2. DOMAIN tabs = 1..Len(tabs) /\ tabs \in [1..Len(tabs) -> TabState]
  BY Typed, TabIs, LenProperties DEF Screen
<1>3. TabState' = TabState /\ Known' = Known
  BY TabsAre
<1>4. panel' \in Path \union {None}
  BY <1>1, <1>2, Typed, PanelIs
<1>5. Screen' /\ Grown
  BY <1>1, <1>3, <1>4, Typed DEF Screen, Grown
<1>6. Queue' /\ Handlers'
  BY <1>1, <1>5, Typed, HandlersStay
<1>7. strayed' \subseteq 1..Len(tabs)' /\ ops' \in Nat
  BY <1>1, Typed DEF Rest
<1>8. QED
  BY <1>1, <1>5, <1>6, <1>7, Assembled DEF watcher

(* What a bulk save does first is of a handler's shape.                    *)
LEMMA BulkShape ==
  ASSUME TypeInv, NEW r,
         \/ r = Idle
         \/ \E pick : Checked(r, "bulk", pick, tabs, Len(tabs), last)
         \/ \E pick : \E list \in SUBSET {t \in 1..Len(tabs) : tabs[t].path # None} :
              Written(r, "bulk", pick, list, tabs, Len(tabs), last)
  PROVE  r \in Handler /\ Shape(r, tabs)
<1>1. CASE r = Idle
  BY <1>1, Typed, IdleIs
<1>2. ASSUME NEW pick, Checked(r, "bulk", pick, tabs, Len(tabs), last)
      PROVE  r \in Handler /\ Shape(r, tabs)
  BY <1>2, Typed, CheckedShape
<1>3. ASSUME NEW pick, NEW list \in SUBSET {t \in 1..Len(tabs) : tabs[t].path # None},
             Written(r, "bulk", pick, list, tabs, Len(tabs), last)
      PROVE  r \in Handler /\ Shape(r, tabs)
  <2>1. list \in SUBSET (1..Len(tabs)) /\ \A t \in list : tabs[t].path # None
    OBVIOUS
  <2>2. QED
    BY <1>3, <2>1, Typed, WrittenShape
<1>4. QED
  BY <1>1, <1>2, <1>3

(* doSaveAll() or an autosave tick: the types are kept.                    *)
LEMMA SaveAllTypes ==
  ASSUME TypeInv, NEW p \in Proc, SaveAll(p), UNCHANGED <<files, watcher, last>>
  PROVE  TypeInv'
<1> DEFINE r == BulkNext(Of("bulk"), tabs, editor)
<1>1. op[p] = Idle /\ ops' = ops + 1 /\ Become(p, r) /\ UNCHANGED <<screen, owed, strayed>>
  BY DEF SaveAll
<1>2. Of("bulk") \in HandlerOf(Len(tabs), last) /\ Of("bulk").kind = "bulk"
      /\ \A t \in Of("bulk").todo : tabs[t].path # None
  BY Typed, OfIs DEF Kind
<1>3. \/ r = Idle
      \/ Checked(r, "bulk", Of("bulk").pick, tabs, Len(tabs), last)
      \/ \E list \in SUBSET {t \in items \intersect Of("bulk").seen : tabs[t].path # None} :
           Written(r, "bulk", Of("bulk").pick, list, tabs, Len(tabs), last)
  BY <1>2, Typed, BulkNextIs
<1>4. SUBSET {t \in items \intersect Of("bulk").seen : tabs[t].path # None}
        \subseteq SUBSET {t \in 1..Len(tabs) : tabs[t].path # None}
  BY Typed
<1> HIDE DEF r
<1>5. r \in Handler /\ Shape(r, tabs)
  BY <1>3, <1>4, BulkShape
<1>6. QED
  BY <1>1, <1>5, QuietStart

(* doSaveAs(), before its dialog: the types are kept.                      *)
LEMMA SaveAsTypes ==
  ASSUME TypeInv, NEW p \in Proc, SaveAs(p), UNCHANGED <<files, watcher, last>>
  PROVE  TypeInv'
<1> DEFINE q == Of("saveas")
           r == [q EXCEPT !.at = "dialog", !.tab = active]
<1>1. active # 0 /\ op[p] = Idle /\ ops' = ops + 1 /\ Become(p, r)
      /\ UNCHANGED <<screen, owed, strayed>>
  BY DEF SaveAs, Starts
<1>2. active \in 0..Len(tabs)
  BY <1>1, Typed, TabIs
<1>3. q \in HandlerOf(Len(tabs), last) /\ q.kind = "saveas" /\ q.cmd = "none"
  BY Typed, OfIs DEF Kind
<1> HIDE DEF q
<1>4. r \in HandlerOf(Len(tabs), last) /\ r.kind = "saveas" /\ r.cmd = "none"
      /\ r.at = "dialog" /\ r.tab = active
  BY <1>2, <1>3 DEF HandlerOf
<1> HIDE DEF r
<1>5. r \in Handler /\ Shape(r, tabs)
  BY <1>1, <1>4, Typed DEF Shape, Noted, Fitting
<1>6. QED
  BY <1>1, <1>5, QuietStart

(* doRenameEntry(), before its answer: the types are kept.                 *)
LEMMA RenameTypes ==
  ASSUME TypeInv, NEW p \in Proc, NEW path \in Path, NEW to \in Path, Rename(p, path, to),
         UNCHANGED <<files, watcher, last>>
  PROVE  TypeInv'
<1> DEFINE q == Command(Of("rename"), "rename")
           r == [q EXCEPT !.path = path, !.to = to]
<1>1. op[p] = Idle /\ ops' = ops + 1 /\ Become(p, r) /\ UNCHANGED <<screen, owed, strayed>>
  BY DEF Rename, Starts
<1>2. Of("rename") \in HandlerOf(Len(tabs), last) /\ Of("rename").kind = "rename"
  BY Typed, OfIs DEF Kind
<1>3. q \in HandlerOf(Len(tabs), last) /\ q.kind = "rename" /\ q.cmd = "rename" /\ q.at = "call"
  BY <1>2, Typed, CommandIs DEF Cmd
<1> HIDE DEF q
<1>4. r \in HandlerOf(Len(tabs), last) /\ r.kind = "rename" /\ r.cmd = "rename"
      /\ r.at = "call" /\ r.path = path /\ r.to = to
  BY <1>3 DEF HandlerOf
<1> HIDE DEF r
<1>5. r \in Handler /\ Shape(r, tabs)
  BY <1>4, Typed DEF Shape, Noted, Fitting
<1>6. QED
  BY <1>1, <1>5, QuietStart

(* doDeleteEntry(), before its answer: the types are kept.                 *)
LEMMA DeleteTypes ==
  ASSUME TypeInv, NEW p \in Proc, NEW path \in Path, Delete(p, path),
         UNCHANGED <<files, watcher, last>>
  PROVE  TypeInv'
<1> DEFINE affected == ByPath(path)
           q == Of("delete")
           o == [q EXCEPT !.path = path, !.todo = affected]
           dialog == [o EXCEPT !.at = "dialog"]
           r == IF \E t \in affected : tabs[t].dirty THEN dialog ELSE Command(o, "trash")
<1>1. op[p] = Idle /\ ops' = ops + 1 /\ Become(p, r) /\ UNCHANGED <<screen, owed, strayed>>
  BY DEF Delete, Starts
<1>2. q \in HandlerOf(Len(tabs), last) /\ q.kind = "delete" /\ q.cmd = "none"
  BY Typed, OfIs DEF Kind
<1>3. affected \in SUBSET (1..Len(tabs))
  BY Typed DEF ByPath
<1> HIDE DEF q, affected
<1>4. o \in HandlerOf(Len(tabs), last) /\ o.kind = "delete" /\ o.cmd = "none" /\ o.path = path
  BY <1>2, <1>3 DEF HandlerOf
<1> HIDE DEF o
<1>5. dialog \in HandlerOf(Len(tabs), last) /\ dialog.at = "dialog"
      /\ dialog.kind = "delete" /\ dialog.cmd = "none" /\ dialog.path = path
  BY <1>4 DEF HandlerOf
<1>6. Command(o, "trash") \in HandlerOf(Len(tabs), last) /\ Shape(Command(o, "trash"), tabs)
  BY <1>4, Typed, Begun DEF Kind, Cmd
<1> HIDE DEF dialog
<1>7. Shape(dialog, tabs)
  BY <1>5 DEF Shape, Noted, Fitting
<1>8. r \in Handler /\ Shape(r, tabs)
  BY <1>5, <1>6, <1>7, Typed
<1> HIDE DEF r
<1>9. QED
  BY <1>1, <1>8, QuietStart

(* undoDelete(), before its answer: the types are kept.                    *)
LEMMA UndoTypes ==
  ASSUME TypeInv, NEW p \in Proc, NEW entry \in trash, Undo(p, entry),
         UNCHANGED <<files, watcher, last>>
  PROVE  TypeInv'
<1> DEFINE q == Command(Of("undo"), "undo")
           r == [q EXCEPT !.path = entry[1], !.pick = entry[2]]
<1>1. op[p] = Idle /\ ops' = ops + 1 /\ Become(p, r) /\ UNCHANGED <<screen, owed, strayed>>
  BY DEF Undo, Starts
<1>2. Of("undo") \in HandlerOf(Len(tabs), last) /\ Of("undo").kind = "undo"
  BY Typed, OfIs DEF Kind
<1>3. q \in HandlerOf(Len(tabs), last) /\ q.kind = "undo" /\ q.cmd = "undo" /\ q.at = "call"
  BY <1>2, Typed, CommandIs DEF Cmd
<1>4. entry[1] \in Path /\ entry[2] \in 1..last /\ entry[2] \in 0..last
  <2>1. entry[1] \in Path /\ entry[2] \in 1..last
    BY Typed DEF Files
  <2>2. QED
    BY <2>1, Typed
<1> HIDE DEF q
<1>5. r \in HandlerOf(Len(tabs), last) /\ r.kind = "undo" /\ r.cmd = "undo"
      /\ r.at = "call" /\ r.path = entry[1] /\ r.pick = entry[2]
  BY <1>3, <1>4 DEF HandlerOf
<1>6. entry[2] # NoFile
  BY <1>4 DEF NoFile
<1> HIDE DEF r
<1>7. r \in Handler /\ Shape(r, tabs)
  BY <1>4, <1>5, <1>6, Typed DEF Shape, Noted, Fitting
<1>8. QED
  BY <1>1, <1>7, QuietStart

(* openPath() and doCreateNote(), before their answers: the types are kept.*)
LEMMA OpenPathTypes ==
  ASSUME TypeInv, NEW p \in Proc, NEW path \in Path, OpenPath(p, path) \/ Create(p, path),
         UNCHANGED <<files, watcher, last>>
  PROVE  TypeInv'
<1>1. PICK k \in {"open", "create"}, c \in {"read", "create"} :
        /\ k = "open" <=> c = "read"
        /\ op[p] = Idle /\ ops' = ops + 1
        /\ Become(p, [Command(Of(k), c) EXCEPT !.path = path])
        /\ UNCHANGED <<screen, owed, strayed>>
  BY DEF OpenPath, Create, Starts
<1> DEFINE q == Command(Of(k), c)
           r == [q EXCEPT !.path = path]
<1>2. Of(k) \in HandlerOf(Len(tabs), last) /\ Of(k).kind = k
  BY Typed, OfIs DEF Kind
<1>3. q \in HandlerOf(Len(tabs), last) /\ q.kind = k /\ q.cmd = c /\ q.at = "call"
  BY <1>2, Typed, CommandIs DEF Cmd
<1> HIDE DEF q
<1>4. r \in HandlerOf(Len(tabs), last) /\ r.kind = k /\ r.cmd = c
      /\ r.at = "call" /\ r.path = path
  BY <1>3 DEF HandlerOf
<1>5. Become(p, r)
  BY <1>1 DEF q
<1> HIDE DEF r
<1>6. r \in Handler /\ Shape(r, tabs)
  BY <1>1, <1>4, Typed DEF Shape, Noted, Fitting
<1>7. QED
  BY <1>1, <1>5, <1>6, QuietStart

(* A handler ends, with the screen changed or not.                         *)
LEMMA IdleFits ==
  ASSUME TypeInv, Grown
  PROVE  Idle \in Handler' /\ Shape(Idle, tabs') /\ Idle \in Handler /\ Shape(Idle, tabs)
<1>1. Idle \in Handler /\ Shape(Idle, tabs)
  BY Typed, IdleIs
<1>2. QED
  BY <1>1, StillHandler

(* openDocument() at the end of a handler.                                 *)
LEMMA OpenedTypes ==
  ASSUME TypeInv, NEW p \in Proc, OpenAnswered(p) \/ CreateAnswered(p),
         UNCHANGED <<files, watcher, last>>
  PROVE  TypeInv'
<1>1. op[p].at = "answer" /\ Become(p, Idle) /\ UNCHANGED <<ops, owed>>
      /\ strayed' \in {strayed, strayed \union (items' \ items)}
  BY DEF OpenAnswered, CreateAnswered, Answered
<1>2. PICK text \in Known : OpenDocument(op[p].path, text)
  <2>1. CASE OpenAnswered(p)
    <3>1. op[p].got \in 0..last /\ op[p].got # NoFile
      BY <2>1, Typed DEF OpenAnswered, Answered, Shape, Fitting, Handler
    <3>2. op[p].got \in Known
      BY <3>1, Typed DEF NoFile
    <3>3. QED
      BY <2>1, <3>2 DEF OpenAnswered
  <2>2. CASE CreateAnswered(p)
    <3>1. Empty \in Known
      BY Typed DEF Empty, Rest, Text
    <3>2. QED
      BY <2>2, <3>1 DEF CreateAnswered
  <2>3. QED
    BY <2>1, <2>2
<1>3. op[p].path \in Path \union {None}
  BY Typed DEF Handler
<1>4. Screen' /\ Grown
  BY <1>2, <1>3, Typed, OpenDocumentIs
<1>5. Queue' /\ Handlers'
  BY <1>1, <1>4, IdleFits, Becomes, Typed
<1>6. strayed' \subseteq 1..Len(tabs)' /\ ops' \in Nat
  <2>1. items' \subseteq 1..Len(tabs)' /\ 1..Len(tabs) \subseteq 1..Len(tabs)'
    BY <1>4 DEF Screen, Grown
  <2>2. QED
    BY <1>1, <2>1, Typed DEF Rest
<1>7. QED
  BY <1>1, <1>4, <1>5, <1>6, Assembled DEF watcher

(* doNew(), and a tab that is clicked: the types are kept.                 *)
LEMMA NewTypes ==
  ASSUME TypeInv, New \/ (\E t \in items : Switch(t)), UNCHANGED <<files, watcher, last>>
  PROVE  TypeInv'
<1>1. UNCHANGED <<running, ops, owed, strayed>>
  BY DEF New, Switch
<1>2. Screen' /\ Grown
  <2>1. CASE New
    <3>1. Empty \in Known /\ None \in Path \union {None}
      BY Typed DEF Empty, Rest, Text
    <3>2. QED
      BY <2>1, <3>1, Typed, OpenDocumentIs DEF New
  <2>2. ASSUME NEW t \in items, Switch(t) PROVE Screen' /\ Grown
    <3>1. SetActive(t, tabs) /\ items' = items /\ t \in 1..Len(tabs)
      BY <2>2, Typed DEF Switch
    <3>2. /\ tabs' \in Seq(TabState) /\ Len(tabs') = Len(tabs)
          /\ active' = t /\ editor' \in Known /\ panel' \in Path \union {None}
          /\ \A u \in 1..Len(tabs) : tabs'[u].path = tabs[u].path
      BY <3>1, Typed, SetActiveIs DEF Screen
    <3>3. TabState' = TabState /\ Known' = Known
      BY TabsAre
    <3>4. Screen'
      BY <3>1, <3>2, <3>3, Typed DEF Screen
    <3>5. Grown
      BY <3>2, Typed DEF Grown
    <3>6. QED
      BY <3>4, <3>5
  <2>3. QED
    BY <2>1, <2>2
<1>3. Queue' /\ Handlers'
  BY <1>1, <1>2, Typed, HandlersStay
<1>4. strayed' \subseteq 1..Len(tabs)'
  BY <1>1, <1>2, Typed DEF Rest, Grown
<1>5. QED
  BY <1>1, <1>2, <1>3, <1>4, Assembled, Typed DEF watcher

(* Closing: the last tab leaves a new one in its place.                    *)
LEMMA CloseTabIs ==
  ASSUME TypeInv, UNCHANGED last, NEW t, CloseTab(t)
  PROVE  /\ Screen' /\ Grown
         /\ \/ CloseTabs({t}) /\ UNCHANGED tabs
            \/ /\ Len(tabs') = Len(tabs) + 1 /\ items' = {Len(tabs) + 1} /\ active' = Len(tabs) + 1
               /\ tabs' = Append(tabs, NewTab(None, Empty)) /\ editor' = Empty
               /\ items \subseteq {t}
<1>1. CASE items \ {t} # {}
  BY <1>1, Typed, CloseTabsIs DEF CloseTab
<1>2. CASE items \ {t} = {}
  <2> DEFINE tab == NewTab(None, Empty)
  <2>1. Len(tabs) < MaxTabs /\ tabs' = Append(tabs, tab)
        /\ items' = {Len(tabs) + 1} /\ active' = Len(tabs) + 1 /\ editor' = Empty
        /\ panel' = None
    BY <1>2 DEF CloseTab
  <2>2. Empty \in Known /\ None \in Path \union {None}
    BY Typed DEF Empty, Rest, Text
  <2>3. tab \in TabState
    BY <2>2, Typed, NewTabIs
  <2> HIDE DEF tab
  <2>4. /\ tabs' \in Seq(TabState) /\ Len(tabs') = Len(tabs) + 1
        /\ \A u \in 1..(Len(tabs) + 1) : tabs'[u] = IF u = Len(tabs) + 1 THEN tab ELSE tabs[u]
    BY <2>1, <2>3, Typed, Appended DEF Screen
  <2>5. Len(tabs') \in Tab /\ 1..Len(tabs)' = 1..(Len(tabs) + 1) /\ Len(tabs) + 1 # 0
    BY <2>1, <2>4, Typed, BoundAssumption DEF Tab
  <2>6. TabState' = TabState /\ Known' = Known
    BY TabsAre
  <2>7. Screen'
    BY <2>1, <2>2, <2>4, <2>5, <2>6, Typed DEF Screen
  <2>8. Grown
    <3>1. \A u \in 1..Len(tabs) : u \in 1..(Len(tabs) + 1) /\ u # Len(tabs) + 1
      BY Typed
    <3>2. QED
      BY <2>4, <3>1, Typed DEF Grown
  <2>9. QED
    BY <1>2, <2>1, <2>4, <2>7, <2>8 DEF tab
<1>3. QED
  BY <1>1, <1>2

(* onCloseRequest(), before its dialog: the types are kept.                *)
LEMMA CloseTypes ==
  ASSUME TypeInv, NEW p \in Proc, NEW t, Close(p, t), UNCHANGED <<files, watcher, last>>
  PROVE  TypeInv'
<1>0. t \in items /\ UNCHANGED <<owed, strayed>>
  BY DEF Close
<1>1. CASE tabs[t].dirty
  <2> DEFINE q == Of("close")
             r == [q EXCEPT !.at = "dialog", !.tab = t]
  <2>1. op[p] = Idle /\ ops' = ops + 1 /\ Become(p, r) /\ UNCHANGED screen
    BY <1>1 DEF Close, Starts
  <2>2. t \in 0..Len(tabs) /\ t # 0
    BY <1>0, Typed
  <2>3. q \in HandlerOf(Len(tabs), last) /\ q.kind = "close" /\ q.cmd = "none"
    BY Typed, OfIs DEF Kind
  <2> HIDE DEF q
  <2>4. r \in HandlerOf(Len(tabs), last) /\ r.kind = "close" /\ r.cmd = "none"
        /\ r.at = "dialog" /\ r.tab = t
    BY <2>2, <2>3 DEF HandlerOf
  <2> HIDE DEF r
  <2>5. r \in Handler /\ Shape(r, tabs)
    BY <2>2, <2>4, Typed DEF Shape, Noted, Fitting
  <2>6. QED
    BY <1>0, <2>1, <2>5, QuietStart
<1>2. CASE ~tabs[t].dirty
  <2>1. CloseTab(t) /\ UNCHANGED <<running, ops>>
    BY <1>2 DEF Close
  <2>2. Screen' /\ Grown
    BY <2>1, CloseTabIs
  <2>3. Queue' /\ Handlers'
    BY <2>1, <2>2, Typed, HandlersStay
  <2>4. strayed' \subseteq 1..Len(tabs)'
    BY <1>0, <2>2, Typed DEF Rest, Grown
  <2>5. QED
    BY <1>0, <2>1, <2>2, <2>3, <2>4, Assembled, Typed DEF watcher
<1>3. QED
  BY <1>1, <1>2

(* onCloseRequest(), answered: the types are kept.                         *)
LEMMA CloseConfirmedTypes ==
  ASSUME TypeInv, NEW p \in Proc, NEW yes, CloseConfirmed(p, yes),
         UNCHANGED <<files, watcher, last>>
  PROVE  TypeInv'
<1>1. op[p].at = "dialog" /\ Become(p, Idle) /\ UNCHANGED <<ops, strayed>>
      /\ owed' \subseteq owed
      /\ (CloseTab(op[p].tab) \/ UNCHANGED screen)
  BY DEF CloseConfirmed
<1>2. Screen' /\ Grown
  BY <1>1, CloseTabIs, ScreenStays
<1>3. Queue' /\ Handlers'
  BY <1>1, <1>2, IdleFits, Becomes, Typed
<1>4. strayed' \subseteq 1..Len(tabs)'
  BY <1>1, <1>2, Typed DEF Rest, Grown
<1>5. QED
  BY <1>1, <1>2, <1>3, <1>4, Assembled, Typed DEF watcher

(* doDeleteEntry(), confirmed or not: the types are kept.                  *)
LEMMA DeleteConfirmedTypes ==
  ASSUME TypeInv, NEW p \in Proc, NEW yes, DeleteConfirmed(p, yes),
         UNCHANGED <<files, watcher, last>>
  PROVE  TypeInv'
<1>1. op[p].at = "dialog" /\ op[p].kind = "delete" /\ UNCHANGED <<screen, ops, strayed>>
      /\ owed' \subseteq owed
      /\ Become(p, IF yes THEN Command(op[p], "trash") ELSE Idle)
  BY DEF DeleteConfirmed
<1>2. ops' \in Nat /\ strayed' \subseteq 1..Len(tabs)
  BY <1>1, Typed DEF Rest
<1>3. op[p] \in HandlerOf(Len(tabs), last) /\ op[p].path \in Path
  BY <1>1, Typed DEF Shape, Fitting
<1>4. Command(op[p], "trash") \in Handler /\ Shape(Command(op[p], "trash"), tabs)
  BY <1>1, <1>3, Typed, Begun DEF Kind, Cmd
<1>5. Idle \in Handler /\ Shape(Idle, tabs)
  BY Typed, IdleIs
<1>6. PICK o : o = IF yes THEN Command(op[p], "trash") ELSE Idle
  OBVIOUS
<1>7. o \in Handler /\ Shape(o, tabs) /\ Become(p, o) /\ op[p].at # "call"
  BY <1>1, <1>4, <1>5, <1>6
<1>8. QED
  BY <1>1, <1>2, <1>7, Quiet

(* doDeleteEntry(): the note is in the trash, its tabs close: the types are*)
(* kept.                                                                   *)
LEMMA DeleteAnsweredTypes ==
  ASSUME TypeInv, NEW p \in Proc, DeleteAnswered(p), UNCHANGED <<files, watcher, last>>
  PROVE  TypeInv'
<1>1. /\ op[p].at = "answer" /\ CloseTabs(op[p].todo) /\ UNCHANGED <<tabs, calls, ops, owed>>
      /\ op' = [Outdate({tabs[t].path : t \in op[p].todo}, op) EXCEPT ![p] = Idle]
      /\ strayed' \subseteq strayed \union items'
  BY DEF DeleteAnswered, Answered
<1>2. Screen' /\ Grown
  BY <1>1, Typed, CloseTabsIs
<1>3. Queue' /\ Handlers'
  BY <1>1, <1>2, EndsOutdating, Typed
<1>4. strayed' \subseteq 1..Len(tabs)' /\ ops' \in Nat
  BY <1>1, <1>2, Typed DEF Rest, Screen
<1>5. QED
  BY <1>1, <1>2, <1>3, <1>4, Assembled DEF watcher

(* Some tabs' records change, and which tabs there are does not.           *)
LEMMA Marked ==
  ASSUME TypeInv, UNCHANGED <<last, items, active>>, editor' \in Known,
         panel' \in Path \union {None},
         tabs' \in [1..Len(tabs) -> TabState],
         \A t \in 1..Len(tabs) : tabs[t].path # None => tabs'[t].path # None
  PROVE  Screen' /\ Grown /\ Len(tabs)' = Len(tabs) /\ Handler' = Handler
<1>1. TabState' = TabState /\ Known' = Known
  BY TabsAre
<1>2. tabs' \in Seq(TabState) /\ Len(tabs)' = Len(tabs)
  BY Typed, Numbered
<1>3. Screen'
  BY <1>1, <1>2, Typed DEF Screen
<1>4. Grown
  BY <1>2, Typed DEF Grown
<1>5. QED
  BY <1>2, <1>3, <1>4 DEF Handler

(* A remove event: the types are kept.                                     *)
LEMMA NoticeRemovalTypes ==
  ASSUME TypeInv, NEW path \in Path, NoticeRemoval(path), UNCHANGED <<files, last>>
  PROVE  TypeInv'
<1> DEFINE moved == ByPath(path)
           mark(t) == [tabs[t] EXCEPT !.removed = TRUE, !.dirty = TRUE]
<1>1. /\ UNCHANGED <<items, active, editor, panel, calls, ops, owed, strayed, changes>>
      /\ removals' = removals \ {path}
      /\ tabs' = [t \in DOMAIN tabs |-> IF t \in moved THEN mark(t) ELSE tabs[t]]
      /\ op' = IF moved = {} THEN op ELSE Outdate({path}, op)
  BY DEF NoticeRemoval
<1>2. DOMAIN tabs = 1..Len(tabs) /\ \A t \in 1..Len(tabs) : tabs[t] \in TabState
  BY Typed, TabIs
<1>3. \A t \in 1..Len(tabs) : mark(t) \in TabState /\ mark(t).path = tabs[t].path
  BY <1>2 DEF TabState
<1> HIDE DEF mark, moved
<1>4. tabs' \in [1..Len(tabs) -> TabState]
      /\ \A t \in 1..Len(tabs) : tabs'[t].path = tabs[t].path
  BY <1>1, <1>2, <1>3
<1>5. Screen' /\ Grown
  BY <1>1, <1>4, Typed, Marked DEF Screen
<1>6. Queue' /\ Handlers'
  <2>1. CASE moved = {}
    <3>1. UNCHANGED running
      BY <1>1, <2>1 DEF running
    <3>2. QED
      BY <3>1, <1>5, HandlersStay, Typed
  <2>2. CASE moved # {}
    <3>1. op' = Outdate({path}, op) /\ calls' = calls
      BY <1>1, <2>2
    <3>2. QED
      BY <1>5, <3>1, EndsOutdating, Typed
  <2>3. QED
    BY <2>1, <2>2
<1>7. strayed' \subseteq 1..Len(tabs)' /\ ops' \in Nat /\ owed' \subseteq owed
  BY <1>1, <1>5, Typed DEF Rest, Grown
<1>8. QED
  BY <1>1, <1>5, <1>6, <1>7, Assembled

(* doRenameEntry(): the tabs of the note follow it: the types are kept.    *)
LEMMA RenameAnsweredTypes ==
  ASSUME TypeInv, NEW p \in Proc, RenameAnswered(p), UNCHANGED <<files, watcher, last>>
  PROVE  TypeInv'
<1> DEFINE o == op[p]
           moved == ByPath(o.path)
           mark(t) == [tabs[t] EXCEPT !.path = o.to, !.removed = FALSE]
<1>0. o.at = "answer" /\ o.cmd = "rename" /\ o.to \in Path
  BY Typed DEF RenameAnswered, Answered, Shape, Fitting
<1>1. /\ UNCHANGED <<items, active, editor, panel, calls, ops, owed>>
      /\ tabs' = [t \in DOMAIN tabs |-> IF t \in moved THEN mark(t) ELSE tabs[t]]
      /\ op' = [IF moved = {} THEN op ELSE Outdate({o.path}, op) EXCEPT ![p] = Idle]
      /\ strayed' \subseteq strayed \union moved \union ByPath(o.to)
  BY DEF RenameAnswered
<1>2. DOMAIN tabs = 1..Len(tabs) /\ \A t \in 1..Len(tabs) : tabs[t] \in TabState
  BY Typed, TabIs
<1>3. \A t \in 1..Len(tabs) : mark(t) \in TabState /\ mark(t).path = o.to
  BY <1>0, <1>2 DEF TabState
<1>4. moved \subseteq 1..Len(tabs) /\ ByPath(o.to) \subseteq 1..Len(tabs)
  BY Typed DEF ByPath
<1>5. o.to # None
  BY <1>0, NoneAssumption
<1> HIDE DEF mark, moved, o
<1>6. tabs' \in [1..Len(tabs) -> TabState]
      /\ \A t \in 1..Len(tabs) : tabs[t].path # None => tabs'[t].path # None
  BY <1>1, <1>2, <1>3, <1>5
<1>7. Screen' /\ Grown
  BY <1>1, <1>6, Typed, Marked DEF Screen
<1>8. op[p].at # "call"
  BY <1>0 DEF o
<1>9. Queue' /\ Handlers'
  <2>1. CASE moved = {}
    <3>1. op' = [op EXCEPT ![p] = Idle] /\ calls' = calls
      BY <1>1, <2>1
    <3>2. Become(p, Idle)
      BY <3>1 DEF Become, Idle
    <3>3. QED
      BY <3>2, <1>7, <1>8, IdleFits, Becomes, Typed
  <2>2. CASE moved # {}
    <3>1. op' = [Outdate({o.path}, op) EXCEPT ![p] = Idle] /\ calls' = calls
      BY <1>1, <2>2
    <3>2. QED
      BY <3>1, <1>7, <1>8, EndsOutdating, Typed
  <2>3. QED
    BY <2>1, <2>2
<1>10. strayed' \subseteq 1..Len(tabs)' /\ ops' \in Nat /\ owed' \subseteq owed
  <2>1. strayed' \subseteq 1..Len(tabs)
    BY <1>1, <1>4, Typed DEF Rest
  <2>2. QED
    BY <1>1, <1>7, <2>1, Typed DEF Rest, Grown
<1>11. QED
  BY <1>1, <1>7, <1>9, <1>10, Assembled DEF watcher

(* undoDelete(), and restoreVersion() before it reads the note: the types  *)
(* are kept.                                                               *)
LEMMA UndoAnsweredTypes ==
  ASSUME TypeInv, NEW p \in Proc, UndoAnswered(p) \/ RestoreAnswered(p),
         UNCHANGED <<files, watcher, last>>
  PROVE  TypeInv'
<1>1. op[p].at = "answer" /\ UNCHANGED <<screen, ops, owed, strayed>>
  BY DEF UndoAnswered, RestoreAnswered, Answered
<1>2. ops' \in Nat /\ strayed' \subseteq 1..Len(tabs) /\ owed' \subseteq owed
  BY <1>1, Typed DEF Rest
<1>3. CASE UndoAnswered(p)
  <2>1. Become(p, Idle) /\ Idle \in Handler /\ Shape(Idle, tabs)
    BY <1>3, Typed, IdleIs DEF UndoAnswered
  <2>2. QED
    BY <1>1, <1>2, <2>1, Quiet
<1>4. CASE RestoreAnswered(p)
  <2> DEFINE r == Command(op[p], "read")
  <2>1. Become(p, r) /\ op[p].cmd = "restore"
    BY <1>4 DEF RestoreAnswered, Answered
  <2>2. op[p] \in HandlerOf(Len(tabs), last) /\ Shape(op[p], tabs)
    BY Typed
  <2>3. /\ r \in HandlerOf(Len(tabs), last) /\ r.at = "call" /\ r.cmd = "read"
        /\ r.kind = op[p].kind /\ r.tab = op[p].tab /\ r.path = op[p].path
        /\ r.pick = op[p].pick
    BY <2>2, Typed, CommandIs DEF Cmd
  <2> HIDE DEF r
  <2>4. Shape(r, tabs)
    BY <1>1, <2>1, <2>2, <2>3 DEF Shape, Noted, Fitting
  <2>5. r \in Handler
    BY <2>3, Typed
  <2>6. QED
    BY <1>1, <1>2, <2>1, <2>4, <2>5, Quiet
<1>5. QED
  BY <1>3, <1>4

(* A command that failed: the types are kept.                              *)
LEMMA FailedTypes ==
  ASSUME TypeInv, NEW p \in Proc, Failed(p), UNCHANGED <<files, watcher, last>>
  PROVE  TypeInv'
<1> DEFINE r == IF op[p].kind = "bulk" THEN WriteEach(Of("bulk"), op[p].todo, tabs) ELSE Idle
<1>1. op[p].at = "failed" /\ UNCHANGED <<screen, ops, owed, strayed>> /\ Become(p, r)
  BY DEF Failed
<1>2. ops' \in Nat /\ strayed' \subseteq 1..Len(tabs) /\ owed' \subseteq owed
  BY <1>1, Typed DEF Rest
<1>3. CASE op[p].kind = "bulk"
  <2>1. op[p].todo \in SUBSET (1..Len(tabs)) /\ \A t \in op[p].todo : tabs[t].path # None
    BY <1>3, Typed DEF Handler, Shape, Noted
  <2>2. Of("bulk") \in HandlerOf(Len(tabs), last) /\ Of("bulk").kind = "bulk"
    BY Typed, OfIs DEF Kind
  <2>3. \A t \in op[p].todo : tabs[t].path \in Path \union {None} /\ tabs[t].content \in 0..last
    <3>1. \A t \in op[p].todo : tabs[t].path \in Path \union {None} /\ tabs[t].content \in 1..last
      BY <2>1, Typed DEF Tabbed
    <3>2. QED
      BY <3>1, Typed
  <2>4. r = WriteEach(Of("bulk"), op[p].todo, tabs)
    BY <1>3
  <2> HIDE DEF r
  <2>5. r = Idle \/ Written(r, "bulk", Of("bulk").pick, op[p].todo, tabs, Len(tabs), last)
    BY <2>1, <2>2, <2>3, <2>4, Typed, WriteEachIs
  <2>6. r \in Handler /\ Shape(r, tabs)
    BY <2>1, <2>5, Typed, IdleIs, WrittenShape
  <2>7. QED
    BY <1>1, <1>2, <2>6, Quiet
<1>4. CASE op[p].kind # "bulk"
  <2>1. Become(p, Idle) /\ Idle \in Handler /\ Shape(Idle, tabs)
    BY <1>1, <1>4, Typed, IdleIs
  <2>2. QED
    BY <1>1, <1>2, <2>1, Quiet
<1>5. QED
  BY <1>3, <1>4

(* A handler in the middle of a check, or of a write, knows its tab.       *)
LEMMA AboutTab ==
  ASSUME TypeInv, NEW p \in Proc,
         op[p].kind \in {"watch", "bulk", "save", "restore", "saveas", "convert", "close"}
  PROVE  op[p].tab \in 1..Len(tabs)
<1>1. op[p].tab \in 0..Len(tabs) /\ op[p].tab # 0
  BY Typed DEF Handler, Shape, Noted
<1>2. QED
  BY <1>1, Typed

(* What an answer makes of the tab: the text found, or only the marks.     *)
LEMMA SettledIs ==
  ASSUME TypeInv, NEW o \in Handler, NEW t \in 1..Len(tabs)
  PROVE  /\ Settled(t, o) \in TabState /\ Settled(t, o).path = tabs[t].path
         /\ \/ /\ Reloads(o) /\ Mine(t) = o.text /\ Settled(t, o).content = o.got
               /\ IF t \in items THEN Settled(t, o).base = o.got /\ Settled(t, o).dirty = FALSE
                  ELSE Settled(t, o).base = tabs[t].base
            \/ /\ ~(Reloads(o) /\ Mine(t) = o.text)
               /\ Settled(t, o).content = tabs[t].content
               /\ Settled(t, o).base = tabs[t].base
               /\ Settled(t, o).dirty = FALSE => tabs[t].dirty = FALSE
<1> DEFINE tab == tabs[t]
           there == [tab EXCEPT !.removed = FALSE, !.diverged = FALSE]
           gone == [tab EXCEPT !.removed = TRUE, !.dirty = TRUE]
           loaded == [there EXCEPT !.content = o.got, !.base = o.got, !.dirty = FALSE]
           apart == [there EXCEPT !.diverged = TRUE]
           found == IF o.got = NoFile THEN gone ELSE IF o.got = o.base THEN there
                    ELSE IF o.text \in {o.base, o.got} /\ Mine(t) = o.text THEN loaded ELSE apart
           closed == [tab EXCEPT !.content = found.content]
           s == Settled(t, o)
<1>1. tab \in TabState /\ o.got \in 0..last /\ last \in Nat
  BY Typed, TabIs DEF Handler
<1>2. s = IF o.outdated THEN tab ELSE IF t \in items THEN found ELSE closed
  BY DEF Settled
<1> HIDE DEF tab, s
<1>3. /\ there \in TabState /\ there.path = tab.path /\ there.content = tab.content
      /\ there.base = tab.base /\ there.dirty = tab.dirty
  BY <1>1 DEF TabState
<1>4. /\ gone \in TabState /\ gone.path = tab.path /\ gone.content = tab.content
      /\ gone.base = tab.base /\ gone.dirty = TRUE
  BY <1>1 DEF TabState
<1>5. o.got # NoFile => o.got \in Known
  BY <1>1 DEF Known, NoFile
<1> HIDE DEF there, gone
<1>6. /\ o.got # NoFile => loaded \in TabState
      /\ loaded.path = tab.path /\ loaded.content = o.got /\ loaded.base = o.got
      /\ loaded.dirty = FALSE
  BY <1>3, <1>5 DEF TabState
<1>7. /\ apart \in TabState /\ apart.path = tab.path /\ apart.content = tab.content
      /\ apart.base = tab.base /\ apart.dirty = tab.dirty
  BY <1>3 DEF TabState
<1> HIDE DEF loaded, apart
<1> DEFINE reload == Reloads(o) /\ Mine(t) = o.text
<1>8. reload = (~o.outdated /\ o.got # NoFile /\ o.got # o.base
                /\ o.text \in {o.base, o.got} /\ Mine(t) = o.text)
  BY DEF Reloads
<1>9. CASE reload
  <2>1. found = loaded /\ ~o.outdated /\ o.got # NoFile
    BY <1>8, <1>9
  <2> HIDE DEF found
  <2>2. closed \in TabState /\ closed.path = tab.path /\ closed.content = o.got
        /\ closed.base = tab.base
    BY <1>1, <1>5, <1>6, <2>1 DEF TabState
  <2> HIDE DEF closed
  <2>3. QED
    BY <1>2, <1>6, <1>9, <2>1, <2>2 DEF s, tab
<1>10. CASE ~reload
  <2>1. /\ ~o.outdated => found \in {gone, there, apart}
    BY <1>8, <1>10
  <2> HIDE DEF found
  <2>2. ~o.outdated => closed \in TabState /\ closed.path = tab.path /\ closed.content = tab.content
        /\ closed.base = tab.base /\ closed.dirty = tab.dirty
    BY <1>1, <1>3, <1>4, <1>7, <2>1 DEF TabState
  <2> HIDE DEF closed
  <2>3. QED
    BY <1>1, <1>2, <1>3, <1>4, <1>7, <1>10, <2>1, <2>2 DEF s, tab
<1>11. QED
  BY <1>9, <1>10

(* captureActiveBuffer(): the text on screen joins its tab's record.       *)
Holding(kept, kind, ts, text) ==
  /\ kept \in [1..Len(tabs) -> TabState]
  /\ \A t \in 1..Len(tabs) :
       /\ kept[t].path = ts[t].path
       /\ kept[t].base = ts[t].base
       /\ kept[t].dirty = ts[t].dirty
       /\ kept[t].content = IF kind = "bulk" /\ t = active THEN text ELSE ts[t].content

(* captureActiveBuffer() gives the tab on screen the text it shows.        *)
LEMMA CapturedIs ==
  ASSUME TypeInv, NEW o, NEW ts, ts \in [1..Len(tabs) -> TabState], NEW text, text \in Known,
         NEW kept, kept = Captured(o, ts, text)
  PROVE  Holding(kept, o.kind, ts, text)
<1>0. 0 \notin 1..Len(tabs)
  BY Typed
<1>1. CASE o.kind = "bulk" /\ active # 0
  <2> DEFINE x == [ts[active] EXCEPT !.content = text]
  <2>1. active \in 1..Len(tabs)
    BY <1>1, Typed, TabIs
  <2>2. /\ x \in TabState /\ x.path = ts[active].path /\ x.base = ts[active].base
        /\ x.dirty = ts[active].dirty /\ x.content = text
    BY <2>1 DEF TabState
  <2>3. kept = [ts EXCEPT ![active] = x]
    BY <1>1 DEF Captured
  <2> HIDE DEF x
  <2>4. QED
    BY <1>1, <2>1, <2>2, <2>3 DEF Holding
<1>2. CASE ~(o.kind = "bulk" /\ active # 0)
  <2>1. kept = ts
    BY <1>2 DEF Captured
  <2>2. QED
    BY <1>0, <1>2, <2>1 DEF Holding
<1>3. QED
  BY <1>1, <1>2

(* The tabs that a check's answer leaves, and the text on screen.          *)
Checking(o, ts, text, kept) ==
  /\ ts = [tabs EXCEPT ![o.tab] = Settled(o.tab, o)]
  /\ text = IF Reloads(o) /\ Mine(o.tab) = o.text /\ o.tab = active THEN o.got ELSE editor
  /\ kept = Captured(o, ts, text)
Leaving(o, ts, text, kept) ==
  /\ o.tab \in 1..Len(tabs) /\ text \in Known
  /\ ts \in [1..Len(tabs) -> TabState]
  /\ \A t \in 1..Len(tabs) : ts[t] = IF t = o.tab THEN Settled(o.tab, o) ELSE tabs[t]
  /\ \A t \in 1..Len(tabs) : kept[t].path = tabs[t].path
  /\ Holding(kept, o.kind, ts, text)

(* What the answer to a check leaves of the tabs and of the text on screen.*)
LEMMA CheckLeaves ==
  ASSUME TypeInv, NEW p \in Proc, NEW o, o = op[p], o.cmd = "check", o.at = "answer",
         NEW ts, NEW text, NEW kept, Checking(o, ts, text, kept)
  PROVE  Leaving(o, ts, text, kept)
<1>1. o \in Handler /\ o.got \in 0..last
      /\ o.kind \in {"watch", "bulk", "save", "restore"}
  BY Typed DEF Shape, Fitting, Handler
<1>2. o.tab \in 1..Len(tabs)
  BY <1>1, AboutTab
<1>3. PICK s : s = Settled(o.tab, o)
  OBVIOUS
<1>4. s \in TabState /\ s.path = tabs[o.tab].path
  BY <1>1, <1>2, <1>3, SettledIs
<1>5. DOMAIN tabs = 1..Len(tabs) /\ tabs \in [1..Len(tabs) -> TabState]
  BY Typed, TabIs, LenProperties DEF Screen
<1>6. ts = [tabs EXCEPT ![o.tab] = s]
  BY <1>3 DEF Checking
<1>7. /\ ts \in [1..Len(tabs) -> TabState]
      /\ \A u \in 1..Len(tabs) : ts[u] = IF u = o.tab THEN s ELSE tabs[u]
  BY <1>2, <1>4, <1>5, <1>6
<1>8. text \in Known
  BY <1>1, Typed DEF Checking, Reloads, NoFile
<1>9. \A u \in 1..Len(tabs) : ts[u].path = tabs[u].path
  BY <1>4, <1>7
<1>10. Holding(kept, o.kind, ts, text)
  <2>1. kept = Captured(o, ts, text)
    BY DEF Checking
  <2>2. QED
    BY <1>7, <1>8, <2>1, CapturedIs
<1>11. \A u \in 1..Len(tabs) : kept[u].path = tabs[u].path
  BY <1>9, <1>10 DEF Holding
<1>12. QED
  BY <1>2, <1>3, <1>7, <1>8, <1>10, <1>11 DEF Leaving

(* The answer to a check: the types are kept.                              *)
LEMMA CheckAnsweredTypes ==
  ASSUME TypeInv, NEW p \in Proc, CheckAnswered(p), UNCHANGED <<files, watcher, last>>
  PROVE  TypeInv'
<1>0. PICK o, t : o = op[p] /\ t = o.tab
  OBVIOUS
<1>1. PICK ts, text, kept, r :
        /\ ts = [tabs EXCEPT ![t] = Settled(t, o)]
        /\ text = IF Reloads(o) /\ Mine(t) = o.text /\ t = active THEN o.got ELSE editor
        /\ kept = Captured(o, ts, text) /\ r = AfterCheck(o, kept, text)
  OBVIOUS
<1>2. /\ o.cmd = "check" /\ o.at = "answer" /\ tabs' = kept /\ editor' = text /\ Become(p, r)
      /\ strayed' \subseteq strayed \union {t} /\ UNCHANGED <<items, active, panel, ops, owed>>
  BY <1>0, <1>1 DEF CheckAnswered, Answered
<1>3. o \in Handler /\ Shape(o, tabs) /\ o.kind \in {"watch", "bulk", "save", "restore"}
  BY <1>0, <1>2, Typed DEF Shape, Fitting
<1>4. /\ t \in 1..Len(tabs) /\ text \in Known
      /\ kept \in [1..Len(tabs) -> TabState]
      /\ \A u \in 1..Len(tabs) : kept[u].path = tabs[u].path
  <2>1. Checking(o, ts, text, kept)
    BY <1>0, <1>1 DEF Checking
  <2>2. Leaving(o, ts, text, kept)
    BY <1>0, <1>2, <2>1, CheckLeaves
  <2>3. QED
    BY <1>0, <2>2 DEF Leaving, Holding
<1>5. Screen' /\ Grown /\ Len(tabs)' = Len(tabs) /\ Handler' = Handler
  BY <1>2, <1>4, Typed, Marked DEF Screen
<1>6. Shape(o, kept)
  BY <1>2, <1>4, <1>5, <1>3, StillHandler
<1>7. Tabbed(kept, Len(tabs), last)
  BY <1>4, Typed DEF Tabbed, TabState
<1>8. r \in Handler /\ Shape(r, kept)
  <2>1. /\ Len(tabs) \in Nat /\ last \in Nat /\ items \subseteq 1..Len(tabs)
        /\ o \in HandlerOf(Len(tabs), last) /\ text \in 1..last
        /\ Tabbed(kept, Len(tabs), last) /\ Shape(o, kept)
        /\ o.at = "answer" /\ o.cmd = "check" /\ r = AfterCheck(o, kept, text)
    BY <1>1, <1>2, <1>3, <1>4, <1>6, <1>7, Typed
  <2>2. Onward(r, o, kept, text, Len(tabs), last)
    BY <2>1, AfterCheckIs
  <2>3. kept[o.tab].path # None /\ (o.kind = "restore" => o.pick # NoFile)
    BY <1>3, <1>6 DEF Shape, Noted, Fitting
  <2>4. CASE r = Idle
    BY <2>4, Typed, IdleIs
  <2>5. CASE Checked(r, "bulk", o.pick, kept, Len(tabs), last)
    BY <1>7, <2>5, Typed, CheckedShape
  <2>6. ASSUME NEW list \in SUBSET {u \in items \intersect o.seen : kept[u].path # None},
               Written(r, "bulk", o.pick, list, kept, Len(tabs), last)
        PROVE  r \in Handler /\ Shape(r, kept)
    <3>1. list \in SUBSET (1..Len(tabs)) /\ \A u \in list : kept[u].path # None
      BY Typed
    <3>2. QED
      BY <1>7, <2>6, <3>1, Typed, WrittenShape
  <2>7. CASE Written(r, "bulk", 0, {o.tab}, kept, Len(tabs), last)
    <3>1. {o.tab} \in SUBSET (1..Len(tabs)) /\ \A u \in {o.tab} : kept[u].path # None
      BY <1>0, <1>4, <2>3
    <3>2. QED
      BY <1>7, <2>7, <3>1, Typed, WrittenShape
  <2>8. CASE Shown(r, o.kind, o.pick, text, Len(tabs), last) /\ r.tab = o.tab
    BY <2>1, <2>3, <2>8, Typed, ShownShape
  <2>9. CASE r = Command(o, "restore") /\ o.kind = "restore"
    <3>1. /\ r \in HandlerOf(Len(tabs), last) /\ r.at = "call" /\ r.cmd = "restore"
          /\ r.kind = o.kind /\ r.tab = o.tab /\ r.path = o.path /\ r.pick = o.pick
      BY <2>1, <2>9, Typed, CommandIs DEF Cmd
    <3>2. Shape(r, kept)
      BY <1>2, <1>6, <2>9, <3>1 DEF Shape, Noted, Fitting
    <3>3. QED
      BY <3>1, <3>2, Typed
  <2>10. QED
    BY <2>2, <2>4, <2>5, <2>6, <2>7, <2>8, <2>9 DEF Onward
<1>9. op[p].at # "call"
  BY <1>0, <1>2
<1>10. Queue' /\ Handlers'
  BY <1>2, <1>5, <1>8, <1>9, Becomes, Typed
<1>11. strayed' \subseteq 1..Len(tabs)' /\ ops' \in Nat /\ owed' \subseteq owed
  BY <1>2, <1>4, <1>5, Typed DEF Rest
<1>12. QED
  BY <1>2, <1>5, <1>10, <1>11, Assembled DEF watcher

(* The check that is asked once more keeps all but its sides.              *)
Retried(r, o, base, text, n, l) ==
  /\ r \in HandlerOf(n, l) /\ r.at = "call" /\ r.cmd = "check"
  /\ r.kind = o.kind /\ r.tab = o.tab /\ r.path = o.path /\ r.to = o.to
  /\ r.text = text /\ r.base = base /\ r.got = 0 /\ r.pick = o.pick
  /\ r.todo = o.todo

(* The check that is sent again is about the same tab, from its base of    *)
(* now.                                                                    *)
LEMMA RetryIs ==
  ASSUME NEW n \in Nat, NEW l \in Nat, NEW o \in HandlerOf(n, l), o.cmd = "check",
         NEW base \in 0..l, NEW text \in 0..l, 0 \in 0..l, NEW r,
         r = [Command(o, "check") EXCEPT !.base = base, !.text = text, !.got = NoFile,
                                         !.again = TRUE]
  PROVE  Retried(r, o, base, text, n, l)
<1>1. PICK q : q = Command(o, "check")
  OBVIOUS
<1>2. /\ q \in HandlerOf(n, l) /\ q.at = "call" /\ q.cmd = "check"
      /\ q.kind = o.kind /\ q.tab = o.tab /\ q.path = o.path /\ q.to = o.to
      /\ q.pick = o.pick /\ q.todo = o.todo
  BY <1>1, CommandIs DEF Cmd
<1>3. r = [q EXCEPT !.base = base, !.text = text, !.got = 0, !.again = TRUE]
  BY <1>1 DEF NoFile
<1>4. r \in HandlerOf(n, l)
  BY <1>2, <1>3, ZenonT(60) DEF HandlerOf
<1>5. /\ r.at = q.at /\ r.cmd = q.cmd /\ r.kind = q.kind /\ r.tab = q.tab /\ r.path = q.path
      /\ r.to = q.to /\ r.text = text /\ r.base = base /\ r.got = 0 /\ r.pick = q.pick
      /\ r.todo = q.todo
  BY <1>2, <1>3 DEF HandlerOf
<1>6. QED
  BY <1>2, <1>4, <1>5 DEF Retried

(* The answer to a check that the user typed into: the types are kept.     *)
LEMMA RetryCheckTypes ==
  ASSUME TypeInv, NEW p \in Proc, RetryCheck(p), UNCHANGED <<files, watcher, last>>
  PROVE  TypeInv'
<1>0. PICK o, t : o = op[p] /\ t = o.tab
  OBVIOUS
<1>1. PICK r : r = [Command(o, "check") EXCEPT !.base = tabs[t].base, !.text = Mine(t),
                                               !.got = NoFile, !.again = TRUE]
  OBVIOUS
<1>2. /\ o.cmd = "check" /\ o.at = "answer" /\ Become(p, r)
      /\ tabs' = IF t \in items THEN [tabs EXCEPT ![t].removed = FALSE] ELSE tabs
      /\ UNCHANGED <<items, active, editor, panel, ops, owed, strayed>>
  BY <1>0, <1>1 DEF RetryCheck, Answered
<1>3. /\ o \in Handler /\ o \in HandlerOf(Len(tabs), last) /\ Shape(o, tabs)
      /\ o.kind \in {"watch", "bulk", "save", "restore"}
  BY <1>0, <1>2, Typed DEF Shape, Fitting
<1>4. t \in 1..Len(tabs)
  BY <1>0, <1>3, AboutTab
<1>5. DOMAIN tabs = 1..Len(tabs) /\ tabs[t] \in TabState /\ tabs \in [1..Len(tabs) -> TabState]
  BY <1>4, Typed, TabIs, LenProperties DEF Screen
<1>6. PICK tab : tab = [tabs[t] EXCEPT !.removed = FALSE]
  OBVIOUS
<1>7. tab \in TabState /\ tab.path = tabs[t].path
  BY <1>5, <1>6 DEF TabState
<1>8. tabs' = [tabs EXCEPT ![t] = tab] \/ tabs' = tabs
  BY <1>2, <1>6
<1>9. /\ tabs' \in [1..Len(tabs) -> TabState]
      /\ \A u \in 1..Len(tabs) : tabs'[u].path = tabs[u].path
  BY <1>4, <1>5, <1>7, <1>8
<1>10. Screen' /\ Grown /\ Len(tabs)' = Len(tabs) /\ Handler' = Handler
  BY <1>2, <1>9, Typed, Marked DEF Screen
<1>11. Mine(t) \in 0..last /\ tabs[t].base \in 0..last
  BY <1>5, Typed DEF Mine, MineIn, TabState
<1>12. Retried(r, o, tabs[t].base, Mine(t), Len(tabs), last)
  BY <1>1, <1>2, <1>3, <1>11, Typed, RetryIs
<1>13. Shape(r, tabs)
  BY <1>2, <1>3, <1>12 DEF Retried, Shape, Noted, Fitting
<1>14. Shape(r, tabs') /\ r \in Handler'
  BY <1>10, <1>12, <1>13, Typed, StillHandler DEF Retried
<1>15. Queue' /\ Handlers'
  BY <1>0, <1>2, <1>10, <1>14, Becomes, Typed
<1>16. strayed' \subseteq 1..Len(tabs)'
  BY <1>2, <1>10, Typed DEF Rest
<1>17. QED
  BY <1>2, <1>10, <1>15, <1>16, Assembled, Typed DEF watcher

(* The record of the tab that was written.                                 *)
SavedTab(o, tab) ==
  LET t == o.tab
      content == IF o.kind = "bulk" THEN tab.content ELSE o.text
      clean == [tab EXCEPT !.content = content, !.base = content,
                           !.removed = FALSE, !.dirty = FALSE]
  IN IF t \notin items THEN [tab EXCEPT !.content = content]
     ELSE IF o.kind \in SaveAsKind THEN [clean EXCEPT !.path = o.path, !.diverged = FALSE]
     ELSE clean
Onto(r, o, ts) ==
  r = CASE o.kind = "bulk" -> WriteEach(Of("bulk"), o.todo, ts)
        [] o.kind = "restore" -> Command(o, "restore")
        [] OTHER -> Idle

Recorded(s, o, tab) ==
  /\ s.path = IF o.tab \in items /\ o.kind \in SaveAsKind THEN o.path ELSE tab.path
  /\ s.content = IF o.kind = "bulk" THEN tab.content ELSE o.text
  /\ s.base = IF o.tab \notin items THEN tab.base
              ELSE IF o.kind = "bulk" THEN tab.content ELSE o.text
  /\ s.dirty = IF o.tab \in items THEN FALSE ELSE tab.dirty

(* A tab that counts as saved holds what was written.                      *)
LEMMA SavedTabIs ==
  ASSUME NEW o, NEW tab \in TabState, NEW s, s = SavedTab(o, tab),
         o.text \in Known, o.path \in Path
  PROVE  s \in TabState /\ Recorded(s, o, tab)
<1>1. PICK content : content = IF o.kind = "bulk" THEN tab.content ELSE o.text
  OBVIOUS
<1>2. content \in Known
  BY <1>1 DEF TabState
<1>3. PICK clean : clean = [tab EXCEPT !.content = content, !.base = content,
                                       !.removed = FALSE, !.dirty = FALSE]
  OBVIOUS
<1>4. /\ clean \in TabState /\ clean.path = tab.path /\ clean.content = content
      /\ clean.base = content /\ clean.dirty = FALSE
  BY <1>2, <1>3 DEF TabState
<1>5. s = IF o.tab \notin items THEN [tab EXCEPT !.content = content]
          ELSE IF o.kind \in SaveAsKind THEN [clean EXCEPT !.path = o.path, !.diverged = FALSE]
          ELSE clean
  BY <1>1, <1>3 DEF SavedTab
<1>6. CASE o.tab \notin items
  BY <1>1, <1>2, <1>5, <1>6 DEF TabState, Recorded
<1>7. CASE o.tab \in items
  BY <1>1, <1>4, <1>5, <1>7 DEF TabState, Recorded
<1>8. QED
  BY <1>6, <1>7

(* What the answer to a write leaves.                                      *)
WriteLeaves(p, o, s, ts, r) ==
  /\ o = op[p] /\ Recorded(s, o, tabs[o.tab]) /\ ts = [tabs EXCEPT ![o.tab] = s]
  /\ o.cmd = "save" /\ o.at = "answer" /\ tabs' = ts /\ Onto(r, o, ts) /\ Become(p, r)
  /\ o.tab \in 1..Len(tabs) /\ o.text \in Known /\ o.path \in Path /\ s \in TabState
  /\ ts \in [1..Len(tabs) -> TabState]
  /\ \A u \in 1..Len(tabs) : ts[u] = IF u = o.tab THEN s ELSE tabs[u]
  /\ editor' = (IF o.kind = "convert" THEN o.text ELSE editor)
  /\ owed' = (IF editor' # editor /\ active \notin {0, o.tab} THEN owed \ {editor} ELSE owed)
  /\ panel' \in Path \union {None} /\ UNCHANGED <<items, active, ops>>

(* What the answer to a write leaves: the tab, and what the handler does   *)
(* next.                                                                   *)
LEMMA WriteAnsweredIs ==
  ASSUME TypeInv, NEW p \in Proc, WriteAnswered(p)
  PROVE  \E o, s, ts, r : WriteLeaves(p, o, s, ts, r)
<1>1. PICK o, s, ts, r :
        /\ o = op[p] /\ s = SavedTab(o, tabs[o.tab]) /\ ts = [tabs EXCEPT ![o.tab] = s]
        /\ r = CASE o.kind = "bulk" -> WriteEach(Of("bulk"), o.todo, ts)
                 [] o.kind = "restore" -> Command(o, "restore")
                 [] OTHER -> Idle
  OBVIOUS
<1>2. /\ o.cmd = "save" /\ o.at = "answer" /\ tabs' = ts /\ Become(p, r)
      /\ editor' = (IF o.kind = "convert" THEN o.text ELSE editor)
      /\ owed' = (IF editor' # editor /\ active \notin {0, o.tab} THEN owed \ {editor} ELSE owed)
      /\ panel' \in {panel, PanelOf(active, ts)} /\ UNCHANGED <<items, active, ops>>
  <2>1. /\ o.cmd = "save" /\ o.at = "answer" /\ tabs' = ts /\ Become(p, r)
        /\ editor' = (IF o.kind = "convert" THEN o.text ELSE editor)
        /\ panel' = (IF o.kind = "bulk" THEN panel ELSE PanelOf(active, ts))
        /\ UNCHANGED <<items, active, ops>>
    BY <1>1 DEF WriteAnswered, Answered, SavedTab
  <2>2. owed' = IF (IF o.kind = "convert" THEN o.text ELSE editor) # editor
                     /\ {active} \ {0, o.tab} # {} THEN owed \ {editor} ELSE owed
    BY <1>1 DEF WriteAnswered
  <2>3. QED
    BY <2>1, <2>2
<1>3. /\ o \in Handler /\ o.kind \in {"bulk", "save", "restore", "saveas", "convert"}
      /\ o.text # NoFile /\ o.path \in Path
  BY <1>1, <1>2, Typed DEF Shape, Fitting
<1>4. o.text \in Known
  <2>1. o.text \in 0..last
    BY <1>3 DEF Handler
  <2>2. QED
    BY <1>3, <2>1, Typed DEF NoFile
<1>5. o.tab \in 1..Len(tabs)
  BY <1>1, <1>3, AboutTab
<1>6. DOMAIN tabs = 1..Len(tabs) /\ tabs[o.tab] \in TabState /\ tabs \in [1..Len(tabs) -> TabState]
  BY <1>5, Typed, TabIs, LenProperties DEF Screen
<1>7. s \in TabState /\ Recorded(s, o, tabs[o.tab])
  BY <1>1, <1>3, <1>4, <1>6, SavedTabIs
<1>8. /\ ts \in [1..Len(tabs) -> TabState]
      /\ \A u \in 1..Len(tabs) : ts[u] = IF u = o.tab THEN s ELSE tabs[u]
  BY <1>1, <1>5, <1>6, <1>7
<1>11. panel' \in Path \union {None}
  BY <1>2, <1>8, PanelIs, Typed DEF Screen
<1>9. WriteLeaves(p, o, s, ts, r)
  BY <1>1, <1>2, <1>3, <1>4, <1>5, <1>7, <1>8, <1>11 DEF WriteLeaves, Onto
<1>10. QED
  BY <1>9

(* The answer to a write: the types are kept.                              *)
LEMMA WriteAnsweredTypes ==
  ASSUME TypeInv, NEW p \in Proc, WriteAnswered(p), UNCHANGED <<files, watcher, last>>
  PROVE  TypeInv'
<1>1. PICK o, s, ts, r : WriteLeaves(p, o, s, ts, r)
  BY WriteAnsweredIs
<1>2. /\ o = op[p] /\ o \in Handler /\ o \in HandlerOf(Len(tabs), last) /\ Shape(o, tabs)
      /\ o.path # None
  BY <1>1, Typed, NoneAssumption DEF WriteLeaves
<1>3. s.path = IF o.tab \in items /\ o.kind \in SaveAsKind THEN o.path ELSE tabs[o.tab].path
  BY <1>1 DEF WriteLeaves, Recorded
<1>4. /\ ts \in [1..Len(tabs) -> TabState]
      /\ \A u \in 1..Len(tabs) : tabs[u].path # None => ts[u].path # None
  BY <1>1, <1>2, <1>3 DEF WriteLeaves
<1>12. editor' \in Known /\ owed' \subseteq owed /\ panel' \in Path \union {None}
  BY <1>1, Typed DEF WriteLeaves
<1>5. Screen' /\ Grown /\ Len(tabs)' = Len(tabs) /\ Handler' = Handler
  BY <1>1, <1>4, <1>12, Typed, Marked DEF WriteLeaves
<1>6. Shape(o, ts)
  BY <1>1, <1>2, <1>5, StillHandler DEF WriteLeaves
<1>7. Tabbed(ts, Len(tabs), last)
  BY <1>4, Typed DEF Tabbed, TabState
<1>8. r \in Handler /\ Shape(r, ts)
  <2>1. CASE o.kind = "bulk"
    <3>1. r = WriteEach(Of("bulk"), o.todo, ts)
      BY <1>1, <2>1 DEF WriteLeaves, Onto
    <3>2. o.todo \in SUBSET (1..Len(tabs)) /\ \A t \in o.todo : ts[t].path # None
      BY <1>2, <1>6, <2>1 DEF Handler, Shape, Noted
    <3>3. Of("bulk") \in HandlerOf(Len(tabs), last) /\ Of("bulk").kind = "bulk"
      BY Typed, OfIs DEF Kind
    <3>4. \A t \in o.todo : ts[t].path \in Path \union {None} /\ ts[t].content \in 0..last
      <4>1. \A t \in o.todo : ts[t].path \in Path \union {None} /\ ts[t].content \in 1..last
        BY <1>7, <3>2 DEF Tabbed
      <4>2. QED
        BY <4>1, Typed
    <3>5. r = Idle \/ Written(r, "bulk", Of("bulk").pick, o.todo, ts, Len(tabs), last)
      BY <3>1, <3>2, <3>3, <3>4, Typed, WriteEachIs
    <3>6. QED
      BY <1>7, <3>2, <3>5, Typed, IdleIs, WrittenShape
  <2>2. CASE o.kind = "restore"
    <3>1. r = Command(o, "restore")
      BY <1>1, <2>2 DEF WriteLeaves, Onto
    <3>2. /\ r \in HandlerOf(Len(tabs), last) /\ r.at = "call" /\ r.cmd = "restore"
          /\ r.kind = o.kind /\ r.tab = o.tab /\ r.path = o.path /\ r.pick = o.pick
      BY <1>2, <3>1, Typed, CommandIs DEF Cmd
    <3>3. Shape(r, ts)
      BY <1>1, <1>6, <2>2, <3>2 DEF WriteLeaves, Shape, Noted, Fitting
    <3>4. QED
      BY <3>2, <3>3, Typed
  <2>3. CASE o.kind \notin {"bulk", "restore"}
    <3>1. r = Idle
      BY <1>1, <2>3 DEF WriteLeaves, Onto
    <3>2. QED
      BY <3>1, Typed, IdleIs
  <2>4. QED
    BY <2>1, <2>2, <2>3
<1>9. Queue' /\ Handlers'
  BY <1>1, <1>2, <1>5, <1>8, Becomes, Typed DEF WriteLeaves
<1>10. strayed' \subseteq 1..Len(tabs)'
  <2>1. strayed' \subseteq strayed \union {op[p].tab} \union Doubled(op[p].tab, op[p].path)
                    \union ({active} \ {0, op[p].tab})
    BY DEF WriteAnswered
  <2>2. Doubled(op[p].tab, op[p].path) \subseteq 1..Len(tabs) /\ op[p].tab \in 1..Len(tabs)
        /\ {active} \ {0, op[p].tab} \subseteq 1..Len(tabs)
    BY <1>1, Typed DEF Doubled, WriteLeaves, Screen
  <2>3. QED
    BY <1>5, <2>1, <2>2, Typed DEF Rest
<1>11. QED
  BY <1>1, <1>5, <1>9, <1>10, <1>12, Assembled, Typed DEF watcher, WriteLeaves

(* restoreVersion(): the restored note goes into its tab: the types are    *)
(* kept.                                                                   *)
LEMMA ReloadAnsweredTypes ==
  ASSUME TypeInv, NEW p \in Proc, ReloadAnswered(p), UNCHANGED <<files, watcher, last>>
  PROVE  TypeInv'
<1>0. PICK o, t : o = op[p] /\ t = TheTab(o.path)
  OBVIOUS
<1>1. /\ o.kind \in {"restore", "version"} /\ o.cmd = "read" /\ o.at = "answer"
      /\ Become(p, Idle) /\ UNCHANGED <<items, active, panel, ops>>
  BY <1>0 DEF ReloadAnswered, Answered
<1>2. o.got \in Known
  <2>1. o.got \in 0..last /\ o.got # NoFile
    BY <1>0, <1>1, Typed DEF Shape, Fitting, Handler
  <2>2. QED
    BY <2>1, Typed DEF NoFile
<1>3. DOMAIN tabs = 1..Len(tabs) /\ tabs \in [1..Len(tabs) -> TabState]
  BY Typed, TabIs, LenProperties DEF Screen
<1>4. /\ tabs' \in [1..Len(tabs) -> TabState] /\ editor' \in Known
      /\ \A u \in 1..Len(tabs) : tabs'[u].path = tabs[u].path
      /\ owed' \subseteq owed /\ strayed' \subseteq 1..Len(tabs)
  <2>1. CASE ByPath(o.path) = {}
    <3>1. UNCHANGED <<tabs, editor, owed, strayed>>
      BY <1>0, <2>1 DEF ReloadAnswered
    <3>2. QED
      BY <1>3, <3>1, Typed DEF Rest
  <2>2. CASE ByPath(o.path) # {}
    <3>1. t \in items /\ t \in 1..Len(tabs) /\ tabs[t] \in TabState
      BY <1>0, <1>3, <2>2, Typed, TheTabIs
    <3>2. PICK tab : tab = [tabs[t] EXCEPT !.content = o.got, !.base = o.got, !.dirty = FALSE]
      OBVIOUS
    <3>3. tab \in TabState /\ tab.path = tabs[t].path
      BY <1>2, <3>1, <3>2 DEF TabState
    <3>4. /\ tabs' = [tabs EXCEPT ![t].content = o.got, ![t].base = o.got, ![t].dirty = FALSE]
          /\ editor' = IF t = active THEN o.got ELSE editor
          /\ owed' \subseteq owed /\ strayed' \subseteq strayed \union {t}
      BY <1>0, <2>2 DEF ReloadAnswered, LoadIfActive
    <3>5. tabs' = [tabs EXCEPT ![t] = tab]
      BY <1>3, <3>1, <3>2, <3>4 DEF TabState
    <3>6. /\ tabs' \in [1..Len(tabs) -> TabState]
          /\ \A u \in 1..Len(tabs) : tabs'[u].path = tabs[u].path
      BY <1>3, <3>1, <3>3, <3>5
    <3>7. editor' \in Known /\ strayed' \subseteq 1..Len(tabs)
      BY <1>2, <3>1, <3>4, Typed DEF Rest
    <3>8. QED
      BY <3>4, <3>6, <3>7
  <2>3. QED
    BY <2>1, <2>2
<1>5. Screen' /\ Grown /\ Len(tabs)' = Len(tabs) /\ Handler' = Handler
  BY <1>1, <1>4, Marked, Typed DEF Screen
<1>6. Queue' /\ Handlers'
  BY <1>0, <1>1, <1>5, IdleFits, Becomes, Typed
<1>7. QED
  BY <1>1, <1>4, <1>5, <1>6, Assembled, Typed DEF watcher

(* doSaveAs(): the path is picked, or none: the types are kept.            *)
LEMMA PickSavePathTypes ==
  ASSUME TypeInv, NEW p \in Proc, NEW path \in Path \union {None}, PickSavePath(p, path),
         UNCHANGED <<files, watcher, last>>
  PROVE  TypeInv'
<1>0. PICK o : o = op[p]
  OBVIOUS
<1>1. o.kind = "saveas" /\ o.at = "dialog" /\ UNCHANGED <<screen, ops>>
  BY <1>0 DEF PickSavePath
<1>2. o \in HandlerOf(Len(tabs), last) /\ Shape(o, tabs) /\ o.tab \in 1..Len(tabs)
  BY <1>0, <1>1, AboutTab, Typed
<1>3. ops' \in Nat /\ owed' \subseteq owed /\ strayed' \subseteq 1..Len(tabs)
  BY <1>0, <1>1, <1>2, Typed DEF PickSavePath, Rest
<1>4. CASE path = None
  <2>1. Become(p, Idle) /\ Idle \in Handler /\ Shape(Idle, tabs)
    BY <1>4, Typed, IdleIs DEF PickSavePath
  <2>2. QED
    BY <1>0, <1>1, <1>3, <2>1, Quiet
<1>5. CASE path # None
  <2>1. PICK kind \in SaveAsKind : Become(p, Write([o EXCEPT !.kind = kind], o.tab, path, editor))
    BY <1>0, <1>5 DEF PickSavePath
  <2>8. PICK q, r : q = [o EXCEPT !.kind = kind] /\ r = Write(q, o.tab, path, editor)
    OBVIOUS
  <2>9. q \in HandlerOf(Len(tabs), last) /\ q.kind \in SaveAsKind /\ q.pick = o.pick
    BY <1>2, <2>8 DEF HandlerOf, SaveAsKind, Kind
  <2>2. Become(p, r)
    BY <2>1, <2>8
  <2>3. editor \in 0..last /\ editor # NoFile
    BY Typed DEF NoFile
  <2>4. Sending(r, q, o.tab, path, editor, Len(tabs), last)
    BY <1>2, <2>8, <2>9, <2>3, Typed, WriteIs
  <2>5. path \in Path /\ o.tab # 0
    BY <1>2, <1>5, Typed
  <2>6. r \in Handler /\ Shape(r, tabs)
    BY <1>1, <2>3, <2>4, <2>5, <2>9, Typed DEF Sending, Shape, Noted, Fitting, SaveAsKind
  <2>7. QED
    BY <1>0, <1>1, <1>3, <2>2, <2>6, Quiet
<1>6. QED
  BY <1>4, <1>5

(* A change event, and the timer it sets: the types are kept.              *)
LEMMA WatchTypes ==
  ASSUME TypeInv, NEW p \in Proc, NEW path \in Path, Watch(p, path), UNCHANGED <<files, last>>
  PROVE  TypeInv'
<1>1. /\ UNCHANGED <<screen, ops, owed, strayed, removals>> /\ changes' \subseteq changes
      /\ tabs' = tabs
  BY DEF Watch, screen
<1>2. Screen' /\ Grown /\ Handler' = Handler
  BY <1>1, ScreenStays
<1>3. Queue' /\ Handlers'
  <2>1. CASE ByPath(path) = {}
    BY <1>2, <2>1, HandlersStay, Typed DEF Watch
  <2>2. CASE ByPath(path) # {}
    <3>1. PICK t : t = TheTab(path)
      OBVIOUS
    <3>2. PICK r : r = Check(Of("watch"), t, tabs, Mine(t))
      OBVIOUS
    <3>3. op[p] = Idle /\ Become(p, r)
      BY <2>2, <3>1, <3>2 DEF Watch
    <3>4. t \in items /\ t \in 1..Len(tabs) /\ tabs[t].path = path
      BY <2>2, <3>1, Typed, TheTabIs
    <3>5. Of("watch") \in HandlerOf(Len(tabs), last) /\ Of("watch").kind = "watch"
          /\ Of("watch").pick = 0 /\ Of("watch").todo = {}
      BY Typed, OfIs DEF Kind
    <3>6. Mine(t) \in 0..last /\ tabs[t].base \in 0..last /\ tabs[t].path \in Path \union {None}
      <4>1. Mine(t) \in 1..last /\ tabs[t].base \in 1..last
        BY <3>4, Typed, TabIs DEF Tabbed
      <4>2. QED
        BY <3>4, <4>1, Typed
    <3>7. Asking(r, Of("watch"), t, tabs, Mine(t), Len(tabs), last)
      BY <3>2, <3>4, <3>5, <3>6, Typed, CheckIs
    <3>8. Checked(r, "watch", 0, tabs, Len(tabs), last)
      BY <3>4, <3>5, <3>7, NoneAssumption DEF Checked, Asking
    <3>9. r \in Handler /\ Shape(r, tabs)
      BY <3>8, Typed, CheckedShape
    <3>10. op[p].at # "call"
      BY <3>3 DEF Idle
    <3>11. QED
      BY <1>1, <1>2, <3>3, <3>9, <3>10, Typed, Becomes
  <2>3. QED
    BY <2>1, <2>2
<1>4. QED
  BY <1>1, <1>2, <1>3, Assembled, Typed DEF Rest

(* Typing: there is one text more.                                         *)
LEMMA TypeTypes ==
  ASSUME TypeInv, Type, UNCHANGED <<files, watcher>>
  PROVE  TypeInv'
<1>1. /\ last < MaxText /\ last' = last + 1 /\ editor' = last'
      /\ UNCHANGED <<items, active, panel, running, ops, strayed>>
      /\ owed' \subseteq owed \union {last'}
  BY DEF Type
<1>2. last \in Nat /\ MaxText \in Nat /\ last \in 1..MaxText
  BY Typed, BoundAssumption DEF Rest, Text
<1>3. /\ Known' = 1..(last + 1) /\ Known \subseteq Known' /\ last' \in Known' /\ last' \in Text
  BY <1>1, <1>2 DEF Known, Text
<1>4. TabState \subseteq TabState'
  BY <1>3 DEF TabState
<1>5. DOMAIN tabs = 1..Len(tabs) /\ tabs \in [1..Len(tabs) -> TabState]
  BY Typed, TabIs, LenProperties DEF Screen
<1>6. /\ tabs' \in [1..Len(tabs) -> TabState']
      /\ \A u \in 1..Len(tabs) : tabs'[u].path = tabs[u].path
  <2>1. CASE active = 0
    BY <1>4, <1>5, <2>1 DEF Type
  <2>2. CASE active # 0
    <3>1. active \in 1..Len(tabs) /\ tabs[active] \in TabState
      BY <2>2, Typed, TabIs
    <3>2. PICK tab : tab = [tabs[active] EXCEPT !.dirty = TRUE]
      OBVIOUS
    <3>3. tab \in TabState /\ tab.path = tabs[active].path
      BY <3>1, <3>2 DEF TabState
    <3>4. tabs' = [tabs EXCEPT ![active] = tab]
      BY <2>2, <3>2 DEF Type
    <3>5. QED
      BY <1>4, <1>5, <3>1, <3>3, <3>4
  <2>3. QED
    BY <2>1, <2>2
<1>7. tabs' \in Seq(TabState') /\ Len(tabs)' = Len(tabs)
  BY <1>6, Typed, Numbered
<1>8. Screen'
  BY <1>1, <1>3, <1>7, Typed DEF Screen
<1>9. Grown
  BY <1>1, <1>2, <1>6, <1>7, Typed DEF Grown
<1>10. Queue' /\ Handlers'
  BY <1>1, <1>9, HandlersStay, Typed
<1>11. Files'
  <2>1. disk' = disk /\ versions' = versions /\ trash' = trash
    BY DEF files
  <2>2. QED
    BY <1>3, <2>1, Typed DEF Files
<1>12. Rest'
  BY <1>1, <1>3, <1>7, Typed DEF Rest, watcher
<1>13. QED
  BY <1>8, <1>10, <1>11, <1>12 DEF TypeInv

(* The backend has run the command of p.                                   *)
Ran(p) ==
  /\ p \in Proc /\ calls # <<>> /\ p = Head(calls) /\ op[p].at = "call"
  /\ UNCHANGED <<screen, last, ops, owed>>

(* A command has been run: the files have their types, and the screen is as*)
(* it was.                                                                 *)
LEMMA RanIs ==
  ASSUME TypeInv, NEW p, Ran(p), NEW ok \in BOOLEAN, NEW got \in 0..last, Done(p, ok, got),
         op[p].cmd = "read" /\ ok => got # NoFile,
         disk' \in [Path -> Known \union {NoFile}], versions' \in [Path -> SUBSET Known],
         trash' \subseteq Path \X Known,
         removals' \subseteq Path, changes' \subseteq Path, strayed' \subseteq 1..Len(tabs)
  PROVE  TypeInv'
<1>1. Screen' /\ Grown
  BY ScreenStays DEF Ran
<1>2. tabs' = tabs /\ last' = last /\ ops' = ops /\ owed' = owed
  BY DEF Ran, screen
<1>3. Queue' /\ Handlers'
  BY <1>1, <1>2, Typed, DoneIs DEF Ran
<1>4. Known' = Known
  BY <1>2 DEF Known
<1>5. Files'
  BY <1>4 DEF Files
<1>6. Rest'
  BY <1>2, <1>4, Typed DEF Rest
<1>7. QED
  BY <1>1, <1>3, <1>5, <1>6 DEF TypeInv

(* The fields of a handler whose command is run.                           *)
LEMMA CalledIs ==
  ASSUME TypeInv, NEW p, Ran(p), NEW o, o = op[p]
  PROVE  /\ o \in Handler /\ o.path \in Path
         /\ o.cmd = "save" => o.text \in Known /\ o.tab \in 1..Len(tabs)
         /\ o.cmd = "restore" => o.pick \in Known
         /\ o.cmd = "undo" => o.pick \in Known
         /\ o.cmd = "rename" => o.to \in Path
<1>1. o \in Handler /\ Shape(o, tabs) /\ o.path \in Path /\ p \in Proc
  BY Typed DEF Ran, Shape, Fitting
<1>2. o.text \in 0..last /\ o.pick \in 0..last
  BY <1>1 DEF Handler
<1>3. \A x \in 0..last : x # NoFile => x \in Known
  BY Typed DEF NoFile
<1>4. o.cmd = "save" => o.kind \in {"bulk", "save", "restore", "saveas", "convert"}
  BY <1>1 DEF Shape, Fitting
<1>5. o.cmd = "save" => o.tab \in 1..Len(tabs)
  BY <1>1, <1>4, AboutTab
<1>6. QED
  BY <1>1, <1>2, <1>3, <1>5 DEF Shape, Fitting

(* The first of the queue is a handler that waits for its command.         *)
LEMMA HeadRuns ==
  ASSUME TypeInv, NEW p, p = Head(calls), calls # <<>>, UNCHANGED <<screen, last, ops, owed>>
  PROVE  Ran(p)
<1>1. calls \in Seq(Proc) /\ DOMAIN calls = 1..Len(calls) /\ Len(calls) \in Nat
  BY Typed, LenProperties DEF Queue
<1>2. Len(calls) # 0
  BY <1>1, EmptySeq
<1>3. p = calls[1] /\ 1 \in DOMAIN calls
  BY <1>1, <1>2
<1>4. p \in {calls[n] : n \in DOMAIN calls}
  BY <1>3
<1>5. p \in Proc /\ op[p].at = "call"
  BY <1>4, Typed DEF Queue
<1>6. QED
  BY <1>5 DEF Ran

(* The eight commands.                                                     *)
LEMMA BackendTypes ==
  ASSUME TypeInv, Backend
  PROVE  TypeInv'
<1>1. PICK p : p = Head(calls)
  OBVIOUS
<1>2. /\ calls # <<>> /\ UNCHANGED <<screen, last, ops, owed>>
      /\ \/ ReadNote(p) \/ SaveFile(p) \/ RestoreSnapshot(p) \/ CreateNote(p)
         \/ RenameEntry(p) \/ MoveToTrash(p) \/ RestoreFromTrash(p) \/ Refuse(p)
  BY <1>1 DEF Backend
<1>3. Ran(p)
  BY <1>1, <1>2, HeadRuns
<1>4. PICK o : o = op[p]
  OBVIOUS
<1>5. /\ o \in Handler /\ o.path \in Path
      /\ o.cmd = "save" => o.text \in Known /\ o.tab \in 1..Len(tabs)
      /\ o.cmd = "restore" => o.pick \in Known
      /\ o.cmd = "undo" => o.pick \in Known
      /\ o.cmd = "rename" => o.to \in Path
  BY <1>3, <1>4, CalledIs
<1>6. /\ disk \in [Path -> Known \union {NoFile}] /\ versions \in [Path -> SUBSET Known]
      /\ trash \subseteq Path \X Known /\ removals \subseteq Path /\ changes \subseteq Path
      /\ strayed \subseteq 1..Len(tabs) /\ 0 \in 0..last /\ Known \subseteq 0..last
  BY Typed DEF Files, Rest
<1>7. Found(o.path) \in SUBSET Known
  BY <1>5, <1>6 DEF Found
<1>8. ASSUME ReadNote(p) PROVE TypeInv'
  <2>1. /\ Done(p, o.cmd = "check" \/ disk[o.path] # NoFile, disk[o.path])
        /\ o.cmd \in {"check", "read"} /\ UNCHANGED <<files, watcher, strayed>>
    BY <1>4, <1>8 DEF ReadNote
  <2>2. disk[o.path] \in 0..last
    BY <1>5, <1>6 DEF NoFile
  <2>3. (o.cmd = "check" \/ disk[o.path] # NoFile) \in BOOLEAN
    OBVIOUS
  <2>4. UNCHANGED <<disk, versions, trash, removals, changes, strayed>>
    BY <2>1 DEF files, watcher
  <2>5. o.cmd = "read" /\ (o.cmd = "check" \/ disk[o.path] # NoFile) => disk[o.path] # NoFile
    OBVIOUS
  <2>6. QED
    BY <1>3, <1>4, <1>6, <2>1, <2>2, <2>3, <2>4, <2>5, RanIs
<1>9. ASSUME SaveFile(p) PROVE TypeInv'
  <2>1. /\ o.cmd = "save" /\ Done(p, TRUE, 0)
        /\ disk' = [disk EXCEPT ![o.path] = o.text]
        /\ versions' = [versions EXCEPT ![o.path] = @ \union (Found(o.path) \union {o.text})]
        /\ changes' = changes \union {o.path}
        /\ strayed' \subseteq strayed \union {o.tab} /\ UNCHANGED <<trash, removals>>
    BY <1>4, <1>9 DEF SaveFile, Keep, NoFile
  <2>2. /\ disk' \in [Path -> Known \union {NoFile}] /\ versions' \in [Path -> SUBSET Known]
        /\ changes' \subseteq Path /\ strayed' \subseteq 1..Len(tabs)
        /\ trash' \subseteq Path \X Known /\ removals' \subseteq Path
    BY <1>5, <1>6, <1>7, <2>1
  <2>3. QED
    BY <1>3, <1>4, <1>6, <2>1, <2>2, RanIs
<1>10. ASSUME RestoreSnapshot(p) PROVE TypeInv'
  <2>1. /\ o.cmd = "restore" /\ Done(p, TRUE, 0)
        /\ disk' = [disk EXCEPT ![o.path] = o.pick]
        /\ versions' = [versions EXCEPT ![o.path] = @ \union Found(o.path)]
        /\ changes' = changes \union {o.path} /\ UNCHANGED <<trash, removals, strayed>>
    BY <1>4, <1>10 DEF RestoreSnapshot, Keep, NoFile
  <2>2. /\ disk' \in [Path -> Known \union {NoFile}] /\ versions' \in [Path -> SUBSET Known]
        /\ changes' \subseteq Path /\ strayed' \subseteq 1..Len(tabs)
        /\ trash' \subseteq Path \X Known /\ removals' \subseteq Path
    BY <1>5, <1>6, <1>7, <2>1
  <2>3. QED
    BY <1>3, <1>4, <1>6, <2>1, <2>2, RanIs
<1>11. ASSUME CreateNote(p) PROVE TypeInv'
  <2>1. /\ o.cmd = "create" /\ Done(p, TRUE, 0)
        /\ disk' = [disk EXCEPT ![o.path] = Empty]
        /\ changes' = changes \union {o.path} /\ UNCHANGED <<versions, trash, removals, strayed>>
    BY <1>4, <1>11 DEF CreateNote, NoFile
  <2>2. Empty \in Known
    BY Typed DEF Empty, Rest, Text
  <2>3. /\ disk' \in [Path -> Known \union {NoFile}] /\ versions' \in [Path -> SUBSET Known]
        /\ changes' \subseteq Path /\ strayed' \subseteq 1..Len(tabs)
        /\ trash' \subseteq Path \X Known /\ removals' \subseteq Path
    BY <1>5, <1>6, <2>1, <2>2
  <2>4. QED
    BY <1>3, <1>4, <1>6, <2>1, <2>3, RanIs
<1>12. ASSUME RenameEntry(p) PROVE TypeInv'
  <2>1. /\ o.cmd = "rename" /\ Done(p, TRUE, 0)
        /\ disk' = [disk EXCEPT ![o.to] = disk[o.path], ![o.path] = NoFile]
        /\ versions' = [versions EXCEPT ![o.to] = @ \union versions[o.path], ![o.path] = {}]
        /\ removals' = removals \union {o.path} /\ changes' = changes \union {o.to}
        /\ UNCHANGED <<trash, strayed>>
    BY <1>4, <1>12 DEF RenameEntry, NoFile
  <2>2. disk' \in [Path -> Known \union {NoFile}]
    BY <1>5, <1>6, <2>1
  <2>3. versions' \in [Path -> SUBSET Known]
    BY <1>5, <1>6, <2>1
  <2>4. /\ changes' \subseteq Path /\ strayed' \subseteq 1..Len(tabs)
        /\ trash' \subseteq Path \X Known /\ removals' \subseteq Path
    BY <1>5, <1>6, <2>1
  <2>5. QED
    BY <1>3, <1>4, <1>6, <2>1, <2>2, <2>3, <2>4, RanIs
<1>13. ASSUME MoveToTrash(p) PROVE TypeInv'
  <2>1. /\ o.cmd = "trash" /\ Done(p, TRUE, 0) /\ disk[o.path] # NoFile
        /\ disk' = [disk EXCEPT ![o.path] = NoFile]
        /\ trash' = trash \union {<<o.path, disk[o.path]>>}
        /\ removals' = removals \union {o.path} /\ UNCHANGED <<versions, changes, strayed>>
    BY <1>4, <1>13 DEF MoveToTrash, NoFile
  <2>2. disk[o.path] \in Known
    BY <1>5, <1>6, <2>1
  <2>3. /\ disk' \in [Path -> Known \union {NoFile}] /\ versions' \in [Path -> SUBSET Known]
        /\ changes' \subseteq Path /\ strayed' \subseteq 1..Len(tabs)
        /\ trash' \subseteq Path \X Known /\ removals' \subseteq Path
    BY <1>5, <1>6, <2>1, <2>2
  <2>4. QED
    BY <1>3, <1>4, <1>6, <2>1, <2>3, RanIs
<1>14. ASSUME RestoreFromTrash(p) PROVE TypeInv'
  <2>1. /\ o.cmd = "undo" /\ Done(p, TRUE, 0)
        /\ disk' = [disk EXCEPT ![o.path] = o.pick]
        /\ trash' = trash \ {<<o.path, o.pick>>}
        /\ changes' = changes \union {o.path} /\ UNCHANGED <<versions, removals, strayed>>
    BY <1>4, <1>14 DEF RestoreFromTrash, NoFile
  <2>2. /\ disk' \in [Path -> Known \union {NoFile}] /\ versions' \in [Path -> SUBSET Known]
        /\ changes' \subseteq Path /\ strayed' \subseteq 1..Len(tabs)
        /\ trash' \subseteq Path \X Known /\ removals' \subseteq Path
    BY <1>5, <1>6, <2>1
  <2>3. QED
    BY <1>3, <1>4, <1>6, <2>1, <2>2, RanIs
<1>15. ASSUME Refuse(p) PROVE TypeInv'
  <2>1. /\ Done(p, FALSE, 0) /\ UNCHANGED <<disk, trash, watcher, strayed>>
        /\ \/ versions' = [versions EXCEPT ![o.path] = @ \union Found(o.path)]
           \/ versions' = versions
    BY <1>4, <1>15 DEF Refuse, Keep, NoFile
  <2>2. /\ disk' \in [Path -> Known \union {NoFile}] /\ versions' \in [Path -> SUBSET Known]
        /\ changes' \subseteq Path /\ strayed' \subseteq 1..Len(tabs)
        /\ trash' \subseteq Path \X Known /\ removals' \subseteq Path
    BY <1>5, <1>6, <1>7, <2>1 DEF watcher
  <2>3. QED
    BY <1>3, <1>4, <1>6, <2>1, <2>2, RanIs
<1>16. QED
  BY <1>2, <1>8, <1>9, <1>10, <1>11, <1>12, <1>13, <1>14, <1>15

(* One tab, and every handler idle.                                        *)
LEMMA InitTypes ==
  ASSUME Init
  PROVE  TypeInv
<1>1. /\ last = 1 /\ ops = 0 /\ owed = {} /\ strayed = {} /\ removals = {} /\ changes = {}
      /\ calls = <<>> /\ op = [p \in Proc |-> Idle] /\ items = {1} /\ active = 1 /\ editor = 1
      /\ disk \in [Path -> {0, 1}] /\ versions = [p \in Path |-> {}] /\ trash = {}
  BY DEF Init, Empty, NoFile
<1>2. Known = 1..1 /\ 1 \in Known /\ last \in Nat
  BY <1>1 DEF Known
<1>3. PICK path \in Path \union {None} : tabs = <<NewTab(path, 1)>> /\ panel = path
  BY DEF Init, Empty
<1>4. PICK tab : tab = NewTab(path, 1)
  OBVIOUS
<1>5. tab \in TabState
  BY <1>2, <1>4, NewTabIs
<1>6. tabs = <<tab>>
  BY <1>3, <1>4
<1>7. tabs \in Seq(TabState) /\ Len(tabs) = 1
  BY <1>5, <1>6
<1>8. 1 \in Tab /\ 1 \in Text
  BY BoundAssumption DEF Tab, Text
<1>9. Screen
  BY <1>1, <1>2, <1>3, <1>7, <1>8 DEF Screen
<1>10. Queue
  BY <1>1 DEF Queue, Idle
<1>11. Handlers
  <2>1. Idle \in Handler /\ Shape(Idle, tabs)
    BY <1>2, <1>7, IdleIs, HandlersAre
  <2>2. QED
    BY <1>1, <2>1 DEF Handlers
<1>12. Files
  BY <1>1, <1>2 DEF Files, NoFile
<1>13. Rest
  BY <1>1, <1>8 DEF Rest
<1>14. QED
  BY <1>9, <1>10, <1>11, <1>12, <1>13 DEF TypeInv

(* The handlers' steps, one by one.                                        *)
LEMMA StartTypes ==
  ASSUME TypeInv, NEW p \in Proc, Start(p), UNCHANGED <<files, watcher, last>>
  PROVE  TypeInv'
<1>1. ASSUME Save(p) \/ SaveAll(p) \/ SaveAs(p) PROVE TypeInv'
  BY <1>1, SaveTypes, SaveAllTypes, SaveAsTypes
<1>2. ASSUME NEW path \in Path, Delete(p, path) \/ OpenPath(p, path) \/ Create(p, path)
      PROVE  TypeInv'
  BY <1>2, DeleteTypes, OpenPathTypes
<1>3. ASSUME NEW path \in Path, NEW to \in Path, Rename(p, path, to) PROVE TypeInv'
  BY <1>3, RenameTypes
<1>4. ASSUME NEW entry \in trash, Undo(p, entry) PROVE TypeInv'
  BY <1>4, UndoTypes
<1>5. ASSUME NEW text \in Text, RestoreVersion(p, text) PROVE TypeInv'
  BY <1>5, RestoreVersionTypes
<1>6. ASSUME NEW t \in items, Close(p, t) PROVE TypeInv'
  BY <1>6, CloseTypes
<1>7. QED
  BY <1>1, <1>2, <1>3, <1>4, <1>5, <1>6 DEF Start

(* The handlers that go on: the types are kept.                            *)
LEMMA ContinueTypes ==
  ASSUME TypeInv, NEW p \in Proc, Continue(p), UNCHANGED <<files, watcher, last>>
  PROVE  TypeInv'
<1>1. ASSUME RetryCheck(p) \/ CheckAnswered(p) \/ WriteAnswered(p) \/ Failed(p) PROVE TypeInv'
  BY <1>1, RetryCheckTypes, CheckAnsweredTypes, WriteAnsweredTypes, FailedTypes
<1>2. ASSUME RenameAnswered(p) \/ DeleteAnswered(p) \/ UndoAnswered(p) \/ RestoreAnswered(p)
      PROVE  TypeInv'
  BY <1>2, RenameAnsweredTypes, DeleteAnsweredTypes, UndoAnsweredTypes
<1>3. ASSUME ReloadAnswered(p) \/ OpenAnswered(p) \/ CreateAnswered(p) PROVE TypeInv'
  BY <1>3, ReloadAnsweredTypes, OpenedTypes
<1>4. ASSUME NEW path \in Path \union {None}, PickSavePath(p, path) PROVE TypeInv'
  BY <1>4, PickSavePathTypes
<1>5. ASSUME NEW yes \in BOOLEAN,
             DeleteConfirmed(p, yes) \/ RestoreConfirmed(p, yes) \/ CloseConfirmed(p, yes)
      PROVE  TypeInv'
  BY <1>5, DeleteConfirmedTypes, RestoreConfirmedTypes, CloseConfirmedTypes
<1>6. QED
  BY <1>1, <1>2, <1>3, <1>4, <1>5 DEF Continue

(* Every step keeps the types.                                             *)
LEMMA NextTypes ==
  ASSUME TypeInv, [Next]_vars
  PROVE  TypeInv'
<1>1. ASSUME Backend PROVE TypeInv'
  BY <1>1, BackendTypes
<1>2. ASSUME NEW p \in Proc, Start(p) \/ Continue(p), UNCHANGED <<files, watcher, last>>
      PROVE  TypeInv'
  BY <1>2, StartTypes, ContinueTypes
<1>3. ASSUME New \/ RefreshHistory \/ (\E t \in items : Switch(t)),
             UNCHANGED <<files, watcher, last>>
      PROVE  TypeInv'
  BY <1>3, NewTypes, RefreshHistoryTypes
<1>4. ASSUME NEW p \in Proc, NEW path \in Path, Watch(p, path), UNCHANGED <<files, last>>
      PROVE  TypeInv'
  BY <1>4, WatchTypes
<1>5. ASSUME NEW path \in Path, NoticeRemoval(path), UNCHANGED <<files, last>> PROVE TypeInv'
  BY <1>5, NoticeRemovalTypes
<1>6. ASSUME Type, UNCHANGED <<files, watcher>> PROVE TypeInv'
  BY <1>6, TypeTypes
<1>7. ASSUME UNCHANGED vars PROVE TypeInv'
  <2>1. /\ UNCHANGED <<files, last, screen>> /\ UNCHANGED running
        /\ removals' = removals /\ changes' = changes /\ ops' = ops /\ owed' = owed
        /\ strayed' = strayed /\ tabs' = tabs
    BY <1>7 DEF vars, watcher, screen
  <2>2. Screen' /\ Grown
    BY <2>1, ScreenStays
  <2>3. Queue' /\ Handlers'
    BY <2>1, <2>2, HandlersStay, Typed
  <2>4. QED
    BY <2>1, <2>2, <2>3, Assembled, Typed DEF Rest
<1>8. QED
  BY <1>1, <1>2, <1>3, <1>4, <1>5, <1>6, <1>7 DEF Next

(* The typed state is what TypeOK says.                                    *)
LEMMA TypesAre == TypeInv => TypeOK
<1>1. ASSUME TypeInv PROVE TypeOK
  BY <1>1, Typed DEF TypeInv, Files, Screen, Queue, Handlers, Rest, TypeOK
<1>2. QED
  BY <1>1

(* Every variable has its type in every reachable state: what is on screen *)
(* is an open tab, no handler's command waits twice for the backend, and   *)
(* none waits that is not in its queue.                                    *)
THEOREM TypeCorrect == Spec => []TypeOK
<1>1. Init => TypeInv
  BY InitTypes
<1>2. TypeInv /\ [Next]_vars => TypeInv'
  BY NextTypes
<1>3. QED
  BY <1>1, <1>2, TypesAre, PTL DEF Spec

-----------------------------------------------------------------------------
(* The texts that no note, no version and no trashed note holds although   *)
(* the user typed them: they are in the tabs alone.                        *)
Stored ==
  {disk[p] : p \in Path} \union (UNION {versions[p] : p \in Path})
  \union {entry[2] : entry \in trash}
Loose == owed \ Stored

(* The screen's text of a tab is in its record too, or stored.             *)
Held(t) == Live(t) = tabs[t].content \/ Live(t) \notin Loose

(* What a handler may forget or replace when it goes on.                   *)
Good(o) ==
  /\ o.base \notin Loose /\ o.got \notin Loose
  /\ o.kind = "bulk" => o.cmd \in {"check", "save"}
  /\ o.at = "failed" => o.cmd # "check"
  /\ o.cmd = "save" /\ o.tab \in items => Live(o.tab) = o.text \/ Live(o.tab) \notin Loose
  /\ o.cmd = "save" /\ o.kind = "bulk" => \A t \in o.todo \intersect items : Held(t)
  /\ o.cmd = "save" /\ o.at = "answer" => o.text \notin Loose
  /\ o.kind = "restore" /\ o.cmd \in {"restore", "read"} /\ o.tab \in items =>
       Live(o.tab) \notin Loose
  /\ o.cmd = "trash" => \A t \in o.todo \intersect items : Live(t) \notin Loose

Kept == Loose \subseteq {Live(t) : t \in items}
Clean == \A t \in items : ~tabs[t].dirty => Live(t) \notin Loose
Bases == \A t \in 1..Len(tabs) : tabs[t].base \notin Loose
Backed == active # 0 => tabs[active].content = editor \/ tabs[active].content \notin Loose
Careful == \A p \in Proc : Good(op[p])
SafeInv == Empty \notin owed /\ Kept /\ Clean /\ Bases /\ Backed /\ Careful

(* A step that loses no text: whatever it takes out of a tab is stored,    *)
(* and what it puts there instead too.                                     *)
Steady(t) == Live(t)' = Live(t) \/ (Live(t) \notin Loose' /\ Live(t)' \notin Loose')
Carried ==
  /\ Loose' \subseteq Loose
  /\ \A t \in items \intersect items' : Steady(t) /\ (Held(t) => Held(t)')
  /\ \A t \in items \ items' : Live(t) \notin Loose'
  /\ items' \intersect 1..Len(tabs) \subseteq items

(* What is stored stays stored: no text is loose that was not.             *)
LEMMA LooseIs ==
  ASSUME owed' \subseteq owed, \A x \in owed : x \in Stored => x \in Stored'
  PROVE  Loose' \subseteq Loose
BY DEF Loose

(* Where no file changes, none comes loose.                                *)
LEMMA LooseStays ==
  ASSUME owed' \subseteq owed, UNCHANGED files
  PROVE  Loose' \subseteq Loose
<1>1. Stored' = Stored
  BY DEF Stored, files
<1>2. QED
  BY <1>1, LooseIs

(* A step that carries the texts on keeps the loose ones in tabs.          *)
LEMMA KeptStays ==
  ASSUME Kept, Carried
  PROVE  Kept'
<1>1. ASSUME NEW x \in Loose' PROVE \E t \in items' : x = Live(t)'
  <2>1. PICK t \in items : x = Live(t)
    BY <1>1 DEF Kept, Carried
  <2>2. t \in items'
    BY <1>1, <2>1 DEF Carried
  <2>3. Steady(t)
    BY <2>2 DEF Carried
  <2>4. QED
    BY <1>1, <2>1, <2>2, <2>3 DEF Steady
<1>2. QED
  BY <1>1 DEF Kept

(* A handler that does nothing has the same to go by.                      *)
LEMMA GoodStays ==
  ASSUME TypeInv, TypeInv', Carried, NEW o \in Handler, Good(o)
  PROVE  Good(o)'
<1>1. o.tab \in 0..Len(tabs) /\ o.todo \subseteq 1..Len(tabs) /\ Len(tabs) \in Nat
  BY Typed DEF Handler
<1>2. 0 \notin items'
  BY DEF TypeInv, Screen
<1>3. Loose' \subseteq Loose
  BY DEF Carried
<1>4. ASSUME NEW t \in items', t \in 1..Len(tabs) PROVE t \in items /\ Steady(t) /\ (Held(t) => Held(t)')
  BY <1>4 DEF Carried
<1>5. o.tab \in items' => o.tab \in items /\ Steady(o.tab)
  <2>1. o.tab \in items' => o.tab \in 1..Len(tabs)
    BY <1>1, <1>2
  <2>2. QED
    BY <1>4, <2>1
<1>6. \A t \in o.todo \intersect items' :
        t \in items /\ Steady(t) /\ (Held(t) => Held(t)')
  BY <1>1, <1>4
<1>7. o.cmd = "save" /\ o.tab \in items' => Live(o.tab)' = o.text \/ Live(o.tab)' \notin Loose'
  BY <1>3, <1>5 DEF Good, Steady
<1>8. o.cmd = "save" /\ o.kind = "bulk" => \A t \in o.todo \intersect items' : Held(t)'
  BY <1>6 DEF Good
<1>9. o.kind = "restore" /\ o.cmd \in {"restore", "read"} /\ o.tab \in items' =>
        Live(o.tab)' \notin Loose'
  BY <1>3, <1>5 DEF Good, Steady
<1>10. o.cmd = "trash" => \A t \in o.todo \intersect items' : Live(t)' \notin Loose'
  BY <1>3, <1>6 DEF Good, Steady
<1>11. QED
  BY <1>3, <1>7, <1>8, <1>9, <1>10 DEF Good

(* "No file" is not a text that the user typed.                            *)
LEMMA NoFileIsStored ==
  /\ TypeInv => 0 \notin Loose
  /\ TypeInv' => 0 \notin Loose'
<1>1. ASSUME TypeInv PROVE 0 \notin Loose
  BY <1>1, Typed DEF Rest, Loose
<1>2. ASSUME TypeInv' PROVE 0 \notin Loose'
  <2>1. owed' \subseteq 1..last' /\ last' \in Nat
    BY <1>2 DEF TypeInv, Rest, Known, Text
  <2>2. QED
    BY <2>1 DEF Loose
<1>3. QED
  BY <1>1, <1>2

(* A handler that has nothing to forget yet.                               *)
Unpledged(o) ==
  /\ o.at # "failed" /\ o.cmd \notin {"save", "trash"}
  /\ o.kind = "bulk" => o.cmd = "check"
  /\ o.kind = "restore" => o.cmd \notin {"restore", "read"}

(* A handler that has nothing to forget goes by two texts that are not     *)
(* loose.                                                                  *)
LEMMA UnpledgedIsGood ==
  ASSUME NEW o, Unpledged(o), o.base \notin Loose', o.got \notin Loose'
  PROVE  Good(o)'
BY DEF Unpledged, Good

(* A handler at rest has nothing to forget.                                *)
LEMMA IdleIsGood ==
  ASSUME TypeInv'
  PROVE  Good(Idle)'
<1>1. Unpledged(Idle) /\ Idle.base = 0 /\ Idle.got = 0
  BY DEF Unpledged, Idle, NoFile
<1>2. QED
  BY <1>1, NoFileIsStored, UnpledgedIsGood

(* One handler goes on with care, the others wait.                         *)
LEMMA CarefulBecomes ==
  ASSUME TypeInv, TypeInv', Carried, Careful, NEW p \in Proc, NEW r, Become(p, r), Good(r)'
  PROVE  Careful'
<1>1. op' = [op EXCEPT ![p] = r] /\ op \in [Proc -> Handler]
  BY Typed DEF Become, Handlers
<1>2. ASSUME NEW q \in Proc PROVE Good(op[q])'
  <2>1. PICK o : o = op'[q]
    OBVIOUS
  <2>2. Good(o)'
    <3>1. CASE q = p
      BY <1>1, <2>1, <3>1
    <3>2. CASE q # p
      <4>1. o = op[q] /\ o \in Handler /\ Good(o)
        BY <1>1, <2>1, <3>2 DEF Careful
      <4>2. QED
        BY <4>1, GoodStays
    <3>3. QED
      BY <3>1, <3>2
  <2>3. QED
    BY <2>1, <2>2
<1>3. QED
  BY <1>2 DEF Careful

(* Every handler waits.                                                    *)
LEMMA CarefulStays ==
  ASSUME TypeInv, TypeInv', Carried, Careful, op' = op
  PROVE  Careful'
<1>1. ASSUME NEW q \in Proc PROVE Good(op[q])'
  <2>1. PICK o : o = op[q]
    OBVIOUS
  <2>2. o \in Handler /\ Good(o) /\ o = op'[q]
    BY <2>1, Typed DEF Careful
  <2>3. Good(o)'
    BY <2>2, GoodStays
  <2>4. QED
    BY <2>2, <2>3
<1>2. QED
  BY <1>1 DEF Careful

(* A check that the removal epoch has made void goes by what it went by.   *)
LEMMA VoidedIsGood ==
  ASSUME TypeInv, NEW o \in Handler, NEW r, Voided(r, o), Good(o)
  PROVE  Good(r)
<1>1. CASE r = o
  BY <1>1
<1>2. CASE o.cmd = "check" /\ r = [o EXCEPT !.outdated = TRUE]
  <2>1. /\ r.base = o.base /\ r.got = o.got /\ r.kind = o.kind /\ r.cmd = "check"
        /\ r.at = o.at
    BY <1>2 DEF Handler
  <2>2. QED
    BY <1>2, <2>1 DEF Good
<1>3. QED
  BY <1>1, <1>2 DEF Voided

(* Checks are made void, and one handler may end.                          *)
LEMMA CarefulOutdating ==
  ASSUME TypeInv, TypeInv', Carried, Careful, NEW paths,
         op' = Outdate(paths, op) \/ \E p \in Proc : op' = [Outdate(paths, op) EXCEPT ![p] = Idle]
  PROVE  Careful'
<1>1. op \in [Proc -> Handler] /\ DOMAIN Outdate(paths, op) = Proc
  BY Typed DEF Handlers, Outdate
<1>2. ASSUME NEW q \in Proc PROVE Good(op[q])'
  <2>1. PICK o, r, s : o = op[q] /\ r = Outdate(paths, op)[q] /\ s = op'[q]
    OBVIOUS
  <2>2. o \in Handler /\ Good(o) /\ Voided(r, o)
    BY <1>1, <2>1, OutdateIs DEF Careful
  <2>3. r \in Handler /\ Good(r)
    BY <2>2, VoidedIsGood DEF Voided
  <2>4. Good(r)' /\ Good(Idle)'
    BY <2>3, GoodStays, IdleIsGood
  <2>5. s = r \/ s = Idle
    BY <1>1, <2>1
  <2>6. Good(s)'
    BY <2>4, <2>5
  <2>7. QED
    BY <2>1, <2>6
<1>3. QED
  BY <1>2 DEF Careful

(* What a step that carries the texts on has left to show.                 *)
LEMMA SafeNext ==
  ASSUME TypeInv, TypeInv', SafeInv, Carried, owed' \subseteq owed, Clean', Bases', Backed', Careful'
  PROVE  SafeInv'
BY KeptStays DEF SafeInv

(* What the tabs are to each other and to the notes, the handlers aside.   *)
Sound == Clean /\ Bases /\ Backed

(* Nothing happens on screen.                                              *)
LEMMA ScreenSame ==
  ASSUME SafeInv, UNCHANGED screen, Loose' \subseteq Loose
  PROVE  Carried /\ Sound'
<1>1. tabs' = tabs /\ items' = items /\ active' = active /\ editor' = editor
  BY DEF screen
<1>2. \A t : Live(t)' = Live(t)
  BY <1>1 DEF Live
<1>3. Carried
  BY <1>1, <1>2 DEF Carried, Steady, Held
<1>4. Clean' /\ Bases' /\ Backed'
  BY <1>1, <1>2 DEF SafeInv, Clean, Bases, Backed
<1>5. QED
  BY <1>3, <1>4 DEF Sound

(* The tabs' marks and paths change, their texts do not.                   *)
LEMMA MarksOnly ==
  ASSUME TypeInv, SafeInv, UNCHANGED <<items, active, editor>>, Loose' \subseteq Loose,
         Len(tabs)' = Len(tabs),
         \A t \in 1..Len(tabs) :
           /\ tabs'[t].content = tabs[t].content /\ tabs'[t].base = tabs[t].base
           /\ ~tabs'[t].dirty => ~tabs[t].dirty
  PROVE  Carried /\ Sound'
<1>1. items \subseteq 1..Len(tabs) /\ (active # 0 => active \in 1..Len(tabs))
  BY Typed, TabIs
<1>2. \A t \in items : Live(t)' = Live(t)
  BY <1>1 DEF Live
<1>3. Carried
  BY <1>1, <1>2 DEF Carried, Steady, Held
<1>4. Clean' /\ Bases' /\ Backed'
  BY <1>1, <1>2 DEF SafeInv, Clean, Bases, Backed
<1>5. QED
  BY <1>3, <1>4 DEF Sound

(* The tab t shows another text, as does its record, or an open tab's      *)
(* record only: what it had and what it gets are stored.                   *)
LEMMA Reread ==
  ASSUME TypeInv, SafeInv, UNCHANGED <<items, active>>, Loose' \subseteq Loose,
         Len(tabs)' = Len(tabs), NEW t \in 1..Len(tabs), NEW text, text \notin Loose',
         t \in items => Live(t) \notin Loose',
         tabs'[t].content = text, tabs'[t].base \in {text, tabs[t].base},
         editor' = IF t = active THEN text ELSE editor,
         \A u \in 1..Len(tabs) : u # t =>
           /\ tabs'[u].content = tabs[u].content \/ (u = active /\ tabs'[u].content = editor)
           /\ tabs'[u].base = tabs[u].base
           /\ tabs'[u].dirty = tabs[u].dirty
  PROVE  Carried /\ Sound'
<1>1. items \subseteq 1..Len(tabs) /\ (active # 0 => active \in 1..Len(tabs) /\ active \in items)
  BY Typed, TabIs
<1>2. \A u \in items : u # t => Live(u)' = Live(u)
  BY <1>1 DEF Live
<1>3. Live(t)' = text
  BY DEF Live
<1>4. ASSUME NEW u \in items PROVE Steady(u) /\ (Held(u) => Held(u)')
  <2>1. CASE u = t
    BY <1>3, <2>1 DEF Steady, Held
  <2>2. CASE u # t
    <3>1. Live(u)' = Live(u) /\ u \in 1..Len(tabs)
      BY <1>1, <1>2, <2>2
    <3>2. Live(active) = editor
      BY DEF Live
    <3>3. QED
      BY <2>2, <3>1, <3>2 DEF Steady, Held
  <2>3. QED
    BY <2>1, <2>2
<1>5. Carried
  BY <1>1, <1>4 DEF Carried
<1>6. Clean'
  BY <1>1, <1>2, <1>3 DEF SafeInv, Clean
<1>7. Bases'
  BY <1>1 DEF SafeInv, Bases
<1>8. Backed'
  BY <1>1 DEF SafeInv, Backed
<1>9. QED
  BY <1>5, <1>6, <1>7, <1>8 DEF Sound

(* A handler becomes r, and nothing happens on screen.                     *)
LEMMA QuietSafe ==
  ASSUME TypeInv, TypeInv', SafeInv, UNCHANGED <<files, screen>>, owed' \subseteq owed,
         NEW p \in Proc, NEW r, Become(p, r), Good(r)'
  PROVE  SafeInv'
<1>1. Loose' \subseteq Loose
  BY LooseStays
<1>2. Carried /\ Sound'
  BY <1>1, ScreenSame
<1>3. Careful'
  BY <1>2, CarefulBecomes DEF SafeInv
<1>4. QED
  BY <1>2, <1>3, SafeNext DEF Sound

(* What is not loose on a quiet screen stays so.                           *)
LEMMA QuietLoose ==
  ASSUME UNCHANGED <<files, screen>>, owed' \subseteq owed
  PROVE  /\ Loose' \subseteq Loose /\ items' = items
         /\ \A t : Live(t)' = Live(t) /\ (Held(t) => Held(t)')
<1>1. Loose' \subseteq Loose
  BY LooseStays
<1>2. tabs' = tabs /\ items' = items /\ active' = active /\ editor' = editor
  BY DEF screen
<1>3. QED
  BY <1>1, <1>2 DEF Live, Held

(* A handler starts that has nothing to forget yet.                        *)
LEMMA StartSafe ==
  ASSUME TypeInv, TypeInv', SafeInv, UNCHANGED <<files, screen, owed>>,
         NEW p \in Proc, NEW r, Become(p, r), Unpledged(r),
         r.base \notin Loose, r.got = 0
  PROVE  SafeInv'
<1>1. Loose' \subseteq Loose
  BY LooseStays
<1>2. Good(r)'
  BY <1>1, NoFileIsStored, UnpledgedIsGood
<1>3. QED
  BY <1>2, QuietSafe

(* doSave(): no text is lost.                                              *)
LEMMA SaveSafe ==
  ASSUME TypeInv, TypeInv', SafeInv, NEW p \in Proc, Save(p), UNCHANGED <<files, watcher, last>>
  PROVE  SafeInv'
<1>0. PICK r : r = Check(Of("save"), active, tabs, Mine(active))
  OBVIOUS
<1>1. /\ active # 0 /\ tabs[active].path # None
      /\ Become(p, r) /\ UNCHANGED <<screen, owed, strayed>>
  BY <1>0 DEF Save, Starts
<1>2. active \in 1..Len(tabs) /\ Mine(active) \in 0..last
  BY <1>1, Typed, TabIs
<1>3. Of("save") \in HandlerOf(Len(tabs), last) /\ Of("save").kind = "save"
  BY Typed, OfIs DEF Kind
<1>4. tabs[active].path \in Path \union {None} /\ tabs[active].base \in 0..last
  BY <1>2, Typed DEF Tabbed
<1>5. Asking(r, Of("save"), active, tabs, Mine(active), Len(tabs), last)
  BY <1>0, <1>2, <1>3, <1>4, Typed, CheckIs
<1>6. r.base \notin Loose /\ r.got = 0 /\ Unpledged(r)
  BY <1>2, <1>3, <1>5 DEF Asking, Unpledged, SafeInv, Bases
<1>7. QED
  BY <1>1, <1>6, StartSafe

(* A bulk save that checks first has nothing to forget.                    *)
LEMMA CheckedIsGood ==
  ASSUME NEW r, NEW kind, NEW pick, NEW ts, NEW n, NEW l, Checked(r, kind, pick, ts, n, l),
         NEW loose, \A t \in 1..n : ts[t].base \notin loose
  PROVE  r.base \notin loose /\ r.got = 0 /\ Unpledged(r)
BY DEF Checked, Unpledged

(* doSaveAll() or an autosave tick: no text is lost.                       *)
LEMMA SaveAllSafe ==
  ASSUME TypeInv, TypeInv', SafeInv, NEW p \in Proc, SaveAll(p), UNCHANGED <<files, watcher, last>>
  PROVE  SafeInv'
<1>0. PICK r : r = BulkNext(Of("bulk"), tabs, editor)
  OBVIOUS
<1>1. Become(p, r) /\ UNCHANGED <<screen, owed, strayed>>
  BY <1>0 DEF SaveAll
<1>2. Of("bulk") \in HandlerOf(Len(tabs), last) /\ Of("bulk").kind = "bulk"
      /\ Of("bulk").seen = {} /\ \A t \in Of("bulk").todo : tabs[t].path # None
  BY Typed, OfIs DEF Kind
<1>3. \/ r = Idle
      \/ Checked(r, "bulk", Of("bulk").pick, tabs, Len(tabs), last)
      \/ \E list \in SUBSET {t \in items \intersect Of("bulk").seen : tabs[t].path # None} :
           Written(r, "bulk", Of("bulk").pick, list, tabs, Len(tabs), last)
  BY <1>0, <1>2, Typed, BulkNextIs
<1>4. ~ \E list \in SUBSET {t \in items \intersect Of("bulk").seen : tabs[t].path # None} :
          Written(r, "bulk", Of("bulk").pick, list, tabs, Len(tabs), last)
  BY <1>2 DEF Written
<1>5. CASE r = Idle
  BY <1>1, <1>5, IdleIsGood, QuietSafe
<1>6. CASE Checked(r, "bulk", Of("bulk").pick, tabs, Len(tabs), last)
  <2>1. r.base \notin Loose /\ r.got = 0 /\ Unpledged(r)
    BY <1>6, CheckedIsGood DEF SafeInv, Bases
  <2>2. QED
    BY <1>1, <2>1, StartSafe
<1>7. QED
  BY <1>3, <1>4, <1>5, <1>6

(* A handler that starts without a check.                                  *)
Simple(r) ==
  /\ r.base = 0 /\ r.got = 0 /\ r.at # "failed" /\ r.cmd \notin {"save", "trash"}
  /\ r.kind \notin {"bulk", "restore"}

(* Such a handler starts.                                                  *)
LEMMA SimpleSafe ==
  ASSUME TypeInv, TypeInv', SafeInv, UNCHANGED <<files, screen, owed>>,
         NEW p \in Proc, NEW r, Become(p, r), Simple(r)
  PROVE  SafeInv'
BY NoFileIsStored, StartSafe DEF Simple, Unpledged

(* The fields that the simple handlers set.                                *)
LEMMA SimpleIs ==
  ASSUME TypeInv, NEW k \in Kind \ {"bulk", "restore"}, NEW c \in Cmd, NEW r,
         \/ \E t : r = [Of(k) EXCEPT !.at = "dialog", !.tab = t]
         \/ \E t : r = [Of(k) EXCEPT !.at = "dialog", !.pick = t]
         \/ /\ c \notin {"save", "trash"}
            /\ \/ \E x, y : r = [Command(Of(k), c) EXCEPT !.path = x, !.to = y]
               \/ \E x, y : r = [Command(Of(k), c) EXCEPT !.path = x, !.pick = y]
               \/ \E x : r = [Command(Of(k), c) EXCEPT !.path = x]
  PROVE  Simple(r)
<1>1. PICK o, q : o = Of(k) /\ q = Command(o, c)
  OBVIOUS
<1>2. o \in HandlerOf(Len(tabs), last) /\ o.kind = k /\ o.cmd = "none" /\ o.base = 0 /\ o.got = 0
  BY <1>1, Typed, OfIs
<1>3. q \in HandlerOf(Len(tabs), last) /\ q.kind = k /\ q.cmd = c /\ q.base = 0 /\ q.got = 0
      /\ q.at = "call"
  <2>1. q = [o EXCEPT !.at = "call", !.cmd = c]
    BY <1>1 DEF Command
  <2>2. q \in HandlerOf(Len(tabs), last)
    BY <1>2, <2>1 DEF HandlerOf
  <2>3. q.kind = o.kind /\ q.cmd = c /\ q.base = o.base /\ q.got = o.got /\ q.at = "call"
    BY <1>2, <2>1 DEF HandlerOf
  <2>4. QED
    BY <1>2, <2>2, <2>3
<1>4. \/ \E t : r = [o EXCEPT !.at = "dialog", !.tab = t]
      \/ \E t : r = [o EXCEPT !.at = "dialog", !.pick = t]
      \/ /\ c \notin {"save", "trash"}
         /\ \/ \E x, y : r = [q EXCEPT !.path = x, !.to = y]
            \/ \E x, y : r = [q EXCEPT !.path = x, !.pick = y]
            \/ \E x : r = [q EXCEPT !.path = x]
  BY <1>1
<1>5. QED
  BY <1>2, <1>3, <1>4, ZenonT(60) DEF HandlerOf, Simple

(* doSaveAs(), before its dialog: no text is lost.                         *)
LEMMA SaveAsSafe ==
  ASSUME TypeInv, TypeInv', SafeInv, NEW p \in Proc, SaveAs(p), UNCHANGED <<files, watcher, last>>
  PROVE  SafeInv'
<1>0. PICK r : r = [Of("saveas") EXCEPT !.at = "dialog", !.tab = active]
  OBVIOUS
<1>1. Become(p, r) /\ UNCHANGED <<screen, owed>>
  BY <1>0 DEF SaveAs, Starts
<1>2. Simple(r)
  BY <1>0, SimpleIs DEF Kind, Cmd
<1>3. QED
  BY <1>1, <1>2, SimpleSafe

(* doRestore(), before its dialog: no text is lost.                        *)
LEMMA RestoreVersionSafe ==
  ASSUME TypeInv, TypeInv', SafeInv, NEW p \in Proc, NEW text \in Text, RestoreVersion(p, text),
         UNCHANGED <<files, watcher, last>>
  PROVE  SafeInv'
<1>0. PICK r : r = [Of("version") EXCEPT !.at = "dialog", !.pick = text]
  OBVIOUS
<1>1. Become(p, r) /\ UNCHANGED <<screen, owed>>
  BY <1>0 DEF RestoreVersion, Starts
<1>2. Simple(r)
  BY <1>0, SimpleIs DEF Kind, Cmd
<1>3. QED
  BY <1>1, <1>2, SimpleSafe

(* doRestore(), confirmed or not: no text is lost.                         *)
LEMMA RestoreConfirmedSafe ==
  ASSUME TypeInv, TypeInv', SafeInv, NEW p \in Proc, NEW yes, RestoreConfirmed(p, yes),
         UNCHANGED <<files, watcher, last>>
  PROVE  SafeInv'
<1>0. PICK o, q, asks, c, restores :
        /\ o = op[p] /\ q = Check(Of("restore"), active, tabs, Mine(active))
        /\ asks = [q EXCEPT !.pick = o.pick]
        /\ c = Command(o, "restore") /\ restores = [c EXCEPT !.path = panel]
  OBVIOUS
<1>1. /\ o.kind = "version" /\ o.at = "dialog" /\ UNCHANGED <<screen, owed>>
      /\ \/ Become(p, Idle)
         \/ active # 0 /\ Become(p, asks)
         \/ Become(p, restores)
  BY <1>0 DEF RestoreConfirmed
<1>2. o \in HandlerOf(Len(tabs), last) /\ Good(o)
  BY <1>0, Typed DEF SafeInv, Careful
<1>3. CASE Become(p, Idle)
  BY <1>1, <1>3, IdleIsGood, QuietSafe
<1>4. CASE active # 0 /\ Become(p, asks)
  <2>1. active \in 1..Len(tabs) /\ Mine(active) \in 0..last
    BY <1>4, Typed, TabIs
  <2>2. Of("restore") \in HandlerOf(Len(tabs), last) /\ Of("restore").kind = "restore"
    BY Typed, OfIs DEF Kind
  <2>3. tabs[active].path \in Path \union {None} /\ tabs[active].base \in 0..last
    BY <2>1, Typed DEF Tabbed
  <2>4. Asking(q, Of("restore"), active, tabs, Mine(active), Len(tabs), last)
    BY <1>0, <2>1, <2>2, <2>3, Typed, CheckIs
  <2>5. /\ asks.base = tabs[active].base /\ asks.got = 0 /\ asks.kind = "restore"
        /\ asks.cmd = "check" /\ asks.at = "call"
    BY <1>0, <2>2, <2>4 DEF Asking, HandlerOf
  <2>6. asks.base \notin Loose /\ asks.got = 0 /\ Unpledged(asks)
    BY <2>1, <2>5 DEF Unpledged, SafeInv, Bases
  <2>7. QED
    BY <1>1, <1>4, <2>6, StartSafe
<1>5. CASE Become(p, restores)
  <2>1. /\ c \in HandlerOf(Len(tabs), last) /\ c.at = "call" /\ c.cmd = "restore"
        /\ c.kind = o.kind /\ c.base = o.base /\ c.got = o.got
    BY <1>0, <1>2, Typed, CommandIs DEF Cmd
  <2>2. /\ restores.at = "call" /\ restores.cmd = "restore" /\ restores.kind = "version"
        /\ restores.base = o.base /\ restores.got = o.got
    BY <1>0, <1>1, <2>1 DEF HandlerOf
  <2>3. Loose' \subseteq Loose
    BY <1>1, QuietLoose
  <2>4. Good(restores)'
    BY <1>2, <2>2, <2>3 DEF Good
  <2>5. QED
    BY <1>1, <1>5, <2>4, QuietSafe
<1>6. QED
  BY <1>1, <1>3, <1>4, <1>5

(* selectRail(): no text is lost.                                          *)
LEMMA RefreshHistorySafe ==
  ASSUME TypeInv, TypeInv', SafeInv, RefreshHistory, UNCHANGED <<files, watcher, last>>
  PROVE  SafeInv'
<1>1. UNCHANGED <<tabs, items, active, editor, owed>> /\ op' = op
  BY DEF RefreshHistory, running
<1>2. Loose' \subseteq Loose
  BY <1>1, LooseStays
<1>3. Carried /\ Sound'
  BY <1>1, <1>2, Typed, MarksOnly
<1>4. Careful'
  BY <1>1, <1>3, CarefulStays DEF SafeInv
<1>5. QED
  BY <1>1, <1>3, <1>4, SafeNext DEF Sound

(* doRenameEntry(), before its answer: no text is lost.                    *)
LEMMA RenameSafe ==
  ASSUME TypeInv, TypeInv', SafeInv, NEW p \in Proc, NEW path \in Path, NEW to \in Path,
         Rename(p, path, to), UNCHANGED <<files, watcher, last>>
  PROVE  SafeInv'
<1>0. PICK r : r = [Command(Of("rename"), "rename") EXCEPT !.path = path, !.to = to]
  OBVIOUS
<1>1. Become(p, r) /\ UNCHANGED <<screen, owed>>
  BY <1>0 DEF Rename, Starts
<1>2. Simple(r)
  BY <1>0, SimpleIs DEF Kind, Cmd
<1>3. QED
  BY <1>1, <1>2, SimpleSafe

(* undoDelete(), before its answer: no text is lost.                       *)
LEMMA UndoSafe ==
  ASSUME TypeInv, TypeInv', SafeInv, NEW p \in Proc, NEW entry \in trash, Undo(p, entry),
         UNCHANGED <<files, watcher, last>>
  PROVE  SafeInv'
<1>0. PICK r : r = [Command(Of("undo"), "undo") EXCEPT !.path = entry[1], !.pick = entry[2]]
  OBVIOUS
<1>1. Become(p, r) /\ UNCHANGED <<screen, owed>>
  BY <1>0 DEF Undo, Starts
<1>2. Simple(r)
  BY <1>0, SimpleIs DEF Kind, Cmd
<1>3. QED
  BY <1>1, <1>2, SimpleSafe

(* openPath() and doCreateNote(), before their answers: no text is lost.   *)
LEMMA OpenPathSafe ==
  ASSUME TypeInv, TypeInv', SafeInv, NEW p \in Proc, NEW path \in Path,
         OpenPath(p, path) \/ Create(p, path), UNCHANGED <<files, watcher, last>>
  PROVE  SafeInv'
<1>1. CASE OpenPath(p, path)
  <2>0. PICK r : r = [Command(Of("open"), "read") EXCEPT !.path = path]
    OBVIOUS
  <2>1. Become(p, r) /\ UNCHANGED <<screen, owed>>
    BY <1>1, <2>0 DEF OpenPath
  <2>2. Simple(r)
    BY <2>0, SimpleIs DEF Kind, Cmd
  <2>3. QED
    BY <2>1, <2>2, SimpleSafe
<1>2. CASE Create(p, path)
  <2>0. PICK r : r = [Command(Of("create"), "create") EXCEPT !.path = path]
    OBVIOUS
  <2>1. Become(p, r) /\ UNCHANGED <<screen, owed>>
    BY <1>2, <2>0 DEF Create, Starts
  <2>2. Simple(r)
    BY <2>0, SimpleIs DEF Kind, Cmd
  <2>3. QED
    BY <2>1, <2>2, SimpleSafe
<1>3. QED
  BY <1>1, <1>2

(* A note's tabs are given up with it: they are saved, or the user says so. *)
LEMMA TrashIsGood ==
  ASSUME TypeInv', NEW o, NEW n \in Nat, NEW l \in Nat, o \in HandlerOf(n, l),
         o.kind = "delete", o.base \notin Loose', o.got \notin Loose',
         \A t \in o.todo \intersect items' : Live(t)' \notin Loose'
  PROVE  Good(Command(o, "trash"))'
<1>1. PICK r : r = Command(o, "trash")
  OBVIOUS
<1>2. /\ r.at = "call" /\ r.cmd = "trash" /\ r.kind = "delete" /\ r.todo = o.todo
      /\ r.base = o.base /\ r.got = o.got
  BY <1>1, CommandIs DEF Cmd
<1>3. Good(r)'
  BY <1>2 DEF Good
<1>4. QED
  BY <1>1, <1>3

(* doDeleteEntry(), before its answer: no text is lost.                    *)
LEMMA DeleteSafe ==
  ASSUME TypeInv, TypeInv', SafeInv, NEW p \in Proc, NEW path \in Path, Delete(p, path),
         UNCHANGED <<files, watcher, last>>
  PROVE  SafeInv'
<1>0. PICK q, o, dialog, r :
        /\ q = Of("delete") /\ o = [q EXCEPT !.path = path, !.todo = ByPath(path)]
        /\ dialog = [o EXCEPT !.at = "dialog"]
        /\ r = IF \E t \in ByPath(path) : tabs[t].dirty THEN dialog ELSE Command(o, "trash")
  OBVIOUS
<1>1. Become(p, r) /\ UNCHANGED <<screen, owed>>
  BY <1>0 DEF Delete, Starts
<1>2. q \in HandlerOf(Len(tabs), last) /\ q.kind = "delete" /\ q.cmd = "none"
      /\ q.base = 0 /\ q.got = 0
  BY <1>0, Typed, OfIs DEF Kind
<1>3. ByPath(path) \in SUBSET (1..Len(tabs)) /\ ByPath(path) \subseteq items
  BY Typed DEF ByPath
<1>4. PICK affected : affected = ByPath(path)
  OBVIOUS
<1>5. o = [q EXCEPT !.path = path, !.todo = affected]
  BY <1>0, <1>4
<1>6. o \in HandlerOf(Len(tabs), last) /\ o.kind = "delete" /\ o.cmd = "none"
      /\ o.base = 0 /\ o.got = 0 /\ o.todo = affected
  BY <1>2, <1>3, <1>4, <1>5 DEF HandlerOf
<1>7. Loose' \subseteq Loose /\ items' = items /\ \A t : Live(t)' = Live(t)
  BY <1>1, QuietLoose
<1>8. 0 \notin Loose'
  BY NoFileIsStored
<1>9. Good(r)'
  <2>1. CASE \E t \in affected : tabs[t].dirty
    <3>1. r = dialog
      BY <1>0, <1>4, <2>1
    <3>2. /\ r.at = "dialog" /\ r.kind = "delete" /\ r.cmd = "none" /\ r.base = 0 /\ r.got = 0
      BY <1>0, <1>6, <3>1, ZenonT(60) DEF HandlerOf
    <3>3. Unpledged(r) /\ r.base \notin Loose' /\ r.got \notin Loose'
      BY <1>8, <3>2 DEF Unpledged
    <3>4. QED
      BY <3>3, UnpledgedIsGood
  <2>2. CASE ~ \E t \in affected : tabs[t].dirty
    <3>1. r = Command(o, "trash")
      BY <1>0, <1>4, <2>2
    <3>2. \A t \in o.todo \intersect items' : Live(t)' \notin Loose'
      BY <1>3, <1>4, <1>6, <1>7, <2>2 DEF SafeInv, Clean
    <3>3. Good(Command(o, "trash"))'
      BY <1>6, <1>8, <3>2, Typed, TrashIsGood
    <3>4. QED
      BY <3>1, <3>3
  <2>3. QED
    BY <2>1, <2>2
<1>10. QED
  BY <1>1, <1>9, QuietSafe

(* doDeleteEntry(), confirmed or not: no text is lost.                     *)
LEMMA DeleteConfirmedSafe ==
  ASSUME TypeInv, TypeInv', SafeInv, NEW p \in Proc, NEW yes, DeleteConfirmed(p, yes),
         UNCHANGED <<files, watcher, last>>
  PROVE  SafeInv'
<1>0. PICK o, r : o = op[p] /\ r = IF yes THEN Command(o, "trash") ELSE Idle
  OBVIOUS
<1>1. /\ o.kind = "delete" /\ UNCHANGED screen /\ Become(p, r)
      /\ owed' = IF yes THEN owed \ {Live(t) : t \in o.todo} ELSE owed
  BY <1>0 DEF DeleteConfirmed
<1>2. o \in HandlerOf(Len(tabs), last) /\ Good(o)
  BY <1>0, Typed DEF SafeInv, Careful
<1>3. Loose' \subseteq Loose /\ items' = items /\ \A t : Live(t)' = Live(t)
  BY <1>1, QuietLoose
<1>4. Good(r)'
  <2>1. CASE yes
    <3>1. \A t \in o.todo \intersect items' : Live(t)' \notin Loose'
      BY <1>1, <1>3, <2>1 DEF Loose
    <3>2. o.base \notin Loose' /\ o.got \notin Loose'
      BY <1>2, <1>3 DEF Good
    <3>3. Good(Command(o, "trash"))'
      BY <1>1, <1>2, <3>1, <3>2, Typed, TrashIsGood
    <3>4. QED
      BY <1>0, <2>1, <3>3
  <2>2. CASE ~yes
    BY <1>0, <2>2, IdleIsGood
  <2>3. QED
    BY <2>1, <2>2
<1>5. QED
  BY <1>1, <1>4, QuietSafe

(* A change event, and the timer it sets: no text is lost.                 *)
LEMMA WatchSafe ==
  ASSUME TypeInv, TypeInv', SafeInv, NEW p \in Proc, NEW path \in Path, Watch(p, path),
         UNCHANGED <<files, last>>
  PROVE  SafeInv'
<1>1. UNCHANGED <<screen, owed>>
  BY DEF Watch
<1>2. CASE ByPath(path) = {}
  <2>1. op' = op /\ Loose' \subseteq Loose
    BY <1>1, <1>2, LooseStays DEF Watch, running
  <2>2. Carried /\ Sound'
    BY <1>1, <2>1, ScreenSame
  <2>3. Careful'
    BY <2>1, <2>2, CarefulStays DEF SafeInv
  <2>4. QED
    BY <1>1, <2>2, <2>3, SafeNext DEF Sound
<1>3. CASE ByPath(path) # {}
  <2>1. PICK t, r : t = TheTab(path) /\ r = Check(Of("watch"), t, tabs, Mine(t))
    OBVIOUS
  <2>2. Become(p, r)
    BY <1>3, <2>1 DEF Watch
  <2>3. t \in items /\ t \in 1..Len(tabs) /\ tabs[t].path = path
    BY <1>3, <2>1, Typed, TheTabIs
  <2>4. Of("watch") \in HandlerOf(Len(tabs), last) /\ Of("watch").kind = "watch"
    BY Typed, OfIs DEF Kind
  <2>5. Mine(t) \in 0..last /\ tabs[t].base \in 0..last /\ tabs[t].path \in Path \union {None}
    <3>1. Mine(t) \in 1..last /\ tabs[t].base \in 1..last
      BY <2>3, Typed, TabIs DEF Tabbed
    <3>2. QED
      BY <2>3, <3>1, Typed
  <2>6. Asking(r, Of("watch"), t, tabs, Mine(t), Len(tabs), last)
    BY <2>1, <2>3, <2>4, <2>5, Typed, CheckIs
  <2>7. r.base \notin Loose /\ r.got = 0 /\ Unpledged(r)
    BY <2>3, <2>4, <2>6 DEF Asking, Unpledged, SafeInv, Bases
  <2>8. QED
    BY <1>1, <2>2, <2>7, StartSafe
<1>4. QED
  BY <1>2, <1>3

(* doSaveAs(): the path is picked, or none: no text is lost.               *)
LEMMA PickSavePathSafe ==
  ASSUME TypeInv, TypeInv', SafeInv, NEW p \in Proc, NEW path \in Path \union {None},
         PickSavePath(p, path), UNCHANGED <<files, watcher, last>>
  PROVE  SafeInv'
<1>0. PICK o : o = op[p]
  OBVIOUS
<1>1. o.kind = "saveas" /\ o.at = "dialog" /\ UNCHANGED screen
  BY <1>0 DEF PickSavePath
<1>2. o \in HandlerOf(Len(tabs), last) /\ o.tab \in 1..Len(tabs)
  BY <1>0, <1>1, AboutTab, Typed
<1>3. CASE path = None
  <2>1. Become(p, Idle) /\ owed' = owed
    BY <1>3 DEF PickSavePath
  <2>2. QED
    BY <1>1, <2>1, IdleIsGood, QuietSafe
<1>4. CASE path # None
  <2>1. PICK kind \in SaveAsKind : Become(p, Write([o EXCEPT !.kind = kind], o.tab, path, editor))
    BY <1>0, <1>4 DEF PickSavePath
  <2>9. PICK q, r : q = [o EXCEPT !.kind = kind] /\ r = Write(q, o.tab, path, editor)
    OBVIOUS
  <2>10. q \in HandlerOf(Len(tabs), last) /\ q.kind \in SaveAsKind
    BY <1>2, <2>9 DEF HandlerOf, SaveAsKind, Kind
  <2>2. Become(p, r) /\ owed' = IF active # o.tab THEN owed \ {Live(o.tab)} ELSE owed
    BY <1>0, <1>4, <2>1, <2>9 DEF PickSavePath
  <2>3. editor \in 0..last
    BY Typed
  <2>4. Sending(r, q, o.tab, path, editor, Len(tabs), last)
    BY <1>2, <2>9, <2>10, <2>3, Typed, WriteIs
  <2>5. \A t : Live(t)' = Live(t)
    BY <1>1, <2>2, QuietLoose
  <2>6. Live(o.tab)' = editor \/ Live(o.tab)' \notin Loose'
    BY <2>2, <2>5 DEF Live, Loose
  <2>7. Good(r)'
    BY <1>1, <2>4, <2>6, <2>10, NoFileIsStored DEF Good, Sending, SaveAsKind
  <2>8. QED
    BY <1>1, <2>2, <2>7, QuietSafe
<1>5. QED
  BY <1>3, <1>4

(* undoDelete(), and restoreVersion() before it reads the note: no text is *)
(* lost.                                                                   *)
LEMMA UndoAnsweredSafe ==
  ASSUME TypeInv, TypeInv', SafeInv, NEW p \in Proc, UndoAnswered(p) \/ RestoreAnswered(p),
         UNCHANGED <<files, watcher, last>>
  PROVE  SafeInv'
<1>1. UNCHANGED <<screen, owed>>
  BY DEF UndoAnswered, RestoreAnswered
<1>2. CASE UndoAnswered(p)
  <2>1. Become(p, Idle)
    BY <1>2 DEF UndoAnswered
  <2>2. QED
    BY <1>1, <2>1, IdleIsGood, QuietSafe
<1>3. CASE RestoreAnswered(p)
  <2>1. PICK o, r : o = op[p] /\ r = Command(o, "read")
    OBVIOUS
  <2>2. Become(p, r) /\ o.cmd = "restore"
    BY <1>3, <2>1 DEF RestoreAnswered, Answered
  <2>3. o \in HandlerOf(Len(tabs), last) /\ Good(o) /\ o.kind \in {"restore", "version"}
    BY <2>1, <2>2, Typed DEF SafeInv, Careful, Shape, Fitting
  <2>4. /\ r.at = "call" /\ r.cmd = "read" /\ r.kind = o.kind /\ r.tab = o.tab
        /\ r.base = o.base /\ r.got = o.got
    BY <2>1, <2>3, Typed, CommandIs DEF Cmd
  <2>5. Loose' \subseteq Loose /\ items' = items /\ \A t : Live(t)' = Live(t)
    BY <1>1, QuietLoose
  <2>6. Good(r)'
    BY <2>2, <2>3, <2>4, <2>5 DEF Good
  <2>7. QED
    BY <1>1, <2>2, <2>6, QuietSafe
<1>4. QED
  BY <1>2, <1>3

(* saveTabsToDisk() goes on: the records that it writes hold what is shown. *)
LEMMA WrittenIsGood ==
  ASSUME TypeInv', NEW r, NEW pick, NEW list, NEW n, NEW l,
         Written(r, "bulk", pick, list, tabs', n, l),
         \A t \in list \intersect items' : Held(t)'
  PROVE  Good(r)'
<1>1. /\ r.at = "call" /\ r.cmd = "save" /\ r.kind = "bulk"
      /\ r.tab \in list /\ r.text = tabs'[r.tab].content
      /\ r.base = 0 /\ r.got = 0 /\ r.todo \subseteq list
  BY DEF Written
<1>2. PICK t : t = r.tab
  OBVIOUS
<1>3. t \in items' => Live(t)' = r.text \/ Live(t)' \notin Loose'
  BY <1>1, <1>2 DEF Held
<1>4. \A u \in r.todo \intersect items' : Held(u)'
  BY <1>1
<1>5. QED
  BY <1>1, <1>2, <1>3, <1>4, NoFileIsStored DEF Good

(* The rest of the list of a bulk save, from what its handler goes by.     *)
LEMMA RestIsGood ==
  ASSUME TypeInv', NEW ts, tabs' = ts, NEW o, NEW r, NEW n \in Nat, NEW l \in Nat,
         o.kind = "bulk", r = WriteEach(Of("bulk"), o.todo, ts),
         o.todo \in SUBSET (1..n),
         \A t \in 1..n : ts[t].path \in Path \union {None} /\ ts[t].content \in 1..l,
         \A t \in o.todo \intersect items' : Held(t)'
  PROVE  Good(r)'
<1>1. Of("bulk") \in HandlerOf(n, l) /\ Of("bulk").kind = "bulk"
  BY OfIs DEF Kind
<1>2. \A t \in o.todo : ts[t].path \in Path \union {None} /\ ts[t].content \in 0..l
  <2>1. \A t \in o.todo : ts[t].path \in Path \union {None} /\ ts[t].content \in 1..l
    OBVIOUS
  <2>2. QED
    BY <2>1
<1>3. r = Idle \/ Written(r, "bulk", Of("bulk").pick, o.todo, ts, n, l)
  BY <1>1, <1>2, WriteEachIs
<1>4. QED
  BY <1>3, IdleIsGood, WrittenIsGood

(* A command that failed: no text is lost.                                 *)
LEMMA FailedSafe ==
  ASSUME TypeInv, TypeInv', SafeInv, NEW p \in Proc, Failed(p), UNCHANGED <<files, watcher, last>>
  PROVE  SafeInv'
<1>0. PICK o, r : o = op[p] /\ r = IF o.kind = "bulk" THEN WriteEach(Of("bulk"), o.todo, tabs)
                                   ELSE Idle
  OBVIOUS
<1>1. o.at = "failed" /\ Become(p, r) /\ UNCHANGED <<screen, owed>> /\ tabs' = tabs
  BY <1>0 DEF Failed, screen
<1>2. o \in Handler /\ Good(o)
  BY <1>0, Typed DEF SafeInv, Careful
<1>3. items' = items /\ \A t : Held(t) => Held(t)'
  BY <1>1, QuietLoose
<1>4. Good(r)'
  <2>1. CASE o.kind = "bulk"
    <3>1. o.cmd = "save"
      BY <1>1, <1>2, <2>1 DEF Good
    <3>2. \A t \in o.todo \intersect items' : Held(t)'
      BY <1>2, <1>3, <2>1, <3>1 DEF Good
    <3>3. /\ o.todo \in SUBSET (1..Len(tabs))
          /\ \A t \in 1..Len(tabs) : tabs[t].path \in Path \union {None} /\ tabs[t].content \in 1..last
      BY <1>2, Typed DEF Handler, Tabbed
    <3>4. r = WriteEach(Of("bulk"), o.todo, tabs)
      BY <1>0, <2>1
    <3>5. QED
      BY <1>1, <2>1, <3>2, <3>3, <3>4, Typed, RestIsGood
  <2>2. CASE o.kind # "bulk"
    BY <1>0, <2>2, IdleIsGood
  <2>3. QED
    BY <2>1, <2>2
<1>5. QED
  BY <1>1, <1>4, QuietSafe

(* As many tabs as before.                                                 *)
LEMMA SameLength ==
  ASSUME TypeInv, TypeInv', DOMAIN tabs' = DOMAIN tabs
  PROVE  Len(tabs)' = Len(tabs)
<1>1. tabs \in Seq(TabState) /\ tabs' \in Seq(TabState')
  BY DEF TypeInv, Screen
<1>2. Len(tabs) \in Nat /\ Len(tabs)' \in Nat /\ 1..Len(tabs) = 1..Len(tabs)'
  BY <1>1, LenProperties
<1>3. QED
  BY <1>2

(* A remove event: no text is lost.                                        *)
LEMMA NoticeRemovalSafe ==
  ASSUME TypeInv, TypeInv', SafeInv, NEW path \in Path, NoticeRemoval(path), UNCHANGED <<files, last>>
  PROVE  SafeInv'
<1>0. PICK moved : moved = ByPath(path)
  OBVIOUS
<1>1. /\ UNCHANGED <<items, active, editor, owed>>
      /\ tabs' = [t \in DOMAIN tabs |->
                    IF t \in moved THEN [tabs[t] EXCEPT !.removed = TRUE, !.dirty = TRUE]
                    ELSE tabs[t]]
      /\ op' = op \/ op' = Outdate({path}, op)
  BY <1>0 DEF NoticeRemoval
<1>2. DOMAIN tabs = 1..Len(tabs) /\ \A t \in 1..Len(tabs) : tabs[t] \in TabState
  BY Typed, TabIs
<1>3. ASSUME NEW t \in 1..Len(tabs)
      PROVE  /\ tabs'[t].content = tabs[t].content /\ tabs'[t].base = tabs[t].base
             /\ ~tabs'[t].dirty => ~tabs[t].dirty
  BY <1>1, <1>2 DEF TabState
<1>4. Len(tabs)' = Len(tabs)
  BY <1>1, <1>2, SameLength
<1>5. Loose' \subseteq Loose
  BY <1>1, LooseStays
<1>6. Carried /\ Sound'
  BY <1>1, <1>3, <1>4, <1>5, MarksOnly
<1>7. Careful'
  BY <1>1, <1>6, CarefulStays, CarefulOutdating DEF SafeInv
<1>8. QED
  BY <1>1, <1>6, <1>7, SafeNext DEF Sound

(* doRenameEntry(): the tabs of the note follow it: no text is lost.       *)
LEMMA RenameAnsweredSafe ==
  ASSUME TypeInv, TypeInv', SafeInv, NEW p \in Proc, RenameAnswered(p),
         UNCHANGED <<files, watcher, last>>
  PROVE  SafeInv'
<1>0. PICK o, moved, paths :
        o = op[p] /\ moved = ByPath(o.path) /\ paths = IF moved = {} THEN {} ELSE {o.path}
  OBVIOUS
<1>1. /\ UNCHANGED <<items, active, editor, owed>> /\ calls' = calls
      /\ tabs' = [t \in DOMAIN tabs |->
                    IF t \in moved THEN [tabs[t] EXCEPT !.path = o.to, !.removed = FALSE]
                    ELSE tabs[t]]
      /\ op' = [IF moved = {} THEN op ELSE Outdate({o.path}, op) EXCEPT ![p] = Idle]
  BY <1>0 DEF RenameAnswered
<1>2. DOMAIN tabs = 1..Len(tabs) /\ \A t \in 1..Len(tabs) : tabs[t] \in TabState
  BY Typed, TabIs
<1>3. ASSUME NEW t \in 1..Len(tabs)
      PROVE  /\ tabs'[t].content = tabs[t].content /\ tabs'[t].base = tabs[t].base
             /\ ~tabs'[t].dirty => ~tabs[t].dirty
  BY <1>1, <1>2 DEF TabState
<1>4. Len(tabs)' = Len(tabs)
  BY <1>1, <1>2, SameLength
<1>5. Loose' \subseteq Loose
  BY <1>1, LooseStays
<1>6. Carried /\ Sound'
  BY <1>1, <1>3, <1>4, <1>5, MarksOnly
<1>7. Careful'
  <2>1. CASE moved = {}
    <3>1. op' = [op EXCEPT ![p] = Idle]
      BY <1>1, <2>1
    <3>2. Become(p, Idle)
      BY <1>1, <3>1 DEF Become, Idle
    <3>3. QED
      BY <1>6, <3>2, CarefulBecomes, IdleIsGood DEF SafeInv
  <2>2. CASE moved # {}
    <3>1. op' = [Outdate({o.path}, op) EXCEPT ![p] = Idle]
      BY <1>1, <2>2
    <3>2. QED
      BY <1>6, <3>1, CarefulOutdating DEF SafeInv
  <2>3. QED
    BY <2>1, <2>2
<1>8. QED
  BY <1>1, <1>6, <1>7, SafeNext DEF Sound

(* The answer to a check that the user typed into: no text is lost.        *)
LEMMA RetryCheckSafe ==
  ASSUME TypeInv, TypeInv', SafeInv, NEW p \in Proc, RetryCheck(p), UNCHANGED <<files, watcher, last>>
  PROVE  SafeInv'
<1>0. PICK o, t : o = op[p] /\ t = o.tab
  OBVIOUS
<1>1. PICK r : r = [Command(o, "check") EXCEPT !.base = tabs[t].base, !.text = Mine(t),
                                               !.got = NoFile, !.again = TRUE]
  OBVIOUS
<1>2. /\ o.cmd = "check" /\ o.at = "answer" /\ Become(p, r)
      /\ tabs' = IF t \in items THEN [tabs EXCEPT ![t].removed = FALSE] ELSE tabs
      /\ UNCHANGED <<items, active, editor, owed>>
  BY <1>0, <1>1 DEF RetryCheck, Answered
<1>3. /\ o \in HandlerOf(Len(tabs), last) /\ Shape(o, tabs)
      /\ o.kind \in {"watch", "bulk", "save", "restore"}
  BY <1>0, <1>2, Typed DEF Shape, Fitting
<1>4. t \in 1..Len(tabs)
  BY <1>0, <1>3, AboutTab
<1>5. DOMAIN tabs = 1..Len(tabs) /\ tabs[t] \in TabState /\ \A u \in 1..Len(tabs) : tabs[u] \in TabState
  BY <1>4, Typed, TabIs
<1>6. ASSUME NEW u \in 1..Len(tabs)
      PROVE  /\ tabs'[u].content = tabs[u].content /\ tabs'[u].base = tabs[u].base
             /\ ~tabs'[u].dirty => ~tabs[u].dirty
  BY <1>2, <1>5 DEF TabState
<1>7. Len(tabs)' = Len(tabs)
  BY <1>2, <1>5, SameLength
<1>8. Loose' \subseteq Loose
  BY <1>2, LooseStays
<1>9. Carried /\ Sound'
  BY <1>2, <1>6, <1>7, <1>8, MarksOnly
<1>10. Mine(t) \in 0..last /\ tabs[t].base \in 0..last
  BY <1>5, Typed DEF Mine, MineIn, TabState
<1>11. Retried(r, o, tabs[t].base, Mine(t), Len(tabs), last)
  BY <1>1, <1>2, <1>3, <1>10, Typed, RetryIs
<1>12. Unpledged(r) /\ r.base \notin Loose' /\ r.got \notin Loose'
  BY <1>4, <1>8, <1>11, NoFileIsStored DEF Retried, Unpledged, SafeInv, Bases
<1>13. Careful'
  BY <1>2, <1>9, <1>12, UnpledgedIsGood, CarefulBecomes DEF SafeInv
<1>14. QED
  BY <1>2, <1>9, <1>13, SafeNext DEF Sound

(* The answer to a write: no text is lost.                                 *)
LEMMA WriteAnsweredSafe ==
  ASSUME TypeInv, TypeInv', SafeInv, NEW p \in Proc, WriteAnswered(p), UNCHANGED <<files, watcher, last>>
  PROVE  SafeInv'
<1>1. PICK o, s, ts, r : WriteLeaves(p, o, s, ts, r)
  BY WriteAnsweredIs
<1>2. PICK t : t = o.tab
  OBVIOUS
<1>3. /\ o = op[p] /\ tabs' = ts /\ Become(p, r) /\ o.cmd = "save" /\ o.at = "answer"
      /\ t \in 1..Len(tabs) /\ \A u \in 1..Len(tabs) : ts[u] = IF u = t THEN s ELSE tabs[u]
      /\ UNCHANGED <<items, active>> /\ owed' \subseteq owed
      /\ editor' \in {editor, o.text}
      /\ editor' # editor /\ active \notin {0, t} => owed' = owed \ {editor}
  BY <1>1, <1>2 DEF WriteLeaves
<1>4. /\ s.content = IF o.kind = "bulk" THEN tabs[t].content ELSE o.text
      /\ s.base = IF t \notin items THEN tabs[t].base
                  ELSE IF o.kind = "bulk" THEN tabs[t].content ELSE o.text
      /\ s.dirty = IF t \in items THEN FALSE ELSE tabs[t].dirty
  BY <1>1, <1>2 DEF WriteLeaves, Recorded
<1>5. o \in Handler /\ Good(o)
  BY <1>3, Typed DEF SafeInv, Careful
<1>6. Loose' \subseteq Loose
  BY <1>3, LooseStays
<1>7. items \subseteq 1..Len(tabs) /\ (active # 0 => active \in 1..Len(tabs) /\ active \in items)
  BY Typed, TabIs
<1>8. o.text \notin Loose /\ (t \in items => Live(t) \notin Loose)
  BY <1>2, <1>3, <1>5 DEF Good
<1>9. \A u \in items : u # t =>
        /\ tabs'[u].content = tabs[u].content
        /\ \/ Live(u)' = Live(u)
           \/ Live(u) \notin Loose' /\ Live(u)' \notin Loose'
  <2>1. ASSUME NEW u \in items, u # t, Live(u)' # Live(u)
        PROVE  Live(u) \notin Loose' /\ Live(u)' \notin Loose'
    <3>1. u = active /\ Live(u)' = editor' /\ Live(u) = editor
      BY <1>3, <1>7, <2>1 DEF Live
    <3>2. active \notin {0, t} /\ editor' # editor
      BY <1>7, <2>1, <3>1
    <3>3. editor \notin Loose' /\ editor' = o.text
      BY <1>3, <3>2 DEF Loose
    <3>4. QED
      BY <1>6, <1>8, <3>1, <3>3
  <2>2. QED
    BY <1>3, <1>7, <2>1
<1>10. t \in items => tabs[t].content \notin Loose
  BY <1>7, <1>8 DEF SafeInv, Backed, Live
<1>11. /\ s.content \notin Loose \/ t \notin items
       /\ s.base \notin Loose
  BY <1>3, <1>4, <1>8, <1>10 DEF SafeInv, Bases
<1>12. t \in items => Live(t)' \notin Loose
  BY <1>3, <1>8, <1>11 DEF Live
<1>13. Carried
  <2>1. ASSUME NEW u \in items PROVE Steady(u) /\ (Held(u) => Held(u)')
    <3>1. CASE u = t
      BY <1>6, <1>8, <1>12, <3>1 DEF Steady, Held
    <3>2. CASE u # t
      BY <1>6, <1>9, <3>2 DEF Steady, Held
    <3>3. QED
      BY <3>1, <3>2
  <2>2. QED
    BY <1>3, <1>6, <2>1 DEF Carried
<1>14. Clean'
  <2>1. ASSUME NEW u \in items, ~tabs'[u].dirty PROVE Live(u)' \notin Loose'
    <3>1. CASE u = t
      BY <1>6, <1>12, <3>1
    <3>2. CASE u # t
      BY <1>3, <1>6, <1>7, <1>9, <2>1, <3>2 DEF SafeInv, Clean
    <3>3. QED
      BY <3>1, <3>2
  <2>2. QED
    BY <1>3, <2>1 DEF Clean
<1>15. Bases'
  <2>1. Len(tabs)' = Len(tabs)
    <3>1. DOMAIN tabs' = DOMAIN tabs
      BY <1>1, Typed, TabIs DEF WriteLeaves
    <3>2. QED
      BY <3>1, SameLength
  <2>2. QED
    BY <1>3, <1>6, <1>11, <2>1 DEF SafeInv, Bases
<1>16. Backed'
  <2>1. CASE active = t
    BY <1>3, <1>6, <1>7, <1>11, <2>1 DEF Backed
  <2>2. CASE active # t
    <3>1. editor' # editor /\ active # 0 => editor \notin Loose'
      BY <1>3, <2>2 DEF Loose
    <3>2. QED
      BY <1>3, <1>6, <1>7, <2>2, <3>1 DEF SafeInv, Backed
  <2>3. QED
    BY <2>1, <2>2
<1>17. Good(r)'
  <2>1. Onto(r, o, ts)
    BY <1>1 DEF WriteLeaves
  <2>2. CASE o.kind = "bulk"
    <3>1. r = WriteEach(Of("bulk"), o.todo, ts)
      BY <2>1, <2>2 DEF Onto
    <3>2. \A u \in o.todo \intersect items' : Held(u)'
      BY <1>3, <1>5, <1>13, <2>2 DEF Good, Carried
    <3>3. /\ o.todo \in SUBSET (1..Len(tabs))
          /\ \A u \in 1..Len(tabs) : ts[u].path \in Path \union {None} /\ ts[u].content \in 1..last
      BY <1>1, <1>5, Typed DEF Handler, WriteLeaves, TabState
    <3>4. QED
      BY <1>3, <2>2, <3>1, <3>2, <3>3, Typed, RestIsGood
  <2>3. CASE o.kind = "restore"
    <3>1. r = Command(o, "restore")
      BY <2>1, <2>3 DEF Onto
    <3>2. /\ r.at = "call" /\ r.cmd = "restore" /\ r.kind = "restore" /\ r.tab = o.tab
          /\ r.base = o.base /\ r.got = o.got
      BY <1>5, <2>3, <3>1, Typed, CommandIs DEF Cmd
    <3>3. QED
      BY <1>2, <1>3, <1>5, <1>6, <1>12, <3>2 DEF Good
  <2>4. CASE o.kind \notin {"bulk", "restore"}
    BY <2>1, <2>4, IdleIsGood DEF Onto
  <2>5. QED
    BY <2>2, <2>3, <2>4
<1>18. Careful'
  BY <1>3, <1>13, <1>17, CarefulBecomes DEF SafeInv
<1>19. QED
  BY <1>3, <1>13, <1>14, <1>15, <1>16, <1>18, SafeNext

(* restoreVersion(): the restored note goes into its tab: no text is lost. *)
LEMMA ReloadAnsweredSafe ==
  ASSUME TypeInv, TypeInv', SafeInv, NEW p \in Proc, ReloadAnswered(p), UNCHANGED <<files, watcher, last>>
  PROVE  SafeInv'
<1>0. PICK o, t : o = op[p] /\ t = TheTab(o.path)
  OBVIOUS
<1>1. /\ o.kind \in {"restore", "version"} /\ o.cmd = "read" /\ o.at = "answer"
      /\ Become(p, Idle) /\ UNCHANGED <<items, active, panel, ops>>
  BY <1>0 DEF ReloadAnswered, Answered
<1>2. o.got \notin Loose /\ (o.tab \in items => Live(o.tab) \notin Loose)
  <2>1. Good(o)
    BY <1>0 DEF SafeInv, Careful
  <2>2. o.kind = "version" => o.tab \notin items
    BY <1>0, Typed DEF Shape, Fitting
  <2>3. QED
    BY <1>1, <2>1, <2>2 DEF Good
<1>3. CASE ByPath(o.path) = {}
  <2>1. UNCHANGED <<screen, owed>>
    BY <1>0, <1>1, <1>3 DEF ReloadAnswered, screen
  <2>2. QED
    BY <1>1, <2>1, IdleIsGood, QuietSafe
<1>4. CASE ByPath(o.path) # {}
  <2>1. t \in items /\ t \in 1..Len(tabs)
    BY <1>0, <1>4, Typed, TheTabIs
  <2>2. /\ tabs' = [tabs EXCEPT ![t].content = o.got, ![t].base = o.got, ![t].dirty = FALSE]
        /\ editor' = IF t = active THEN o.got ELSE editor
        /\ owed' = IF t = o.tab \/ ~tabs[t].dirty THEN owed ELSE owed \ {Live(t)}
    BY <1>0, <1>4 DEF ReloadAnswered, LoadIfActive
  <2>3. owed' \subseteq owed
    BY <2>2
  <2>4. Loose' \subseteq Loose
    BY <2>3, LooseStays
  <2>5. DOMAIN tabs = 1..Len(tabs) /\ \A u \in 1..Len(tabs) : tabs[u] \in TabState
    BY Typed, TabIs
  <2>6. Len(tabs)' = Len(tabs)
    BY <2>2, <2>5, SameLength
  <2>7. Live(t) \notin Loose' /\ o.got \notin Loose'
    <3>1. o.got \notin Loose'
      BY <1>2, <2>4
    <3>2. CASE t = o.tab \/ ~tabs[t].dirty
      BY <1>2, <2>1, <2>4, <3>2 DEF SafeInv, Clean
    <3>3. CASE ~(t = o.tab \/ ~tabs[t].dirty)
      <4>1. owed' = owed \ {Live(t)}
        BY <2>2, <3>3
      <4>2. Live(t) \notin Loose'
        BY <4>1 DEF Loose
      <4>3. QED
        BY <3>1, <4>2
    <3>4. QED
      BY <3>1, <3>2, <3>3
  <2>8. /\ tabs'[t].content = o.got /\ tabs'[t].base = o.got
        /\ \A u \in 1..Len(tabs) : u # t => tabs'[u] = tabs[u]
    BY <2>1, <2>2, <2>5 DEF TabState
  <2>9. Carried /\ Sound'
    BY <1>1, <2>1, <2>2, <2>4, <2>6, <2>7, <2>8, Reread
  <2>10. Careful'
    BY <1>1, <2>9, IdleIsGood, CarefulBecomes DEF SafeInv
  <2>11. QED
    BY <2>3, <2>9, <2>10, SafeNext DEF Sound
<1>5. QED
  BY <1>3, <1>4

(* Nothing of the tab is read again, or its text is what was found.        *)
Resettled(s, o, t) ==
  \/ /\ Reloads(o) /\ Mine(t) = o.text /\ s.content = o.got
     /\ s.base \in {o.got, tabs[t].base}
  \/ /\ ~(Reloads(o) /\ Mine(t) = o.text)
     /\ s.content = tabs[t].content /\ s.base = tabs[t].base
     /\ s.dirty = FALSE => tabs[t].dirty = FALSE

(* What reconcile() makes of the tab is one of the two.                    *)
LEMMA ResettledIs ==
  ASSUME TypeInv, NEW o \in Handler, NEW t \in 1..Len(tabs), NEW s, s = Settled(t, o)
  PROVE  Resettled(s, o, t)
BY SettledIs DEF Resettled

(* What a handler goes on with after its check.                            *)
LEMMA OnwardIsGood ==
  ASSUME TypeInv', NEW o, NEW r, NEW kept, tabs' = kept, NEW n \in Nat, NEW l \in Nat,
         n = Len(tabs)', o \in HandlerOf(n, l), UNCHANGED <<items, active>>,
         Onward(r, o, kept, editor', n, l), o.kind \in {"watch", "bulk", "save", "restore"},
         o.base \notin Loose', o.got \notin Loose', Clean', Bases',
         \A u \in items : u # active \/ o.kind = "bulk" => Held(u)'
  PROVE  Good(r)'
<1>1. CASE r = Idle
  BY <1>1, IdleIsGood
<1>2. CASE o.kind = "bulk" /\ Checked(r, "bulk", o.pick, kept, n, l)
  <2>1. \A u \in 1..n : kept[u].base \notin Loose'
    BY DEF Bases
  <2>2. r.base \notin Loose' /\ r.got = 0 /\ Unpledged(r)
    BY <1>2, <2>1, CheckedIsGood
  <2>3. QED
    BY <2>2, NoFileIsStored, UnpledgedIsGood
<1>3. ASSUME NEW list \in SUBSET {u \in items \intersect o.seen : kept[u].path # None},
             o.kind = "bulk", Written(r, "bulk", o.pick, list, kept, n, l)
      PROVE  Good(r)'
  <2>1. \A u \in list \intersect items' : Held(u)'
    BY <1>3
  <2>2. QED
    BY <1>3, <2>1, WrittenIsGood
<1>4. CASE o.tab # active /\ Written(r, "bulk", 0, {o.tab}, kept, n, l)
  <2>1. \A u \in {o.tab} \intersect items' : Held(u)'
    BY <1>4
  <2>2. QED
    BY <1>4, <2>1, WrittenIsGood
<1>5. CASE Shown(r, o.kind, o.pick, editor', n, l)
  <2>1. /\ r.cmd = "save" /\ r.at = "call" /\ r.kind \in {"save", "restore"} /\ r.tab = active'
        /\ r.text = editor' /\ r.base = 0 /\ r.got = 0
    BY <1>5 DEF Shown
  <2>2. PICK t : t = r.tab
    OBVIOUS
  <2>3. Live(t)' = r.text
    BY <2>1, <2>2 DEF Live
  <2>4. QED
    BY <2>1, <2>2, <2>3, NoFileIsStored DEF Good
<1>6. CASE r = Command(o, "restore") /\ o.kind = "restore" /\ o.tab = active /\ ~kept[o.tab].dirty
  <2>1. /\ r.at = "call" /\ r.cmd = "restore" /\ r.kind = "restore" /\ r.tab = o.tab
        /\ r.base = o.base /\ r.got = o.got
    BY <1>6, CommandIs DEF Cmd
  <2>2. PICK t : t = r.tab
    OBVIOUS
  <2>3. t \in items' => Live(t)' \notin Loose'
    BY <1>6, <2>1, <2>2 DEF Clean
  <2>4. QED
    BY <2>1, <2>2, <2>3 DEF Good
<1>7. QED
  BY <1>1, <1>2, <1>3, <1>4, <1>5, <1>6 DEF Onward

(* The answer to a check: no text is lost.                                 *)
LEMMA CheckAnsweredSafe ==
  ASSUME TypeInv, TypeInv', SafeInv, NEW p \in Proc, CheckAnswered(p), UNCHANGED <<files, watcher, last>>
  PROVE  SafeInv'
<1>0. PICK o, t : o = op[p] /\ t = o.tab
  OBVIOUS
<1>1. PICK ts, text, kept, r :
        /\ ts = [tabs EXCEPT ![t] = Settled(t, o)]
        /\ text = IF Reloads(o) /\ Mine(t) = o.text /\ t = active THEN o.got ELSE editor
        /\ kept = Captured(o, ts, text) /\ r = AfterCheck(o, kept, text)
  OBVIOUS
<1>2. /\ o.cmd = "check" /\ o.at = "answer" /\ tabs' = kept /\ editor' = text /\ Become(p, r)
      /\ UNCHANGED <<items, active, owed>>
  BY <1>0, <1>1 DEF CheckAnswered, Answered
<1>3. o \in Handler /\ Good(o) /\ o.kind \in {"watch", "bulk", "save", "restore"}
  BY <1>0, <1>2, Typed DEF SafeInv, Careful, Shape, Fitting
<1>4. Leaving(o, ts, text, kept)
  <2>1. Checking(o, ts, text, kept)
    BY <1>0, <1>1 DEF Checking
  <2>2. QED
    BY <1>0, <1>2, <2>1, CheckLeaves
<1>5. PICK s : s = Settled(t, o)
  OBVIOUS
<1>6. /\ t \in 1..Len(tabs) /\ text \in Known
      /\ kept \in [1..Len(tabs) -> TabState]
      /\ \A u \in 1..Len(tabs) :
           LET was == IF u = t THEN s ELSE tabs[u] IN
           /\ kept[u].path = tabs[u].path /\ kept[u].base = was.base /\ kept[u].dirty = was.dirty
           /\ kept[u].content = IF o.kind = "bulk" /\ u = active THEN text ELSE was.content
  BY <1>0, <1>4, <1>5 DEF Leaving, Holding
<1>7. Resettled(s, o, t)
  BY <1>3, <1>5, <1>6, ResettledIs
<1>8. Loose' \subseteq Loose
  BY <1>2, LooseStays
<1>9. items \subseteq 1..Len(tabs) /\ (active # 0 => active \in 1..Len(tabs) /\ active \in items)
  BY Typed, TabIs
<1>10. o.base \notin Loose /\ o.got \notin Loose
  BY <1>3 DEF Good
<1>11. Len(tabs)' = Len(tabs)
  <2>1. DOMAIN tabs' = DOMAIN tabs
    BY <1>2, <1>6, Typed, TabIs
  <2>2. QED
    BY <2>1, SameLength
<1> DEFINE reload == Reloads(o) /\ Mine(t) = o.text
<1>12. reload /\ t \in items => Live(t) \notin Loose
  <2>1. reload => o.text \in {o.base, o.got}
    BY DEF Reloads
  <2>2. reload => Mine(t) \notin Loose
    BY <1>10, <2>1
  <2>3. t \in items /\ tabs[t].dirty => Mine(t) = Live(t)
    BY DEF Mine, MineIn, Live
  <2>4. t \in items /\ ~tabs[t].dirty => Live(t) \notin Loose
    BY DEF SafeInv, Clean
  <2>5. QED
    BY <2>2, <2>3, <2>4
<1>13. Carried /\ Sound'
  <2>1. CASE reload
    <3>1. s.content = o.got /\ s.base \in {o.got, tabs[t].base}
      BY <1>7, <2>1 DEF Resettled
    <3>2. editor' = IF t = active THEN o.got ELSE editor
      BY <1>1, <1>2, <2>1
    <3>3. tabs'[t].content = o.got /\ tabs'[t].base \in {o.got, tabs[t].base}
      BY <1>1, <1>2, <1>6, <2>1, <3>1
    <3>4. ASSUME NEW u \in 1..Len(tabs), u # t
          PROVE  /\ tabs'[u].content = tabs[u].content \/ (u = active /\ tabs'[u].content = editor)
                 /\ tabs'[u].base = tabs[u].base /\ tabs'[u].dirty = tabs[u].dirty
      BY <1>1, <1>2, <1>6, <3>4
    <3>5. o.got \notin Loose' /\ (t \in items => Live(t) \notin Loose')
      BY <1>8, <1>10, <1>12, <2>1
    <3>6. QED
      BY <1>2, <1>6, <1>8, <1>11, <3>2, <3>3, <3>4, <3>5, Reread
  <2>2. CASE ~reload
    <3>1. s.content = tabs[t].content /\ s.base = tabs[t].base /\ (s.dirty = FALSE => tabs[t].dirty = FALSE)
      BY <1>7, <2>2 DEF Resettled
    <3>2. editor' = editor
      BY <1>1, <1>2, <2>2
    <3>3. \A u \in 1..Len(tabs) :
            /\ tabs'[u].content = IF o.kind = "bulk" /\ u = active THEN editor ELSE tabs[u].content
            /\ tabs'[u].base = tabs[u].base
      BY <1>2, <1>6, <3>1, <3>2
    <3>4. \A u \in 1..Len(tabs) : ~tabs'[u].dirty => ~tabs[u].dirty
      <4>1. s \in TabState /\ \A u \in 1..Len(tabs) : tabs[u] \in TabState
        BY <1>3, <1>5, <1>6, Typed, TabIs, SettledIs
      <4>2. s.dirty \in BOOLEAN /\ tabs[t].dirty \in BOOLEAN
        BY <1>6, <4>1 DEF TabState
      <4>3. QED
        BY <1>2, <1>6, <3>1, <4>2
    <3>5. \A u \in items : Live(u)' = Live(u)
      BY <1>2, <1>9, <3>2, <3>3 DEF Live
    <3>6. ASSUME NEW u \in items PROVE Steady(u) /\ (Held(u) => Held(u)')
      <4>1. u \in 1..Len(tabs) /\ Live(u)' = Live(u) /\ Live(active) = editor
        BY <1>9, <3>5 DEF Live
      <4>2. QED
        BY <1>8, <3>3, <4>1 DEF Steady, Held
    <3>7. Carried
      BY <1>2, <1>8, <3>6 DEF Carried
    <3>8. Clean'
      BY <1>2, <1>8, <1>9, <3>4, <3>5 DEF SafeInv, Clean
    <3>9. Bases'
      BY <1>8, <1>11, <3>3 DEF SafeInv, Bases
    <3>10. Backed'
      BY <1>2, <1>8, <1>9, <3>2, <3>3 DEF SafeInv, Backed
    <3>11. QED
      BY <3>7, <3>8, <3>9, <3>10 DEF Sound
  <2>3. QED
    BY <2>1, <2>2
<1>14. ASSUME NEW u \in items, u # active \/ o.kind = "bulk" PROVE Held(u)'
  <2>1. CASE u # active
    BY <1>2, <2>1 DEF Held, Live
  <2>2. CASE u = active /\ o.kind = "bulk"
    <3>1. tabs'[u].content = editor'
      BY <1>2, <1>6, <1>9, <2>2
    <3>2. QED
      BY <1>2, <2>2, <3>1 DEF Held, Live
  <2>3. QED
    BY <1>14, <2>1, <2>2
<1>15. Good(r)'
  <2>1. /\ Len(tabs) \in Nat /\ last \in Nat /\ o \in HandlerOf(Len(tabs), last)
        /\ Tabbed(kept, Len(tabs), last) /\ text \in 1..last /\ items \subseteq 1..Len(tabs)
        /\ r = AfterCheck(o, kept, text)
    BY <1>1, <1>3, <1>6, Typed DEF Tabbed, TabState
  <2>2. Shape(o, kept)
    <3>1. Shape(o, tabs)
      BY <1>0, Typed
    <3>2. Grown
      BY <1>2, <1>6, <1>11, Typed DEF Grown
    <3>3. QED
      BY <1>2, <1>3, <3>1, <3>2, StillHandler
  <2>3. Onward(r, o, kept, text, Len(tabs), last)
    BY <1>2, <2>1, <2>2, AfterCheckIs
  <2>4. o.base \notin Loose' /\ o.got \notin Loose'
    BY <1>8, <1>10
  <2>5. PICK n, l : n = Len(tabs) /\ l = last
    OBVIOUS
  <2>6. n \in Nat /\ l \in Nat /\ n = Len(tabs)' /\ o \in HandlerOf(n, l)
        /\ Onward(r, o, kept, editor', n, l)
    BY <1>2, <1>11, <2>1, <2>3, <2>5
  <2>7. QED
    BY <1>2, <1>3, <1>13, <1>14, <2>4, <2>6, OnwardIsGood DEF Sound
<1>16. Careful'
  BY <1>2, <1>13, <1>15, CarefulBecomes DEF SafeInv
<1>17. QED
  BY <1>2, <1>13, <1>16, SafeNext DEF Sound

(* Another tab is shown: the outgoing text is kept in its record.          *)
LEMMA SwitchedSound ==
  ASSUME TypeInv, TypeInv', SafeInv, Loose' \subseteq Loose, UNCHANGED <<last, items>>,
         NEW t \in items, SetActive(t, tabs)
  PROVE  Carried /\ Sound'
<1>1. items \subseteq 1..Len(tabs) /\ Len(tabs) \in Tab /\ tabs \in Seq(TabState) /\ t \in 1..Len(tabs)
  BY Typed DEF Screen
<1>2. /\ Len(tabs') = Len(tabs) /\ active' = t
      /\ editor' = IF t = active THEN editor ELSE tabs'[t].content
      /\ \A u \in 1..Len(tabs) :
           /\ tabs'[u].base = tabs[u].base /\ tabs'[u].dirty = tabs[u].dirty
           /\ tabs'[u].content = IF u = active /\ u # t THEN editor ELSE tabs[u].content
  BY <1>1, Typed, SetActiveIs
<1>3. ASSUME NEW u \in items PROVE Live(u)' = Live(u) /\ (Held(u) => Held(u)')
  <2>1. Live(u)' = Live(u)
    BY <1>1, <1>2 DEF Live
  <2>2. Held(u) => Held(u)'
    BY <1>1, <1>2, <2>1 DEF Held, Live
  <2>3. QED
    BY <2>1, <2>2
<1>4. Carried
  BY <1>3 DEF Carried, Steady
<1>5. Clean'
  BY <1>1, <1>2, <1>3 DEF SafeInv, Clean
<1>6. Bases'
  BY <1>2 DEF SafeInv, Bases
<1>7. Backed'
  BY <1>1, <1>2 DEF SafeInv, Backed
<1>8. QED
  BY <1>4, <1>5, <1>6, <1>7 DEF Sound

(* A tab is added, with a text that is stored, or empty.                   *)
LEMMA AddedSound ==
  ASSUME TypeInv, TypeInv', SafeInv, Loose' \subseteq Loose, UNCHANGED last,
         NEW path \in Path \union {None}, NEW text \in Known, text \notin Loose,
         items' = items \union {Len(tabs) + 1}, Len(tabs') = Len(tabs) + 1,
         SetActive(Len(tabs) + 1, Append(tabs, NewTab(path, text)))
  PROVE  Carried /\ Sound'
<1>0. PICK t, tab, ts : t = Len(tabs) + 1 /\ tab = NewTab(path, text) /\ ts = Append(tabs, tab)
  OBVIOUS
<1>1. /\ tab \in TabState /\ tab.content = text /\ tab.base = text /\ tab.dirty = FALSE
      /\ Len(tabs) \in Nat /\ tabs \in Seq(TabState) /\ items \subseteq 1..Len(tabs)
  BY <1>0, Typed, NewTabIs, ZenonT(60) DEF Screen
<1>2. /\ ts \in Seq(TabState) /\ Len(ts) = t /\ t \notin 1..Len(tabs) /\ 1..Len(tabs) \subseteq 1..t
      /\ t \in 1..t /\ \A u \in 1..t : u = t \/ u \in 1..Len(tabs)
      /\ \A u \in 1..t : ts[u] = IF u = t THEN tab ELSE tabs[u]
  BY <1>0, <1>1, Appended
<1>3. active # t /\ (active # 0 => active \in 1..Len(tabs)) /\ Len(ts) \in Tab
  <2>1. active # 0 => active \in 1..Len(tabs)
    BY Typed, TabIs
  <2>2. t # 0
    BY <1>0, <1>1
  <2>3. t \in Tab
    BY <1>0 DEF TypeInv, Screen
  <2>4. QED
    BY <1>2, <2>1, <2>2, <2>3
<1>4. /\ active' = t /\ editor' = tabs'[t].content
      /\ \A u \in 1..t :
           /\ tabs'[u].base = ts[u].base /\ tabs'[u].dirty = ts[u].dirty
           /\ tabs'[u].content = IF u = active /\ u # t THEN editor ELSE ts[u].content
  <2>1. SetActive(t, ts) /\ items \subseteq 1..Len(ts) /\ t \in 1..Len(ts)
    BY <1>0, <1>1, <1>2
  <2>2. Screen /\ Rest /\ UNCHANGED last
    BY Typed
  <2>3. /\ active' = t /\ editor' = IF t = active THEN editor ELSE tabs'[t].content
        /\ \A u \in 1..Len(ts) :
             /\ tabs'[u].base = ts[u].base /\ tabs'[u].dirty = ts[u].dirty
             /\ tabs'[u].content = IF u = active /\ u # t THEN editor ELSE ts[u].content
    BY <1>2, <1>3, <2>1, <2>2, SetActiveIs
  <2>4. QED
    BY <1>2, <1>3, <2>3
<1>5. ASSUME NEW u \in items
      PROVE  u \in 1..Len(tabs) /\ Live(u)' = Live(u) /\ Held(u)' /\ tabs'[u].dirty = tabs[u].dirty
  <2>1. u \in 1..Len(tabs) /\ u # t /\ u \in 1..t
    BY <1>1, <1>2
  <2>2. tabs'[u].content = (IF u = active THEN editor ELSE tabs[u].content) /\ tabs'[u].dirty = tabs[u].dirty
    BY <1>2, <1>4, <2>1
  <2>3. Live(u)' = Live(u) /\ Live(u)' = tabs'[u].content
    BY <1>4, <2>1, <2>2 DEF Live
  <2>4. QED
    BY <2>1, <2>2, <2>3 DEF Held
<1>6. Live(t)' = text /\ tabs'[t].base = text /\ tabs'[t].content = text
  BY <1>1, <1>2, <1>3, <1>4 DEF Live
<1>7. Carried
  BY <1>0, <1>2, <1>5 DEF Carried, Steady
<1>8. Clean'
  BY <1>0, <1>5, <1>6 DEF SafeInv, Clean
<1>9. Bases'
  <2>1. \A u \in 1..Len(tabs) : tabs'[u].base = tabs[u].base
    BY <1>2, <1>4
  <2>2. QED
    BY <1>0, <1>2, <1>6, <2>1 DEF SafeInv, Bases
<1>10. Backed'
  BY <1>4 DEF Backed
<1>11. QED
  BY <1>7, <1>8, <1>9, <1>10 DEF Sound

(* openDocument() shows the tab that has the path, or a new one.           *)
LEMMA OpenedSound ==
  ASSUME TypeInv, TypeInv', SafeInv, Loose' \subseteq Loose, UNCHANGED last,
         NEW path \in Path \union {None}, NEW text \in Known, text \notin Loose,
         OpenDocument(path, text)
  PROVE  Carried /\ Sound'
<1>1. \/ /\ items' = items /\ \E t \in items : SetActive(t, tabs)
      \/ /\ items' = items \union {Len(tabs) + 1} /\ Len(tabs') = Len(tabs) + 1
         /\ SetActive(Len(tabs) + 1, Append(tabs, NewTab(path, text)))
  BY Typed, OpenDocumentIs
<1>2. QED
  BY <1>1, SwitchedSound, AddedSound

(* openDocument() at the end of a handler: no text is lost.                *)
LEMMA OpenedSafe ==
  ASSUME TypeInv, TypeInv', SafeInv, NEW p \in Proc, OpenAnswered(p) \/ CreateAnswered(p),
         UNCHANGED <<files, watcher, last>>
  PROVE  SafeInv'
<1>1. Become(p, Idle) /\ owed' = owed
  BY DEF OpenAnswered, CreateAnswered
<1>2. Loose' \subseteq Loose
  BY <1>1, LooseStays
<1>3. op[p].path \in Path \union {None}
  BY Typed DEF Handler
<1>4. PICK text \in Known : text \notin Loose /\ OpenDocument(op[p].path, text)
  <2>1. CASE OpenAnswered(p)
    <3>1. op[p].got \in 0..last /\ op[p].got # NoFile
      BY <2>1, Typed DEF OpenAnswered, Answered, Shape, Fitting, Handler
    <3>2. op[p].got \in Known
      BY <3>1, Typed DEF NoFile
    <3>3. op[p].got \notin Loose
      BY DEF SafeInv, Careful, Good
    <3>4. QED
      BY <2>1, <3>2, <3>3 DEF OpenAnswered
  <2>2. CASE CreateAnswered(p)
    <3>1. Empty \in Known
      BY Typed DEF Empty, Rest, Text
    <3>2. Empty \notin Loose
      BY DEF SafeInv, Loose
    <3>3. QED
      BY <2>2, <3>1, <3>2 DEF CreateAnswered
  <2>3. QED
    BY <2>1, <2>2
<1>5. Carried /\ Sound'
  BY <1>2, <1>3, <1>4, OpenedSound
<1>6. Careful'
  BY <1>1, <1>5, IdleIsGood, CarefulBecomes DEF SafeInv
<1>7. QED
  BY <1>1, <1>5, <1>6, SafeNext DEF Sound

(* doNew(), and a tab that is clicked: no text is lost.                    *)
LEMMA NewSafe ==
  ASSUME TypeInv, TypeInv', SafeInv, New \/ (\E t \in items : Switch(t)),
         UNCHANGED <<files, watcher, last>>
  PROVE  SafeInv'
<1>1. op' = op /\ owed' = owed
  BY DEF New, Switch, running
<1>2. Loose' \subseteq Loose
  BY <1>1, LooseStays
<1>3. Carried /\ Sound'
  <2>1. CASE New
    <3>1. Empty \in Known /\ Empty \notin Loose /\ None \in Path \union {None}
      BY Typed DEF Empty, Rest, Text, SafeInv, Loose
    <3>2. OpenDocument(None, Empty)
      BY <2>1 DEF New
    <3>3. QED
      BY <1>2, <3>1, <3>2, OpenedSound
  <2>2. ASSUME NEW t \in items, Switch(t) PROVE Carried /\ Sound'
    <3>1. SetActive(t, tabs) /\ items' = items
      BY <2>2 DEF Switch
    <3>2. QED
      BY <1>2, <3>1, SwitchedSound
  <2>3. QED
    BY <2>1, <2>2
<1>4. Careful'
  BY <1>1, <1>3, CarefulStays DEF SafeInv
<1>5. QED
  BY <1>1, <1>3, <1>4, SafeNext DEF Sound

(* Tabs are closed whose texts are stored, or were given up.               *)
LEMMA ClosedSound ==
  ASSUME TypeInv, TypeInv', SafeInv, Loose' \subseteq Loose, UNCHANGED <<last, tabs>>, NEW gone,
         CloseTabs(gone), \A t \in items \intersect gone : Live(t) \notin Loose'
  PROVE  Carried /\ Sound'
<1>1. /\ items' = items \ gone
      /\ editor' = IF active' \in {active, 0} THEN editor ELSE tabs[active'].content
  BY Typed, CloseTabsIs
<1>2. active \in items' => active' = active
  BY DEF CloseTabs
<1>3. items \subseteq 1..Len(tabs) /\ 0 \notin 1..Len(tabs)
  BY Typed
<1>4. active' \in items' \union {0}
  BY DEF TypeInv, Screen
<1>5. ASSUME NEW u \in items' PROVE u \in items /\ Live(u)' = Live(u) /\ (Held(u) => Held(u)')
  <2>1. u \in items /\ u # 0
    BY <1>1, <1>3
  <2>2. Live(u)' = Live(u)
    BY <1>1, <1>2, <2>1 DEF Live
  <2>3. QED
    BY <2>1, <2>2 DEF Held
<1>6. Carried
  BY <1>1, <1>5 DEF Carried, Steady
<1>7. Clean'
  BY <1>5 DEF SafeInv, Clean
<1>8. Bases'
  BY DEF SafeInv, Bases
<1>9. Backed'
  BY <1>1, <1>4 DEF SafeInv, Backed
<1>10. QED
  BY <1>6, <1>7, <1>8, <1>9 DEF Sound

(* Closing a tab, the last of them too, which leaves an empty draft.       *)
LEMMA CloseTabSound ==
  ASSUME TypeInv, TypeInv', SafeInv, Loose' \subseteq Loose, UNCHANGED last, NEW t, CloseTab(t),
         t \in items => Live(t) \notin Loose'
  PROVE  Carried /\ Sound'
<1>1. CASE CloseTabs({t}) /\ UNCHANGED tabs
  BY <1>1, ClosedSound
<1>2. CASE /\ Len(tabs') = Len(tabs) + 1 /\ items' = {Len(tabs) + 1} /\ active' = Len(tabs) + 1
           /\ tabs' = Append(tabs, NewTab(None, Empty)) /\ editor' = Empty
           /\ items \subseteq {t}
  <2>0. PICK u, tab : u = Len(tabs) + 1 /\ tab = NewTab(None, Empty)
    OBVIOUS
  <2>1. Empty \in Known /\ Empty \notin Loose' /\ None \in Path \union {None}
    BY Typed DEF Empty, Rest, Text, SafeInv, Loose
  <2>2. tab \in TabState /\ tab.content = Empty /\ tab.base = Empty
    BY <2>0, <2>1, Typed, NewTabIs
  <2>3. /\ Len(tabs) \in Nat /\ u \notin 1..Len(tabs)
        /\ \A v \in 1..u : v = u \/ v \in 1..Len(tabs)
        /\ \A v \in 1..u : tabs'[v] = IF v = u THEN tab ELSE tabs[v]
        /\ u \in 1..u /\ items \subseteq 1..Len(tabs)
    BY <1>2, <2>0, <2>2, Typed, Appended DEF Screen
  <2>4. Live(u)' = Empty /\ items' = {u} /\ tabs'[u] = tab
    BY <1>2, <2>0, <2>3 DEF Live
  <2>5. Carried
    BY <1>2, <2>3, <2>4 DEF Carried
  <2>6. Clean'
    BY <2>1, <2>4 DEF Clean
  <2>7. Bases'
    BY <1>2, <2>0, <2>1, <2>2, <2>3 DEF SafeInv, Bases
  <2>8. Backed'
    BY <1>2, <2>0, <2>2, <2>4 DEF Backed
  <2>9. QED
    BY <2>5, <2>6, <2>7, <2>8 DEF Sound
<1>3. QED
  BY <1>1, <1>2, CloseTabIs

(* onCloseRequest(), before its dialog: no text is lost.                   *)
LEMMA CloseSafe ==
  ASSUME TypeInv, TypeInv', SafeInv, NEW p \in Proc, NEW t, Close(p, t), UNCHANGED <<files, watcher, last>>
  PROVE  SafeInv'
<1>1. t \in items /\ owed' = owed
  BY DEF Close
<1>2. CASE tabs[t].dirty
  <2>0. PICK r : r = [Of("close") EXCEPT !.at = "dialog", !.tab = t]
    OBVIOUS
  <2>1. Become(p, r) /\ UNCHANGED screen
    BY <1>2, <2>0 DEF Close, Starts
  <2>2. Simple(r)
    BY <2>0, SimpleIs DEF Kind, Cmd
  <2>3. QED
    BY <1>1, <2>1, <2>2, SimpleSafe
<1>3. CASE ~tabs[t].dirty
  <2>1. CloseTab(t) /\ op' = op
    BY <1>3 DEF Close, running
  <2>2. Loose' \subseteq Loose
    BY <1>1, LooseStays
  <2>3. Live(t) \notin Loose'
    BY <1>1, <1>3, <2>2 DEF SafeInv, Clean
  <2>4. Carried /\ Sound'
    BY <2>1, <2>2, <2>3, CloseTabSound
  <2>5. Careful'
    BY <2>1, <2>4, CarefulStays DEF SafeInv
  <2>6. QED
    BY <1>1, <2>4, <2>5, SafeNext DEF Sound
<1>4. QED
  BY <1>2, <1>3

(* onCloseRequest(), answered: no text is lost.                            *)
LEMMA CloseConfirmedSafe ==
  ASSUME TypeInv, TypeInv', SafeInv, NEW p \in Proc, NEW yes, CloseConfirmed(p, yes),
         UNCHANGED <<files, watcher, last>>
  PROVE  SafeInv'
<1>0. PICK t : t = op[p].tab
  OBVIOUS
<1>1. Become(p, Idle) /\ owed' \subseteq owed
      /\ \/ CloseTab(t) /\ owed' = owed \ {Live(t)}
         \/ UNCHANGED screen
  BY <1>0 DEF CloseConfirmed
<1>2. Loose' \subseteq Loose
  BY <1>1, LooseStays
<1>3. Carried /\ Sound'
  <2>1. CASE CloseTab(t) /\ owed' = owed \ {Live(t)}
    <3>1. Live(t) \notin Loose'
      BY <2>1 DEF Loose
    <3>2. QED
      BY <1>2, <2>1, <3>1, CloseTabSound
  <2>2. CASE UNCHANGED screen
    BY <1>2, <2>2, ScreenSame
  <2>3. QED
    BY <1>1, <2>1, <2>2
<1>4. Careful'
  BY <1>1, <1>3, IdleIsGood, CarefulBecomes DEF SafeInv
<1>5. QED
  BY <1>1, <1>3, <1>4, SafeNext DEF Sound

(* doDeleteEntry(): the note is in the trash, its tabs close: no text is   *)
(* lost.                                                                   *)
LEMMA DeleteAnsweredSafe ==
  ASSUME TypeInv, TypeInv', SafeInv, NEW p \in Proc, DeleteAnswered(p), UNCHANGED <<files, watcher, last>>
  PROVE  SafeInv'
<1>0. PICK o, paths : o = op[p] /\ paths = {tabs[t].path : t \in o.todo}
  OBVIOUS
<1>1. /\ o.cmd = "trash" /\ CloseTabs(o.todo) /\ UNCHANGED <<tabs, owed>>
      /\ op' = [Outdate(paths, op) EXCEPT ![p] = Idle]
  BY <1>0 DEF DeleteAnswered, Answered
<1>2. Loose' \subseteq Loose
  BY <1>1, LooseStays
<1>3. \A t \in items \intersect o.todo : Live(t) \notin Loose'
  BY <1>0, <1>1, <1>2 DEF SafeInv, Careful, Good
<1>4. Carried /\ Sound'
  BY <1>1, <1>2, <1>3, ClosedSound
<1>5. Careful'
  BY <1>1, <1>4, CarefulOutdating DEF SafeInv
<1>6. QED
  BY <1>1, <1>4, <1>5, SafeNext DEF Sound

(* What a keystroke does: the text that was on screen is replaced, and the *)
(* new one is owed unless a handler's waiver covers the tab.               *)
Keyed ==
  /\ items' = items /\ active' = active /\ op' = op /\ editor' = last + 1
  /\ Len(tabs)' = Len(tabs)
  /\ \A t \in 1..Len(tabs) :
       /\ tabs'[t].content = tabs[t].content /\ tabs'[t].base = tabs[t].base
       /\ tabs'[t].dirty = (tabs[t].dirty \/ t = active)
  /\ \A x \in 0..last : x \notin Loose => x \notin Loose'
  /\ Loose' \subseteq Loose \union {last + 1}
  /\ active # 0 => editor \notin Loose'
  /\ active # 0 /\ Late(active) => last + 1 \notin Loose'
  /\ active = 0 => Loose' = Loose

(* Typing is such a step.                                                  *)
LEMMA TypeIs ==
  ASSUME TypeInv, TypeInv', Type, UNCHANGED files
  PROVE  Keyed
<1>1. /\ last' = last + 1 /\ editor' = last + 1 /\ items' = items /\ active' = active
      /\ op' = op
  BY DEF Type, running
<1>2. last \in Nat /\ editor \in 1..last /\ owed \subseteq 1..last
  BY Typed DEF Rest, Screen, Text, Known
<1>3. Stored' = Stored
  BY DEF Stored, files
<1>4. DOMAIN tabs = 1..Len(tabs) /\ \A t \in 1..Len(tabs) : tabs[t] \in TabState
  BY Typed, TabIs
<1>5. CASE active = 0
  <2>1. tabs' = tabs /\ owed' = owed
    BY <1>5 DEF Type
  <2>2. Loose' = Loose /\ Len(tabs)' = Len(tabs)
    BY <1>3, <2>1 DEF Loose
  <2>3. \A t \in 1..Len(tabs) : t # active /\ tabs[t].dirty \in BOOLEAN
    BY <1>4, <1>5 DEF TabState
  <2>4. QED
    BY <1>1, <1>5, <2>1, <2>2, <2>3 DEF Keyed
<1>6. CASE active # 0
  <2>1. /\ tabs' = [tabs EXCEPT ![active].dirty = TRUE]
        /\ owed' = (owed \ {editor}) \union (IF Late(active) THEN {} ELSE {last + 1})
    BY <1>1, <1>6 DEF Type
  <2>2. active \in 1..Len(tabs)
    BY <1>6, Typed, TabIs
  <2>3. Len(tabs)' = Len(tabs)
    BY <2>1, SameLength
  <2>4. ASSUME NEW t \in 1..Len(tabs)
        PROVE  /\ tabs'[t].content = tabs[t].content /\ tabs'[t].base = tabs[t].base
               /\ tabs'[t].dirty = (tabs[t].dirty \/ t = active)
    <3>1. CASE t = active
      BY <1>4, <2>1, <2>2, <3>1 DEF TabState
    <3>2. CASE t # active
      BY <1>4, <2>1, <2>2, <3>2 DEF TabState
    <3>3. QED
      BY <3>1, <3>2
  <2>5. ASSUME NEW x \in 0..last, x \notin Loose PROVE x \notin Loose'
    BY <1>2, <1>3, <2>1, <2>5 DEF Loose
  <2>6. Loose' \subseteq Loose \union {last + 1} /\ editor \notin Loose'
    BY <1>2, <1>3, <2>1 DEF Loose
  <2>7. Late(active) => last + 1 \notin Loose'
    BY <1>2, <2>1 DEF Loose
  <2>8. QED
    BY <1>1, <1>6, <2>3, <2>4, <2>5, <2>6, <2>7 DEF Keyed
<1>7. QED
  BY <1>5, <1>6

(* What a handler goes by is older than the keystroke, unless the waiver   *)
(* covers its tab.                                                         *)
LEMMA KeyedIsGood ==
  ASSUME TypeInv, TypeInv', Keyed, NEW p \in Proc, NEW o, o = op[p], Good(o)
  PROVE  Good(o)'
<1>0. PICK a : a = active
  OBVIOUS
<1>1. /\ o \in Handler /\ last \in Nat /\ Len(tabs) \in Nat /\ items \subseteq 1..Len(tabs)
      /\ editor \in 1..last /\ (active # 0 => active \in items)
  BY Typed DEF Known, Screen
<1>2. o.base \in 0..last /\ o.got \in 0..last /\ o.text \in 0..last /\ o.todo \subseteq 1..Len(tabs)
  BY <1>1 DEF Handler
<1>3. o.base \notin Loose' /\ o.got \notin Loose' /\ (o.text \notin Loose => o.text \notin Loose')
  BY <1>2 DEF Keyed, Good
<1>4. \A t \in items : t # active => Live(t)' = Live(t) /\ Live(t) \in 0..last /\ Held(t)'
  <2>1. \A t \in items : t # active => tabs[t].content \in 0..last
    BY <1>1, Typed DEF Tabbed
  <2>2. QED
    BY <1>1, <2>1 DEF Keyed, Live, Held
<1>5. ASSUME NEW t \in items PROVE Live(t) \notin Loose /\ t # active => Live(t)' \notin Loose'
  BY <1>4 DEF Keyed
<1>6. /\ o.cmd = "save" /\ active \in {o.tab} \union o.todo => Late(active)
      /\ o.kind = "restore" /\ o.cmd \in {"restore", "read"} /\ active = o.tab => Late(active)
      /\ o.cmd = "trash" /\ active \in o.todo => Late(active)
  BY DEF Late
<1>7. a \in items /\ Late(a) => Live(a)' \notin Loose'
  <2>1. a \in items => a # 0
    BY <1>1
  <2>2. QED
    BY <1>0, <2>1 DEF Keyed, Live
<1>8. items' = items
  BY DEF Keyed
<1>9. o.cmd = "save" /\ o.tab \in items => Live(o.tab)' = o.text \/ Live(o.tab)' \notin Loose'
  <2>1. ASSUME o.cmd = "save", o.tab \in items, o.tab # a
        PROVE  Live(o.tab)' = o.text \/ Live(o.tab)' \notin Loose'
    <3>1. Live(o.tab) = o.text \/ Live(o.tab) \notin Loose
      BY <2>1 DEF Good
    <3>2. QED
      BY <1>4, <1>5, <1>0, <2>1, <3>1
  <2>2. QED
    BY <1>6, <1>0, <1>7, <2>1
<1>10. o.cmd = "save" /\ o.kind = "bulk" => \A t \in o.todo \intersect items : Held(t)'
  <2>1. a \in items /\ Late(a) => Held(a)'
    BY <1>7 DEF Held
  <2>2. QED
    BY <1>4, <1>6, <1>0, <2>1
<1>11. o.kind = "restore" /\ o.cmd \in {"restore", "read"} /\ o.tab \in items =>
         Live(o.tab)' \notin Loose'
  BY <1>5, <1>6, <1>0, <1>7 DEF Good
<1>12. o.cmd = "trash" => \A t \in o.todo \intersect items : Live(t)' \notin Loose'
  BY <1>5, <1>6, <1>0, <1>7 DEF Good
<1>13. o.cmd = "save" /\ o.at = "answer" => o.text \notin Loose'
  BY <1>3 DEF Good
<1>14. (o.kind = "bulk" => o.cmd \in {"check", "save"}) /\ (o.at = "failed" => o.cmd # "check")
  BY DEF Good
<1>15. QED
  BY <1>3, <1>8, <1>9, <1>10, <1>11, <1>12, <1>13, <1>14 DEF Good

(* A keystroke: no text is lost.                                           *)
LEMMA TypeSafe ==
  ASSUME TypeInv, TypeInv', SafeInv, Type, UNCHANGED <<files, watcher>>
  PROVE  SafeInv'
<1>1. Keyed
  BY TypeIs
<1>2. /\ last \in Nat /\ Len(tabs) \in Nat /\ items \subseteq 1..Len(tabs) /\ editor \in 1..last
      /\ (active # 0 => active \in items) /\ (active = 0 => items = {}) /\ 0 \notin items
  BY Typed DEF Known, Screen
<1>3. \A t \in 1..Len(tabs) : tabs[t].content \in 0..last /\ tabs[t].base \in 0..last
  BY Typed DEF Tabbed
<1>4. \A t \in items : t # active => Live(t)' = Live(t) /\ Live(t) \in 0..last
  BY <1>1, <1>2, <1>3 DEF Keyed, Live
<1>5. \A t : t = active /\ active # 0 => Live(t) = editor /\ Live(t)' = last + 1
  BY <1>1 DEF Keyed, Live
<1>6. Empty \notin owed'
  <2>1. owed' \subseteq owed \union {last + 1} /\ last \in 1..MaxText
    BY Typed DEF Type, Rest, Text
  <2>2. Empty \notin owed /\ Empty = 1
    BY DEF SafeInv, Empty
  <2>3. QED
    BY <1>2, <2>1, <2>2
<1>7. Kept'
  <2>1. ASSUME NEW x \in Loose' PROVE \E t \in items : x = Live(t)'
    <3>1. CASE active = 0
      BY <1>1, <1>2, <2>1, <3>1 DEF Keyed, SafeInv, Kept
    <3>2. CASE active # 0 /\ x = last + 1
      BY <1>2, <1>5, <3>2
    <3>3. CASE active # 0 /\ x # last + 1
      <4>1. x \in Loose /\ x # editor
        BY <1>1, <2>1, <3>3 DEF Keyed
      <4>2. PICK t \in items : x = Live(t)
        BY <4>1 DEF SafeInv, Kept
      <4>3. t # active
        BY <1>5, <3>3, <4>1, <4>2
      <4>4. QED
        BY <1>4, <4>2, <4>3
    <3>4. QED
      BY <3>1, <3>2, <3>3
  <2>2. items' = items
    BY <1>1 DEF Keyed
  <2>3. QED
    BY <2>1, <2>2 DEF Kept
<1>8. Clean'
  <2>1. ASSUME NEW t \in items, ~tabs'[t].dirty PROVE Live(t)' \notin Loose'
    <3>1. t # active /\ ~tabs[t].dirty
      BY <1>1, <1>2, <2>1 DEF Keyed
    <3>2. Live(t) \notin Loose
      BY <3>1 DEF SafeInv, Clean
    <3>3. QED
      BY <1>1, <1>4, <3>1, <3>2 DEF Keyed
  <2>2. items' = items
    BY <1>1 DEF Keyed
  <2>3. QED
    BY <2>1, <2>2 DEF Clean
<1>9. Bases'
  <2>1. \A t \in 1..Len(tabs) : tabs'[t].base = tabs[t].base /\ tabs[t].base \notin Loose
    BY <1>1 DEF Keyed, SafeInv, Bases
  <2>2. \A t \in 1..Len(tabs) : tabs'[t].base \notin Loose'
    BY <1>1, <1>3, <2>1 DEF Keyed
  <2>3. Len(tabs)' = Len(tabs)
    BY <1>1 DEF Keyed
  <2>4. QED
    BY <2>2, <2>3 DEF Bases
<1>10. Backed'
  <2>1. ASSUME active # 0 PROVE tabs'[active].content \notin Loose'
    <3>1. active \in 1..Len(tabs)
      BY <1>2, <2>1
    <3>2. tabs'[active].content = tabs[active].content
      BY <1>1, <3>1 DEF Keyed
    <3>3. tabs[active].content = editor \/ tabs[active].content \notin Loose
      BY <2>1 DEF SafeInv, Backed
    <3>4. QED
      BY <1>1, <1>3, <2>1, <3>1, <3>2, <3>3 DEF Keyed
  <2>2. active' = active
    BY <1>1 DEF Keyed
  <2>3. QED
    BY <2>1, <2>2 DEF Backed
<1>11. Careful'
  <2>1. ASSUME NEW p \in Proc PROVE Good(op[p])'
    <3>1. PICK o : o = op[p]
      OBVIOUS
    <3>2. Good(o) /\ o = op'[p]
      BY <1>1, <3>1 DEF SafeInv, Careful, Keyed
    <3>3. Good(o)'
      BY <1>1, <3>1, <3>2, KeyedIsGood
    <3>4. QED
      BY <3>2, <3>3
  <2>2. QED
    BY <2>1 DEF Careful
<1>12. QED
  BY <1>6, <1>7, <1>8, <1>9, <1>10, <1>11 DEF SafeInv

(* A text that some note, version or trashed note holds is held still.     *)
LEMMA StoredStays ==
  ASSUME TypeInv,
         \A q \in Path : disk[q] \in Stored' \union {0},
         \A q \in Path : versions[q] \subseteq Stored',
         \A entry \in trash : entry[2] \in Stored'
  PROVE  \A x \in owed : x \in Stored => x \in Stored'
<1>1. \A x \in owed : x # 0
  BY Typed DEF Rest
<1>2. PICK after : after = Stored'
  OBVIOUS
<1>3. ASSUME NEW x \in owed, x \in Stored PROVE x \in after
  <2>1. CASE x \in {disk[p] : p \in Path}
    BY <1>1, <1>2, <2>1
  <2>2. CASE x \in UNION {versions[p] : p \in Path}
    BY <1>2, <2>2
  <2>3. CASE x \in {entry[2] : entry \in trash}
    BY <1>2, <2>3
  <2>4. QED
    BY <1>3, <2>1, <2>2, <2>3 DEF Stored
<1>4. QED
  BY <1>2, <1>3

(* Where the texts are after a step of the backend.                        *)
LEMMA StoredThere ==
  /\ \A q \in Path : disk'[q] \in Stored' /\ versions'[q] \subseteq Stored'
  /\ \A entry \in trash' : entry[2] \in Stored'
<1>1. \A q \in Path : disk'[q] \in {disk'[p] : p \in Path}
  OBVIOUS
<1>2. \A q \in Path : versions'[q] \subseteq UNION {versions'[p] : p \in Path}
  OBVIOUS
<1>3. \A e \in trash' : e[2] \in {entry[2] : entry \in trash'}
  OBVIOUS
<1>4. Stored' = {disk'[p] : p \in Path} \union (UNION {versions'[p] : p \in Path})
                \union {entry[2] : entry \in trash'}
  BY DEF Stored
<1>5. QED
  BY <1>1, <1>2, <1>3, <1>4

(* A command has been run, and no text was lost in it.                     *)
LEMMA RanSafe ==
  ASSUME TypeInv, TypeInv', SafeInv, NEW p, Ran(p), NEW ok \in BOOLEAN, NEW got, Done(p, ok, got),
         NEW o, o = op[p], \A x \in owed : x \in Stored => x \in Stored',
         got \notin Loose', o.cmd = "check" => ok, o.cmd = "save" /\ ok => o.text \notin Loose'
  PROVE  SafeInv'
<1>1. p \in Proc /\ UNCHANGED screen /\ owed' = owed
  BY DEF Ran
<1>2. Loose' \subseteq Loose
  BY <1>1, LooseIs
<1>3. Carried /\ Sound'
  BY <1>1, <1>2, ScreenSame
<1>4. o \in Handler /\ Good(o)
  BY <1>1, Typed DEF SafeInv, Careful
<1>5. Good(o)'
  BY <1>3, <1>4, GoodStays
<1>6. PICK r : r = [o EXCEPT !.at = IF ok THEN "answer" ELSE "failed", !.got = got]
  OBVIOUS
<1>7. /\ r.kind = o.kind /\ r.cmd = o.cmd /\ r.tab = o.tab /\ r.text = o.text /\ r.base = o.base
      /\ r.todo = o.todo /\ r.got = got /\ r.at = IF ok THEN "answer" ELSE "failed"
  BY <1>4, <1>6 DEF Handler
<1>8. Good(r)'
  BY <1>5, <1>7 DEF Good
<1>9. op' = [op EXCEPT ![p] = r] /\ op \in [Proc -> Handler]
  BY <1>6, Typed DEF Done, Handlers
<1>10. ASSUME NEW q \in Proc PROVE Good(op[q])'
  <2>1. PICK s : s = op'[q]
    OBVIOUS
  <2>2. Good(s)'
    <3>1. CASE q = p
      BY <1>1, <1>8, <1>9, <2>1, <3>1
    <3>2. CASE q # p
      <4>1. s = op[q] /\ s \in Handler /\ Good(s)
        BY <1>9, <2>1, <3>2 DEF SafeInv, Careful
      <4>2. QED
        BY <1>3, <4>1, GoodStays
    <3>3. QED
      BY <3>1, <3>2
  <2>3. QED
    BY <2>1, <2>2
<1>11. Careful'
  BY <1>10 DEF Careful
<1>12. QED
  BY <1>1, <1>3, <1>11, SafeNext DEF Sound

(* The eight commands keep every text: what a write replaces is captured   *)
(* first, what a rename or a removal takes away is put elsewhere.          *)
LEMMA BackendSafe ==
  ASSUME TypeInv, TypeInv', SafeInv, Backend
  PROVE  SafeInv'
<1>1. PICK p, o : p = Head(calls) /\ o = op[p]
  OBVIOUS
<1>2. /\ calls # <<>> /\ UNCHANGED <<screen, last, ops, owed>>
      /\ \/ ReadNote(p) \/ SaveFile(p) \/ RestoreSnapshot(p) \/ CreateNote(p)
         \/ RenameEntry(p) \/ MoveToTrash(p) \/ RestoreFromTrash(p) \/ Refuse(p)
  BY <1>1 DEF Backend
<1>3. Ran(p)
  BY <1>1, <1>2, HeadRuns
<1>4. /\ o \in Handler /\ o.path \in Path
      /\ o.cmd = "save" => o.text \in Known
      /\ o.cmd = "restore" => o.pick \in Known
      /\ o.cmd = "undo" => o.pick \in Known
      /\ o.cmd = "rename" => o.to \in Path
  BY <1>1, <1>3, CalledIs
<1>5. /\ disk \in [Path -> Known \union {0}] /\ versions \in [Path -> SUBSET Known]
      /\ trash \subseteq Path \X Known /\ 0 \notin Known
  BY Typed DEF Files, NoFile
<1>6. 0 \notin Loose'
  BY NoFileIsStored
<1>7. \A x : x \in Stored' => x \notin Loose'
  BY DEF Loose
<1>8. /\ \A q \in Path : disk'[q] \in Stored' /\ versions'[q] \subseteq Stored'
      /\ \A entry \in trash' : entry[2] \in Stored'
  BY StoredThere
<1>9. ASSUME ReadNote(p) PROVE SafeInv'
  <2>1. /\ Done(p, o.cmd = "check" \/ disk[o.path] # NoFile, disk[o.path])
        /\ o.cmd \in {"check", "read"} /\ disk' = disk /\ versions' = versions /\ trash' = trash
    BY <1>1, <1>9 DEF ReadNote, files
  <2>2. PICK ok \in BOOLEAN : ok = (o.cmd = "check" \/ disk[o.path] # NoFile)
    OBVIOUS
  <2>3. Done(p, ok, disk[o.path]) /\ (o.cmd = "check" => ok) /\ o.cmd # "save"
    BY <2>1, <2>2
  <2>4. \A x \in owed : x \in Stored => x \in Stored'
    BY <1>8, <2>1, StoredStays
  <2>5. disk[o.path] \notin Loose'
    BY <1>4, <1>7, <1>8, <2>1
  <2>6. QED
    BY <1>1, <1>3, <2>3, <2>4, <2>5, RanSafe
<1>10. ASSUME SaveFile(p) PROVE SafeInv'
  <2>1. /\ o.cmd = "save" /\ Done(p, TRUE, 0)
        /\ disk' = [disk EXCEPT ![o.path] = o.text]
        /\ versions' = [versions EXCEPT ![o.path] = @ \union (Found(o.path) \union {o.text})]
        /\ trash' = trash
    BY <1>1, <1>10 DEF SaveFile, Keep, NoFile
  <2>2. versions'[o.path] = versions[o.path] \union (Found(o.path) \union {o.text})
    BY <1>4, <1>5, <2>1
  <2>3. \A q \in Path : versions[q] \subseteq versions'[q]
    BY <1>4, <1>5, <2>1
  <2>4. disk[o.path] \in Found(o.path) \union {0}
    BY DEF Found, NoFile
  <2>5. \A q \in Path : disk[q] \in Stored' \union {0}
    BY <1>4, <1>5, <1>8, <2>1, <2>2, <2>4
  <2>6. \A x \in owed : x \in Stored => x \in Stored'
    BY <1>8, <2>1, <2>3, <2>5, StoredStays
  <2>7. o.text \notin Loose'
    BY <1>4, <1>7, <1>8, <2>2
  <2>8. QED
    BY <1>1, <1>3, <1>6, <2>1, <2>6, <2>7, RanSafe
<1>11. ASSUME RestoreSnapshot(p) PROVE SafeInv'
  <2>1. /\ o.cmd = "restore" /\ Done(p, TRUE, 0)
        /\ disk' = [disk EXCEPT ![o.path] = o.pick]
        /\ versions' = [versions EXCEPT ![o.path] = @ \union Found(o.path)]
        /\ trash' = trash
    BY <1>1, <1>11 DEF RestoreSnapshot, Keep, NoFile
  <2>2. versions'[o.path] = versions[o.path] \union Found(o.path)
    BY <1>4, <1>5, <2>1
  <2>3. \A q \in Path : versions[q] \subseteq versions'[q]
    BY <1>4, <1>5, <2>1
  <2>4. disk[o.path] \in Found(o.path) \union {0}
    BY DEF Found, NoFile
  <2>5. \A q \in Path : disk[q] \in Stored' \union {0}
    BY <1>4, <1>5, <1>8, <2>1, <2>2, <2>4
  <2>6. \A x \in owed : x \in Stored => x \in Stored'
    BY <1>8, <2>1, <2>3, <2>5, StoredStays
  <2>7. QED
    BY <1>1, <1>3, <1>6, <2>1, <2>6, RanSafe
<1>12. ASSUME CreateNote(p) PROVE SafeInv'
  <2>1. /\ o.cmd = "create" /\ Done(p, TRUE, 0) /\ disk[o.path] = 0
        /\ disk' = [disk EXCEPT ![o.path] = Empty] /\ versions' = versions /\ trash' = trash
    BY <1>1, <1>12 DEF CreateNote, NoFile
  <2>2. \A q \in Path : disk[q] \in Stored' \union {0}
    BY <1>4, <1>5, <1>8, <2>1
  <2>3. \A x \in owed : x \in Stored => x \in Stored'
    BY <1>8, <2>1, <2>2, StoredStays
  <2>4. QED
    BY <1>1, <1>3, <1>6, <2>1, <2>3, RanSafe
<1>13. ASSUME RenameEntry(p) PROVE SafeInv'
  <2>1. /\ o.cmd = "rename" /\ Done(p, TRUE, 0) /\ disk[o.path] # 0 /\ disk[o.to] = 0
        /\ disk' = [disk EXCEPT ![o.to] = disk[o.path], ![o.path] = 0]
        /\ versions' = [versions EXCEPT ![o.to] = @ \union versions[o.path], ![o.path] = {}]
        /\ trash' = trash
    BY <1>1, <1>13 DEF RenameEntry, NoFile
  <2>2. o.to \in Path /\ o.to # o.path
    BY <1>4, <2>1
  <2>3. /\ disk'[o.to] = disk[o.path]
        /\ \A q \in Path : q \notin {o.path, o.to} => disk'[q] = disk[q]
    BY <1>4, <1>5, <2>1, <2>2
  <2>4. /\ versions'[o.to] = versions[o.to] \union versions[o.path]
        /\ \A q \in Path : q \notin {o.path, o.to} => versions'[q] = versions[q]
    BY <1>4, <1>5, <2>1, <2>2
  <2>5. \A q \in Path : disk[q] \in Stored' \union {0}
    BY <1>8, <2>1, <2>2, <2>3
  <2>6. \A q \in Path : versions[q] \subseteq Stored'
    BY <1>8, <2>2, <2>4
  <2>7. \A x \in owed : x \in Stored => x \in Stored'
    BY <1>8, <2>1, <2>5, <2>6, StoredStays
  <2>8. QED
    BY <1>1, <1>3, <1>6, <2>1, <2>7, RanSafe
<1>14. ASSUME MoveToTrash(p) PROVE SafeInv'
  <2>1. /\ o.cmd = "trash" /\ Done(p, TRUE, 0)
        /\ disk' = [disk EXCEPT ![o.path] = 0] /\ versions' = versions
        /\ trash' = trash \union {<<o.path, disk[o.path]>>}
    BY <1>1, <1>14 DEF MoveToTrash, NoFile
  <2>2. <<o.path, disk[o.path]>>[2] = disk[o.path]
    OBVIOUS
  <2>3. disk[o.path] \in Stored'
    BY <1>8, <2>1, <2>2
  <2>4. \A q \in Path : disk[q] \in Stored' \union {0}
    BY <1>4, <1>5, <1>8, <2>1, <2>3
  <2>5. \A x \in owed : x \in Stored => x \in Stored'
    BY <1>8, <2>1, <2>4, StoredStays
  <2>6. QED
    BY <1>1, <1>3, <1>6, <2>1, <2>5, RanSafe
<1>15. ASSUME RestoreFromTrash(p) PROVE SafeInv'
  <2>1. /\ o.cmd = "undo" /\ Done(p, TRUE, 0) /\ disk[o.path] = 0
        /\ disk' = [disk EXCEPT ![o.path] = o.pick] /\ versions' = versions
        /\ trash' = trash \ {<<o.path, o.pick>>}
    BY <1>1, <1>15 DEF RestoreFromTrash, NoFile
  <2>2. disk'[o.path] = o.pick /\ \A q \in Path : q # o.path => disk'[q] = disk[q]
    BY <1>4, <1>5, <2>1
  <2>3. \A q \in Path : disk[q] \in Stored' \union {0}
    BY <1>8, <2>1, <2>2
  <2>4. \A entry \in trash : entry[2] \in Stored'
    <3>1. \A entry \in trash : entry = <<o.path, o.pick>> \/ entry \in trash'
      BY <2>1
    <3>2. <<o.path, o.pick>>[2] \in Stored'
      BY <1>4, <1>8, <2>2
    <3>3. QED
      BY <1>8, <3>1, <3>2
  <2>5. \A x \in owed : x \in Stored => x \in Stored'
    BY <1>8, <2>1, <2>3, <2>4, StoredStays
  <2>6. QED
    BY <1>1, <1>3, <1>6, <2>1, <2>5, RanSafe
<1>16. ASSUME Refuse(p) PROVE SafeInv'
  <2>1. /\ o.cmd \in {"save", "restore", "create", "rename", "trash", "undo"}
        /\ Done(p, FALSE, 0) /\ disk' = disk /\ trash' = trash
        /\ \/ versions' = [versions EXCEPT ![o.path] = @ \union Found(o.path)]
           \/ versions' = versions
    BY <1>1, <1>16 DEF Refuse, Keep, NoFile
  <2>2. \A q \in Path : versions[q] \subseteq versions'[q]
    BY <1>4, <1>5, <2>1
  <2>3. \A q \in Path : disk[q] \in Stored' /\ versions[q] \subseteq Stored'
    BY <1>8, <2>1, <2>2
  <2>4. \A x \in owed : x \in Stored => x \in Stored'
    BY <1>8, <2>1, <2>3, StoredStays
  <2>5. o.cmd # "check"
    BY <2>1
  <2>6. QED
    BY <1>1, <1>3, <1>6, <2>1, <2>4, <2>5, RanSafe
<1>17. QED
  BY <1>2, <1>9, <1>10, <1>11, <1>12, <1>13, <1>14, <1>15, <1>16

(* One tab that shows an empty note or none, and nothing is owed yet.      *)
LEMMA InitSafe ==
  ASSUME Init
  PROVE  SafeInv
<1>1. /\ owed = {} /\ items = {1} /\ active = 1 /\ editor = 1
      /\ op = [p \in Proc |-> Idle]
  BY DEF Init, Empty
<1>2. Loose = {}
  BY <1>1 DEF Loose
<1>3. \A o : o = Idle => Good(o)
  BY <1>2 DEF Good, Idle
<1>4. Careful
  BY <1>1, <1>3 DEF Careful
<1>5. QED
  BY <1>1, <1>2, <1>4 DEF SafeInv, Kept, Clean, Bases, Backed

(* A handler that the user, a timer or an event starts.                    *)
LEMMA StartsSafe ==
  ASSUME TypeInv, TypeInv', SafeInv, NEW p \in Proc, Start(p), UNCHANGED <<files, watcher, last>>
  PROVE  SafeInv'
<1>1. ASSUME Save(p) \/ SaveAll(p) \/ SaveAs(p) PROVE SafeInv'
  BY <1>1, SaveSafe, SaveAllSafe, SaveAsSafe
<1>2. ASSUME NEW path \in Path, Delete(p, path) \/ OpenPath(p, path) \/ Create(p, path)
      PROVE  SafeInv'
  BY <1>2, DeleteSafe, OpenPathSafe
<1>3. ASSUME NEW path \in Path, NEW to \in Path, Rename(p, path, to) PROVE SafeInv'
  BY <1>3, RenameSafe
<1>4. ASSUME NEW entry \in trash, Undo(p, entry) PROVE SafeInv'
  BY <1>4, UndoSafe
<1>5. ASSUME NEW text \in Text, RestoreVersion(p, text) PROVE SafeInv'
  BY <1>5, RestoreVersionSafe
<1>6. ASSUME NEW t \in items, Close(p, t) PROVE SafeInv'
  BY <1>6, CloseSafe
<1>7. QED
  BY <1>1, <1>2, <1>3, <1>4, <1>5, <1>6 DEF Start

(* A handler whose answer, the backend's or the user's, has come.          *)
LEMMA ContinuesSafe ==
  ASSUME TypeInv, TypeInv', SafeInv, NEW p \in Proc, Continue(p), UNCHANGED <<files, watcher, last>>
  PROVE  SafeInv'
<1>1. ASSUME RetryCheck(p) \/ CheckAnswered(p) \/ WriteAnswered(p) \/ Failed(p) PROVE SafeInv'
  BY <1>1, RetryCheckSafe, CheckAnsweredSafe, WriteAnsweredSafe, FailedSafe
<1>2. ASSUME RenameAnswered(p) \/ DeleteAnswered(p) \/ UndoAnswered(p) \/ RestoreAnswered(p)
      PROVE  SafeInv'
  BY <1>2, RenameAnsweredSafe, DeleteAnsweredSafe, UndoAnsweredSafe
<1>3. ASSUME ReloadAnswered(p) \/ OpenAnswered(p) \/ CreateAnswered(p) PROVE SafeInv'
  BY <1>3, ReloadAnsweredSafe, OpenedSafe
<1>4. ASSUME NEW path \in Path \union {None}, PickSavePath(p, path) PROVE SafeInv'
  BY <1>4, PickSavePathSafe
<1>5. ASSUME NEW yes \in BOOLEAN,
             DeleteConfirmed(p, yes) \/ RestoreConfirmed(p, yes) \/ CloseConfirmed(p, yes)
      PROVE  SafeInv'
  BY <1>5, DeleteConfirmedSafe, RestoreConfirmedSafe, CloseConfirmedSafe
<1>6. QED
  BY <1>1, <1>2, <1>3, <1>4, <1>5 DEF Continue

(* No step of anyone loses a text.                                         *)
LEMMA StepSafe ==
  ASSUME TypeInv, SafeInv, [Next]_vars
  PROVE  SafeInv'
<1>0. TypeInv'
  BY NextTypes
<1>1. ASSUME Backend PROVE SafeInv'
  BY <1>0, <1>1, BackendSafe
<1>2. ASSUME NEW p \in Proc, Start(p) \/ Continue(p), UNCHANGED <<files, watcher, last>>
      PROVE  SafeInv'
  BY <1>0, <1>2, StartsSafe, ContinuesSafe
<1>3. ASSUME New \/ RefreshHistory \/ (\E t \in items : Switch(t)),
             UNCHANGED <<files, watcher, last>>
      PROVE  SafeInv'
  BY <1>0, <1>3, NewSafe, RefreshHistorySafe
<1>4. ASSUME NEW p \in Proc, NEW path \in Path, Watch(p, path), UNCHANGED <<files, last>>
      PROVE  SafeInv'
  BY <1>0, <1>4, WatchSafe
<1>5. ASSUME NEW path \in Path, NoticeRemoval(path), UNCHANGED <<files, last>> PROVE SafeInv'
  BY <1>0, <1>5, NoticeRemovalSafe
<1>6. ASSUME Type, UNCHANGED <<files, watcher>> PROVE SafeInv'
  BY <1>0, <1>6, TypeSafe
<1>7. ASSUME UNCHANGED vars PROVE SafeInv'
  <2>1. UNCHANGED <<files, screen>> /\ op' = op /\ owed' = owed
    BY <1>7 DEF vars, running
  <2>2. Loose' \subseteq Loose
    BY <2>1, LooseStays
  <2>3. Carried /\ Sound'
    BY <2>1, <2>2, ScreenSame
  <2>4. Careful'
    BY <1>0, <2>1, <2>3, CarefulStays DEF SafeInv
  <2>5. QED
    BY <1>0, <2>1, <2>3, <2>4, SafeNext DEF Sound
<1>8. QED
  BY <1>1, <1>2, <1>3, <1>4, <1>5, <1>6, <1>7 DEF Next

(* No text that the user typed and did not give up is lost, in whatever    *)
(* order the handlers of several tabs are answered: it is in an open tab,  *)
(* in a note, in a note's version history or in the trash, but for what    *)
(* Late waives and the texts that a converting Save As or a restoration    *)
(* replaces (README).                                                      *)
THEOREM NothingTypedIsLost == Spec => []TypedIsKept
<1>1. Init => TypeInv /\ SafeInv
  BY InitTypes, InitSafe
<1>2. TypeInv /\ SafeInv /\ [Next]_vars => (TypeInv /\ SafeInv)'
  BY NextTypes, StepSafe
<1>3. SafeInv => TypedIsKept
  <2>1. ASSUME SafeInv PROVE owed \subseteq {Live(t) : t \in items} \union Stored
    BY <2>1 DEF SafeInv, Kept, Loose
  <2>2. QED
    BY <2>1 DEF TypedIsKept, Stored
<1>4. QED
  BY <1>1, <1>2, <1>3, PTL DEF Spec

-----------------------------------------------------------------------------
(* A check under way that asks about the tab as it is: its answer will be, *)
(* or is, what the note holds now.                                         *)
Asks(o, t, tab, there) ==
  /\ o.cmd = "check" /\ ~o.outdated /\ o.tab = t
  /\ o.path = tab.path /\ o.base = tab.base /\ o.text = tab.base
  /\ o.at = "call" \/ (o.at = "answer" /\ o.got = there)

(* The tab's base is its note, or word of another text is under way.       *)
Heard(t) ==
  \/ disk[tabs[t].path] = tabs[t].base
  \/ tabs[t].path \in changes \union removals
  \/ \E q \in Proc : Asks(op[q], t, tabs[t], disk[tabs[t].path])
Faithful(t) ==
  ~tabs[t].dirty => tabs[t].base = Live(t) /\ (tabs[t].path # None => Heard(t))

(* The text of the tab on screen that a bulk save took is in its record.   *)
Sent(o) ==
  o.cmd = "save" /\ o.kind = "bulk" /\ o.tab = active /\ active \notin strayed
    /\ o.text = editor => tabs[active].content = editor

Alone ==
  \A t, u \in items :
    t # u /\ tabs[t].path # None /\ tabs[t].path = tabs[u].path => t \in strayed
Trusted == \A t \in items \ strayed : Faithful(t)
Taken == \A q \in Proc : Sent(op[q])
TrueInv == Alone /\ Trusted /\ Taken

(* The handlers' steps, as the invariant sees them: a check that asks about*)
(* the tab t goes on asking.                                               *)
Asked(t) ==
  \A q \in Proc : Asks(op[q], t, tabs[t], disk[tabs[t].path]) =>
                  Asks(op'[q], t, tabs[t], disk[tabs[t].path])

(* A handler's write is as it was, or takes the record of its tab.         *)
Alike(r, o) == r.cmd = o.cmd /\ r.kind = o.kind /\ r.tab = o.tab /\ r.text = o.text
Fresh(r, ts) == r.cmd = "save" /\ r.kind = "bulk" => r.text = ts[r.tab].content
Passed == \A q \in Proc : Alike(op'[q], op[q]) \/ Fresh(op'[q], tabs')

(* A tab that nothing is done to.                                          *)
Left(t) ==
  /\ tabs'[t].path = tabs[t].path /\ tabs'[t].base = tabs[t].base
  /\ ~tabs'[t].dirty => ~tabs[t].dirty
  /\ Live(t)' = Live(t)

(* Its note does not change unheard.                                       *)
Told(t) ==
  LET path == tabs[t].path
  IN \/ path = None
     \/ disk'[path] = tabs[t].base
     \/ path \in changes' \union removals'
     \/ path \notin changes \union removals /\ disk'[path] = disk[path] /\ Asked(t)

(* Such a tab is what its note is for the same reason as before.           *)
LEMMA FaithfulStays ==
  ASSUME NEW t, Faithful(t), Left(t), Told(t)
  PROVE  Faithful(t)'
<1> SUFFICES ASSUME ~tabs'[t].dirty
             PROVE  tabs'[t].base = Live(t)' /\ (tabs'[t].path # None => Heard(t)')
  BY DEF Faithful
<1>1. ~tabs[t].dirty /\ tabs[t].base = Live(t) /\ (tabs[t].path # None => Heard(t))
  BY DEF Faithful, Left
<1>2. tabs'[t].base = Live(t)'
  BY <1>1 DEF Left
<1>3. PICK path, base, there : path = tabs[t].path /\ base = tabs[t].base /\ there = disk[path]
  OBVIOUS
<1>4. tabs'[t].path = path /\ tabs'[t].base = base
  BY <1>3 DEF Left
<1>5. CASE path \in changes' \union removals'
  BY <1>2, <1>4, <1>5 DEF Heard
<1>6. CASE /\ path # None /\ path \notin changes \union removals /\ disk'[path] = there /\ Asked(t)
  <2>1. there = base \/ \E q \in Proc : Asks(op[q], t, tabs[t], there)
    BY <1>1, <1>3, <1>6 DEF Heard
  <2>2. CASE there = base
    BY <1>2, <1>4, <1>6, <2>2 DEF Heard
  <2>3. ASSUME NEW q \in Proc, Asks(op[q], t, tabs[t], there) PROVE Heard(t)'
    <3>1. Asks(op'[q], t, tabs[t], there)
      BY <1>3, <1>6, <2>3 DEF Asked
    <3>2. Asks(op'[q], t, tabs'[t], disk'[tabs'[t].path])
      BY <1>3, <1>4, <1>6, <3>1 DEF Asks
    <3>3. QED
      BY <3>2 DEF Heard
  <2>4. QED
    BY <1>2, <2>1, <2>2, <2>3
<1>7. CASE path = None
  BY <1>2, <1>4, <1>7
<1>8. CASE disk'[path] = base
  BY <1>2, <1>4, <1>8 DEF Heard
<1>9. QED
  BY <1>3, <1>5, <1>6, <1>7, <1>8 DEF Told

(* No tab is given a path.                                                 *)
LEMMA AloneStays ==
  ASSUME Alone, items' \subseteq items, strayed \subseteq strayed',
         \A t \in items' : tabs'[t].path = tabs[t].path
  PROVE  Alone'
BY DEF Alone

(* The text on screen is in its tab's record, or both are as they were, or *)
(* the tab has strayed.                                                    *)
LEMMA TakenStays ==
  ASSUME TypeInv', Taken,
         \/ active' = 0
         \/ active' \in strayed'
         \/ tabs'[active'].content = editor'
         \/ /\ active' = active /\ editor' = editor /\ strayed \subseteq strayed'
            /\ tabs'[active].content = tabs[active].content,
         Passed
  PROVE  Taken'
<1>1. ASSUME NEW q \in Proc PROVE Sent(op[q])'
  <2>1. SUFFICES ASSUME /\ op'[q].cmd = "save" /\ op'[q].kind = "bulk" /\ op'[q].tab = active'
                        /\ active' \notin strayed' /\ op'[q].text = editor'
                 PROVE  tabs'[active'].content = editor'
    BY DEF Sent
  <2>2. op'[q].tab # 0
    BY <2>1 DEF TypeInv, Handlers, Shape, Noted
  <2>3. CASE Fresh(op'[q], tabs')
    BY <2>1, <2>3 DEF Fresh
  <2>4. CASE /\ active' = active /\ editor' = editor /\ strayed \subseteq strayed'
             /\ tabs'[active].content = tabs[active].content /\ Alike(op'[q], op[q])
    BY <2>1, <2>4 DEF Taken, Sent, Alike
  <2>5. QED
    BY <2>1, <2>2, <2>3, <2>4 DEF Passed
<1>2. QED
  BY <1>1 DEF Taken

(* A handler that asks for nothing becomes r.                              *)
LEMMA OneBecomes ==
  ASSUME TypeInv, NEW p \in Proc, NEW r, Become(p, r), Fresh(r, tabs')
  PROVE  /\ Passed
         /\ \A t : ~Asks(op[p], t, tabs[t], disk[tabs[t].path]) => Asked(t)
<1>1. \A q \in Proc : op'[q] = IF q = p THEN r ELSE op[q]
  BY Typed DEF Become, Handlers
<1>2. Passed
  BY <1>1 DEF Passed, Alike
<1>3. \A t : ~Asks(op[p], t, tabs[t], disk[tabs[t].path]) => Asked(t)
  BY <1>1 DEF Asked
<1>4. QED
  BY <1>2, <1>3

(* Handlers wait.                                                          *)
LEMMA NoneBecomes ==
  ASSUME op' = op
  PROVE  Passed /\ \A t : Asked(t)
BY DEF Passed, Alike, Asked

(* Checks of some paths are made void: those of the other paths go on.     *)
LEMMA Outdated ==
  ASSUME TypeInv, NEW paths,
         \/ op' = Outdate(paths, op)
         \/ \E p \in Proc : op[p].cmd # "check" /\ op' = [Outdate(paths, op) EXCEPT ![p] = Idle]
  PROVE  /\ Passed
         /\ \A t : tabs[t].path \notin paths => Asked(t)
<1>1. op \in [Proc -> Handler] /\ DOMAIN Outdate(paths, op) = Proc
  BY Typed DEF Handlers, Outdate
<1>2. ASSUME NEW q \in Proc
      PROVE  \/ op'[q] = Outdate(paths, op)[q]
             \/ op'[q] = Idle /\ op[q].cmd # "check"
  BY <1>1
<1>3. ASSUME NEW q \in Proc PROVE Alike(op'[q], op[q]) \/ Fresh(op'[q], tabs')
  <2>1. PICK o, r : o = op[q] /\ r = Outdate(paths, op)[q]
    OBVIOUS
  <2>2. o \in Handler /\ Voided(r, o)
    BY <1>1, <2>1, OutdateIs
  <2>3. Alike(r, o)
    BY <2>2 DEF Voided, Alike, Handler
  <2>4. Fresh(Idle, tabs')
    BY DEF Idle, Fresh
  <2>5. QED
    BY <1>2, <2>1, <2>3, <2>4
<1>4. ASSUME NEW t, tabs[t].path \notin paths PROVE Asked(t)
  <2>1. ASSUME NEW q \in Proc, Asks(op[q], t, tabs[t], disk[tabs[t].path])
        PROVE  op'[q] = op[q]
    <3>1. op[q].cmd = "check" /\ op[q].path \notin paths
      BY <1>4, <2>1 DEF Asks
    <3>2. Outdate(paths, op)[q] = op[q]
      BY <3>1 DEF Outdate
    <3>3. QED
      BY <1>2, <3>1, <3>2
  <2>2. QED
    BY <2>1 DEF Asked
<1>5. QED
  BY <1>3, <1>4 DEF Passed

(* Nothing happens on screen nor to the notes.                             *)
LEMMA QuietTrue ==
  ASSUME TypeInv, TypeInv', TrueInv, UNCHANGED <<files, watcher, screen, strayed>>,
         NEW p \in Proc, op[p].cmd # "check" \/ op[p].at \notin {"call", "answer"},
         NEW r, Become(p, r), Fresh(r, tabs)
  PROVE  TrueInv'
<1>1. /\ tabs' = tabs /\ items' = items /\ active' = active /\ editor' = editor
      /\ strayed' = strayed /\ disk' = disk /\ changes' = changes /\ removals' = removals
  BY DEF screen, files, watcher
<1>2. /\ Passed
      /\ \A t : ~Asks(op[p], t, tabs[t], disk[tabs[t].path]) => Asked(t)
  BY <1>1, OneBecomes
<1>3. Alone'
  BY <1>1, AloneStays DEF TrueInv
<1>4. Taken'
  BY <1>1, <1>2, TakenStays DEF TrueInv
<1>5. ASSUME NEW t \in items \ strayed PROVE Faithful(t)'
  <2>1. Faithful(t) /\ Left(t)
    BY <1>1 DEF TrueInv, Trusted, Left, Live
  <2>2. ~Asks(op[p], t, tabs[t], disk[tabs[t].path])
    BY DEF Asks
  <2>3. Told(t)
    BY <1>1, <1>2, <2>2 DEF Told
  <2>4. QED
    BY <2>1, <2>3, FaithfulStays
<1>6. QED
  BY <1>1, <1>3, <1>4, <1>5 DEF TrueInv, Trusted

(* A handler of the user's that asks for no write yet starts.              *)
LEMMA StartTrue ==
  ASSUME TypeInv, TypeInv', TrueInv, NEW p \in Proc, Start(p), UNCHANGED <<files, watcher, last>>
  PROVE  TrueInv' \/ \E t \in items : ~tabs[t].dirty /\ Close(p, t)
<1> DEFINE Begins ==
      /\ UNCHANGED <<screen, strayed>> /\ op[p] = Idle
      /\ \E r : Become(p, r) /\ Fresh(r, tabs)
<1>1. ASSUME Begins PROVE TrueInv'
  <2>1. op[p].cmd = "none"
    BY <1>1 DEF Idle
  <2>2. QED
    BY <1>1, <2>1, QuietTrue
<1> HIDE DEF Begins
<1>2. ASSUME NEW r, Become(p, r), Simple(r), op[p] = Idle, UNCHANGED <<screen, strayed>>
      PROVE  Begins
  BY <1>2 DEF Begins, Simple, Fresh
<1>3. ASSUME Save(p) PROVE Begins
  <2>1. active # 0 /\ op[p] = Idle /\ UNCHANGED <<screen, strayed>>
    BY <1>3 DEF Save, Starts
  <2>2. PICK r : r = Check(Of("save"), active, tabs, Mine(active)) /\ Become(p, r)
    BY <1>3 DEF Save, Starts
  <2>3. active \in 1..Len(tabs) /\ Mine(active) \in 0..last
    BY <2>1, Typed, TabIs
  <2>4. Of("save") \in HandlerOf(Len(tabs), last)
    BY Typed, OfIs DEF Kind
  <2>5. tabs[active].path \in Path \union {None} /\ tabs[active].base \in 0..last
    BY <2>3, Typed DEF Tabbed
  <2>6. Asking(r, Of("save"), active, tabs, Mine(active), Len(tabs), last)
    BY <2>2, <2>3, <2>4, <2>5, Typed, CheckIs
  <2>7. r.cmd = "check"
    BY <2>6 DEF Asking
  <2>8. QED
    BY <2>1, <2>2, <2>7 DEF Begins, Fresh
<1>4. ASSUME SaveAll(p) PROVE Begins
  <2>0. PICK r : r = BulkNext(Of("bulk"), tabs, editor)
    OBVIOUS
  <2>1. Become(p, r) /\ UNCHANGED <<screen, strayed>> /\ op[p] = Idle
    BY <1>4, <2>0 DEF SaveAll
  <2>2. Of("bulk") \in HandlerOf(Len(tabs), last) /\ Of("bulk").kind = "bulk"
        /\ \A t \in Of("bulk").todo : tabs[t].path # None
    BY Typed, OfIs DEF Kind
  <2>3. \/ r = Idle
        \/ Checked(r, "bulk", Of("bulk").pick, tabs, Len(tabs), last)
        \/ \E list \in SUBSET {t \in items \intersect Of("bulk").seen : tabs[t].path # None} :
             Written(r, "bulk", Of("bulk").pick, list, tabs, Len(tabs), last)
    BY <2>0, <2>2, Typed, BulkNextIs
  <2>4. Idle.cmd # "save"
    BY DEF Idle
  <2>5. Fresh(r, tabs)
    BY <2>3, <2>4 DEF Fresh, Checked, Written
  <2>6. QED
    BY <2>1, <2>5 DEF Begins
<1>5. ASSUME SaveAs(p) PROVE Begins
  <2>1. PICK r : /\ r = [Of("saveas") EXCEPT !.at = "dialog", !.tab = active]
                 /\ Become(p, r) /\ op[p] = Idle /\ UNCHANGED <<screen, strayed>>
    BY <1>5 DEF SaveAs, Starts
  <2>2. Simple(r)
    BY <2>1, SimpleIs DEF Kind, Cmd
  <2>3. QED
    BY <1>2, <2>1, <2>2
<1>6. ASSUME NEW path \in Path, NEW to \in Path, Rename(p, path, to) PROVE Begins
  <2>1. PICK r : /\ r = [Command(Of("rename"), "rename") EXCEPT !.path = path, !.to = to]
                 /\ Become(p, r) /\ op[p] = Idle /\ UNCHANGED <<screen, strayed>>
    BY <1>6 DEF Rename, Starts
  <2>2. Simple(r)
    BY <2>1, SimpleIs DEF Kind, Cmd
  <2>3. QED
    BY <1>2, <2>1, <2>2
<1>7. ASSUME NEW entry \in trash, Undo(p, entry) PROVE Begins
  <2>1. PICK r : /\ r = [Command(Of("undo"), "undo") EXCEPT !.path = entry[1], !.pick = entry[2]]
                 /\ Become(p, r) /\ op[p] = Idle /\ UNCHANGED <<screen, strayed>>
    BY <1>7 DEF Undo, Starts
  <2>2. Simple(r)
    BY <2>1, SimpleIs DEF Kind, Cmd
  <2>3. QED
    BY <1>2, <2>1, <2>2
<1>8. ASSUME NEW path \in Path, OpenPath(p, path) PROVE Begins
  <2>1. PICK r : /\ r = [Command(Of("open"), "read") EXCEPT !.path = path]
                 /\ Become(p, r) /\ op[p] = Idle /\ UNCHANGED <<screen, strayed>>
    BY <1>8 DEF OpenPath
  <2>2. Simple(r)
    BY <2>1, SimpleIs DEF Kind, Cmd
  <2>3. QED
    BY <1>2, <2>1, <2>2
<1>9. ASSUME NEW path \in Path, Create(p, path) PROVE Begins
  <2>1. PICK r : /\ r = [Command(Of("create"), "create") EXCEPT !.path = path]
                 /\ Become(p, r) /\ op[p] = Idle /\ UNCHANGED <<screen, strayed>>
    BY <1>9 DEF Create, Starts
  <2>2. Simple(r)
    BY <2>1, SimpleIs DEF Kind, Cmd
  <2>3. QED
    BY <1>2, <2>1, <2>2
<1>10. ASSUME NEW path \in Path, Delete(p, path) PROVE Begins
  <2>0. PICK q, o, dialog, r :
          /\ q = Of("delete") /\ o = [q EXCEPT !.path = path, !.todo = ByPath(path)]
          /\ dialog = [o EXCEPT !.at = "dialog"]
          /\ r = IF \E t \in ByPath(path) : tabs[t].dirty THEN dialog ELSE Command(o, "trash")
    OBVIOUS
  <2>1. Become(p, r) /\ op[p] = Idle /\ UNCHANGED <<screen, strayed>>
    BY <1>10, <2>0 DEF Delete, Starts
  <2>2. q \in HandlerOf(Len(tabs), last) /\ q.cmd = "none"
    BY <2>0, Typed, OfIs DEF Kind
  <2>3. ByPath(path) \in SUBSET (1..Len(tabs))
    BY Typed DEF ByPath
  <2>4. o \in HandlerOf(Len(tabs), last) /\ o.cmd = "none"
    BY <2>0, <2>2, <2>3 DEF HandlerOf
  <2>5. Command(o, "trash").cmd = "trash"
    BY <2>4, Typed, CommandIs DEF Cmd
  <2>6. dialog.cmd = "none"
    BY <2>0, <2>4 DEF HandlerOf
  <2>7. r.cmd # "save"
    BY <2>0, <2>5, <2>6
  <2>8. QED
    BY <2>1, <2>7 DEF Begins, Fresh
<1>11. ASSUME NEW t \in items, Close(p, t), tabs[t].dirty PROVE Begins
  <2>1. PICK r : /\ r = [Of("close") EXCEPT !.at = "dialog", !.tab = t]
                 /\ Become(p, r) /\ op[p] = Idle /\ UNCHANGED <<screen, strayed>>
    BY <1>11 DEF Close, Starts
  <2>2. Simple(r)
    BY <2>1, SimpleIs DEF Kind, Cmd
  <2>3. QED
    BY <1>2, <2>1, <2>2
<1>12. ASSUME NEW text \in Text, RestoreVersion(p, text) PROVE Begins
  <2>1. PICK r : /\ r = [Of("version") EXCEPT !.at = "dialog", !.pick = text]
                 /\ Become(p, r) /\ op[p] = Idle /\ UNCHANGED <<screen, strayed>>
    BY <1>12 DEF RestoreVersion, Starts
  <2>2. Simple(r)
    BY <2>1, SimpleIs DEF Kind, Cmd
  <2>3. QED
    BY <1>2, <2>1, <2>2
<1>13. QED
  BY <1>1, <1>3, <1>4, <1>5, <1>6, <1>7, <1>8, <1>9, <1>10, <1>11, <1>12 DEF Start

(* No tab is opened or given a path, each is left alone or is as it should *)
(* be, and what is sent of the tab on screen is in its record.             *)
LEMMA TrueStays ==
  ASSUME TypeInv', TrueInv, Passed, items' \subseteq items, strayed \subseteq strayed',
         \A t \in items' : tabs'[t].path = tabs[t].path,
         \A t \in items' \ strayed' : Faithful(t)' \/ (Left(t) /\ Told(t)),
         \/ active' = 0
         \/ active' \in strayed'
         \/ tabs'[active'].content = editor'
         \/ /\ active' = active /\ editor' = editor /\ strayed \subseteq strayed'
            /\ tabs'[active].content = tabs[active].content
  PROVE  TrueInv'
<1>1. Alone'
  BY AloneStays DEF TrueInv
<1>2. Taken'
  BY TakenStays DEF TrueInv
<1>3. ASSUME NEW t \in items' \ strayed' PROVE Faithful(t)'
  <2>1. Faithful(t)
    BY DEF TrueInv, Trusted
  <2>2. QED
    BY <2>1, FaithfulStays
<1>4. Trusted'
  BY <1>3 DEF Trusted
<1>5. QED
  BY <1>1, <1>2, <1>4 DEF TrueInv

(* A tab with the unsaved mark promises nothing.                           *)
LEMMA DirtyIsFaithful ==
  ASSUME NEW t, tabs'[t].dirty
  PROVE  Faithful(t)'
BY DEF Faithful

(* A tab that is its note, or whose note is about to be spoken of.         *)
LEMMA FaithfulIs ==
  ASSUME NEW t, tabs'[t].base = Live(t)',
         \/ tabs'[t].path = None
         \/ disk'[tabs'[t].path] = tabs'[t].base
         \/ tabs'[t].path \in changes' \union removals'
  PROVE  Faithful(t)'
BY DEF Faithful, Heard

(* The files and the events under way are as they were.                    *)
LEMMA ToldStill ==
  ASSUME UNCHANGED <<files, watcher>>, NEW t, Asked(t)
  PROVE  Told(t)
<1>1. disk' = disk /\ changes' = changes /\ removals' = removals
  BY DEF files, watcher
<1>2. QED
  BY <1>1 DEF Told

(* A command that failed, an answer that only ends its handler or that     *)
(* sends the next command, and a dialog that closes nothing.               *)
LEMMA WaitedTrue ==
  ASSUME TypeInv, TypeInv', TrueInv, NEW p \in Proc, UNCHANGED <<files, watcher, last>>,
         \/ Failed(p) \/ UndoAnswered(p) \/ RestoreAnswered(p)
         \/ \E path \in Path \union {None} : PickSavePath(p, path)
         \/ \E yes \in BOOLEAN : DeleteConfirmed(p, yes) \/ RestoreConfirmed(p, yes)
         \/ CloseConfirmed(p, FALSE)
  PROVE  TrueInv'
<1> DEFINE Waited ==
      /\ UNCHANGED <<screen, strayed>>
      /\ op[p].cmd # "check" \/ op[p].at \notin {"call", "answer"}
      /\ \E r : Become(p, r) /\ Fresh(r, tabs)
<1>1. ASSUME Waited PROVE TrueInv'
  BY <1>1, QuietTrue
<1> HIDE DEF Waited
<1>2. Fresh(Idle, tabs) /\ op[p] \in HandlerOf(Len(tabs), last)
  BY Typed DEF Fresh, Idle
<1>3. ASSUME Failed(p) PROVE Waited
  <2>1. PICK o, r : o = op[p] /\ r = IF o.kind = "bulk" THEN WriteEach(Of("bulk"), o.todo, tabs)
                                     ELSE Idle
    OBVIOUS
  <2>2. o.at = "failed" /\ Become(p, r) /\ UNCHANGED <<screen, strayed>>
    BY <1>3, <2>1 DEF Failed
  <2>3. Of("bulk") \in HandlerOf(Len(tabs), last) /\ o.todo \in SUBSET (1..Len(tabs))
    <3>1. Of("bulk") \in HandlerOf(Len(tabs), last)
      BY Typed, OfIs DEF Kind
    <3>2. o.todo \in SUBSET (1..Len(tabs))
      BY <1>2, <2>1 DEF HandlerOf
    <3>3. QED
      BY <3>1, <3>2
  <2>4. \A t \in o.todo : tabs[t].path \in Path \union {None} /\ tabs[t].content \in 0..last
    BY <2>3, Typed DEF Tabbed
  <2>5. r = Idle \/ Written(r, Of("bulk").kind, Of("bulk").pick, o.todo, tabs, Len(tabs), last)
    BY <2>1, <2>3, <2>4, Typed, WriteEachIs
  <2>6. Fresh(r, tabs)
    BY <1>2, <2>5 DEF Written, Fresh
  <2>7. QED
    BY <2>1, <2>2, <2>6 DEF Waited
<1>4. ASSUME UndoAnswered(p) PROVE Waited
  BY <1>2, <1>4 DEF Waited, UndoAnswered, Answered
<1>5. ASSUME RestoreAnswered(p) PROVE Waited
  <2>1. /\ op[p].cmd = "restore" /\ Become(p, Command(op[p], "read"))
        /\ UNCHANGED <<screen, strayed>>
    BY <1>5 DEF RestoreAnswered, Answered
  <2>2. Command(op[p], "read").cmd = "read"
    BY <1>2, Typed, CommandIs DEF Cmd
  <2>3. QED
    BY <2>1, <2>2 DEF Waited, Fresh
<1>6. ASSUME NEW path \in Path \union {None}, PickSavePath(p, path) PROVE Waited
  <2>1. op[p].at = "dialog" /\ op[p].kind = "saveas" /\ UNCHANGED <<screen, strayed>>
    BY <1>6 DEF PickSavePath
  <2>2. CASE Become(p, Idle)
    BY <1>2, <2>1, <2>2 DEF Waited
  <2>3. CASE ~Become(p, Idle)
    <3>0. PICK kind \in SaveAsKind :
            Become(p, Write([op[p] EXCEPT !.kind = kind], op[p].tab, path, editor))
      BY <1>6, <2>3 DEF PickSavePath
    <3>1. PICK q, r : /\ q = [op[p] EXCEPT !.kind = kind]
                      /\ r = Write(q, op[p].tab, path, editor) /\ Become(p, r)
      BY <3>0
    <3>2. q \in HandlerOf(Len(tabs), last) /\ q.kind # "bulk"
      BY <1>2, <3>1 DEF HandlerOf, SaveAsKind, Kind
    <3>3. op[p].tab \in 1..Len(tabs) /\ editor \in 0..last
      BY <2>1, AboutTab, Typed
    <3>4. Sending(r, q, op[p].tab, path, editor, Len(tabs), last)
      BY <3>1, <3>2, <3>3, Typed, WriteIs
    <3>5. Fresh(r, tabs)
      BY <3>2, <3>4 DEF Sending, Fresh
    <3>6. QED
      BY <2>1, <3>1, <3>5 DEF Waited
  <2>4. QED
    BY <2>2, <2>3
<1>7. ASSUME NEW yes \in BOOLEAN, DeleteConfirmed(p, yes) PROVE Waited
  <2>1. /\ op[p].at = "dialog" /\ UNCHANGED <<screen, strayed>>
        /\ Become(p, Idle) \/ Become(p, Command(op[p], "trash"))
    BY <1>7 DEF DeleteConfirmed
  <2>2. Command(op[p], "trash").cmd = "trash"
    BY <1>2, Typed, CommandIs DEF Cmd
  <2>3. QED
    BY <1>2, <2>1, <2>2 DEF Waited, Fresh
<1>8. ASSUME CloseConfirmed(p, FALSE) PROVE Waited
  BY <1>2, <1>8 DEF Waited, CloseConfirmed
<1>9. ASSUME NEW yes \in BOOLEAN, RestoreConfirmed(p, yes) PROVE Waited
  <2>1. /\ op[p].at = "dialog" /\ op[p].kind = "version" /\ UNCHANGED <<screen, strayed>>
    BY <1>9 DEF RestoreConfirmed
  <2>2. CASE Become(p, Idle)
    BY <1>2, <2>1, <2>2 DEF Waited
  <2>3. CASE active # 0 /\ ~Become(p, Idle)
                  /\ \E r : r = [Check(Of("restore"), active, tabs, Mine(active))
                                   EXCEPT !.pick = op[p].pick] /\ Become(p, r)
    <3>1. PICK q, r : /\ q = Check(Of("restore"), active, tabs, Mine(active))
                      /\ r = [q EXCEPT !.pick = op[p].pick] /\ Become(p, r)
      BY <2>3
    <3>2. active \in 1..Len(tabs) /\ Mine(active) \in 0..last
      BY <2>3, Typed, TabIs
    <3>3. Of("restore") \in HandlerOf(Len(tabs), last)
      BY Typed, OfIs DEF Kind
    <3>4. tabs[active].path \in Path \union {None} /\ tabs[active].base \in 0..last
      BY <3>2, Typed DEF Tabbed
    <3>5. Asking(q, Of("restore"), active, tabs, Mine(active), Len(tabs), last)
      BY <3>1, <3>2, <3>3, <3>4, Typed, CheckIs
    <3>6. r.cmd = "check"
      BY <3>1, <3>5 DEF Asking, HandlerOf
    <3>7. QED
      BY <2>1, <3>1, <3>6 DEF Waited, Fresh
  <2>4. CASE \E r : r = [Command(op[p], "restore") EXCEPT !.path = panel] /\ Become(p, r)
    <3>1. PICK q, r : /\ q = Command(op[p], "restore")
                      /\ r = [q EXCEPT !.path = panel] /\ Become(p, r)
      BY <2>4
    <3>2. q \in HandlerOf(Len(tabs), last) /\ q.cmd = "restore"
      BY <1>2, <3>1, Typed, CommandIs DEF Cmd
    <3>3. r.cmd = "restore"
      BY <3>1, <3>2 DEF HandlerOf
    <3>4. QED
      BY <2>1, <3>1, <3>3 DEF Waited, Fresh
  <2>5. QED
    BY <1>9, <2>2, <2>3, <2>4 DEF RestoreConfirmed
<1>10. QED
  BY <1>1, <1>3, <1>4, <1>5, <1>6, <1>7, <1>8, <1>9

(* A remove event: the tabs of the path are marked, and the others' checks *)
(* go on.                                                                  *)
LEMMA NoticeRemovalTrue ==
  ASSUME TypeInv, TypeInv', TrueInv, NEW path \in Path, NoticeRemoval(path),
         UNCHANGED <<files, last>>
  PROVE  TrueInv'
<1>0. PICK moved : moved = ByPath(path)
  OBVIOUS
<1>1. /\ UNCHANGED <<items, active, editor, strayed, changes>> /\ removals' = removals \ {path}
      /\ tabs' = [t \in DOMAIN tabs |->
                    IF t \in moved THEN [tabs[t] EXCEPT !.removed = TRUE, !.dirty = TRUE]
                    ELSE tabs[t]]
      /\ op' = op \/ op' = Outdate({path}, op)
      /\ disk' = disk
  BY <1>0 DEF NoticeRemoval, files
<1>2. DOMAIN tabs = 1..Len(tabs) /\ \A t \in 1..Len(tabs) : tabs[t] \in TabState
  BY Typed, TabIs
<1>3. items \subseteq 1..Len(tabs) /\ (active # 0 => active \in 1..Len(tabs))
  BY Typed, TabIs
<1>4. Passed /\ \A t : tabs[t].path # path => Asked(t)
  <2>1. CASE op' = op
    BY <2>1, NoneBecomes
  <2>2. CASE op' = Outdate({path}, op)
    <3>1. Passed /\ \A t : tabs[t].path \notin {path} => Asked(t)
      BY <2>2, Outdated
    <3>2. QED
      BY <3>1
  <2>3. QED
    BY <1>1, <2>1, <2>2
<1>5. \A t \in 1..Len(tabs) :
        /\ tabs'[t].path = tabs[t].path /\ tabs'[t].content = tabs[t].content
        /\ t \in moved => tabs'[t].dirty
        /\ t \notin moved => tabs'[t] = tabs[t]
  BY <1>1, <1>2 DEF TabState
<1>6. ASSUME NEW t \in items' \ strayed' PROVE Faithful(t)' \/ (Left(t) /\ Told(t))
  <2>1. t \in items /\ t \in 1..Len(tabs)
    BY <1>1, <1>3
  <2>2. CASE t \in moved
    BY <1>5, <2>1, <2>2, DirtyIsFaithful
  <2>3. CASE t \notin moved
    <3>1. tabs[t].path # path
      BY <1>0, <2>1, <2>3 DEF ByPath
    <3>2. Left(t)
      BY <1>1, <1>5, <2>1, <2>3 DEF Left, Live
    <3>3. Told(t)
      BY <1>1, <1>4, <3>1 DEF Told
    <3>4. QED
      BY <3>2, <3>3
  <2>4. QED
    BY <2>2, <2>3
<1>7. /\ items' \subseteq items /\ strayed \subseteq strayed'
      /\ \A t \in items' : tabs'[t].path = tabs[t].path
  BY <1>1, <1>3, <1>5
<1>8. \/ active' = 0
      \/ /\ active' = active /\ editor' = editor /\ strayed \subseteq strayed'
         /\ tabs'[active].content = tabs[active].content
  BY <1>1, <1>3, <1>5
<1>9. QED
  BY <1>4, <1>6, <1>7, <1>8, TrueStays

(* The answer to a check that the user typed into: the check did not ask   *)
(* for a tab without the unsaved mark.                                     *)
LEMMA RetryCheckTrue ==
  ASSUME TypeInv, TypeInv', TrueInv, NEW p \in Proc, RetryCheck(p),
         UNCHANGED <<files, watcher, last>>
  PROVE  TrueInv'
<1>0. PICK o, t : o = op[p] /\ t = o.tab
  OBVIOUS
<1>1. PICK r : r = [Command(o, "check") EXCEPT !.base = tabs[t].base, !.text = Mine(t),
                                               !.got = NoFile, !.again = TRUE]
  OBVIOUS
<1>2. /\ o.cmd = "check" /\ o.at = "answer" /\ Become(p, r) /\ Mine(t) # o.text
      /\ tabs' = IF t \in items THEN [tabs EXCEPT ![t].removed = FALSE] ELSE tabs
      /\ UNCHANGED <<items, active, editor, strayed>>
  BY <1>0, <1>1 DEF RetryCheck, Answered
<1>3. /\ o \in HandlerOf(Len(tabs), last) /\ Shape(o, tabs)
      /\ o.kind \in {"watch", "bulk", "save", "restore"}
  BY <1>0, <1>2, Typed DEF Shape, Fitting
<1>4. t \in 1..Len(tabs)
  BY <1>0, <1>3, AboutTab
<1>5. DOMAIN tabs = 1..Len(tabs) /\ tabs[t] \in TabState /\ \A u \in 1..Len(tabs) : tabs[u] \in TabState
  BY <1>4, Typed, TabIs
<1>6. \A u \in 1..Len(tabs) :
        /\ tabs'[u].path = tabs[u].path /\ tabs'[u].base = tabs[u].base
        /\ tabs'[u].content = tabs[u].content /\ tabs'[u].dirty = tabs[u].dirty
  BY <1>2, <1>5 DEF TabState
<1>7. Mine(t) \in 0..last /\ tabs[t].base \in 0..last
  BY <1>5, Typed DEF Mine, MineIn, TabState
<1>8. Retried(r, o, tabs[t].base, Mine(t), Len(tabs), last)
  BY <1>1, <1>2, <1>3, <1>7, Typed, RetryIs
<1>9. Fresh(r, tabs')
  BY <1>8 DEF Retried, Fresh
<1>10. /\ Passed
       /\ \A u : ~Asks(op[p], u, tabs[u], disk[tabs[u].path]) => Asked(u)
  BY <1>2, <1>9, OneBecomes
<1>11. items \subseteq 1..Len(tabs) /\ (active # 0 => active \in 1..Len(tabs))
  BY Typed, TabIs
<1>12. ASSUME NEW u \in items' \ strayed' PROVE Faithful(u)' \/ (Left(u) /\ Told(u))
  <2>1. u \in 1..Len(tabs)
    BY <1>2, <1>11
  <2>2. CASE tabs[u].dirty
    BY <1>6, <2>1, <2>2, DirtyIsFaithful
  <2>3. CASE ~tabs[u].dirty
    <3>1. ~Asks(op[p], u, tabs[u], disk[tabs[u].path])
      BY <1>0, <1>2, <2>3 DEF Asks, Mine, MineIn
    <3>2. Left(u)
      BY <1>2, <1>6, <2>1 DEF Left, Live
    <3>3. QED
      BY <1>10, <3>1, <3>2, ToldStill
  <2>4. QED
    BY <2>2, <2>3
<1>13. /\ items' \subseteq items /\ strayed \subseteq strayed'
       /\ \A u \in items' : tabs'[u].path = tabs[u].path
  BY <1>2, <1>6, <1>11
<1>14. \/ active' = 0
       \/ /\ active' = active /\ editor' = editor /\ strayed \subseteq strayed'
          /\ tabs'[active].content = tabs[active].content
  BY <1>2, <1>6, <1>11
<1>15. QED
  BY <1>10, <1>12, <1>13, <1>14, TrueStays

(* Another tab is shown.                                                   *)
LEMMA SwitchedTrue ==
  ASSUME TypeInv, TypeInv', TrueInv, UNCHANGED <<files, watcher, last, items>>,
         Passed, \A u : Asked(u), strayed \subseteq strayed',
         NEW t \in items, SetActive(t, tabs)
  PROVE  TrueInv'
<1>1. items \subseteq 1..Len(tabs) /\ Len(tabs) \in Tab /\ tabs \in Seq(TabState) /\ t \in 1..Len(tabs)
  BY Typed DEF Screen
<1>2. /\ active' = t /\ editor' = IF t = active THEN editor ELSE tabs'[t].content
      /\ \A u \in 1..Len(tabs) :
           /\ tabs'[u].path = tabs[u].path /\ tabs'[u].base = tabs[u].base
           /\ tabs'[u].dirty = tabs[u].dirty
           /\ tabs'[u].content = IF u = active /\ u # t THEN editor ELSE tabs[u].content
  BY <1>1, Typed, SetActiveIs
<1>3. ASSUME NEW u \in items PROVE Left(u) /\ Told(u)
  <2>1. u \in 1..Len(tabs)
    BY <1>1
  <2>2. Live(u)' = Live(u)
    BY <1>1, <1>2, <2>1 DEF Live
  <2>3. Left(u)
    BY <1>2, <2>1, <2>2 DEF Left
  <2>4. QED
    BY <2>3, ToldStill
<1>4. \A u \in items' : tabs'[u].path = tabs[u].path
  BY <1>1, <1>2
<1>5. \/ tabs'[active'].content = editor'
      \/ /\ active' = active /\ editor' = editor /\ strayed \subseteq strayed'
         /\ tabs'[active].content = tabs[active].content
  BY <1>1, <1>2
<1>6. QED
  BY <1>3, <1>4, <1>5, TrueStays

(* A tab is opened that has the text of its note, or the watcher's word of *)
(* another text is under way, or it strays.                                *)
LEMMA AddedTrue ==
  ASSUME TypeInv, TypeInv', TrueInv, UNCHANGED <<files, watcher, last>>,
         Passed, \A u : Asked(u), strayed \subseteq strayed',
         NEW path \in Path \union {None}, NEW text \in Known,
         items' = items \union {Len(tabs) + 1}, Len(tabs') = Len(tabs) + 1,
         SetActive(Len(tabs) + 1, Append(tabs, NewTab(path, text))),
         path # None => ByPath(path) = {},
         path = None \/ Len(tabs) + 1 \in strayed' \/ ~Overtaken(path, text)
  PROVE  TrueInv'
<1>0. PICK t, tab, ts : t = Len(tabs) + 1 /\ tab = NewTab(path, text) /\ ts = Append(tabs, tab)
  OBVIOUS
<1>1. /\ tab \in TabState /\ tab.content = text /\ tab.base = text /\ tab.path = path
      /\ Len(tabs) \in Nat /\ tabs \in Seq(TabState) /\ items \subseteq 1..Len(tabs)
  BY <1>0, Typed, NewTabIs, ZenonT(60) DEF Screen
<1>2. /\ ts \in Seq(TabState) /\ Len(ts) = t /\ t \notin 1..Len(tabs) /\ 1..Len(tabs) \subseteq 1..t
      /\ t \in 1..t /\ \A u \in 1..t : u = t \/ u \in 1..Len(tabs)
      /\ \A u \in 1..t : ts[u] = IF u = t THEN tab ELSE tabs[u]
  BY <1>0, <1>1, Appended
<1>3. active # t /\ (active # 0 => active \in 1..Len(tabs)) /\ Len(ts) \in Tab
  <2>1. active # 0 => active \in 1..Len(tabs)
    BY Typed, TabIs
  <2>2. t # 0
    BY <1>0, <1>1
  <2>3. t \in Tab
    BY <1>0 DEF TypeInv, Screen
  <2>4. QED
    BY <1>2, <2>1, <2>2, <2>3
<1>4. /\ active' = t /\ editor' = tabs'[t].content
      /\ \A u \in 1..t :
           /\ tabs'[u].path = ts[u].path
           /\ tabs'[u].base = ts[u].base /\ tabs'[u].dirty = ts[u].dirty
           /\ tabs'[u].content = IF u = active /\ u # t THEN editor ELSE ts[u].content
  <2>1. SetActive(t, ts) /\ items \subseteq 1..Len(ts) /\ t \in 1..Len(ts)
    BY <1>0, <1>1, <1>2
  <2>2. Screen /\ Rest /\ UNCHANGED last
    BY Typed
  <2>3. /\ active' = t /\ editor' = IF t = active THEN editor ELSE tabs'[t].content
        /\ \A u \in 1..Len(ts) :
             /\ tabs'[u].path = ts[u].path
             /\ tabs'[u].base = ts[u].base /\ tabs'[u].dirty = ts[u].dirty
             /\ tabs'[u].content = IF u = active /\ u # t THEN editor ELSE ts[u].content
    BY <1>2, <1>3, <2>1, <2>2, SetActiveIs
  <2>4. QED
    BY <1>2, <1>3, <2>3
<1>5. ASSUME NEW u \in items
      PROVE  tabs'[u].path = tabs[u].path /\ u # t /\ Left(u) /\ Told(u)
  <2>1. u \in 1..Len(tabs) /\ u # t /\ u \in 1..t
    BY <1>1, <1>2
  <2>2. /\ tabs'[u].path = tabs[u].path /\ tabs'[u].base = tabs[u].base
        /\ tabs'[u].dirty = tabs[u].dirty
        /\ tabs'[u].content = IF u = active THEN editor ELSE tabs[u].content
    BY <1>2, <1>4, <2>1
  <2>3. Live(u)' = Live(u)
    BY <1>4, <2>1, <2>2 DEF Live
  <2>4. Left(u)
    BY <2>2, <2>3 DEF Left
  <2>5. QED
    BY <2>1, <2>2, <2>4, ToldStill
<1>6. Live(t)' = text /\ tabs'[t].base = text /\ tabs'[t].path = path
  BY <1>1, <1>2, <1>3, <1>4 DEF Live
<1>7. Alone'
  <2>1. \A u \in items : path # None => tabs[u].path # path
    BY DEF ByPath
  <2>2. Alone
    BY DEF TrueInv
  <2>3. ASSUME NEW u \in items', NEW v \in items', u # v, tabs'[u].path # None,
               tabs'[u].path = tabs'[v].path
        PROVE  u \in strayed'
    <3>1. CASE u = t
      BY <1>0, <1>5, <1>6, <2>1, <2>3, <3>1
    <3>2. CASE v = t
      BY <1>0, <1>5, <1>6, <2>1, <2>3, <3>2
    <3>3. CASE u # t /\ v # t
      BY <1>0, <1>5, <2>2, <2>3, <3>3 DEF Alone
    <3>4. QED
      BY <3>1, <3>2, <3>3
  <2>4. QED
    BY <2>3 DEF Alone
<1>8. Taken'
  BY <1>4, TakenStays DEF TrueInv
<1>9. ASSUME NEW u \in items' \ strayed' PROVE Faithful(u)'
  <2>1. CASE u = t
    <3>1. changes' = changes /\ removals' = removals /\ disk' = disk
      BY DEF files, watcher
    <3>2. \/ tabs'[u].path = None
          \/ disk'[tabs'[u].path] = tabs'[u].base
          \/ tabs'[u].path \in changes' \union removals'
      BY <1>0, <1>6, <1>9, <2>1, <3>1 DEF Overtaken
    <3>3. QED
      BY <1>6, <2>1, <3>2, FaithfulIs
  <2>2. CASE u # t
    <3>1. u \in items /\ Faithful(u)
      BY <1>0, <2>2 DEF TrueInv, Trusted
    <3>2. QED
      BY <1>5, <3>1, FaithfulStays
  <2>3. QED
    BY <2>1, <2>2
<1>10. QED
  BY <1>7, <1>8, <1>9 DEF TrueInv, Trusted

(* openDocument() shows the tab that has the path, or such a new one.      *)
LEMMA OpenedTrue ==
  ASSUME TypeInv, TypeInv', TrueInv, UNCHANGED <<files, watcher, last>>,
         Passed, \A u : Asked(u),
         NEW path \in Path \union {None}, NEW text \in Known, OpenDocument(path, text),
         strayed' = IF path # None /\ Overtaken(path, text) THEN strayed \union (items' \ items)
                    ELSE strayed
  PROVE  TrueInv'
<1>1. strayed \subseteq strayed'
  OBVIOUS
<1>2. CASE path # None /\ ByPath(path) # {}
  <2>1. SetActive(TheTab(path), tabs) /\ items' = items
    BY <1>2 DEF OpenDocument
  <2>2. TheTab(path) \in items
    BY <1>2, Typed, TheTabIs
  <2>3. QED
    BY <1>1, <2>1, <2>2, SwitchedTrue
<1>3. CASE ~(path # None /\ ByPath(path) # {})
  <2>1. /\ items' = items \union {Len(tabs) + 1}
        /\ SetActive(Len(tabs) + 1, Append(tabs, NewTab(path, text)))
    BY <1>3 DEF OpenDocument
  <2>2. Len(tabs) \in Nat /\ items \subseteq 1..Len(tabs)
    BY Typed
  <2>3. Len(tabs) + 1 \notin items
    BY <2>2
  <2>4. Len(tabs') = Len(tabs) + 1
    <3>1. \/ items' = items
          \/ Len(tabs') = Len(tabs) + 1
      BY Typed, OpenDocumentIs
    <3>2. QED
      BY <2>1, <2>3, <3>1
  <2>5. path = None \/ Len(tabs) + 1 \in strayed' \/ ~Overtaken(path, text)
    BY <2>1, <2>3
  <2>6. QED
    BY <1>1, <1>3, <2>1, <2>4, <2>5, AddedTrue
<1>4. QED
  BY <1>2, <1>3

(* openDocument() at the end of a handler.                                 *)
LEMMA OpenAnsweredTrue ==
  ASSUME TypeInv, TypeInv', TrueInv, NEW p \in Proc, OpenAnswered(p) \/ CreateAnswered(p),
         UNCHANGED <<files, watcher, last>>
  PROVE  TrueInv'
<1>1. Become(p, Idle) /\ op[p].cmd \in {"read", "create"} /\ op[p].at = "answer"
  BY DEF OpenAnswered, CreateAnswered, Answered
<1>2. op[p].path \in Path /\ op[p].path # None
  BY <1>1, Typed, NoneAssumption DEF Shape, Fitting
<1>3. PICK text \in Known :
        /\ OpenDocument(op[p].path, text)
        /\ strayed' = IF Overtaken(op[p].path, text) THEN strayed \union (items' \ items)
                      ELSE strayed
  <2>1. CASE OpenAnswered(p)
    <3>1. op[p].got \in 0..last /\ op[p].got # NoFile
      BY <2>1, Typed DEF OpenAnswered, Answered, Shape, Fitting, Handler
    <3>2. op[p].got \in Known
      BY <3>1, Typed DEF NoFile
    <3>3. QED
      BY <2>1, <3>2 DEF OpenAnswered
  <2>2. CASE CreateAnswered(p)
    <3>1. Empty \in Known
      BY Typed DEF Empty, Rest, Text
    <3>2. QED
      BY <2>2, <3>1 DEF CreateAnswered
  <2>3. QED
    BY <2>1, <2>2
<1>4. Fresh(Idle, tabs')
  BY DEF Fresh, Idle
<1>5. Passed /\ \A t : ~Asks(op[p], t, tabs[t], disk[tabs[t].path]) => Asked(t)
  BY <1>1, <1>4, OneBecomes
<1>6. \A t : Asked(t)
  BY <1>1, <1>5 DEF Asks
<1>7. QED
  BY <1>2, <1>3, <1>5, <1>6, OpenedTrue

(* doNew(), and a tab that is clicked.                                     *)
LEMMA NewTrue ==
  ASSUME TypeInv, TypeInv', TrueInv, New \/ (\E t \in items : Switch(t)),
         UNCHANGED <<files, watcher, last>>
  PROVE  TrueInv'
<1>1. op' = op /\ strayed' = strayed
  BY DEF New, Switch, running
<1>2. Passed /\ \A t : Asked(t)
  BY <1>1, NoneBecomes
<1>3. CASE New
  <2>1. Empty \in Known /\ None \in Path \union {None}
    BY Typed DEF Empty, Rest, Text
  <2>2. OpenDocument(None, Empty)
    BY <1>3 DEF New
  <2>3. QED
    BY <1>1, <1>2, <2>1, <2>2, OpenedTrue
<1>4. ASSUME NEW t \in items, Switch(t) PROVE TrueInv'
  <2>1. SetActive(t, tabs) /\ items' = items
    BY <1>4 DEF Switch
  <2>2. QED
    BY <1>1, <1>2, <2>1, SwitchedTrue
<1>5. QED
  BY <1>3, <1>4

(* The history panel is shown: no tab and no handler knows.                *)
LEMMA RefreshHistoryTrue ==
  ASSUME TypeInv, TypeInv', TrueInv, RefreshHistory, UNCHANGED <<files, watcher, last>>
  PROVE  TrueInv'
<1>1. /\ op' = op /\ strayed' = strayed /\ tabs' = tabs
      /\ items' = items /\ active' = active /\ editor' = editor
  BY DEF RefreshHistory, running
<1>2. Passed /\ \A t : Asked(t)
  BY <1>1, NoneBecomes
<1>3. \A t : Left(t) /\ Told(t)
  BY <1>1, <1>2, ToldStill DEF Left, Live
<1>4. QED
  BY <1>1, <1>2, <1>3, TrueStays

(* The tabs that stay open when others close show what they showed.        *)
LEMMA ClosedLeaves ==
  ASSUME TypeInv, UNCHANGED <<last, tabs>>, NEW gone, CloseTabs(gone)
  PROVE  /\ items' \subseteq items /\ \A t \in items' : Left(t)
         /\ \/ active' = 0
            \/ tabs'[active'].content = editor'
            \/ /\ active' = active /\ editor' = editor
               /\ tabs'[active].content = tabs[active].content
<1>1. /\ items' = items \ gone /\ active' \in items' \union {0}
      /\ editor' = IF active' \in {active, 0} THEN editor ELSE tabs[active'].content
  BY Typed, CloseTabsIs DEF Screen
<1>2. active \in items' => active' = active
  BY DEF CloseTabs
<1>3. 0 \notin items
  BY Typed
<1>4. ASSUME NEW t \in items' PROVE Left(t)
  <2>1. Live(t)' = Live(t)
    BY <1>1, <1>2, <1>3 DEF Live
  <2>2. QED
    BY <2>1 DEF Left
<1>5. QED
  BY <1>1, <1>4

(* Tabs are closed, and no note changes.                                   *)
LEMMA CloseTabTrue ==
  ASSUME TypeInv, TypeInv', TrueInv, UNCHANGED <<files, watcher, last>>,
         Passed, \A u : Asked(u), strayed' = strayed, NEW t, CloseTab(t)
  PROVE  TrueInv'
<1>1. CASE CloseTabs({t}) /\ UNCHANGED tabs
  <2>1. /\ items' \subseteq items /\ \A u \in items' : Left(u)
        /\ \/ active' = 0
           \/ tabs'[active'].content = editor'
           \/ /\ active' = active /\ editor' = editor
              /\ tabs'[active].content = tabs[active].content
    BY <1>1, ClosedLeaves
  <2>2. \A u : Told(u)
    BY ToldStill
  <2>3. strayed \subseteq strayed' /\ \A u \in items' : tabs'[u].path = tabs[u].path
    BY <1>1
  <2>4. QED
    BY <2>1, <2>2, <2>3, TrueStays
<1>2. CASE /\ items' = {Len(tabs) + 1} /\ active' = Len(tabs) + 1 /\ editor' = Empty
           /\ tabs' = Append(tabs, NewTab(None, Empty))
  <2>0. PICK u, tab : u = Len(tabs) + 1 /\ tab = NewTab(None, Empty)
    OBVIOUS
  <2>1. tab \in TabState /\ tab.path = None /\ tab.content = Empty /\ tab.base = Empty
    <3>1. Empty \in Known
      BY Typed DEF Empty, Rest, Text
    <3>2. QED
      BY <2>0, <3>1, Typed, NewTabIs, ZenonT(60)
  <2>2. tabs'[u] = tab
    <3>1. tabs \in Seq(TabState) /\ Len(tabs) \in Nat /\ u \in 1..(Len(tabs) + 1)
      BY <2>0, Typed DEF Screen
    <3>2. QED
      BY <1>2, <2>0, <2>1, <3>1, Appended
  <2>3. items' = {u} /\ active' = u /\ editor' = Empty
    BY <1>2, <2>0
  <2>4. Live(u)' = Empty
    BY <2>3 DEF Live
  <2>5. Faithful(u)'
    BY <2>1, <2>2, <2>4, FaithfulIs
  <2>6. Alone'
    BY <2>3 DEF Alone
  <2>7. Taken'
    BY <2>1, <2>2, <2>3, TakenStays DEF TrueInv
  <2>8. QED
    BY <2>3, <2>5, <2>6, <2>7 DEF TrueInv, Trusted
<1>3. QED
  BY <1>1, <1>2, CloseTabIs

(* The close button, without a dialog, and a dialog that lets a tab go.    *)
LEMMA CloseTrue ==
  ASSUME TypeInv, TypeInv', TrueInv, NEW p \in Proc, UNCHANGED <<files, watcher, last>>,
         \/ \E t \in items : ~tabs[t].dirty /\ Close(p, t)
         \/ CloseConfirmed(p, TRUE)
  PROVE  TrueInv'
<1>1. ASSUME NEW t \in items, ~tabs[t].dirty, Close(p, t) PROVE TrueInv'
  <2>1. CloseTab(t) /\ strayed' = strayed /\ op' = op
    BY <1>1 DEF Close, running
  <2>2. Passed /\ \A u : Asked(u)
    BY <2>1, NoneBecomes
  <2>3. QED
    BY <2>1, <2>2, CloseTabTrue
<1>2. ASSUME CloseConfirmed(p, TRUE) PROVE TrueInv'
  <2>1. /\ op[p].at = "dialog" /\ Become(p, Idle) /\ strayed' = strayed
        /\ CloseTab(op[p].tab)
    BY <1>2 DEF CloseConfirmed
  <2>2. Fresh(Idle, tabs')
    BY DEF Fresh, Idle
  <2>3. Passed /\ \A u : ~Asks(op[p], u, tabs[u], disk[tabs[u].path]) => Asked(u)
    BY <2>1, <2>2, OneBecomes
  <2>4. \A u : Asked(u)
    BY <2>1, <2>3 DEF Asks
  <2>5. QED
    BY <2>1, <2>3, <2>4, CloseTabTrue
<1>3. QED
  BY <1>1, <1>2

(* doDeleteEntry(): the note is in the trash and its tabs close.  A check  *)
(* of a tab that was opened at the path since is void, and the tab strays  *)
(* if it needed one.                                                       *)
LEMMA DeleteAnsweredTrue ==
  ASSUME TypeInv, TypeInv', TrueInv, NEW p \in Proc, DeleteAnswered(p),
         UNCHANGED <<files, watcher, last>>
  PROVE  TrueInv'
<1>1. PICK gone, paths :
        /\ CloseTabs(gone) /\ tabs' = tabs /\ op[p].cmd = "trash"
        /\ op' = [Outdate(paths, op) EXCEPT ![p] = Idle]
        /\ strayed' = strayed \union {t \in items' : /\ tabs[t].path \in paths \ {None}
                                                    /\ ~tabs[t].dirty
                                                    /\ Overtaken(tabs[t].path, tabs[t].base)}
  <2>1. PICK gone, paths : gone = op[p].todo /\ paths = {tabs[t].path : t \in op[p].todo}
    OBVIOUS
  <2>2. QED
    BY <2>1 DEF DeleteAnswered, Answered
<1>2. Passed /\ \A t : tabs[t].path \notin paths => Asked(t)
  BY <1>1, Outdated
<1>3. /\ items' \subseteq items /\ \A t \in items' : Left(t)
      /\ \/ active' = 0
         \/ tabs'[active'].content = editor'
         \/ /\ active' = active /\ editor' = editor
            /\ tabs'[active].content = tabs[active].content
  BY <1>1, ClosedLeaves
<1>4. disk' = disk /\ changes' = changes /\ removals' = removals
  BY DEF files, watcher
<1>5. ASSUME NEW t \in items' \ strayed' PROVE Faithful(t)' \/ (Left(t) /\ Told(t))
  <2>1. CASE tabs[t].dirty
    BY <1>1, <2>1, DirtyIsFaithful
  <2>2. CASE tabs[t].path \notin paths
    BY <1>2, <1>3, <2>2, ToldStill
  <2>3. CASE ~tabs[t].dirty /\ tabs[t].path \in paths
    <3>1. tabs[t].path = None \/ ~Overtaken(tabs[t].path, tabs[t].base)
      BY <1>1, <1>5, <2>3
    <3>2. Told(t)
      BY <1>4, <3>1 DEF Overtaken, Told
    <3>3. QED
      BY <1>3, <3>2
  <2>4. QED
    BY <2>1, <2>2, <2>3
<1>6. strayed \subseteq strayed' /\ \A t \in items' : tabs'[t].path = tabs[t].path
  BY <1>1
<1>7. QED
  BY <1>2, <1>3, <1>5, <1>6, TrueStays

(* doRenameEntry(): the tabs of the note follow it.                        *)
LEMMA RenameAnsweredTrue ==
  ASSUME TypeInv, TypeInv', TrueInv, NEW p \in Proc, RenameAnswered(p),
         UNCHANGED <<files, watcher, last>>
  PROVE  TrueInv'
<1>0. PICK o, moved, twins : o = op[p] /\ moved = ByPath(o.path) /\ twins = ByPath(o.to)
  OBVIOUS
<1>1. /\ UNCHANGED <<items, active, editor>> /\ o.cmd = "rename" /\ o.at = "answer"
      /\ tabs' = [t \in DOMAIN tabs |->
                    IF t \in moved THEN [tabs[t] EXCEPT !.path = o.to, !.removed = FALSE]
                    ELSE tabs[t]]
      /\ op' = [IF moved = {} THEN op ELSE Outdate({o.path}, op) EXCEPT ![p] = Idle]
      /\ disk' = disk /\ changes' = changes /\ removals' = removals
  BY <1>0 DEF RenameAnswered, Answered, files, watcher
<1>s. /\ strayed \subseteq strayed'
      /\ \A t \in moved : ~tabs[t].dirty /\ Overtaken(o.to, tabs[t].base) => t \in strayed'
      /\ moved # {} /\ twins # {} => moved \union twins \subseteq strayed'
  <2>1. strayed' = strayed
          \union {t \in moved : ~tabs[t].dirty /\ Overtaken(o.to, tabs[t].base)}
          \union (IF moved # {} /\ twins # {} THEN moved \union twins ELSE {})
    BY <1>0 DEF RenameAnswered
  <2>2. QED
    BY <2>1
<1>2. DOMAIN tabs = 1..Len(tabs) /\ \A t \in 1..Len(tabs) : tabs[t] \in TabState
  BY Typed, TabIs
<1>3. items \subseteq 1..Len(tabs) /\ (active # 0 => active \in 1..Len(tabs))
      /\ moved \subseteq items
  BY <1>0, Typed, TabIs DEF ByPath
<1>4. \A t \in 1..Len(tabs) :
        /\ tabs'[t].content = tabs[t].content /\ tabs'[t].base = tabs[t].base
        /\ tabs'[t].dirty = tabs[t].dirty
        /\ tabs'[t].path = IF t \in moved THEN o.to ELSE tabs[t].path
  BY <1>1, <1>2 DEF TabState
<1>5. \A t \in items : Live(t)' = Live(t)
  BY <1>1, <1>3, <1>4 DEF Live
<1>6. Passed /\ \A t \in items \ moved : Asked(t)
  <2>1. CASE moved = {}
    <3>1. op' = [op EXCEPT ![p] = Idle] /\ calls' = calls
      BY <1>1, <2>1 DEF RenameAnswered
    <3>2. Become(p, Idle) /\ Fresh(Idle, tabs')
      BY <3>1 DEF Become, Idle, Fresh
    <3>3. Passed /\ \A t : ~Asks(op[p], t, tabs[t], disk[tabs[t].path]) => Asked(t)
      BY <3>2, OneBecomes
    <3>4. QED
      BY <1>0, <1>1, <3>3 DEF Asks
  <2>2. CASE moved # {}
    <3>1. op' = [Outdate({o.path}, op) EXCEPT ![p] = Idle] /\ op[p].cmd # "check"
      BY <1>0, <1>1, <2>2
    <3>2. Passed /\ \A t : tabs[t].path \notin {o.path} => Asked(t)
      BY <3>1, Outdated
    <3>3. \A t \in items \ moved : tabs[t].path \notin {o.path}
      BY <1>0 DEF ByPath
    <3>4. QED
      BY <3>2, <3>3
  <2>3. QED
    BY <2>1, <2>2
<1>7. Taken'
  <2>1. \/ active' = 0
        \/ /\ active' = active /\ editor' = editor /\ strayed \subseteq strayed'
           /\ tabs'[active].content = tabs[active].content
    BY <1>1, <1>3, <1>4, <1>s
  <2>2. QED
    BY <1>6, <2>1, TakenStays DEF TrueInv
<1>8. Alone'
  <2>1. ASSUME NEW t \in items, NEW u \in items, t # u, tabs'[t].path # None,
               tabs'[t].path = tabs'[u].path
        PROVE  t \in strayed'
    <3>1. CASE t \in moved <=> u \in moved
      <4>1. tabs[t].path = tabs[u].path /\ tabs[t].path # None
        <5>1. CASE t \in moved
          <6>1. tabs[t].path = o.path /\ tabs[u].path = o.path
            BY <1>0, <3>1, <5>1 DEF ByPath
          <6>2. o.path # None
            BY <1>0, <1>1, Typed, NoneAssumption DEF Shape, Fitting
          <6>3. QED
            BY <6>1, <6>2
        <5>2. CASE t \notin moved
          BY <1>3, <1>4, <2>1, <3>1, <5>2
        <5>3. QED
          BY <5>1, <5>2
      <4>2. QED
        BY <1>s, <2>1, <4>1 DEF TrueInv, Alone
    <3>2. CASE t \in moved /\ u \notin moved
      <4>1. u \in twins
        BY <1>0, <1>3, <1>4, <2>1, <3>2 DEF ByPath
      <4>2. QED
        BY <1>s, <3>2, <4>1
    <3>3. CASE u \in moved /\ t \notin moved
      <4>1. t \in twins
        BY <1>0, <1>3, <1>4, <2>1, <3>3 DEF ByPath
      <4>2. QED
        BY <1>s, <3>3, <4>1
    <3>4. QED
      BY <3>1, <3>2, <3>3
  <2>2. QED
    BY <1>1, <2>1 DEF Alone
<1>9. ASSUME NEW t \in items' \ strayed' PROVE Faithful(t)'
  <2>1. t \in items /\ t \in 1..Len(tabs) /\ Faithful(t)
    BY <1>1, <1>3, <1>s DEF TrueInv, Trusted
  <2>2. CASE tabs[t].dirty
    BY <1>4, <2>1, <2>2, DirtyIsFaithful
  <2>3. CASE t \notin moved
    <3>1. Left(t)
      BY <1>4, <1>5, <2>1, <2>3 DEF Left
    <3>2. Told(t)
      BY <1>6, <2>1, <2>3, ToldStill
    <3>3. QED
      BY <2>1, <3>1, <3>2, FaithfulStays
  <2>4. CASE t \in moved /\ ~tabs[t].dirty
    <3>1. ~Overtaken(o.to, tabs[t].base)
      BY <1>9, <1>s, <2>4
    <3>2. tabs'[t].base = Live(t)' /\ tabs'[t].base = tabs[t].base /\ tabs'[t].path = o.to
      BY <1>4, <1>5, <2>1, <2>4 DEF Faithful
    <3>3. \/ disk'[tabs'[t].path] = tabs'[t].base
          \/ tabs'[t].path \in changes' \union removals'
      BY <1>1, <3>1, <3>2 DEF Overtaken
    <3>4. QED
      BY <3>2, <3>3, FaithfulIs
  <2>5. QED
    BY <2>2, <2>3, <2>4
<1>10. QED
  BY <1>7, <1>8, <1>9 DEF TrueInv, Trusted

(* restoreVersion(): the restored note goes into the first tab that has    *)
(* the path.                                                               *)
LEMMA ReloadAnsweredTrue ==
  ASSUME TypeInv, TypeInv', TrueInv, NEW p \in Proc, ReloadAnswered(p),
         UNCHANGED <<files, watcher, last>>
  PROVE  TrueInv'
<1>0. PICK o, t : o = op[p] /\ t = TheTab(o.path)
  OBVIOUS
<1>1. /\ o.cmd = "read" /\ Become(p, Idle) /\ UNCHANGED <<items, active>>
  BY <1>0 DEF ReloadAnswered, Answered
<1>2. Fresh(Idle, tabs')
  BY DEF Fresh, Idle
<1>3. Passed /\ \A u : ~Asks(op[p], u, tabs[u], disk[tabs[u].path]) => Asked(u)
  BY <1>1, <1>2, OneBecomes
<1>4. \A u : Asked(u)
  BY <1>0, <1>1, <1>3 DEF Asks
<1>5. \A u : Told(u)
  BY <1>4, ToldStill
<1>6. CASE ByPath(o.path) = {}
  <2>1. UNCHANGED <<tabs, items, active, editor, strayed>>
    BY <1>0, <1>1, <1>6 DEF ReloadAnswered
  <2>2. \A u \in items' : Left(u)
    BY <2>1 DEF Left, Live
  <2>3. /\ items' \subseteq items /\ strayed \subseteq strayed'
        /\ \A u \in items' : tabs'[u].path = tabs[u].path
        /\ active' = active /\ editor' = editor /\ tabs'[active].content = tabs[active].content
    BY <2>1
  <2>4. QED
    BY <1>3, <1>5, <2>2, <2>3, TrueStays
<1>7. CASE ByPath(o.path) # {}
  <2>1. t \in items /\ t \in 1..Len(tabs) /\ tabs[t].path = o.path
    BY <1>0, <1>7, Typed, TheTabIs
  <2>2. /\ tabs' = [tabs EXCEPT ![t].content = o.got, ![t].base = o.got, ![t].dirty = FALSE]
        /\ editor' = IF t = active THEN o.got ELSE editor
        /\ strayed' = IF Overtaken(o.path, o.got) THEN strayed \union {t} ELSE strayed
    BY <1>0, <1>7 DEF ReloadAnswered, LoadIfActive
  <2>3. /\ DOMAIN tabs = 1..Len(tabs) /\ \A u \in 1..Len(tabs) : tabs[u] \in TabState
        /\ items \subseteq 1..Len(tabs) /\ (active # 0 => active \in 1..Len(tabs))
    BY Typed, TabIs
  <2>4. /\ tabs'[t].content = o.got /\ tabs'[t].base = o.got /\ tabs'[t].path = o.path
        /\ \A u \in 1..Len(tabs) : u # t => tabs'[u] = tabs[u]
    BY <2>1, <2>2, <2>3 DEF TabState
  <2>5. disk' = disk /\ changes' = changes /\ removals' = removals
    BY DEF files, watcher
  <2>6. ASSUME NEW u \in items' \ strayed' PROVE Faithful(u)' \/ (Left(u) /\ Told(u))
    <3>1. CASE u = t
      <4>1. ~Overtaken(o.path, o.got)
        BY <2>2, <2>6, <3>1
      <4>2. tabs'[u].base = Live(u)'
        BY <1>1, <2>2, <2>4, <3>1 DEF Live
      <4>3. \/ disk'[tabs'[u].path] = tabs'[u].base
            \/ tabs'[u].path \in changes' \union removals'
        BY <2>4, <2>5, <3>1, <4>1 DEF Overtaken
      <4>4. QED
        BY <4>2, <4>3, FaithfulIs
    <3>2. CASE u # t
      <4>1. tabs'[u] = tabs[u]
        BY <1>1, <2>3, <2>4, <3>2
      <4>2. Left(u)
        BY <1>1, <2>2, <3>2, <4>1 DEF Left, Live
      <4>3. QED
        BY <1>5, <4>2
    <3>3. QED
      BY <3>1, <3>2
  <2>7. /\ items' \subseteq items /\ strayed \subseteq strayed'
        /\ \A u \in items' : tabs'[u].path = tabs[u].path
    BY <1>1, <2>1, <2>2, <2>3, <2>4
  <2>8. \/ active' = 0
        \/ tabs'[active'].content = editor'
        \/ /\ active' = active /\ editor' = editor
           /\ tabs'[active].content = tabs[active].content
    BY <1>1, <2>2, <2>3, <2>4
  <2>9. QED
    BY <1>3, <2>6, <2>7, <2>8, TrueStays
<1>8. QED
  BY <1>6, <1>7

(* The watcher's word of a note is taken up: the tab that has the path is  *)
(* asked about, and no other tab that is trusted has it.                   *)
LEMMA WatchTrue ==
  ASSUME TypeInv, TypeInv', TrueInv, NEW p \in Proc, NEW path \in Path, Watch(p, path),
         UNCHANGED <<files, last>>
  PROVE  TrueInv'
<1>1. /\ tabs' = tabs /\ items' = items /\ active' = active /\ editor' = editor
      /\ strayed' = strayed /\ changes' = changes \ {path} /\ removals' = removals
      /\ disk' = disk
  BY DEF Watch, screen, files
<1>2. \A u \in items' : Left(u)
  BY <1>1 DEF Left, Live
<1>3. \A u : tabs[u].path # path /\ Asked(u) => Told(u)
  BY <1>1 DEF Told
<1>4. CASE ByPath(path) = {}
  <2>1. Passed /\ \A u : Asked(u)
    <3>1. op' = op
      BY <1>4 DEF Watch, running
    <3>2. QED
      BY <3>1, NoneBecomes
  <2>2. \A u \in items' : tabs[u].path # path
    BY <1>1, <1>4 DEF ByPath
  <2>3. \A u \in items' : Told(u)
    BY <1>3, <2>1, <2>2
  <2>4. QED
    BY <1>1, <1>2, <2>1, <2>3, TrueStays
<1>5. CASE ByPath(path) # {}
  <2>1. PICK t, r : t = TheTab(path) /\ r = Check(Of("watch"), t, tabs, Mine(t))
    OBVIOUS
  <2>2. Become(p, r) /\ op[p] = Idle
    BY <1>5, <2>1 DEF Watch
  <2>3. t \in items /\ t \in 1..Len(tabs) /\ tabs[t].path = path
    BY <1>5, <2>1, Typed, TheTabIs
  <2>4. Of("watch") \in HandlerOf(Len(tabs), last)
    BY Typed, OfIs DEF Kind
  <2>5. Mine(t) \in 0..last /\ tabs[t].base \in 0..last /\ tabs[t].path \in Path \union {None}
    <3>1. Mine(t) \in 1..last /\ tabs[t].base \in 1..last
      BY <2>3, Typed, TabIs DEF Tabbed
    <3>2. QED
      BY <2>3, <3>1, Typed
  <2>6. Asking(r, Of("watch"), t, tabs, Mine(t), Len(tabs), last)
    BY <2>1, <2>3, <2>4, <2>5, Typed, CheckIs
  <2>7. Fresh(r, tabs')
    BY <2>6 DEF Asking, Fresh
  <2>8. /\ Passed
        /\ \A u : ~Asks(op[p], u, tabs[u], disk[tabs[u].path]) => Asked(u)
    BY <2>2, <2>7, OneBecomes
  <2>9. \A u : Asked(u)
    BY <2>2, <2>8 DEF Asks, Idle
  <2>10. ASSUME NEW u \in items' \ strayed' PROVE Faithful(u)' \/ (Left(u) /\ Told(u))
    <3>1. CASE tabs[u].path # path
      BY <1>2, <1>3, <2>9, <3>1
    <3>2. CASE tabs[u].path = path /\ tabs[u].dirty
      BY <1>1, <3>2, DirtyIsFaithful
    <3>3. CASE tabs[u].path = path /\ ~tabs[u].dirty
      <4>1. u = t
        <5>1. path # None
          BY NoneAssumption
        <5>2. QED
          BY <1>1, <2>3, <2>10, <3>3, <5>1 DEF TrueInv, Alone
      <4>2. Mine(u) = tabs[u].base
        BY <3>3 DEF Mine, MineIn
      <4>3. Asks(r, u, tabs[u], disk[tabs[u].path])
        BY <2>6, <4>1, <4>2 DEF Asking, Asks
      <4>4. op'[p] = r
        BY <2>2, Typed DEF Become, Handlers
      <4>5. Heard(u)'
        BY <1>1, <4>3, <4>4 DEF Heard
      <4>6. tabs[u].base = Live(u) /\ Live(u)' = Live(u)
        BY <1>1, <2>10, <3>3 DEF TrueInv, Trusted, Faithful, Live
      <4>7. QED
        BY <1>1, <4>5, <4>6 DEF Faithful
    <3>4. QED
      BY <3>1, <3>2, <3>3
  <2>11. QED
    BY <1>1, <2>8, <2>10, TrueStays
<1>6. QED
  BY <1>4, <1>5

(* Typing: the tab on screen takes the unsaved mark, and the new text has  *)
(* not been sent.                                                          *)
LEMMA TypeTrue ==
  ASSUME TypeInv, TypeInv', TrueInv, Type, UNCHANGED <<files, watcher>>
  PROVE  TrueInv'
<1>1. /\ items' = items /\ active' = active /\ op' = op /\ strayed' = strayed
      /\ editor' = last + 1
      /\ tabs' = IF active = 0 THEN tabs ELSE [tabs EXCEPT ![active].dirty = TRUE]
  BY DEF Type, running
<1>2. /\ DOMAIN tabs = 1..Len(tabs) /\ \A t \in 1..Len(tabs) : tabs[t] \in TabState
      /\ items \subseteq 1..Len(tabs) /\ (active # 0 => active \in 1..Len(tabs))
      /\ (active = 0) = (items = {})
  BY Typed, TabIs DEF Screen
<1>3. \A t \in 1..Len(tabs) :
        /\ tabs'[t].path = tabs[t].path /\ tabs'[t].base = tabs[t].base
        /\ tabs'[t].content = tabs[t].content
        /\ IF t = active THEN tabs'[t].dirty ELSE tabs'[t].dirty = tabs[t].dirty
  <2>1. CASE active = 0
    BY <1>1, <1>2, <2>1
  <2>2. CASE active # 0
    BY <1>1, <1>2, <2>2 DEF TabState
  <2>3. QED
    BY <2>1, <2>2
<1>4. \A t : Asked(t)
  BY <1>1, NoneBecomes
<1>5. ASSUME NEW t \in items' \ strayed' PROVE Faithful(t)'
  <2>1. t \in items /\ t \in 1..Len(tabs) /\ Faithful(t)
    BY <1>1, <1>2 DEF TrueInv, Trusted
  <2>2. CASE t = active
    BY <1>3, <2>1, <2>2, DirtyIsFaithful
  <2>3. CASE t # active
    <3>1. Live(t)' = Live(t)
      BY <1>1, <1>3, <2>1, <2>3 DEF Live
    <3>2. Left(t)
      BY <1>3, <2>1, <2>3, <3>1 DEF Left
    <3>3. QED
      BY <1>4, <2>1, <3>2, ToldStill, FaithfulStays
  <2>4. QED
    BY <2>2, <2>3
<1>6. Alone'
  BY <1>1, <1>2, <1>3, AloneStays DEF TrueInv
<1>7. ASSUME NEW q \in Proc PROVE op[q].text # last + 1
  <2>1. op[q].text \in 0..last /\ last \in Nat
    BY Typed DEF Handler
  <2>2. QED
    BY <2>1
<1>8. Taken'
  BY <1>1, <1>7 DEF Taken, Sent
<1>9. QED
  BY <1>5, <1>6, <1>8 DEF TrueInv, Trusted

(* The backend runs a command: a check that asks about a tab is told what  *)
(* its note holds, and the watcher hears of every note that changes.       *)
LEMMA RanTrue ==
  ASSUME TypeInv, TypeInv', TrueInv, NEW p, Ran(p), NEW ok, NEW got, Done(p, ok, got),
         op[p].cmd = "check" => ok /\ got = disk[op[p].path],
         strayed' = strayed, changes \subseteq changes', removals \subseteq removals',
         \A path \in Path : disk'[path] = disk[path] \/ path \in changes' \union removals'
  PROVE  TrueInv'
<1>1. /\ p \in Proc /\ tabs' = tabs /\ items' = items /\ active' = active /\ editor' = editor
  BY DEF Ran, screen
<1>2. PICK o, r : o = op[p] /\ r = [o EXCEPT !.at = IF ok THEN "answer" ELSE "failed", !.got = got]
  OBVIOUS
<1>3. o \in Handler
  BY <1>1, <1>2, Typed
<1>4. /\ r.kind = o.kind /\ r.cmd = o.cmd /\ r.tab = o.tab /\ r.path = o.path
      /\ r.text = o.text /\ r.base = o.base /\ r.outdated = o.outdated
      /\ r.got = got /\ r.at = IF ok THEN "answer" ELSE "failed"
  BY <1>2, <1>3 DEF Handler
<1>5. op' = [op EXCEPT ![p] = r] /\ op \in [Proc -> Handler]
  BY <1>2, Typed DEF Done, Handlers
<1>6. \A q \in Proc : op'[q] = IF q = p THEN r ELSE op[q]
  BY <1>5
<1>7. Passed
  BY <1>2, <1>4, <1>6 DEF Passed, Alike
<1>8. ASSUME NEW t PROVE Asked(t)
  <2>1. ASSUME Asks(o, t, tabs[t], disk[tabs[t].path]) PROVE Asks(r, t, tabs[t], disk[tabs[t].path])
    BY <1>2, <1>4, <2>1 DEF Asks
  <2>2. QED
    BY <1>2, <1>6, <2>1 DEF Asked
<1>9. ASSUME NEW t \in items' PROVE Left(t) /\ Told(t)
  <2>1. Left(t)
    BY <1>1 DEF Left, Live
  <2>2. tabs[t].path \in Path \union {None}
    BY <1>1, <1>9, Typed DEF Tabbed
  <2>3. Told(t)
    BY <1>8, <2>2 DEF Told
  <2>4. QED
    BY <2>1, <2>3
<1>10. QED
  BY <1>1, <1>7, <1>9, TrueStays

(* The eight commands.                                                     *)
LEMMA BackendTrue ==
  ASSUME TypeInv, TypeInv', TrueInv, Backend
  PROVE  TrueInv'
<1>1. PICK p, o : p = Head(calls) /\ o = op[p]
  OBVIOUS
<1>2. /\ calls # <<>> /\ UNCHANGED <<screen, last, ops, owed>>
      /\ \/ ReadNote(p) \/ SaveFile(p) \/ RestoreSnapshot(p) \/ CreateNote(p)
         \/ RenameEntry(p) \/ MoveToTrash(p) \/ RestoreFromTrash(p) \/ Refuse(p)
  BY <1>1 DEF Backend
<1>3. Ran(p)
  BY <1>1, <1>2, HeadRuns
<1>4. disk \in [Path -> Known \union {0}]
  BY Typed DEF Files, NoFile
<1> DEFINE Word ==
      /\ strayed' = strayed /\ changes \subseteq changes' /\ removals \subseteq removals'
      /\ \A path \in Path : disk'[path] = disk[path] \/ path \in changes' \union removals'
<1>5. ASSUME NEW ok, NEW got, Done(p, ok, got), o.cmd = "check" => ok /\ got = disk[o.path], Word
      PROVE  TrueInv'
  BY <1>1, <1>3, <1>5, RanTrue
<1>6. CASE ReadNote(p)
  <2>1. /\ Done(p, o.cmd = "check" \/ disk[o.path] # NoFile, disk[o.path]) /\ Word
    BY <1>1, <1>6 DEF ReadNote, files, watcher
  <2>2. PICK ok : ok = (o.cmd = "check" \/ disk[o.path] # NoFile)
    OBVIOUS
  <2> HIDE DEF Word
  <2>3. QED
    BY <1>5, <2>1, <2>2
<1>7. CASE SaveFile(p)
  <2>1. Done(p, TRUE, NoFile) /\ o.cmd # "check" /\ Word
    BY <1>1, <1>4, <1>7 DEF SaveFile
  <2> HIDE DEF Word
  <2>2. QED
    BY <1>5, <2>1
<1>8. CASE RestoreSnapshot(p)
  <2>1. Done(p, TRUE, NoFile) /\ o.cmd # "check" /\ Word
    BY <1>1, <1>4, <1>8 DEF RestoreSnapshot
  <2> HIDE DEF Word
  <2>2. QED
    BY <1>5, <2>1
<1>9. CASE CreateNote(p)
  <2>1. Done(p, TRUE, NoFile) /\ o.cmd # "check" /\ Word
    BY <1>1, <1>4, <1>9 DEF CreateNote
  <2> HIDE DEF Word
  <2>2. QED
    BY <1>5, <2>1
<1>10. CASE RenameEntry(p)
  <2>1. Done(p, TRUE, NoFile) /\ o.cmd # "check" /\ Word
    BY <1>1, <1>4, <1>10 DEF RenameEntry
  <2> HIDE DEF Word
  <2>2. QED
    BY <1>5, <2>1
<1>11. CASE MoveToTrash(p)
  <2>1. Done(p, TRUE, NoFile) /\ o.cmd # "check" /\ Word
    BY <1>1, <1>4, <1>11 DEF MoveToTrash
  <2> HIDE DEF Word
  <2>2. QED
    BY <1>5, <2>1
<1>12. CASE RestoreFromTrash(p)
  <2>1. Done(p, TRUE, NoFile) /\ o.cmd # "check" /\ Word
    BY <1>1, <1>4, <1>12 DEF RestoreFromTrash
  <2> HIDE DEF Word
  <2>2. QED
    BY <1>5, <2>1
<1>13. CASE Refuse(p)
  <2>1. Done(p, FALSE, NoFile) /\ o.cmd # "check" /\ Word
    BY <1>1, <1>13 DEF Refuse, watcher
  <2> HIDE DEF Word
  <2>2. QED
    BY <1>5, <2>1
<1>14. QED
  BY <1>2, <1>6, <1>7, <1>8, <1>9, <1>10, <1>11, <1>12, <1>13

(* A note that is not found leaves its tab marked.                         *)
LEMMA MissingMarks ==
  ASSUME TypeInv, NEW o, NEW t \in items, ~o.outdated, o.got = NoFile
  PROVE  Settled(t, o).dirty
<1>1. tabs[t] \in TabState
  BY Typed, TabIs
<1>2. Settled(t, o) = [tabs[t] EXCEPT !.removed = TRUE, !.dirty = TRUE]
  BY DEF Settled
<1>3. QED
  BY <1>1, <1>2 DEF TabState

(* What a handler sends after a check is of its tab's record.              *)
LEMMA OnwardIsFresh ==
  ASSUME NEW o, NEW r, NEW ts, NEW text, NEW n \in Nat, NEW l \in Nat, o \in HandlerOf(n, l),
         Onward(r, o, ts, text, n, l)
  PROVE  Fresh(r, ts)
<1>1. CASE r = Command(o, "restore")
  <2>1. Command(o, "restore").cmd = "restore"
    BY CommandIs DEF Cmd
  <2>2. QED
    BY <1>1, <2>1 DEF Fresh
<1>2. CASE r # Command(o, "restore")
  BY <1>2 DEF Onward, Fresh, Idle, Checked, Written, Shown
<1>3. QED
  BY <1>1, <1>2

(* The answer to a check: a tab that is reloaded is its note, or the       *)
(* watcher's word of the note is under way, or it strays.  A tab without   *)
(* the unsaved mark that is not reloaded was not asked about, or is found  *)
(* as it was.                                                              *)
LEMMA CheckAnsweredTrue ==
  ASSUME TypeInv, TypeInv', TrueInv, NEW p \in Proc, CheckAnswered(p),
         UNCHANGED <<files, watcher, last>>
  PROVE  TrueInv'
<1>0. PICK o, t : o = op[p] /\ t = o.tab
  OBVIOUS
<1>1. PICK ts, text, kept, r :
        /\ ts = [tabs EXCEPT ![t] = Settled(t, o)]
        /\ text = IF Reloads(o) /\ Mine(t) = o.text /\ t = active THEN o.got ELSE editor
        /\ kept = Captured(o, ts, text) /\ r = AfterCheck(o, kept, text)
  OBVIOUS
<1> DEFINE reload == Reloads(o) /\ Mine(t) = o.text
<1>2. /\ o.cmd = "check" /\ o.at = "answer" /\ tabs' = kept /\ editor' = text /\ Become(p, r)
      /\ UNCHANGED <<items, active>>
      /\ strayed' = IF reload /\ Overtaken(tabs[t].path, o.got) THEN strayed \union {t}
                    ELSE strayed
  BY <1>0, <1>1 DEF CheckAnswered, Answered
<1>3. o \in Handler /\ o.kind \in {"watch", "bulk", "save", "restore"}
  BY <1>0, <1>2, Typed DEF Shape, Fitting
<1>4. Leaving(o, ts, text, kept)
  <2>1. Checking(o, ts, text, kept)
    BY <1>0, <1>1 DEF Checking
  <2>2. QED
    BY <1>0, <1>2, <2>1, CheckLeaves
<1>5. PICK s : s = Settled(t, o)
  OBVIOUS
<1>6. /\ t \in 1..Len(tabs) /\ text \in Known
      /\ kept \in [1..Len(tabs) -> TabState]
      /\ \A u \in 1..Len(tabs) :
           LET was == IF u = t THEN s ELSE tabs[u] IN
           /\ kept[u].path = tabs[u].path /\ kept[u].base = was.base /\ kept[u].dirty = was.dirty
           /\ kept[u].content = IF o.kind = "bulk" /\ u = active THEN text ELSE was.content
  BY <1>0, <1>4, <1>5 DEF Leaving, Holding
<1>7. \/ /\ reload /\ s.content = o.got
         /\ t \in items => s.base = o.got
      \/ /\ ~reload /\ s.content = tabs[t].content /\ s.base = tabs[t].base
         /\ s.dirty = FALSE => tabs[t].dirty = FALSE
  BY <1>3, <1>5, <1>6, SettledIs
<1>8. s.dirty \in BOOLEAN /\ tabs[t].dirty \in BOOLEAN
  <2>1. s \in TabState /\ tabs[t] \in TabState
    BY <1>3, <1>5, <1>6, Typed, TabIs, SettledIs
  <2>2. QED
    BY <2>1 DEF TabState
<1>9. items \subseteq 1..Len(tabs) /\ (active # 0 => active \in 1..Len(tabs) /\ active \in items)
  BY Typed, TabIs
<1>10. disk' = disk /\ changes' = changes /\ removals' = removals
  BY DEF files, watcher
<1>11. Fresh(r, tabs')
  <2>1. /\ Len(tabs) \in Nat /\ last \in Nat /\ o \in HandlerOf(Len(tabs), last)
        /\ Tabbed(kept, Len(tabs), last) /\ text \in 1..last /\ items \subseteq 1..Len(tabs)
        /\ r = AfterCheck(o, kept, text)
    BY <1>1, <1>3, <1>6, Typed DEF Tabbed, TabState
  <2>2. Shape(o, kept)
    <3>1. Shape(o, tabs)
      BY <1>0, Typed
    <3>2. Len(tabs)' = Len(tabs)
      <4>1. DOMAIN tabs' = DOMAIN tabs
        BY <1>2, <1>6, Typed, TabIs
      <4>2. QED
        BY <4>1, SameLength
    <3>3. Grown
      BY <1>2, <1>6, <3>2, Typed DEF Grown
    <3>4. QED
      BY <1>2, <1>3, <3>1, <3>3, StillHandler
  <2>3. Onward(r, o, kept, text, Len(tabs), last)
    BY <1>2, <2>1, <2>2, AfterCheckIs
  <2>4. QED
    BY <1>2, <2>1, <2>3, OnwardIsFresh
<1>12. /\ Passed
       /\ \A u : ~Asks(op[p], u, tabs[u], disk[tabs[u].path]) => Asked(u)
  BY <1>2, <1>11, OneBecomes
<1> HIDE DEF reload
<1>13. ASSUME NEW u \in items, u # t PROVE Left(u) /\ Told(u)
  <2>1. u \in 1..Len(tabs)
    BY <1>9
  <2>2. /\ tabs'[u].path = tabs[u].path /\ tabs'[u].base = tabs[u].base
        /\ tabs'[u].dirty = tabs[u].dirty
        /\ u # active => tabs'[u].content = tabs[u].content
    BY <1>2, <1>6, <1>13, <2>1
  <2>3. Live(u)' = Live(u)
    BY <1>1, <1>2, <1>13, <2>2 DEF Live
  <2>4. ~Asks(op[p], u, tabs[u], disk[tabs[u].path])
    BY <1>0, <1>13 DEF Asks
  <2>5. QED
    BY <1>12, <2>2, <2>3, <2>4, ToldStill DEF Left
<1>14. ASSUME t \in items, t \notin strayed', reload PROVE Faithful(t)'
  <2>1. /\ tabs'[t].path = tabs[t].path /\ tabs'[t].base = o.got
        /\ t # active => tabs'[t].content = o.got
    BY <1>2, <1>6, <1>7, <1>14
  <2>2. Live(t)' = o.got
    BY <1>1, <1>2, <1>14, <2>1 DEF Live, reload
  <2>3. ~Overtaken(tabs[t].path, o.got)
    BY <1>2, <1>14
  <2>4. QED
    BY <1>10, <2>1, <2>2, <2>3, FaithfulIs DEF Overtaken
<1>15. ASSUME t \in items, ~reload, ~tabs'[t].dirty PROVE Left(t) /\ Told(t)
  <2>1. /\ tabs'[t].path = tabs[t].path /\ tabs'[t].base = tabs[t].base
        /\ t # active => tabs'[t].content = tabs[t].content
        /\ ~s.dirty /\ ~tabs[t].dirty
    BY <1>2, <1>6, <1>7, <1>8, <1>15
  <2>2. Live(t)' = Live(t)
    BY <1>1, <1>2, <1>15, <2>1 DEF Live, reload
  <2>3. Left(t)
    BY <2>1, <2>2 DEF Left
  <2>4. CASE ~Asks(op[p], t, tabs[t], disk[tabs[t].path])
    BY <1>12, <2>3, <2>4, ToldStill
  <2>5. CASE Asks(op[p], t, tabs[t], disk[tabs[t].path])
    <3>1. /\ ~o.outdated /\ o.base = tabs[t].base /\ o.text = tabs[t].base
          /\ o.got = disk[tabs[t].path]
      BY <1>0, <1>2, <2>5 DEF Asks
    <3>2. Mine(t) = o.text
      BY <2>1, <3>1 DEF Mine, MineIn
    <3>3. o.got # NoFile
      BY <1>5, <1>15, <2>1, <3>1, MissingMarks
    <3>4. o.got = o.base
      BY <1>15, <3>1, <3>2, <3>3 DEF reload, Reloads
    <3>5. Told(t)
      BY <1>10, <3>1, <3>4 DEF Told
    <3>6. QED
      BY <2>3, <3>5
  <2>6. QED
    BY <2>4, <2>5
<1>16. ASSUME NEW u \in items' \ strayed' PROVE Faithful(u)' \/ (Left(u) /\ Told(u))
  <2>1. u \in items
    BY <1>2
  <2>2. CASE u # t
    BY <1>13, <2>1, <2>2
  <2>3. CASE u = t /\ reload
    BY <1>14, <1>16, <2>1, <2>3
  <2>4. CASE u = t /\ ~reload
    BY <1>15, <2>1, <2>4, DirtyIsFaithful
  <2>5. QED
    BY <2>2, <2>3, <2>4
<1>17. /\ items' \subseteq items /\ strayed \subseteq strayed'
       /\ \A u \in items' : tabs'[u].path = tabs[u].path
  BY <1>2, <1>6, <1>9
<1>18. \/ active' = 0
       \/ tabs'[active'].content = editor'
       \/ /\ active' = active /\ editor' = editor
          /\ tabs'[active].content = tabs[active].content
  <2>1. CASE active = 0
    BY <1>2, <2>1
  <2>2. CASE active # 0 /\ active # t
    <3>1. editor' = editor
      BY <1>1, <1>2, <2>2
    <3>2. tabs'[active].content \in {editor', tabs[active].content}
      BY <1>2, <1>6, <1>9, <2>2
    <3>3. QED
      BY <1>2, <3>1, <3>2
  <2>3. CASE active # 0 /\ active = t
    <3>1. tabs'[active].content \in {editor', s.content}
      BY <1>2, <1>6, <1>9, <2>3
    <3>2. CASE reload
      <4>1. editor' = o.got /\ s.content = o.got
        BY <1>1, <1>2, <1>7, <2>3, <3>2 DEF reload
      <4>2. QED
        BY <1>2, <3>1, <4>1
    <3>3. CASE ~reload
      <4>1. editor' = editor /\ s.content = tabs[active].content
        BY <1>1, <1>2, <1>7, <2>3, <3>3 DEF reload
      <4>2. QED
        BY <1>2, <3>1, <4>1
    <3>4. QED
      BY <3>2, <3>3
  <2>4. QED
    BY <2>1, <2>2, <2>3
<1>19. QED
  BY <1>12, <1>16, <1>17, <1>18, TrueStays

(* After a write: a tab that still shows the text that was sent holds it,  *)
(* and the note does too, or the watcher's word of it is under way.        *)
LEMMA WriteAnsweredTrue ==
  ASSUME TypeInv, TypeInv', TrueInv, NEW p \in Proc, WriteAnswered(p),
         UNCHANGED <<files, watcher, last>>
  PROVE  TrueInv'
<1>1. PICK o, s, ts, r : WriteLeaves(p, o, s, ts, r)
  BY WriteAnsweredIs
<1>2. PICK t : t = o.tab
  OBVIOUS
<1>3. /\ o = op[p] /\ tabs' = ts /\ Become(p, r) /\ o.cmd = "save" /\ o.at = "answer"
      /\ t \in 1..Len(tabs) /\ \A u \in 1..Len(tabs) : ts[u] = IF u = t THEN s ELSE tabs[u]
      /\ UNCHANGED <<items, active>>
      /\ editor' = (IF o.kind = "convert" THEN o.text ELSE editor)
  BY <1>1, <1>2 DEF WriteLeaves
<1>4. /\ s.path = IF t \in items /\ o.kind \in SaveAsKind THEN o.path ELSE tabs[t].path
      /\ s.content = IF o.kind = "bulk" THEN tabs[t].content ELSE o.text
      /\ t \in items => s.base = s.content
  BY <1>1, <1>2 DEF WriteLeaves, Recorded
<1>5. o \in HandlerOf(Len(tabs), last)
  BY <1>3, Typed
<1>6. items \subseteq 1..Len(tabs) /\ (active # 0 => active \in 1..Len(tabs) /\ active \in items)
  BY Typed, TabIs
<1>7. disk' = disk /\ changes' = changes /\ removals' = removals
  BY DEF files, watcher
<1>8. PICK twins : twins = Doubled(t, o.path)
  OBVIOUS
<1>9. /\ strayed \subseteq strayed'
      /\ t \in items /\ t \notin strayed' =>
           /\ ~Overtaken(s.path, o.text)
           /\ o.text = IF t = active THEN editor' ELSE s.content
      /\ editor' # editor /\ active \notin {0, t} => active \in strayed'
      /\ o.kind \in SaveAsKind /\ t \in items /\ twins # {} => {t} \union twins \subseteq strayed'
  <2>1. PICK text, content :
          /\ text = IF o.kind = "convert" THEN o.text ELSE editor
          /\ content = IF o.kind = "bulk" THEN tabs[t].content ELSE o.text
    OBVIOUS
  <2>2. ts = [tabs EXCEPT ![t] =
               LET tab == tabs[t]
                   cont == IF o.kind = "bulk" THEN tab.content ELSE o.text
                   clean == [tab EXCEPT !.content = cont, !.base = cont,
                                        !.removed = FALSE, !.dirty = FALSE]
               IN IF t \notin items THEN [tab EXCEPT !.content = cont]
                  ELSE IF o.kind \in SaveAsKind
                  THEN [clean EXCEPT !.path = o.path, !.diverged = FALSE]
                  ELSE clean]
    BY <1>2, <1>3 DEF WriteAnswered
  <2>3. strayed' = strayed
          \union {u \in items \intersect {t} :
                    \/ Overtaken(ts[t].path, o.text)
                    \/ o.text # (IF t = active THEN text ELSE content)}
          \union (IF text # editor THEN {active} \ {0, t} ELSE {})
          \union (IF o.kind \in SaveAsKind /\ t \in items /\ Doubled(t, o.path) # {}
                  THEN {t} \union Doubled(t, o.path) ELSE {})
    BY <1>2, <1>3, <2>1, <2>2 DEF WriteAnswered
  <2>4. ts[t] = s /\ text = editor' /\ content = s.content
    BY <1>3, <1>4, <2>1
  <2>5. QED
    BY <1>8, <2>3, <2>4
<1>10. Fresh(r, tabs')
  <2>1. Onto(r, o, ts)
    BY <1>1 DEF WriteLeaves
  <2>2. CASE o.kind = "bulk"
    <3>1. r = WriteEach(Of("bulk"), o.todo, ts)
      BY <2>1, <2>2 DEF Onto
    <3>2. Of("bulk") \in HandlerOf(Len(tabs), last)
      BY Typed, OfIs DEF Kind
    <3>3. o.todo \in SUBSET (1..Len(tabs))
      BY <1>5 DEF HandlerOf
    <3>4. \A u \in 1..Len(tabs) : ts[u].path \in Path \union {None} /\ ts[u].content \in 1..last
      BY <1>1, Typed DEF WriteLeaves, TabState
    <3>5. \A u \in o.todo : ts[u].path \in Path \union {None} /\ ts[u].content \in 0..last
      BY <3>3, <3>4, Typed
    <3>6. r = Idle \/ Written(r, Of("bulk").kind, Of("bulk").pick, o.todo, ts, Len(tabs), last)
      BY <3>1, <3>2, <3>3, <3>5, Typed, WriteEachIs
    <3>7. QED
      BY <1>3, <3>6 DEF Written, Fresh, Idle
  <2>3. CASE o.kind = "restore"
    <3>1. r = Command(o, "restore")
      BY <2>1, <2>3 DEF Onto
    <3>2. r.cmd = "restore"
      BY <1>5, <3>1, Typed, CommandIs DEF Cmd
    <3>3. QED
      BY <3>2 DEF Fresh
  <2>4. CASE o.kind \notin {"bulk", "restore"}
    BY <2>1, <2>4 DEF Onto, Fresh, Idle
  <2>5. QED
    BY <2>2, <2>3, <2>4
<1>11. Passed /\ \A u : ~Asks(op[p], u, tabs[u], disk[tabs[u].path]) => Asked(u)
  BY <1>3, <1>10, OneBecomes
<1>12. \A u : Asked(u)
  BY <1>3, <1>11 DEF Asks
<1>13. ASSUME NEW u \in items, u # t
      PROVE  tabs'[u] = tabs[u] /\ Told(u) /\ (u \notin strayed' => Left(u))
  <2>1. tabs'[u] = tabs[u]
    BY <1>3, <1>6, <1>13
  <2>2. u \notin strayed' => Live(u)' = Live(u)
    BY <1>3, <1>6, <1>9, <1>13, <2>1 DEF Live
  <2>3. QED
    BY <1>12, <2>1, <2>2, ToldStill DEF Left
<1>14. ASSUME t \in items, t \notin strayed' PROVE s.content = o.text /\ Live(t)' = o.text
  <2>1. o.text = (IF t = active THEN editor' ELSE s.content) /\ t \notin strayed
    BY <1>9, <1>14
  <2>2. Live(t)' = IF t = active THEN editor' ELSE s.content
    BY <1>3 DEF Live
  <2>3. CASE o.kind # "bulk" \/ t # active
    BY <1>4, <2>1, <2>2, <2>3
  <2>4. CASE o.kind = "bulk" /\ t = active
    <3>1. Sent(o) /\ editor' = editor
      BY <1>3, <2>4 DEF TrueInv, Taken
    <3>2. o.text = editor
      BY <2>1, <2>4, <3>1
    <3>3. tabs[t].content = editor
      BY <1>2, <1>3, <2>1, <2>4, <3>1, <3>2 DEF Sent
    <3>4. QED
      BY <1>4, <2>2, <2>4, <3>1, <3>2, <3>3
  <2>5. QED
    BY <2>3, <2>4
<1>15. Trusted'
  <2>1. ASSUME NEW u \in items' \ strayed' PROVE Faithful(u)'
    <3>1. u \in items /\ Faithful(u)
      BY <1>3, <1>9 DEF TrueInv, Trusted
    <3>2. CASE u # t
      BY <1>13, <2>1, <3>1, <3>2, FaithfulStays
    <3>3. CASE u = t
      <4>1. s.base = o.text /\ Live(t)' = o.text /\ ~Overtaken(s.path, o.text) /\ tabs'[t] = s
        BY <1>3, <1>4, <1>9, <1>14, <2>1, <3>1, <3>3
      <4>2. QED
        BY <1>7, <3>3, <4>1, FaithfulIs DEF Overtaken
    <3>4. QED
      BY <3>2, <3>3
  <2>2. QED
    BY <2>1 DEF Trusted
<1>16. Taken'
  <2>1. \/ active' = 0
        \/ active' \in strayed'
        \/ tabs'[active'].content = editor'
        \/ /\ active' = active /\ editor' = editor /\ strayed \subseteq strayed'
           /\ tabs'[active].content = tabs[active].content
    <3>1. CASE active = 0 \/ active # t
      <4>1. active # 0 => tabs'[active].content = tabs[active].content
        BY <1>3, <1>6, <3>1
      <4>2. QED
        BY <1>3, <1>9, <3>1, <4>1
    <3>2. CASE active # 0 /\ active = t
      <4>1. tabs'[t].content = s.content /\ t \in items
        BY <1>3, <1>6, <3>2
      <4>2. t \notin strayed' => s.content = editor'
        BY <1>3, <1>14, <3>2, <4>1 DEF Live
      <4>3. QED
        BY <1>3, <3>2, <4>1, <4>2
    <3>3. QED
      BY <3>1, <3>2
  <2>2. QED
    BY <1>11, <2>1, TakenStays DEF TrueInv
<1>17. Alone'
  <2>1. CASE ~(o.kind \in SaveAsKind /\ t \in items)
    <3>1. \A u \in items' : tabs'[u].path = tabs[u].path
      BY <1>3, <1>4, <1>13, <2>1
    <3>2. QED
      BY <1>3, <1>9, <3>1, AloneStays DEF TrueInv
  <2>2. CASE o.kind \in SaveAsKind /\ t \in items
    <3>1. tabs'[t].path = o.path
      BY <1>3, <1>4, <2>2
    <3>2. ASSUME NEW u \in items, NEW v \in items, u # v, tabs'[u].path # None,
                 tabs'[u].path = tabs'[v].path
          PROVE  u \in strayed'
      <4>1. CASE u # t /\ v # t
        <5>1. tabs[u].path # None /\ tabs[u].path = tabs[v].path
          BY <1>13, <3>2, <4>1
        <5>2. QED
          BY <1>9, <3>2, <5>1 DEF TrueInv, Alone
      <4>2. CASE u = t \/ v = t
        <5>1. (u = t /\ v \in twins) \/ (v = t /\ u \in twins)
          BY <1>8, <1>13, <3>1, <3>2, <4>2 DEF Doubled
        <5>2. QED
          BY <1>9, <2>2, <5>1
      <4>3. QED
        BY <4>1, <4>2
    <3>3. QED
      BY <1>3, <3>2 DEF Alone
  <2>3. QED
    BY <2>1, <2>2
<1>18. QED
  BY <1>15, <1>16, <1>17 DEF TrueInv

(* One tab, of an empty note or none, and no handler.                      *)
LEMMA InitTrue ==
  ASSUME Init
  PROVE  TrueInv
<1>1. PICK path \in {None} \union {q \in Path : disk[q] = Empty} :
        tabs = <<NewTab(path, Empty)>>
  BY DEF Init
<1>2. items = {1} /\ active = 1 /\ editor = Empty /\ op = [q \in Proc |-> Idle]
  BY DEF Init
<1>3. tabs[1] = NewTab(path, Empty)
  BY <1>1
<1>4. tabs[1].path = path /\ tabs[1].base = Empty
  BY <1>3 DEF NewTab
<1>5. Live(1) = Empty
  BY <1>2 DEF Live
<1>6. path = None \/ disk[path] = Empty
  OBVIOUS
<1>7. Faithful(1)
  BY <1>4, <1>5, <1>6 DEF Faithful, Heard
<1>8. Alone
  BY <1>2 DEF Alone
<1>9. Taken
  BY <1>2 DEF Taken, Sent, Idle
<1>10. QED
  BY <1>2, <1>7, <1>8, <1>9 DEF TrueInv, Trusted

(* A handler that goes on.                                                 *)
LEMMA ContinueTrue ==
  ASSUME TypeInv, TypeInv', TrueInv, NEW p \in Proc, Continue(p), UNCHANGED <<files, watcher, last>>
  PROVE  TrueInv'
<1>1. ASSUME RetryCheck(p) \/ CheckAnswered(p) \/ WriteAnswered(p) PROVE TrueInv'
  BY <1>1, RetryCheckTrue, CheckAnsweredTrue, WriteAnsweredTrue
<1>2. ASSUME RenameAnswered(p) \/ DeleteAnswered(p) \/ ReloadAnswered(p) PROVE TrueInv'
  BY <1>2, RenameAnsweredTrue, DeleteAnsweredTrue, ReloadAnsweredTrue
<1>3. ASSUME OpenAnswered(p) \/ CreateAnswered(p) PROVE TrueInv'
  BY <1>3, OpenAnsweredTrue
<1>4. ASSUME \/ Failed(p) \/ UndoAnswered(p) \/ RestoreAnswered(p)
             \/ \E path \in Path \union {None} : PickSavePath(p, path)
             \/ \E yes \in BOOLEAN : DeleteConfirmed(p, yes) \/ RestoreConfirmed(p, yes)
      PROVE  TrueInv'
  BY <1>4, WaitedTrue
<1>5. ASSUME NEW yes \in BOOLEAN, CloseConfirmed(p, yes) PROVE TrueInv'
  <2>1. CASE yes = TRUE
    BY <1>5, <2>1, CloseTrue
  <2>2. CASE yes = FALSE
    BY <1>5, <2>2, WaitedTrue
  <2>3. QED
    BY <2>1, <2>2
<1>6. QED
  BY <1>1, <1>2, <1>3, <1>4, <1>5 DEF Continue

(* No step of anyone leaves a trusted tab unlike its note, with no word of *)
(* the note under way.                                                     *)
LEMMA StepTrue ==
  ASSUME TypeInv, TrueInv, [Next]_vars
  PROVE  TrueInv'
<1>0. TypeInv'
  BY NextTypes
<1>1. ASSUME Backend PROVE TrueInv'
  BY <1>0, <1>1, BackendTrue
<1>2. ASSUME NEW p \in Proc, Start(p), UNCHANGED <<files, watcher, last>> PROVE TrueInv'
  BY <1>0, <1>2, StartTrue, CloseTrue
<1>3. ASSUME NEW p \in Proc, Continue(p), UNCHANGED <<files, watcher, last>> PROVE TrueInv'
  BY <1>0, <1>3, ContinueTrue
<1>4. ASSUME New \/ RefreshHistory \/ (\E t \in items : Switch(t)),
             UNCHANGED <<files, watcher, last>>
      PROVE  TrueInv'
  BY <1>0, <1>4, NewTrue, RefreshHistoryTrue
<1>5. ASSUME NEW p \in Proc, NEW path \in Path, Watch(p, path), UNCHANGED <<files, last>>
      PROVE  TrueInv'
  BY <1>0, <1>5, WatchTrue
<1>6. ASSUME NEW path \in Path, NoticeRemoval(path), UNCHANGED <<files, last>> PROVE TrueInv'
  BY <1>0, <1>6, NoticeRemovalTrue
<1>7. ASSUME Type, UNCHANGED <<files, watcher>> PROVE TrueInv'
  BY <1>0, <1>7, TypeTrue
<1>8. ASSUME UNCHANGED vars PROVE TrueInv'
  <2>1. /\ UNCHANGED <<files, watcher>> /\ op' = op /\ strayed' = strayed /\ tabs' = tabs
        /\ items' = items /\ active' = active /\ editor' = editor
    BY <1>8 DEF vars, running, screen
  <2>2. Passed /\ \A t : Asked(t)
    BY <2>1, NoneBecomes
  <2>3. \A t : Left(t) /\ Told(t)
    BY <2>1, <2>2, ToldStill DEF Left, Live
  <2>4. QED
    BY <1>0, <2>1, <2>2, <2>3, TrueStays
<1>9. QED
  BY <1>1, <1>2, <1>3, <1>4, <1>5, <1>6, <1>7, <1>8 DEF Next

(* Once every handler and every event is through, a tab without the        *)
(* unsaved mark has a note, shows it and would merge from it, whatever     *)
(* order the saves, checks, renames, deletions and restores of any number  *)
(* of tabs were answered in, but for the tabs that strayed.                *)
THEOREM CleanTabsShowTheirNotes == Spec => []CleanTabIsOnDisk
<1>1. Init => TypeInv /\ TrueInv
  BY InitTypes, InitTrue
<1>2. TypeInv /\ TrueInv /\ [Next]_vars => (TypeInv /\ TrueInv)'
  BY NextTypes, StepTrue
<1>3. TrueInv => CleanTabIsOnDisk
  <2>1. ASSUME TrueInv, \A q \in Proc : op[q] = Idle, removals = {}, changes = {},
               NEW t \in items \ strayed, tabs[t].path # None, ~tabs[t].dirty
        PROVE  disk[tabs[t].path] = Live(t) /\ tabs[t].base = Live(t)
    <3>1. \A q \in Proc : ~Asks(op[q], t, tabs[t], disk[tabs[t].path])
      BY <2>1 DEF Asks, Idle
    <3>2. tabs[t].base = Live(t) /\ Heard(t)
      BY <2>1 DEF TrueInv, Trusted, Faithful
    <3>3. QED
      BY <2>1, <3>1, <3>2 DEF Heard
  <2>2. QED
    BY <2>1 DEF CleanTabIsOnDisk
<1>4. QED
  BY <1>1, <1>2, <1>3, PTL DEF Spec
===============================================================================
