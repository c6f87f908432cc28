------------------------------ MODULE Vault_proofs ------------------------------
(***************************************************************************)
(* For any paths, files, containers and bounds: the vault stays a tree, a  *)
(* file is in one place, what is in the trash is listed and goes back      *)
(* where it came from, and the versions of a note follow it.               *)
(***************************************************************************)
EXTENDS Vault, SequenceTheorems, FiniteSetTheorems, TLAPS

(* Paths below the root, and below an item.                                *)
Trail == Seq(STRING)
Items == UNION {[D -> Entry] : D \in SUBSET Trail}

(* A tree has the folders its paths go through; an item, its own too.      *)
Rooted(t) ==
  \A q \in DOMAIN t : \A a \in Ancestors(q) : a \in DOMAIN t /\ t[a] = Folder
Whole(items) ==
  /\ items \in Items /\ Rooted(items)
  /\ \A r \in DOMAIN items :
       <<>> \in DOMAIN items /\ (r # <<>> => items[<<>>] = Folder)
IsVault(t) == IsTree(t) /\ Rooted(t)

(* A container keeps an item, or nothing, under the path it came from.     *)
Container == [from : Path \cup {None}, items : Items, manifest : Path \cup {None}]
Sound(c) ==
  /\ c \in Container /\ Whole(c.items) /\ c.manifest \in {None, c.from}
  /\ \A r \in DOMAIN c.items : c.from \in Path /\ c.from \o r \in Path

Steps == {"idle", "rename", "carry", "trash", "label", "rollback", "restore", "empty"}
OnTree == {"idle", "rename", "carry"}

Types ==
  /\ IsVault(tree)
  /\ bin \in [Id -> Container] /\ \A i \in Id : Sound(bin[i])
  /\ hist \in [Path -> SUBSET File] /\ known \subseteq File
  /\ raced \subseteq File /\ buried \subseteq File /\ astray \subseteq File
  /\ limbo \subseteq Id
  /\ op \in [step : Steps, path : Path \cup {None}, to : Path \cup {None},
             id : Id \cup {None}, carry : SUBSET Path]

(* What the command in hand is about.                                      *)
OpShape ==
  /\ op.step \in OnTree => op.id = None
  /\ op.step \notin OnTree => op.id \in Id
  /\ op.step # "idle" => op.path \in Path
  /\ op.step \in {"rename", "carry"} =>
       /\ op.to \in Path /\ op.to # op.path /\ Parent(op.to) = Parent(op.path)
       /\ \A q \in op.carry : IsUnder(q, op.path)

(* What is in its container.                                               *)
InHand ==
  /\ op.step = "trash" =>
       bin[op.id] = [from |-> op.path, items |-> EmptyTree, manifest |-> None]
  /\ op.step \in {"label", "rollback"} =>
       /\ bin[op.id].from = op.path /\ bin[op.id].manifest = None
       /\ <<>> \in DOMAIN bin[op.id].items
  /\ op.step = "restore" => bin[op.id].manifest = op.path
  /\ op.step = "empty" => bin[op.id].items = EmptyTree

TypeInv == Types /\ OpShape /\ InHand

(* A file where a command is about to put one came after its check.        *)
InTheWay ==
  /\ op.step = "rename" /\ op.to \in DOMAIN tree /\ tree[op.to] \in File =>
       tree[op.to] \in raced
  /\ op.step \in {"label", "rollback", "restore"} /\ op.path \in DOMAIN tree
       /\ tree[op.path] \in File => tree[op.path] \in raced

(* No file is in two places, and none is there that was not made.          *)
AtOnce(f) ==
  /\ \A p, q \in DOMAIN tree : tree[p] = f /\ tree[q] = f => p = q
  /\ \A i, j \in Id : \A r \in DOMAIN bin[i].items, s \in DOMAIN bin[j].items :
       bin[i].items[r] = f /\ bin[j].items[s] = f => i = j /\ r = s
  /\ \A p \in DOMAIN tree : \A i \in Id : \A r \in DOMAIN bin[i].items :
       ~(tree[p] = f /\ bin[i].items[r] = f)
Somewhere(f) ==
  \/ \E p \in DOMAIN tree : tree[p] = f
  \/ \E i \in Id : \E r \in DOMAIN bin[i].items : bin[i].items[r] = f
Unique == \A f \in File : AtOnce(f) /\ (Somewhere(f) => f \in known)
Present == \A f \in known : Somewhere(f) \/ f \in raced \cup buried

(* A container is listed if it has an item, but while a command has it in  *)
(* hand, or if one left it.                                                *)
Listing ==
  \A i \in Id :
    \/ i \in limbo \/ (op.id = i /\ op.step # "restore")
    \/ (bin[i].manifest # None) <=> (bin[i].items # EmptyTree)

-----------------------------------------------------------------------------
(* Paths.                                                                  *)

(* The parts of a path.                                                    *)
LEMMA PartOf ==
  ASSUME NEW q \in Trail, NEW m \in 1..(Len(q) + 1), NEW n \in (m-1)..Len(q)
  PROVE  /\ Len(q) \in Nat
         /\ SubSeq(q, m, n) \in Trail /\ Len(SubSeq(q, m, n)) = n - m + 1
         /\ \A i \in 1..(n - m + 1) : SubSeq(q, m, n)[i] = q[m + i - 1]
<1>1. Len(q) \in Nat
  BY LenProperties DEF Trail
<1>2. \A i \in m..n : q[i] \in STRING
  BY <1>1, ElementOfSeq DEF Trail
<1>3. m \in Int /\ n \in Int /\ m - 1 <= n
  BY <1>1
<1>4. QED
  BY <1>1, <1>2, <1>3, SubSeqProperties DEF Trail

(* A path and what is below it.                                            *)
LEMMA Joined ==
  ASSUME NEW p \in Trail, NEW r \in Trail
  PROVE  /\ p \o r \in Trail /\ Len(p \o r) = Len(p) + Len(r)
         /\ Len(p) \in Nat /\ Len(r) \in Nat
         /\ IsUnder(p \o r, p) /\ Rest(p \o r, p) = r
<1> DEFINE q == p \o r
<1>1. /\ q \in Trail /\ Len(q) = Len(p) + Len(r)
      /\ \A i \in 1..(Len(p) + Len(r)) :
           q[i] = IF i <= Len(p) THEN p[i] ELSE r[i - Len(p)]
  BY ConcatProperties DEF Trail
<1>2. Len(p) \in Nat /\ Len(r) \in Nat
  BY LenProperties DEF Trail
<1> HIDE DEF q
<1>3. SubSeq(q, 1, Len(p)) = p
  <2>1. /\ SubSeq(q, 1, Len(p)) \in Trail /\ Len(SubSeq(q, 1, Len(p))) = Len(p)
        /\ \A i \in 1..Len(p) : SubSeq(q, 1, Len(p))[i] = q[i]
    BY <1>1, <1>2, PartOf
  <2>2. \A i \in 1..Len(p) : SubSeq(q, 1, Len(p))[i] = p[i]
    BY <1>1, <1>2, <2>1
  <2>3. QED
    BY <2>1, <2>2, SeqEqual DEF Trail
<1>4. SubSeq(q, Len(p) + 1, Len(q)) = r
  <2> DEFINE s == SubSeq(q, Len(p) + 1, Len(q))
  <2>1. /\ s \in Trail /\ Len(s) = Len(r)
        /\ \A i \in 1..Len(r) : s[i] = q[Len(p) + i]
    <3>1. Len(p) + 1 \in 1..(Len(q) + 1) /\ Len(q) \in Len(p)..Len(q)
          /\ Len(p) + 1 - 1 = Len(p) /\ Len(q) - (Len(p) + 1) + 1 = Len(r)
      BY <1>1, <1>2
    <3>2. /\ s \in Trail /\ Len(s) = Len(q) - (Len(p) + 1) + 1
          /\ \A i \in 1..(Len(q) - (Len(p) + 1) + 1) : s[i] = q[Len(p) + 1 + i - 1]
      BY <1>1, <3>1, PartOf
    <3>3. \A i \in 1..Len(r) : Len(p) + 1 + i - 1 = Len(p) + i
      BY <1>2
    <3> HIDE DEF s
    <3>4. QED
      BY <3>1, <3>2, <3>3
  <2> HIDE DEF s
  <2>2. \A i \in 1..Len(r) : s[i] = r[i]
    <3>1. ASSUME NEW i \in 1..Len(r) PROVE s[i] = r[i]
      <4>1. Len(p) + i \in 1..(Len(p) + Len(r)) /\ ~(Len(p) + i <= Len(p))
            /\ Len(p) + i - Len(p) = i
        BY <1>2
      <4>2. q[Len(p) + i] = r[Len(p) + i - Len(p)]
        BY <1>1, <4>1
      <4>3. s[i] = q[Len(p) + i]
        BY <2>1
      <4>4. QED
        BY <4>1, <4>2, <4>3
    <3>2. QED
      BY <3>1
  <2>3. s = r
    BY <2>1, <2>2, SeqEqual DEF Trail
  <2>4. QED
    BY <2>3 DEF s
<1>5. QED
  BY <1>1, <1>2, <1>3, <1>4 DEF q, IsUnder, Rest

(* What is under a path is the path and what is below it.                  *)
LEMMA Split ==
  ASSUME NEW p \in Trail, NEW q \in Trail, IsUnder(q, p)
  PROVE  Rest(q, p) \in Trail /\ q = p \o Rest(q, p)
         /\ Len(Rest(q, p)) = Len(q) - Len(p)
<1>1. Len(p) \in Nat /\ Len(q) \in Nat /\ Len(p) <= Len(q)
      /\ SubSeq(q, 1, Len(p)) = p
  BY LenProperties DEF Trail, IsUnder
<1>2. SubSeq(q, 1, Len(p)) \o SubSeq(q, Len(p) + 1, Len(q)) = SubSeq(q, 1, Len(q))
  <2>1. 1 \in 1..(Len(q) + 1) /\ Len(p) \in (1 - 1)..Len(q) /\ Len(q) \in Len(p)..Len(q)
    BY <1>1
  <2>2. QED
    BY <2>1, ConcatAdjacentSubSeq DEF Trail
<1>3. SubSeq(q, 1, Len(q)) = q
  BY SubSeqFull DEF Trail
<1>4. Rest(q, p) \in Trail /\ Len(Rest(q, p)) = Len(q) - (Len(p) + 1) + 1
  <2>1. Len(p) + 1 \in 1..(Len(q) + 1) /\ Len(q) \in (Len(p) + 1 - 1)..Len(q)
    BY <1>1
  <2>2. QED
    BY <2>1, PartOf DEF Rest
<1>5. q = p \o Rest(q, p)
  BY <1>1, <1>2, <1>3 DEF Rest
<1>6. Len(q) - (Len(p) + 1) + 1 = Len(q) - Len(p)
  BY <1>1
<1>7. QED
  BY <1>4, <1>5, <1>6

(* Paths joined twice.                                                     *)
LEMMA JoinedTwice ==
  ASSUME NEW p \in Trail, NEW a \in Trail, NEW x \in Trail
  PROVE  (p \o a) \o x = p \o (a \o x)
BY ConcatAssociative DEF Trail

(* Nothing else joined gives the same path.                                *)
LEMMA JoinedOnce ==
  ASSUME NEW p \in Trail, NEW a \in Trail, NEW x \in Trail, p \o a = p \o x
  PROVE  a = x
<1>1. Rest(p \o a, p) = a
  BY Joined
<1>2. Rest(p \o x, p) = x
  BY Joined
<1>3. QED
  BY <1>1, <1>2

(* A path is under itself, and what is under what is under it is under it. *)
LEMMA UnderSelf ==
  ASSUME NEW p \in Trail
  PROVE  IsUnder(p, p) /\ Rest(p, p) = <<>> /\ p \o <<>> = p /\ <<>> \in Trail
         /\ IsUnder(p, <<>>)
<1>1. <<>> \in Trail /\ Len(<<>>) = 0 /\ p \o <<>> = p /\ <<>> \o p = p
  BY EmptySeq, ConcatEmptySeq DEF Trail
<1>2. IsUnder(p \o <<>>, p) /\ Rest(p \o <<>>, p) = <<>>
  BY <1>1, Joined
<1>3. IsUnder(<<>> \o p, <<>>)
  BY <1>1, Joined
<1>4. QED
  BY <1>1, <1>2, <1>3

(* Two paths under each other are one.                                     *)
LEMMA UnderEachOther ==
  ASSUME NEW p \in Trail, NEW q \in Trail, IsUnder(p, q), IsUnder(q, p)
  PROVE  p = q
<1>1. Len(p) \in Nat /\ Len(q) \in Nat /\ Len(p) <= Len(q) /\ Len(q) <= Len(p)
      /\ SubSeq(q, 1, Len(p)) = p
  BY LenProperties DEF Trail, IsUnder
<1>2. Len(p) = Len(q)
  BY <1>1
<1>3. SubSeq(q, 1, Len(q)) = q
  BY SubSeqFull DEF Trail
<1>4. QED
  BY <1>1, <1>2, <1>3

(* What is under what is under a path is under it.                         *)
LEMMA UnderUnder ==
  ASSUME NEW p \in Trail, NEW q \in Trail, NEW r \in Trail,
         IsUnder(q, p), IsUnder(r, q)
  PROVE  IsUnder(r, p)
<1>1. Rest(q, p) \in Trail /\ Rest(r, q) \in Trail
      /\ q = p \o Rest(q, p) /\ r = q \o Rest(r, q)
  BY Split
<1>2. (p \o Rest(q, p)) \o Rest(r, q) = p \o (Rest(q, p) \o Rest(r, q))
  <2>1. p \in Seq(STRING) /\ Rest(q, p) \in Seq(STRING) /\ Rest(r, q) \in Seq(STRING)
    BY <1>1 DEF Trail
  <2>2. QED
    BY <2>1, ConcatAssociative
<1>3. Rest(q, p) \o Rest(r, q) \in Trail
  BY <1>1, Joined
<1>4. IsUnder(p \o (Rest(q, p) \o Rest(r, q)), p)
  BY <1>3, Joined
<1>5. QED
  BY <1>1, <1>2, <1>4

(* The folders a path goes through: those it is under, but the root and    *)
(* itself.                                                                 *)
LEMMA AncestorsAre ==
  ASSUME NEW q \in Trail, NEW a
  PROVE  a \in Ancestors(q) <=>
           a \in Trail /\ a # <<>> /\ a # q /\ IsUnder(q, a)
<1>0. Len(q) \in Nat
  BY LenProperties DEF Trail
<1>1. ASSUME a \in Ancestors(q)
      PROVE  a \in Trail /\ a # <<>> /\ a # q /\ IsUnder(q, a)
  <2>1. PICK n \in 1..(Len(q) - 1) : a = SubSeq(q, 1, n)
    BY <1>1 DEF Ancestors
  <2>2. n \in Nat /\ 1 <= n /\ n < Len(q)
    BY <1>0, <2>1
  <2>3. a \in Trail /\ Len(a) = n
    <3>1. 1 \in 1..(Len(q) + 1) /\ n \in (1 - 1)..Len(q) /\ n - 1 + 1 = n
      BY <1>0, <2>2
    <3>2. QED
      BY <2>1, <3>1, PartOf
  <2>4. a # <<>>
    BY <2>2, <2>3, EmptySeq
  <2>5. IsUnder(q, a)
    BY <1>0, <2>1, <2>2, <2>3 DEF IsUnder
  <2>6. QED
    BY <2>2, <2>3, <2>4, <2>5
<1>2. ASSUME a \in Trail, a # <<>>, a # q, IsUnder(q, a)
      PROVE  a \in Ancestors(q)
  <2>1. Len(a) \in Nat \ {0} /\ Len(a) <= Len(q) /\ SubSeq(q, 1, Len(a)) = a
    BY <1>2, EmptySeq DEF Trail, IsUnder
  <2>2. Len(a) # Len(q)
    BY <1>2, <2>1, SubSeqFull DEF Trail
  <2>3. Len(a) \in 1..(Len(q) - 1)
    BY <1>0, <2>1, <2>2
  <2>4. QED
    BY <2>1, <2>3 DEF Ancestors
<1>3. QED
  BY <1>1, <1>2

(* Two folders a path is under are one under the other.                    *)
LEMMA UnderBoth ==
  ASSUME NEW p \in Trail, NEW a \in Trail, NEW q \in Trail,
         IsUnder(q, p), IsUnder(q, a), Len(p) <= Len(a)
  PROVE  IsUnder(a, p)
<1>1. /\ Len(p) \in Nat /\ Len(a) \in Nat /\ Len(q) \in Nat /\ Len(a) <= Len(q)
      /\ SubSeq(q, 1, Len(p)) = p /\ SubSeq(q, 1, Len(a)) = a
  BY LenProperties DEF Trail, IsUnder
<1>2. \A i \in 1..Len(p) : p[i] = q[i]
  <2>1. 1 \in 1..(Len(q) + 1) /\ Len(p) \in (1 - 1)..Len(q)
    BY <1>1
  <2>2. \A i \in 1..(Len(p) - 1 + 1) : SubSeq(q, 1, Len(p))[i] = q[1 + i - 1]
    BY <2>1, PartOf
  <2>3. QED
    BY <1>1, <2>2
<1>3. \A i \in 1..Len(a) : a[i] = q[i]
  <2>1. 1 \in 1..(Len(q) + 1) /\ Len(a) \in (1 - 1)..Len(q)
    BY <1>1
  <2>2. \A i \in 1..(Len(a) - 1 + 1) : SubSeq(q, 1, Len(a))[i] = q[1 + i - 1]
    BY <2>1, PartOf
  <2>3. QED
    BY <1>1, <2>2
<1>4. SubSeq(a, 1, Len(p)) \in Trail /\ Len(SubSeq(a, 1, Len(p))) = Len(p)
      /\ \A i \in 1..Len(p) : SubSeq(a, 1, Len(p))[i] = a[i]
  <2>1. 1 \in 1..(Len(a) + 1) /\ Len(p) \in (1 - 1)..Len(a) /\ Len(p) - 1 + 1 = Len(p)
    BY <1>1
  <2>2. /\ SubSeq(a, 1, Len(p)) \in Trail /\ Len(SubSeq(a, 1, Len(p))) = Len(p)
        /\ \A i \in 1..Len(p) : SubSeq(a, 1, Len(p))[i] = a[i + 1 - 1]
    BY <2>1, PartOf
  <2>3. \A i \in 1..Len(p) : i + 1 - 1 = i
    BY <1>1
  <2>4. QED
    BY <2>2, <2>3
<1>5. \A i \in 1..Len(p) : SubSeq(a, 1, Len(p))[i] = p[i]
  <2>1. \A i \in 1..Len(p) : i \in 1..Len(a)
    BY <1>1
  <2>2. QED
    BY <1>2, <1>3, <1>4, <2>1
<1>6. SubSeq(a, 1, Len(p)) = p
  BY <1>4, <1>5, SeqEqual DEF Trail
<1>7. QED
  BY <1>6 DEF IsUnder

(* Two names of one folder have nothing in common.                         *)
LEMMA Siblings ==
  ASSUME NEW p \in Path, NEW q \in Path, p # q, Parent(p) = Parent(q)
  PROVE  /\ \A s \in Trail : ~(IsUnder(s, p) /\ IsUnder(s, q))
         /\ ~IsUnder(p, q) /\ ~IsUnder(q, p)
<1>0. /\ p \in Trail /\ q \in Trail
      /\ Len(p) \in Nat \ {0} /\ Len(q) \in Nat \ {0}
  BY PathAssumption, EmptySeq DEF Trail
<1>1. Len(Parent(p)) = Len(p) - 1 /\ Len(Parent(q)) = Len(q) - 1
  <2>1. \A s \in Trail : Len(s) \in Nat \ {0} => Len(SubSeq(s, 1, Len(s) - 1)) = Len(s) - 1
    <3>1. ASSUME NEW s \in Trail, Len(s) \in Nat \ {0}
          PROVE  Len(SubSeq(s, 1, Len(s) - 1)) = Len(s) - 1
      <4>1. 1 \in 1..(Len(s) + 1) /\ Len(s) - 1 \in (1 - 1)..Len(s)
            /\ Len(s) - 1 - 1 + 1 = Len(s) - 1
        BY <3>1
      <4>2. QED
        BY <4>1, PartOf
    <3>2. QED
      BY <3>1
  <2>2. QED
    BY <1>0, <2>1 DEF Parent
<1>2. Len(p) = Len(q)
  BY <1>0, <1>1
<1>3. \A s \in Trail : ~(IsUnder(s, p) /\ IsUnder(s, q))
  BY <1>2 DEF IsUnder
<1>4. IsUnder(p, p) /\ IsUnder(q, q)
  BY <1>0, UnderSelf
<1>5. QED
  BY <1>0, <1>3, <1>4

(* What PathAssumption says of a path and what is below it.                *)
LEMMA Paths ==
  ASSUME NEW p \in Path
  PROVE  /\ p \in Trail /\ p # <<>> /\ p # None
         /\ Ancestors(p) \subseteq Path
         /\ \/ Len(p) = 1 /\ Ancestors(p) = {}
            \/ /\ Len(p) # 1 /\ Parent(p) \in Ancestors(p)
               /\ \A a \in Ancestors(p) : a = Parent(p) \/ a \in Ancestors(Parent(p))
<1>1. p \in Trail /\ p # <<>> /\ p # None /\ Len(p) \in Nat \ {0}
  BY PathAssumption, EmptySeq DEF Trail
<1>2. Ancestors(p) \subseteq Path
  <2>1. \A n \in 1..(Len(p) - 1) : n \in 1..Len(p)
    BY <1>1
  <2>2. QED
    BY <2>1, PathAssumption DEF Ancestors
<1>3. CASE Len(p) = 1
  <2>1. 1..(Len(p) - 1) = {}
    BY <1>3
  <2>2. QED
    BY <1>1, <1>2, <1>3, <2>1 DEF Ancestors
<1>4. CASE Len(p) # 1
  <2> DEFINE n == Len(p)
  <2>0. n \in Nat \ {0} /\ n # 1
    BY <1>1, <1>4
  <2>1. n - 1 \in 1..(n - 1)
    <3> HIDE DEF n
    <3>1. QED
      BY <2>0
  <2>2. Parent(p) \in Ancestors(p)
    BY <2>1 DEF Ancestors, Parent
  <2>3. ASSUME NEW a \in Ancestors(p), a # Parent(p)
        PROVE  a \in Ancestors(Parent(p))
    <3>1. a \in Trail /\ a # <<>> /\ IsUnder(p, a) /\ a # p
      BY <1>1, AncestorsAre
    <3>2. Parent(p) \in Trail /\ IsUnder(p, Parent(p)) /\ Len(Parent(p)) = Len(p) - 1
      <4>1. 1 \in 1..(Len(p) + 1) /\ Len(p) - 1 \in (1 - 1)..Len(p)
            /\ Len(p) - 1 - 1 + 1 = Len(p) - 1
        BY <1>1
      <4>2. Len(Parent(p)) = Len(p) - 1
        BY <1>1, <4>1, PartOf DEF Parent
      <4>3. QED
        BY <1>1, <2>2, <4>2, AncestorsAre
    <3>3. Len(a) \in Nat /\ Len(a) <= Len(p) /\ SubSeq(p, 1, Len(a)) = a
      BY <3>1, LenProperties DEF Trail, IsUnder
    <3>4. Len(a) # Len(p)
      BY <1>1, <3>1, <3>3, SubSeqFull DEF Trail
    <3>5. Len(a) <= Len(Parent(p))
      <4> DEFINE k == Len(a)
      <4>1. n \in Nat /\ k \in Nat /\ k <= n /\ k # n /\ Len(Parent(p)) = n - 1
        BY <2>0, <3>2, <3>3, <3>4
      <4> HIDE DEF n, k
      <4>2. k <= n - 1
        BY <4>1
      <4>3. QED
        BY <4>1, <4>2 DEF k
    <3>6. IsUnder(Parent(p), a)
      BY <1>1, <3>1, <3>2, <3>5, UnderBoth
    <3>7. QED
      BY <2>3, <3>1, <3>2, <3>6, AncestorsAre
  <2>4. QED
    BY <1>1, <1>2, <1>4, <2>2, <2>3
<1>5. QED
  BY <1>3, <1>4

(* The folders below p that p \o r goes through.                           *)
LEMMA FoldersBelow ==
  ASSUME NEW p \in Trail, p # <<>>, NEW r \in Trail, NEW a \in Trail, a # r,
         a \in Ancestors(r) \/ a = <<>>
  PROVE  p \o a \in Ancestors(p \o r)
<1>1. IsUnder(r, a)
  BY AncestorsAre, UnderSelf
<1>2. PICK x \in Trail : r = a \o x
  BY <1>1, Split
<1>3. p \in Seq(STRING) /\ a \in Seq(STRING)
  BY DEF Trail
<1>4. p \o r = (p \o a) \o x
  BY <1>2, JoinedTwice, ZenonT(60)
<1>5. p \o a \in Trail /\ p \o r \in Trail
  BY Joined
<1>6. IsUnder(p \o r, p \o a)
  BY <1>4, <1>5, Joined
<1>7. p \o a # p \o r
  BY JoinedOnce
<1>8. p \o a # <<>>
  BY <1>3, ConcatSimplifications!concIsEmpty
<1>9. QED
  BY <1>5, <1>6, <1>7, <1>8, AncestorsAre

(* And there are no others but those p goes through.                       *)
LEMMA FoldersAbove ==
  ASSUME NEW p \in Trail, NEW r \in Trail, NEW b \in Ancestors(p \o r)
  PROVE  \/ b \in Ancestors(p)
         \/ \E a \in Trail : b = p \o a /\ a # r /\ (a \in Ancestors(r) \/ a = <<>>)
<1>1. p \o r \in Trail /\ IsUnder(p \o r, p)
  BY Joined
<1>2. b \in Trail /\ b # <<>> /\ b # p \o r /\ IsUnder(p \o r, b)
  BY <1>1, AncestorsAre
<1>3. Len(p) \in Nat /\ Len(b) \in Nat
  BY <1>2, LenProperties DEF Trail
<1>4. CASE Len(p) <= Len(b)
  <2>1. IsUnder(b, p)
    BY <1>1, <1>2, <1>4, UnderBoth
  <2>2. PICK a \in Trail : b = p \o a
    BY <1>2, <2>1, Split
  <2>3. PICK x \in Trail : p \o r = b \o x
    BY <1>1, <1>2, Split
  <2>4. a \o x \in Trail
    BY Joined
  <2>5. p \o r = p \o (a \o x)
    BY <2>2, <2>3, JoinedTwice
  <2>6. r = a \o x
    BY <2>4, <2>5, JoinedOnce
  <2>7. IsUnder(r, a)
    BY <2>6, Joined
  <2>8. a # r
    BY <1>2, <2>2
  <2>9. QED
    BY <2>2, <2>7, <2>8, AncestorsAre
<1>5. CASE ~(Len(p) <= Len(b))
  <2>1. Len(b) <= Len(p)
    BY <1>3, <1>5
  <2>2. IsUnder(p, b)
    BY <1>1, <1>2, <2>1, UnderBoth
  <2>3. b # p
    BY <1>3, <1>5
  <2>4. QED
    BY <1>2, <2>2, <2>3, AncestorsAre
<1>6. QED
  BY <1>4, <1>5

-----------------------------------------------------------------------------
(* Trees.                                                                  *)

(* What is left without an item.                                           *)
LEMMA CutIs ==
  ASSUME NEW t, NEW p \in Trail, IsVault(t)
  PROVE  /\ DOMAIN Cut(t, p) = {q \in DOMAIN t : ~IsUnder(q, p)}
         /\ \A q \in DOMAIN Cut(t, p) : Cut(t, p)[q] = t[q]
         /\ IsVault(Cut(t, p))
<1>1. /\ DOMAIN Cut(t, p) = {q \in DOMAIN t : ~IsUnder(q, p)}
      /\ \A q \in DOMAIN Cut(t, p) : Cut(t, p)[q] = t[q]
  BY DEF Cut, Under
<1>2. ASSUME NEW q \in DOMAIN Cut(t, p), NEW a \in Ancestors(q)
      PROVE  a \in DOMAIN Cut(t, p) /\ Cut(t, p)[a] = Folder
  <2>1. q \in DOMAIN t /\ q \in Path /\ ~IsUnder(q, p)
    BY <1>1 DEF IsVault, IsTree
  <2>2. q \in Trail /\ a \in Trail /\ IsUnder(q, a)
    BY <2>1, Paths, AncestorsAre
  <2>3. a \in DOMAIN t /\ t[a] = Folder
    BY <2>1 DEF IsVault, Rooted
  <2>4. ~IsUnder(a, p)
    BY <2>1, <2>2, UnderUnder
  <2>5. QED
    BY <1>1, <2>3, <2>4
<1>3. QED
  BY <1>1, <1>2 DEF IsVault, IsTree, Rooted

(* An item, by the paths below it.                                         *)
LEMMA SubtreeIs ==
  ASSUME NEW t, NEW p \in DOMAIN t, IsVault(t)
  PROVE  /\ DOMAIN Subtree(t, p) = {r \in Trail : p \o r \in DOMAIN t}
         /\ \A r \in DOMAIN Subtree(t, p) : Subtree(t, p)[r] = t[p \o r]
         /\ Whole(Subtree(t, p)) /\ <<>> \in DOMAIN Subtree(t, p)
         /\ \A q \in Under(t, p) : Rest(q, p) \in Trail /\ q = p \o Rest(q, p)
<1> DEFINE items == Subtree(t, p)
<1>0. p \in Path /\ p \in Trail /\ p # <<>> /\ \A q \in DOMAIN t : q \in Trail
  BY Paths DEF IsVault, IsTree
<1>1. \A q \in Under(t, p) : Rest(q, p) \in Trail /\ q = p \o Rest(q, p)
  BY <1>0, Split DEF Under
<1>2. DOMAIN items = {r \in Trail : p \o r \in DOMAIN t}
  <2>1. ASSUME NEW r \in Trail, p \o r \in DOMAIN t PROVE r \in DOMAIN items
    <3>1. p \o r \in Under(t, p) /\ Rest(p \o r, p) = r
      BY <1>0, <2>1, Joined DEF Under
    <3>2. QED
      BY <3>1 DEF Subtree
  <2>2. ASSUME NEW r \in DOMAIN items PROVE r \in Trail /\ p \o r \in DOMAIN t
    <3>1. PICK q \in Under(t, p) : r = Rest(q, p)
      BY DEF Subtree
    <3>2. q \in DOMAIN t
      BY DEF Under
    <3>3. QED
      BY <1>1, <3>1, <3>2
  <2>3. QED
    BY <2>1, <2>2
<1>3. \A r \in DOMAIN items : items[r] = t[p \o r]
  BY DEF Subtree
<1>4. items \in Items
  <2>1. items \in [DOMAIN items -> Entry]
    <3>1. \A r \in DOMAIN items : t[p \o r] \in Entry
      BY <1>2 DEF IsVault, IsTree
    <3>2. QED
      BY <3>1 DEF Subtree
  <2>2. DOMAIN items \in SUBSET Trail
    BY <1>2
  <2>3. QED
    BY <2>1, <2>2 DEF Items
<1>5. <<>> \in DOMAIN items
  BY <1>0, <1>2, UnderSelf
<1> HIDE DEF items
<1>6. ASSUME NEW r \in DOMAIN items, NEW a \in Trail, a # r,
             a \in Ancestors(r) \/ a = <<>>
      PROVE  a \in DOMAIN items /\ items[a] = Folder
  <2>1. r \in Trail /\ p \o r \in DOMAIN t
    BY <1>2
  <2>2. p \o a \in Ancestors(p \o r)
    BY <1>0, <1>6, <2>1, FoldersBelow
  <2>3. p \o a \in DOMAIN t /\ t[p \o a] = Folder
    BY <2>1, <2>2 DEF IsVault, Rooted
  <2>4. QED
    BY <1>2, <1>3, <2>3
<1>7. Whole(items)
  <2>1. \A r \in DOMAIN items : \A a \in Ancestors(r) : a \in Trail /\ a # r
    BY <1>2, AncestorsAre
  <2>2. Rooted(items)
    BY <1>6, <2>1 DEF Rooted
  <2>3. <<>> \in Trail
    BY <1>2, <1>5
  <2>4. QED
    BY <1>4, <1>5, <1>6, <2>2, <2>3 DEF Whole
<1>8. QED
  BY <1>1, <1>2, <1>3, <1>5, <1>7 DEF items

(* A place an item fits in is empty, or has what it replaces.              *)
LEMMA FitsIs ==
  ASSUME NEW t, NEW p \in Path, NEW items, IsVault(t), Fits(t, p, items)
  PROVE  \A q \in Under(t, p) : q = p
<1>1. ASSUME NEW q \in Under(t, p), q # p PROVE FALSE
  <2>1. q \in DOMAIN t /\ q \in Trail /\ p \in Trail /\ p # <<>> /\ IsUnder(q, p)
    BY Paths DEF Under, IsVault, IsTree
  <2>2. p \in Ancestors(q)
    BY <1>1, <2>1, AncestorsAre
  <2>3. p \in DOMAIN t
    BY <2>1, <2>2 DEF IsVault, Rooted
  <2>4. QED
    BY <1>1, <2>3 DEF Fits
<1>2. QED
  BY <1>1

(* What comes of a tree that an item is put into.                          *)
Grafted(t, p, items, g) ==
  /\ \A r \in DOMAIN items : p \o r \in DOMAIN g /\ g[p \o r] = items[r]
  /\ \A q \in DOMAIN t : ~IsUnder(q, p) => q \in DOMAIN g /\ g[q] = t[q]
  /\ \A q \in DOMAIN g : \/ q \in DOMAIN t /\ ~IsUnder(q, p)
                         \/ \E r \in DOMAIN items : q = p \o r
  /\ IsVault(g)

(* An item put where it fits.                                              *)
LEMMA GraftIs ==
  ASSUME NEW t, NEW p \in Path, NEW items, IsVault(t), Whole(items),
         <<>> \in DOMAIN items, Fits(t, p, items),
         \A r \in DOMAIN items : p \o r \in Path
  PROVE  Grafted(t, p, items, Graft(t, p, items))
<1> DEFINE g == Graft(t, p, items)
<1>0. p \in Trail /\ \A r \in DOMAIN items : r \in Trail /\ items[r] \in Entry
  BY Paths DEF Whole, Items
<1>1. DOMAIN g = DOMAIN t \cup {p \o r : r \in DOMAIN items}
  BY DEF Graft
<1>2. ASSUME NEW r \in DOMAIN items PROVE p \o r \in DOMAIN g /\ g[p \o r] = items[r]
  <2>1. IsUnder(p \o r, p) /\ Rest(p \o r, p) = r
    BY <1>0, Joined
  <2>2. QED
    BY <2>1 DEF Graft
<1>3. ASSUME NEW q \in DOMAIN t, ~IsUnder(q, p) PROVE q \in DOMAIN g /\ g[q] = t[q]
  BY <1>3 DEF Graft
<1>4. ASSUME NEW q \in DOMAIN g
      PROVE  \/ q \in DOMAIN t /\ ~IsUnder(q, p)
             \/ \E r \in DOMAIN items : q = p \o r
  <2>1. CASE q \in DOMAIN t /\ IsUnder(q, p)
    <3>1. q = p
      BY <2>1, FitsIs DEF Under
    <3>2. q = p \o <<>>
      BY <1>0, <3>1, UnderSelf
    <3>3. QED
      BY <3>2
  <2>2. QED
    BY <1>1, <2>1
<1> HIDE DEF g
<1>5. \A a \in Ancestors(p) : a \in DOMAIN g /\ g[a] = Folder
  <2>1. ASSUME NEW a \in Ancestors(p) PROVE a \in DOMAIN t /\ t[a] = Folder
    <3>1. Len(p) # 1 /\ Parent(p) \in DOMAIN t /\ t[Parent(p)] = Folder
      BY <2>1, Paths DEF Fits, InFolder
    <3>2. a = Parent(p) \/ a \in Ancestors(Parent(p))
      BY <2>1, <3>1, Paths
    <3>3. QED
      BY <3>1, <3>2 DEF IsVault, Rooted
  <2>2. ASSUME NEW a \in Ancestors(p) PROVE ~IsUnder(a, p)
    <3>1. a \in Trail /\ IsUnder(p, a) /\ a # p
      BY <1>0, <2>2, AncestorsAre
    <3>2. SUFFICES ASSUME IsUnder(a, p) PROVE FALSE
      OBVIOUS
    <3>3. QED
      BY <1>0, <3>1, <3>2, UnderEachOther
  <2>3. QED
    BY <1>3, <2>1, <2>2
<1>6. ASSUME NEW q \in DOMAIN g, NEW a \in Ancestors(q)
      PROVE  a \in DOMAIN g /\ g[a] = Folder
  <2>1. CASE q \in DOMAIN t /\ ~IsUnder(q, p)
    <3>1. a \in DOMAIN t /\ t[a] = Folder
      BY <1>6, <2>1 DEF IsVault, Rooted
    <3>2. q \in Trail /\ a \in Trail /\ IsUnder(q, a)
      BY <1>6, <2>1, Paths, AncestorsAre DEF IsVault, IsTree
    <3>3. ~IsUnder(a, p)
      BY <1>0, <2>1, <3>2, UnderUnder
    <3>4. QED
      BY <1>3, <3>1, <3>3
  <2>2. ASSUME NEW r \in DOMAIN items, q = p \o r
        PROVE  a \in DOMAIN g /\ g[a] = Folder
    <3>1. CASE a \in Ancestors(p)
      BY <1>5, <3>1
    <3>2. ASSUME NEW b \in Trail, a = p \o b, b # r, b \in Ancestors(r) \/ b = <<>>
          PROVE  a \in DOMAIN g /\ g[a] = Folder
      <4>1. b \in DOMAIN items /\ items[b] = Folder
        BY <3>2 DEF Whole, Rooted
      <4>2. QED
        BY <1>2, <3>2, <4>1
    <3>3. a \in Ancestors(p \o r) /\ r \in Trail
      BY <1>0, <1>6, <2>2
    <3>4. \/ a \in Ancestors(p)
          \/ \E b \in Trail : a = p \o b /\ b # r /\ (b \in Ancestors(r) \/ b = <<>>)
      BY <1>0, <3>3, FoldersAbove
    <3>5. QED
      BY <3>1, <3>2, <3>4
  <2>3. QED
    BY <1>4, <2>1, <2>2
<1>7. IsTree(g)
  <2>1. ASSUME NEW q \in DOMAIN g PROVE q \in Path /\ g[q] \in Entry
    <3>1. CASE q \in DOMAIN t /\ ~IsUnder(q, p)
      BY <1>3, <3>1 DEF IsVault, IsTree
    <3>2. ASSUME NEW r \in DOMAIN items, q = p \o r PROVE q \in Path /\ g[q] \in Entry
      BY <1>0, <1>2, <3>2
    <3>3. QED
      BY <1>4, <3>1, <3>2
  <2>2. QED
    BY <2>1 DEF IsTree
<1>8. QED
  BY <1>2, <1>3, <1>4, <1>6, <1>7 DEF g, Grafted, IsVault, Rooted

(* A single entry.                                                         *)
LEMMA Single ==
  ASSUME NEW e \in Entry
  PROVE  /\ Whole([r \in {<<>>} |-> e]) /\ DOMAIN [r \in {<<>>} |-> e] = {<<>>}
         /\ [r \in {<<>>} |-> e][<<>>] = e
<1>1. <<>> \in Trail /\ Len(<<>>) = 0
  BY EmptySeq DEF Trail
<1>2. Ancestors(<<>>) = {}
  <2>1. 1..(0 - 1) = {}
    OBVIOUS
  <2>2. QED
    BY <1>1, <2>1 DEF Ancestors
<1>3. {<<>>} \in SUBSET Trail
  BY <1>1
<1>4. [r \in {<<>>} |-> e] \in [{<<>>} -> Entry]
  OBVIOUS
<1>5. [r \in {<<>>} |-> e] \in Items
  BY <1>3, <1>4 DEF Items
<1>6. QED
  BY <1>2, <1>5 DEF Whole, Rooted

(* create_dir_all().                                                       *)
LEMMA ParentsAre ==
  ASSUME IsVault(tree), NEW p \in Path, CanMakeParents(p)
  PROVE  /\ DOMAIN WithParents(p) = DOMAIN tree \cup Ancestors(p)
         /\ \A q \in DOMAIN tree : WithParents(p)[q] = tree[q]
         /\ \A q \in DOMAIN WithParents(p) : q \notin DOMAIN tree =>
              WithParents(p)[q] = Folder
         /\ IsVault(WithParents(p))
<1> DEFINE t == WithParents(p)
<1>1. /\ DOMAIN t = DOMAIN tree \cup Ancestors(p)
      /\ \A q \in DOMAIN tree : t[q] = tree[q]
      /\ \A q \in DOMAIN t : q \notin DOMAIN tree => t[q] = Folder
  BY DEF WithParents
<1> HIDE DEF t
<1>2. \A q \in Ancestors(p) : q \in DOMAIN t /\ t[q] = Folder
  BY <1>1 DEF CanMakeParents
<1>3. ASSUME NEW q \in DOMAIN t, NEW a \in Ancestors(q)
      PROVE  a \in DOMAIN t /\ t[a] = Folder
  <2>1. CASE q \in DOMAIN tree
    BY <1>1, <1>3, <2>1 DEF IsVault, Rooted
  <2>2. CASE q \in Ancestors(p)
    <3>1. p \in Trail /\ q \in Trail /\ IsUnder(p, q)
          /\ a \in Trail /\ IsUnder(q, a) /\ a # <<>> /\ a # q
      BY <1>3, <2>2, Paths, AncestorsAre
    <3>2. IsUnder(p, a)
      BY <3>1, UnderUnder
    <3>3. a # p
      BY <3>1, <3>3, UnderEachOther
    <3>4. QED
      BY <1>2, <3>1, <3>2, <3>3, AncestorsAre
  <2>3. QED
    BY <1>1, <2>1, <2>2
<1>4. IsTree(t)
  BY <1>1, Paths DEF IsTree, IsVault, Entry
<1>5. QED
  BY <1>1, <1>3, <1>4 DEF t, IsVault, Rooted

(* Every entry of a vault is in a folder of it.                            *)
LEMMA EntriesAreInFolders ==
  ASSUME NEW t, IsVault(t)
  PROVE  \A p \in DOMAIN t : InFolder(t, p)
BY Paths DEF IsVault, IsTree, Rooted, InFolder

-----------------------------------------------------------------------------
(* The types.                                                              *)

(* An empty container.                                                     *)
LEMMA Nothing ==
  /\ DOMAIN EmptyTree = {} /\ EmptyTree \in Items /\ Whole(EmptyTree)
  /\ Sound(NoContainer)
  /\ \A items \in Items : items # EmptyTree <=> DOMAIN items # {}
<1>1. DOMAIN EmptyTree = {}
  BY DEF EmptyTree
<1>2. {} \in SUBSET Trail /\ EmptyTree \in [{} -> Entry]
  BY DEF EmptyTree
<1>3. EmptyTree \in Items
  BY <1>2 DEF Items
<1>4. Whole(EmptyTree)
  BY <1>1, <1>3 DEF Whole, Rooted
<1>5. Sound(NoContainer)
  BY <1>1, <1>3, <1>4 DEF Sound, NoContainer, Container
<1>6. ASSUME NEW items \in Items, DOMAIN items = {} PROVE items = EmptyTree
  <2>1. PICK D \in SUBSET Trail : items \in [D -> Entry]
    BY DEF Items
  <2>2. items = [r \in DOMAIN items |-> items[r]]
    BY <2>1
  <2>3. QED
    BY <1>6, <2>2 DEF EmptyTree
<1>7. QED
  BY <1>1, <1>3, <1>4, <1>5, <1>6

(* One container replaced.                                                 *)
LEMMA BinWith ==
  ASSUME Types, NEW i \in Id, NEW c, Sound(c), bin' = [bin EXCEPT ![i] = c]
  PROVE  /\ bin' \in [Id -> Container] /\ \A j \in Id : Sound(bin'[j])
         /\ bin'[i] = c /\ \A j \in Id : j # i => bin'[j] = bin[j]
<1>1. bin'[i] = c /\ (\A j \in Id : j # i => bin'[j] = bin[j]) /\ DOMAIN bin' = Id
  BY DEF Types
<1>2. \A j \in Id : Sound(bin'[j])
  BY <1>1 DEF Types
<1>3. c \in Container
  BY DEF Sound
<1>4. bin' \in [Id -> Container]
  BY <1>3 DEF Types
<1>5. QED
  BY <1>1, <1>2, <1>4

(* Where a single entry is put, it fits.                                   *)
LEMMA AddedFits ==
  ASSUME Types, NEW p \in Path, NEW e \in Entry, p \notin DOMAIN tree,
         InFolder(tree, p), tree' = Graft(tree, p, [r \in {<<>>} |-> e])
  PROVE  /\ IsVault(tree') /\ DOMAIN tree' = DOMAIN tree \cup {p} /\ tree'[p] = e
         /\ \A q \in DOMAIN tree : tree'[q] = tree[q]
<1> DEFINE items == [r \in {<<>>} |-> e]
<1>1. Whole(items) /\ DOMAIN items = {<<>>} /\ items[<<>>] = e
  BY Single
<1> HIDE DEF items
<1>2. p \in Trail /\ p \o <<>> = p
  BY Paths, UnderSelf
<1>3. Fits(tree, p, items) /\ <<>> \in DOMAIN items
      /\ \A r \in DOMAIN items : p \o r \in Path
  BY <1>1, <1>2 DEF Fits
<1>4. tree' = Graft(tree, p, items) /\ IsVault(tree)
  BY DEF items, Types
<1>5. \A q \in DOMAIN tree : ~IsUnder(q, p)
  BY <1>3, <1>4, FitsIs DEF Under
<1>6. Grafted(tree, p, items, tree')
  <2>1. Whole(items)
    BY <1>1
  <2>2. Grafted(tree, p, items, Graft(tree, p, items))
    BY <2>1, <1>3, <1>4, GraftIs
  <2>3. QED
    BY <1>4, <2>2
<1>7. p \in DOMAIN tree' /\ tree'[p] = e
  BY <1>1, <1>2, <1>6 DEF Grafted
<1>8. QED
  BY <1>1, <1>2, <1>5, <1>6, <1>7 DEF Grafted

-----------------------------------------------------------------------------
(* What the steps that move files do.                                      *)

(* The item p is at to.                                                    *)
Relocated(p, to) ==
  /\ \A r \in Trail : p \o r \in DOMAIN tree =>
       to \o r \in DOMAIN tree' /\ tree'[to \o r] = tree[p \o r]
  /\ \A q \in DOMAIN tree : ~IsUnder(q, p) /\ ~IsUnder(q, to) =>
       q \in DOMAIN tree' /\ tree'[q] = tree[q]
  /\ \A q \in DOMAIN tree' :
       \/ q \in DOMAIN tree /\ ~IsUnder(q, p) /\ ~IsUnder(q, to)
       \/ \E r \in Trail : q = to \o r /\ p \o r \in DOMAIN tree
  /\ \A q \in DOMAIN tree : IsUnder(q, to) => q = to

(* The item p is in container i.                                           *)
TakenIn(i, p) ==
  /\ DOMAIN bin[i].items = {} /\ bin'[i].from = p /\ bin'[i].manifest = None
  /\ \A j \in Id : j # i => bin'[j] = bin[j]
  /\ DOMAIN bin'[i].items = {r \in Trail : p \o r \in DOMAIN tree}
  /\ \A r \in DOMAIN bin'[i].items : bin'[i].items[r] = tree[p \o r]
  /\ DOMAIN tree' = {q \in DOMAIN tree : ~IsUnder(q, p)}
  /\ \A q \in DOMAIN tree' : tree'[q] = tree[q]

(* What was in container i is at p, where it came from.                    *)
TakenOut(i, p) ==
  /\ bin[i].from = p /\ DOMAIN bin'[i].items = {}
  /\ \A j \in Id : j # i => bin'[j] = bin[j]
  /\ \A r \in DOMAIN bin[i].items :
       p \o r \in DOMAIN tree' /\ tree'[p \o r] = bin[i].items[r]
  /\ \A q \in DOMAIN tree : ~IsUnder(q, p) => q \in DOMAIN tree' /\ tree'[q] = tree[q]
  /\ \A q \in DOMAIN tree' :
       \/ q \in DOMAIN tree /\ ~IsUnder(q, p)
       \/ tree'[q] = Folder /\ ~IsUnder(q, p)
       \/ \E r \in DOMAIN bin[i].items : q = p \o r
  /\ \A q \in DOMAIN tree : IsUnder(q, p) => q = p

(* A rename moves the item, and nothing else.                              *)
LEMMA RenameIs ==
  ASSUME TypeInv, Rename
  PROVE  IsVault(tree') /\ Relocated(op.path, op.to)
<1> DEFINE p == op.path
           to == op.to
           items == Subtree(tree, p)
           rest == Cut(tree, p)
<1>1. /\ p \in DOMAIN tree /\ p \in Path /\ to \in Path /\ to # p
      /\ Parent(to) = Parent(p) /\ IsVault(tree)
  BY DEF Rename, TypeInv, OpShape, Types
<1>2. Fits(rest, to, items) /\ tree' = Graft(rest, to, items)
  BY DEF Rename
<1>3. p \in Trail /\ to \in Trail
  BY <1>1, Paths
<1> HIDE DEF p, to, items, rest
<1>4. /\ DOMAIN rest = {q \in DOMAIN tree : ~IsUnder(q, p)}
      /\ \A q \in DOMAIN rest : rest[q] = tree[q]
      /\ IsVault(rest)
  BY <1>1, <1>3, CutIs DEF rest
<1>5. /\ DOMAIN items = {r \in Trail : p \o r \in DOMAIN tree}
      /\ \A r \in DOMAIN items : items[r] = tree[p \o r]
      /\ Whole(items) /\ <<>> \in DOMAIN items
  BY <1>1, SubtreeIs DEF items
<1>6. \A s \in Trail : ~(IsUnder(s, p) /\ IsUnder(s, to))
  BY <1>1, Siblings
<1>7. \A r \in DOMAIN items : to \o r \in Path
  <2>1. ASSUME NEW r \in DOMAIN items PROVE to \o r \in Path
    <3>1. p \o r \in Path
      BY <1>1, <1>5 DEF IsVault, IsTree
    <3>2. IsUnder(p \o r, p) /\ Rest(p \o r, p) = r
      BY <1>3, <1>5, Joined
    <3>3. to \o Rest(p \o r, p) \in Path
      BY <1>1, <3>1, <3>2, PathAssumption
    <3>4. QED
      BY <3>2, <3>3
  <2>2. QED
    BY <2>1
<1>8. Grafted(rest, to, items, tree')
  <2>1. Grafted(rest, to, items, Graft(rest, to, items))
    BY <1>1, <1>2, <1>4, <1>5, <1>7, GraftIs
  <2>2. QED
    BY <1>2, <2>1
<1>9. \A q \in DOMAIN tree : q \in Trail
  BY <1>1, Paths DEF IsVault, IsTree
<1>10. ASSUME NEW q \in DOMAIN tree, IsUnder(q, to) PROVE q = to
  <2>1. ~IsUnder(q, p)
    BY <1>6, <1>9, <1>10
  <2>2. q \in Under(rest, to)
    BY <1>4, <1>10, <2>1 DEF Under
  <2>3. QED
    BY <1>1, <1>2, <1>4, <2>2, FitsIs
<1>11. Relocated(p, to)
  <2>1. \A r \in Trail : p \o r \in DOMAIN tree =>
          to \o r \in DOMAIN tree' /\ tree'[to \o r] = tree[p \o r]
    BY <1>5, <1>8 DEF Grafted
  <2>2. \A q \in DOMAIN tree : ~IsUnder(q, p) /\ ~IsUnder(q, to) =>
          q \in DOMAIN tree' /\ tree'[q] = tree[q]
    BY <1>4, <1>8 DEF Grafted
  <2>3. \A q \in DOMAIN tree' :
          \/ q \in DOMAIN tree /\ ~IsUnder(q, p) /\ ~IsUnder(q, to)
          \/ \E r \in Trail : q = to \o r /\ p \o r \in DOMAIN tree
    BY <1>4, <1>5, <1>8 DEF Grafted
  <2>4. QED
    BY <1>10, <2>1, <2>2, <2>3 DEF Relocated
<1>12. QED
  BY <1>8, <1>11 DEF Grafted, p, to

(* A deletion moves the item into its container.                           *)
LEMMA MoveInIs ==
  ASSUME TypeInv, MoveIn
  PROVE  /\ IsVault(tree') /\ TakenIn(op.id, op.path) /\ op.id \in Id
         /\ bin' \in [Id -> Container] /\ \A i \in Id : Sound(bin'[i])
         /\ <<>> \in DOMAIN bin'[op.id].items
<1> DEFINE p == op.path
           i == op.id
           items == Subtree(tree, p)
           c == [from |-> p, items |-> items, manifest |-> None]
<1>1. /\ p \in DOMAIN tree /\ p \in Path /\ i \in Id /\ IsVault(tree)
      /\ bin[i] = [from |-> p, items |-> EmptyTree, manifest |-> None]
  BY DEF MoveIn, TypeInv, OpShape, OnTree, InHand, Types
<1>2. p \in Trail
  BY <1>1, Paths
<1>3. /\ DOMAIN items = {r \in Trail : p \o r \in DOMAIN tree}
      /\ \A r \in DOMAIN items : items[r] = tree[p \o r]
      /\ Whole(items) /\ <<>> \in DOMAIN items
  BY <1>1, SubtreeIs
<1>4. /\ DOMAIN tree' = {q \in DOMAIN tree : ~IsUnder(q, p)}
      /\ \A q \in DOMAIN tree' : tree'[q] = tree[q]
      /\ IsVault(tree')
  <2>1. tree' = Cut(tree, p)
    BY DEF MoveIn
  <2>2. /\ DOMAIN Cut(tree, p) = {q \in DOMAIN tree : ~IsUnder(q, p)}
        /\ \A q \in DOMAIN Cut(tree, p) : Cut(tree, p)[q] = tree[q]
        /\ IsVault(Cut(tree, p))
    BY <1>1, <1>2, CutIs
  <2>3. QED
    BY <2>1, <2>2
<1>5. bin' = [bin EXCEPT ![i].items = items]
  BY DEF MoveIn
<1> HIDE DEF items
<1>6. bin' = [bin EXCEPT ![i] = c]
  <2>1. [bin[i] EXCEPT !.items = items] = c
    BY <1>1
  <2>2. bin' = [bin EXCEPT ![i] = [bin[i] EXCEPT !.items = items]]
    BY <1>5
  <2> HIDE DEF c
  <2>3. QED
    BY <2>1, <2>2
<1>7. Sound(c)
  <2>1. \A r \in DOMAIN items : p \o r \in Path
    BY <1>1, <1>3 DEF IsVault, IsTree
  <2>2. c \in Container
    BY <1>1, <1>3 DEF Container, Whole
  <2>3. QED
    BY <1>1, <1>3, <2>1, <2>2 DEF Sound
<1> HIDE DEF c
<1>8. /\ bin' \in [Id -> Container] /\ \A j \in Id : Sound(bin'[j])
      /\ bin'[i] = c /\ \A j \in Id : j # i => bin'[j] = bin[j]
  BY <1>1, <1>6, <1>7, BinWith DEF TypeInv
<1>9. bin'[i].items = items /\ bin'[i].from = p /\ bin'[i].manifest = None
  BY <1>8 DEF c
<1>10. DOMAIN bin[i].items = {}
  BY <1>1, Nothing
<1>11. TakenIn(i, p)
  BY <1>3, <1>4, <1>8, <1>9, <1>10 DEF TakenIn
<1>12. QED
  BY <1>1, <1>3, <1>4, <1>8, <1>9, <1>11

(* The item of a container put back over t, the vault with its folders.    *)
LEMMA PutBackIs ==
  ASSUME TypeInv, NEW t, IsVault(t),
         DOMAIN tree \subseteq DOMAIN t, \A q \in DOMAIN tree : t[q] = tree[q],
         \A q \in DOMAIN t : q \notin DOMAIN tree =>
           t[q] = Folder /\ q \in Ancestors(op.path),
         op.id \in Id, op.path \in Path, bin[op.id].from = op.path,
         <<>> \in DOMAIN bin[op.id].items,
         Fits(t, op.path, bin[op.id].items),
         tree' = Graft(t, op.path, bin[op.id].items),
         DOMAIN bin'[op.id].items = {},
         \A j \in Id : j # op.id => bin'[j] = bin[j]
  PROVE  IsVault(tree') /\ TakenOut(op.id, op.path)
<1> DEFINE p == op.path
           i == op.id
           items == bin[i].items
<1>1. /\ p \in Path /\ p \in Trail /\ i \in Id /\ bin[i].from = p
      /\ Whole(items) /\ <<>> \in DOMAIN items
      /\ \A r \in DOMAIN items : p \o r \in Path
  BY Paths DEF TypeInv, Types, Sound
<1>2. Fits(t, p, items) /\ tree' = Graft(t, p, items)
  OBVIOUS
<1> HIDE DEF p, i, items
<1>3. Grafted(t, p, items, tree')
  <2>1. Grafted(t, p, items, Graft(t, p, items))
    BY <1>1, <1>2, GraftIs
  <2>2. QED
    BY <1>2, <2>1
<1>4. \A q \in DOMAIN tree : IsUnder(q, p) => q = p
  BY <1>1, <1>2, FitsIs DEF Under
<1>5. \A q \in DOMAIN tree : ~IsUnder(q, p) => q \in DOMAIN tree' /\ tree'[q] = tree[q]
  BY <1>3 DEF Grafted
<1>6. \A q \in DOMAIN tree' :
        \/ q \in DOMAIN tree /\ ~IsUnder(q, p)
        \/ tree'[q] = Folder /\ ~IsUnder(q, p)
        \/ \E r \in DOMAIN items : q = p \o r
  <2>1. ASSUME NEW q \in DOMAIN t, ~IsUnder(q, p), q \notin DOMAIN tree
        PROVE  tree'[q] = Folder
    BY <1>3, <2>1 DEF Grafted
  <2>2. QED
    BY <1>3, <2>1 DEF Grafted
<1>7. \A r \in DOMAIN items : p \o r \in DOMAIN tree' /\ tree'[p \o r] = items[r]
  BY <1>3 DEF Grafted
<1>8. QED
  BY <1>1, <1>3, <1>4, <1>5, <1>6, <1>7 DEF Grafted, TakenOut, p, i, items

(* A roll-back puts the item back, or gives up.                            *)
LEMMA RollBackIs ==
  ASSUME TypeInv, RollBack
  PROVE  /\ op.id \in Id /\ op.path \in Path
         /\ IsVault(tree')
         /\ bin' \in [Id -> Container] /\ \A i \in Id : Sound(bin'[i])
         /\ \/ /\ TakenOut(op.id, op.path) /\ bin'[op.id] = NoContainer
               /\ UNCHANGED limbo
            \/ limbo' = limbo \cup {op.id} /\ UNCHANGED <<tree, bin>>
<1>1. /\ op.id \in Id /\ op.path \in Path /\ IsVault(tree)
      /\ bin \in [Id -> Container] /\ \A i \in Id : Sound(bin[i])
      /\ bin[op.id].from = op.path /\ <<>> \in DOMAIN bin[op.id].items
  BY DEF RollBack, TypeInv, OpShape, OnTree, InHand, Types
<1>2. CASE limbo' = limbo \cup {op.id} /\ UNCHANGED <<tree, bin>>
  BY <1>1, <1>2
<1>3. CASE /\ Fits(tree, op.path, bin[op.id].items)
           /\ tree' = Graft(tree, op.path, bin[op.id].items)
           /\ bin' = [bin EXCEPT ![op.id] = NoContainer]
           /\ UNCHANGED limbo
  <2>1. /\ bin' \in [Id -> Container] /\ \A j \in Id : Sound(bin'[j])
        /\ bin'[op.id] = NoContainer
        /\ \A j \in Id : j # op.id => bin'[j] = bin[j]
    BY <1>1, <1>3, Nothing, BinWith DEF TypeInv
  <2>2. DOMAIN bin'[op.id].items = {}
    BY <2>1, Nothing DEF NoContainer
  <2>3. IsVault(tree') /\ TakenOut(op.id, op.path)
    BY <1>1, <1>3, <2>1, <2>2, PutBackIs
  <2>4. QED
    BY <1>1, <1>3, <2>1, <2>3
<1>4. QED
  BY <1>2, <1>3 DEF RollBack

(* A container emptied.                                                    *)
LEMMA Emptied ==
  ASSUME NEW c \in Container, NEW label
  PROVE  [[c EXCEPT !.items = EmptyTree] EXCEPT !.manifest = label] =
           [from |-> c.from, items |-> EmptyTree, manifest |-> label]
<1>1. PICK from \in Path \cup {None}, all \in Items, manifest \in Path \cup {None} :
        c = [from |-> from, items |-> all, manifest |-> manifest]
  BY DEF Container
<1> DEFINE d == [from |-> from, items |-> EmptyTree, manifest |-> manifest]
<1>2. [c EXCEPT !.items = EmptyTree] = d
  BY <1>1
<1>3. [d EXCEPT !.manifest = label] = [from |-> from, items |-> EmptyTree, manifest |-> label]
  OBVIOUS
<1> HIDE DEF d
<1>4. QED
  BY <1>1, <1>2, <1>3

(* A restoration puts the item back.                                       *)
LEMMA MoveOutIs ==
  ASSUME TypeInv, MoveOut
  PROVE  /\ op.id \in Id /\ op.path \in Path
         /\ IsVault(tree') /\ TakenOut(op.id, op.path)
         /\ bin' \in [Id -> Container] /\ \A i \in Id : Sound(bin'[i])
         /\ bin'[op.id].items = EmptyTree
<1> DEFINE p == op.path
           i == op.id
           items == bin[i].items
           t == WithParents(p)
           label == IF items[<<>>] = ManifestName THEN None ELSE bin[i].manifest
           c == [from |-> p, items |-> EmptyTree, manifest |-> label]
<1>1. /\ i \in Id /\ p \in Path /\ IsVault(tree)
      /\ bin \in [Id -> Container] /\ (\A j \in Id : Sound(bin[j]))
      /\ bin[i].manifest = p
  BY DEF MoveOut, TypeInv, OpShape, OnTree, InHand, Types
<1>2. bin[i].from = p /\ p # None /\ bin[i] \in Container /\ Whole(items)
  BY <1>1, Paths DEF Sound
<1>3. items \in Items /\ items # EmptyTree /\ CanMakeParents(p)
      /\ Fits(t, p, items) /\ tree' = Graft(t, p, items)
      /\ bin' = [bin EXCEPT ![i].items = EmptyTree, ![i].manifest = label]
  BY <1>2 DEF MoveOut, Whole
<1>4. <<>> \in DOMAIN items
  BY <1>2, <1>3, Nothing DEF Whole
<1>5. /\ DOMAIN t = DOMAIN tree \cup Ancestors(p)
      /\ \A q \in DOMAIN tree : t[q] = tree[q]
      /\ \A q \in DOMAIN t : q \notin DOMAIN tree => t[q] = Folder
      /\ IsVault(t)
  BY <1>1, <1>3, ParentsAre
<1>6. label \in {None, p}
  BY <1>1
<1> HIDE DEF label, t
<1>7. Sound(c)
  <2>1. c \in Container /\ c.items = EmptyTree /\ c.from = p /\ c.manifest = label
    BY <1>1, <1>6, Nothing DEF Container
  <2>2. QED
    BY <1>6, <2>1, Nothing DEF Sound
<1>8. bin' = [bin EXCEPT ![i] = c]
  <2>1. [[bin[i] EXCEPT !.items = EmptyTree] EXCEPT !.manifest = label] = c
    BY <1>2, Emptied
  <2>2. bin' = [bin EXCEPT ![i] = [[bin[i] EXCEPT !.items = EmptyTree] EXCEPT !.manifest = label]]
    BY <1>1, <1>3
  <2> HIDE DEF c
  <2>3. QED
    BY <2>1, <2>2
<1> HIDE DEF c
<1>9. /\ bin' \in [Id -> Container] /\ \A j \in Id : Sound(bin'[j])
      /\ bin'[i] = c /\ \A j \in Id : j # i => bin'[j] = bin[j]
  BY <1>1, <1>7, <1>8, BinWith DEF TypeInv
<1>10. bin'[i].items = EmptyTree /\ DOMAIN bin'[i].items = {}
  BY <1>9, Nothing DEF c
<1>11. IsVault(tree') /\ TakenOut(i, p)
  BY <1>1, <1>2, <1>3, <1>4, <1>5, <1>9, <1>10, PutBackIs
<1>12. QED
  BY <1>1, <1>9, <1>10, <1>11

-----------------------------------------------------------------------------
(* The types, action by action.                                            *)

(* A step that is no command's end, or is one.                             *)
LEMMA IdleIs ==
  /\ Idle = [step |-> "idle", path |-> None, to |-> None, id |-> None, carry |-> {}]
  /\ Types' /\ op' = Idle => TypeInv'
BY DEF Idle, TypeInv, OpShape, OnTree, InHand

(* The command in hand, a step on.                                         *)
LEMMA OpTypes ==
  ASSUME Types
  PROVE  /\ Idle \in [step : Steps, path : Path \cup {None}, to : Path \cup {None},
                      id : Id \cup {None}, carry : SUBSET Path]
         /\ \A st \in Steps :
              /\ [op EXCEPT !.step = st] \in
                   [step : Steps, path : Path \cup {None}, to : Path \cup {None},
                    id : Id \cup {None}, carry : SUBSET Path]
              /\ [op EXCEPT !.step = st].step = st
              /\ [op EXCEPT !.step = st].path = op.path
              /\ [op EXCEPT !.step = st].to = op.to
              /\ [op EXCEPT !.step = st].id = op.id
              /\ [op EXCEPT !.step = st].carry = op.carry
BY DEF Types, Idle, Steps

(* Another program, a new note or folder, and a save change no container   *)
(* and are no step of a command.                                           *)
LEMMA AddedTypes ==
  ASSUME TypeInv, NEW p \in Path,
         \/ \E f \in File : CreateNote(p, f) \/ OutsideCreate(p, f)
         \/ CreateFolder(p) \/ SaveNote(p) \/ OutsideRmdir(p)
  PROVE  TypeInv'
<1>1. Types /\ UNCHANGED <<bin, op>>
  BY DEF TypeInv, CreateNote, OutsideCreate, CreateFolder, SaveNote, OutsideRmdir
<1>2. OpShape' /\ InHand'
  BY <1>1 DEF TypeInv, OpShape, InHand
<1>3. ASSUME NEW f \in File, CreateNote(p, f) \/ OutsideCreate(p, f) PROVE Types'
  <2>1. AddFile(p, f) /\ raced' \subseteq raced \cup {f}
        /\ UNCHANGED <<bin, hist, op, buried, limbo, astray>>
    BY <1>3 DEF CreateNote, OutsideCreate, fates
  <2>2. f \in Entry
    BY DEF Entry
  <2>3. IsVault(tree')
    BY <1>1, <2>1, <2>2, AddedFits DEF AddFile
  <2>4. QED
    BY <1>1, <2>1, <2>3 DEF Types, AddFile
<1>4. CASE CreateFolder(p)
  <2>1. Folder \in Entry
    BY DEF Entry
  <2>2. IsVault(tree')
    BY <1>1, <1>4, <2>1, AddedFits DEF CreateFolder
  <2>3. QED
    <3>1. UNCHANGED <<bin, hist, op, known, raced, buried, limbo, astray>>
      BY <1>4 DEF CreateFolder, fates
    <3>2. QED
      BY <1>1, <1>2, <2>2, <3>1 DEF Types, TypeInv
<1>5. CASE SaveNote(p)
  <2>1. hist' \in [Path -> SUBSET File]
    <3>1. tree[p] \in File
      BY <1>5 DEF SaveNote
    <3>2. QED
      BY <1>1, <1>5, <3>1 DEF SaveNote, Types
  <2>2. UNCHANGED <<tree, bin, op, known, raced, buried, limbo>> /\ astray' \subseteq astray
    BY <1>5 DEF SaveNote
  <2>3. QED
    <3>1. IsVault(tree')
      BY <1>1, <2>2 DEF Types
    <3>2. astray' \subseteq File
      BY <1>1, <2>2 DEF Types
    <3>3. QED
      BY <1>1, <1>2, <2>1, <2>2, <3>1, <3>2 DEF Types, TypeInv
<1>6. CASE OutsideRmdir(p)
  <2>1. tree' = Cut(tree, p) /\ UNCHANGED <<bin, hist, op, known, fates>>
    BY <1>6 DEF OutsideRmdir
  <2>2. IsVault(Cut(tree, p))
    BY <1>1, Paths, CutIs DEF Types
  <2>3. QED
    <3>1. IsVault(tree')
      BY <2>1, <2>2
    <3>2. UNCHANGED <<bin, hist, op, known, raced, buried, limbo, astray>>
      BY <2>1 DEF fates
    <3>3. QED
      BY <1>1, <1>2, <3>1, <3>2 DEF Types, TypeInv
<1>7. QED
  BY <1>2, <1>3, <1>4, <1>5, <1>6 DEF TypeInv

(* The steps of a rename keep the types.                                   *)
LEMMA RenameTypes ==
  ASSUME TypeInv,
         \/ \E p, q \in Path : CheckRename(p, q)
         \/ Rename \/ RenameFails \/ RenameDone
         \/ \E q \in Path : CarryHistory(q)
  PROVE  TypeInv'
<1>1. Types /\ OpShape
  BY DEF TypeInv
<1>2. ASSUME NEW p \in Path, NEW q \in Path, CheckRename(p, q) PROVE TypeInv'
  <2>1. op' = [step |-> "rename", path |-> p, to |-> q, id |-> None,
               carry |-> Descendants(p)]
    BY <1>2 DEF CheckRename, Idle
  <2>2. UNCHANGED <<tree, bin, hist, known, fates>> /\ p # q /\ Parent(p) = Parent(q)
    BY <1>2 DEF CheckRename
  <2>3. Descendants(p) \subseteq Path /\ \A s \in Descendants(p) : IsUnder(s, p)
    BY <1>1 DEF Descendants, Under, Types, IsVault, IsTree
  <2>4. Types'
    BY <1>1, <2>1, <2>2, <2>3 DEF Types, Steps, fates
  <2>5. OpShape' /\ InHand'
    BY <2>1, <2>2, <2>3 DEF OpShape, OnTree, InHand
  <2>6. QED
    BY <2>4, <2>5 DEF TypeInv
<1>3. CASE Rename
  <2>1. op' = [op EXCEPT !.step = "carry"] /\ op.step = "rename"
        /\ UNCHANGED <<bin, hist, known, raced, buried, limbo, astray>>
    BY <1>3 DEF Rename
  <2>2. IsVault(tree')
    BY <1>3, RenameIs
  <2>3. /\ op' \in [step : Steps, path : Path \cup {None}, to : Path \cup {None},
                    id : Id \cup {None}, carry : SUBSET Path]
        /\ op'.step = "carry" /\ op'.path = op.path /\ op'.to = op.to
        /\ op'.id = op.id /\ op'.carry = op.carry
    BY <1>1, <2>1, OpTypes DEF Steps
  <2>4. Types'
    BY <1>1, <2>1, <2>2, <2>3 DEF Types
  <2>5. OpShape' /\ InHand'
    BY <1>1, <2>1, <2>3 DEF OpShape, OnTree, InHand
  <2>6. QED
    BY <2>4, <2>5 DEF TypeInv
<1>4. CASE RenameFails \/ RenameDone
  <2>1. op' = Idle /\ UNCHANGED <<tree, bin, hist, known, fates>>
    BY <1>4 DEF RenameFails, RenameDone
  <2>2. Types'
    BY <1>1, <2>1, OpTypes DEF Types, fates
  <2>3. QED
    BY <2>1, <2>2, IdleIs
<1>5. ASSUME NEW q \in Path, CarryHistory(q) PROVE TypeInv'
  <2>1. op' = [op EXCEPT !.carry = @ \ {q}] /\ op.step = "carry"
        /\ UNCHANGED <<tree, bin, known, raced, buried, limbo>>
    BY <1>5 DEF CarryHistory
  <2>2. hist' \in [Path -> SUBSET File] /\ astray' \subseteq File
    <3>1. \A x : hist[q] \in SUBSET File
      BY <1>1 DEF Types
    <3>2. CASE UNCHANGED hist /\ astray' = astray \cup hist[q]
      BY <1>1, <3>1, <3>2 DEF Types
    <3>3. ASSUME NEW new,
                 hist' = [hist EXCEPT ![new] = @ \cup hist[q], ![q] = {}],
                 astray' = astray \cup
                   {f \in hist[q] : \A p \in DOMAIN tree : tree[p] = f => p # new}
          PROVE  hist' \in [Path -> SUBSET File] /\ astray' \subseteq File
      BY <1>1, <3>1, <3>3 DEF Types
    <3>4. QED
      BY <1>5, <3>2, <3>3 DEF CarryHistory
  <2>3. /\ op' \in [step : Steps, path : Path \cup {None}, to : Path \cup {None},
                    id : Id \cup {None}, carry : SUBSET Path]
        /\ op'.step = "carry" /\ op'.path = op.path /\ op'.to = op.to
        /\ op'.id = op.id /\ op'.carry \subseteq op.carry
    BY <1>1, <2>1 DEF Types
  <2>4. Types'
    BY <1>1, <2>1, <2>2, <2>3 DEF Types
  <2>5. OpShape' /\ InHand'
    BY <1>1, <2>1, <2>3 DEF OpShape, OnTree, InHand
  <2>6. QED
    BY <2>4, <2>5 DEF TypeInv
<1>6. QED
  BY <1>2, <1>3, <1>4, <1>5

(* The manifest is written, over an item of its name.                      *)
LEMMA WriteManifestIs ==
  ASSUME TypeInv, WriteManifest
  PROVE  /\ op.id \in Id /\ op.path \in Path
         /\ bin' \in [Id -> Container] /\ \A i \in Id : Sound(bin'[i])
         /\ \A j \in Id : j # op.id => bin'[j] = bin[j]
         /\ bin'[op.id].from = op.path /\ bin[op.id].from = op.path
         /\ bin'[op.id].manifest = op.path
         /\ <<>> \in DOMAIN bin'[op.id].items
         /\ \/ bin'[op.id].items = bin[op.id].items /\ UNCHANGED buried
            \/ /\ DOMAIN bin'[op.id].items = {<<>>}
               /\ bin'[op.id].items[<<>>] = ManifestName
               /\ buried' = buried \cup Files(bin[op.id].items)
<1> DEFINE i == op.id
           p == op.path
           items == bin[i].items
           single == [r \in {<<>>} |-> ManifestName]
           clash == NameOf(p) = ManifestName
           all == IF clash THEN single ELSE items
           c == [from |-> p, items |-> all, manifest |-> p]
<1>1. /\ i \in Id /\ p \in Path /\ bin \in [Id -> Container] /\ Sound(bin[i])
      /\ bin[i].from = p /\ <<>> \in DOMAIN items
  BY DEF WriteManifest, TypeInv, OpShape, OnTree, InHand, Types
<1>2. /\ bin' = [bin EXCEPT ![i].manifest = p,
                            ![i].items = IF clash THEN single ELSE @]
      /\ buried' = IF clash THEN buried \cup Files(items) ELSE buried
  BY DEF WriteManifest
<1>3. Whole(single) /\ DOMAIN single = {<<>>} /\ single[<<>>] = ManifestName
  BY Single DEF Entry
<1>4. p \in Trail /\ p \o <<>> = p
  BY <1>1, Paths, UnderSelf
<1> HIDE DEF single, clash
<1>5. /\ Whole(all) /\ <<>> \in DOMAIN all
      /\ \A r \in DOMAIN all : p \o r \in Path
  <2>1. CASE clash
    BY <1>1, <1>3, <1>4, <2>1
  <2>2. CASE ~clash
    BY <1>1, <2>2 DEF Sound
  <2>3. QED
    BY <2>1, <2>2
<1>6. Sound(c)
  <2>1. c \in Container /\ c.items = all /\ c.from = p /\ c.manifest = p
    <3>1. all \in Items
      BY <1>5 DEF Whole
    <3> HIDE DEF all
    <3>2. QED
      BY <1>1, <3>1 DEF Container
  <2>2. QED
    BY <1>1, <1>5, <2>1 DEF Sound
<1>7. bin' = [bin EXCEPT ![i] = c]
  <2>1. PICK manifest \in Path \cup {None} :
          bin[i] = [from |-> p, items |-> items, manifest |-> manifest]
    <3>1. bin[i] \in Container
      BY <1>1
    <3>2. QED
      BY <1>1, <3>1 DEF Container
  <2>2. bin' = [bin EXCEPT ![i] = [[bin[i] EXCEPT !.manifest = p] EXCEPT !.items = all]]
    BY <1>1, <1>2
  <2> DEFINE d == [from |-> p, items |-> items, manifest |-> p]
  <2>3. [bin[i] EXCEPT !.manifest = p] = d
    BY <2>1
  <2>4. [d EXCEPT !.items = all] = c
    <3> HIDE DEF all, items, p
    <3>1. QED
      OBVIOUS
  <2> HIDE DEF c, d
  <2>5. QED
    BY <2>2, <2>3, <2>4
<1> HIDE DEF c
<1>8. /\ bin' \in [Id -> Container] /\ \A j \in Id : Sound(bin'[j])
      /\ bin'[i] = c /\ \A j \in Id : j # i => bin'[j] = bin[j]
  BY <1>1, <1>6, <1>7, BinWith DEF TypeInv
<1>9. bin'[i].items = all /\ bin'[i].from = p /\ bin'[i].manifest = p
  BY <1>8 DEF c
<1>10. \/ all = items /\ UNCHANGED buried
       \/ /\ DOMAIN all = {<<>>} /\ all[<<>>] = ManifestName
          /\ buried' = buried \cup Files(items)
  BY <1>2, <1>3
<1> HIDE DEF all
<1>11. QED
  BY <1>1, <1>5, <1>8, <1>9, <1>10

(* The steps of a deletion keep the types.                                 *)
LEMMA TrashTypes ==
  ASSUME TypeInv,
         \/ \E p \in Path, i \in Id : CreateContainer(p, i)
         \/ MoveIn \/ MoveInFails \/ WriteManifest \/ WriteManifestFails \/ RollBack
  PROVE  TypeInv'
<1>1. Types /\ OpShape /\ InHand
  BY DEF TypeInv
<1>2. ASSUME NEW p \in Path, NEW i \in Id, CreateContainer(p, i) PROVE TypeInv'
  <2> DEFINE c == [from |-> p, items |-> EmptyTree, manifest |-> None]
  <2>1. op' = [step |-> "trash", path |-> p, to |-> None, id |-> i, carry |-> {}]
    BY <1>2 DEF CreateContainer, Idle
  <2>2. UNCHANGED <<tree, hist, known, raced, buried, limbo, astray>>
    BY <1>2 DEF CreateContainer, fates
  <2>3. bin' = [bin EXCEPT ![i] = c]
    <3>1. [bin[i] EXCEPT !.from = p] = c
      <4>1. bin[i] = [from |-> None, items |-> EmptyTree, manifest |-> None]
        BY <1>2 DEF CreateContainer, NoContainer
      <4>2. QED
        BY <4>1
    <3>2. bin' = [bin EXCEPT ![i] = [bin[i] EXCEPT !.from = p]]
      BY <1>2 DEF CreateContainer
    <3> HIDE DEF c
    <3>3. QED
      BY <3>1, <3>2
  <2>4. Sound(c)
    BY Nothing DEF Sound, Container
  <2> HIDE DEF c
  <2>5. bin' \in [Id -> Container] /\ (\A j \in Id : Sound(bin'[j])) /\ bin'[i] = c
    BY <1>1, <2>3, <2>4, BinWith
  <2>6. Types'
    BY <1>1, <2>1, <2>2, <2>5 DEF Types, Steps
  <2>7. OpShape' /\ InHand'
    BY <2>1, <2>5 DEF OpShape, OnTree, InHand, c
  <2>8. QED
    BY <2>6, <2>7 DEF TypeInv
<1>3. CASE MoveIn
  <2>1. op' = [op EXCEPT !.step = "label"] /\ op.step = "trash"
        /\ UNCHANGED <<hist, known, raced, buried, limbo, astray>>
    BY <1>3 DEF MoveIn
  <2>2. /\ op' \in [step : Steps, path : Path \cup {None}, to : Path \cup {None},
                    id : Id \cup {None}, carry : SUBSET Path]
        /\ op'.step = "label" /\ op'.path = op.path /\ op'.id = op.id
    BY <1>1, <2>1, OpTypes DEF Steps
  <2>3. /\ IsVault(tree') /\ TakenIn(op.id, op.path) /\ op.id \in Id
        /\ bin' \in [Id -> Container] /\ (\A i \in Id : Sound(bin'[i]))
        /\ <<>> \in DOMAIN bin'[op.id].items
    BY <1>3, MoveInIs
  <2>4. Types'
    BY <1>1, <2>1, <2>2, <2>3 DEF Types
  <2>5. OpShape' /\ InHand'
    BY <1>1, <2>1, <2>2, <2>3 DEF OpShape, OnTree, InHand, TakenIn
  <2>6. QED
    BY <2>4, <2>5 DEF TypeInv
<1>4. CASE MoveInFails
  <2>1. op' = Idle /\ bin' = [bin EXCEPT ![op.id] = NoContainer] /\ op.id \in Id
        /\ UNCHANGED <<tree, hist, known, raced, buried, limbo, astray>>
    BY <1>1, <1>4 DEF MoveInFails, fates, OpShape, OnTree
  <2>2. bin' \in [Id -> Container] /\ \A i \in Id : Sound(bin'[i])
    BY <1>1, <2>1, Nothing, BinWith
  <2>3. Types'
    BY <1>1, <2>1, <2>2, OpTypes DEF Types
  <2>4. QED
    BY <2>1, <2>3, IdleIs
<1>5. CASE WriteManifest
  <2>1. op' = Idle /\ UNCHANGED <<tree, hist, known, raced, limbo, astray>>
    BY <1>5 DEF WriteManifest
  <2>2. /\ bin' \in [Id -> Container] /\ \A i \in Id : Sound(bin'[i])
        /\ buried' \subseteq buried \cup Files(bin[op.id].items)
    BY <1>5, WriteManifestIs
  <2>3. Types'
    BY <1>1, <2>1, <2>2, OpTypes DEF Types, Files
  <2>4. QED
    BY <2>1, <2>3, IdleIs
<1>6. CASE WriteManifestFails
  <2>1. op' = [op EXCEPT !.step = "rollback"] /\ op.step = "label"
        /\ UNCHANGED <<tree, bin, hist, known, raced, buried, limbo, astray>>
    BY <1>6 DEF WriteManifestFails, fates
  <2>2. /\ op' \in [step : Steps, path : Path \cup {None}, to : Path \cup {None},
                    id : Id \cup {None}, carry : SUBSET Path]
        /\ op'.step = "rollback" /\ op'.path = op.path /\ op'.id = op.id
    BY <1>1, <2>1, OpTypes DEF Steps
  <2>3. Types'
    BY <1>1, <2>1, <2>2 DEF Types
  <2>4. OpShape' /\ InHand'
    BY <1>1, <2>1, <2>2 DEF OpShape, OnTree, InHand
  <2>5. QED
    BY <2>3, <2>4 DEF TypeInv
<1>7. CASE RollBack
  <2>1. op' = Idle /\ UNCHANGED <<hist, known, raced, buried, astray>>
    BY <1>7 DEF RollBack
  <2>2. /\ op.id \in Id /\ IsVault(tree')
        /\ bin' \in [Id -> Container] /\ (\A i \in Id : Sound(bin'[i]))
        /\ limbo' \subseteq limbo \cup {op.id}
    BY <1>7, RollBackIs
  <2>3. Types'
    BY <1>1, <2>1, <2>2, OpTypes DEF Types
  <2>4. QED
    BY <2>1, <2>3, IdleIs
<1>8. QED
  BY <1>2, <1>3, <1>4, <1>5, <1>6, <1>7

(* The steps of a restoration keep the types.                              *)
LEMMA RestoreTypes ==
  ASSUME TypeInv,
         \/ \E i \in Id : CheckRestore(i)
         \/ MoveOut \/ MoveOutFails \/ RemoveContainer \/ Kill
  PROVE  TypeInv'
<1>1. Types /\ OpShape /\ InHand
  BY DEF TypeInv
<1>2. ASSUME NEW i \in Id, CheckRestore(i) PROVE TypeInv'
  <2>1. op' = [step |-> "restore", path |-> bin[i].manifest, to |-> None, id |-> i,
               carry |-> {}]
    BY <1>2 DEF CheckRestore, Idle
  <2>2. UNCHANGED <<tree, bin, hist, known, raced, buried, limbo, astray>>
    BY <1>2 DEF CheckRestore, fates
  <2>3. bin[i].manifest \in Path
    <3>1. bin[i] \in Container /\ bin[i].manifest # None
      BY <1>1, <1>2 DEF CheckRestore, Listed, Types
    <3>2. QED
      BY <3>1 DEF Container
  <2>4. Types'
    BY <1>1, <2>1, <2>2, <2>3 DEF Types, Steps
  <2>5. OpShape' /\ InHand'
    BY <2>1, <2>2, <2>3 DEF OpShape, OnTree, InHand
  <2>6. QED
    BY <2>4, <2>5 DEF TypeInv
<1>3. CASE MoveOut
  <2>1. op' = [op EXCEPT !.step = "empty"] /\ op.step = "restore"
        /\ UNCHANGED <<hist, known, raced, buried, limbo, astray>>
    BY <1>3 DEF MoveOut
  <2>2. /\ op' \in [step : Steps, path : Path \cup {None}, to : Path \cup {None},
                    id : Id \cup {None}, carry : SUBSET Path]
        /\ op'.step = "empty" /\ op'.path = op.path /\ op'.id = op.id
    BY <1>1, <2>1, OpTypes DEF Steps
  <2>3. /\ IsVault(tree') /\ op.id \in Id /\ bin'[op.id].items = EmptyTree
        /\ bin' \in [Id -> Container] /\ (\A i \in Id : Sound(bin'[i]))
    BY <1>3, MoveOutIs
  <2>4. Types'
    BY <1>1, <2>1, <2>2, <2>3 DEF Types
  <2>5. OpShape' /\ InHand'
    BY <1>1, <2>1, <2>2, <2>3 DEF OpShape, OnTree, InHand
  <2>6. QED
    BY <2>4, <2>5 DEF TypeInv
<1>4. CASE MoveOutFails
  <2>1. op' = Idle
        /\ UNCHANGED <<bin, hist, known, raced, buried, limbo, astray>>
    BY <1>4 DEF MoveOutFails, fates
  <2>2. op.path \in Path
    BY <1>1, <1>4 DEF MoveOutFails, OpShape
  <2>3. IsVault(tree')
    <3>1. CASE UNCHANGED tree
      BY <1>1, <3>1 DEF Types
    <3>2. CASE CanMakeParents(op.path) /\ tree' = WithParents(op.path)
      <4>1. IsVault(WithParents(op.path))
        BY <1>1, <2>2, <3>2, ParentsAre DEF Types
      <4>2. QED
        BY <3>2, <4>1
    <3>3. QED
      BY <1>4, <3>1, <3>2 DEF MoveOutFails
  <2>4. Types'
    BY <1>1, <2>1, <2>3, OpTypes DEF Types
  <2>5. QED
    BY <2>1, <2>4, IdleIs
<1>5. CASE RemoveContainer
  <2>1. op' = Idle /\ op.id \in Id /\ limbo' \subseteq limbo \cup {op.id}
        /\ UNCHANGED <<tree, hist, known, raced, buried, astray>>
    BY <1>1, <1>5 DEF RemoveContainer, OpShape, OnTree
  <2>2. bin' \in [Id -> Container] /\ \A i \in Id : Sound(bin'[i])
    <3>1. CASE UNCHANGED bin
      BY <1>1, <3>1 DEF Types
    <3>2. CASE bin' = [bin EXCEPT ![op.id] = NoContainer]
      BY <1>1, <2>1, <3>2, Nothing, BinWith
    <3>3. QED
      BY <1>5, <3>1, <3>2 DEF RemoveContainer
  <2>3. Types'
    BY <1>1, <2>1, <2>2, OpTypes DEF Types
  <2>4. QED
    BY <2>1, <2>3, IdleIs
<1>6. CASE Kill
  <2>1. op' = Idle /\ UNCHANGED <<tree, bin, hist, known, raced, buried>>
    BY <1>6 DEF Kill
  <2>2. limbo' \subseteq Id
    BY <1>1, <1>6 DEF Kill, Types, OpShape, OnTree
  <2>3. astray' \subseteq File
    <3>1. UNION {hist[q] : q \in op.carry} \subseteq File
      BY <1>1 DEF Types
    <3>2. QED
      BY <1>1, <1>6, <3>1 DEF Kill, Types
  <2>4. Types'
    BY <1>1, <2>1, <2>2, <2>3, OpTypes DEF Types
  <2>5. QED
    BY <2>1, <2>4, IdleIs
<1>7. QED
  BY <1>2, <1>3, <1>4, <1>5, <1>6

(* Every step keeps the types.                                             *)
LEMMA NextTypes == TypeInv /\ [Next]_vars => TypeInv'
<1> SUFFICES ASSUME TypeInv, [Next]_vars PROVE TypeInv'
  OBVIOUS
<1>1. CASE UNCHANGED vars
  BY <1>1 DEF vars, fates, TypeInv, Types, OpShape, InHand
<1>2. CASE \E p \in Path : \/ \E f \in File : CreateNote(p, f) \/ OutsideCreate(p, f)
                           \/ CreateFolder(p) \/ SaveNote(p) \/ OutsideRmdir(p)
  BY <1>2, AddedTypes
<1>3. CASE \/ \E p, q \in Path : CheckRename(p, q)
           \/ Rename \/ RenameFails \/ RenameDone
           \/ \E q \in Path : CarryHistory(q)
  BY <1>3, RenameTypes
<1>4. CASE \/ \E p \in Path, i \in Id : CreateContainer(p, i)
           \/ MoveIn \/ MoveInFails \/ WriteManifest \/ WriteManifestFails \/ RollBack
  BY <1>4, TrashTypes
<1>5. CASE \/ \E i \in Id : CheckRestore(i)
           \/ MoveOut \/ MoveOutFails \/ RemoveContainer \/ Kill
  BY <1>5, RestoreTypes
<1>6. QED
  BY <1>1, <1>2, <1>3, <1>4, <1>5 DEF Next

(* The types, with what the command in hand is about and what a container  *)
(* holds at each of its steps.                                             *)
THEOREM TypeInvariant == Spec => []TypeInv
<1>1. Init => TypeInv
  <2> SUFFICES ASSUME Init PROVE TypeInv
    OBVIOUS
  <2>1. IsVault(tree)
    BY Nothing DEF Init, IsVault, IsTree, Rooted
  <2>2. bin \in [Id -> Container] /\ \A i \in Id : Sound(bin[i])
    BY Nothing DEF Init, Sound
  <2>3. Types
    BY <2>1, <2>2 DEF Init, Types, Idle, Steps
  <2>4. QED
    BY <2>3 DEF Init, Idle, TypeInv, OpShape, OnTree, InHand
<1>2. QED
  BY <1>1, NextTypes, PTL DEF Spec

(* Every variable keeps to its type, and the vault stays a tree: whatever  *)
(* is renamed, deleted, restored or rolled back, beside other programs,    *)
(* every entry is in a folder that is there.                               *)
THEOREM TypeCorrect == Spec => []TypeOK
<1>1. TypeInv => TypeOK
  <2> SUFFICES ASSUME TypeInv PROVE TypeOK
    OBVIOUS
  <2>1. IsTree(tree) /\ \A p \in DOMAIN tree : InFolder(tree, p)
    BY EntriesAreInFolders DEF TypeInv, Types, IsVault
  <2>2. \A i \in Id : /\ {bin[i].from, bin[i].manifest} \subseteq Path \cup {None}
                      /\ Files(bin[i].items) \subseteq File
    BY DEF TypeInv, Types, Container, Files
  <2>3. QED
    BY <2>1, <2>2 DEF TypeInv, Types, TypeOK
<1>2. QED
  BY <1>1, TypeInvariant, PTL

-----------------------------------------------------------------------------
(* What is in the trash is listed.                                         *)

(* Every step keeps the trash listed.                                      *)
LEMMA NextListing == TypeInv /\ Listing /\ [Next]_vars => Listing'
<1> SUFFICES ASSUME TypeInv, Listing, [Next]_vars PROVE Listing'
  OBVIOUS
<1>0. /\ Types /\ OpShape /\ InHand /\ TypeInv'
      /\ None \notin Id /\ None \notin Path
  BY NextTypes, EntryAssumption, PathAssumption DEF TypeInv
<1>1. NoContainer.manifest = None /\ NoContainer.items = EmptyTree
  BY DEF NoContainer
<1>2. Idle.step = "idle" /\ Idle.id = None
  BY DEF Idle
<1>3. CASE UNCHANGED <<bin, limbo, op>>
  BY <1>3 DEF Listing
<1>4. CASE op.step \in OnTree /\ op'.step \in OnTree /\ UNCHANGED <<bin, limbo>>
  <2>1. op.id = None /\ op'.id = None
    BY <1>0, <1>4 DEF TypeInv, OpShape
  <2>2. QED
    BY <1>0, <1>4, <2>1 DEF Listing
(* Only the container in hand changes; a listed one is in order again.     *)
<1>5. ASSUME op.id \in Id, limbo \subseteq limbo',
             \A j \in Id : j # op.id => bin'[j] = bin[j],
             \/ op.id \in limbo'
             \/ op'.id = op.id /\ op'.step # "restore"
             \/ (bin'[op.id].manifest # None) <=> (bin'[op.id].items # EmptyTree)
      PROVE  Listing'
  BY <1>0, <1>5 DEF Listing
<1>6. ASSUME NEW p \in Path, NEW i \in Id, CreateContainer(p, i) PROVE Listing'
  <2>1. /\ op'.id = i /\ op'.step = "trash" /\ op.id = None /\ UNCHANGED limbo
        /\ bin' = [bin EXCEPT ![i].from = p]
    BY <1>0, <1>6 DEF CreateContainer, Idle, fates, OpShape, OnTree
  <2>2. \A j \in Id : j # i => bin'[j] = bin[j]
    BY <1>0, <2>1 DEF Types
  <2>3. QED
    BY <1>0, <2>1, <2>2 DEF Listing
<1>7. CASE MoveIn
  <2>1. op'.id = op.id /\ op'.step = "label" /\ UNCHANGED limbo
    BY <1>0, <1>7, OpTypes DEF MoveIn, Steps
  <2>2. op.id \in Id /\ \A j \in Id : j # op.id => bin'[j] = bin[j]
    BY <1>7, MoveInIs DEF TakenIn
  <2>3. QED
    BY <1>5, <2>1, <2>2
<1>8. ASSUME op.id \in Id, bin' = [bin EXCEPT ![op.id] = NoContainer],
             limbo \subseteq limbo'
      PROVE  Listing'
  <2>1. bin'[op.id] = NoContainer /\ \A j \in Id : j # op.id => bin'[j] = bin[j]
    BY <1>0, <1>8 DEF Types
  <2>2. QED
    BY <1>1, <1>5, <1>8, <2>1
<1>9. CASE MoveInFails
  BY <1>0, <1>8, <1>9 DEF MoveInFails, fates, OpShape, OnTree
<1>10. CASE WriteManifest
  <2>1. /\ op.id \in Id /\ \A j \in Id : j # op.id => bin'[j] = bin[j]
        /\ bin'[op.id].manifest = op.path /\ op.path \in Path
        /\ <<>> \in DOMAIN bin'[op.id].items
    BY <1>10, WriteManifestIs
  <2>2. bin'[op.id].items # EmptyTree
    BY <2>1, Nothing
  <2>3. UNCHANGED limbo
    BY <1>10 DEF WriteManifest
  <2>4. bin'[op.id].manifest # None
    BY <1>0, <2>1
  <2>5. QED
    BY <1>5, <2>1, <2>2, <2>3, <2>4
<1>11. CASE WriteManifestFails
  <2>1. op'.id = op.id /\ op'.step = "rollback" /\ UNCHANGED <<bin, limbo>>
        /\ op.id \in Id
    BY <1>0, <1>11, OpTypes DEF WriteManifestFails, Steps, fates, OpShape, OnTree
  <2>2. QED
    BY <1>5, <2>1
<1>12. CASE RollBack
  <2>1. op.id \in Id
    BY <1>12, RollBackIs
  <2>2. CASE bin' = [bin EXCEPT ![op.id] = NoContainer] /\ UNCHANGED limbo
    BY <1>8, <2>1, <2>2
  <2>3. CASE limbo' = limbo \cup {op.id} /\ UNCHANGED bin
    BY <1>5, <2>1, <2>3
  <2>4. QED
    BY <1>12, <2>2, <2>3 DEF RollBack
<1>13. ASSUME NEW i \in Id, CheckRestore(i) PROVE Listing'
  <2>1. op.id = None /\ op'.step = "restore" /\ UNCHANGED <<bin, limbo>>
    BY <1>0, <1>13 DEF CheckRestore, Idle, fates, OpShape, OnTree
  <2>2. QED
    BY <1>0, <2>1 DEF Listing
<1>14. CASE MoveOut
  <2>1. op'.id = op.id /\ op'.step = "empty" /\ UNCHANGED limbo
    BY <1>0, <1>14, OpTypes DEF MoveOut, Steps
  <2>2. op.id \in Id /\ \A j \in Id : j # op.id => bin'[j] = bin[j]
    BY <1>14, MoveOutIs DEF TakenOut
  <2>3. QED
    BY <1>5, <2>1, <2>2
<1>15. CASE MoveOutFails
  <2>1. op.step = "restore" /\ op'.id = None /\ UNCHANGED <<bin, limbo>>
    BY <1>2, <1>15 DEF MoveOutFails, fates
  <2>2. QED
    BY <2>1 DEF Listing
<1>16. CASE RemoveContainer
  <2>1. op.id \in Id
    BY <1>0, <1>16 DEF RemoveContainer, OpShape, OnTree
  <2>2. CASE bin' = [bin EXCEPT ![op.id] = NoContainer] /\ UNCHANGED limbo
    BY <1>8, <2>1, <2>2
  <2>3. CASE UNCHANGED bin /\ limbo' = limbo \cup {op.id}
    BY <1>5, <2>1, <2>3
  <2>4. QED
    BY <1>16, <2>2, <2>3 DEF RemoveContainer
(* A container made and not yet filled is not listed and has no item.      *)
<1>17. CASE Kill
  <2>1. op'.id = None /\ UNCHANGED bin /\ limbo \subseteq limbo'
    BY <1>2, <1>17 DEF Kill
  <2>2. CASE op.step \in OnTree
    BY <1>0, <2>1, <2>2 DEF Listing, OpShape
  <2>3. CASE op.step \in {"label", "rollback", "empty"}
    <3>1. op.id \in Id /\ op.id \in limbo'
      BY <1>0, <1>17, <2>3 DEF Kill, OpShape, OnTree
    <3>2. QED
      BY <1>5, <2>1, <3>1
  <2>4. CASE op.step = "trash"
    <3>1. op.id \in Id /\ bin[op.id].manifest = None /\ bin[op.id].items = EmptyTree
      BY <1>0, <2>4 DEF OpShape, OnTree, InHand
    <3>2. QED
      BY <1>5, <2>1, <3>1
  <2>5. CASE op.step = "restore"
    BY <2>1, <2>5 DEF Listing
  <2>6. QED
    BY <1>0, <2>2, <2>3, <2>4, <2>5 DEF Types, Steps, OnTree
<1>18. CASE UNCHANGED vars
  BY <1>3, <1>18 DEF vars, fates
<1>19. ASSUME NEW p \in Path,
              \/ \E f \in File : CreateNote(p, f) \/ OutsideCreate(p, f)
              \/ CreateFolder(p) \/ SaveNote(p) \/ OutsideRmdir(p)
       PROVE  Listing'
  <2>1. UNCHANGED <<bin, limbo, op>>
    BY <1>19
       DEF CreateNote, OutsideCreate, CreateFolder, SaveNote, OutsideRmdir, fates
  <2>2. QED
    BY <1>3, <2>1
<1>20. CASE \/ \E p, q \in Path : CheckRename(p, q)
            \/ Rename \/ RenameFails \/ RenameDone
            \/ \E q \in Path : CarryHistory(q)
  <2>1. op.step \in OnTree /\ op'.step \in OnTree /\ UNCHANGED <<bin, limbo>>
    <3>1. CASE \E p, q \in Path : CheckRename(p, q)
      BY <3>1 DEF CheckRename, Idle, OnTree, fates
    <3>2. CASE Rename
      BY <1>0, <3>2, OpTypes DEF Rename, OnTree, Steps
    <3>3. CASE RenameFails \/ RenameDone
      BY <1>2, <3>3 DEF RenameFails, RenameDone, OnTree, fates
    <3>4. CASE \E q \in Path : CarryHistory(q)
      BY <1>0, <3>4 DEF CarryHistory, OnTree, Types
    <3>5. QED
      BY <1>20, <3>1, <3>2, <3>3, <3>4
  <2>2. QED
    BY <1>4, <2>1
<1>21. QED
  BY <1>6, <1>7, <1>9, <1>10, <1>11, <1>12, <1>13, <1>14, <1>15, <1>16, <1>17,
     <1>18, <1>19, <1>20 DEF Next

(* What is in the trash is listed and can be restored, and what is listed  *)
(* is there, but for a container that a kill or a second failure left half *)
(* way: through failed moves, failed manifests, their rollback, and items  *)
(* of the manifest's own name.                                             *)
THEOREM TrashIsComplete == Spec => []TrashIsListed
<1>1. Init => Listing
  BY DEF Init, NoContainer, Listing
<1>2. Listing => TrashIsListed
  BY DEF Listing, TrashIsListed, Busy
<1>3. QED
  BY <1>1, <1>2, NextListing, TypeInvariant, PTL DEF Spec

-----------------------------------------------------------------------------
(* A file is in one place.                                                 *)

(* Every step keeps what is in the way another program's.                  *)
LEMMA NextInTheWay == TypeInv /\ InTheWay /\ [Next]_vars => InTheWay'
<1> SUFFICES ASSUME TypeInv, InTheWay, [Next]_vars PROVE InTheWay'
  OBVIOUS
<1>0. Types /\ OpShape /\ InHand /\ TypeInv'
  BY NextTypes DEF TypeInv
<1>1. Idle.step = "idle"
  BY DEF Idle
<1>2. ASSUME op'.step \notin {"rename", "label", "rollback", "restore"} PROVE InTheWay'
  BY <1>2 DEF InTheWay
(* Beside a command, only another program makes a file.                    *)
<1>3. ASSUME UNCHANGED op, raced \subseteq raced',
             \A p \in DOMAIN tree' : tree'[p] \in File =>
               \/ p \in DOMAIN tree /\ tree'[p] = tree[p]
               \/ tree'[p] \in raced' \/ op.step = "idle"
      PROVE  InTheWay'
  BY <1>3 DEF InTheWay
<1>4. ASSUME NEW p \in Path, NEW f \in File, CreateNote(p, f) \/ OutsideCreate(p, f)
      PROVE  InTheWay'
  <2>1. AddFile(p, f) /\ UNCHANGED op
        /\ raced \subseteq raced' /\ (f \in raced' \/ op.step = "idle")
    BY <1>4 DEF CreateNote, OutsideCreate, fates
  <2>2. f \in Entry
    BY DEF Entry
  <2>3. /\ DOMAIN tree' = DOMAIN tree \cup {p} /\ tree'[p] = f
        /\ \A q \in DOMAIN tree : tree'[q] = tree[q]
    BY <1>0, <2>1, <2>2, AddedFits DEF AddFile
  <2>4. QED
    BY <1>3, <2>1, <2>3
<1>5. ASSUME NEW p \in Path, CreateFolder(p) PROVE InTheWay'
  BY <1>2, <1>5 DEF CreateFolder
<1>6. ASSUME NEW p \in Path, SaveNote(p) PROVE InTheWay'
  BY <1>2, <1>6 DEF SaveNote
<1>7. ASSUME NEW p \in Path, OutsideRmdir(p) PROVE InTheWay'
  <2>1. tree' = Cut(tree, p) /\ UNCHANGED <<op, raced>>
    BY <1>7 DEF OutsideRmdir, fates
  <2>2. \A q \in DOMAIN Cut(tree, p) : q \in DOMAIN tree /\ Cut(tree, p)[q] = tree[q]
    BY DEF Cut
  <2>3. QED
    BY <1>3, <2>1, <2>2
<1>8. ASSUME NEW p \in Path, NEW q \in Path, CheckRename(p, q) PROVE InTheWay'
  BY <1>8 DEF CheckRename, Idle, InTheWay
<1>9. ASSUME NEW i \in Id, CheckRestore(i) PROVE InTheWay'
  BY <1>9 DEF CheckRestore, Idle, InTheWay
<1>10. CASE MoveIn
  <2>1. op'.step = "label" /\ op'.path = op.path
    BY <1>0, <1>10, OpTypes DEF MoveIn, Steps
  <2>2. DOMAIN tree' = {q \in DOMAIN tree : ~IsUnder(q, op.path)}
    BY <1>10, MoveInIs DEF TakenIn
  <2>3. IsUnder(op.path, op.path)
    BY <1>0, <1>10, Paths, UnderSelf DEF MoveIn, OpShape
  <2>4. QED
    BY <2>1, <2>2, <2>3 DEF InTheWay
<1>11. CASE WriteManifestFails
  <2>1. op.step = "label" /\ op'.step = "rollback" /\ op'.path = op.path
        /\ UNCHANGED <<tree, raced>>
    BY <1>0, <1>11, OpTypes DEF WriteManifestFails, Steps, fates
  <2>2. QED
    BY <2>1 DEF InTheWay
<1>12. CASE \/ Rename \/ MoveOut
            \/ \E q \in Path : CarryHistory(q)
            \/ \E p \in Path, i \in Id : CreateContainer(p, i)
  <2>1. CASE Rename
    BY <1>0, <1>2, <2>1, OpTypes DEF Rename, Steps
  <2>2. CASE MoveOut
    BY <1>0, <1>2, <2>2, OpTypes DEF MoveOut, Steps
  <2>3. ASSUME NEW q \in Path, CarryHistory(q) PROVE InTheWay'
    BY <1>0, <1>2, <2>3 DEF CarryHistory, Types
  <2>4. ASSUME NEW p, NEW i, CreateContainer(p, i) PROVE InTheWay'
    BY <1>2, <2>4 DEF CreateContainer, Idle
  <2>5. QED
    BY <1>12, <2>1, <2>2, <2>3, <2>4
<1>13. CASE \/ RenameFails \/ RenameDone \/ MoveInFails \/ WriteManifest \/ RollBack
            \/ MoveOutFails \/ RemoveContainer \/ Kill
  BY <1>1, <1>2, <1>13
     DEF RenameFails, RenameDone, MoveInFails, WriteManifest, RollBack, MoveOutFails,
         RemoveContainer, Kill
<1>14. CASE UNCHANGED vars
  BY <1>3, <1>14 DEF vars, fates
<1>15. QED
  BY <1>4, <1>5, <1>6, <1>7, <1>8, <1>9, <1>10, <1>11, <1>12, <1>13, <1>14 DEF Next

(* A step that moves no file.                                              *)
StillFiles ==
  /\ \A p \in DOMAIN tree' : tree'[p] \in File => p \in DOMAIN tree /\ tree'[p] = tree[p]
  /\ \A p \in DOMAIN tree : tree[p] \in File => p \in DOMAIN tree' /\ tree'[p] = tree[p]

(* Where no file moves, each stays in its place.                           *)
LEMMA StillInPlace ==
  ASSUME known \subseteq File, Unique, Present, StillFiles,
         \A i \in Id : bin'[i].items = bin[i].items,
         UNCHANGED <<known, raced, buried>>
  PROVE  Unique' /\ Present'
<1>1. ASSUME NEW f \in File
      PROVE  (AtOnce(f) => AtOnce(f)') /\ (Somewhere(f)' <=> Somewhere(f))
  BY DEF StillFiles, AtOnce, Somewhere
<1>2. QED
  BY <1>1 DEF Unique, Present

(* A new file is in one place.                                             *)
LEMMA AddedInPlace ==
  ASSUME Types, Unique, Present, NEW p \in Path, NEW f \in File, AddFile(p, f),
         UNCHANGED <<bin, buried>>, raced \subseteq raced'
  PROVE  Unique' /\ Present'
<1>0. f \in Entry /\ f \notin known /\ known' = known \cup {f} /\ p \notin DOMAIN tree
  BY DEF Entry, AddFile
<1>1. /\ DOMAIN tree' = DOMAIN tree \cup {p} /\ tree'[p] = f
      /\ \A q \in DOMAIN tree : tree'[q] = tree[q]
  BY <1>0, AddedFits DEF AddFile
<1>2. ~Somewhere(f)
  BY <1>0 DEF Unique
<1>3. Somewhere(f)' /\ AtOnce(f)'
  BY <1>0, <1>1, <1>2 DEF Somewhere, AtOnce
<1>4. ASSUME NEW g \in File, g # f
      PROVE  (AtOnce(g) => AtOnce(g)') /\ (Somewhere(g)' <=> Somewhere(g))
  BY <1>0, <1>1, <1>4 DEF AtOnce, Somewhere
<1>5. Unique'
  BY <1>0, <1>3, <1>4 DEF Unique
<1>6. Present'
  BY <1>0, <1>3, <1>4 DEF Present, Types
<1>7. QED
  BY <1>5, <1>6

(* A rename leaves each file in one place.                                 *)
LEMMA RelocatedInPlace ==
  ASSUME Types, Unique, Present, NEW p \in Path, NEW to \in Path, Relocated(p, to),
         \A s \in Trail : ~(IsUnder(s, p) /\ IsUnder(s, to)),
         to \in DOMAIN tree => tree[to] \notin File \/ tree[to] \in raced,
         UNCHANGED <<bin, known, raced, buried>>
  PROVE  Unique' /\ Present'
<1>0. p \in Trail /\ to \in Trail /\ \A q \in DOMAIN tree : q \in Trail
  BY Paths DEF Types, IsVault, IsTree
(* Where what is at q now was before.                                      *)
<1>1. ASSUME NEW q \in DOMAIN tree'
      PROVE  \E s \in DOMAIN tree :
               /\ tree'[q] = tree[s]
               /\ \/ q = s /\ ~IsUnder(s, p)
                  \/ \E r \in Trail : q = to \o r /\ s = p \o r
  BY DEF Relocated
<1>2. ASSUME NEW f \in File, AtOnce(f) PROVE AtOnce(f)'
  <2>1. ASSUME NEW x \in DOMAIN tree', NEW y \in DOMAIN tree', tree'[x] = f, tree'[y] = f
        PROVE  x = y
    <3>1. PICK s \in DOMAIN tree :
            /\ tree[s] = f
            /\ \/ x = s /\ ~IsUnder(s, p)
               \/ \E r \in Trail : x = to \o r /\ s = p \o r
      BY <1>1, <2>1, ZenonT(60)
    <3>2. PICK t \in DOMAIN tree :
            /\ tree[t] = f
            /\ \/ y = t /\ ~IsUnder(t, p)
               \/ \E r \in Trail : y = to \o r /\ t = p \o r
      BY <1>1, <2>1, ZenonT(60)
    <3>3. s = t
      BY <1>2, <3>1, <3>2 DEF AtOnce
    <3>4. CASE ~IsUnder(s, p)
      BY <1>0, <3>1, <3>2, <3>3, <3>4, Joined
    <3>5. CASE IsUnder(s, p)
      <4>1. PICK r \in Trail : x = to \o r /\ s = p \o r
        BY <3>1, <3>5
      <4>2. PICK u \in Trail : y = to \o u /\ t = p \o u
        BY <3>2, <3>3, <3>5
      <4>3. r = u
        BY <1>0, <3>3, <4>1, <4>2, JoinedOnce
      <4>4. QED
        BY <4>1, <4>2, <4>3
    <3>6. QED
      BY <3>4, <3>5
  <2>2. \A x \in DOMAIN tree' : tree'[x] = f => \E s \in DOMAIN tree : tree[s] = f
    BY <1>1
  <2>3. QED
    BY <1>2, <2>1, <2>2 DEF AtOnce
<1>3. ASSUME NEW f \in File, Somewhere(f)' PROVE Somewhere(f)
  BY <1>1, <1>3 DEF Somewhere
<1>4. ASSUME NEW f \in File, Somewhere(f) PROVE Somewhere(f)' \/ f \in raced
  <2>1. ASSUME NEW s \in DOMAIN tree, tree[s] = f
        PROVE  (\E q \in DOMAIN tree' : tree'[q] = f) \/ f \in raced
    <3>1. CASE IsUnder(s, p)
      <4>1. PICK r \in Trail : s = p \o r
        BY <1>0, <3>1, Split
      <4>2. QED
        BY <2>1, <4>1 DEF Relocated
    <3>2. CASE IsUnder(s, to)
      BY <2>1, <3>2 DEF Relocated
    <3>3. CASE ~IsUnder(s, p) /\ ~IsUnder(s, to)
      BY <2>1, <3>3 DEF Relocated
    <3>4. QED
      BY <3>1, <3>2, <3>3
  <2>2. QED
    BY <1>4, <2>1 DEF Somewhere
<1>5. Unique'
  BY <1>2, <1>3 DEF Unique
<1>6. Present'
  BY <1>4 DEF Present, Types
<1>7. QED
  BY <1>5, <1>6

(* A deletion leaves each file in one place.                               *)
LEMMA TakenInPlace ==
  ASSUME Types, Unique, Present, NEW i \in Id, NEW p \in Path, TakenIn(i, p),
         UNCHANGED <<known, raced, buried>>
  PROVE  Unique' /\ Present'
<1>0. p \in Trail /\ \A q \in DOMAIN tree : q \in Trail
  BY Paths DEF Types, IsVault, IsTree
<1>1. /\ \A r \in DOMAIN bin'[i].items :
           r \in Trail /\ p \o r \in DOMAIN tree /\ bin'[i].items[r] = tree[p \o r]
                       /\ IsUnder(p \o r, p)
      /\ \A j \in Id : j # i => bin'[j] = bin[j]
      /\ \A q \in DOMAIN tree' : q \in DOMAIN tree /\ ~IsUnder(q, p) /\ tree'[q] = tree[q]
  BY <1>0, Joined DEF TakenIn
<1>2. ASSUME NEW f \in File, AtOnce(f) PROVE AtOnce(f)'
  <2>1. \A x, y \in DOMAIN tree' : tree'[x] = f /\ tree'[y] = f => x = y
    BY <1>1, <1>2 DEF AtOnce
  <2>2. ASSUME NEW a \in Id, NEW b \in Id,
               NEW r \in DOMAIN bin'[a].items, NEW s \in DOMAIN bin'[b].items,
               bin'[a].items[r] = f, bin'[b].items[s] = f
        PROVE  a = b /\ r = s
    <3>1. CASE a = i /\ b = i
      <4>1. /\ r \in Trail /\ p \o r \in DOMAIN tree /\ tree[p \o r] = f
            /\ s \in Trail /\ p \o s \in DOMAIN tree /\ tree[p \o s] = f
        <5>1. r \in DOMAIN bin'[i].items /\ s \in DOMAIN bin'[i].items
              /\ bin'[i].items[r] = f /\ bin'[i].items[s] = f
          BY <2>2, <3>1
        <5>2. QED
          BY <1>1, <5>1
      <4>2. p \o r = p \o s
        BY <1>2, <4>1 DEF AtOnce
      <4>3. QED
        BY <1>0, <3>1, <4>1, <4>2, JoinedOnce
    <3>2. CASE a = i /\ b # i
      BY <1>1, <1>2, <2>2, <3>2 DEF AtOnce
    <3>3. CASE a # i /\ b = i
      BY <1>1, <1>2, <2>2, <3>3 DEF AtOnce
    <3>4. CASE a # i /\ b # i
      BY <1>1, <1>2, <2>2, <3>4 DEF AtOnce
    <3>5. QED
      BY <3>1, <3>2, <3>3, <3>4
  <2>3. ASSUME NEW x \in DOMAIN tree', NEW a \in Id, NEW r \in DOMAIN bin'[a].items,
               tree'[x] = f, bin'[a].items[r] = f
        PROVE  FALSE
    <3>1. CASE a = i
      <4>1. x = p \o r
        BY <1>1, <1>2, <2>3, <3>1 DEF AtOnce
      <4>2. QED
        BY <1>1, <3>1, <4>1
    <3>2. CASE a # i
      BY <1>1, <1>2, <2>3, <3>2 DEF AtOnce
    <3>3. QED
      BY <3>1, <3>2
  <2>4. QED
    BY <2>1, <2>2, <2>3 DEF AtOnce
<1>3. ASSUME NEW f \in File, Somewhere(f)' PROVE Somewhere(f)
  <2>1. ASSUME NEW a \in Id, NEW r \in DOMAIN bin'[a].items, bin'[a].items[r] = f
        PROVE  Somewhere(f)
    BY <1>1, <2>1 DEF Somewhere
  <2>2. QED
    BY <1>1, <1>3, <2>1 DEF Somewhere
<1>4. ASSUME NEW f \in File, Somewhere(f) PROVE Somewhere(f)'
  <2>1. ASSUME NEW q \in DOMAIN tree, tree[q] = f PROVE Somewhere(f)'
    <3>1. CASE IsUnder(q, p)
      <4>1. PICK r \in Trail : q = p \o r
        BY <1>0, <3>1, Split
      <4>2. r \in DOMAIN bin'[i].items /\ bin'[i].items[r] = f
        BY <2>1, <4>1 DEF TakenIn
      <4>3. QED
        BY <4>2 DEF Somewhere
    <3>2. CASE ~IsUnder(q, p)
      BY <2>1, <3>2 DEF TakenIn, Somewhere
    <3>3. QED
      BY <3>1, <3>2
  <2>2. ASSUME NEW a \in Id, NEW r \in DOMAIN bin[a].items, bin[a].items[r] = f
        PROVE  Somewhere(f)'
    <3>1. a # i
      BY DEF TakenIn
    <3>2. QED
      BY <1>1, <2>2, <3>1 DEF Somewhere
  <2>3. QED
    BY <1>4, <2>1, <2>2 DEF Somewhere
<1>5. Unique'
  BY <1>2, <1>3 DEF Unique
<1>6. Present'
  BY <1>4 DEF Present, Types
<1>7. QED
  BY <1>5, <1>6

(* A restoration leaves each file in one place.                            *)
LEMMA TakenOutInPlace ==
  ASSUME Types, Unique, Present, NEW i \in Id, NEW p \in Path, TakenOut(i, p),
         p \in DOMAIN tree => tree[p] \notin File \/ tree[p] \in raced,
         UNCHANGED <<known, raced, buried>>
  PROVE  Unique' /\ Present'
<1>0. p \in Trail /\ Folder \notin File
      /\ \A r \in DOMAIN bin[i].items : r \in Trail /\ IsUnder(p \o r, p)
  <2>1. \A r \in DOMAIN bin[i].items : r \in Trail
    BY DEF Types, Sound, Whole, Items
  <2>2. QED
    BY <2>1, Paths, Joined, EntryAssumption
<1>1. /\ \A q \in DOMAIN tree' : tree'[q] \in File =>
           \/ q \in DOMAIN tree /\ tree[q] = tree'[q] /\ ~IsUnder(q, p)
           \/ \E r \in DOMAIN bin[i].items : q = p \o r /\ bin[i].items[r] = tree'[q]
      /\ \A j \in Id : \A r \in DOMAIN bin'[j].items :
           j # i /\ r \in DOMAIN bin[j].items /\ bin'[j].items[r] = bin[j].items[r]
  <2>1. ASSUME NEW q \in DOMAIN tree', tree'[q] \in File
        PROVE  \/ q \in DOMAIN tree /\ tree[q] = tree'[q] /\ ~IsUnder(q, p)
               \/ \E r \in DOMAIN bin[i].items : q = p \o r /\ bin[i].items[r] = tree'[q]
    <3>1. CASE q \in DOMAIN tree /\ ~IsUnder(q, p)
      BY <3>1 DEF TakenOut
    <3>2. CASE \E r \in DOMAIN bin[i].items : q = p \o r
      <4>1. PICK r \in DOMAIN bin[i].items : q = p \o r
        BY <3>2
      <4>2. tree'[p \o r] = bin[i].items[r]
        BY DEF TakenOut
      <4>3. QED
        BY <4>1, <4>2
    <3>3. QED
      BY <1>0, <2>1, <3>1, <3>2 DEF TakenOut
  <2>2. DOMAIN bin'[i].items = {} /\ \A j \in Id : j # i => bin'[j] = bin[j]
    BY DEF TakenOut
  <2>3. QED
    BY <2>1, <2>2
<1>2. ASSUME NEW f \in File, AtOnce(f) PROVE AtOnce(f)'
  <2>1. ASSUME NEW x \in DOMAIN tree', NEW y \in DOMAIN tree', tree'[x] = f, tree'[y] = f
        PROVE  x = y
    <3>1. \/ x \in DOMAIN tree /\ tree[x] = f
          \/ \E r \in DOMAIN bin[i].items : x = p \o r /\ bin[i].items[r] = f
      BY <1>1, <2>1
    <3>2. \/ y \in DOMAIN tree /\ tree[y] = f
          \/ \E r \in DOMAIN bin[i].items : y = p \o r /\ bin[i].items[r] = f
      BY <1>1, <2>1
    <3>3. \A s \in DOMAIN tree : \A r \in DOMAIN bin[i].items :
            ~(tree[s] = f /\ bin[i].items[r] = f)
      BY <1>2 DEF AtOnce
    <3>4. CASE x \in DOMAIN tree /\ tree[x] = f
      BY <1>2, <3>2, <3>3, <3>4 DEF AtOnce
    <3>5. CASE \E r \in DOMAIN bin[i].items : x = p \o r /\ bin[i].items[r] = f
      <4>1. PICK r \in DOMAIN bin[i].items : x = p \o r /\ bin[i].items[r] = f
        BY <3>5
      <4>2. PICK s \in DOMAIN bin[i].items : y = p \o s /\ bin[i].items[s] = f
        BY <3>2, <3>3, <4>1
      <4>3. r = s
        BY <1>2, <4>1, <4>2 DEF AtOnce
      <4>4. QED
        BY <4>1, <4>2, <4>3
    <3>6. QED
      BY <3>1, <3>4, <3>5
  <2>2. \A a, b \in Id : \A r \in DOMAIN bin'[a].items, s \in DOMAIN bin'[b].items :
          bin'[a].items[r] = f /\ bin'[b].items[s] = f => a = b /\ r = s
    BY <1>1, <1>2 DEF AtOnce
  <2>3. ASSUME NEW x \in DOMAIN tree', NEW a \in Id, NEW r \in DOMAIN bin'[a].items,
               tree'[x] = f, bin'[a].items[r] = f
        PROVE  FALSE
    BY <1>1, <1>2, <2>3 DEF AtOnce
  <2>4. QED
    BY <2>1, <2>2, <2>3 DEF AtOnce
<1>3. ASSUME NEW f \in File, Somewhere(f)' PROVE Somewhere(f)
  BY <1>1, <1>3 DEF Somewhere
<1>4. ASSUME NEW f \in File, Somewhere(f) PROVE Somewhere(f)' \/ f \in raced
  <2>1. ASSUME NEW q \in DOMAIN tree, tree[q] = f PROVE Somewhere(f)' \/ f \in raced
    <3>1. CASE IsUnder(q, p)
      BY <2>1, <3>1 DEF TakenOut
    <3>2. CASE ~IsUnder(q, p)
      BY <2>1, <3>2 DEF TakenOut, Somewhere
    <3>3. QED
      BY <3>1, <3>2
  <2>2. ASSUME NEW a \in Id, NEW r \in DOMAIN bin[a].items, bin[a].items[r] = f
        PROVE  Somewhere(f)'
    <3>1. CASE a = i
      BY <2>2, <3>1 DEF TakenOut, Somewhere
    <3>2. CASE a # i
      BY <2>2, <3>2 DEF TakenOut, Somewhere
    <3>3. QED
      BY <3>1, <3>2
  <2>3. QED
    BY <1>4, <2>1, <2>2 DEF Somewhere
<1>5. Unique'
  BY <1>2, <1>3 DEF Unique
<1>6. Present'
  BY <1>4 DEF Present, Types
<1>7. QED
  BY <1>5, <1>6

(* An item written over by its manifest is buried.                         *)
LEMMA BuriedInPlace ==
  ASSUME TypeInv, Unique, Present, WriteManifest
  PROVE  Unique' /\ Present'
<1>0. UNCHANGED <<tree, known, raced>> /\ Types /\ ManifestName \notin File
  BY EntryAssumption DEF WriteManifest, TypeInv
<1>1. /\ op.id \in Id /\ \A j \in Id : j # op.id => bin'[j] = bin[j]
      /\ \/ bin'[op.id].items = bin[op.id].items /\ UNCHANGED buried
         \/ /\ DOMAIN bin'[op.id].items = {<<>>}
            /\ bin'[op.id].items[<<>>] = ManifestName
            /\ buried' = buried \cup Files(bin[op.id].items)
  BY WriteManifestIs
<1>2. CASE bin'[op.id].items = bin[op.id].items /\ UNCHANGED buried
  <2>1. \A j \in Id : bin'[j].items = bin[j].items
    BY <1>1, <1>2
  <2>2. StillFiles
    BY <1>0 DEF StillFiles
  <2>3. QED
    BY <1>0, <1>2, <2>1, <2>2, StillInPlace DEF Types
<1>3. CASE /\ DOMAIN bin'[op.id].items = {<<>>}
           /\ bin'[op.id].items[<<>>] = ManifestName
           /\ buried' = buried \cup Files(bin[op.id].items)
  <2>1. \A j \in Id : \A r \in DOMAIN bin'[j].items : bin'[j].items[r] \in File =>
          j # op.id /\ r \in DOMAIN bin[j].items /\ bin'[j].items[r] = bin[j].items[r]
    BY <1>0, <1>1, <1>3
  <2>2. ASSUME NEW f \in File
        PROVE  (AtOnce(f) => AtOnce(f)') /\ (Somewhere(f)' => Somewhere(f))
    BY <1>0, <2>1 DEF AtOnce, Somewhere
  <2>3. ASSUME NEW f \in File, Somewhere(f) PROVE Somewhere(f)' \/ f \in buried'
    <3>1. ASSUME NEW a \in Id, NEW r \in DOMAIN bin[a].items, bin[a].items[r] = f
          PROVE  Somewhere(f)' \/ f \in buried'
      <4>1. CASE a = op.id
        BY <1>3, <2>3, <3>1, <4>1 DEF Files
      <4>2. CASE a # op.id
        BY <1>1, <3>1, <4>2 DEF Somewhere
      <4>3. QED
        BY <4>1, <4>2
    <3>2. QED
      BY <1>0, <2>3, <3>1 DEF Somewhere
  <2>4. Unique'
    BY <1>0, <2>2 DEF Unique
  <2>5. Present'
    BY <1>0, <1>3, <2>3 DEF Present, Types
  <2>6. QED
    BY <2>4, <2>5
<1>4. QED
  BY <1>1, <1>2, <1>3

(* No file is lost or doubled by a step.                                   *)
LEMMA NextInPlace ==
  TypeInv /\ InTheWay /\ Unique /\ Present /\ [Next]_vars => Unique' /\ Present'
<1> SUFFICES ASSUME TypeInv, InTheWay, Unique, Present, [Next]_vars
             PROVE  Unique' /\ Present'
  OBVIOUS
<1>0. /\ Types /\ OpShape /\ InHand
      /\ known \subseteq File /\ \A p \in DOMAIN tree : p \in Path
      /\ Folder \notin File /\ DOMAIN bin = Id
  BY EntryAssumption DEF TypeInv, Types, IsVault, IsTree
<1>1. DOMAIN EmptyTree = {} /\ NoContainer.items = EmptyTree
  BY Nothing DEF NoContainer
<1>2. ASSUME UNCHANGED <<tree, bin, known, raced, buried>> PROVE Unique' /\ Present'
  BY <1>0, <1>2, StillInPlace DEF StillFiles
<1>3. ASSUME NEW p \in Path, NEW f \in File, CreateNote(p, f) \/ OutsideCreate(p, f)
      PROVE  Unique' /\ Present'
  <2>1. AddFile(p, f) /\ UNCHANGED <<bin, buried>> /\ raced \subseteq raced'
    BY <1>3 DEF CreateNote, OutsideCreate, fates
  <2>2. QED
    BY <1>0, <2>1, AddedInPlace
<1>4. ASSUME NEW p \in Path, CreateFolder(p) PROVE Unique' /\ Present'
  <2>1. /\ p \notin DOMAIN tree /\ InFolder(tree, p)
        /\ tree' = Graft(tree, p, [r \in {<<>>} |-> Folder])
        /\ UNCHANGED <<bin, known, raced, buried>>
    BY <1>4 DEF CreateFolder, fates
  <2>2. Folder \in Entry
    BY DEF Entry
  <2>3. /\ DOMAIN tree' = DOMAIN tree \cup {p} /\ tree'[p] = Folder
        /\ \A q \in DOMAIN tree : tree'[q] = tree[q]
    BY <1>0, <2>1, <2>2, AddedFits
  <2>4. StillFiles
    BY <1>0, <2>3 DEF StillFiles
  <2>5. QED
    BY <1>0, <2>1, <2>4, StillInPlace
<1>5. ASSUME NEW p \in Path, SaveNote(p) PROVE Unique' /\ Present'
  BY <1>2, <1>5 DEF SaveNote
<1>6. ASSUME NEW p \in Path, OutsideRmdir(p) PROVE Unique' /\ Present'
  <2>1. /\ p \in DOMAIN tree /\ tree[p] = Folder /\ Under(tree, p) = {p}
        /\ tree' = Cut(tree, p) /\ UNCHANGED <<bin, known, raced, buried>>
    BY <1>6 DEF OutsideRmdir, fates
  <2>2. DOMAIN tree' = DOMAIN tree \ {p} /\ \A q \in DOMAIN tree' : tree'[q] = tree[q]
    BY <2>1 DEF Cut
  <2>3. StillFiles
    BY <1>0, <2>1, <2>2 DEF StillFiles
  <2>4. QED
    BY <1>0, <2>1, <2>3, StillInPlace
<1>7. CASE Rename
  <2>1. op.path \in Path /\ op.to \in Path /\ op.to # op.path
        /\ Parent(op.to) = Parent(op.path)
    BY <1>0, <1>7 DEF Rename, OpShape
  <2>2. \A s \in Trail : ~(IsUnder(s, op.path) /\ IsUnder(s, op.to))
    BY <2>1, Siblings
  <2>3. op.to \in DOMAIN tree => tree[op.to] \notin File \/ tree[op.to] \in raced
    BY <1>7 DEF Rename, InTheWay
  <2>4. Relocated(op.path, op.to)
    BY <1>7, RenameIs
  <2>5. UNCHANGED <<bin, known, raced, buried>>
    BY <1>7 DEF Rename
  <2>6. QED
    BY <1>0, <2>1, <2>2, <2>3, <2>4, <2>5, RelocatedInPlace
<1>8. CASE MoveIn
  <2>1. op.path \in Path
    BY <1>0, <1>8 DEF MoveIn, OpShape
  <2>2. op.id \in Id /\ TakenIn(op.id, op.path)
    BY <1>8, MoveInIs
  <2>3. UNCHANGED <<known, raced, buried>>
    BY <1>8 DEF MoveIn
  <2>4. QED
    BY <1>0, <2>1, <2>2, <2>3, TakenInPlace
<1>9. ASSUME op.id \in Id, op.path \in Path, TakenOut(op.id, op.path),
             op.step \in {"rollback", "restore"}, UNCHANGED <<known, raced, buried>>
      PROVE  Unique' /\ Present'
  <2>1. op.path \in DOMAIN tree => tree[op.path] \notin File \/ tree[op.path] \in raced
    BY <1>9 DEF InTheWay
  <2>2. QED
    BY <1>0, <1>9, <2>1, TakenOutInPlace
<1>10. CASE RollBack
  <2>1. CASE TakenOut(op.id, op.path)
    BY <1>9, <1>10, <2>1, RollBackIs DEF RollBack
  <2>2. CASE UNCHANGED <<tree, bin>>
    BY <1>2, <1>10, <2>2 DEF RollBack
  <2>3. QED
    BY <1>10, <2>1, <2>2, RollBackIs
<1>11. CASE MoveOut
  BY <1>9, <1>11, MoveOutIs DEF MoveOut
<1>12. CASE WriteManifest
  BY <1>12, BuriedInPlace
<1>13. CASE MoveOutFails
  <2>1. UNCHANGED <<bin, known, raced, buried>> /\ op.path \in Path
    BY <1>0, <1>13 DEF MoveOutFails, fates, OpShape
  <2>2. CASE UNCHANGED tree
    BY <1>2, <2>1, <2>2
  <2>3. CASE CanMakeParents(op.path) /\ tree' = WithParents(op.path)
    <3>1. /\ DOMAIN tree' = DOMAIN tree \cup Ancestors(op.path)
          /\ \A q \in DOMAIN tree : tree'[q] = tree[q]
          /\ \A q \in DOMAIN tree' : q \notin DOMAIN tree => tree'[q] = Folder
      BY <1>0, <2>1, <2>3, ParentsAre DEF Types
    <3>2. StillFiles
      BY <1>0, <3>1 DEF StillFiles
    <3>3. QED
      BY <1>0, <2>1, <3>2, StillInPlace
  <2>4. QED
    BY <1>13, <2>2, <2>3 DEF MoveOutFails
(* The containers these make or remove are empty.                          *)
<1>14. ASSUME UNCHANGED <<tree, known, raced, buried>>,
              NEW i \in Id, bin[i].items = EmptyTree, bin'[i].items = EmptyTree,
              \A j \in Id : j # i => bin'[j] = bin[j]
       PROVE  Unique' /\ Present'
  <2>1. \A j \in Id : bin'[j].items = bin[j].items
    BY <1>14
  <2>2. QED
    BY <1>0, <1>14, <2>1, StillInPlace DEF StillFiles
<1>15. ASSUME NEW p \in Path, NEW i \in Id, CreateContainer(p, i)
       PROVE  Unique' /\ Present'
  <2>1. /\ bin[i] = NoContainer /\ bin' = [bin EXCEPT ![i].from = p]
        /\ UNCHANGED <<tree, known, raced, buried>>
    BY <1>15 DEF CreateContainer, fates
  <2>2. bin'[i].items = bin[i].items /\ \A j \in Id : j # i => bin'[j] = bin[j]
    BY <1>0, <2>1
  <2>3. QED
    BY <1>1, <1>14, <2>1, <2>2
<1>16. CASE MoveInFails
  <2>1. /\ op.id \in Id /\ bin[op.id].items = EmptyTree
        /\ bin' = [bin EXCEPT ![op.id] = NoContainer]
        /\ UNCHANGED <<tree, known, raced, buried>>
    BY <1>0, <1>16 DEF MoveInFails, fates, OpShape, OnTree, InHand
  <2>2. bin'[op.id] = NoContainer /\ \A j \in Id : j # op.id => bin'[j] = bin[j]
    BY <1>0, <2>1
  <2>3. QED
    BY <1>1, <1>14, <2>1, <2>2
<1>17. CASE RemoveContainer
  <2>1. /\ op.id \in Id /\ bin[op.id].items = EmptyTree
        /\ UNCHANGED <<tree, known, raced, buried>>
    BY <1>0, <1>17 DEF RemoveContainer, OpShape, OnTree, InHand
  <2>2. CASE UNCHANGED bin
    BY <1>2, <2>1, <2>2
  <2>3. CASE bin' = [bin EXCEPT ![op.id] = NoContainer]
    <3>1. bin'[op.id] = NoContainer /\ \A j \in Id : j # op.id => bin'[j] = bin[j]
      BY <1>0, <2>1, <2>3
    <3>2. QED
      BY <1>1, <1>14, <2>1, <3>1
  <2>4. QED
    BY <1>17, <2>2, <2>3 DEF RemoveContainer
<1>18. CASE \/ \E p, q \in Path : CheckRename(p, q)
            \/ RenameFails \/ RenameDone
            \/ \E q \in Path : CarryHistory(q)
            \/ WriteManifestFails \/ Kill
            \/ \E i \in Id : CheckRestore(i)
            \/ UNCHANGED vars
  <2>1. UNCHANGED <<tree, bin, known, raced, buried>>
    BY <1>18
       DEF CheckRename, RenameFails, RenameDone, CarryHistory, WriteManifestFails,
           Kill, CheckRestore, fates, vars
  <2>2. QED
    BY <1>2, <2>1
<1>19. QED
  BY <1>3, <1>4, <1>5, <1>6, <1>7, <1>8, <1>10, <1>11, <1>12, <1>13, <1>15, <1>16,
     <1>17, <1>18 DEF Next

(* A file is in one place, the vault or the trash, whatever fails or is    *)
(* killed: after any rename, deletion, restoration, rollback and step of   *)
(* another program it is neither lost nor in two places, but for one put   *)
(* in a command's way after its check, and an item its own manifest was    *)
(* written over.                                                           *)
THEOREM FilesAreInOnePlace == Spec => []OneLocation
<1>1. Init => InTheWay /\ Unique /\ Present
  <2>1. DOMAIN EmptyTree = {} /\ NoContainer.items = EmptyTree
    BY Nothing DEF NoContainer
  <2>2. QED
    BY <2>1 DEF Init, InTheWay, Idle, Unique, Present, AtOnce, Somewhere
<1>2. Types /\ Unique /\ Present => OneLocation
  <2>1. ASSUME Types, Unique, Present, NEW f \in known
        PROVE  \/ Cardinality(Places(f)) = 1
               \/ Places(f) = {} /\ f \in raced \cup buried
    <3>1. f \in File /\ AtOnce(f) /\ None \notin Id
      BY <2>1, EntryAssumption DEF Types, Unique
    <3>2. ASSUME NEW x \in Places(f)
          PROVE  \/ \E p \in DOMAIN tree : x = <<None, p>> /\ tree[p] = f
                 \/ \E i \in Id : \E r \in DOMAIN bin[i].items :
                      x = <<i, r>> /\ bin[i].items[r] = f
      BY <3>2 DEF Places
    <3>3. ASSUME NEW x \in Places(f), NEW y \in Places(f) PROVE x = y
      BY <3>1, <3>2 DEF AtOnce
    <3>4. CASE Places(f) # {}
      <4>1. PICK x : Places(f) = {x}
        BY <3>3, <3>4
      <4>2. QED
        BY <4>1, FS_Singleton
    <3>5. CASE Places(f) = {}
      <4>1. /\ \A p \in DOMAIN tree : tree[p] = f => <<None, p>> \in Places(f)
            /\ \A i \in Id : \A r \in DOMAIN bin[i].items :
                 bin[i].items[r] = f => <<i, r>> \in Places(f)
        BY DEF Places
      <4>2. ~Somewhere(f)
        BY <3>5, <4>1 DEF Somewhere
      <4>3. QED
        BY <2>1, <3>5, <4>2 DEF Present
    <3>6. QED
      BY <3>4, <3>5
  <2>2. QED
    BY <2>1 DEF OneLocation
<1>3. TypeInv => Types
  BY DEF TypeInv
<1>4. QED
  BY <1>1, <1>2, <1>3, NextInTheWay, NextInPlace, TypeInvariant, PTL DEF Spec

-----------------------------------------------------------------------------
(* A file leaves the trash for where it came from.                         *)

(* A step after which file f of container i is where it was, or is back at *)
(* the path it was deleted from, or is buried.                             *)
Returned(i, r) ==
  LET f == bin[i].items[r]  p == bin[i].from \o r
  IN  f \notin Files(bin[i].items)' /\ f \in File =>
        \/ p \in DOMAIN tree' /\ tree'[p] = f
        \/ f \in buried'

(* Every step keeps a file in the trash, or puts it back, or buries it.    *)
LEMMA StepReturns ==
  ASSUME TypeInv, [Next]_vars, NEW i \in Id, NEW r \in DOMAIN bin[i].items
  PROVE  Returned(i, r)
<1>0. /\ Types /\ OpShape /\ InHand /\ DOMAIN bin = Id
      /\ DOMAIN EmptyTree = {} /\ NoContainer.items = EmptyTree
  BY Nothing DEF TypeInv, Types, NoContainer
<1>1. ASSUME bin'[i].items = bin[i].items PROVE Returned(i, r)
  <2>1. bin[i].items[r] \in File => bin[i].items[r] \in Files(bin'[i].items)
    BY <1>1 DEF Files
  <2>2. QED
    BY <2>1 DEF Returned, Files
<1>2. ASSUME \A j \in Id : j # op.id => bin'[j] = bin[j], op.id # i
      PROVE  Returned(i, r)
  BY <1>1, <1>2
<1>3. ASSUME op.id \in Id, TakenOut(op.id, op.path) PROVE Returned(i, r)
  <2>1. CASE op.id = i
    BY <1>3, <2>1 DEF TakenOut, Returned
  <2>2. CASE op.id # i
    BY <1>2, <1>3, <2>2 DEF TakenOut
  <2>3. QED
    BY <2>1, <2>2
<1>4. CASE RollBack
  <2>1. CASE TakenOut(op.id, op.path)
    BY <1>3, <1>4, <2>1, RollBackIs
  <2>2. CASE UNCHANGED bin
    BY <1>1, <2>2
  <2>3. QED
    BY <1>4, <2>1, <2>2, RollBackIs
<1>5. CASE MoveOut
  BY <1>3, <1>5, MoveOutIs
<1>6. CASE WriteManifest
  <2>1. CASE op.id # i
    BY <1>2, <1>6, <2>1, WriteManifestIs
  <2>2. CASE op.id = i
    <3>1. CASE bin'[i].items = bin[i].items
      BY <1>1, <3>1
    <3>2. CASE buried' = buried \cup Files(bin[i].items)
      BY <3>2 DEF Returned, Files
    <3>3. QED
      BY <1>6, <2>2, <3>1, <3>2, WriteManifestIs
  <2>3. QED
    BY <2>1, <2>2
<1>7. CASE MoveIn
  <2>1. op.id # i /\ \A j \in Id : j # op.id => bin'[j] = bin[j]
    BY <1>7, MoveInIs DEF TakenIn
  <2>2. QED
    BY <1>2, <2>1
<1>8. CASE MoveInFails
  <2>1. op.id \in Id /\ bin[op.id].items = EmptyTree
        /\ bin' = [bin EXCEPT ![op.id] = NoContainer]
    BY <1>0, <1>8 DEF MoveInFails, OpShape, OnTree, InHand
  <2>2. op.id # i
    BY <1>0, <2>1
  <2>3. QED
    BY <1>0, <1>1, <2>1, <2>2
<1>9. CASE RemoveContainer
  <2>1. bin[op.id].items = EmptyTree
        /\ (bin' = bin \/ bin' = [bin EXCEPT ![op.id] = NoContainer])
    BY <1>0, <1>9 DEF RemoveContainer, InHand
  <2>2. op.id # i
    BY <1>0, <2>1
  <2>3. QED
    BY <1>0, <1>1, <2>1, <2>2
<1>10. ASSUME NEW p \in Path, NEW j \in Id, CreateContainer(p, j) PROVE Returned(i, r)
  <2>1. bin' = [bin EXCEPT ![j].from = p]
    BY <1>10 DEF CreateContainer
  <2>2. bin'[i].items = bin[i].items
    BY <1>0, <2>1
  <2>3. QED
    BY <1>1, <2>2
<1>11. CASE \/ \E p \in Path, f \in File : CreateNote(p, f) \/ OutsideCreate(p, f)
            \/ \E p \in Path : CreateFolder(p) \/ SaveNote(p) \/ OutsideRmdir(p)
            \/ \E p, q \in Path : CheckRename(p, q)
            \/ Rename \/ RenameFails \/ RenameDone
            \/ \E q \in Path : CarryHistory(q)
            \/ WriteManifestFails \/ MoveOutFails \/ Kill
            \/ \E j \in Id : CheckRestore(j)
            \/ UNCHANGED vars
  <2>1. UNCHANGED bin
    BY <1>11
       DEF CreateNote, OutsideCreate, CreateFolder, SaveNote, OutsideRmdir,
           CheckRename, Rename, RenameFails, RenameDone, CarryHistory,
           WriteManifestFails, MoveOutFails, Kill, CheckRestore, vars
  <2>2. QED
    BY <1>1, <2>1
<1>12. QED
  BY <1>4, <1>5, <1>6, <1>7, <1>8, <1>9, <1>10, <1>11 DEF Next

(* A file leaves the trash only for the very path it was deleted from,     *)
(* whatever happened to the vault since, and whether a command restores it *)
(* or takes a deletion back; or it is written over by its own manifest.    *)
THEOREM FilesGoBackWhereTheyWere == Spec => RestoredToOrigin
<1> DEFINE A == \A i \in Id : \A r \in DOMAIN bin[i].items :
                  LET f == bin[i].items[r]  p == bin[i].from \o r
                  IN  f \notin Files(bin[i].items)' /\ f \in File =>
                        \/ p \in DOMAIN tree' /\ tree'[p] = f
                        \/ f \in buried'
<1>1. TypeInv /\ [Next]_vars => A
  BY StepReturns DEF Returned
<1>2. QED
  BY <1>1, TypeInvariant, PTL DEF Spec, RestoredToOrigin

-----------------------------------------------------------------------------
(* A note's versions follow it.                                            *)

(* While a rename re-keys the history, a note moved already may have its   *)
(* versions under its old path still.                                      *)
HasHistory(f) == \E q \in Path : f \in hist[q]
Moved(p) ==
  op.step = "carry" /\ IsUnder(p, op.to) /\ Reroot(p, op.to, op.path) \in op.carry
Home(p) == IF Moved(p) THEN Reroot(p, op.to, op.path) ELSE p

FilesAtHome ==
  \A p \in DOMAIN tree : HasHistory(tree[p]) => tree[p] \in hist[Home(p)] \cup astray
TrashAtHome ==
  \A i \in Id : \A r \in DOMAIN bin[i].items :
    HasHistory(bin[i].items[r]) => bin[i].items[r] \in hist[bin[i].from \o r] \cup astray
HistoryKnown == \A q \in Path : hist[q] \subseteq known
AllCarried ==
  op.step = "rename" =>
    \A q \in Under(tree, op.path) : HasHistory(tree[q]) => q \in op.carry
AtHome == FilesAtHome /\ TrashAtHome /\ HistoryKnown /\ AllCarried

(* Only files there were have versions.                                    *)
LEMMA OnlyFilesHaveHistory ==
  ASSUME Types, AtHome, NEW f, HasHistory(f)
  PROVE  f \in File /\ f \in known
BY DEF Types, AtHome, HistoryKnown, HasHistory

(* A step of a command that carries no history: a file is new, or was      *)
(* there, or comes from the trash or goes to it, under the same path.      *)
LEMMA CommandKeepsHome ==
  ASSUME Types, AtHome, UNCHANGED hist, astray \subseteq astray', known \subseteq known',
         op.step # "carry", op'.step \notin {"rename", "carry"},
         \A x \in DOMAIN tree' : tree'[x] \in File =>
           \/ tree'[x] \notin known
           \/ x \in DOMAIN tree /\ tree'[x] = tree[x]
           \/ \E i \in Id : \E r \in DOMAIN bin[i].items :
                tree'[x] = bin[i].items[r] /\ x = bin[i].from \o r,
         \A i \in Id : \A r \in DOMAIN bin'[i].items : bin'[i].items[r] \in File =>
           \/ /\ r \in DOMAIN bin[i].items /\ bin'[i].items[r] = bin[i].items[r]
              /\ bin'[i].from = bin[i].from
           \/ /\ bin'[i].from \o r \in DOMAIN tree
              /\ bin'[i].items[r] = tree[bin'[i].from \o r]
  PROVE  AtHome'
<1>1. \A p : Home(p) = p /\ Home(p)' = p
  BY DEF Home, Moved
<1>2. \A f : HasHistory(f)' <=> HasHistory(f)
  BY DEF HasHistory
<1>3. FilesAtHome'
  <2>1. ASSUME NEW x \in DOMAIN tree', HasHistory(tree'[x])
        PROVE  tree'[x] \in hist[x] \cup astray
    <3>1. tree'[x] \in File /\ tree'[x] \in known
      BY <2>1, OnlyFilesHaveHistory
    <3>2. CASE x \in DOMAIN tree /\ tree'[x] = tree[x]
      BY <1>1, <2>1, <3>2 DEF AtHome, FilesAtHome
    <3>3. ASSUME NEW i \in Id, NEW r \in DOMAIN bin[i].items,
                 tree'[x] = bin[i].items[r], x = bin[i].from \o r
          PROVE  tree'[x] \in hist[x] \cup astray
      BY <2>1, <3>3 DEF AtHome, TrashAtHome
    <3>4. QED
      BY <3>1, <3>2, <3>3
  <2>2. QED
    BY <1>1, <1>2, <2>1 DEF FilesAtHome
<1>4. TrashAtHome'
  <2>1. ASSUME NEW i \in Id, NEW r \in DOMAIN bin'[i].items,
               HasHistory(bin'[i].items[r])
        PROVE  bin'[i].items[r] \in hist[bin'[i].from \o r] \cup astray
    <3>1. bin'[i].items[r] \in File
      BY <2>1, OnlyFilesHaveHistory
    <3>2. CASE /\ r \in DOMAIN bin[i].items /\ bin'[i].items[r] = bin[i].items[r]
               /\ bin'[i].from = bin[i].from
      BY <2>1, <3>2 DEF AtHome, TrashAtHome
    <3>3. CASE /\ bin'[i].from \o r \in DOMAIN tree
               /\ bin'[i].items[r] = tree[bin'[i].from \o r]
      <4> DEFINE y == bin'[i].from \o r
                 f == bin'[i].items[r]
      <4>1. y \in DOMAIN tree /\ f = tree[y] /\ HasHistory(f)
        BY <2>1, <3>3
      <4> HIDE DEF y, f
      <4>2. f \in hist[y] \cup astray
        BY <1>1, <4>1 DEF AtHome, FilesAtHome
      <4>3. QED
        BY <4>2 DEF y, f
    <3>4. QED
      BY <3>1, <3>2, <3>3
  <2>2. QED
    BY <1>2, <2>1 DEF TrashAtHome
<1>5. HistoryKnown' /\ AllCarried'
  BY DEF AtHome, HistoryKnown, AllCarried
<1>6. QED
  BY <1>3, <1>4, <1>5 DEF AtHome

(* A step beside the command in hand.                                      *)
LEMMA OthersKeepHome ==
  ASSUME Types, AtHome, UNCHANGED <<bin, hist, op, astray>>, known \subseteq known',
         \A x \in DOMAIN tree' : tree'[x] \in File =>
           tree'[x] \notin known \/ (x \in DOMAIN tree /\ tree'[x] = tree[x])
  PROVE  AtHome'
<1>1. \A p : Home(p)' = Home(p)
  BY DEF Home, Moved
<1>2. \A f : HasHistory(f)' <=> HasHistory(f)
  BY DEF HasHistory
<1>3. \A x \in DOMAIN tree' : HasHistory(tree'[x]) => x \in DOMAIN tree /\ tree'[x] = tree[x]
  BY OnlyFilesHaveHistory
<1>4. FilesAtHome'
  BY <1>1, <1>2, <1>3 DEF AtHome, FilesAtHome
<1>5. TrashAtHome'
  BY <1>2 DEF AtHome, TrashAtHome
<1>6. HistoryKnown'
  BY DEF AtHome, HistoryKnown
<1>7. AllCarried'
  BY <1>2, <1>3 DEF AtHome, AllCarried, Under
<1>8. QED
  BY <1>4, <1>5, <1>6, <1>7 DEF AtHome

(* A save records versions where the note is.                              *)
LEMMA SaveKeepsHome ==
  ASSUME Types, AtHome, Unique, NEW p \in Path, SaveNote(p)
  PROVE  AtHome'
<1> DEFINE g == tree[p]
<1>1. /\ p \in DOMAIN tree /\ g \in File /\ op.step = "idle"
      /\ hist' = [hist EXCEPT ![p] = @ \cup {g}] /\ astray' = astray \ {g}
      /\ UNCHANGED <<tree, bin, op, known>>
  BY DEF SaveNote
<1>2. AtOnce(g) /\ g \in known
  BY <1>1 DEF Unique, Somewhere
<1>3. \A x : Home(x) = x /\ Home(x)' = x
  BY <1>1 DEF Home, Moved
<1>4. \A x \in DOMAIN tree : tree[x] = g => x = p
  BY <1>1, <1>2 DEF AtOnce
<1>5. \A i \in Id : \A r \in DOMAIN bin[i].items : bin[i].items[r] # g
  BY <1>1, <1>2 DEF AtOnce
<1> HIDE DEF g
<1>6. /\ hist'[p] = hist[p] \cup {g} /\ DOMAIN hist = Path /\ DOMAIN hist' = Path
      /\ \A q : q # p => hist'[q] = hist[q] \/ q \notin Path
  BY <1>1 DEF Types
<1>7. \A q \in Path : hist[q] \subseteq hist'[q] /\ hist'[q] \subseteq hist[q] \cup {g}
  BY <1>6
<1>8. \A f : HasHistory(f)' /\ f # g => HasHistory(f)
  BY <1>7 DEF HasHistory
<1>9. \A f : f # g /\ f \in astray => f \in astray'
  BY <1>1
<1>10. FilesAtHome'
  <2>1. ASSUME NEW x \in DOMAIN tree, HasHistory(tree[x])'
        PROVE  tree[x] \in hist'[x] \cup astray'
    <3>1. CASE tree[x] = g
      BY <1>4, <1>6, <3>1
    <3>2. CASE tree[x] # g
      <4>1. tree[x] \in hist[x] \cup astray
        BY <1>1, <1>3, <1>8, <2>1, <3>2 DEF AtHome, FilesAtHome
      <4>2. x \in Path
        BY DEF Types, IsVault, IsTree
      <4>3. QED
        BY <1>7, <1>9, <3>2, <4>1, <4>2
    <3>3. QED
      BY <3>1, <3>2
  <2>2. QED
    BY <1>1, <1>3, <2>1 DEF FilesAtHome
<1>11. TrashAtHome'
  <2>1. ASSUME NEW i \in Id, NEW r \in DOMAIN bin[i].items,
               HasHistory(bin[i].items[r])'
        PROVE  bin[i].items[r] \in hist'[bin[i].from \o r] \cup astray'
    <3>1. bin[i].items[r] # g /\ bin[i].from \o r \in Path
      BY <1>5 DEF Types, Sound
    <3>2. bin[i].items[r] \in hist[bin[i].from \o r] \cup astray
      BY <1>1, <1>8, <2>1, <3>1 DEF AtHome, TrashAtHome
    <3>3. QED
      BY <1>7, <1>9, <3>1, <3>2
  <2>2. QED
    BY <1>1, <2>1 DEF TrashAtHome
<1>12. HistoryKnown' /\ AllCarried'
  BY <1>1, <1>2, <1>7 DEF AtHome, HistoryKnown, AllCarried
<1>13. QED
  BY <1>10, <1>11, <1>12 DEF AtHome

(* A moved note's versions are still where it was, and will be carried.    *)
LEMMA RenameKeepsHome ==
  ASSUME TypeInv, AtHome, Rename
  PROVE  AtHome'
<1> DEFINE p == op.path
           to == op.to
<1>1. /\ Types /\ p \in Path /\ to \in Path /\ p \in Trail /\ to \in Trail
      /\ op.step = "rename" /\ Relocated(p, to)
      /\ UNCHANGED <<bin, hist, known, astray>>
  BY RenameIs, Paths DEF TypeInv, Rename, OpShape
<1>2. op'.step = "carry" /\ op'.path = p /\ op'.to = to /\ op'.carry = op.carry
  BY <1>1, OpTypes DEF Rename, Steps
<1>3. \A f : HasHistory(f)' <=> HasHistory(f)
  BY <1>1 DEF HasHistory
<1>4. \A x : Home(x) = x
  BY <1>1 DEF Home, Moved
<1> HIDE DEF p, to
<1>5. ASSUME NEW x \in DOMAIN tree', HasHistory(tree'[x])
      PROVE  tree'[x] \in hist[Home(x)'] \cup astray
  <2>1. CASE x \in DOMAIN tree /\ ~IsUnder(x, p) /\ ~IsUnder(x, to)
    <3>1. tree'[x] = tree[x]
      BY <1>1, <2>1 DEF Relocated
    <3>2. Home(x)' = x
      BY <1>2, <2>1 DEF Home, Moved
    <3>3. QED
      BY <1>4, <1>5, <2>1, <3>1, <3>2 DEF AtHome, FilesAtHome
  <2>2. CASE \E r \in Trail : x = to \o r /\ p \o r \in DOMAIN tree
    <3>1. PICK r \in Trail : x = to \o r /\ p \o r \in DOMAIN tree
      BY <2>2
    <3>2. tree'[x] = tree[p \o r] /\ IsUnder(p \o r, p) /\ IsUnder(x, to) /\ Rest(x, to) = r
      BY <1>1, <3>1, Joined DEF Relocated
    <3>3. p \o r \in op.carry
      BY <1>1, <1>5, <3>1, <3>2 DEF AtHome, AllCarried, Under, p
    <3>4. Reroot(x, to, p) = p \o r
      BY <3>2 DEF Reroot
    <3>5. Home(x)' = p \o r
      BY <1>2, <3>2, <3>3, <3>4 DEF Home, Moved
    <3>6. tree[p \o r] \in hist[p \o r] \cup astray
      BY <1>4, <1>5, <3>1, <3>2 DEF AtHome, FilesAtHome
    <3>7. QED
      BY <3>2, <3>5, <3>6
  <2>3. QED
    BY <1>1, <2>1, <2>2 DEF Relocated
<1>6. FilesAtHome'
  BY <1>1, <1>3, <1>5 DEF FilesAtHome
<1>7. TrashAtHome'
  BY <1>1, <1>3 DEF AtHome, TrashAtHome
<1>8. HistoryKnown' /\ AllCarried'
  BY <1>1, <1>2 DEF AtHome, HistoryKnown, AllCarried
<1>9. QED
  BY <1>6, <1>7, <1>8 DEF AtHome

(* The note or folder in hand, note by note: its versions reach its new    *)
(* path, or are lost to it and counted so.                                 *)
LEMMA CarryKeepsHome ==
  ASSUME TypeInv, AtHome, Unique, NEW q \in Path, CarryHistory(q)
  PROVE  AtHome'
<1> DEFINE p == op.path
           to == op.to
           new == Reroot(q, p, to)
           lost == {f \in hist[q] : \A x \in DOMAIN tree : tree[x] = f => x # new}
<1>1. /\ Types /\ p \in Path /\ to \in Path /\ p \in Trail /\ to \in Trail
      /\ q \in Trail /\ to # p /\ Parent(to) = Parent(p)
      /\ op.step = "carry" /\ q \in op.carry /\ IsUnder(q, p)
      /\ op.carry \subseteq Path /\ UNCHANGED <<tree, bin, known>>
  BY Paths DEF TypeInv, Types, CarryHistory, OpShape
<1>2. /\ op'.step = "carry" /\ op'.path = p /\ op'.to = to
      /\ op'.carry = op.carry \ {q}
  BY <1>1 DEF CarryHistory, Types
<1>3. \/ /\ hist' = [hist EXCEPT ![new] = @ \cup hist[q], ![q] = {}]
         /\ astray' = astray \cup lost
      \/ UNCHANGED hist /\ astray' = astray \cup hist[q]
  BY DEF CarryHistory
<1> HIDE DEF p, to
<1>4. /\ Rest(q, p) \in Trail /\ q = p \o Rest(q, p) /\ new = to \o Rest(q, p)
      /\ new \in Path
  BY <1>1, Split, PathAssumption DEF Reroot
<1>5. new # q
  <2>1. IsUnder(new, to)
    BY <1>1, <1>4, Joined
  <2>2. QED
    BY <1>1, <2>1, Siblings
<1> HIDE DEF new
(* What the step does to the versions under each path.                     *)
<1>6. /\ \A y \in Path : y # q => hist[y] \subseteq hist'[y]
      /\ \A y \in Path : hist'[y] \subseteq hist[y] \cup hist[q]
      /\ astray \subseteq astray'
      /\ \A f \in hist[q] : \/ f \in astray'
                            \/ /\ f \in hist'[new]
                               /\ \E x \in DOMAIN tree : tree[x] = f /\ x = new
  <2>0. hist \in [Path -> SUBSET File]
    BY <1>1 DEF Types
  <2>1. CASE /\ hist' = [hist EXCEPT ![new] = @ \cup hist[q], ![q] = {}]
             /\ astray' = astray \cup lost
    <3>1. /\ hist'[new] = hist[new] \cup hist[q] /\ hist'[q] = {}
          /\ \A y \in Path : y # q /\ y # new => hist'[y] = hist[y]
      BY <1>4, <1>5, <2>0, <2>1
    <3>2. \A f \in hist[q] : f \in lost \/ \E x \in DOMAIN tree : tree[x] = f /\ x = new
      OBVIOUS
    <3> HIDE DEF lost
    <3>3. QED
      BY <2>1, <3>1, <3>2
  <2>2. CASE UNCHANGED hist /\ astray' = astray \cup hist[q]
    BY <2>2
  <2>3. QED
    BY <1>3, <2>1, <2>2
<1> HIDE DEF lost
<1>7. \A f : HasHistory(f)' => HasHistory(f)
  BY <1>6 DEF HasHistory
<1>8. ASSUME NEW x \in DOMAIN tree, HasHistory(tree[x])
      PROVE  tree[x] \in hist'[Home(x)'] \cup astray'
  <2>1. tree[x] \in File /\ x \in Path /\ x \in Trail
    BY <1>1, <1>8, OnlyFilesHaveHistory, Paths DEF Types, IsVault, IsTree
  <2>2. tree[x] \in hist[Home(x)] \cup astray
    BY <1>8 DEF AtHome, FilesAtHome
  <2>3. CASE tree[x] \in astray
    BY <1>6, <2>3
  <2>4. CASE tree[x] \in hist[Home(x)] /\ Home(x) # q
    <3>1. Moved(x)' <=> Moved(x)
      BY <1>1, <1>2, <2>4 DEF Moved, Home, p, to
    <3>2. Home(x)' = Home(x)
      BY <1>2, <3>1 DEF Home, p, to
    <3>3. Home(x) \in Path
      BY <1>1, <2>1 DEF Home, Moved
    <3>4. QED
      BY <1>6, <2>4, <3>2, <3>3
  <2>5. CASE tree[x] \in hist[q] /\ Home(x) = q
    <3>1. CASE tree[x] \in astray'
      BY <3>1
    <3>2. CASE /\ tree[x] \in hist'[new]
               /\ \E y \in DOMAIN tree : tree[y] = tree[x] /\ y = new
      <4>1. x = new
        BY <2>1, <3>2 DEF Unique, AtOnce
      <4>2. Home(x)' = x
        <5>1. Moved(x)
          BY <1>5, <2>5, <4>1 DEF Home
        <5>2. Reroot(x, to, p) = q
          BY <2>5, <5>1 DEF Home, p, to
        <5>3. ~Moved(x)'
          BY <1>2, <5>2 DEF Moved
        <5>4. QED
          BY <5>3 DEF Home
      <4>3. QED
        BY <3>2, <4>1, <4>2
    <3>3. QED
      BY <1>6, <2>5, <3>1, <3>2
  <2>6. QED
    BY <2>2, <2>3, <2>4, <2>5
<1>9. FilesAtHome'
  BY <1>1, <1>7, <1>8 DEF FilesAtHome
<1>10. TrashAtHome'
  <2>1. ASSUME NEW i \in Id, NEW r \in DOMAIN bin[i].items,
               HasHistory(bin[i].items[r])
        PROVE  bin[i].items[r] \in hist'[bin[i].from \o r] \cup astray'
    <3> DEFINE f == bin[i].items[r]
               y == bin[i].from \o r
    <3>1. f \in File /\ y \in Path
      BY <1>1, <2>1, OnlyFilesHaveHistory DEF Types, Sound
    <3>2. f \in hist[y] \cup astray
      BY <2>1 DEF AtHome, TrashAtHome
    <3>3. \A x \in DOMAIN tree : tree[x] # f
      BY <3>1 DEF Unique, AtOnce
    <3> HIDE DEF f, y
    <3>4. f \in hist'[y] \cup astray'
      BY <1>6, <3>1, <3>2, <3>3
    <3>5. QED
      BY <3>4 DEF f, y
  <2>2. QED
    BY <1>1, <1>7, <2>1 DEF TrashAtHome
<1>11. HistoryKnown'
  BY <1>1, <1>6 DEF AtHome, HistoryKnown
<1>12. AllCarried'
  BY <1>2 DEF AllCarried
<1>13. QED
  BY <1>9, <1>10, <1>11, <1>12 DEF AtHome

(* A kill between two of them leaves the rest behind.                      *)
LEMMA KillKeepsHome ==
  ASSUME TypeInv, AtHome, Kill
  PROVE  AtHome'
<1>1. /\ Types /\ op' = Idle /\ Idle.step = "idle"
      /\ UNCHANGED <<tree, bin, hist, known>>
  BY DEF TypeInv, Kill, Idle
<1>2. \A x : Home(x)' = x
  BY <1>1 DEF Home, Moved
<1>3. \A f : HasHistory(f)' <=> HasHistory(f)
  BY <1>1 DEF HasHistory
<1>4. astray \subseteq astray'
      /\ (op.step = "carry" => \A q \in op.carry : hist[q] \subseteq astray')
  BY DEF Kill
<1>5. ASSUME NEW x \in DOMAIN tree, HasHistory(tree[x])
      PROVE  tree[x] \in hist[x] \cup astray'
  <2>1. tree[x] \in hist[Home(x)] \cup astray
    BY <1>5 DEF AtHome, FilesAtHome
  <2>2. CASE Moved(x)
    BY <1>4, <2>1, <2>2 DEF Home, Moved
  <2>3. CASE ~Moved(x)
    BY <1>4, <2>1, <2>3 DEF Home
  <2>4. QED
    BY <2>2, <2>3
<1>6. FilesAtHome'
  BY <1>1, <1>2, <1>3, <1>5 DEF FilesAtHome
<1>7. TrashAtHome'
  BY <1>1, <1>3, <1>4 DEF AtHome, TrashAtHome
<1>8. HistoryKnown' /\ AllCarried'
  BY <1>1 DEF AtHome, HistoryKnown, AllCarried
<1>9. QED
  BY <1>6, <1>7, <1>8 DEF AtHome

(* Every step keeps versions with their note, or counts them astray.       *)
LEMMA NextAtHome == TypeInv /\ Unique /\ AtHome /\ [Next]_vars => AtHome'
<1> SUFFICES ASSUME TypeInv, Unique, AtHome, [Next]_vars PROVE AtHome'
  OBVIOUS
<1>0. /\ Types /\ OpShape /\ InHand /\ DOMAIN bin = Id
      /\ {Folder, ManifestName} \cap File = {}
      /\ DOMAIN EmptyTree = {} /\ NoContainer.items = EmptyTree
      /\ Idle.step = "idle"
  BY Nothing, EntryAssumption DEF TypeInv, Types, NoContainer, Idle
(* What leaves the files, or leaves the trash, as they are.                *)
<1>1. UNCHANGED tree =>
        \A x \in DOMAIN tree' : x \in DOMAIN tree /\ tree'[x] = tree[x]
  OBVIOUS
<1>2. ASSUME UNCHANGED <<hist, astray, known>>, op.step # "carry",
             op'.step \notin {"rename", "carry"},
             \A x \in DOMAIN tree' : tree'[x] \in File =>
               \/ x \in DOMAIN tree /\ tree'[x] = tree[x]
               \/ \E i \in Id : \E r \in DOMAIN bin[i].items :
                    tree'[x] = bin[i].items[r] /\ x = bin[i].from \o r,
             \A i \in Id : \A r \in DOMAIN bin'[i].items : bin'[i].items[r] \in File =>
               \/ /\ r \in DOMAIN bin[i].items /\ bin'[i].items[r] = bin[i].items[r]
                  /\ bin'[i].from = bin[i].from
               \/ /\ bin'[i].from \o r \in DOMAIN tree
                  /\ bin'[i].items[r] = tree[bin'[i].from \o r]
      PROVE  AtHome'
  BY <1>0, <1>2, CommandKeepsHome
<1>3. ASSUME NEW p \in Path, NEW f \in File, CreateNote(p, f) \/ OutsideCreate(p, f)
      PROVE  AtHome'
  <2>1. AddFile(p, f) /\ UNCHANGED <<bin, hist, op, astray>>
    BY <1>3 DEF CreateNote, OutsideCreate, fates
  <2>2. f \in Entry /\ f \notin known /\ known' = known \cup {f}
    BY <2>1 DEF Entry, AddFile
  <2>3. /\ DOMAIN tree' = DOMAIN tree \cup {p} /\ tree'[p] = f
        /\ \A q \in DOMAIN tree : tree'[q] = tree[q]
    BY <1>0, <2>1, <2>2, AddedFits DEF AddFile
  <2>4. QED
    BY <1>0, <2>1, <2>2, <2>3, OthersKeepHome
<1>4. ASSUME NEW p \in Path, CreateFolder(p) PROVE AtHome'
  <2>1. /\ p \notin DOMAIN tree /\ InFolder(tree, p)
        /\ tree' = Graft(tree, p, [r \in {<<>>} |-> Folder])
        /\ UNCHANGED <<bin, hist, op, known, astray>>
    BY <1>4 DEF CreateFolder, fates
  <2>2. Folder \in Entry
    BY DEF Entry
  <2>3. /\ DOMAIN tree' = DOMAIN tree \cup {p} /\ tree'[p] = Folder
        /\ \A q \in DOMAIN tree : tree'[q] = tree[q]
    BY <1>0, <2>1, <2>2, AddedFits
  <2>4. QED
    BY <1>0, <2>1, <2>3, OthersKeepHome
<1>5. ASSUME NEW p \in Path, OutsideRmdir(p) PROVE AtHome'
  <2>1. tree' = Cut(tree, p) /\ UNCHANGED <<bin, hist, op, known, astray>>
    BY <1>5 DEF OutsideRmdir, fates
  <2>2. \A x \in DOMAIN tree' : x \in DOMAIN tree /\ tree'[x] = tree[x]
    BY <2>1 DEF Cut
  <2>3. QED
    BY <1>0, <2>1, <2>2, OthersKeepHome
<1>6. ASSUME NEW p \in Path, NEW q \in Path, CheckRename(p, q) PROVE AtHome'
  <2>1. /\ op.step = "idle" /\ op'.step = "rename" /\ op'.path = p
        /\ op'.carry = Descendants(p)
        /\ UNCHANGED <<tree, bin, hist, known, astray>>
    BY <1>6 DEF CheckRename, Idle, fates
  <2>2. \A x : Home(x)' = x /\ Home(x) = x
    BY <2>1 DEF Home, Moved
  <2>3. \A f : HasHistory(f)' <=> HasHistory(f)
    BY <2>1 DEF HasHistory
  <2>4. FilesAtHome' /\ TrashAtHome' /\ HistoryKnown'
    BY <2>1, <2>2, <2>3 DEF AtHome, FilesAtHome, TrashAtHome, HistoryKnown
  <2>5. \A x \in Under(tree, p) : HasHistory(tree[x]) => x \in Descendants(p)
    BY <1>0, OnlyFilesHaveHistory DEF Descendants
  <2>6. AllCarried'
    BY <2>1, <2>3, <2>5 DEF AllCarried, Under
  <2>7. QED
    BY <2>4, <2>6 DEF AtHome
<1>7. CASE RenameDone
  <2>1. /\ op' = Idle /\ op.carry = {} /\ UNCHANGED <<tree, bin, hist, known, astray>>
    BY <1>7 DEF RenameDone, fates
  <2>2. \A x : Home(x)' = x /\ Home(x) = x
    BY <1>0, <2>1 DEF Home, Moved
  <2>3. \A f : HasHistory(f)' <=> HasHistory(f)
    BY <2>1 DEF HasHistory
  <2>4. QED
    BY <1>0, <2>1, <2>2, <2>3
       DEF AtHome, FilesAtHome, TrashAtHome, HistoryKnown, AllCarried
<1>8. CASE \/ RenameFails \/ WriteManifestFails
           \/ \E i \in Id : CheckRestore(i)
  <2>1. /\ UNCHANGED <<tree, bin, hist, known, astray>> /\ op.step # "carry"
        /\ op'.step \notin {"rename", "carry"}
    <3>1. CASE RenameFails
      BY <1>0, <3>1 DEF RenameFails, fates
    <3>2. CASE WriteManifestFails
      BY <1>0, <3>2, OpTypes DEF WriteManifestFails, fates, Steps
    <3>3. ASSUME NEW i \in Id, CheckRestore(i)
          PROVE  /\ UNCHANGED <<tree, bin, hist, known, astray>> /\ op.step # "carry"
                 /\ op'.step \notin {"rename", "carry"}
      BY <3>3 DEF CheckRestore, fates, Idle
    <3>4. QED
      BY <1>8, <3>1, <3>2, <3>3
  <2>2. QED
    BY <1>2, <2>1
(* An empty container changes no note's place.                             *)
<1>9. ASSUME UNCHANGED <<tree, hist, known, astray>>, op.step # "carry",
             op'.step \notin {"rename", "carry"},
             NEW i \in Id, bin'[i].items = EmptyTree,
             \A j \in Id : j # i => bin'[j] = bin[j]
      PROVE  AtHome'
  <2>1. \A j \in Id : \A r \in DOMAIN bin'[j].items :
          /\ r \in DOMAIN bin[j].items /\ bin'[j].items[r] = bin[j].items[r]
          /\ bin'[j].from = bin[j].from
    BY <1>0, <1>9
  <2>2. QED
    BY <1>2, <1>9, <2>1
<1>10. ASSUME NEW p \in Path, NEW i \in Id, CreateContainer(p, i) PROVE AtHome'
  <2>1. /\ bin[i] = NoContainer /\ bin' = [bin EXCEPT ![i].from = p]
        /\ op.step = "idle" /\ op'.step = "trash"
        /\ UNCHANGED <<tree, hist, known, astray>>
    BY <1>10 DEF CreateContainer, fates, Idle
  <2>2. bin'[i].items = EmptyTree /\ \A j \in Id : j # i => bin'[j] = bin[j]
    BY <1>0, <2>1
  <2>3. QED
    BY <1>9, <2>1, <2>2
<1>11. CASE MoveInFails \/ RemoveContainer
  <2>1. /\ op.id \in Id /\ op.step \in {"trash", "empty"} /\ op'.step = "idle"
        /\ bin[op.id].items = EmptyTree
        /\ bin' = bin \/ bin' = [bin EXCEPT ![op.id] = NoContainer]
        /\ UNCHANGED <<tree, hist, known, astray>>
    BY <1>0, <1>11 DEF MoveInFails, RemoveContainer, fates, OpShape, OnTree, InHand
  <2>2. bin'[op.id].items = EmptyTree /\ \A j \in Id : j # op.id => bin'[j] = bin[j]
    BY <1>0, <2>1
  <2>3. QED
    BY <1>9, <2>1, <2>2
<1>12. CASE MoveIn
  <2>1. /\ op.step = "trash" /\ op'.step = "label"
        /\ UNCHANGED <<hist, known, astray>>
    BY <1>0, <1>12, OpTypes DEF MoveIn, Steps
  <2>2. TakenIn(op.id, op.path)
    BY <1>12, MoveInIs
  <2>3. \A x \in DOMAIN tree' : x \in DOMAIN tree /\ tree'[x] = tree[x]
    BY <2>2 DEF TakenIn
  <2>4. ASSUME NEW i \in Id, NEW r \in DOMAIN bin'[i].items
        PROVE  \/ /\ r \in DOMAIN bin[i].items /\ bin'[i].items[r] = bin[i].items[r]
                  /\ bin'[i].from = bin[i].from
               \/ /\ bin'[i].from \o r \in DOMAIN tree
                  /\ bin'[i].items[r] = tree[bin'[i].from \o r]
    <3>1. CASE i = op.id
      <4>1. bin'[i].from = op.path /\ op.path \o r \in DOMAIN tree
            /\ bin'[i].items[r] = tree[op.path \o r]
        BY <2>2, <3>1 DEF TakenIn
      <4>2. QED
        BY <4>1
    <3>2. CASE i # op.id
      BY <2>2, <3>2 DEF TakenIn
    <3>3. QED
      BY <3>1, <3>2
  <2>5. QED
    BY <1>2, <2>1, <2>3, <2>4
<1>13. CASE WriteManifest
  <2>1. /\ op.step = "label" /\ op'.step = "idle"
        /\ UNCHANGED <<tree, hist, known, astray>>
    BY <1>0, <1>13 DEF WriteManifest
  <2>2. \A i \in Id : \A r \in DOMAIN bin'[i].items : bin'[i].items[r] \in File =>
          /\ r \in DOMAIN bin[i].items /\ bin'[i].items[r] = bin[i].items[r]
          /\ bin'[i].from = bin[i].from
    BY <1>0, <1>13, WriteManifestIs
  <2>3. QED
    BY <1>2, <2>1, <2>2
(* What comes out of the trash is where its versions are.                  *)
<1>14. ASSUME op.id \in Id, TakenOut(op.id, op.path), op.step # "carry",
              op'.step \notin {"rename", "carry"}, UNCHANGED <<hist, known, astray>>
       PROVE  AtHome'
  <2>1. ASSUME NEW x \in DOMAIN tree', tree'[x] \in File
        PROVE  \/ x \in DOMAIN tree /\ tree'[x] = tree[x]
               \/ \E i \in Id : \E r \in DOMAIN bin[i].items :
                    tree'[x] = bin[i].items[r] /\ x = bin[i].from \o r
    <3>1. CASE x \in DOMAIN tree /\ ~IsUnder(x, op.path)
      BY <1>14, <3>1 DEF TakenOut
    <3>2. CASE \E r \in DOMAIN bin[op.id].items : x = op.path \o r
      <4>1. PICK r \in DOMAIN bin[op.id].items : x = op.path \o r
        BY <3>2
      <4>2. tree'[op.path \o r] = bin[op.id].items[r] /\ bin[op.id].from = op.path
        BY <1>14 DEF TakenOut
      <4>3. QED
        BY <1>14, <4>1, <4>2
    <3>3. QED
      BY <1>0, <1>14, <2>1, <3>1, <3>2 DEF TakenOut
  <2>2. \A i \in Id : \A r \in DOMAIN bin'[i].items :
          /\ r \in DOMAIN bin[i].items /\ bin'[i].items[r] = bin[i].items[r]
          /\ bin'[i].from = bin[i].from
    <3>1. DOMAIN bin'[op.id].items = {} /\ \A i \in Id : i # op.id => bin'[i] = bin[i]
      BY <1>14 DEF TakenOut
    <3>2. QED
      BY <3>1
  <2>3. QED
    BY <1>2, <1>14, <2>1, <2>2
<1>15. CASE RollBack
  <2>1. op.step = "rollback" /\ op'.step = "idle" /\ UNCHANGED <<hist, known, astray>>
    BY <1>0, <1>15 DEF RollBack
  <2>2. CASE TakenOut(op.id, op.path)
    BY <1>14, <1>15, <2>1, <2>2, RollBackIs
  <2>3. CASE UNCHANGED <<tree, bin>>
    BY <1>2, <2>1, <2>3
  <2>4. QED
    BY <1>15, <2>2, <2>3, RollBackIs
<1>16. CASE MoveOut
  <2>1. op.step = "restore" /\ op'.step = "empty" /\ UNCHANGED <<hist, known, astray>>
    BY <1>0, <1>16, OpTypes DEF MoveOut, Steps
  <2>2. QED
    BY <1>14, <1>16, <2>1, MoveOutIs
<1>17. CASE MoveOutFails
  <2>1. /\ op.step = "restore" /\ op'.step = "idle" /\ op.path \in Path
        /\ UNCHANGED <<bin, hist, known, astray>>
    BY <1>0, <1>17 DEF MoveOutFails, fates, OpShape
  <2>2. CASE UNCHANGED tree
    BY <1>2, <2>1, <2>2
  <2>3. CASE CanMakeParents(op.path) /\ tree' = WithParents(op.path)
    <3>1. /\ \A x \in DOMAIN tree : tree'[x] = tree[x]
          /\ \A x \in DOMAIN tree' : x \notin DOMAIN tree => tree'[x] = Folder
      BY <1>0, <2>1, <2>3, ParentsAre DEF Types
    <3>2. QED
      BY <1>0, <1>2, <2>1, <3>1
  <2>4. QED
    BY <1>17, <2>2, <2>3 DEF MoveOutFails
<1>18. CASE UNCHANGED vars
  BY <1>0, <1>1, <1>18, OthersKeepHome DEF vars, fates
<1>19. QED
  BY <1>0, <1>3, <1>4, <1>5, <1>6, <1>7, <1>8, <1>10, <1>11, <1>12, <1>13, <1>15,
     <1>16, <1>17, <1>18, SaveKeepsHome, RenameKeepsHome, CarryKeepsHome,
     KillKeepsHome
     DEF Next

(* A note's versions are found under its path after any renames of it and  *)
(* of the folders it is in, and after it was deleted and restored; but for *)
(* those a failed re-keying or a kill left behind.  The versions of what   *)
(* is in the trash wait under the path it was deleted from.                *)
THEOREM VersionsFollowTheirNote == Spec => []HistoryFollows
<1>1. Init => InTheWay /\ Unique /\ Present /\ AtHome
  <2>1. DOMAIN EmptyTree = {} /\ NoContainer.items = EmptyTree
    BY Nothing DEF NoContainer
  <2>2. Init => InTheWay /\ Unique /\ Present
    BY <2>1 DEF Init, InTheWay, Idle, Unique, Present, AtOnce, Somewhere
  <2>3. Init => AtHome
    BY <2>1 DEF Init, Idle, AtHome, FilesAtHome, TrashAtHome, HistoryKnown, AllCarried
  <2>4. QED
    BY <2>2, <2>3
<1>2. AtHome => HistoryFollows
  BY DEF AtHome, FilesAtHome, HasHistory, Home, Moved, HistoryFollows
<1>3. QED
  BY <1>1, <1>2, NextInTheWay, NextInPlace, NextAtHome, TypeInvariant, PTL DEF Spec

=============================================================================
