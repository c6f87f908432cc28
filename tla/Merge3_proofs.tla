---------------------------- MODULE Merge3_proofs ----------------------------
(***************************************************************************)
(* Proofs about merge3() of crates/mergemd, for every base, every pair of  *)
(* edit scripts and any number of hunks.                                   *)
(*                                                                         *)
(* The folds of the model are computed by induction over the prefixes of   *)
(* a sequence (Sums, Flat), so that the text a set of changes makes can be *)
(* told line by line (TextStep).  On it rest the two halves of the proof:  *)
(* what the diff answers is a list of changes in order (Scripted), and     *)
(* what a cluster gathers is linked and touches nothing else (Grown,       *)
(* Aside).  The invariant Inv says of every step which changes are taken.  *)
(***************************************************************************)
EXTENDS Merge3, SequenceTheorems, FiniteSetTheorems, WellFoundedInduction, TLAPS

-----------------------------------------------------------------------------
(* Numbers, and what the folds of the model compute.                        *)

(* < is well-founded on the naturals, with the relation written out.        *)
LEMMA LessIsWellFounded == IsWellFoundedOn({ss \in Nat \X Nat : ss[1] < ss[2]}, Nat)
<1>1. IsWellFoundedOn(OpToRel(<, Nat), Nat)
  BY NatLessThanWellFounded, Zenon
<1> QED BY <1>1, Zenon DEF OpToRel

(* Induction over a set: one that has 0 and every successor of its members  *)
(* has every natural number.                                                *)
LEMMA Induction ==
  ASSUME NEW S, 0 \in S, \A n \in Nat : n \in S => n + 1 \in S
  PROVE  Nat \subseteq S
<1> DEFINE R == {ss \in Nat \X Nat : ss[1] < ss[2]}
           Rest == Nat \ S
<1>1. SUFFICES ASSUME Rest # {} PROVE FALSE
  OBVIOUS
<1>2. IsWellFoundedOn(R, Nat)
  BY LessIsWellFounded
<1>3. PICK x \in Rest : \A y \in Rest : ~ (<<y, x>> \in R)
  <2> HIDE DEF R
  <2> QED BY ONLY <1>1, <1>2, WFMin, Rest \subseteq Nat
<1>4. x \in Nat /\ x # 0
  OBVIOUS
<1>5. x - 1 \in Nat /\ x - 1 < x /\ (x - 1) + 1 = x
  BY <1>4
<1>6. x - 1 \notin Rest
  BY <1>3, <1>4, <1>5
<1> QED BY <1>5, <1>6

(* Max() is the member no other exceeds.                                    *)
LEMMA MaxOf ==
  ASSUME NEW S \in SUBSET Int, NEW x \in S, \A y \in S : x >= y
  PROVE  Max(S) = x
<1>1. Max(S) \in S /\ \A y \in S : Max(S) >= y
  BY DEF Max
<1>2. Max(S) \in Int /\ x \in Int /\ x >= Max(S) /\ Max(S) >= x
  BY <1>1
<1> HIDE DEF Max
<1> QED BY <1>2

(* Min() is the member that exceeds no other.                               *)
LEMMA MinOf ==
  ASSUME NEW S \in SUBSET Int, NEW x \in S, \A y \in S : x =< y
  PROVE  Min(S) = x
<1>1. Min(S) \in S /\ \A y \in S : Min(S) =< y
  BY DEF Min
<1>2. Min(S) \in Int /\ x \in Int /\ x =< Min(S) /\ Min(S) =< x
  BY <1>1
<1> HIDE DEF Min
<1> QED BY <1>2

(* A finite recursion: the last index is all that is asked for. *)
LEMMA Sums ==
  ASSUME NEW v \in Seq(Nat)
  PROVE  \E f \in [0..Len(v) -> Nat] :
           /\ f[0] = 0
           /\ \A k \in 1..Len(v) : f[k] = f[k - 1] + v[k]
           /\ SumOf(v) = f[Len(v)]
<1> DEFINE N == Len(v)
           Fn(n, g) == [s \in SUBSET (1..n) |->
                          IF s = {} THEN 0
                          ELSE LET x == Max(s) IN g[s \ {x}] + v[x]]
           iter == CHOOSE g : g = Fn(N, g)
<1>0. N \in Nat /\ DOMAIN v = 1..N /\ \A k \in 1..N : v[k] \in Nat
  OBVIOUS
<1>1. SumOf(v) = iter[1..N]
  <2>1. SumOf(v) = (CHOOSE g : g = [s \in SUBSET (DOMAIN v) |->
                          IF s = {} THEN 0
                          ELSE LET x == Max(s) IN g[s \ {x}] + v[x]])[DOMAIN v]
    BY Zenon DEF SumOf, FoldLeft, MapThenFoldSet
  <2> QED BY <1>0, <2>1, Zenon
<1>2. \A n \in Nat : \E g : g = Fn(n, g)
  <2> DEFINE S == {n \in Nat : \E g : g = Fn(n, g)}
  <2>1. 0 \in S
    <3> DEFINE g0 == [s \in SUBSET (1..0) |-> 0]
    <3>1. \A s \in SUBSET (1..0) : s = {}
      OBVIOUS
    <3>2. g0 = Fn(0, g0)
      BY <3>1
    <3> QED BY <3>2
  <2>2. ASSUME NEW n \in Nat, n \in S PROVE n + 1 \in S
    <3>1. PICK g : g = Fn(n, g)
      BY <2>2
    <3> DEFINE h == [s \in SUBSET (1..(n + 1)) |->
                       IF n + 1 \in s THEN g[s \ {n + 1}] + v[n + 1] ELSE g[s]]
    <3>2. \A s \in SUBSET (1..(n + 1)) : n + 1 \in s => Max(s) = n + 1
      BY MaxOf
    <3>3. \A s \in SUBSET (1..(n + 1)) : n + 1 \notin s => s \in SUBSET (1..n)
      OBVIOUS
    <3>4. \A s \in SUBSET (1..(n + 1)) : s \ {n + 1} \in SUBSET (1..n)
      OBVIOUS
    <3>5. ASSUME NEW s \in SUBSET (1..(n + 1)) PROVE h[s] = Fn(n + 1, h)[s]
      <4>1. CASE s = {}
        BY <3>1, <4>1
      <4>2. CASE n + 1 \in s
        <5>1. h[s] = g[s \ {n + 1}] + v[n + 1]
          BY <4>2
        <5>2. h[s \ {n + 1}] = g[s \ {n + 1}]
          BY <3>4
        <5>3. Fn(n + 1, h)[s] = h[s \ {n + 1}] + v[n + 1]
          BY <4>2, <3>2
        <5> QED BY <5>1, <5>2, <5>3
      <4>3. CASE s # {} /\ n + 1 \notin s
        <5>1. s \in SUBSET (1..n)
          BY <3>3, <4>3
        <5>2. h[s] = g[s] /\ h[s \ {Max(s)}] = g[s \ {Max(s)}]
          BY <4>3, <3>3
        <5>3. g[s] = g[s \ {Max(s)}] + v[Max(s)]
          BY <3>1, <4>3, <5>1
        <5> QED BY <4>3, <5>2, <5>3
      <4> QED BY <4>1, <4>2, <4>3
    <3>6. h = Fn(n + 1, h)
      <4> HIDE DEF h
      <4>1. DOMAIN h = SUBSET (1..(n + 1))
        BY DEF h
      <4>2. h = [s \in SUBSET (1..(n + 1)) |-> h[s]]
        BY <4>1 DEF h
      <4> QED BY <3>5, <4>2
    <3> HIDE DEF h, Fn
    <3>7. \E g1 : g1 = Fn(n + 1, g1)
      BY <3>6
    <3> QED BY <3>7
  <2> HIDE DEF Fn
  <2>3. Nat \subseteq S
    BY <2>1, <2>2, Induction, Zenon
  <2> QED BY <2>3
<1>3. iter = Fn(N, iter)
  <2> HIDE DEF Fn
  <2> QED BY <1>0, <1>2
<1> HIDE DEF iter
<1>4. iter[{}] = 0 /\ \A k \in 1..N : iter[1..k] = iter[1..(k - 1)] + v[k]
  <2>1. iter[{}] = 0
    BY <1>3
  <2>2. ASSUME NEW k \in 1..N PROVE iter[1..k] = iter[1..(k - 1)] + v[k]
    <3>1. Max(1..k) = k
      <4>1. 1..k \in SUBSET Int /\ k \in 1..k /\ \A y \in 1..k : k >= y
        BY <1>0
      <4> QED BY <4>1, MaxOf
    <3>2. (1..k) \ {k} = 1..(k - 1) /\ 1..k # {} /\ 1..k \in SUBSET (1..N)
      BY <1>0
    <3> QED BY <1>3, <3>1, <3>2
  <2> QED BY <2>1, <2>2
<1> DEFINE f == [k \in 0..N |-> iter[1..k]]
           P == {n \in Nat : n <= N => f[n] \in Nat}
<1>5. f[0] = 0 /\ \A k \in 1..N : f[k] = f[k - 1] + v[k]
  BY <1>0, <1>4, 1..0 = {}
<1>6. Nat \subseteq P
  <2> HIDE DEF f
  <2>1. 0 \in P
    BY <1>5
  <2>2. ASSUME NEW n \in Nat, n \in P PROVE n + 1 \in P
    <3>1. CASE n + 1 <= N
      BY <1>0, <1>5, <2>2, <3>1
    <3> QED BY <3>1
  <2> QED BY <2>1, <2>2, Induction
<1>7. f \in [0..N -> Nat]
  <2>1. \A n \in 0..N : f[n] \in Nat
    <3> HIDE DEF f
    <3> QED BY <1>0, <1>6
  <2> QED BY <2>1
<1>8. SumOf(v) = f[N]
  BY <1>0, <1>1
<1> QED BY <1>5, <1>7, <1>8

(* The sums of the prefixes of v, which the running cursor of changes() is  *)
(* made of.                                                                 *)
LEMMA PrefixSums ==
  ASSUME NEW v \in Seq(Nat)
  PROVE  \E f \in [0..Len(v) -> Nat] :
           /\ f[0] = 0
           /\ \A k \in 1..Len(v) : f[k] = f[k - 1] + v[k]
           /\ \A k \in 0..Len(v) : SumOf(SubSeq(v, 1, k)) = f[k]
<1>1. PICK f \in [0..Len(v) -> Nat] :
        /\ f[0] = 0
        /\ \A k \in 1..Len(v) : f[k] = f[k - 1] + v[k]
  BY Sums
<1>2. ASSUME NEW k \in 0..Len(v) PROVE SumOf(SubSeq(v, 1, k)) = f[k]
  <2> DEFINE u == SubSeq(v, 1, k)
  <2>1. u \in Seq(Nat) /\ Len(u) = k /\ \A m \in 1..k : u[m] = v[m]
    OBVIOUS
  <2> HIDE DEF u
  <2>2. PICK g \in [0..k -> Nat] :
          g[0] = 0 /\ (\A m \in 1..k : g[m] = g[m - 1] + u[m]) /\ SumOf(u) = g[k]
    BY <2>1, Sums
  <2> DEFINE P == {n \in Nat : n <= k => g[n] = f[n]}
  <2>3. 0 \in P
    BY <1>1, <2>2
  <2>4. ASSUME NEW n \in Nat, n \in P PROVE n + 1 \in P
    <3>1. SUFFICES ASSUME n + 1 <= k PROVE g[n + 1] = f[n + 1]
      OBVIOUS
    <3>2. n + 1 \in 1..k /\ n + 1 \in 1..Len(v) /\ (n + 1) - 1 = n /\ g[n] = f[n]
      BY <2>4, <3>1
    <3>3. g[n + 1] = g[n] + u[n + 1] /\ f[n + 1] = f[n] + v[n + 1]
      BY <1>1, <2>2, <3>2
    <3> QED BY <2>1, <3>2, <3>3
  <2>5. Nat \subseteq P
    <3> HIDE DEF P
    <3> QED BY <2>3, <2>4, Induction
  <2>6. g[k] = f[k]
    BY <2>5
  <2> QED BY <2>2, <2>6 DEF u
<1> QED BY <1>1, <1>2

(* FlattenSeq() appends the pieces one after the other.                     *)
LEMMA Flat ==
  ASSUME NEW X, NEW s \in Seq(Seq(X))
  PROVE  \E f \in [0..Len(s) -> Seq(X)] :
           /\ f[0] = <<>>
           /\ \A k \in 1..Len(s) : f[k] = f[k - 1] \o s[k]
           /\ FlattenSeq(s) = f[Len(s)]
<1> DEFINE N == Len(s)
           Then(a, k) == a \o s[k]
           Fn(n, g) == [k \in 1..n |-> IF k = 1 THEN s[k] ELSE Then(g[k - 1], k)]
           flat == CHOOSE g : g = Fn(N, g)
<1>0. N \in Nat /\ DOMAIN s = 1..N /\ \A k \in 1..N : s[k] \in Seq(X)
  OBVIOUS
<1>1. N # 0 => FlattenSeq(s) = flat[N]
  BY Zenon DEF FlattenSeq
<1> HIDE DEF Then
<1>2. \A n \in Nat : \E g : g = Fn(n, g)
  <2> DEFINE S == {n \in Nat : \E g : g = Fn(n, g)}
  <2>1. 0 \in S
    <3> DEFINE g0 == [k \in 1..0 |-> <<>>]
    <3>1. g0 = Fn(0, g0)
      OBVIOUS
    <3> QED BY <3>1
  <2>2. ASSUME NEW n \in Nat, n \in S PROVE n + 1 \in S
    <3>1. PICK g : g = Fn(n, g)
      BY <2>2
    <3> DEFINE h == [k \in 1..(n + 1) |->
                       IF k = n + 1 /\ k # 1 THEN Then(g[n], k)
                       ELSE IF k = 1 THEN s[1] ELSE g[k]]
    <3>2. ASSUME NEW k \in 1..(n + 1) PROVE h[k] = Fn(n + 1, h)[k]
      <4>1. CASE k = 1
        BY <4>1
      <4>2. CASE k # 1 /\ k = n + 1
        <5>1. h[n] = g[n]
          BY <3>1, <4>2
        <5>2. h[k] = Then(g[n], k) /\ k - 1 = n
          BY <4>2
        <5>3. Fn(n + 1, h)[k] = Then(h[n], k)
          <6> HIDE DEF h
          <6> QED BY <4>2
        <5> QED BY <5>1, <5>2, <5>3
      <4>3. CASE k # 1 /\ k # n + 1
        <5>1. k \in 1..n /\ k - 1 \in 1..n
          BY <4>3
        <5>2. h[k] = g[k] /\ h[k - 1] = g[k - 1]
          BY <3>1, <4>3, <5>1
        <5>3. g[k] = Then(g[k - 1], k)
          BY <3>1, <4>3, <5>1
        <5> HIDE DEF h
        <5> QED BY <4>3, <5>2, <5>3
      <4> QED BY <4>1, <4>2, <4>3
    <3>3. h = Fn(n + 1, h)
      <4> HIDE DEF h
      <4>1. h = [k \in 1..(n + 1) |-> h[k]]
        BY DEF h
      <4> QED BY <3>2, <4>1
    <3> HIDE DEF h, Fn
    <3>4. \E g1 : g1 = Fn(n + 1, g1)
      BY <3>3
    <3> QED BY <3>4
  <2> HIDE DEF Fn
  <2>3. Nat \subseteq S
    BY <2>1, <2>2, Induction, Zenon
  <2> QED BY <2>3
<1>3. flat = Fn(N, flat)
  <2> HIDE DEF Fn
  <2> QED BY <1>0, <1>2
<1> HIDE DEF flat
<1> DEFINE f == [k \in 0..N |-> IF k = 0 THEN <<>> ELSE flat[k]]
           P == {n \in Nat : n <= N => f[n] \in Seq(X)}
<1>4. ASSUME NEW k \in 1..N, f[k - 1] \in Seq(X) PROVE f[k] = f[k - 1] \o s[k]
  <2>1. CASE k = 1
    <3>1. f[k] = s[k] /\ f[k - 1] = << >>
      BY <1>0, <1>3, <2>1
    <3> QED BY <1>0, <3>1, ConcatEmptySeq
  <2>2. CASE k # 1
    <3>1. flat[k] = Then(flat[k - 1], k)
      BY <1>0, <1>3, <2>2
    <3>2. f[k] = flat[k] /\ f[k - 1] = flat[k - 1]
      BY <1>0, <2>2
    <3> QED BY <3>1, <3>2 DEF Then
  <2> QED BY <2>1, <2>2
<1>5. Nat \subseteq P
  <2>1. f[0] = <<>>
    BY <1>0
  <2> HIDE DEF f
  <2>2. 0 \in P
    <3>1. <<>> \in Seq(X)
      OBVIOUS
    <3> QED BY <2>1, <3>1
  <2>3. ASSUME NEW n \in Nat, n \in P PROVE n + 1 \in P
    <3>1. SUFFICES ASSUME n + 1 <= N PROVE f[n + 1] \in Seq(X)
      OBVIOUS
    <3>2. f[n] \in Seq(X) /\ n + 1 \in 1..N /\ (n + 1) - 1 = n
      BY <1>0, <2>3, <3>1
    <3>3. f[n + 1] = f[n] \o s[n + 1] /\ s[n + 1] \in Seq(X)
      BY <1>0, <1>4, <3>2
    <3> QED BY <3>2, <3>3
  <2> QED BY <2>2, <2>3, Induction
<1>6. \A n \in 0..N : f[n] \in Seq(X)
  <2> HIDE DEF f
  <2> QED BY <1>0, <1>5
<1>7. f \in [0..N -> Seq(X)]
  BY <1>6
<1>8. f[0] = <<>> /\ \A k \in 1..N : f[k] = f[k - 1] \o s[k]
  <2>1. f[0] = <<>>
    BY <1>0
  <2> HIDE DEF f
  <2>2. \A k \in 1..N : k - 1 \in 0..N
    BY <1>0
  <2> QED BY <1>4, <1>6, <2>1, <2>2
<1>9. FlattenSeq(s) = f[N]
  <2>1. CASE N = 0
    <3>1. s = <<>>
      BY <2>1, EmptySeq
    <3>2. FlattenSeq(s) = <<>>
      BY <3>1 DEF FlattenSeq
    <3> QED BY <2>1, <3>2
  <2>2. CASE N # 0
    BY <1>0, <1>1, <2>2
  <2> QED BY <2>1, <2>2
<1> HIDE DEF f
<1> QED BY <1>7, <1>8, <1>9

(* One more piece comes behind the flattened rest.                          *)
LEMMA FlatAppend ==
  ASSUME NEW X, NEW s \in Seq(Seq(X)), NEW x \in Seq(X)
  PROVE  /\ FlattenSeq(s) \in Seq(X)
         /\ FlattenSeq(Append(s, x)) = FlattenSeq(s) \o x
<1> DEFINE r == Append(s, x)
<1>0. r \in Seq(Seq(X)) /\ Len(r) = Len(s) + 1 /\ r[Len(s) + 1] = x
      /\ (\A k \in 1..Len(s) : r[k] = s[k]) /\ Len(s) \in Nat
  OBVIOUS
<1> HIDE DEF r
<1>1. PICK f \in [0..Len(s) -> Seq(X)] :
        /\ f[0] = <<>>
        /\ \A k \in 1..Len(s) : f[k] = f[k - 1] \o s[k]
        /\ FlattenSeq(s) = f[Len(s)]
  BY Flat
<1>2. PICK g \in [0..Len(r) -> Seq(X)] :
        /\ g[0] = <<>>
        /\ \A k \in 1..Len(r) : g[k] = g[k - 1] \o r[k]
        /\ FlattenSeq(r) = g[Len(r)]
  BY <1>0, Flat
<1> DEFINE P == {n \in Nat : n <= Len(s) => g[n] = f[n]}
<1>3. 0 \in P
  BY <1>1, <1>2
<1>4. ASSUME NEW n \in Nat, n \in P PROVE n + 1 \in P
  <2>1. SUFFICES ASSUME n + 1 <= Len(s) PROVE g[n + 1] = f[n + 1]
    OBVIOUS
  <2>2. n + 1 \in 1..Len(s) /\ n + 1 \in 1..Len(r) /\ (n + 1) - 1 = n /\ g[n] = f[n]
    BY <1>0, <1>4, <2>1, SMTT(30)
  <2>3. g[n + 1] = g[n] \o r[n + 1] /\ f[n + 1] = f[n] \o s[n + 1]
    BY <1>1, <1>2, <2>2
  <2> QED BY <1>0, <2>2, <2>3
<1>5. Nat \subseteq P
  <2> HIDE DEF P
  <2> QED BY <1>3, <1>4, Induction
<1>6. g[Len(s)] = f[Len(s)]
  <2>1. Len(s) \in P
    <3> HIDE DEF P
    <3> QED BY <1>0, <1>5
  <2> QED BY <1>0, <2>1
<1>7. g[Len(r)] = g[Len(s)] \o x
  <2>1. Len(r) \in 1..Len(r) /\ Len(r) - 1 = Len(s)
    BY <1>0
  <2>2. g[Len(r)] = g[Len(r) - 1] \o r[Len(r)]
    BY <1>2, <2>1
  <2> QED BY <1>0, <2>1, <2>2
<1>8. FlattenSeq(s) \in Seq(X)
  <2>1. Len(s) \in 0..Len(s)
    BY <1>0
  <2> QED BY <1>1, <2>1
<1> QED BY <1>1, <1>2, <1>6, <1>7, <1>8 DEF r

(* Concatenation by a name, to be reasoned about by these four facts. *)
Cat(a, b) == a \o b

(* A concatenation has the elements of its parts.                           *)
LEMMA CatType ==
  \A X : \A a, b : a \in Seq(X) /\ b \in Seq(X) => Cat(a, b) \in Seq(X)
BY ConcatProperties DEF Cat

(* Concatenation is associative.                                            *)
LEMMA CatAssoc ==
  \A X : \A a, b, c : a \in Seq(X) /\ b \in Seq(X) /\ c \in Seq(X)
                      => Cat(Cat(a, b), c) = Cat(a, Cat(b, c))
BY ConcatAssociative DEF Cat

(* The empty text adds nothing on either side.                              *)
LEMMA CatEmpty ==
  \A X : \A a : a \in Seq(X) => Cat(a, <<>>) = a /\ Cat(<<>>, a) = a
BY ConcatEmptySeq DEF Cat

(* No pieces flatten to nothing.                                            *)
LEMMA FlatEmpty == FlattenSeq(<<>>) = <<>>
BY DEF FlattenSeq

(* The rows g[from] to g[to - 1] one after the other. *)
Joined(g, from, to) == FlattenSeq([k \in 1..(to - from) |-> g[from + k - 1]])

(* Joined rows are a sequence, and the next row comes behind them.          *)
LEMMA JoinedStep ==
  ASSUME NEW X, NEW N \in Nat, NEW g \in [0..N -> Seq(X)], NEW from \in 0..N
  PROVE  /\ Joined(g, from, from) = <<>>
         /\ \A to \in from..N :
              /\ Joined(g, from, to) \in Seq(X)
              /\ to < N => Joined(g, from, to + 1) = Cat(Joined(g, from, to), g[to])
<1> DEFINE S(to) == [k \in 1..(to - from) |-> g[from + k - 1]]
<1>1. Joined(g, from, from) = <<>>
  <2>1. S(from) \in Seq(X) /\ Len(S(from)) = 0
    <3>1. from - from = 0 /\ 1..0 = {}
      OBVIOUS
    <3>2. S(from) \in [1..0 -> X]
      BY <3>1
    <3> QED BY <3>2
  <2> HIDE DEF S
  <2>2. FlattenSeq(S(from)) = <<>>
    BY <2>1, EmptySeq, FlatEmpty
  <2> QED BY <2>2 DEF S, Joined
<1>2. ASSUME NEW to \in from..(N + 1) PROVE S(to) \in Seq(Seq(X)) /\ Len(S(to)) = to - from
  <2>1. to - from \in Nat
    OBVIOUS
  <2>2. \A k \in 1..(to - from) : from + k - 1 \in 0..N
    OBVIOUS
  <2>3. S(to) \in [1..(to - from) -> Seq(X)]
    BY <2>2
  <2> QED BY <2>1, <2>3
<1>3. ASSUME NEW to \in from..N PROVE S(to + 1) = Append(S(to), g[to])
  <2> DEFINE a == S(to)  b == S(to + 1)  c == Append(a, g[to])
  <2>0. to \in Nat /\ from \in Nat /\ to - from \in Nat /\ to + 1 \in from..(N + 1) /\ (to + 1) - from = (to - from) + 1
    OBVIOUS
  <2>1. a \in Seq(Seq(X)) /\ Len(a) = to - from
    BY <1>2, <2>0
  <2>2. \A k \in 1..(to - from) : a[k] = g[from + k - 1] /\ b[k] = g[from + k - 1]
    BY <2>0
  <2>3. b[(to - from) + 1] = g[to]
    BY <2>0
  <2>4. b \in Seq(Seq(X)) /\ Len(b) = (to - from) + 1
    BY <1>2, <2>0
  <2> HIDE DEF a, b
  <2>5. c \in Seq(Seq(X)) /\ Len(c) = (to - from) + 1 /\ c[(to - from) + 1] = g[to]
        /\ \A k \in 1..(to - from) : c[k] = a[k]
    BY <2>0, <2>1, SMTT(30)
  <2> HIDE DEF c
  <2>6. ASSUME NEW k \in 1..((to - from) + 1) PROVE b[k] = c[k]
    <3>1. CASE k = (to - from) + 1
      BY <2>3, <2>5, <3>1
    <3>2. CASE k # (to - from) + 1
      <4>1. k \in 1..(to - from)
        BY <2>0, <3>2
      <4> QED BY <2>2, <2>5, <4>1
    <3> QED BY <3>1, <3>2
  <2> QED BY <2>4, <2>5, <2>6, SeqEqual DEF a, b, c
<1> HIDE DEF S
<1>4. ASSUME NEW to \in from..N
      PROVE  Joined(g, from, to) \in Seq(X) /\ Joined(g, from, to + 1) = Cat(Joined(g, from, to), g[to])
  <2>1. FlattenSeq(S(to)) \in Seq(X) /\ FlattenSeq(Append(S(to), g[to])) = FlattenSeq(S(to)) \o g[to]
    <3>1. S(to) \in Seq(Seq(X)) /\ g[to] \in Seq(X)
      BY <1>2
    <3> QED BY <3>1, FlatAppend
  <2> QED BY <1>3, <2>1 DEF Joined, S, Cat
<1> QED BY <1>1, <1>4

(* The same facts as one formula. *)
LEMMA Rows ==
  \A X : \A N \in Nat : \A g \in [0..N -> Seq(X)] : \A from \in 0..N :
    /\ Joined(g, from, from) = <<>>
    /\ \A to \in from..N :
         /\ Joined(g, from, to) \in Seq(X)
         /\ to < N => Joined(g, from, to + 1) = Cat(Joined(g, from, to), g[to])
BY JoinedStep, Zenon

-----------------------------------------------------------------------------
(* The text that a set of changes makes of the base.                        *)

(* The changes a script of b may ask for. *)
Edits(b) ==
  {c \in [start : 0..Len(b), end : 0..Len(b), lines : Seq(Line)] :
     c.start <= c.end /\ (c.start = c.end => c.lines # <<>>)}

(* The fields of a change and their order.                                  *)
LEMMA EditFields ==
  ASSUME NEW b \in Seq(Line), NEW c \in Edits(b)
  PROVE  /\ c.start \in Nat /\ c.end \in Nat /\ c.start <= c.end /\ c.end <= Len(b)
         /\ c.lines \in Seq(Line) /\ (c.start = c.end => c.lines # <<>>)
BY DEF Edits

(* What is written at p: nothing, or the lines of the change that starts there. *)
LEMMA WrittenNone ==
  ASSUME NEW cs, NEW p, \A c \in cs : c.start # p
  PROVE  Written(cs, p) = <<>>
BY DEF Written

(* Where just one change starts, its lines are written.                     *)
LEMMA WrittenOne ==
  ASSUME NEW cs, NEW c \in cs, \A d \in cs : d.start = c.start => d = c
  PROVE  Written(cs, c.start) = c.lines
<1>1. (CHOOSE d \in cs : d.start = c.start) = c
  OBVIOUS
<1> QED BY <1>1 DEF Written

(* What is written at a line is a text.                                     *)
LEMMA WrittenType ==
  ASSUME NEW b \in Seq(Line), NEW cs \in SUBSET Edits(b), NEW p
  PROVE  Written(cs, p) \in Seq(Line)
<1>1. CASE \E c \in cs : c.start = p
  <2> DEFINE d == CHOOSE c \in cs : c.start = p
  <2>1. d \in cs
    BY <1>1
  <2>2. Written(cs, p) = d.lines
    BY <1>1 DEF Written
  <2> HIDE DEF d
  <2>3. d.lines \in Seq(Line)
    BY <2>1, EditFields
  <2> QED BY <2>2, <2>3
<1>2. CASE ~ \E c \in cs : c.start = p
  <2>1. Written(cs, p) = <<>>
    BY <1>2, WrittenNone
  <2>2. <<>> \in Seq(Line)
    OBVIOUS
  <2> QED BY <2>1, <2>2
<1> QED BY <1>1, <1>2

(* What stands of a base line is a text.                                    *)
LEMMA StandingType ==
  ASSUME NEW b \in Seq(Line), NEW cs, NEW p \in 0..(Len(b) - 1)
  PROVE  Standing(b, cs, p) \in Seq(Line)
<1>1. b[p + 1] \in Line
  OBVIOUS
<1>2. <<>> \in Seq(Line) /\ <<b[p + 1]>> \in Seq(Line)
  BY <1>1
<1> QED BY <1>2 DEF Standing

(* A text grows line by line: what stands of the base line, then what is    *)
(* written at the next.                                                     *)
LEMMA TextStep ==
  ASSUME NEW b \in Seq(Line), NEW cs \in SUBSET Edits(b), NEW from \in 0..Len(b)
  PROVE  /\ Text(b, cs, from, from) = Written(cs, from)
         /\ \A to \in from..Len(b) :
              /\ Text(b, cs, from, to) \in Seq(Line)
              /\ to < Len(b) =>
                   Text(b, cs, from, to + 1)
                     = Cat(Cat(Text(b, cs, from, to), Standing(b, cs, to)), Written(cs, to + 1))
<1> DEFINE N == Len(b)
           row(p) == Cat(Written(cs, p), Standing(b, cs, p))
           g == [p \in 0..N |-> IF p < N THEN row(p) ELSE <<>>]
<1>0. N \in Nat
  OBVIOUS
<1>1. ASSUME NEW p \in 0..N, p < N
      PROVE  row(p) \in Seq(Line) /\ Written(cs, p) \in Seq(Line) /\ Standing(b, cs, p) \in Seq(Line)
  <2>1. p \in 0..(Len(b) - 1)
    BY <1>0, <1>1
  <2>2. Written(cs, p) \in Seq(Line)
    BY WrittenType
  <2>3. Standing(b, cs, p) \in Seq(Line)
    BY <2>1, StandingType
  <2> QED BY <2>2, <2>3, CatType, Zenon
<1>2. g \in [0..N -> Seq(Line)]
  <2>1. <<>> \in Seq(Line)
    OBVIOUS
  <2> HIDE DEF row
  <2> QED BY <1>1, <2>1
<1>3. ASSUME NEW to \in from..N
      PROVE  Text(b, cs, from, to) = Cat(Joined(g, from, to), Written(cs, to))
  <2>1. \A k \in 1..(to - from) : g[from + k - 1] = row(from + k - 1)
    <3> HIDE DEF row
    <3> QED OBVIOUS
  <2>2. [k \in 1..(to - from) |-> g[from + k - 1]]
          = [k \in 1..(to - from) |-> Written(cs, from + k - 1) \o Standing(b, cs, from + k - 1)]
    <3> HIDE DEF g
    <3> QED BY <2>1 DEF Cat
  <2> HIDE DEF g
  <2> QED BY <2>2 DEF Text, Joined, Cat
<1>4. /\ Joined(g, from, from) = <<>>
      /\ \A to \in from..N :
           /\ Joined(g, from, to) \in Seq(Line)
           /\ to < N => Joined(g, from, to + 1) = Cat(Joined(g, from, to), g[to])
  <2> HIDE DEF g
  <2> QED BY <1>0, <1>2, Rows, Zenon
<1>5. \A p : Written(cs, p) \in Seq(Line)
  BY WrittenType
<1>6. Text(b, cs, from, from) = Written(cs, from)
  <2>1. from \in from..N
    BY <1>0
  <2> HIDE DEF g
  <2> QED BY <2>1, <1>3, <1>4, <1>5, CatEmpty
<1>7. ASSUME NEW to \in from..N PROVE Text(b, cs, from, to) \in Seq(Line)
  <2> HIDE DEF g
  <2> QED BY <1>3, <1>4, <1>5, CatType
<1>8. ASSUME NEW to \in from..N, to < N
      PROVE  Text(b, cs, from, to + 1)
               = Cat(Cat(Text(b, cs, from, to), Standing(b, cs, to)), Written(cs, to + 1))
  <2>1. to + 1 \in from..N /\ to \in 0..N
    BY <1>0, <1>8
  <2>2. g[to] = row(to)
    <3> HIDE DEF row
    <3> QED BY <1>8, <2>1
  <2> DEFINE J == Joined(g, from, to)  w == Written(cs, to)  s == Standing(b, cs, to)  x == Written(cs, to + 1)
  <2>3. Joined(g, from, to + 1) = Cat(J, Cat(w, s))
    <3> HIDE DEF g
    <3> QED BY <1>4, <1>8, <2>2
  <2>4. Text(b, cs, from, to + 1) = Cat(Cat(J, Cat(w, s)), x)
    <3> HIDE DEF g
    <3> QED BY <1>3, <2>1, <2>3
  <2>5. Text(b, cs, from, to) = Cat(J, w)
    <3> HIDE DEF g
    <3> QED BY <1>3
  <2>6. J \in Seq(Line) /\ w \in Seq(Line) /\ s \in Seq(Line)
    <3> HIDE DEF g, row
    <3> QED BY <1>1, <1>4, <1>8, <2>1
  <2> HIDE DEF J, w, s, x
  <2>7. Cat(J, Cat(w, s)) = Cat(Cat(J, w), s)
    BY <2>6, CatAssoc
  <2> QED BY <2>4, <2>5, <2>7 DEF s, x
<1> QED BY <1>6, <1>7, <1>8

(* No two changes start at one place. *)
Separate(cs) == \A c, d \in cs : c.start = d.start => c = d

(* Changes that start at different lines write what each set of them        *)
(* writes.                                                                  *)
LEMMA WrittenBoth ==
  ASSUME NEW b \in Seq(Line), NEW D \in SUBSET Edits(b), NEW K \in SUBSET Edits(b),
         Separate(D), Separate(K), \A c \in D, d \in K : c.start # d.start, NEW p
  PROVE  Written(D \cup K, p) = Cat(Written(D, p), Written(K, p))
<1>1. Written(D, p) \in Seq(Line) /\ Written(K, p) \in Seq(Line)
  BY WrittenType
<1>2. CASE \E c \in D : c.start = p
  <2>1. PICK c \in D : c.start = p
    BY <1>2
  <2>2. Written(D, p) = c.lines
    BY <2>1, WrittenOne DEF Separate
  <2>3. Written(K, p) = <<>>
    BY <2>1, WrittenNone
  <2>4. Written(D \cup K, p) = c.lines
    <3>1. c \in D \cup K /\ \A d \in D \cup K : d.start = c.start => d = c
      BY <2>1 DEF Separate
    <3> QED BY <2>1, <3>1, WrittenOne
  <2> QED BY <1>1, <2>2, <2>3, <2>4, CatEmpty
<1>3. CASE \E c \in K : c.start = p
  <2>1. PICK c \in K : c.start = p
    BY <1>3
  <2>2. Written(K, p) = c.lines
    BY <2>1, WrittenOne DEF Separate
  <2>3. Written(D, p) = <<>>
    BY <2>1, WrittenNone
  <2>4. Written(D \cup K, p) = c.lines
    <3>1. c \in D \cup K /\ \A d \in D \cup K : d.start = c.start => d = c
      BY <2>1 DEF Separate
    <3> QED BY <2>1, <3>1, WrittenOne
  <2> QED BY <1>1, <2>2, <2>3, <2>4, CatEmpty
<1>4. CASE ~ (\E c \in D : c.start = p) /\ ~ (\E c \in K : c.start = p)
  <2>1. Written(D, p) = <<>> /\ Written(K, p) = <<>> /\ Written(D \cup K, p) = <<>>
    BY <1>4, WrittenNone
  <2> QED BY <1>1, <2>1, CatEmpty
<1> QED BY <1>2, <1>3, <1>4

(* What D has made of the base up to cut, the lines up to s, and what K makes *)
(* of the rest.                                                               *)
LEMMA Extend ==
  ASSUME NEW b \in Seq(Line), NEW D \in SUBSET Edits(b), NEW K \in SUBSET Edits(b),
         Separate(D), Separate(K), \A c \in D, d \in K : c.start # d.start,
         NEW cut \in 0..Len(b), NEW s \in cut..Len(b), NEW e \in s..Len(b),
         \A c \in D : c.end <= cut, \A d \in K : s <= d.start
  PROVE  Text(b, D \cup K, 0, e)
           = Cat(Cat(Text(b, D, 0, cut), SubSeq(b, cut + 1, s)), Text(b, K, s, e))
<1> DEFINE C == D \cup K
           N == Len(b)
<1>0. N \in Nat /\ C \in SUBSET Edits(b) /\ 0 \in 0..N /\ s \in 0..N
  OBVIOUS
<1>1. \A p : Written(C, p) = Cat(Written(D, p), Written(K, p))
  BY WrittenBoth
<1>2. \A p : Written(C, p) \in Seq(Line) /\ Written(D, p) \in Seq(Line) /\ Written(K, p) \in Seq(Line)
  BY <1>0, WrittenType
<1>3. \A c \in D : c.start <= cut /\ c.start \in Nat /\ c.end \in Nat
  BY EditFields
<1>4. \A d \in K : d.start \in Nat /\ d.end \in Nat
  BY EditFields
<1>5. \A p \in 0..N : p < s => Written(K, p) = <<>>
  BY <1>4, WrittenNone
<1>6. \A p \in 0..N : cut < p => Written(D, p) = <<>>
  BY <1>3, WrittenNone
<1>7. \A p \in 0..N : p < s => Standing(b, C, p) = Standing(b, D, p)
  BY <1>4 DEF Standing
<1>8. \A p \in 0..N : cut <= p => Standing(b, C, p) = Standing(b, K, p)
  BY <1>3 DEF Standing
<1>9. /\ Text(b, C, 0, 0) = Written(C, 0)
      /\ \A t \in 0..N :
           /\ Text(b, C, 0, t) \in Seq(Line)
           /\ t < N => Text(b, C, 0, t + 1) = Cat(Cat(Text(b, C, 0, t), Standing(b, C, t)), Written(C, t + 1))
  BY <1>0, TextStep
<1>10. /\ Text(b, D, 0, 0) = Written(D, 0)
       /\ \A t \in 0..N :
            /\ Text(b, D, 0, t) \in Seq(Line)
            /\ t < N => Text(b, D, 0, t + 1) = Cat(Cat(Text(b, D, 0, t), Standing(b, D, t)), Written(D, t + 1))
  BY <1>0, TextStep
<1>11. /\ Text(b, K, s, s) = Written(K, s)
       /\ \A t \in s..N :
            /\ Text(b, K, s, t) \in Seq(Line)
            /\ t < N => Text(b, K, s, t + 1) = Cat(Cat(Text(b, K, s, t), Standing(b, K, t)), Written(K, t + 1))
  BY <1>0, TextStep
<1>12. \A p \in 0..(N - 1) : Standing(b, C, p) \in Seq(Line) /\ Standing(b, D, p) \in Seq(Line)
                             /\ Standing(b, K, p) \in Seq(Line)
  BY StandingType
<1> HIDE DEF C, N
(* Up to cut the text is that of D, apart from what K writes at cut. *)
<1> DEFINE P == {n \in Nat : n <= cut => Text(b, C, 0, n) = Cat(Text(b, D, 0, n), Written(K, n))}
<1>13. Nat \subseteq P
  <2>1. 0 \in P
    BY <1>1, <1>9, <1>10
  <2>2. ASSUME NEW n \in Nat, n \in P PROVE n + 1 \in P
    <3>1. SUFFICES ASSUME n + 1 <= cut
                   PROVE  Text(b, C, 0, n + 1) = Cat(Text(b, D, 0, n + 1), Written(K, n + 1))
      OBVIOUS
    <3>2. n \in 0..N /\ n < N /\ n < s /\ n <= cut /\ n \in 0..(N - 1)
      BY <3>1 DEF N
    <3> DEFINE A == Text(b, D, 0, n)  S == Standing(b, D, n)  W == Written(D, n + 1)  V == Written(K, n + 1)
    <3>3. A \in Seq(Line) /\ S \in Seq(Line) /\ W \in Seq(Line) /\ V \in Seq(Line)
      BY <1>2, <1>10, <1>12, <3>2
    <3>4. Text(b, C, 0, n) = A
      BY <1>5, <2>2, <3>2, <3>3, CatEmpty
    <3>5. Text(b, C, 0, n + 1) = Cat(Cat(A, S), Cat(W, V))
      BY <1>1, <1>7, <1>9, <3>2, <3>4
    <3>6. Text(b, D, 0, n + 1) = Cat(Cat(A, S), W)
      BY <1>10, <3>2
    <3> HIDE DEF A, S, W, V
    <3>7. Cat(A, S) \in Seq(Line)
      BY <3>3, CatType
    <3>8. Cat(Cat(A, S), Cat(W, V)) = Cat(Cat(Cat(A, S), W), V)
      BY <3>3, <3>7, CatAssoc
    <3> QED BY <3>5, <3>6, <3>8 DEF V
  <2> HIDE DEF P
  <2> QED BY <2>1, <2>2, Induction
<1>14. Text(b, C, 0, cut) = Cat(Text(b, D, 0, cut), Written(K, cut))
  <2>1. cut \in Nat /\ cut <= cut
    OBVIOUS
  <2> QED BY <1>13, <2>1
<1> DEFINE A == Text(b, D, 0, cut)
<1>15. A \in Seq(Line) /\ cut \in 0..N
  BY <1>10 DEF N
(* From cut to s the lines of the base stand. *)
<1> DEFINE Q == {n \in Nat : cut + n <= s =>
                   Text(b, C, 0, cut + n)
                     = Cat(Cat(A, SubSeq(b, cut + 1, cut + n)), Written(K, cut + n))}
<1>16. Nat \subseteq Q
  <2>1. 0 \in Q
    <3>1. SubSeq(b, cut + 1, cut) = <<>>
      BY SubSeqEmpty
    <3>2. cut + 0 = cut
      OBVIOUS
    <3> QED BY <1>14, <1>15, <3>1, <3>2, CatEmpty
  <2>2. ASSUME NEW n \in Nat, n \in Q PROVE n + 1 \in Q
    <3> DEFINE t == cut + n
    <3>1. SUFFICES ASSUME cut + (n + 1) <= s
                   PROVE  Text(b, C, 0, t + 1) = Cat(Cat(A, SubSeq(b, cut + 1, t + 1)), Written(K, t + 1))
      <4>1. cut + (n + 1) = t + 1
        OBVIOUS
      <4> QED BY <4>1
    <3>2. t \in 0..N /\ t + 1 \in 0..N /\ t < N /\ t < s /\ cut <= t /\ t \in 0..(N - 1) /\ cut < t + 1 /\ t \in Nat
      BY <3>1 DEF N
    <3> DEFINE U == SubSeq(b, cut + 1, t)  V == Written(K, t + 1)
    <3>3. U \in Seq(Line) /\ V \in Seq(Line) /\ b[t + 1] \in Line
      BY <1>2, <3>2 DEF N
    <3>4. Text(b, C, 0, t) = Cat(A, U)
      <4>1. Text(b, C, 0, t) = Cat(Cat(A, U), Written(K, t))
        BY <2>2, <3>2
      <4>2. Written(K, t) = <<>>
        BY <1>5, <3>2
      <4>3. Cat(A, U) \in Seq(Line)
        <5> HIDE DEF A, U
        <5> QED BY <1>15, <3>3, CatType
      <4> HIDE DEF A, U
      <4> QED BY <4>1, <4>2, <4>3, CatEmpty
    <3>5. Standing(b, C, t) = <<b[t + 1]>>
      <4>1. ~ \E c \in K : c.start <= t /\ t < c.end
        BY <1>4, <3>2
      <4> QED BY <1>8, <3>2, <4>1 DEF Standing
    <3>6. Written(C, t + 1) = V
      <4>1. Written(D, t + 1) = <<>>
        BY <1>6, <3>2
      <4> QED BY <1>1, <1>2, <4>1, CatEmpty
    <3>7. Text(b, C, 0, t + 1) = Cat(Cat(Cat(A, U), <<b[t + 1]>>), V)
      <4> HIDE DEF A, U, V
      <4> QED BY <1>9, <3>2, <3>4, <3>5, <3>6
    <3>8. SubSeq(b, cut + 1, t + 1) = Cat(U, <<b[t + 1]>>)
      <4>1. cut + 1 \in 1..Len(b) /\ t + 1 \in (cut + 1)..Len(b) /\ (t + 1) - 1 = t
        BY <3>2 DEF N
      <4> HIDE DEF Q, A, P
      <4> QED BY <4>1, SubSeqRecursiveSecond DEF Cat
    <3> DEFINE x == <<b[t + 1]>>
    <3>9. x \in Seq(Line)
      BY <3>3
    <3>10. Cat(Cat(A, U), x) = Cat(A, Cat(U, x))
      <4> HIDE DEF A, U, x
      <4> QED BY <1>15, <3>3, <3>9, CatAssoc
    <3> HIDE DEF A, U, V, t
    <3> QED BY <3>7, <3>8, <3>10 DEF V
  <2> HIDE DEF Q
  <2> QED BY <2>1, <2>2, Induction
<1> DEFINE B == Cat(A, SubSeq(b, cut + 1, s))
<1>17. B \in Seq(Line) /\ Text(b, C, 0, s) = Cat(B, Written(K, s))
  <2>1. s - cut \in Nat /\ cut + (s - cut) = s
    OBVIOUS
  <2>2. s - cut \in Q
    <3> HIDE DEF Q
    <3> QED BY <1>16, <2>1
  <2>3. Text(b, C, 0, s) = Cat(B, Written(K, s))
    BY <2>1, <2>2
  <2>4. SubSeq(b, cut + 1, s) \in Seq(Line)
    OBVIOUS
  <2> QED BY <1>15, <2>3, <2>4, CatType
<1> HIDE DEF B
(* From s on the text is that of K. *)
<1> DEFINE R == {n \in Nat : s + n <= N => Text(b, C, 0, s + n) = Cat(B, Text(b, K, s, s + n))}
<1>18. Nat \subseteq R
  <2>1. 0 \in R
    BY <1>11, <1>17
  <2>2. ASSUME NEW n \in Nat, n \in R PROVE n + 1 \in R
    <3> DEFINE t == s + n
    <3>1. SUFFICES ASSUME s + (n + 1) <= N
                   PROVE  Text(b, C, 0, t + 1) = Cat(B, Text(b, K, s, t + 1))
      <4>1. s + (n + 1) = t + 1
        OBVIOUS
      <4> QED BY <4>1
    <3>2. t \in s..N /\ t \in 0..N /\ t + 1 \in 0..N /\ t < N /\ cut <= t /\ t \in 0..(N - 1) /\ cut < t + 1
      BY <1>0, <3>1 DEF N
    <3> DEFINE U == Text(b, K, s, t)  S == Standing(b, K, t)  V == Written(K, t + 1)
    <3>3. U \in Seq(Line) /\ S \in Seq(Line) /\ V \in Seq(Line)
      BY <1>2, <1>11, <1>12, <3>2
    <3>4. Text(b, C, 0, t) = Cat(B, U)
      BY <2>2, <3>2
    <3>5. Written(C, t + 1) = V
      <4>1. Written(D, t + 1) = <<>>
        BY <1>6, <3>2
      <4> QED BY <1>1, <1>2, <4>1, CatEmpty
    <3>6. Text(b, C, 0, t + 1) = Cat(Cat(Cat(B, U), S), V)
      BY <1>8, <1>9, <3>2, <3>4, <3>5
    <3>7. Text(b, K, s, t + 1) = Cat(Cat(U, S), V)
      BY <1>11, <3>2
    <3> HIDE DEF U, S, V, t
    <3>8. Cat(Cat(B, U), S) = Cat(B, Cat(U, S)) /\ Cat(U, S) \in Seq(Line)
      BY <1>17, <3>3, CatAssoc, CatType
    <3>9. Cat(Cat(B, Cat(U, S)), V) = Cat(B, Cat(Cat(U, S), V))
      BY <1>17, <3>3, <3>8, CatAssoc
    <3> QED BY <3>6, <3>7, <3>8, <3>9
  <2> HIDE DEF R
  <2> QED BY <2>1, <2>2, Induction
<1>19. e - s \in Nat /\ s + (e - s) = e /\ e <= N
  BY DEF N
<1>20. e - s \in R
  <2> HIDE DEF R
  <2> QED BY <1>18, <1>19
<1> QED BY <1>19, <1>20 DEF B, C

(* Without further changes the base stands. *)
LEMMA Keep ==
  ASSUME NEW b \in Seq(Line), NEW D \in SUBSET Edits(b), Separate(D),
         NEW cut \in 0..Len(b), NEW e \in cut..Len(b), \A c \in D : c.end <= cut
  PROVE  Text(b, D, 0, e) = Cat(Text(b, D, 0, cut), SubSeq(b, cut + 1, e))
<1> DEFINE K == {}
           X == Cat(Text(b, D, 0, cut), SubSeq(b, cut + 1, e))
<1>1. K \in SUBSET Edits(b) /\ Separate(K) /\ (\A c \in D, d \in K : c.start # d.start)
      /\ (\A d \in K : e <= d.start) /\ e \in e..Len(b) /\ D \cup K = D
  BY DEF Separate
<1>2. Text(b, D \cup K, 0, e) = Cat(X, Text(b, K, e, e))
  <2> HIDE DEF K
  <2> QED BY <1>1, Extend
<1>3. Text(b, K, e, e) = <<>>
  <2>1. e \in 0..Len(b)
    OBVIOUS
  <2>2. Text(b, K, e, e) = Written(K, e)
    BY <1>1, <2>1, TextStep
  <2> QED BY <2>2, WrittenNone
<1>4. X \in Seq(Line)
  <2>1. /\ Text(b, D, 0, 0) = Written(D, 0)
        /\ \A t \in 0..Len(b) :
              /\ Text(b, D, 0, t) \in Seq(Line)
              /\ t < Len(b) => Text(b, D, 0, t + 1) = Cat(Cat(Text(b, D, 0, t), Standing(b, D, t)), Written(D, t + 1))
    <3>1. 0 \in 0..Len(b)
      OBVIOUS
    <3> QED BY <3>1, TextStep
  <2>2. SubSeq(b, cut + 1, e) \in Seq(Line)
    OBVIOUS
  <2> QED BY <2>1, <2>2, CatType
<1> HIDE DEF X, K
<1> QED BY <1>1, <1>2, <1>3, <1>4, CatEmpty DEF X

(* A change makes of its own region what it says. *)
LEMMA OneChange ==
  ASSUME NEW b \in Seq(Line), NEW c \in Edits(b)
  PROVE  Text(b, {c}, c.start, c.end) = c.lines
<1> DEFINE cs == {c}  s == c.start  e == c.end
           P == {n \in Nat : s + n <= e => Text(b, cs, s, s + n) = c.lines}
<1>1. s \in 0..Len(b) /\ e \in s..Len(b) /\ c.lines \in Seq(Line) /\ cs \in SUBSET Edits(b)
  BY EditFields
<1>2. /\ Text(b, cs, s, s) = Written(cs, s)
      /\ \A t \in s..Len(b) :
           /\ Text(b, cs, s, t) \in Seq(Line)
           /\ t < Len(b) => Text(b, cs, s, t + 1) = Cat(Cat(Text(b, cs, s, t), Standing(b, cs, t)), Written(cs, t + 1))
  <2> HIDE DEF cs, s
  <2> QED BY <1>1, TextStep
<1>3. Written(cs, s) = c.lines
  BY WrittenOne
<1>4. 0 \in P
  BY <1>1, <1>2, <1>3
<1>5. ASSUME NEW n \in Nat, n \in P PROVE n + 1 \in P
  <2> DEFINE t == s + n
  <2>1. SUFFICES ASSUME s + (n + 1) <= e PROVE Text(b, cs, s, t + 1) = c.lines
    <3>1. s + (n + 1) = t + 1
      BY <1>1
    <3> QED BY <3>1
  <2>2. t \in s..Len(b) /\ t < Len(b) /\ s <= t /\ t < e /\ t + 1 # s
    BY <1>1, <2>1
  <2>3. Text(b, cs, s, t) = c.lines
    BY <1>1, <1>5, <2>2
  <2>4. Standing(b, cs, t) = <<>>
    BY <2>2 DEF Standing
  <2>5. Written(cs, t + 1) = <<>>
    BY <2>2, WrittenNone
  <2> HIDE DEF cs, s, e, t
  <2> QED BY <1>1, <1>2, <2>2, <2>3, <2>4, <2>5, CatEmpty
<1>6. Nat \subseteq P
  <2> HIDE DEF P
  <2> QED BY <1>4, <1>5, Induction
<1>7. e - s \in Nat /\ s + (e - s) = e
  BY <1>1
<1>8. e - s \in P
  <2> HIDE DEF P
  <2> QED BY <1>6, <1>7
<1> QED BY <1>1, <1>7, <1>8

(* A flattened sequence of at most one piece. *)
LEMMA FlatOne ==
  ASSUME NEW X, NEW s \in Seq(Seq(X)), NEW m \in Nat,
         \A k \in 1..Len(s) : k # m => s[k] = <<>>
  PROVE  FlattenSeq(s) = IF m \in 1..Len(s) THEN s[m] ELSE <<>>
<1>1. PICK f \in [0..Len(s) -> Seq(X)] :
        /\ f[0] = <<>>
        /\ \A k \in 1..Len(s) : f[k] = f[k - 1] \o s[k]
        /\ FlattenSeq(s) = f[Len(s)]
  BY Flat
<1>0. Len(s) \in Nat /\ \A k \in 1..Len(s) : s[k] \in Seq(X)
  OBVIOUS
<1> DEFINE P == {n \in Nat : n <= Len(s) => f[n] = IF m \in 1..n THEN s[m] ELSE <<>>}
<1>2. 0 \in P
  BY <1>1
<1>3. ASSUME NEW n \in Nat, n \in P PROVE n + 1 \in P
  <2>1. SUFFICES ASSUME n + 1 <= Len(s) PROVE f[n + 1] = IF m \in 1..(n + 1) THEN s[m] ELSE <<>>
    OBVIOUS
  <2>2. n + 1 \in 1..Len(s) /\ (n + 1) - 1 = n /\ n <= Len(s) /\ n \in 0..Len(s)
    BY <1>0, <2>1
  <2>3. f[n + 1] = Cat(f[n], s[n + 1]) /\ f[n] \in Seq(X) /\ s[n + 1] \in Seq(X)
    BY <1>0, <1>1, <2>2 DEF Cat
  <2>4. CASE m = n + 1
    <3>1. f[n] = <<>>
      BY <1>3, <2>2, <2>4
    <3> QED BY <2>3, <2>4, <3>1, CatEmpty
  <2>5. CASE m # n + 1
    <3>1. s[n + 1] = <<>>
      BY <2>2, <2>5
    <3>2. f[n + 1] = f[n]
      BY <2>3, <3>1, CatEmpty
    <3> QED BY <1>3, <2>2, <2>5, <3>2
  <2> QED BY <2>4, <2>5
<1>4. Nat \subseteq P
  <2> HIDE DEF P
  <2> QED BY <1>2, <1>3, Induction
<1>5. Len(s) \in P
  <2> HIDE DEF P
  <2> QED BY <1>0, <1>4
<1> QED BY <1>0, <1>1, <1>5

(* The facts about rows, for lines.                                         *)
LEMMA LineRows ==
  \A N \in Nat : \A g \in [0..N -> Seq(Line)] : \A from \in 0..N :
    /\ Joined(g, from, from) = <<>>
    /\ \A to \in from..N :
         /\ Joined(g, from, to) \in Seq(Line)
         /\ to < N => Joined(g, from, to + 1) = Cat(Joined(g, from, to), g[to])
BY ONLY Rows, Zenon

(* render() is the text its changes make. *)
LEMMA RenderIsText ==
  ASSUME NEW b \in Seq(Line), NEW q \in Seq(Edits(b)),
         \A k, l \in 1..Len(q) : q[k].start = q[l].start => k = l,
         NEW from \in 0..Len(b), NEW to \in from..Len(b)
  PROVE  Render(b, q, from, to) = Text(b, Range(q), from, to)
<1> DEFINE N == Len(b)
           cs == Range(q)
           Starting(p) == FlattenSeq([n \in DOMAIN q |->
                            IF q[n].start = p THEN q[n].lines ELSE <<>>])
           Covered(p) == \E n \in DOMAIN q : q[n].start <= p /\ p < q[n].end
           At(p) == IF p < to /\ ~Covered(p) THEN <<b[p + 1]>> ELSE <<>>
<1>0. N \in Nat /\ DOMAIN q = 1..Len(q) /\ cs \in SUBSET Edits(b) /\ Len(q) \in Nat
      /\ cs = {q[k] : k \in 1..Len(q)} /\ \A k \in 1..Len(q) : q[k] \in Edits(b)
  BY DEF Range
<1>1. ASSUME NEW p \in 0..N PROVE Starting(p) = Written(cs, p)
  <2> DEFINE s == [n \in DOMAIN q |-> IF q[n].start = p THEN q[n].lines ELSE <<>>]
  <2>1. s \in Seq(Seq(Line)) /\ Len(s) = Len(q)
    <3>1. \A n \in DOMAIN q : q[n].lines \in Seq(Line)
      BY <1>0, EditFields
    <3>2. <<>> \in Seq(Line)
      OBVIOUS
    <3>3. s \in [1..Len(q) -> Seq(Line)]
      BY <1>0, <3>1, <3>2
    <3> QED BY <1>0, <3>3
  <2>2. CASE \E n \in DOMAIN q : q[n].start = p
    <3>1. PICK n \in DOMAIN q : q[n].start = p
      BY <2>2
    <3>2. FlattenSeq(s) = s[n]
      <4>1. \A k \in 1..Len(s) : k # n => s[k] = <<>>
        BY <1>0, <2>1, <3>1
      <4>2. n \in Nat /\ n \in 1..Len(s)
        BY <1>0, <2>1, <3>1
      <4> HIDE DEF s
      <4> QED BY <2>1, <4>1, <4>2, FlatOne
    <3>3. Written(cs, p) = q[n].lines
      <4>1. q[n] \in cs /\ \A d \in cs : d.start = q[n].start => d = q[n]
        BY <1>0
      <4> HIDE DEF cs
      <4> QED BY <3>1, <4>1, WrittenOne
    <3> QED BY <3>1, <3>2, <3>3
  <2>3. CASE ~ \E n \in DOMAIN q : q[n].start = p
    <3>1. FlattenSeq(s) = <<>>
      <4>1. \A k \in 1..Len(s) : s[k] = <<>>
        BY <1>0, <2>1, <2>3
      <4> HIDE DEF s
      <4> QED BY <2>1, <4>1, FlatOne, 0 \in Nat, 0 \notin 1..Len(s)
    <3>2. Written(cs, p) = <<>>
      <4>1. \A c \in cs : c.start # p
        BY <1>0, <2>3
      <4> QED BY <4>1, WrittenNone
    <3> QED BY <3>1, <3>2
  <2> QED BY <2>2, <2>3
<1>2. ASSUME NEW p \in 0..N, p < to PROVE At(p) = Standing(b, cs, p)
  BY <1>0, <1>2 DEF Standing
<1> DEFINE row(p) == Cat(Starting(p), At(p))
           g == [p \in 0..(N + 1) |-> IF p <= to THEN row(p) ELSE <<>>]
<1>3. to \in 0..N /\ from \in 0..(N + 1) /\ to \in from..(N + 1) /\ to < N + 1 /\ to + 1 \in from..(N + 1)
  BY <1>0
<1>4. ASSUME NEW p \in 0..N PROVE Starting(p) \in Seq(Line) /\ At(p) \in Seq(Line)
  <2>1. Starting(p) \in Seq(Line)
    <3>1. Written(cs, p) \in Seq(Line)
      <4> HIDE DEF cs
      <4> QED BY <1>0, WrittenType
    <3> HIDE DEF Starting, cs
    <3> QED BY <1>1, <3>1
  <2>2. At(p) \in Seq(Line)
    <3>1. p < to => b[p + 1] \in Line
      BY <1>3
    <3>2. <<>> \in Seq(Line) /\ (p < to => <<b[p + 1]>> \in Seq(Line))
      BY <3>1
    <3> QED BY <3>2
  <2> QED BY <2>1, <2>2
<1> HIDE DEF Starting, At
<1>5. g \in [0..(N + 1) -> Seq(Line)]
  <2>1. \A p \in 0..N : row(p) \in Seq(Line)
    BY <1>4, CatType
  <2>2. <<>> \in Seq(Line)
    OBVIOUS
  <2> HIDE DEF row
  <2>3. \A p \in 0..(N + 1) : p <= to => p \in 0..N
    BY <1>0, <1>3
  <2> QED BY <2>1, <2>2, <2>3
<1>6. Render(b, q, from, to) = Joined(g, from, to + 1)
  <2>1. (to + 1) - from = to - from + 1
    OBVIOUS
  <2>2. \A k \in 1..(to - from + 1) : g[from + k - 1] = row(from + k - 1)
    <3> HIDE DEF row
    <3> QED BY <1>3
  <2>3. [k \in 1..(to - from + 1) |-> g[from + k - 1]]
          = [k \in 1..(to - from + 1) |-> Starting(from + k - 1) \o At(from + k - 1)]
    <3> HIDE DEF g
    <3> QED BY <2>2 DEF Cat
  <2> HIDE DEF g
  <2>4. Render(b, q, from, to)
          = FlattenSeq([k \in 1..(to - from + 1) |-> Starting(from + k - 1) \o At(from + k - 1)])
    BY Zenon DEF Render, Starting, At
  <2> QED BY <2>1, <2>3, <2>4 DEF Joined
<1>7. Joined(g, from, to + 1) = Cat(Joined(g, from, to), g[to])
  <2> HIDE DEF g
  <2>1. PICK Z : Z = N + 1
    OBVIOUS
  <2>2. Z \in Nat /\ from \in 0..Z /\ to \in from..Z /\ to < Z
    BY <1>0, <1>3, <2>1
  <2>3. g \in [0..Z -> Seq(Line)]
    BY <1>5, <2>1
  <2>4. /\ Joined(g, from, from) = <<>>
        /\ \A t \in from..Z :
             /\ Joined(g, from, t) \in Seq(Line)
             /\ t < Z => Joined(g, from, t + 1) = Cat(Joined(g, from, t), g[t])
    BY ONLY <2>2, <2>3, LineRows, Zenon
  <2> QED BY <2>2, <2>4
<1>8. g[to] = Written(cs, to)
  <2>1. At(to) = <<>>
    BY DEF At
  <2>2. g[to] = row(to)
    <3> HIDE DEF row
    <3> QED BY <1>3
  <2> QED BY <1>1, <1>3, <1>4, <2>1, <2>2, CatEmpty
<1>9. Text(b, cs, from, to) = Cat(Joined(g, from, to), Written(cs, to))
  <2>1. \A k \in 1..(to - from) : g[from + k - 1] = row(from + k - 1)
    <3> HIDE DEF row
    <3> QED BY <1>3
  <2>2. \A k \in 1..(to - from) : row(from + k - 1) = Written(cs, from + k - 1) \o Standing(b, cs, from + k - 1)
    <3>1. \A k \in 1..(to - from) : from + k - 1 \in 0..N /\ from + k - 1 < to
      BY <1>0
    <3> QED BY <1>1, <1>2, <3>1 DEF Cat
  <2>3. [k \in 1..(to - from) |-> g[from + k - 1]]
          = [k \in 1..(to - from) |-> Written(cs, from + k - 1) \o Standing(b, cs, from + k - 1)]
    <3> HIDE DEF g, row
    <3> QED BY <2>1, <2>2
  <2> HIDE DEF g
  <2> QED BY <2>3 DEF Text, Joined, Cat
<1> QED BY <1>6, <1>7, <1>8, <1>9

-----------------------------------------------------------------------------
(* What changes() makes of an edit script.                                  *)

(* Changes of one side leave at least a line of the base between them. *)
Ordered(cs) == \A k, l \in DOMAIN cs : k < l => cs[k].end < cs[l].start

(* Two changes of one side: numbers, and a base line between them.          *)
LEMMA Gap ==
  ASSUME NEW b \in Seq(Line), NEW cs \in Seq(Edits(b)), Ordered(cs),
         NEW k \in 1..Len(cs), NEW l \in 1..Len(cs), k < l
  PROVE  /\ cs[k] \in Edits(b) /\ cs[l] \in Edits(b)
         /\ cs[k].start \in Nat /\ cs[k].end \in Nat /\ cs[l].start \in Nat /\ cs[l].end \in Nat
         /\ cs[k].start <= cs[k].end /\ cs[l].start <= cs[l].end
         /\ cs[k].end < cs[l].start /\ cs[k].start < cs[l].start
<1>1. cs[k] \in Edits(b) /\ cs[l] \in Edits(b) /\ DOMAIN cs = 1..Len(cs)
  OBVIOUS
<1>2. /\ cs[k].start \in Nat /\ cs[k].end \in Nat /\ cs[k].start <= cs[k].end
      /\ cs[l].start \in Nat /\ cs[l].end \in Nat /\ cs[l].start <= cs[l].end
  BY <1>1, EditFields
<1>3. cs[k].end < cs[l].start
  BY <1>1 DEF Ordered
<1>4. cs[k].start < cs[l].start
  BY <1>2, <1>3
<1> QED BY <1>1, <1>2, <1>3, <1>4

(* sort_by_key() leaves the changes of a script as they are: the cursor     *)
(* puts them in order.                                                      *)
LEMMA SortedSame ==
  ASSUME NEW b \in Seq(Line), NEW cs \in Seq(Edits(b)), Ordered(cs)
  PROVE  Sorted(cs) = cs
<1> DEFINE Ahead(k) == {l \in DOMAIN cs :
                          Earlier(cs[l], cs[k]) \/ (~Earlier(cs[k], cs[l]) /\ l < k)}
<1>0. DOMAIN cs = 1..Len(cs) /\ Len(cs) \in Nat
      /\ \A k \in 1..Len(cs) : /\ cs[k].start \in Nat /\ cs[k].end \in Nat
                               /\ cs[k].start <= cs[k].end
  <2>1. DOMAIN cs = 1..Len(cs) /\ Len(cs) \in Nat /\ \A k \in 1..Len(cs) : cs[k] \in Edits(b)
    OBVIOUS
  <2> QED BY <2>1, EditFields
<1>1. ASSUME NEW k \in 1..Len(cs) PROVE Ahead(k) = 1..(k - 1)
  <2>1. ASSUME NEW l \in 1..Len(cs), l < k PROVE Earlier(cs[l], cs[k])
    <3>1. cs[l].start < cs[k].start
      BY <2>1, Gap
    <3> QED BY <3>1 DEF Earlier
  <2>2. ASSUME NEW l \in 1..Len(cs), k < l PROVE Earlier(cs[k], cs[l]) /\ ~Earlier(cs[l], cs[k])
    <3>1. cs[k].start < cs[l].start /\ cs[k].start \in Nat /\ cs[l].start \in Nat
      BY <2>2, Gap
    <3> QED BY <3>1 DEF Earlier
  <2>3. ~Earlier(cs[k], cs[k])
    BY <1>0 DEF Earlier
  <2> QED BY <1>0, <2>1, <2>2, <2>3
<1>2. ASSUME NEW k \in 1..Len(cs) PROVE Cardinality(Ahead(k)) = k - 1
  <2>1. Cardinality(1..(k - 1)) = k - 1
    <3>1. 1 \in Int /\ k - 1 \in Int /\ (IF 1 > k - 1 THEN 0 ELSE (k - 1) - 1 + 1) = k - 1
      BY <1>0
    <3> QED BY <3>1, FS_Interval
  <2> QED BY <1>1, <2>1
<1> HIDE DEF Ahead
<1>3. ASSUME NEW n \in 1..Len(cs)
      PROVE  (CHOOSE k \in DOMAIN cs : Cardinality(Ahead(k)) = n - 1) = n
  <2>1. \A k \in DOMAIN cs : Cardinality(Ahead(k)) = n - 1 <=> k = n
    BY <1>0, <1>2
  <2> QED BY <1>0, <2>1
<1>4. Sorted(cs) = [n \in DOMAIN cs |-> cs[CHOOSE k \in DOMAIN cs : Cardinality(Ahead(k)) = n - 1]]
  BY Zenon DEF Sorted, Ahead
<1>5. \A n \in DOMAIN cs : cs[CHOOSE k \in DOMAIN cs : Cardinality(Ahead(k)) = n - 1] = cs[n]
  BY <1>0, <1>3
<1>6. cs = [n \in DOMAIN cs |-> cs[n]]
  OBVIOUS
<1> QED BY <1>4, <1>5, <1>6

(* What one side asks for: changes in order and apart, of a whole text. *)
Side(b, cs) ==
  /\ cs \in Seq(Edits(b)) /\ Ordered(cs)
  /\ WholeText(Text(b, Range(cs), 0, Len(b)))

(* A change behind all others adds the base up to its start, then its       *)
(* lines.                                                                   *)
LEMMA NextChange ==
  ASSUME NEW b \in Seq(Line), NEW D \in SUBSET Edits(b), Separate(D), NEW c \in Edits(b),
         NEW cut \in 0..Len(b), \A d \in D : d.end <= cut, cut <= c.start,
         \A d \in D : d.start # c.start
  PROVE  Text(b, D \cup {c}, 0, c.end)
           = Cat(Cat(Text(b, D, 0, cut), SubSeq(b, cut + 1, c.start)), c.lines)
<1>1. c.start \in Nat /\ c.end \in Nat /\ c.start <= c.end /\ c.end <= Len(b)
  BY EditFields
<1>2. PICK s, e : s = c.start /\ e = c.end
  OBVIOUS
<1>3. PICK K : K = {c}
  OBVIOUS
<1>4. /\ K \in SUBSET Edits(b) /\ Separate(K)
      /\ \A d \in D, x \in K : d.start # x.start
      /\ \A x \in K : s <= x.start
  BY <1>1, <1>2, <1>3 DEF Separate
<1>5. s \in cut..Len(b) /\ e \in s..Len(b)
  BY <1>1, <1>2
<1>6. Text(b, D \cup K, 0, e) = Cat(Cat(Text(b, D, 0, cut), SubSeq(b, cut + 1, s)), Text(b, K, s, e))
  BY <1>4, <1>5, Extend
<1>7. Text(b, K, s, e) = c.lines
  BY <1>2, <1>3, OneChange
<1> QED BY <1>2, <1>3, <1>6, <1>7

(* What changes() makes of an edit script is in order and apart, and made   *)
(* on the base it is what the script makes.                                 *)
LEMMA Scripted ==
  ASSUME NEW b \in Base, NEW hunks \in Scripts(b)
  PROVE  /\ Side(b, Changes(hunks)) /\ InOrder(Changes(hunks))
         /\ Applied(b, hunks) = Text(b, Range(Changes(hunks)), 0, Len(b))
         /\ Changes(hunks) = [k \in DOMAIN hunks |-> Change(hunks[k], Cursor(hunks, k))]
<1> DEFINE N == Len(b)
<1>0. b \in Seq(Line) /\ N \in Nat
  BY BaseAssumption
<1>1. PICK n \in 0..MaxHunks : hunks \in [1..n -> Hunk(b)]
  BY DEF Scripts
<1>2. n \in Nat /\ DOMAIN hunks = 1..n /\ IsScript(b, hunks)
  BY <1>1, BoundAssumption DEF Scripts
<1>3. ASSUME NEW k \in 1..n
      PROVE  /\ hunks[k].skip \in Nat /\ hunks[k].old \in Nat /\ hunks[k].new \in Seq(Line)
             /\ hunks[k].old = 0 => hunks[k].new # <<>>
             /\ k > 1 => hunks[k].skip > 0
  <2>1. hunks[k] \in Hunk(b)
    BY <1>1
  <2>2. k > 1 => hunks[k].skip > 0
    BY <1>2 DEF IsScript
  <2> QED BY <2>1, <2>2, <1>0, BoundAssumption DEF Hunk
<1> DEFINE v == Spans(hunks)
<1>4. v \in Seq(Nat) /\ Len(v) = n /\ \A k \in 1..n : v[k] = hunks[k].skip + hunks[k].old
  <2>1. v \in [1..n -> Nat]
    BY <1>2, <1>3 DEF Spans
  <2> QED BY <1>2, <2>1 DEF Spans
<1> HIDE DEF v
<1>5. PICK f \in [0..n -> Nat] :
        /\ f[0] = 0
        /\ \A k \in 1..n : f[k] = f[k - 1] + v[k]
        /\ \A k \in 0..n : SumOf(SubSeq(v, 1, k)) = f[k]
  BY <1>4, PrefixSums
<1>6. SumOf(v) = f[n] /\ f[n] <= N
  <2>1. SubSeq(v, 1, n) = v
    BY <1>4
  <2>2. n \in 0..n
    BY <1>2
  <2> QED BY <1>2, <1>5, <2>1, <2>2 DEF IsScript, v
<1>7. ASSUME NEW k \in 1..n
      PROVE  k - 1 \in 0..n /\ k \in 0..n /\ f[k - 1] \in Nat /\ f[k] \in Nat
             /\ f[k] = f[k - 1] + hunks[k].skip + hunks[k].old
             /\ Cursor(hunks, k) = f[k - 1] + hunks[k].skip
  <2>1. k - 1 \in 0..n /\ k \in 0..n
    BY <1>2
  <2>2. f[k - 1] \in Nat /\ f[k] \in Nat /\ f[k] = f[k - 1] + v[k]
    BY <1>5, <2>1
  <2>3. SumOf(SubSeq(v, 1, k - 1)) = f[k - 1]
    BY <1>5, <2>1
  <2>4. Cursor(hunks, k) = f[k - 1] + hunks[k].skip
    BY <2>3 DEF Cursor, v
  <2>5. v[k] = hunks[k].skip + hunks[k].old /\ hunks[k].skip \in Nat /\ hunks[k].old \in Nat
    BY <1>3, <1>4
  <2> QED BY <2>1, <2>2, <2>4, <2>5
<1> HIDE DEF N
(* The cursor never moves back. *)
<1>8. \A k \in 0..n, l \in 0..n : k <= l => f[k] <= f[l]
  <2> DEFINE P == {m \in Nat : \A k \in 0..n : k + m <= n => f[k] <= f[k + m]}
  <2>0. \A k \in 0..n : f[k] \in Nat
    BY <1>5
  <2>1. 0 \in P
    BY <2>0
  <2>2. ASSUME NEW m \in Nat, m \in P PROVE m + 1 \in P
    <3>1. SUFFICES ASSUME NEW k \in 0..n, k + (m + 1) <= n PROVE f[k] <= f[k + (m + 1)]
      OBVIOUS
    <3>2. k + m \in 0..n /\ k + (m + 1) \in 1..n /\ (k + (m + 1)) - 1 = k + m /\ k + m <= n /\ k + (m + 1) \in 0..n
      BY <1>2, <3>1
    <3>3. f[k] <= f[k + m]
      BY <2>2, <3>2
    <3> DEFINE t == k + (m + 1)
    <3>4. f[t] = f[t - 1] + hunks[t].skip + hunks[t].old /\ hunks[t].skip \in Nat /\ hunks[t].old \in Nat
      BY <1>3, <1>7, <3>2
    <3>5. f[t] >= f[k + m] /\ f[t] \in Nat
      <4> HIDE DEF t
      <4>1. t - 1 = k + m /\ f[k + m] \in Nat
        BY <2>0, <3>2 DEF t
      <4> QED BY <3>4, <4>1, SMTT(30)
    <3> QED BY <2>0, <3>2, <3>3, <3>5
  <2>3. Nat \subseteq P
    <3> HIDE DEF P
    <3> QED BY <2>1, <2>2, Induction
  <2>4. SUFFICES ASSUME NEW k \in 0..n, NEW l \in 0..n, k <= l PROVE f[k] <= f[l]
    OBVIOUS
  <2>5. l - k \in Nat /\ k + (l - k) = l /\ l <= n
    BY <1>2, <2>4
  <2>6. l - k \in P
    <3> HIDE DEF P
    <3> QED BY <2>3, <2>5
  <2> QED BY <2>5, <2>6
<1> DEFINE cs == [k \in DOMAIN hunks |-> Change(hunks[k], Cursor(hunks, k))]
<1>9. ASSUME NEW k \in 1..n
      PROVE  /\ cs[k] \in Edits(b)
             /\ cs[k].start = f[k - 1] + hunks[k].skip /\ cs[k].end = f[k] /\ cs[k].lines = hunks[k].new
             /\ cs[k].start <= cs[k].end
  <2>1. cs[k] = [start |-> f[k - 1] + hunks[k].skip, end |-> f[k], lines |-> hunks[k].new]
    BY <1>2, <1>7 DEF Change
  <2>2. f[k] <= N /\ f[k - 1] + hunks[k].skip <= f[k] /\ f[k - 1] + hunks[k].skip \in Nat /\ f[k] \in Nat
        /\ (f[k - 1] + hunks[k].skip = f[k] => hunks[k].old = 0)
    <3>1. f[k] <= f[n] /\ f[n] \in Nat
      BY <1>2, <1>5, <1>7, <1>8
    <3>2. f[k - 1] \in Nat /\ f[k] = f[k - 1] + hunks[k].skip + hunks[k].old
      BY <1>7
    <3>3. hunks[k].skip \in Nat /\ hunks[k].old \in Nat
      BY <1>3
    <3> DEFINE x == f[k - 1]  y == f[k]  z == f[n]  u == hunks[k].skip  w == hunks[k].old
    <3>4. x \in Nat /\ y \in Nat /\ z \in Nat /\ u \in Nat /\ w \in Nat /\ y = x + u + w /\ y <= z /\ z <= N
      BY <1>6, <1>7, <3>1, <3>2, <3>3
    <3> HIDE DEF x, y, z, u, w
    <3>5. y <= N /\ x + u <= y /\ x + u \in Nat /\ y \in Nat /\ (x + u = y => w = 0)
      BY <1>0, <3>4
    <3> QED BY <3>5 DEF x, y, u, w
  <2> HIDE DEF cs
  <2> QED BY <1>0, <1>3, <2>1, <2>2 DEF Edits, N
<1>10. cs \in Seq(Edits(b)) /\ Len(cs) = n /\ DOMAIN cs = 1..n
  <2>1. cs \in [1..n -> Edits(b)]
    <3>1. cs = [k \in 1..n |-> cs[k]]
      BY <1>2
    <3> HIDE DEF cs
    <3> QED BY <1>9, <3>1
  <2> HIDE DEF cs
  <2> QED BY <1>2, <2>1
<1>11. Changes(hunks) = Sorted(cs)
  BY Zenon DEF Changes
<1> HIDE DEF cs
<1>12. Ordered(cs)
  <2> SUFFICES ASSUME NEW k \in 1..n, NEW l \in 1..n, k < l PROVE cs[k].end < cs[l].start
    BY <1>10 DEF Ordered
  <2>1. l > 1 /\ k <= l - 1 /\ k \in 0..n /\ l - 1 \in 0..n
    BY <1>2
  <2>2. f[k] <= f[l - 1] /\ f[k] \in Nat /\ f[l - 1] \in Nat
    BY <1>5, <1>8, <2>1
  <2>3. hunks[l].skip > 0 /\ hunks[l].skip \in Nat
    BY <1>3, <2>1
  <2>4. cs[k].end = f[k]
    BY <1>9
  <2>5. cs[l].start = f[l - 1] + hunks[l].skip
    BY <1>9
  <2> DEFINE x == f[k]  y == f[l - 1]  z == hunks[l].skip
  <2>6. x \in Nat /\ y \in Nat /\ z \in Nat /\ x <= y /\ z > 0 /\ cs[k].end = x /\ cs[l].start = y + z
    BY <2>2, <2>3, <2>4, <2>5
  <2> HIDE DEF x, y, z
  <2> QED BY <2>6
<1>13. Sorted(cs) = cs
  BY <1>0, <1>10, <1>12, SortedSame
<1>14. InOrder(cs)
  <2> SUFFICES ASSUME NEW k \in 1..(n - 1) PROVE cs[k + 1].start >= cs[k].end
    BY <1>10 DEF InOrder
  <2>1. k \in 1..n /\ k + 1 \in 1..n /\ k < k + 1
    BY <1>2
  <2>2. cs[k].end < cs[k + 1].start
    BY <1>10, <1>12, <2>1 DEF Ordered
  <2>3. cs[k] \in Edits(b) /\ cs[k + 1] \in Edits(b)
    BY <1>9, <2>1
  <2>4. cs[k].end \in Nat /\ cs[k + 1].start \in Nat
    BY <1>0, <2>3, EditFields
  <2> QED BY <2>2, <2>4
(* Hunk by hunk, the text applied is the text of the changes so far. *)
<1> DEFINE piece(k) == SubSeq(b, Cursor(hunks, k) - hunks[k].skip + 1, Cursor(hunks, k)) \o hunks[k].new
           pieces == [k \in DOMAIN hunks |-> piece(k)]
           upto(k) == {cs[l] : l \in 1..k}
<1>15. ASSUME NEW k \in 1..n
       PROVE  /\ piece(k) = Cat(SubSeq(b, f[k - 1] + 1, f[k - 1] + hunks[k].skip), hunks[k].new)
              /\ piece(k) \in Seq(Line)
  <2>1. Cursor(hunks, k) - hunks[k].skip = f[k - 1] /\ Cursor(hunks, k) = f[k - 1] + hunks[k].skip
    <3> DEFINE x == f[k - 1]  u == hunks[k].skip  y == Cursor(hunks, k)
    <3>1. x \in Nat /\ u \in Nat /\ y = x + u
      BY <1>3, <1>7
    <3> HIDE DEF x, u, y
    <3>2. y - u = x /\ y = x + u
      BY <3>1
    <3> QED BY <3>2 DEF x, u, y
  <2>2. piece(k) = Cat(SubSeq(b, f[k - 1] + 1, f[k - 1] + hunks[k].skip), hunks[k].new)
    BY <2>1 DEF Cat
  <2>3. SubSeq(b, f[k - 1] + 1, f[k - 1] + hunks[k].skip) \in Seq(Line)
    <3>1. f[k - 1] \in Nat /\ f[k - 1] + hunks[k].skip <= Len(b) /\ hunks[k].skip \in Nat
      <4>1. cs[k] \in Edits(b) /\ cs[k].start = f[k - 1] + hunks[k].skip
        BY <1>9
      <4>2. cs[k].start <= Len(b)
        BY <4>1 DEF Edits
      <4> QED BY <1>3, <1>7, <4>1, <4>2
    <3> QED BY <1>0, <3>1, SMTT(30)
  <2> HIDE DEF piece
  <2> QED BY <1>3, <2>2, <2>3, CatType
<1> HIDE DEF piece
<1>16. pieces \in Seq(Seq(Line)) /\ Len(pieces) = n /\ \A k \in 1..n : pieces[k] = piece(k)
  <2>1. pieces \in [1..n -> Seq(Line)]
    BY <1>2, <1>15
  <2> QED BY <1>2, <2>1
<1> HIDE DEF pieces
<1>17. PICK F \in [0..n -> Seq(Line)] :
         /\ F[0] = <<>>
         /\ \A k \in 1..n : F[k] = F[k - 1] \o pieces[k]
         /\ FlattenSeq(pieces) = F[n]
  BY <1>16, Flat
<1>18. ASSUME NEW k \in 0..n
       PROVE  /\ upto(k) \in SUBSET Edits(b) /\ Separate(upto(k))
              /\ \A c \in upto(k) : c.end <= f[k] /\ f[k] \in 0..Len(b)
              /\ f[k] \in 0..Len(b)
  <2>1. \A l \in 1..k : l \in 1..n
    BY <1>2
  <2>2. upto(k) \in SUBSET Edits(b)
    BY <1>9, <2>1
  <2>3. Separate(upto(k))
    <3> SUFFICES ASSUME NEW l \in 1..k, NEW m \in 1..k, cs[l].start = cs[m].start PROVE cs[l] = cs[m]
      BY DEF Separate
    <3>0. l \in 1..n /\ m \in 1..n
      BY <2>1
    <3>1. cs[l] \in Edits(b) /\ cs[m] \in Edits(b)
      BY <1>9, <3>0
    <3>2. /\ cs[l].start \in Nat /\ cs[l].end \in Nat /\ cs[l].start <= cs[l].end
          /\ cs[m].start \in Nat /\ cs[m].end \in Nat /\ cs[m].start <= cs[m].end
      BY <1>0, <3>1, EditFields
    <3>3. CASE l < m
      <4>1. cs[l].start < cs[m].start
        BY <1>0, <1>10, <1>12, <3>0, <3>3, Gap
      <4> QED BY <3>2, <4>1
    <3>4. CASE m < l
      <4>1. cs[m].start < cs[l].start
        BY <1>0, <1>10, <1>12, <3>0, <3>4, Gap
      <4> QED BY <3>2, <4>1
    <3>5. CASE l = m
      BY <3>5
    <3> QED BY <3>3, <3>4, <3>5
  <2>4. f[k] \in 0..Len(b)
    <3>1. f[k] <= f[n] /\ f[k] \in Nat /\ f[n] \in Nat
      BY <1>2, <1>5, <1>8
    <3> QED BY <1>0, <1>6, <3>1 DEF N
  <2>5. \A l \in 1..k : cs[l].end <= f[k]
    BY <1>2, <1>8, <1>9, <2>1
  <2> QED BY <2>2, <2>3, <2>4, <2>5
<1> DEFINE Q == {k \in Nat : k <= n => F[k] = Text(b, upto(k), 0, f[k])}
<1>19. 0 \in Q
  <2>1. upto(0) = {}
    OBVIOUS
  <2>2. Text(b, {}, 0, 0) = Written({}, 0)
    <3>1. 0 \in 0..Len(b) /\ {} \in SUBSET Edits(b)
      BY <1>0
    <3> QED BY <1>0, <3>1, TextStep
  <2>3. Written({}, 0) = <<>>
    BY WrittenNone
  <2> HIDE DEF upto
  <2> QED BY <1>5, <1>17, <2>1, <2>2, <2>3
<1>20. ASSUME NEW m \in Nat, m \in Q PROVE m + 1 \in Q
  <2> DEFINE k == m + 1  c == cs[k]  D == upto(m)  K == {c}
  <2>1. SUFFICES ASSUME k <= n PROVE F[k] = Text(b, upto(k), 0, f[k])
    OBVIOUS
  <2>2. k \in 1..n /\ m \in 0..n /\ k - 1 = m /\ m <= n /\ k \in 0..n
    BY <1>2, <2>1
  <2>3. F[m] = Text(b, D, 0, f[m])
    BY <1>20, <2>2
  <2>4. c \in Edits(b) /\ c.start = f[m] + hunks[k].skip /\ c.end = f[k] /\ c.lines = hunks[k].new
        /\ c.start <= c.end
    BY <1>9, <2>2
  <2>5. upto(k) = D \cup K
    <3>1. 1..k = (1..m) \cup {k}
      <4>1. \A x : x \in 1..k <=> x \in 1..m \/ x = k
        OBVIOUS
      <4> QED BY <4>1
    <3> QED BY <3>1
  <2>6. F[k] = Cat(F[m], Cat(SubSeq(b, f[m] + 1, c.start), c.lines))
    BY <1>15, <1>16, <1>17, <2>2, <2>4 DEF Cat
  <2>7. D \in SUBSET Edits(b) /\ Separate(D) /\ (\A d \in D : d.end <= f[m]) /\ f[m] \in 0..Len(b)
    BY <1>18, <2>2
  <2>8. (\A d \in D : d.start # c.start) /\ f[m] <= c.start /\ c.start <= Len(b) /\ c.start \in Nat
    <3>1. c.start \in Nat /\ c.end \in Nat /\ c.end <= Len(b)
      BY <1>0, <2>4, EditFields
    <3>2. ASSUME NEW l \in 1..m PROVE cs[l].start # c.start
      <4>1. l \in 1..n /\ l < k
        BY <1>2, <2>2
      <4>2. cs[l].start < c.start /\ cs[l].start \in Nat
        BY <1>0, <1>10, <1>12, <2>2, <4>1, Gap
      <4> QED BY <3>1, <4>2
    <3>3. f[m] \in Nat /\ hunks[k].skip \in Nat
      BY <1>3, <1>5, <2>2
    <3>4. f[m] <= f[m] + hunks[k].skip
      BY <3>3
    <3>5. f[m] <= c.start
      BY <2>4, <3>4
    <3>6. \A d \in D : d.start # c.start
      BY <3>2
    <3> QED BY <2>4, <3>1, <3>5, <3>6
  <2> HIDE DEF D, c, k, upto
  <2>9. Text(b, D \cup K, 0, c.end)
          = Cat(Cat(Text(b, D, 0, f[m]), SubSeq(b, f[m] + 1, c.start)), c.lines)
    BY <1>0, <2>4, <2>7, <2>8, NextChange
  <2> DEFINE A == F[m]  U == SubSeq(b, f[m] + 1, c.start)  W == c.lines
  <2>11. A \in Seq(Line) /\ U \in Seq(Line) /\ W \in Seq(Line)
    <3>1. U \in Seq(Line)
      BY <1>0, <2>7, <2>8, SMTT(30)
    <3> QED BY <1>0, <1>17, <2>2, <2>4, <3>1, EditFields
  <2>12. F[k] = Cat(A, Cat(U, W)) /\ Text(b, upto(k), 0, f[k]) = Cat(Cat(A, U), W)
    BY <2>3, <2>4, <2>5, <2>6, <2>9
  <2> HIDE DEF A, U, W, K
  <2>13. Cat(A, Cat(U, W)) = Cat(Cat(A, U), W)
    BY <2>11, CatAssoc
  <2> QED BY <2>12, <2>13
<1>21. Nat \subseteq Q
  <2> HIDE DEF Q
  <2> QED BY <1>19, <1>20, Induction
<1>22. F[n] = Text(b, Range(cs), 0, f[n])
  <2>1. n \in Q
    <3> HIDE DEF Q
    <3> QED BY <1>2, <1>21
  <2>2. upto(n) = Range(cs)
    BY <1>10 DEF Range
  <2> HIDE DEF upto
  <2> QED BY <1>2, <2>1, <2>2
<1>23. Applied(b, hunks) = Cat(F[n], SubSeq(b, f[n] + 1, N))
  <2>1. Applied(b, hunks) = FlattenSeq(pieces) \o SubSeq(b, SumOf(v) + 1, Len(b))
    BY Zenon DEF Applied, pieces, piece, v
  <2> QED BY <1>6, <1>17, <2>1 DEF Cat, N
<1>24. Text(b, Range(cs), 0, N) = Cat(Text(b, Range(cs), 0, f[n]), SubSeq(b, f[n] + 1, N))
  <2>1. upto(n) = Range(cs)
    BY <1>10 DEF Range
  <2>2. n \in 0..n
    BY <1>2
  <2>3. Range(cs) \in SUBSET Edits(b) /\ Separate(Range(cs)) /\ (\A c \in Range(cs) : c.end <= f[n])
        /\ f[n] \in 0..Len(b)
    BY <1>18, <2>1, <2>2
  <2>4. N \in f[n]..Len(b)
    BY <1>0, <1>6, <2>3 DEF N
  <2> QED BY <1>0, <2>3, <2>4, Keep
<1>25. Applied(b, hunks) = Text(b, Range(cs), 0, Len(b))
  BY <1>22, <1>23, <1>24 DEF N
<1>26. WholeText(Applied(b, hunks))
  BY <1>2 DEF IsScript
<1>27. Side(b, cs)
  BY <1>10, <1>12, <1>25, <1>26 DEF Side
<1>28. Changes(hunks) = cs
  BY <1>11, <1>13
<1>29. Changes(hunks) = [k \in DOMAIN hunks |-> Change(hunks[k], Cursor(hunks, k))]
  BY <1>28, Zenon DEF cs
<1> QED BY <1>14, <1>25, <1>27, <1>28, <1>29

-----------------------------------------------------------------------------
(* Regions, clusters and what a merge takes.                                *)

(* c is over where d begins. *)
Before(c, d) == c.start < d.start /\ c.end <= d.start

(* c stands within the region. *)
Inside(c, region) ==
  /\ region.start <= c.start /\ c.end <= region.end
  /\ c.start < region.end \/ region.start = region.end

(* A region: its end is not before its start.                               *)
IsRegion(c) == c.start \in Nat /\ c.end \in Nat /\ c.start <= c.end

(* The ground of a region has its start, and lies within the region.        *)
LEMMA GroundStart ==
  ASSUME NEW c, IsRegion(c)
  PROVE  c.start \in Ground(c) /\ \A p \in Ground(c) : p \in Nat /\ c.start <= p /\ p <= c.end
BY DEF IsRegion, Ground

(* The ground of a region, an insertion's place included.                   *)
LEMMA GroundIs ==
  ASSUME NEW c, IsRegion(c), NEW p
  PROVE  p \in Ground(c) <=> p \in Nat /\ c.start <= p /\ (p < c.end \/ p = c.start)
BY DEF IsRegion, Ground

(* overlaps() holds of two regions exactly when their grounds meet, and is  *)
(* symmetric.                                                               *)
LEMMA TouchIsOverlap ==
  ASSUME NEW c, NEW d, IsRegion(c), IsRegion(d)
  PROVE  (Touch(c, d) <=> Overlaps(c, d)) /\ (Touch(c, d) <=> Touch(d, c))
<1>1. Touch(c, d) <=> Touch(d, c)
  BY DEF Touch
<1>2. ASSUME Overlaps(c, d) PROVE Touch(c, d)
  <2>1. CASE c.start <= d.start
    <3>1. d.start \in Ground(c) /\ d.start \in Ground(d)
      BY <1>2, <2>1, GroundIs DEF Overlaps, IsRegion
    <3> QED BY <3>1 DEF Touch
  <2>2. CASE d.start < c.start
    <3>1. c.start \in Ground(c) /\ c.start \in Ground(d)
      BY <1>2, <2>2, GroundIs DEF Overlaps, IsRegion
    <3> QED BY <3>1 DEF Touch
  <2> QED BY <2>1, <2>2 DEF IsRegion
<1>3. ASSUME Touch(c, d) PROVE Overlaps(c, d)
  <2>1. PICK p : p \in Ground(c) /\ p \in Ground(d)
    BY <1>3 DEF Touch
  <2>2. p \in Nat /\ c.start <= p /\ (p < c.end \/ p = c.start)
    BY <2>1, GroundIs
  <2>3. d.start <= p /\ (p < d.end \/ p = d.start)
    BY <2>1, GroundIs
  <2> QED BY <2>2, <2>3 DEF Overlaps, IsRegion
<1> QED BY <1>1, <1>2, <1>3

(* What is over where another change begins does not touch it.              *)
LEMMA BeforeApart ==
  ASSUME NEW c, NEW d, IsRegion(c), IsRegion(d), Before(c, d)
  PROVE  ~Touch(c, d) /\ ~Touch(d, c)
<1>1. ~Overlaps(c, d)
  BY DEF Overlaps, IsRegion, Before
<1> QED BY <1>1, TouchIsOverlap

(* What begins in or after a region and does not overlap it begins where it *)
(* is over.                                                                 *)
LEMMA AfterRegion ==
  ASSUME NEW d, NEW env, IsRegion(d), IsRegion(env), env.start <= d.start, ~Overlaps(d, env)
  PROVE  Before(env, d)
BY DEF Overlaps, IsRegion, Before

(* What is inside a region that is over is over too.                        *)
LEMMA InsideBefore ==
  ASSUME NEW c, NEW d, NEW env, IsRegion(c), IsRegion(d), IsRegion(env), Inside(c, env), Before(env, d)
  PROVE  Before(c, d)
BY DEF Inside, IsRegion, Before

(* The hull of a region and a change that overlaps it holds both, and       *)
(* nothing between them.                                                    *)
LEMMA HullOf ==
  ASSUME NEW d, NEW env, IsRegion(d), IsRegion(env), env.start <= d.start, Overlaps(d, env)
  PROVE  /\ IsRegion(Hull(env, d)) /\ Hull(env, d).start = env.start
         /\ Hull(env, d).end = (IF env.end > d.end THEN env.end ELSE d.end)
         /\ Inside(d, Hull(env, d))
         /\ \A c : IsRegion(c) /\ Inside(c, env) => Inside(c, Hull(env, d))
         /\ \A p \in Ground(Hull(env, d)) : p \in Ground(env) \/ p \in Ground(d)
<1> DEFINE h == Hull(env, d)
<1>1. h.start = env.start /\ h.end = (IF env.end > d.end THEN env.end ELSE d.end)
  BY DEF Hull, IsRegion
<1> HIDE DEF h
<1>2. IsRegion(h)
  BY <1>1 DEF IsRegion
<1>3. Inside(d, h)
  BY <1>1 DEF Inside, IsRegion, Overlaps
<1>4. \A c : IsRegion(c) /\ Inside(c, env) => Inside(c, h)
  BY <1>1 DEF Inside, IsRegion, Overlaps
<1>5. ASSUME NEW p \in Ground(h) PROVE p \in Ground(env) \/ p \in Ground(d)
  <2>1. p \in Nat /\ h.start <= p /\ (p < h.end \/ p = h.start)
    BY <1>2, <1>5, GroundIs
  <2>2. (env.start <= p /\ (p < env.end \/ p = env.start)) \/ (d.start <= p /\ (p < d.end \/ p = d.start))
    BY <1>1, <2>1 DEF IsRegion, Overlaps
  <2> QED BY <2>1, <2>2, GroundIs
<1> QED BY <1>1, <1>2, <1>3, <1>4, <1>5 DEF h

(* The changes x + 1 to y of a side. *)
Slice(A, x, y) == {A[k] : k \in (x + 1)..y}

(* The changes of B that touch none of A. *)
ApartFrom(B, A) == {d \in Range(B) : \A c \in Range(A) : ~Touch(c, d)}

(* The changes a merge takes: those of A, and those of B apart from A. *)
Taken(A, B, x, x2, y, y2) == Slice(A, x, x2) \cup (Slice(B, y, y2) \cap ApartFrom(B, A))

(* No change of A before x comes after one of B beyond y. *)
Split(A, B, x, y) == \A k \in 1..x, l \in (y + 1)..Len(B) : Before(A[k], B[l])

(* The cursor is between the changes before x and those after. *)
Parted(A, x, p) ==
  /\ \A k \in 1..x : A[k].end <= p
  /\ \A k \in (x + 1)..Len(A) : p <= A[k].start

(* The changes of a side: regions of the base, each over before the next    *)
(* begins.                                                                  *)
LEMMA SideOf ==
  ASSUME NEW b \in Seq(Line), NEW A, Side(b, A)
  PROVE  /\ A \in Seq(Edits(b)) /\ Len(A) \in Nat /\ DOMAIN A = 1..Len(A) /\ Ordered(A)
         /\ \A k \in 1..Len(A) : A[k] \in Edits(b) /\ IsRegion(A[k]) /\ A[k].end <= Len(b)
         /\ \A k, l \in 1..Len(A) : k < l => A[k].start < A[l].start /\ A[k].end < A[l].start
                                             /\ Before(A[k], A[l])
<1>1. A \in Seq(Edits(b)) /\ Len(A) \in Nat /\ DOMAIN A = 1..Len(A) /\ Ordered(A)
  BY DEF Side
<1>2. ASSUME NEW k \in 1..Len(A) PROVE A[k] \in Edits(b) /\ IsRegion(A[k]) /\ A[k].end <= Len(b)
  <2>1. A[k] \in Edits(b)
    BY <1>1
  <2>2. A[k].start \in Nat /\ A[k].end \in Nat /\ A[k].start <= A[k].end /\ A[k].end <= Len(b)
    BY <2>1, EditFields
  <2> QED BY <2>1, <2>2 DEF IsRegion
<1>3. ASSUME NEW k \in 1..Len(A), NEW l \in 1..Len(A), k < l
      PROVE  A[k].start < A[l].start /\ A[k].end < A[l].start /\ Before(A[k], A[l])
  <2>1. A[k].start < A[l].start /\ A[k].end < A[l].start /\ A[k].end \in Nat /\ A[l].start \in Nat
    BY <1>1, <1>3, Gap
  <2>2. A[k].end <= A[l].start
    BY <2>1
  <2> QED BY <2>1, <2>2 DEF Before
<1> QED BY <1>1, <1>2, <1>3

(* A slice of a side's changes is a set of them, and slices add up.         *)
LEMMA SliceOf ==
  ASSUME NEW b \in Seq(Line), NEW A, Side(b, A), NEW y \in 0..Len(A), NEW x \in 0..y
  PROVE  /\ Slice(A, x, y) \in SUBSET Edits(b) /\ Separate(Slice(A, x, y))
         /\ Slice(A, x, y) \subseteq Range(A)
         /\ Slice(A, 0, y) = Slice(A, 0, x) \cup Slice(A, x, y)
         /\ Range(A) = Slice(A, 0, Len(A))
<1>1. /\ A \in Seq(Edits(b)) /\ Len(A) \in Nat /\ DOMAIN A = 1..Len(A) /\ Ordered(A)
      /\ \A k \in 1..Len(A) : A[k] \in Edits(b) /\ IsRegion(A[k]) /\ A[k].end <= Len(b)
      /\ \A k, l \in 1..Len(A) : k < l => A[k].start < A[l].start /\ A[k].end < A[l].start
                                          /\ Before(A[k], A[l])
  BY SideOf
<1>2. \A k \in (x + 1)..y : k \in 1..Len(A)
  BY <1>1
<1>3. Slice(A, x, y) \in SUBSET Edits(b)
  BY <1>1, <1>2 DEF Slice
<1>4. Separate(Slice(A, x, y))
  <2> SUFFICES ASSUME NEW k \in (x + 1)..y, NEW l \in (x + 1)..y, A[k].start = A[l].start
               PROVE  A[k] = A[l]
    BY DEF Separate, Slice
  <2>0. k \in 1..Len(A) /\ l \in 1..Len(A)
    BY <1>2
  <2>1. IsRegion(A[k]) /\ IsRegion(A[l])
    BY <1>1, <2>0
  <2>2. ~ (k < l) /\ ~ (l < k)
    BY <1>1, <2>0, <2>1 DEF IsRegion
  <2>3. k = l
    BY <2>0, <2>2
  <2> QED BY <2>3
<1>5. Slice(A, x, y) \subseteq Range(A)
  BY <1>1, <1>2 DEF Slice, Range
<1>6. Slice(A, 0, y) = Slice(A, 0, x) \cup Slice(A, x, y)
  <2>1. \A k : k \in (0 + 1)..y <=> k \in (0 + 1)..x \/ k \in (x + 1)..y
    BY <1>1
  <2> QED BY <2>1 DEF Slice
<1>7. Range(A) = Slice(A, 0, Len(A))
  BY <1>1 DEF Slice, Range
<1> QED BY <1>3, <1>4, <1>5, <1>6, <1>7

(* What a merge takes are edits that start apart, and clusters add up.      *)
LEMMA TakenOf ==
  ASSUME NEW b \in Seq(Line), NEW A, NEW B, Side(b, A), Side(b, B),
         NEW x2 \in 0..Len(A), NEW x \in 0..x2, NEW y2 \in 0..Len(B), NEW y \in 0..y2
  PROVE  /\ Taken(A, B, x, x2, y, y2) \in SUBSET Edits(b)
         /\ Separate(Taken(A, B, x, x2, y, y2))
         /\ Taken(A, B, 0, x2, 0, y2) = Taken(A, B, 0, x, 0, y) \cup Taken(A, B, x, x2, y, y2)
<1> DEFINE P == Slice(A, x, x2)  Q == Slice(B, y, y2)  Z == ApartFrom(B, A)
<1>1. /\ P \in SUBSET Edits(b) /\ Separate(P) /\ P \subseteq Range(A)
      /\ Slice(A, 0, x2) = Slice(A, 0, x) \cup P
  BY SliceOf
<1>2. /\ Q \in SUBSET Edits(b) /\ Separate(Q) /\ Q \subseteq Range(B)
      /\ Slice(B, 0, y2) = Slice(B, 0, y) \cup Q
  BY SliceOf
<1>3. ASSUME NEW c \in P, NEW d \in Q \cap Z PROVE c.start # d.start
  <2>1. ~Touch(c, d)
    BY <1>1 DEF ApartFrom
  <2>2. IsRegion(c) /\ IsRegion(d)
    <3>1. c \in Edits(b) /\ d \in Edits(b)
      BY <1>1, <1>2
    <3> HIDE DEF P, Q, Z
    <3> QED BY <3>1, EditFields DEF IsRegion
  <2>3. c.start \in Ground(c) /\ d.start \in Ground(d)
    BY <2>2, GroundStart
  <2> QED BY <2>1, <2>3 DEF Touch
<1>4. Taken(A, B, x, x2, y, y2) = P \cup (Q \cap Z)
  BY DEF Taken
<1>5. Taken(A, B, 0, x2, 0, y2) = Taken(A, B, 0, x, 0, y) \cup (P \cup (Q \cap Z))
  <2> HIDE DEF P, Q, Z
  <2> QED BY <1>1, <1>2 DEF Taken, Z
<1> HIDE DEF P, Q, Z
<1>6. Separate(P \cup (Q \cap Z))
  <2> SUFFICES ASSUME NEW c \in P \cup (Q \cap Z), NEW d \in P \cup (Q \cap Z), c.start = d.start
               PROVE  c = d
    BY DEF Separate
  <2> QED BY <1>1, <1>2, <1>3 DEF Separate
<1> QED BY <1>1, <1>2, <1>4, <1>5, <1>6

(* The next changes of both sides begin where those before are over. *)
LEMMA Advance ==
  ASSUME NEW b \in Seq(Line), NEW A, NEW B, Side(b, A), Side(b, B),
         NEW x2 \in 0..Len(A), NEW x \in 0..x2, NEW y2 \in 0..Len(B), NEW y \in 0..y2,
         Split(A, B, x, y), Split(B, A, y, x),
         NEW p \in 0..Len(b), Parted(A, x, p), Parted(B, y, p),
         NEW s \in p..Len(b), NEW e \in s..Len(b),
         \A c \in Taken(A, B, x, x2, y, y2) : s <= c.start
  PROVE  Text(b, Taken(A, B, 0, x2, 0, y2), 0, e)
           = Cat(Cat(Text(b, Taken(A, B, 0, x, 0, y), 0, p), SubSeq(b, p + 1, s)),
                 Text(b, Taken(A, B, x, x2, y, y2), s, e))
<1> DEFINE D == Taken(A, B, 0, x, 0, y)  K == Taken(A, B, x, x2, y, y2)
<1>0. Len(A) \in Nat /\ Len(B) \in Nat /\ 0 \in 0..x /\ 0 \in 0..y /\ x \in 0..Len(A) /\ y \in 0..Len(B)
      /\ (\A k \in 1..Len(A) : A[k] \in Edits(b) /\ IsRegion(A[k]))
      /\ (\A k \in 1..Len(B) : B[k] \in Edits(b) /\ IsRegion(B[k]))
  <2>1. Len(A) \in Nat /\ \A k \in 1..Len(A) : A[k] \in Edits(b) /\ IsRegion(A[k])
    BY SideOf
  <2>2. Len(B) \in Nat /\ \A k \in 1..Len(B) : B[k] \in Edits(b) /\ IsRegion(B[k])
    BY SideOf
  <2> QED BY <2>1, <2>2
<1>1. K \in SUBSET Edits(b) /\ Separate(K) /\ Taken(A, B, 0, x2, 0, y2) = D \cup K
  BY TakenOf
<1>2. D \in SUBSET Edits(b) /\ Separate(D)
  BY <1>0, TakenOf
<1>3. \A c \in D : (\E k \in 1..x : c = A[k]) \/ (\E k \in 1..y : c = B[k])
  BY DEF Taken, Slice
<1>4. \A c \in K : (\E k \in (x + 1)..x2 : c = A[k]) \/ (\E k \in (y + 1)..y2 : c = B[k])
  BY DEF Taken, Slice
<1>5. \A c \in D : c.end <= p
  BY <1>3 DEF Parted
<1>6. ASSUME NEW c \in D, NEW d \in K PROVE c.start # d.start
  <2>1. \A k \in 1..x, l \in (x + 1)..x2 : k \in 1..Len(A) /\ l \in 1..Len(A) /\ k < l
    BY <1>0
  <2>2. \A k \in 1..y, l \in (y + 1)..y2 : k \in 1..Len(B) /\ l \in 1..Len(B) /\ k < l
    BY <1>0
  <2>3. \A l \in (x + 1)..x2 : l \in (x + 1)..Len(A)
    BY <1>0
  <2>4. \A l \in (y + 1)..y2 : l \in (y + 1)..Len(B)
    BY <1>0
  <2>5. Before(c, d)
    <3>1. CASE \E k \in 1..x : c = A[k]
      <4>1. CASE \E l \in (x + 1)..x2 : d = A[l]
        BY <2>1, <3>1, <4>1, SideOf
      <4>2. CASE \E l \in (y + 1)..y2 : d = B[l]
        BY <2>4, <3>1, <4>2 DEF Split
      <4> QED BY <1>4, <4>1, <4>2
    <3>2. CASE \E k \in 1..y : c = B[k]
      <4>1. CASE \E l \in (x + 1)..x2 : d = A[l]
        BY <2>3, <3>2, <4>1 DEF Split
      <4>2. CASE \E l \in (y + 1)..y2 : d = B[l]
        BY <2>2, <3>2, <4>2, SideOf
      <4> QED BY <1>4, <4>1, <4>2
    <3> QED BY <1>3, <3>1, <3>2
  <2>6. c.start \in Nat /\ d.start \in Nat
    <3>1. c \in Edits(b) /\ d \in Edits(b)
      BY <1>1, <1>2
    <3> HIDE DEF D, K
    <3> QED BY <3>1, EditFields
  <2> QED BY <2>5, <2>6 DEF Before
<1> HIDE DEF D, K
<1>7. \A c \in K : s <= c.start
  BY DEF K
<1>8. Text(b, D \cup K, 0, e) = Cat(Cat(Text(b, D, 0, p), SubSeq(b, p + 1, s)), Text(b, K, s, e))
  BY <1>1, <1>2, <1>5, <1>6, <1>7, Extend
<1> QED BY <1>1, <1>8 DEF D, K

-----------------------------------------------------------------------------
(* Lines that end open.                                                     *)

(* A text is a sequence of lines.                                           *)
LEMMA TextType ==
  ASSUME NEW b \in Seq(Line), NEW cs \in SUBSET Edits(b), NEW from \in 0..Len(b), NEW to \in from..Len(b)
  PROVE  Text(b, cs, from, to) \in Seq(Line)
<1>1. /\ Text(b, cs, from, from) = Written(cs, from)
      /\ \A t \in from..Len(b) :
           /\ Text(b, cs, from, t) \in Seq(Line)
           /\ t < Len(b) => Text(b, cs, from, t + 1) = Cat(Cat(Text(b, cs, from, t), Standing(b, cs, t)), Written(cs, t + 1))
  BY TextStep
<1> QED BY <1>1

(* The text ends with a line that lacks its terminator. *)
Unended(text) == text # <<>> /\ ~text[Len(text)].nl

(* Which texts may be put together. *)
LEMMA WholeCat ==
  ASSUME NEW u \in Seq(Line), NEW w \in Seq(Line)
  PROVE  /\ WholeText(Cat(u, w)) <=> WholeText(u) /\ WholeText(w) /\ (w = <<>> \/ ~Unended(u))
         /\ Unended(Cat(u, w)) <=> IF w = <<>> THEN Unended(u) ELSE Unended(w)
<1> DEFINE t == Cat(u, w)  m == Len(u)  n == Len(w)
<1>1. /\ m \in Nat /\ n \in Nat /\ t \in Seq(Line) /\ Len(t) = m + n
      /\ (\A k \in 1..m : t[k] = u[k]) /\ (\A k \in (m + 1)..(m + n) : t[k] = w[k - m])
  BY ConcatProperties DEF Cat
<1>2. (u = <<>> <=> m = 0) /\ (w = <<>> <=> n = 0) /\ (t = <<>> <=> m + n = 0)
  BY <1>1, EmptySeq
<1> HIDE DEF t, m, n
<1>3. \A k \in 1..n : k + m \in (m + 1)..(m + n) /\ t[k + m] = w[k]
  <2>1. \A k \in 1..n : k + m \in (m + 1)..(m + n) /\ (k + m) - m = k
    BY <1>1
  <2> QED BY <1>1, <2>1
<1>4. Unended(t) <=> IF w = <<>> THEN Unended(u) ELSE Unended(w)
  <2>1. CASE w = <<>>
    <3>1. n = 0 /\ Len(t) = m
      BY <1>1, <1>2, <2>1
    <3>2. m # 0 => t[m] = u[m]
      BY <1>1, SMTT(30)
    <3> QED BY <1>1, <1>2, <2>1, <3>1, <3>2 DEF Unended, m
  <2>2. CASE w # <<>>
    <3>1. n \in 1..n /\ n + m = m + n
      BY <1>1, <1>2, <2>2
    <3>2. t[m + n] = w[n] /\ t # <<>>
      BY <1>1, <1>2, <1>3, <3>1, <2>2
    <3> QED BY <1>1, <2>2, <3>2 DEF Unended, n
  <2> QED BY <2>1, <2>2
<1>5. ASSUME WholeText(t) PROVE WholeText(u) /\ WholeText(w) /\ (w = <<>> \/ ~Unended(u))
  <2>0. \A k \in 1..((m + n) - 1) : t[k].nl
    BY <1>1, <1>5 DEF WholeText
  <2>1. ASSUME NEW k \in 1..(m - 1) PROVE u[k].nl
    <3>1. k \in 1..m /\ k \in 1..((m + n) - 1)
      BY <1>1
    <3> QED BY <1>1, <2>0, <3>1
  <2>2. ASSUME NEW k \in 1..(n - 1) PROVE w[k].nl
    <3>1. k \in 1..n /\ k + m \in 1..((m + n) - 1)
      BY <1>1
    <3> QED BY <1>3, <2>0, <3>1
  <2>3. ASSUME w # <<>>, u # <<>> PROVE u[m].nl
    <3>1. m \in 1..m /\ m \in 1..((m + n) - 1)
      BY <1>1, <1>2, <2>3
    <3> QED BY <1>1, <2>0, <3>1
  <2> QED BY <2>1, <2>2, <2>3 DEF WholeText, Unended, m, n
<1>6. ASSUME WholeText(u), WholeText(w), w = <<>> \/ ~Unended(u) PROVE WholeText(t)
  <2> SUFFICES ASSUME NEW k \in 1..((m + n) - 1) PROVE t[k].nl
    BY <1>1 DEF WholeText
  <2>1. CASE k <= m - 1
    <3>1. k \in 1..(m - 1) /\ k \in 1..m
      BY <1>1, <2>1
    <3>2. u[k].nl
      BY <1>6, <3>1 DEF WholeText, m
    <3> QED BY <1>1, <3>1, <3>2
  <2>2. CASE k = m
    <3>1. n # 0 /\ m # 0 /\ k \in 1..m
      BY <1>1, <2>2
    <3>2. u[m].nl
      BY <1>2, <1>6, <3>1 DEF Unended, m
    <3> QED BY <1>1, <2>2, <3>1, <3>2
  <2>3. CASE k > m
    <3>1. k - m \in 1..(n - 1) /\ k \in (m + 1)..(m + n)
      BY <1>1, <2>3
    <3>2. w[k - m].nl
      BY <1>6, <3>1 DEF WholeText, n
    <3> QED BY <1>1, <3>1, <3>2
  <2> QED BY <1>1, <2>1, <2>2, <2>3
<1> QED BY <1>4, <1>5, <1>6 DEF t

(* Lines of a whole text: only its very last line may be unended. *)
LEMMA SubWhole ==
  ASSUME NEW b \in Seq(Line), WholeText(b), NEW p \in 0..Len(b), NEW s \in p..Len(b)
  PROVE  /\ SubSeq(b, p + 1, s) \in Seq(Line)
         /\ WholeText(SubSeq(b, p + 1, s))
         /\ SubSeq(b, p + 1, s) = <<>> <=> p = s
         /\ Unended(SubSeq(b, p + 1, s)) => s = Len(b)
<1> DEFINE u == SubSeq(b, p + 1, s)
<1>1. u \in Seq(Line) /\ Len(u) = s - p /\ \A k \in 1..(s - p) : u[k] = b[p + k]
  <2>1. p + 1 \in 1..(Len(b) + 1) /\ s \in p..Len(b) /\ p \in Nat /\ s \in Nat /\ Len(b) \in Nat
    OBVIOUS
  <2>2. u \in Seq(Line)
    OBVIOUS
  <2>3. Len(u) = s - p
    OBVIOUS
  <2>4. \A k \in 1..(s - p) : u[k] = b[p + k]
    OBVIOUS
  <2> QED BY <2>2, <2>3, <2>4
<1>2. u = <<>> <=> s - p = 0
  BY <1>1, EmptySeq
<1> HIDE DEF u
<1>0. p \in Nat /\ s \in Nat /\ p <= s /\ s <= Len(b) /\ Len(b) \in Nat
  OBVIOUS
<1>3. WholeText(u)
  <2> SUFFICES ASSUME NEW k \in 1..((s - p) - 1) PROVE u[k].nl
    BY <1>1 DEF WholeText
  <2>1. k \in 1..(s - p) /\ p + k \in 1..(Len(b) - 1)
    BY <1>0
  <2> QED BY <1>1, <2>1 DEF WholeText
<1>4. ASSUME Unended(u), s # Len(b) PROVE FALSE
  <2>1. s - p \in 1..(s - p) /\ p + (s - p) = s
    BY <1>0, <1>2, <1>4 DEF Unended
  <2>2. ~b[s].nl
    BY <1>1, <1>4, <2>1 DEF Unended
  <2>3. s \in 1..(Len(b) - 1)
    BY <1>0, <1>4, <2>1
  <2> QED BY <2>2, <2>3 DEF WholeText
<1>5. p = s <=> s - p = 0
  BY <1>0
<1> QED BY <1>1, <1>2, <1>3, <1>4, <1>5 DEF u

(* A side's own text within a region none of its other changes is in: it is  *)
(* whole, and ends with a line that may be followed unless it ends the note. *)
LEMMA Segment ==
  ASSUME NEW b \in Seq(Line), WholeText(b), NEW A, Side(b, A),
         NEW y \in 0..Len(A), NEW x \in 0..y,
         NEW s \in 0..Len(b), NEW e \in s..Len(b),
         \A k \in 1..x : A[k].end <= s,
         \A k \in (x + 1)..y : s <= A[k].start /\ A[k].end <= e,
         \A k \in (y + 1)..Len(A) : e <= A[k].start
  PROVE  /\ Text(b, Slice(A, x, y), s, e) \in Seq(Line)
         /\ WholeText(Text(b, Slice(A, x, y), s, e))
         /\ e < Len(b) /\ x < y /\ A[y].end = e => ~Unended(Text(b, Slice(A, x, y), s, e))
<1> DEFINE N == Len(b)  D == Slice(A, 0, x)  K == Slice(A, x, y)  R == Slice(A, y, Len(A))
<1>0. N \in Nat /\ Len(A) \in Nat /\ (\A k \in 1..Len(A) : A[k] \in Edits(b) /\ IsRegion(A[k]) /\ A[k].end <= Len(b))
      /\ s \in 0..N /\ e \in 0..N /\ s \in s..N
  BY SideOf
<1>o. \A k, l \in 1..Len(A) : k < l => A[k].start < A[l].start /\ A[k].end < A[l].start
  BY SideOf
<1>1. /\ D \in SUBSET Edits(b) /\ Separate(D)
      /\ K \in SUBSET Edits(b) /\ Separate(K)
      /\ R \in SUBSET Edits(b) /\ Separate(R)
      /\ Slice(A, 0, y) = D \cup K /\ Range(A) = (D \cup K) \cup R /\ Separate(D \cup K)
      /\ D \cup K \in SUBSET Edits(b)
  <2>1. x \in 0..Len(A) /\ 0 \in 0..x /\ y \in 0..Len(A) /\ 0 \in 0..y /\ y \in 0..Len(A) /\ Len(A) \in 0..Len(A)
    BY <1>0
  <2>2. D \in SUBSET Edits(b) /\ Separate(D)
    BY <2>1, SliceOf
  <2>3. K \in SUBSET Edits(b) /\ Separate(K) /\ Slice(A, 0, y) = D \cup K
    BY SliceOf
  <2>4. R \in SUBSET Edits(b) /\ Separate(R) /\ Slice(A, 0, Len(A)) = Slice(A, 0, y) \cup R
        /\ Range(A) = Slice(A, 0, Len(A))
    BY <2>1, SliceOf
  <2>5. Slice(A, 0, y) \in SUBSET Edits(b) /\ Separate(Slice(A, 0, y))
    BY <2>1, SliceOf
  <2> HIDE DEF D, K, R
  <2> QED BY <2>2, <2>3, <2>4, <2>5
<1>2. \A c \in D : \E k \in 1..x : c = A[k]
  BY DEF Slice
<1>3. \A c \in K : \E k \in (x + 1)..y : c = A[k]
  BY DEF Slice
<1>4. \A c \in R : \E k \in (y + 1)..Len(A) : c = A[k]
  BY DEF Slice
<1>5. \A k \in 1..x, l \in (x + 1)..y : k \in 1..Len(A) /\ l \in 1..Len(A) /\ k < l
  BY <1>0
<1>6. \A k \in 1..y, l \in (y + 1)..Len(A) : k \in 1..Len(A) /\ l \in 1..Len(A) /\ k < l
  BY <1>0
<1>n. \A k \in 1..Len(A) : A[k].start \in Nat /\ A[k].end \in Nat
  BY <1>0 DEF IsRegion
<1>7. \A c \in D, d \in K : c.start # d.start
  <2>1. \A k \in 1..x, l \in (x + 1)..y : A[k].start # A[l].start
    BY <1>5, <1>o, <1>n
  <2> HIDE DEF D, K, R
  <2> QED BY <1>2, <1>3, <2>1
<1>8. \A c \in D \cup K, d \in R : c.start # d.start
  <2>1. \A k \in 1..y, l \in (y + 1)..Len(A) : A[k].start # A[l].start
    BY <1>6, <1>o, <1>n
  <2>2. \A c \in D \cup K : \E k \in 1..y : c = A[k]
    BY <1>1 DEF Slice
  <2> HIDE DEF D, K, R
  <2> QED BY <1>4, <2>1, <2>2
<1>9. (\A c \in D : c.end <= s) /\ (\A c \in K : s <= c.start /\ c.end <= e) /\ (\A c \in R : e <= c.start)
  <2> HIDE DEF D, K, R
  <2> QED BY <1>2, <1>3, <1>4
<1>10. \A c \in D \cup K : c.end <= e
  <2>1. \A k \in 1..x : A[k].end <= e
    <3>1. \A k \in 1..x : A[k].end \in Nat
      BY <1>n, <1>0
    <3> QED BY <1>0, <3>1
  <2> HIDE DEF D, K, R
  <2> QED BY <1>2, <1>9, <2>1
<1> DEFINE seg == Text(b, K, s, e)  rest == Text(b, R, e, N)
           before == Cat(Text(b, D, 0, s), SubSeq(b, s + 1, s))
<1> HIDE DEF D, K, R
<1>11. Text(b, D \cup K, 0, e) = Cat(before, seg)
  BY <1>0, <1>1, <1>7, <1>9, Extend
<1>12. Text(b, (D \cup K) \cup R, 0, N)
         = Cat(Cat(Text(b, D \cup K, 0, e), SubSeq(b, e + 1, e)), rest)
  <2>1. e \in e..Len(b) /\ N \in e..Len(b)
    BY <1>0
  <2> QED BY <1>0, <1>1, <1>8, <1>9, <1>10, <2>1, Extend
<1>13. before \in Seq(Line) /\ seg \in Seq(Line) /\ rest \in Seq(Line) /\ SubSeq(b, e + 1, e) = <<>>
  <2>1. Text(b, D, 0, s) \in Seq(Line)
    BY <1>0, <1>1, TextType
  <2>2. seg \in Seq(Line)
    BY <1>0, <1>1, TextType
  <2>3. rest \in Seq(Line)
    <3>1. N \in e..Len(b)
      BY <1>0
    <3> QED BY <1>0, <1>1, <3>1, TextType
  <2>4. SubSeq(b, e + 1, e) = <<>> /\ SubSeq(b, s + 1, s) = <<>> /\ <<>> \in Seq(Line)
    BY SubSeqEmpty
  <2> QED BY <2>1, <2>2, <2>3, <2>4, CatType
<1> DEFINE all == Text(b, Range(A), 0, N)
<1>14. all = Cat(Cat(before, seg), rest) /\ Cat(before, seg) \in Seq(Line) /\ WholeText(all)
  <2>1. WholeText(all)
    BY DEF Side
  <2>2. Cat(before, seg) \in Seq(Line)
    <3> HIDE DEF before, seg
    <3> QED BY <1>13, CatType
  <2>3. all = Cat(Cat(Cat(before, seg), SubSeq(b, e + 1, e)), rest)
    BY <1>1, <1>11, <1>12
  <2> HIDE DEF before, seg, rest, all
  <2> QED BY <1>13, <2>1, <2>2, <2>3, CatEmpty
<1>15. ASSUME e < N, x < y, A[y].end = e PROVE rest # <<>>
  <2>0. e + 1 \in e..N /\ e \in e..N
    BY <1>0, <1>15
  <2>1. \A c \in R : e < c.start
    <3>1. y \in 1..y /\ y \in 1..Len(A)
      BY <1>0, <1>15
    <3>2. \A l \in (y + 1)..Len(A) : e < A[l].start
      BY <1>6, <1>o, <1>15, <3>1
    <3> QED BY <1>4, <3>2
  <2>2. /\ Text(b, R, e, e) = Written(R, e)
        /\ \A t \in e..Len(b) :
              /\ Text(b, R, e, t) \in Seq(Line)
              /\ t < Len(b) => Text(b, R, e, t + 1) = Cat(Cat(Text(b, R, e, t), Standing(b, R, t)), Written(R, t + 1))
    BY <1>0, <1>1, TextStep
  <2>3. \A c \in R : c.start \in Nat /\ c.end \in Nat
    BY <1>1, EditFields
  <2>4. Standing(b, R, e) = <<b[e + 1]>>
    <3>1. ~ \E c \in R : c.start <= e /\ e < c.end
      BY <1>0, <2>1, <2>3
    <3> QED BY <3>1 DEF Standing
  <2>5. Written(R, e) = <<>>
    <3>1. \A c \in R : c.start # e
      BY <1>0, <2>1, <2>3
    <3> QED BY <3>1, WrittenNone
  (* rest begins with the line of the base at e. *)
  <2> DEFINE x0 == <<b[e + 1]>>
             P == {n \in Nat : (e + 1) + n <= N => Text(b, R, e, (e + 1) + n) # <<>>}
  <2>6. x0 \in Seq(Line) /\ x0 # <<>>
    <3>1. b[e + 1] \in Line
      BY <1>0, <1>15
    <3> QED BY <3>1
  <2>c. \A u, w \in Seq(Line) : u # <<>> => Cat(u, w) # <<>>
    <3> SUFFICES ASSUME NEW u \in Seq(Line), NEW w \in Seq(Line), u # <<>> PROVE Cat(u, w) # <<>>
      OBVIOUS
    <3>1. Len(Cat(u, w)) = Len(u) + Len(w) /\ Len(u) \in Nat /\ Len(w) \in Nat /\ Cat(u, w) \in Seq(Line)
      BY ConcatProperties DEF Cat
    <3>2. Len(u) # 0
      BY EmptySeq
    <3> QED BY <3>1, <3>2, EmptySeq
  <2>w. \A p : Written(R, p) \in Seq(Line)
    BY <1>1, WrittenType
  <2>s. \A p \in 0..(N - 1) : Standing(b, R, p) \in Seq(Line)
    BY StandingType
  <2>7. Text(b, R, e, e + 1) # <<>>
    <3>1. Text(b, R, e, e + 1) = Cat(Cat(<<>>, x0), Written(R, e + 1))
      BY <1>15, <2>0, <2>2, <2>4, <2>5
    <3>2. Cat(<<>>, x0) = x0
      <4> HIDE DEF x0
      <4> QED BY <2>6, CatEmpty
    <3> HIDE DEF x0
    <3> QED BY <2>6, <2>c, <2>w, <3>1, <3>2
  <2> HIDE DEF rest, x0, N
  <2>8. 0 \in P
    <3>1. (e + 1) + 0 = e + 1
      BY <1>0
    <3> QED BY <2>7, <3>1
  <2>9. ASSUME NEW n \in Nat, n \in P PROVE n + 1 \in P
    <3> DEFINE t == (e + 1) + n
    <3>1. SUFFICES ASSUME (e + 1) + (n + 1) <= N PROVE Text(b, R, e, t + 1) # <<>>
      <4>1. (e + 1) + (n + 1) = t + 1
        BY <1>0
      <4> QED BY <4>1
    <3>2. t \in e..N /\ t < N /\ t \in 0..(N - 1)
      BY <1>0, <3>1
    <3>3. Text(b, R, e, t) # <<>> /\ Text(b, R, e, t) \in Seq(Line)
      BY <2>2, <2>9, <3>2 DEF N
    <3>4. Text(b, R, e, t + 1) = Cat(Cat(Text(b, R, e, t), Standing(b, R, t)), Written(R, t + 1))
      BY <2>2, <3>2 DEF N
    <3>5. Standing(b, R, t) \in Seq(Line) /\ Written(R, t + 1) \in Seq(Line)
      BY <2>s, <2>w, <3>2
    <3> HIDE DEF t
    <3> QED BY <2>c, <3>3, <3>4, <3>5, CatType
  <2>10. Nat \subseteq P
    <3> HIDE DEF P
    <3> QED BY <2>8, <2>9, Induction
  <2>11. N - (e + 1) \in Nat /\ (e + 1) + (N - (e + 1)) = N
    BY <1>0, <1>15
  <2>12. N - (e + 1) \in P
    <3> HIDE DEF P
    <3> QED BY <2>10, <2>11
  <2>13. Text(b, R, e, N) # <<>>
    BY <1>0, <2>11, <2>12
  <2> QED BY <2>13 DEF rest
<1> HIDE DEF before, seg, rest, all
<1>16. WholeText(Cat(before, seg)) /\ (rest = <<>> \/ ~Unended(Cat(before, seg)))
  BY <1>13, <1>14, WholeCat
<1>17. WholeText(seg) /\ (Unended(Cat(before, seg)) <=> IF seg = <<>> THEN Unended(before) ELSE Unended(seg))
  BY <1>13, <1>16, WholeCat
<1>18. Unended(seg) => seg # <<>>
  BY DEF Unended
<1> QED BY <1>13, <1>15, <1>16, <1>17, <1>18 DEF seg, K, N

-----------------------------------------------------------------------------
(* Clusters.                                                                *)

(* No part of a cluster stands apart from the rest of it. *)
Linked(K, L) ==
  \A K2 \in SUBSET K, L2 \in SUBSET L :
    (\A c \in K2 \cup L2 : /\ \A d \in K \ K2 : ~Touch(c, d)
                           /\ \A d \in L \ L2 : ~Touch(c, d))
      => K2 \cup L2 = {} \/ (K2 = K /\ L2 = L)

(* Linking does not depend on whose changes come first.                     *)
LEMMA LinkedSwap == \A K, L : Linked(K, L) => Linked(L, K)
<1> SUFFICES ASSUME NEW K, NEW L, Linked(K, L) PROVE Linked(L, K)
  OBVIOUS
<1> SUFFICES ASSUME NEW L2 \in SUBSET L, NEW K2 \in SUBSET K,
                    \A c \in L2 \cup K2 : /\ \A d \in L \ L2 : ~Touch(c, d)
                                          /\ \A d \in K \ K2 : ~Touch(c, d)
             PROVE  L2 \cup K2 = {} \/ (L2 = L /\ K2 = K)
  BY DEF Linked
<1>1. K2 \cup L2 = {} \/ (K2 = K /\ L2 = L)
  BY DEF Linked
<1> QED BY <1>1

(* One change alone is linked.                                              *)
LEMMA LinkedSeed == \A c : Linked({c}, {})
<1> SUFFICES ASSUME NEW c, NEW K2 \in SUBSET {c}, NEW L2 \in SUBSET {}
             PROVE  K2 \cup L2 = {} \/ (K2 = {c} /\ L2 = {})
  BY DEF Linked
<1> QED OBVIOUS

(* What touches a linked cluster may join it.                               *)
LEMMA LinkedMore ==
  ASSUME NEW K, NEW L, Linked(K, L), NEW d, d \notin K,
         NEW c \in K \cup L, Touch(c, d)
  PROVE  Linked(K \cup {d}, L)
<1> SUFFICES ASSUME NEW K2 \in SUBSET (K \cup {d}), NEW L2 \in SUBSET L,
                    \A e \in K2 \cup L2 : /\ \A f \in (K \cup {d}) \ K2 : ~Touch(e, f)
                                          /\ \A f \in L \ L2 : ~Touch(e, f)
             PROVE  K2 \cup L2 = {} \/ (K2 = K \cup {d} /\ L2 = L)
  BY DEF Linked
<1>0. Touch(d, c)
  BY DEF Touch
<1>1. K2 \cap K \in SUBSET K
  OBVIOUS
<1>2. \A e \in (K2 \cap K) \cup L2 : /\ \A f \in K \ (K2 \cap K) : ~Touch(e, f)
                                     /\ \A f \in L \ L2 : ~Touch(e, f)
  OBVIOUS
<1>3. (K2 \cap K) \cup L2 = {} \/ (K2 \cap K = K /\ L2 = L)
  <2>1. PICK P : P = K2 \cap K
    OBVIOUS
  <2>2. P \in SUBSET K /\ \A e \in P \cup L2 : /\ \A f \in K \ P : ~Touch(e, f)
                                             /\ \A f \in L \ L2 : ~Touch(e, f)
    BY <1>2, <2>1
  <2>3. P \cup L2 = {} \/ (P = K /\ L2 = L)
    BY <2>2, Zenon DEF Linked
  <2> QED BY <2>1, <2>3
<1>4. CASE (K2 \cap K) \cup L2 = {}
  <2>1. d \notin K2
    BY <1>0, <1>4
  <2> QED BY <1>4, <2>1
<1>5. CASE K2 \cap K = K /\ L2 = L
  <2>1. d \in K2
    BY <1>5
  <2> QED BY <1>5, <2>1
<1> QED BY <1>3, <1>4, <1>5

(* The region holds the changes of a side from x to x2; the next ones do not *)
(* begin before it.                                                          *)
Holds(A, x, x2, env) ==
  /\ \A k \in (x + 1)..x2 : Inside(A[k], env)
  /\ \A k \in (x2 + 1)..Len(A) : env.start <= A[k].start

(* A cluster while it grows: the region is covered by its changes, begins   *)
(* and ends with one of them, and they are linked.                          *)
Grown(A, B, x, x2, y, y2, env) ==
  /\ IsRegion(env) /\ Holds(A, x, x2, env) /\ Holds(B, y, y2, env)
  /\ \A p \in Ground(env) : \E c \in Slice(A, x, x2) \cup Slice(B, y, y2) : p \in Ground(c)
  /\ (x < x2 /\ A[x + 1].start = env.start) \/ (y < y2 /\ B[y + 1].start = env.start)
  /\ (x < x2 /\ A[x2].end = env.end) \/ (y < y2 /\ B[y2].end = env.end)
  /\ Linked(Slice(A, x, x2), Slice(B, y, y2))

(* A growing cluster does not depend on whose changes come first.           *)
LEMMA GrownSwap ==
  ASSUME NEW A, NEW B, NEW x, NEW x2, NEW y, NEW y2, NEW env, Grown(A, B, x, x2, y, y2, env)
  PROVE  Grown(B, A, y, y2, x, x2, env)
<1>1. Linked(Slice(B, y, y2), Slice(A, x, x2))
  BY LinkedSwap DEF Grown
<1>2. Slice(B, y, y2) \cup Slice(A, x, x2) = Slice(A, x, x2) \cup Slice(B, y, y2)
  OBVIOUS
<1> QED BY <1>1, <1>2 DEF Grown

(* The seed of a cluster is its first region. *)
LEMMA Seeded ==
  ASSUME NEW b \in Seq(Line), NEW A, NEW B, Side(b, A), Side(b, B),
         NEW x \in 0..Len(A), NEW y \in 0..Len(B), x < Len(A),
         y < Len(B) => A[x + 1].start <= B[y + 1].start
  PROVE  Grown(A, B, x, x + 1, y, y, Region(A[x + 1]))
<1> DEFINE c == A[x + 1]  env == Region(c)
<1>1. /\ Len(A) \in Nat
      /\ \A k \in 1..Len(A) : IsRegion(A[k])
      /\ \A k, l \in 1..Len(A) : k < l => A[k].start < A[l].start
  BY SideOf
<1>2. /\ Len(B) \in Nat
      /\ \A k \in 1..Len(B) : IsRegion(B[k])
      /\ \A k, l \in 1..Len(B) : k < l => B[k].start < B[l].start
  BY SideOf
<1>3. x + 1 \in 1..Len(A) /\ IsRegion(c)
  BY <1>1
<1>4. IsRegion(env) /\ env.start = c.start /\ env.end = c.end /\ Ground(env) = Ground(c)
  BY <1>3 DEF Region, IsRegion, Ground
<1> HIDE DEF env
<1>5. Inside(c, env)
  BY <1>3, <1>4 DEF Inside, IsRegion
<1>6. Slice(A, x, x + 1) = {c} /\ Slice(B, y, y) = {}
  <2>1. (x + 1)..(x + 1) = {x + 1} /\ (y + 1)..y = {}
    OBVIOUS
  <2> QED BY <2>1 DEF Slice
<1>7. Holds(A, x, x + 1, env)
  <2>1. \A k \in (x + 1)..(x + 1) : Inside(A[k], env)
    BY <1>5
  <2>2. ASSUME NEW k \in ((x + 1) + 1)..Len(A) PROVE env.start <= A[k].start
    <3>1. k \in 1..Len(A) /\ x + 1 < k
      BY <1>1
    <3>2. c.start < A[k].start /\ A[k].start \in Nat /\ c.start \in Nat
      BY <1>1, <1>3, <3>1 DEF IsRegion
    <3> QED BY <1>4, <3>2
  <2> QED BY <2>1, <2>2 DEF Holds
<1>8. Holds(B, y, y, env)
  <2>1. \A k \in (y + 1)..y : Inside(B[k], env)
    OBVIOUS
  <2>2. ASSUME NEW k \in (y + 1)..Len(B) PROVE env.start <= B[k].start
    <3>1. y + 1 \in 1..Len(B) /\ k \in 1..Len(B) /\ y < Len(B)
      BY <1>2
    <3>2. B[y + 1].start \in Nat /\ B[k].start \in Nat
      BY <1>2, <3>1 DEF IsRegion
    <3>3. B[y + 1].start <= B[k].start
      <4>1. CASE k = y + 1
        BY <3>2, <4>1
      <4>2. CASE k # y + 1
        BY <1>2, <3>1, <3>2, <4>2, SMTT(30)
      <4> QED BY <4>1, <4>2
    <3>4. env.start <= B[y + 1].start /\ env.start \in Nat
      BY <1>4, <3>1 DEF IsRegion
    <3> QED BY <3>2, <3>3, <3>4, SMTT(30)
  <2> QED BY <2>1, <2>2 DEF Holds
<1>9. Linked({c}, {})
  BY LinkedSeed
<1>10. x < x + 1
  OBVIOUS
<1> HIDE DEF c
<1>11. \A p \in Ground(env) : \E d \in {c} \cup {} : p \in Ground(d)
  BY <1>4
<1>12. (x < x + 1 /\ A[x + 1].start = env.start) /\ (x < x + 1 /\ A[x + 1].end = env.end)
  BY <1>4, <1>10 DEF c
<1>13. Grown(A, B, x, x + 1, y, y, env)
  BY <1>4, <1>6, <1>7, <1>8, <1>9, <1>11, <1>12 DEF Grown
<1> QED BY <1>13 DEF env, c

(* A change that overlaps the region joins the cluster. *)
LEMMA Joins ==
  ASSUME NEW b \in Seq(Line), NEW A, NEW B, Side(b, A), Side(b, B),
         NEW x2 \in 0..Len(A), NEW x \in 0..x2, NEW y2 \in 0..Len(B), NEW y \in 0..y2,
         NEW env, Grown(A, B, x, x2, y, y2, env), x2 < Len(A), Overlaps(A[x2 + 1], env)
  PROVE  /\ Grown(A, B, x, x2 + 1, y, y2, Hull(env, A[x2 + 1]))
         /\ Hull(env, A[x2 + 1]).start = env.start
         /\ env.end <= Len(b) => Hull(env, A[x2 + 1]).end <= Len(b)
<1> DEFINE d == A[x2 + 1]  h == Hull(env, d)
<1>1. /\ Len(A) \in Nat
      /\ \A k \in 1..Len(A) : IsRegion(A[k]) /\ A[k].end <= Len(b)
      /\ \A k, l \in 1..Len(A) : k < l => A[k].start < A[l].start /\ A[k].end < A[l].start
                                          /\ Before(A[k], A[l])
  BY SideOf
<1>2. /\ Len(B) \in Nat
      /\ \A k \in 1..Len(B) : IsRegion(B[k])
  BY SideOf
<1>3. x2 + 1 \in 1..Len(A) /\ IsRegion(d) /\ IsRegion(env) /\ d.end <= Len(b)
  BY <1>1 DEF Grown
<1>4. env.start <= d.start
  <2>1. x2 + 1 \in (x2 + 1)..Len(A)
    BY <1>1
  <2> QED BY <2>1 DEF Grown, Holds
<1>5. /\ IsRegion(h) /\ h.start = env.start
      /\ h.end = (IF env.end > d.end THEN env.end ELSE d.end)
      /\ Inside(d, h)
      /\ \A c : IsRegion(c) /\ Inside(c, env) => Inside(c, h)
      /\ \A p \in Ground(h) : p \in Ground(env) \/ p \in Ground(d)
  BY <1>3, <1>4, HullOf
<1>6. Slice(A, x, x2 + 1) = Slice(A, x, x2) \cup {d}
  <2>1. \A k : k \in (x + 1)..(x2 + 1) <=> k \in (x + 1)..x2 \/ k = x2 + 1
    OBVIOUS
  <2> QED BY <2>1 DEF Slice
<1>7. PICK q \in Slice(A, x, x2) \cup Slice(B, y, y2) : Touch(q, d)
  <2>1. Touch(d, env)
    BY <1>3, TouchIsOverlap
  <2>2. PICK p : p \in Ground(d) /\ p \in Ground(env)
    BY <2>1 DEF Touch
  <2>3. PICK q \in Slice(A, x, x2) \cup Slice(B, y, y2) : p \in Ground(q)
    BY <2>2 DEF Grown
  <2> QED BY <2>2, <2>3 DEF Touch
<1>8. d \notin Slice(A, x, x2)
  <2>1. ASSUME NEW k \in (x + 1)..x2 PROVE A[k] # d
    <3>1. k \in 1..Len(A) /\ k < x2 + 1
      BY <1>1
    <3>2. A[k].start < d.start /\ d.start \in Nat
      BY <1>1, <1>3, <3>1 DEF IsRegion
    <3> QED BY <3>2
  <2> QED BY <2>1 DEF Slice
<1> HIDE DEF d, h
<1>9. Linked(Slice(A, x, x2 + 1), Slice(B, y, y2))
  <2>1. Linked(Slice(A, x, x2) \cup {d}, Slice(B, y, y2))
    <3>1. Linked(Slice(A, x, x2), Slice(B, y, y2))
      BY DEF Grown
    <3> QED BY <1>7, <1>8, <3>1, LinkedMore
  <2> QED BY <1>6, <2>1
<1>10. Holds(A, x, x2 + 1, h)
  <2>1. ASSUME NEW k \in (x + 1)..(x2 + 1) PROVE Inside(A[k], h)
    <3>1. CASE k = x2 + 1
      BY <1>5, <3>1 DEF d
    <3>2. CASE k # x2 + 1
      <4>1. k \in (x + 1)..x2 /\ k \in 1..Len(A)
        BY <1>1, <3>2
      <4> QED BY <1>1, <1>5, <4>1 DEF Grown, Holds
    <3> QED BY <3>1, <3>2
  <2>2. ASSUME NEW k \in ((x2 + 1) + 1)..Len(A) PROVE h.start <= A[k].start
    <3>1. k \in (x2 + 1)..Len(A)
      BY <1>1
    <3> QED BY <1>5, <3>1 DEF Grown, Holds
  <2> QED BY <2>1, <2>2 DEF Holds
<1>11. Holds(B, y, y2, h)
  <2>1. ASSUME NEW k \in (y + 1)..y2 PROVE Inside(B[k], h)
    <3>1. k \in 1..Len(B)
      BY <1>2
    <3> QED BY <1>2, <1>5, <3>1 DEF Grown, Holds
  <2>2. \A k \in (y2 + 1)..Len(B) : h.start <= B[k].start
    BY <1>5 DEF Grown, Holds
  <2> QED BY <2>1, <2>2 DEF Holds
<1>12. \A p \in Ground(h) : \E c \in Slice(A, x, x2 + 1) \cup Slice(B, y, y2) : p \in Ground(c)
  BY <1>5, <1>6 DEF Grown
<1>13. (x < x2 + 1 /\ A[x + 1].start = h.start) \/ (y < y2 /\ B[y + 1].start = h.start)
  <2>1. x < x2 => x < x2 + 1
    OBVIOUS
  <2> QED BY <1>5, <2>1 DEF Grown
<1>14. (x < x2 + 1 /\ A[x2 + 1].end = h.end) \/ (y < y2 /\ B[y2].end = h.end)
  <2>1. CASE env.end > d.end
    <3>1. h.end = env.end
      BY <1>5, <2>1
    <3>2. ~ (x < x2 /\ A[x2].end = env.end)
      <4>1. SUFFICES ASSUME x < x2, A[x2].end = env.end PROVE FALSE
        OBVIOUS
      <4>2. x2 \in 1..Len(A) /\ x2 < x2 + 1
        BY <4>1
      <4>3. A[x2].end < d.start
        BY <1>1, <1>3, <4>2 DEF d
      <4>4. d.start <= d.end /\ d.start \in Nat /\ d.end \in Nat /\ env.end \in Nat
        BY <1>3 DEF IsRegion
      <4> QED BY <2>1, <4>1, <4>3, <4>4
    <3> QED BY <3>1, <3>2 DEF Grown
  <2>2. CASE ~ (env.end > d.end)
    <3>1. h.end = d.end /\ x < x2 + 1
      BY <1>5, <2>2
    <3> QED BY <3>1 DEF d
  <2> QED BY <2>1, <2>2
<1>15. Grown(A, B, x, x2 + 1, y, y2, h)
  BY <1>5, <1>9, <1>10, <1>11, <1>12, <1>13, <1>14 DEF Grown
<1>16. env.end <= Len(b) => h.end <= Len(b)
  BY <1>3, <1>5
<1> QED BY <1>5, <1>15, <1>16 DEF h, d

(* What has not joined a complete cluster begins where it is over. *)
LEMMA Beyond ==
  ASSUME NEW b \in Seq(Line), NEW A, Side(b, A), NEW x2 \in 0..Len(A), NEW x \in 0..x2,
         NEW env, IsRegion(env), Holds(A, x, x2, env),
         x2 < Len(A) => ~Overlaps(A[x2 + 1], env)
  PROVE  \A k \in (x2 + 1)..Len(A) : Before(env, A[k])
<1> SUFFICES ASSUME NEW k \in (x2 + 1)..Len(A) PROVE Before(env, A[k])
  OBVIOUS
<1>1. /\ Len(A) \in Nat
      /\ \A l \in 1..Len(A) : IsRegion(A[l])
      /\ \A l, m \in 1..Len(A) : l < m => A[l].start < A[m].start
  BY SideOf
<1>2. x2 < Len(A) /\ x2 + 1 \in 1..Len(A) /\ x2 + 1 \in (x2 + 1)..Len(A) /\ k \in 1..Len(A)
  BY <1>1
<1>3. Before(env, A[x2 + 1])
  BY <1>1, <1>2, AfterRegion DEF Holds
<1>4. CASE k = x2 + 1
  BY <1>3, <1>4
<1>5. CASE k # x2 + 1
  <2>1. A[x2 + 1].start < A[k].start
    BY <1>1, <1>2, <1>5
  <2>2. IsRegion(A[x2 + 1]) /\ IsRegion(A[k])
    BY <1>1, <1>2
  <2> QED BY <1>3, <2>1, <2>2 DEF Before, IsRegion
<1> QED BY <1>4, <1>5

(* A complete cluster: no change left overlaps its region. *)
Complete(A, B, x, x2, y, y2, env) ==
  /\ Grown(A, B, x, x2, y, y2, env)
  /\ x2 < Len(A) => ~Overlaps(A[x2 + 1], env)
  /\ y2 < Len(B) => ~Overlaps(B[y2 + 1], env)

(* Nor does a complete one.                                                 *)
LEMMA CompleteSwap ==
  ASSUME NEW A, NEW B, NEW x, NEW x2, NEW y, NEW y2, NEW env, Complete(A, B, x, x2, y, y2, env)
  PROVE  Complete(B, A, y, y2, x, x2, env)
BY GrownSwap DEF Complete

(* Nothing of a complete cluster touches a change outside it. *)
LEMMA Aside ==
  ASSUME NEW b \in Seq(Line), NEW A, NEW B, Side(b, A), Side(b, B),
         NEW x2 \in 0..Len(A), NEW x \in 0..x2, NEW y2 \in 0..Len(B), NEW y \in 0..y2,
         NEW env, Complete(A, B, x, x2, y, y2, env), Split(A, B, x, y)
  PROVE  /\ \A k \in (x2 + 1)..Len(A) : Before(env, A[k])
         /\ \A k \in (x2 + 1)..Len(A), l \in (x + 1)..x2 : Before(A[l], A[k])
         /\ \A k \in (x2 + 1)..Len(A), l \in (y + 1)..y2 : Before(B[l], A[k])
         /\ \A c \in Slice(A, x, x2) \cup Slice(B, y, y2) :
              \A k \in 1..Len(A) : k <= x \/ x2 < k => ~Touch(c, A[k]) /\ ~Touch(A[k], c)
<1>1. /\ Len(A) \in Nat
      /\ \A l \in 1..Len(A) : IsRegion(A[l])
      /\ \A k, l \in 1..Len(A) : k < l => Before(A[k], A[l])
  BY SideOf
<1>2. /\ Len(B) \in Nat
      /\ \A l \in 1..Len(B) : IsRegion(B[l])
  BY SideOf
<1>3. IsRegion(env) /\ Holds(A, x, x2, env) /\ Holds(B, y, y2, env)
  BY DEF Complete, Grown
<1>4. \A k \in (x2 + 1)..Len(A) : Before(env, A[k])
  <2>1. x2 < Len(A) => ~Overlaps(A[x2 + 1], env)
    BY DEF Complete
  <2> QED BY <1>3, <2>1, Beyond
<1>5. ASSUME NEW k \in (x2 + 1)..Len(A), NEW l \in (x + 1)..x2 PROVE Before(A[l], A[k])
  <2>1. k \in 1..Len(A) /\ l \in 1..Len(A) /\ l < k
    BY <1>1
  <2> QED BY <1>1, <2>1
<1>6. ASSUME NEW k \in (x2 + 1)..Len(A), NEW l \in (y + 1)..y2 PROVE Before(B[l], A[k])
  <2>1. k \in 1..Len(A) /\ l \in 1..Len(B)
    BY <1>1, <1>2
  <2>2. IsRegion(A[k]) /\ IsRegion(B[l]) /\ Inside(B[l], env) /\ Before(env, A[k])
    BY <1>1, <1>2, <1>3, <1>4, <2>1 DEF Holds
  <2> QED BY <1>3, <2>2, InsideBefore
<1>7. ASSUME NEW c \in Slice(A, x, x2) \cup Slice(B, y, y2), NEW k \in 1..Len(A), k <= x \/ x2 < k
      PROVE  ~Touch(c, A[k]) /\ ~Touch(A[k], c)
  <2>1. CASE c \in Slice(A, x, x2)
    <3>1. PICK l \in (x + 1)..x2 : c = A[l]
      BY <2>1 DEF Slice
    <3>2. l \in 1..Len(A) /\ (k < l \/ l < k)
      BY <1>1, <1>7
    <3>3. Before(A[k], c) \/ Before(c, A[k])
      BY <1>1, <3>1, <3>2
    <3>4. IsRegion(c) /\ IsRegion(A[k])
      BY <1>1, <3>1, <3>2
    <3> QED BY <3>3, <3>4, BeforeApart
  <2>2. CASE c \in Slice(B, y, y2)
    <3>1. PICK l \in (y + 1)..y2 : c = B[l]
      BY <2>2 DEF Slice
    <3>2. l \in 1..Len(B) /\ l \in (y + 1)..Len(B)
      BY <1>2
    <3>3. CASE k <= x
      <4>1. k \in 1..x
        BY <3>3
      <4>2. Before(A[k], c)
        BY <3>1, <3>2, <4>1 DEF Split
      <4>3. IsRegion(c) /\ IsRegion(A[k])
        BY <1>1, <1>2, <3>1, <3>2
      <4> QED BY <4>2, <4>3, BeforeApart
    <3>4. CASE x2 < k
      <4>1. k \in (x2 + 1)..Len(A)
        BY <3>4
      <4>2. Before(c, A[k])
        BY <1>6, <3>1, <4>1
      <4>3. IsRegion(c) /\ IsRegion(A[k])
        BY <1>1, <1>2, <3>1, <3>2
      <4> QED BY <4>2, <4>3, BeforeApart
    <3> QED BY <1>7, <3>3, <3>4
  <2> QED BY <2>1, <2>2
<1> QED BY <1>4, <1>5, <1>6, <1>7

(* The merge takes of a complete cluster what one side made of its region. *)
LEMMA TakenOfCluster ==
  ASSUME NEW b \in Seq(Line), NEW A, NEW B, Side(b, A), Side(b, B),
         NEW x2 \in 0..Len(A), NEW x \in 0..x2, NEW y2 \in 0..Len(B), NEW y \in 0..y2,
         NEW env, Complete(A, B, x, x2, y, y2, env), Split(A, B, x, y)
  PROVE  Taken(A, B, x, x2, y, y2) = IF x < x2 THEN Slice(A, x, x2) ELSE Slice(B, y, y2)
<1>1. Len(A) \in Nat /\ DOMAIN A = 1..Len(A) /\ Len(B) \in Nat /\ DOMAIN B = 1..Len(B)
  BY SideOf
<1>2. /\ \A l \in 1..Len(B) : IsRegion(B[l])
      /\ \A k, l \in 1..Len(B) : k < l => Before(B[k], B[l])
  BY SideOf
<1>3. CASE x < x2
  <2>1. ASSUME NEW d \in Slice(B, y, y2) PROVE d \notin ApartFrom(B, A)
    <3>1. SUFFICES ASSUME \A c \in Range(A) : ~Touch(c, d) PROVE FALSE
      BY DEF ApartFrom
    <3>2. Slice(A, x, x2) \subseteq Range(A)
      BY SliceOf
    <3>3. PICK l \in (y + 1)..y2 : d = B[l]
      BY DEF Slice
    <3>4. l \in 1..Len(B)
      BY <1>1
    <3>5. \A e \in Slice(A, x, x2) : ~Touch(d, e)
      BY <3>1, <3>2 DEF Touch
    <3>6. ASSUME NEW e \in Slice(B, y, y2) \ {d} PROVE ~Touch(d, e)
      <4>1. PICK m \in (y + 1)..y2 : e = B[m]
        BY DEF Slice
      <4>2. m \in 1..Len(B) /\ (m < l \/ l < m)
        BY <1>1, <3>3, <4>1
      <4>3. IsRegion(d) /\ IsRegion(e) /\ (Before(d, e) \/ Before(e, d))
        BY <1>2, <3>3, <3>4, <4>1, <4>2
      <4> QED BY <4>3, BeforeApart
    <3>7. Linked(Slice(A, x, x2), Slice(B, y, y2))
      BY DEF Complete, Grown
    <3>8. PICK K2, L2 : K2 = {} /\ L2 = {d}
      OBVIOUS
    <3>9. K2 \in SUBSET Slice(A, x, x2) /\ L2 \in SUBSET Slice(B, y, y2)
      BY <3>8
    <3>10. \A c \in K2 \cup L2 : /\ \A e \in Slice(A, x, x2) \ K2 : ~Touch(c, e)
                                 /\ \A e \in Slice(B, y, y2) \ L2 : ~Touch(c, e)
      BY <3>5, <3>6, <3>8
    <3>11. K2 \cup L2 = {} \/ (K2 = Slice(A, x, x2) /\ L2 = Slice(B, y, y2))
      BY <3>7, <3>9, <3>10, Zenon DEF Linked
    <3>12. A[x + 1] \in Slice(A, x, x2)
      BY <1>3 DEF Slice
    <3> QED BY <3>8, <3>11, <3>12
  <2> QED BY <1>3, <2>1 DEF Taken
<1>4. CASE ~ (x < x2)
  <2>1. Slice(A, x, x2) = {}
    <3>1. (x + 1)..x2 = {}
      BY <1>4
    <3> QED BY <3>1 DEF Slice
  <2>2. ASSUME NEW d \in Slice(B, y, y2) PROVE d \in ApartFrom(B, A)
    <3>1. d \in Range(B)
      BY SliceOf
    <3>2. ASSUME NEW k \in 1..Len(A) PROVE ~Touch(A[k], d)
      <4>1. k <= x \/ x2 < k
        BY <1>1, <1>4
      <4>2. d \in Slice(A, x, x2) \cup Slice(B, y, y2)
        OBVIOUS
      <4> QED BY <4>1, <4>2, Aside
    <3> QED BY <1>1, <3>1, <3>2 DEF ApartFrom, Range
  <2> QED BY <1>4, <2>1, <2>2 DEF Taken
<1> QED BY <1>3, <1>4

(* After the cluster, too, what is merged is over where the rest begins. *)
LEMMA Completed ==
  ASSUME NEW b \in Seq(Line), NEW A, NEW B, Side(b, A), Side(b, B),
         NEW x2 \in 0..Len(A), NEW x \in 0..x2, NEW y2 \in 0..Len(B), NEW y \in 0..y2,
         NEW env, Complete(A, B, x, x2, y, y2, env), Split(A, B, x, y), Split(B, A, y, x),
         Parted(A, x, env.start)
  PROVE  Split(A, B, x2, y2) /\ Parted(A, x2, env.end)
<1>1. /\ Len(A) \in Nat
      /\ \A l \in 1..Len(A) : IsRegion(A[l])
      /\ \A k, l \in 1..Len(A) : k < l => Before(A[k], A[l])
  BY SideOf
<1>2. Len(B) \in Nat
  BY SideOf
<1>3. IsRegion(env) /\ Holds(A, x, x2, env) /\ Holds(B, y, y2, env)
  BY DEF Complete, Grown
<1>4. \A k \in (y2 + 1)..Len(B), l \in (x + 1)..x2 : Before(A[l], B[k])
  <2>1. Complete(B, A, y, y2, x, x2, env)
    BY CompleteSwap
  <2> QED BY <2>1, Aside
<1>5. \A k \in (x2 + 1)..Len(A) : Before(env, A[k])
  BY Aside
<1>6. Split(A, B, x2, y2)
  <2> SUFFICES ASSUME NEW k \in 1..x2, NEW l \in (y2 + 1)..Len(B) PROVE Before(A[k], B[l])
    BY DEF Split
  <2>1. CASE k <= x
    <3>1. k \in 1..x /\ l \in (y + 1)..Len(B)
      BY <1>2, <2>1
    <3> QED BY <3>1 DEF Split
  <2>2. CASE ~ (k <= x)
    <3>1. k \in (x + 1)..x2
      BY <2>2
    <3> QED BY <1>4, <3>1
  <2> QED BY <2>1, <2>2
<1>7. ASSUME NEW k \in 1..x2 PROVE A[k].end <= env.end
  <2>1. k \in 1..Len(A)
    BY <1>1
  <2>2. CASE k <= x
    <3>1. A[k].end <= env.start
      BY <2>2 DEF Parted
    <3> QED BY <1>1, <1>3, <2>1, <3>1 DEF IsRegion
  <2>3. CASE ~ (k <= x)
    <3>1. k \in (x + 1)..x2
      BY <2>3
    <3> QED BY <1>3, <3>1 DEF Holds, Inside
  <2> QED BY <2>2, <2>3
<1>8. ASSUME NEW k \in (x2 + 1)..Len(A) PROVE env.end <= A[k].start
  BY <1>5 DEF Before
<1> QED BY <1>6, <1>7, <1>8 DEF Parted

-----------------------------------------------------------------------------
(* What is merged.                                                          *)

(* The base pours in up to s. *)
LEMMA Poured ==
  ASSUME NEW b \in Seq(Line), WholeText(b), NEW o \in Seq(Line), WholeText(o),
         NEW p \in 0..Len(b), NEW s \in p..Len(b), Unended(o) => p = Len(b)
  PROVE  /\ Cat(o, SubSeq(b, p + 1, s)) \in Seq(Line)
         /\ WholeText(Cat(o, SubSeq(b, p + 1, s)))
         /\ Unended(Cat(o, SubSeq(b, p + 1, s))) => s = Len(b)
<1> DEFINE w == SubSeq(b, p + 1, s)
<1>1. w \in Seq(Line) /\ WholeText(w) /\ (w = <<>> <=> p = s) /\ (Unended(w) => s = Len(b))
  BY SubWhole
<1>2. w = <<>> \/ ~Unended(o)
  BY <1>1
<1> HIDE DEF w
<1>3. /\ WholeText(Cat(o, w)) <=> WholeText(o) /\ WholeText(w) /\ (w = <<>> \/ ~Unended(o))
      /\ Unended(Cat(o, w)) <=> IF w = <<>> THEN Unended(o) ELSE Unended(w)
  BY <1>1, WholeCat
<1>4. Cat(o, w) \in Seq(Line)
  BY <1>1, CatType
<1>5. p = Len(b) => s = Len(b)
  OBVIOUS
<1> QED BY <1>1, <1>2, <1>3, <1>4, <1>5 DEF w

(* Flush adds the base up to where the cluster begins, and takes no change. *)
LEMMA Flushed ==
  ASSUME NEW b \in Seq(Line), NEW A, NEW B, Side(b, A), Side(b, B),
         NEW x \in 0..Len(A), NEW y \in 0..Len(B),
         NEW p \in 0..Len(b), Parted(A, x, p), Parted(B, y, p), NEW s \in p..Len(b)
  PROVE  Text(b, Taken(A, B, 0, x, 0, y), 0, s)
           = Cat(Text(b, Taken(A, B, 0, x, 0, y), 0, p), SubSeq(b, p + 1, s))
<1> DEFINE D == Taken(A, B, 0, x, 0, y)
<1>1. D \in SUBSET Edits(b) /\ Separate(D)
  <2>1. 0 \in 0..x /\ 0 \in 0..y
    BY SideOf
  <2> QED BY <2>1, TakenOf
<1>2. \A c \in D : c.end <= p
  BY DEF Taken, Slice, Parted
<1> HIDE DEF D
<1>3. Text(b, D, 0, s) = Cat(Text(b, D, 0, p), SubSeq(b, p + 1, s))
  BY <1>1, <1>2, Keep
<1> QED BY <1>3 DEF D

(* At the end a merge has taken all of one side, and of the other what      *)
(* stands apart.                                                            *)
LEMMA TakenAll ==
  ASSUME NEW b \in Seq(Line), NEW A, NEW B, Side(b, A), Side(b, B)
  PROVE  Taken(A, B, 0, Len(A), 0, Len(B)) = Range(A) \cup ApartFrom(B, A)
<1>1. Len(A) \in Nat /\ DOMAIN A = 1..Len(A)
  BY SideOf
<1>2. Len(B) \in Nat /\ DOMAIN B = 1..Len(B)
  BY SideOf
<1>3. Slice(A, 0, Len(A)) = Range(A) /\ Slice(B, 0, Len(B)) = Range(B)
  BY <1>1, <1>2 DEF Slice, Range
<1>4. ApartFrom(B, A) \subseteq Range(B)
  BY DEF ApartFrom
<1> QED BY <1>3, <1>4 DEF Taken

(* render() of a cluster is what its changes make of the region.            *)
LEMMA RenderSlice ==
  ASSUME NEW b \in Seq(Line), NEW A, Side(b, A), NEW x2 \in 0..Len(A), NEW x \in 0..x2,
         NEW s \in 0..Len(b), NEW e \in s..Len(b)
  PROVE  Render(b, SubSeq(A, x + 1, x2), s, e) = Text(b, Slice(A, x, x2), s, e)
<1> DEFINE q == SubSeq(A, x + 1, x2)
<1>1. /\ A \in Seq(Edits(b)) /\ Len(A) \in Nat
      /\ \A k \in 1..Len(A) : IsRegion(A[k])
      /\ \A k, l \in 1..Len(A) : k < l => A[k].start < A[l].start
  BY SideOf
<1>2. q \in Seq(Edits(b)) /\ Len(q) = x2 - x /\ \A k \in 1..(x2 - x) : q[k] = A[x + k]
  <2>1. x + 1 \in 1..(Len(A) + 1) /\ x2 \in x..Len(A)
    BY <1>1
  <2>2. q \in Seq(Edits(b))
    BY <1>1
  <2>3. Len(q) = x2 - x
    BY <1>1, <2>1
  <2>4. \A k \in 1..(x2 - x) : q[k] = A[x + k]
    BY <1>1, <2>1
  <2> QED BY <2>2, <2>3, <2>4
<1> HIDE DEF q
<1>3. \A k \in 1..Len(q) : x + k \in 1..Len(A) /\ q[k] = A[x + k]
  BY <1>1, <1>2
<1>4. ASSUME NEW k \in 1..Len(q), NEW l \in 1..Len(q), q[k].start = q[l].start PROVE k = l
  <2>1. x + k \in 1..Len(A) /\ x + l \in 1..Len(A) /\ A[x + k].start = A[x + l].start
    BY <1>3, <1>4
  <2>2. A[x + k].start \in Nat
    BY <1>1, <2>1 DEF IsRegion
  <2>3. ~ (x + k < x + l) /\ ~ (x + l < x + k)
    BY <1>1, <2>1, <2>2
  <2> QED BY <1>2, <2>3
<1>5. Range(q) = Slice(A, x, x2)
  <2>1. DOMAIN q = 1..(x2 - x)
    BY <1>2
  <2>2. \A k \in 1..(x2 - x) : x + k \in (x + 1)..x2 /\ q[k] = A[x + k]
    BY <1>1, <1>2
  <2>3. \A l \in (x + 1)..x2 : l - x \in 1..(x2 - x) /\ x + (l - x) = l
    BY <1>1
  <2>4. \A l \in (x + 1)..x2 : q[l - x] = A[l]
    BY <2>2, <2>3
  <2>5. Range(q) = {q[k] : k \in 1..(x2 - x)}
    BY <2>1 DEF Range
  <2>6. ASSUME NEW k \in 1..(x2 - x) PROVE q[k] \in Slice(A, x, x2)
    BY <2>2 DEF Slice
  <2>7. ASSUME NEW l \in (x + 1)..x2 PROVE A[l] \in {q[k] : k \in 1..(x2 - x)}
    BY <2>3, <2>4
  <2>8. \A c \in Slice(A, x, x2) : c \in Range(q)
    BY <2>5, <2>7 DEF Slice
  <2> QED BY <2>5, <2>6, <2>8
<1>6. Render(b, q, s, e) = Text(b, Range(q), s, e)
  BY <1>2, <1>4, RenderIsText
<1> QED BY <1>5, <1>6 DEF q

(* What a side made of a complete cluster is whole, and ends open only at   *)
(* the end of the note.                                                     *)
LEMMA OwnText ==
  ASSUME NEW b \in Seq(Line), WholeText(b), NEW A, NEW B, Side(b, A), Side(b, B),
         NEW x2 \in 0..Len(A), NEW x \in 0..x2, NEW y2 \in 0..Len(B), NEW y \in 0..y2,
         NEW env, Complete(A, B, x, x2, y, y2, env), Split(A, B, x, y),
         Parted(A, x, env.start), env.end <= Len(b)
  PROVE  /\ Text(b, Slice(A, x, x2), env.start, env.end) \in Seq(Line)
         /\ WholeText(Text(b, Slice(A, x, x2), env.start, env.end))
         /\ env.end < Len(b) /\ x < x2 /\ A[x2].end = env.end
              => ~Unended(Text(b, Slice(A, x, x2), env.start, env.end))
<1>1. IsRegion(env) /\ Holds(A, x, x2, env)
  BY DEF Complete, Grown
<1>2. PICK s, e : s = env.start /\ e = env.end
  OBVIOUS
<1>3. s \in 0..Len(b) /\ e \in s..Len(b)
  BY <1>1, <1>2 DEF IsRegion
<1>4. \A k \in 1..x : A[k].end <= s
  BY <1>2 DEF Parted
<1>5. \A k \in (x + 1)..x2 : s <= A[k].start /\ A[k].end <= e
  BY <1>1, <1>2 DEF Holds, Inside
<1>6. \A k \in (x2 + 1)..Len(A) : e <= A[k].start
  BY <1>2, Aside DEF Before
<1>7. /\ Text(b, Slice(A, x, x2), s, e) \in Seq(Line)
      /\ WholeText(Text(b, Slice(A, x, x2), s, e))
      /\ e < Len(b) /\ x < x2 /\ A[x2].end = e => ~Unended(Text(b, Slice(A, x, x2), s, e))
  BY <1>3, <1>4, <1>5, <1>6, Segment
<1> QED BY <1>2, <1>7

(* A complete cluster is merged. *)
LEMMA Settled ==
  ASSUME NEW b \in Seq(Line), NEW A, NEW B, Side(b, A), Side(b, B),
         NEW x2 \in 0..Len(A), NEW x \in 0..x2, NEW y2 \in 0..Len(B), NEW y \in 0..y2,
         NEW env, Complete(A, B, x, x2, y, y2, env), Split(A, B, x, y), Split(B, A, y, x),
         Parted(A, x, env.start), Parted(B, y, env.start), env.end <= Len(b)
  PROVE  Text(b, Taken(A, B, 0, x2, 0, y2), 0, env.end)
           = Cat(Text(b, Taken(A, B, 0, x, 0, y), 0, env.start),
                 Text(b, IF x < x2 THEN Slice(A, x, x2) ELSE Slice(B, y, y2), env.start, env.end))
<1>1. IsRegion(env)
  BY DEF Complete, Grown
<1>2. PICK s, e : s = env.start /\ e = env.end
  OBVIOUS
<1>3. s \in 0..Len(b) /\ e \in s..Len(b) /\ s \in s..Len(b)
  BY <1>1, <1>2 DEF IsRegion
<1>4. Parted(A, x, s) /\ Parted(B, y, s)
  BY <1>2
<1>5. ASSUME NEW c \in Taken(A, B, x, x2, y, y2) PROVE s <= c.start
  <2>1. Len(A) \in Nat
    BY SideOf
  <2>2. Len(B) \in Nat
    BY SideOf
  <2>3. \A k \in (x + 1)..x2 : k \in (x + 1)..Len(A)
    BY <2>1
  <2>4. \A k \in (y + 1)..y2 : k \in (y + 1)..Len(B)
    BY <2>2
  <2> QED BY <1>4, <2>3, <2>4 DEF Taken, Slice, Parted
<1>6. Text(b, Taken(A, B, 0, x2, 0, y2), 0, e)
        = Cat(Cat(Text(b, Taken(A, B, 0, x, 0, y), 0, s), SubSeq(b, s + 1, s)),
              Text(b, Taken(A, B, x, x2, y, y2), s, e))
  BY <1>3, <1>4, <1>5, Advance
<1>7. Text(b, Taken(A, B, 0, x, 0, y), 0, s) \in Seq(Line)
  <2>1. 0 \in 0..Len(b) /\ s \in 0..Len(b) /\ 0 \in 0..x /\ 0 \in 0..y /\ x \in 0..Len(A) /\ y \in 0..Len(B)
    <3>1. Len(A) \in Nat
      BY SideOf
    <3>2. Len(B) \in Nat
      BY SideOf
    <3> QED BY <1>3, <3>1, <3>2
  <2>2. Taken(A, B, 0, x, 0, y) \in SUBSET Edits(b)
    BY <2>1, TakenOf
  <2> QED BY <2>1, <2>2, TextType
<1>8. SubSeq(b, s + 1, s) = <<>>
  BY <1>3, SubSeqEmpty
<1>9. Taken(A, B, x, x2, y, y2) = IF x < x2 THEN Slice(A, x, x2) ELSE Slice(B, y, y2)
  BY TakenOfCluster
<1> QED BY <1>2, <1>6, <1>7, <1>8, <1>9, CatEmpty

(* What is added behind a last line without terminator makes the text fuse. *)
LEMMA Fused ==
  ASSUME NEW b \in Seq(Line), NEW A, NEW B, Side(b, A), Side(b, B),
         NEW x \in 0..Len(A), NEW y \in 0..Len(B),
         Split(A, B, x, y), Split(B, A, y, x),
         Parted(A, x, Len(b)), Parted(B, y, Len(b)),
         Unended(Text(b, Taken(A, B, 0, x, 0, y), 0, Len(b))),
         NEW c \in Taken(A, B, x, Len(A), y, Len(B))
  PROVE  ~WholeText(Text(b, Range(A) \cup ApartFrom(B, A), 0, Len(b)))
<1>1. PICK N : N = Len(b)
  OBVIOUS
<1>2. PICK m, n : m = Len(A) /\ n = Len(B)
  OBVIOUS
<1>3. m \in Nat /\ n \in Nat /\ N \in Nat
  <2>1. m \in Nat
    BY <1>2, SideOf
  <2>2. n \in Nat
    BY <1>2, SideOf
  <2> QED BY <1>1, <2>1, <2>2
<1> DEFINE K == Taken(A, B, x, m, y, n)  D == Taken(A, B, 0, x, 0, y)
<1>4. m \in 0..Len(A) /\ x \in 0..m /\ n \in 0..Len(B) /\ y \in 0..n /\ N \in 0..Len(b) /\ N \in N..Len(b)
      /\ 0 \in 0..x /\ 0 \in 0..y
  BY <1>1, <1>2, <1>3
<1>5. K \in SUBSET Edits(b) /\ Separate(K)
  BY <1>4, TakenOf
<1>6. D \in SUBSET Edits(b)
  BY <1>4, TakenOf
<1>7. \A d \in K : N <= d.start
  BY <1>1, <1>2 DEF Taken, Slice, Parted
<1>8. Text(b, Taken(A, B, 0, m, 0, n), 0, N)
        = Cat(Cat(Text(b, D, 0, N), SubSeq(b, N + 1, N)), Text(b, K, N, N))
  <2>1. Parted(A, x, N) /\ Parted(B, y, N)
    BY <1>1
  <2> QED BY <1>4, <1>7, <2>1, Advance
<1>9. Taken(A, B, 0, m, 0, n) = Range(A) \cup ApartFrom(B, A)
  BY <1>2, TakenAll
<1>10. c \in K
  BY <1>2
<1> HIDE DEF K, D
<1>11. c.start = N /\ c.lines # <<>> /\ c.lines \in Seq(Line)
  <2>1. c \in Edits(b)
    BY <1>5, <1>10
  <2>2. c.start \in Nat /\ c.end \in Nat /\ c.start <= c.end /\ c.end <= N /\ c.lines \in Seq(Line)
        /\ (c.start = c.end => c.lines # <<>>)
    BY <1>1, <2>1, EditFields
  <2>3. N <= c.start
    BY <1>7, <1>10
  <2> QED BY <1>3, <2>2, <2>3
<1>12. Text(b, K, N, N) = c.lines
  <2>1. Text(b, K, N, N) = Written(K, N)
    BY <1>4, <1>5, TextStep
  <2>2. Written(K, c.start) = c.lines
    BY <1>5, <1>10, WrittenOne DEF Separate
  <2> QED BY <1>11, <2>1, <2>2
<1>13. Text(b, D, 0, N) \in Seq(Line) /\ SubSeq(b, N + 1, N) = <<>> /\ Unended(Text(b, D, 0, N))
  <2>1. 0 \in 0..Len(b) /\ N \in 0..Len(b)
    BY <1>1, <1>3
  <2>2. Text(b, D, 0, N) \in Seq(Line)
    BY <1>6, <2>1, TextType
  <2> QED BY <1>1, <1>3, <2>2, SubSeqEmpty DEF D
<1>14. ~WholeText(Cat(Text(b, D, 0, N), c.lines))
  BY <1>11, <1>13, WholeCat
<1>15. Cat(Text(b, D, 0, N), SubSeq(b, N + 1, N)) = Text(b, D, 0, N)
  BY <1>13, CatEmpty
<1> QED BY <1>1, <1>8, <1>9, <1>12, <1>14, <1>15

-----------------------------------------------------------------------------
(* The steps of merge3().                                                   *)

(* Between two clusters: what is merged is the text of the changes taken,   *)
(* whichever side it is read from.                                          *)
Progress ==
  /\ Split(M, T, i, j) /\ Split(T, M, j, i)
  /\ Parted(M, i, pos) /\ Parted(T, j, pos)
  /\ out = Text(base, Taken(M, T, 0, i, 0, j), 0, pos)
  /\ out = Text(base, Taken(T, M, 0, j, 0, i), 0, pos)
  /\ WholeText(out) /\ (Unended(out) => pos = Len(base))

(* Before the diff nothing is merged.                                       *)
Untouched ==
  /\ mine \in Scripts(base) /\ theirs \in Scripts(base)
  /\ M = <<>> /\ T = <<>> /\ out = <<>> /\ pos = 0
  /\ i = 0 /\ j = 0 /\ mi = 0 /\ tj = 0

(* What the verdict promises.                                               *)
Answered == BothSidesApplied /\ NoLineFused /\ ConflictIsGenuine

(* The inductive invariant: how far the merge is, and what the cluster at   *)
(* hand is made of.                                                         *)
Inv ==
  /\ TypeOK /\ base \in Base
  /\ step = "compare" => Untouched
  /\ step # "compare" => Side(base, M) /\ Side(base, T)
  /\ step \in {"seed", "flush", "grow"} => Progress
  /\ step \in {"flush", "grow"} =>
       Grown(M, T, i, mi, j, tj, envelope) /\ pos <= envelope.start
  /\ step = "grow" => pos = envelope.start
  /\ IF step = "done" THEN Answered ELSE verdict = "none"

(* The invariant holds at first.                                            *)
LEMMA InitInv == Init => Inv
<1> SUFFICES ASSUME Init PROVE Inv
  OBVIOUS
<1>1. base \in Base /\ mine \in Scripts(base) /\ theirs \in Scripts(base)
  BY DEF Init, ScriptsOf
<1>2. Untouched /\ step = "compare"
  BY <1>1 DEF Init, Untouched
<1>3. base \in Seq(Line)
  BY <1>1, BaseAssumption
<1>4. TypeOK
  <2>1. Len(<<>>) = 0 /\ <<>> \in Seq(Line) /\ Len(base) \in Nat
    BY <1>3
  <2> QED BY <2>1 DEF TypeOK, Init, NoRegion
<1>5. verdict = "none"
  BY DEF Init
<1> QED BY <1>1, <1>2, <1>4, <1>5 DEF Inv

(* The types, spelled out. *)
LEMMA Numbers ==
  ASSUME TypeOK, base \in Base
  PROVE  /\ base \in Seq(Line) /\ WholeText(base) /\ Len(base) \in Nat
         /\ mi \in 0..Len(M) /\ i \in 0..mi /\ tj \in 0..Len(T) /\ j \in 0..tj
         /\ envelope.start \in Nat /\ envelope.end \in Nat
         /\ envelope.start <= envelope.end /\ envelope.end <= Len(base)
         /\ pos \in 0..Len(base) /\ out \in Seq(Line)
<1>1. base \in Seq(Line) /\ WholeText(base)
  BY BaseAssumption
<1>2. Len(base) \in Nat
  BY <1>1
<1> QED BY <1>1, <1>2 DEF TypeOK

(* Compare keeps it: the changes of an edit script are a side.              *)
LEMMA CompareStep == Inv /\ Compare => Inv'
<1> SUFFICES ASSUME Inv, Compare PROVE Inv'
  OBVIOUS
<1>1. TypeOK /\ base \in Base /\ step = "compare" /\ Untouched /\ base' = base
  BY DEF Inv, Compare, inputs
<1>2. base \in Seq(Line) /\ Len(base) \in Nat
  BY <1>1, Numbers
<1>3. Side(base, M') /\ InOrder(Changes(mine)) /\ M' = Changes(mine)
  BY <1>1, Scripted DEF Untouched, Compare
<1>4. Side(base, T') /\ InOrder(Changes(theirs)) /\ T' = Changes(theirs)
  BY <1>1, Scripted DEF Untouched, Compare
<1>5. Len(M') \in Nat /\ Len(T') \in Nat
  <2>1. Len(M') \in Nat
    BY <1>2, <1>3, SideOf
  <2>2. Len(T') \in Nat
    BY <1>2, <1>4, SideOf
  <2> QED BY <2>1, <2>2
<1>6. out' = <<>> /\ pos' = 0 /\ i' = 0 /\ j' = 0 /\ mi' = 0 /\ tj' = 0 /\ envelope' = envelope
  BY <1>1 DEF Compare, Untouched
<1>7. (step' = "done" /\ verdict' \in {"unchanged", "theirsOnly"}) \/ (step' = "seed" /\ verdict' = verdict)
  BY <1>3, <1>4 DEF Compare, Finish, Goto
<1>8. TypeOK'
  <2>1. step' \in {"compare", "seed", "flush", "grow", "done"}
        /\ verdict' \in {"none", "unchanged", "theirsOnly", "merged", "conflict"}
    BY <1>1, <1>7 DEF TypeOK
  <2>2. <<>> \in Seq(Line)
    OBVIOUS
  <2> QED BY <1>1, <1>2, <1>5, <1>6, <2>1, <2>2 DEF TypeOK
<1>9. CASE step' = "done"
  <2>1. Answered'
    BY <1>7, <1>9 DEF Answered, BothSidesApplied, NoLineFused, ConflictIsGenuine
  <2> QED BY <1>1, <1>3, <1>4, <1>8, <1>9, <2>1 DEF Inv
<1>10. CASE step' = "seed"
  <2>1. Split(M', T', 0, 0) /\ Split(T', M', 0, 0)
    BY DEF Split
  <2>2. Parted(M', 0, 0)
    <3>1. \A k \in 1..Len(M') : M'[k].start \in Nat
      BY <1>2, <1>3, SideOf DEF IsRegion
    <3> QED BY <3>1 DEF Parted
  <2>3. Parted(T', 0, 0)
    <3>1. \A k \in 1..Len(T') : T'[k].start \in Nat
      BY <1>2, <1>4, SideOf DEF IsRegion
    <3> QED BY <3>1 DEF Parted
  <2>4. \A A, B : Text(base, Taken(A, B, 0, 0, 0, 0), 0, 0) = <<>>
    <3> SUFFICES ASSUME NEW A, NEW B PROVE Text(base, Taken(A, B, 0, 0, 0, 0), 0, 0) = <<>>
      OBVIOUS
    <3>1. Taken(A, B, 0, 0, 0, 0) = {}
      BY DEF Taken, Slice
    <3>2. PICK K : K = {}
      OBVIOUS
    <3>3. K \in SUBSET Edits(base) /\ 0 \in 0..Len(base)
      BY <1>2, <3>2
    <3>4. Text(base, K, 0, 0) = Written(K, 0)
      BY <1>2, <3>3, TextStep
    <3>5. Written(K, 0) = <<>>
      BY <3>2, WrittenNone
    <3> QED BY <3>1, <3>2, <3>4, <3>5
  <2>5. WholeText(<<>>) /\ ~Unended(<<>>)
    BY DEF WholeText, Unended
  <2>6. Progress'
    BY <1>1, <1>6, <2>1, <2>2, <2>3, <2>4, <2>5 DEF Progress
  <2>7. verdict' = "none"
    BY <1>1, <1>7, <1>10 DEF Inv
  <2> QED BY <1>1, <1>3, <1>4, <1>8, <1>10, <2>6, <2>7 DEF Inv
<1> QED BY <1>7, <1>9, <1>10

(* SeedMine keeps it: a cluster begins with mine.                           *)
LEMMA SeedMineStep == Inv /\ SeedMine => Inv'
<1> SUFFICES ASSUME Inv, SeedMine PROVE Inv'
  OBVIOUS
<1>1. TypeOK /\ base \in Base /\ step = "seed" /\ Side(base, M) /\ Side(base, T) /\ Progress
  BY DEF Inv, SeedMine
<1>2. /\ base \in Seq(Line) /\ WholeText(base) /\ Len(base) \in Nat
      /\ mi \in 0..Len(M) /\ i \in 0..mi /\ tj \in 0..Len(T) /\ j \in 0..tj
      /\ pos \in 0..Len(base)
  BY <1>1, Numbers
<1>3. UNCHANGED <<base, M, T, out, pos, i, j, verdict>> /\ step' = "flush"
      /\ envelope' = Region(M[i + 1]) /\ mi' = i + 1 /\ tj' = j
  BY DEF SeedMine, Goto, inputs, lists
<1>4. Len(M) \in Nat /\ \A k \in 1..Len(M) : IsRegion(M[k]) /\ M[k].end <= Len(base)
  BY <1>1, <1>2, SideOf
<1>5. Len(T) \in Nat
  BY <1>1, <1>2, SideOf
<1>6. i \in 0..Len(M) /\ j \in 0..Len(T) /\ i < Len(M) /\ i + 1 \in 1..Len(M) /\ i + 1 \in (i + 1)..Len(M)
  BY <1>2, <1>4, <1>5 DEF SeedMine, MineLeft
<1>7. j < Len(T) => M[i + 1].start <= T[j + 1].start
  BY DEF SeedMine, TheirsLeft
<1>8. Grown(M, T, i, i + 1, j, j, Region(M[i + 1]))
  BY <1>1, <1>2, <1>6, <1>7, Seeded
<1>9. Grown(M, T, i, mi, j, tj, envelope)'
  BY <1>3, <1>8
<1>10. pos <= M[i + 1].start /\ envelope'.start = M[i + 1].start /\ envelope'.end = M[i + 1].end
       /\ IsRegion(M[i + 1]) /\ M[i + 1].end <= Len(base)
  BY <1>1, <1>3, <1>4, <1>6 DEF Progress, Parted, Region
<1>11. TypeOK'
  <2>1. mi' \in 0..Len(M') /\ i' \in 0..mi' /\ tj' \in 0..Len(T') /\ j' \in 0..tj'
    BY <1>2, <1>3, <1>4, <1>5, <1>6
  <2>2. envelope'.end \in 0..Len(base') /\ envelope'.start \in 0..envelope'.end
    BY <1>2, <1>3, <1>10 DEF IsRegion
  <2> QED BY <1>1, <1>3, <2>1, <2>2 DEF TypeOK
<1>12. Progress'
  BY <1>1, <1>3 DEF Progress
<1>13. pos' <= envelope'.start
  BY <1>3, <1>10
<1>14. Side(base, M)' /\ Side(base, T)' /\ base' \in Base
  BY <1>1, <1>3
<1>15. verdict' = "none"
  BY <1>1, <1>3 DEF Inv
<1> QED BY <1>3, <1>9, <1>11, <1>12, <1>13, <1>14, <1>15 DEF Inv

(* SeedTheirs keeps it: a cluster begins with theirs.                       *)
LEMMA SeedTheirsStep == Inv /\ SeedTheirs => Inv'
<1> SUFFICES ASSUME Inv, SeedTheirs PROVE Inv'
  OBVIOUS
<1>1. TypeOK /\ base \in Base /\ step = "seed" /\ Side(base, M) /\ Side(base, T) /\ Progress
  BY DEF Inv, SeedTheirs
<1>2. /\ base \in Seq(Line) /\ WholeText(base) /\ Len(base) \in Nat
      /\ mi \in 0..Len(M) /\ i \in 0..mi /\ tj \in 0..Len(T) /\ j \in 0..tj
      /\ pos \in 0..Len(base)
  BY <1>1, Numbers
<1>3. UNCHANGED <<base, M, T, out, pos, i, j, verdict>> /\ step' = "flush"
      /\ envelope' = Region(T[j + 1]) /\ mi' = i /\ tj' = j + 1
  BY DEF SeedTheirs, Goto, inputs, lists
<1>4. Len(T) \in Nat /\ \A k \in 1..Len(T) : IsRegion(T[k]) /\ T[k].end <= Len(base)
  BY <1>1, <1>2, SideOf
<1>5. Len(M) \in Nat /\ \A k \in 1..Len(M) : IsRegion(M[k])
  BY <1>1, <1>2, SideOf
<1>6. i \in 0..Len(M) /\ j \in 0..Len(T) /\ j < Len(T) /\ j + 1 \in 1..Len(T) /\ j + 1 \in (j + 1)..Len(T)
  BY <1>2, <1>4, <1>5 DEF SeedTheirs, TheirsLeft
<1>7. i < Len(M) => T[j + 1].start <= M[i + 1].start
  <2>1. i < Len(M) => i + 1 \in 1..Len(M)
    BY <1>2, <1>5
  <2> QED BY <1>4, <1>5, <1>6, <2>1 DEF SeedTheirs, MineLeft, IsRegion
<1>8. Grown(T, M, j, j + 1, i, i, Region(T[j + 1]))
  BY <1>1, <1>2, <1>6, <1>7, Seeded
<1>9. Grown(M, T, i, mi, j, tj, envelope)'
  BY <1>3, <1>8, GrownSwap
<1>10. pos <= T[j + 1].start /\ envelope'.start = T[j + 1].start /\ envelope'.end = T[j + 1].end
       /\ IsRegion(T[j + 1]) /\ T[j + 1].end <= Len(base)
  BY <1>1, <1>3, <1>4, <1>6 DEF Progress, Parted, Region
<1>11. TypeOK'
  <2>1. mi' \in 0..Len(M') /\ i' \in 0..mi' /\ tj' \in 0..Len(T') /\ j' \in 0..tj'
    BY <1>2, <1>3, <1>4, <1>5, <1>6
  <2>2. envelope'.end \in 0..Len(base') /\ envelope'.start \in 0..envelope'.end
    BY <1>2, <1>3, <1>10 DEF IsRegion
  <2> QED BY <1>1, <1>3, <2>1, <2>2 DEF TypeOK
<1>12. Progress'
  BY <1>1, <1>3 DEF Progress
<1>13. pos' <= envelope'.start
  BY <1>3, <1>10
<1>14. Side(base, M)' /\ Side(base, T)' /\ base' \in Base
  BY <1>1, <1>3
<1>15. verdict' = "none"
  BY <1>1, <1>3 DEF Inv
<1> QED BY <1>3, <1>9, <1>11, <1>12, <1>13, <1>14, <1>15 DEF Inv

(* Flush keeps it, and never finds an open line before the base it adds.    *)
LEMMA FlushStep == Inv /\ Flush => Inv'
<1> SUFFICES ASSUME Inv, Flush PROVE Inv'
  OBVIOUS
<1>1. /\ TypeOK /\ base \in Base /\ step = "flush" /\ Side(base, M) /\ Side(base, T) /\ Progress
      /\ Grown(M, T, i, mi, j, tj, envelope) /\ pos <= envelope.start
  BY DEF Inv, Flush
<1>2. /\ base \in Seq(Line) /\ WholeText(base) /\ Len(base) \in Nat
      /\ mi \in 0..Len(M) /\ i \in 0..mi /\ tj \in 0..Len(T) /\ j \in 0..tj
      /\ envelope.start \in Nat /\ envelope.end \in Nat
      /\ envelope.start <= envelope.end /\ envelope.end <= Len(base)
      /\ pos \in 0..Len(base) /\ out \in Seq(Line)
  BY <1>1, Numbers
<1>3. ~ (pos < envelope.start /\ EndsOpen)
  <2>1. EndsOpen => pos = Len(base)
    BY <1>1 DEF Progress, EndsOpen, Unended
  <2> QED BY <1>2, <2>1
<1> DEFINE s == envelope.start  w == SubSeq(base, pos + 1, s)
<1>4. UNCHANGED <<base, M, T, i, j, mi, tj, envelope, verdict>> /\ step' = "grow"
      /\ out' = Cat(out, w) /\ pos' = s
  <2>1. (IF pos < envelope.start THEN envelope.start ELSE pos) = envelope.start
    BY <1>1, <1>2
  <2> QED BY <1>3, <2>1 DEF Flush, Goto, inputs, lists, Unchanged, Cat
<1>5. s \in pos..Len(base) /\ s \in 0..Len(base) /\ i \in 0..Len(M) /\ j \in 0..Len(T)
      /\ Len(M) \in Nat /\ Len(T) \in Nat
  <2>1. Len(M) \in Nat
    BY <1>1, <1>2, SideOf
  <2>2. Len(T) \in Nat
    BY <1>1, <1>2, SideOf
  <2> QED BY <1>1, <1>2, <2>1, <2>2
<1>6. Cat(out, w) \in Seq(Line) /\ WholeText(Cat(out, w)) /\ (Unended(Cat(out, w)) => s = Len(base))
  BY <1>1, <1>2, <1>5, Poured DEF Progress
<1>7. Parted(M, i, s)
  <2>1. \A k \in 1..Len(M) : IsRegion(M[k])
    BY <1>1, <1>2, SideOf
  <2>2. ASSUME NEW k \in 1..i PROVE M[k].end <= s
    <3>1. M[k].end <= pos
      BY <1>1 DEF Progress, Parted
    <3>2. IsRegion(M[k])
      BY <1>2, <1>5, <2>1
    <3> QED BY <1>1, <1>2, <3>1, <3>2, SMTT(30) DEF IsRegion
  <2>3. ASSUME NEW k \in (i + 1)..Len(M) PROVE s <= M[k].start
    <3>1. k \in (i + 1)..mi \/ k \in (mi + 1)..Len(M)
      BY <1>2, <1>5
    <3> QED BY <1>1, <3>1 DEF Grown, Holds, Inside
  <2> QED BY <2>2, <2>3 DEF Parted
<1>8. Parted(T, j, s)
  <2>1. \A k \in 1..Len(T) : IsRegion(T[k])
    BY <1>1, <1>2, SideOf
  <2>2. ASSUME NEW k \in 1..j PROVE T[k].end <= s
    <3>1. T[k].end <= pos
      BY <1>1 DEF Progress, Parted
    <3>2. IsRegion(T[k])
      BY <1>2, <1>5, <2>1
    <3> QED BY <1>1, <1>2, <3>1, <3>2, SMTT(30) DEF IsRegion
  <2>3. ASSUME NEW k \in (j + 1)..Len(T) PROVE s <= T[k].start
    <3>1. k \in (j + 1)..tj \/ k \in (tj + 1)..Len(T)
      BY <1>2, <1>5
    <3> QED BY <1>1, <3>1 DEF Grown, Holds, Inside
  <2> QED BY <2>2, <2>3 DEF Parted
<1> HIDE DEF s, w
<1>9. Text(base, Taken(M, T, 0, i, 0, j), 0, s) = Cat(out, w)
  BY <1>1, <1>2, <1>5, Flushed DEF Progress, w
<1>10. Text(base, Taken(T, M, 0, j, 0, i), 0, s) = Cat(out, w)
  BY <1>1, <1>2, <1>5, Flushed DEF Progress, w
<1>11. Progress'
  BY <1>1, <1>4, <1>6, <1>7, <1>8, <1>9, <1>10 DEF Progress
<1>12. TypeOK'
  BY <1>1, <1>4, <1>5, <1>6 DEF TypeOK
<1>13. Grown(M, T, i, mi, j, tj, envelope)' /\ pos' = envelope'.start /\ pos' <= envelope'.start
  BY <1>1, <1>2, <1>4 DEF s
<1>14. Side(base, M)' /\ Side(base, T)' /\ base' \in Base
  BY <1>1, <1>4
<1>15. verdict' = "none"
  BY <1>1, <1>4 DEF Inv
<1> QED BY <1>4, <1>11, <1>12, <1>13, <1>14, <1>15 DEF Inv

(* GrowMine keeps it: the change is linked to the cluster.                  *)
LEMMA GrowMineStep == Inv /\ GrowMine => Inv'
<1> SUFFICES ASSUME Inv, GrowMine PROVE Inv'
  OBVIOUS
<1>1. /\ TypeOK /\ base \in Base /\ step = "grow" /\ Side(base, M) /\ Side(base, T) /\ Progress
      /\ Grown(M, T, i, mi, j, tj, envelope) /\ pos = envelope.start
  BY DEF Inv, GrowMine
<1>2. /\ base \in Seq(Line) /\ WholeText(base) /\ Len(base) \in Nat
      /\ mi \in 0..Len(M) /\ i \in 0..mi /\ tj \in 0..Len(T) /\ j \in 0..tj
      /\ envelope.start \in Nat /\ envelope.end \in Nat
      /\ envelope.start <= envelope.end /\ envelope.end <= Len(base)
      /\ pos \in 0..Len(base) /\ out \in Seq(Line)
  BY <1>1, Numbers
<1>3. /\ UNCHANGED <<base, M, T, step, out, pos, i, j, tj, verdict>>
      /\ envelope' = Hull(envelope, M[mi + 1]) /\ mi' = mi + 1
      /\ mi < Len(M) /\ Overlaps(M[mi + 1], envelope)
  BY DEF GrowMine, MineTouches, MineLeft, inputs, lists
<1>4. /\ Grown(M, T, i, mi + 1, j, tj, Hull(envelope, M[mi + 1]))
      /\ Hull(envelope, M[mi + 1]).start = envelope.start
      /\ envelope.end <= Len(base) => Hull(envelope, M[mi + 1]).end <= Len(base)
  BY <1>1, <1>2, <1>3, Joins
<1>5. IsRegion(envelope')
  BY <1>3, <1>4 DEF Grown
<1>6. Len(M) \in Nat
  BY <1>1, <1>2, SideOf
<1>7. TypeOK'
  <2>1. mi' \in 0..Len(M') /\ i' \in 0..mi'
    BY <1>2, <1>3, <1>6
  <2>2. envelope'.end \in 0..Len(base') /\ envelope'.start \in 0..envelope'.end
    BY <1>2, <1>3, <1>4, <1>5 DEF IsRegion
  <2> QED BY <1>1, <1>3, <2>1, <2>2 DEF TypeOK
<1>8. Grown(M, T, i, mi, j, tj, envelope)'
  BY <1>3, <1>4
<1>9. pos' = envelope'.start /\ pos' <= envelope'.start
  BY <1>1, <1>2, <1>3, <1>4
<1>10. Progress'
  BY <1>1, <1>3 DEF Progress
<1>11. Side(base, M)' /\ Side(base, T)' /\ base' \in Base
  BY <1>1, <1>3
<1> QED BY <1>1, <1>3, <1>7, <1>8, <1>9, <1>10, <1>11 DEF Inv

(* GrowTheirs keeps it, in the same way.                                    *)
LEMMA GrowTheirsStep == Inv /\ GrowTheirs => Inv'
<1> SUFFICES ASSUME Inv, GrowTheirs PROVE Inv'
  OBVIOUS
<1>1. /\ TypeOK /\ base \in Base /\ step = "grow" /\ Side(base, M) /\ Side(base, T) /\ Progress
      /\ Grown(M, T, i, mi, j, tj, envelope) /\ pos = envelope.start
  BY DEF Inv, GrowTheirs
<1>2. /\ base \in Seq(Line) /\ WholeText(base) /\ Len(base) \in Nat
      /\ mi \in 0..Len(M) /\ i \in 0..mi /\ tj \in 0..Len(T) /\ j \in 0..tj
      /\ envelope.start \in Nat /\ envelope.end \in Nat
      /\ envelope.start <= envelope.end /\ envelope.end <= Len(base)
      /\ pos \in 0..Len(base) /\ out \in Seq(Line)
  BY <1>1, Numbers
<1>3. /\ UNCHANGED <<base, M, T, step, out, pos, i, j, mi, verdict>>
      /\ envelope' = Hull(envelope, T[tj + 1]) /\ tj' = tj + 1
      /\ tj < Len(T) /\ Overlaps(T[tj + 1], envelope)
  BY DEF GrowTheirs, TheirsTouches, TheirsLeft, inputs, lists
<1>4. /\ Grown(T, M, j, tj + 1, i, mi, Hull(envelope, T[tj + 1]))
      /\ Hull(envelope, T[tj + 1]).start = envelope.start
      /\ envelope.end <= Len(base) => Hull(envelope, T[tj + 1]).end <= Len(base)
  <2>1. Grown(T, M, j, tj, i, mi, envelope)
    BY <1>1, GrownSwap
  <2> QED BY <1>1, <1>2, <1>3, <2>1, Joins
<1>5. IsRegion(envelope')
  BY <1>3, <1>4 DEF Grown
<1>6. Len(T) \in Nat
  BY <1>1, <1>2, SideOf
<1>7. TypeOK'
  <2>1. tj' \in 0..Len(T') /\ j' \in 0..tj'
    BY <1>2, <1>3, <1>6
  <2>2. envelope'.end \in 0..Len(base') /\ envelope'.start \in 0..envelope'.end
    BY <1>2, <1>3, <1>4, <1>5 DEF IsRegion
  <2> QED BY <1>1, <1>3, <2>1, <2>2 DEF TypeOK
<1>8. Grown(M, T, i, mi, j, tj, envelope)'
  BY <1>3, <1>4, GrownSwap
<1>9. pos' = envelope'.start /\ pos' <= envelope'.start
  BY <1>1, <1>2, <1>3, <1>4
<1>10. Progress'
  BY <1>1, <1>3 DEF Progress
<1>11. Side(base, M)' /\ Side(base, T)' /\ base' \in Base
  BY <1>1, <1>3
<1> QED BY <1>1, <1>3, <1>7, <1>8, <1>9, <1>10, <1>11 DEF Inv

(* What Decide finds: the cluster is complete. *)
LEMMA AtDecide ==
  ASSUME Inv, step = "grow", ~MineTouches, ~TheirsTouches
  PROVE  /\ TypeOK /\ base \in Base /\ Side(base, M) /\ Side(base, T) /\ Progress
         /\ pos = envelope.start
         /\ Complete(M, T, i, mi, j, tj, envelope) /\ Complete(T, M, j, tj, i, mi, envelope)
         /\ Parted(M, i, envelope.start) /\ Parted(T, j, envelope.start)
         /\ Mine = Text(base, Slice(M, i, mi), envelope.start, envelope.end)
         /\ Theirs = Text(base, Slice(T, j, tj), envelope.start, envelope.end)
<1>1. /\ TypeOK /\ base \in Base /\ Side(base, M) /\ Side(base, T) /\ Progress
      /\ Grown(M, T, i, mi, j, tj, envelope) /\ pos = envelope.start
  BY DEF Inv
<1>2. /\ base \in Seq(Line) /\ Len(base) \in Nat
      /\ mi \in 0..Len(M) /\ i \in 0..mi /\ tj \in 0..Len(T) /\ j \in 0..tj
      /\ envelope.start \in Nat /\ envelope.end \in Nat
      /\ envelope.start <= envelope.end /\ envelope.end <= Len(base)
  BY <1>1, Numbers
<1>3. Complete(M, T, i, mi, j, tj, envelope)
  BY <1>1 DEF Complete, MineTouches, TheirsTouches, MineLeft, TheirsLeft
<1>4. Complete(T, M, j, tj, i, mi, envelope)
  BY <1>3, CompleteSwap
<1>5. Parted(M, i, envelope.start) /\ Parted(T, j, envelope.start)
  BY <1>1 DEF Progress
<1>6. envelope.start \in 0..Len(base) /\ envelope.end \in envelope.start..Len(base)
  BY <1>2
<1>7. Mine = Text(base, Slice(M, i, mi), envelope.start, envelope.end)
  BY <1>1, <1>2, <1>6, RenderSlice DEF Mine
<1>8. Theirs = Text(base, Slice(T, j, tj), envelope.start, envelope.end)
  BY <1>1, <1>2, <1>6, RenderSlice DEF Theirs
<1> QED BY <1>1, <1>3, <1>4, <1>5, <1>7, <1>8

(* What makes a conflict genuine. *)
Genuine ==
  \/ \E K \in SUBSET Range(M), L \in SUBSET Range(T) : Cluster(K, L) /\ Differ(K, L)
  \/ ~WholeText(All(Range(M) \cup TheirsApart))

(* A conflict stays genuine.                                                *)
LEMMA GenuineStays ==
  ASSUME Genuine, UNCHANGED <<base, M, T>>
  PROVE  ConflictIsGenuine'
<1>1. CASE \E K \in SUBSET Range(M), L \in SUBSET Range(T) : Cluster(K, L) /\ Differ(K, L)
  <2>1. PICK K \in SUBSET Range(M), L \in SUBSET Range(T) : Cluster(K, L) /\ Differ(K, L)
    BY <1>1
  <2>2. Cluster(K, L)'
    BY <2>1 DEF Cluster, Closed
  <2>3. Differ(K, L)'
    BY <2>1 DEF Differ
  <2>4. K \in SUBSET Range(M') /\ L \in SUBSET Range(T')
    OBVIOUS
  <2> QED BY <2>2, <2>3, <2>4 DEF ConflictIsGenuine
<1>2. CASE ~WholeText(All(Range(M) \cup TheirsApart))
  <2>1. All(Range(M) \cup TheirsApart)' = All(Range(M) \cup TheirsApart)
    BY DEF All, TheirsApart
  <2> QED BY <1>2, <2>1 DEF ConflictIsGenuine
<1> QED BY <1>1, <1>2 DEF Genuine

(* The sides disagree about the region of the cluster. *)
LEMMA Disagreed ==
  ASSUME Inv, step = "grow", ~MineTouches, ~TheirsTouches, i < mi, j < tj, Mine # Theirs
  PROVE  Genuine
<1> DEFINE K == Slice(M, i, mi)  L == Slice(T, j, tj)
<1>1. /\ TypeOK /\ base \in Base /\ Side(base, M) /\ Side(base, T) /\ Progress
      /\ Complete(M, T, i, mi, j, tj, envelope) /\ Complete(T, M, j, tj, i, mi, envelope)
      /\ Mine = Text(base, K, envelope.start, envelope.end)
      /\ Theirs = Text(base, L, envelope.start, envelope.end)
  BY AtDecide
<1>2. /\ base \in Seq(Line) /\ Len(base) \in Nat
      /\ mi \in 0..Len(M) /\ i \in 0..mi /\ tj \in 0..Len(T) /\ j \in 0..tj
      /\ envelope.start \in Nat /\ envelope.end \in Nat
  BY <1>1, Numbers
<1>3. /\ Len(M) \in Nat /\ DOMAIN M = 1..Len(M) /\ \A k \in 1..Len(M) : IsRegion(M[k])
  BY <1>1, <1>2, SideOf
<1>4. /\ Len(T) \in Nat /\ DOMAIN T = 1..Len(T) /\ \A k \in 1..Len(T) : IsRegion(T[k])
  BY <1>1, <1>2, SideOf
<1>5. K \in SUBSET Range(M) /\ L \in SUBSET Range(T)
  <2>1. K \in SUBSET Range(M)
    BY <1>1, <1>2, SliceOf
  <2>2. L \in SUBSET Range(T)
    BY <1>1, <1>2, SliceOf
  <2> QED BY <2>1, <2>2
<1>6. M[i + 1] \in K /\ M[mi] \in K /\ T[j + 1] \in L /\ T[tj] \in L
  <2>1. i + 1 \in (i + 1)..mi /\ mi \in (i + 1)..mi /\ j + 1 \in (j + 1)..tj /\ tj \in (j + 1)..tj
    BY <1>2
  <2> QED BY <2>1 DEF Slice
<1>7. \A c \in K \cup L : IsRegion(c) /\ Inside(c, envelope)
  <2>1. Holds(M, i, mi, envelope) /\ Holds(T, j, tj, envelope)
    BY <1>1 DEF Complete, Grown
  <2>2. \A k \in (i + 1)..mi : k \in 1..Len(M)
    BY <1>2, <1>3
  <2>3. \A k \in (j + 1)..tj : k \in 1..Len(T)
    BY <1>2, <1>4
  <2> QED BY <1>3, <1>4, <2>1, <2>2, <2>3 DEF Slice, Holds
<1>8. Split(M, T, i, j) /\ Split(T, M, j, i)
  BY <1>1 DEF Progress
<1>9. \A c \in K \cup L : \A k \in 1..Len(M) : k <= i \/ mi < k => ~Touch(c, M[k])
  BY <1>1, <1>2, <1>8, Aside
<1>10. \A c \in L \cup K : \A k \in 1..Len(T) : k <= j \/ tj < k => ~Touch(c, T[k])
  BY <1>1, <1>2, <1>8, Aside
<1>11. Closed(K, L)
  <2>1. ASSUME NEW d \in Range(M) \ K PROVE \E k \in 1..Len(M) : d = M[k] /\ (k <= i \/ mi < k)
    <3>1. PICK k \in 1..Len(M) : d = M[k]
      BY <1>3 DEF Range
    <3>2. k \notin (i + 1)..mi
      BY <3>1 DEF Slice
    <3> QED BY <1>2, <3>1, <3>2
  <2>2. ASSUME NEW d \in Range(T) \ L PROVE \E k \in 1..Len(T) : d = T[k] /\ (k <= j \/ tj < k)
    <3>1. PICK k \in 1..Len(T) : d = T[k]
      BY <1>4 DEF Range
    <3>2. k \notin (j + 1)..tj
      BY <3>1 DEF Slice
    <3> QED BY <1>2, <3>1, <3>2
  <2> HIDE DEF K, L
  <2>3. \A c \in K \cup L : \A d \in Range(M) \ K : ~Touch(c, d)
    BY <1>9, <2>1
  <2>4. \A c \in K \cup L : \A d \in Range(T) \ L : ~Touch(c, d)
    BY <1>10, <2>2
  <2> QED BY <2>3, <2>4 DEF Closed
<1>12. Linked(K, L)
  BY <1>1 DEF Complete, Grown
<1>13. /\ (i < mi /\ M[i + 1].start = envelope.start) \/ (j < tj /\ T[j + 1].start = envelope.start)
       /\ (i < mi /\ M[mi].end = envelope.end) \/ (j < tj /\ T[tj].end = envelope.end)
  BY <1>1 DEF Complete, Grown
<1> HIDE DEF K, L
<1>14. Cluster(K, L)
  <2>1. ASSUME NEW K2 \in SUBSET K, NEW L2 \in SUBSET L, Closed(K2, L2)
        PROVE  K2 \cup L2 = {} \/ (K2 = K /\ L2 = L)
    <3>1. \A c \in K2 \cup L2 : /\ \A d \in K \ K2 : ~Touch(c, d)
                                /\ \A d \in L \ L2 : ~Touch(c, d)
      BY <1>5, <2>1 DEF Closed
    <3> QED BY <1>12, <3>1, Zenon DEF Linked
  <2> QED BY <1>6, <1>11, <2>1 DEF Cluster
<1>15. Min({c.start : c \in K \cup L}) = envelope.start
  <2> DEFINE S == {c.start : c \in K \cup L}  x == envelope.start
  <2>1. S \in SUBSET Int /\ \A y \in S : x <= y
    BY <1>7 DEF IsRegion, Inside
  <2>2. x \in S
    BY <1>6, <1>13
  <2> HIDE DEF S, x
  <2>3. Min(S) = x
    BY <2>1, <2>2, MinOf
  <2> QED BY <2>3 DEF S, x
<1>16. Max({c.end : c \in K \cup L}) = envelope.end
  <2> DEFINE S == {c.end : c \in K \cup L}  x == envelope.end
  <2>1. S \in SUBSET Int /\ \A y \in S : x >= y
    BY <1>2, <1>7 DEF IsRegion, Inside
  <2>2. x \in S
    BY <1>6, <1>13
  <2> HIDE DEF S, x
  <2>3. Max(S) = x
    BY <2>1, <2>2, MaxOf
  <2> QED BY <2>3 DEF S, x
<1>17. Differ(K, L)
  BY <1>1, <1>15, <1>16 DEF Differ
<1> QED BY <1>5, <1>14, <1>17 DEF Genuine

(* The cluster would be added behind a last line without terminator. *)
LEMMA WouldFuse ==
  ASSUME Inv, step = "grow", ~MineTouches, ~TheirsTouches, EndsOpen
  PROVE  Genuine
<1>1. /\ TypeOK /\ base \in Base /\ Side(base, M) /\ Side(base, T) /\ Progress /\ pos = envelope.start
      /\ Complete(M, T, i, mi, j, tj, envelope)
  BY AtDecide
<1>2. /\ base \in Seq(Line) /\ Len(base) \in Nat
      /\ mi \in 0..Len(M) /\ i \in 0..mi /\ tj \in 0..Len(T) /\ j \in 0..tj
  BY <1>1, Numbers
<1>3. Len(M) \in Nat
  BY <1>1, <1>2, SideOf
<1>4. Len(T) \in Nat
  BY <1>1, <1>2, SideOf
<1>5. Unended(out) /\ pos = Len(base)
  BY <1>1 DEF Progress, EndsOpen, Unended
<1>6. /\ Split(M, T, i, j) /\ Split(T, M, j, i) /\ Parted(M, i, Len(base)) /\ Parted(T, j, Len(base))
      /\ out = Text(base, Taken(M, T, 0, i, 0, j), 0, Len(base))
  BY <1>1, <1>5 DEF Progress
<1>7. PICK c : c \in Taken(M, T, i, mi, j, tj)
  <2>1. Taken(M, T, i, mi, j, tj) = IF i < mi THEN Slice(M, i, mi) ELSE Slice(T, j, tj)
    BY <1>1, <1>2, <1>6, TakenOfCluster
  <2>2. i < mi \/ j < tj
    BY <1>1 DEF Complete, Grown
  <2>3. i < mi => M[mi] \in Slice(M, i, mi)
    <3>1. i < mi => mi \in (i + 1)..mi
      BY <1>2
    <3> QED BY <3>1 DEF Slice
  <2>4. j < tj => T[tj] \in Slice(T, j, tj)
    <3>1. j < tj => tj \in (j + 1)..tj
      BY <1>2
    <3> QED BY <3>1 DEF Slice
  <2> QED BY <2>1, <2>2, <2>3, <2>4
<1>8. c \in Taken(M, T, i, Len(M), j, Len(T))
  <2>1. \A k \in (i + 1)..mi : k \in (i + 1)..Len(M)
    BY <1>2, <1>3
  <2>2. \A k \in (j + 1)..tj : k \in (j + 1)..Len(T)
    BY <1>2, <1>4
  <2> QED BY <1>7, <2>1, <2>2 DEF Taken, Slice
<1>9. i \in 0..Len(M) /\ j \in 0..Len(T)
  BY <1>2, <1>3, <1>4
<1>10. Unended(Text(base, Taken(M, T, 0, i, 0, j), 0, Len(base)))
  BY <1>5, <1>6
<1>11. ~WholeText(Text(base, Range(M) \cup ApartFrom(T, M), 0, Len(base)))
  BY <1>1, <1>2, <1>6, <1>8, <1>9, <1>10, Fused
<1> QED BY <1>11 DEF Genuine, All, TheirsApart, ApartFrom

(* Decide keeps it: the cluster is merged, or the conflict is genuine.      *)
LEMMA DecideStep == Inv /\ Decide => Inv'
<1> SUFFICES ASSUME Inv, Decide PROVE Inv'
  OBVIOUS
<1>0. step = "grow" /\ ~MineTouches /\ ~TheirsTouches
  BY DEF Decide
<1>1. /\ TypeOK /\ base \in Base /\ Side(base, M) /\ Side(base, T) /\ Progress
      /\ pos = envelope.start
      /\ Complete(M, T, i, mi, j, tj, envelope) /\ Complete(T, M, j, tj, i, mi, envelope)
      /\ Parted(M, i, envelope.start) /\ Parted(T, j, envelope.start)
      /\ Mine = Text(base, Slice(M, i, mi), envelope.start, envelope.end)
      /\ Theirs = Text(base, Slice(T, j, tj), envelope.start, envelope.end)
  BY <1>0, AtDecide
<1>2. /\ base \in Seq(Line) /\ WholeText(base) /\ Len(base) \in Nat
      /\ mi \in 0..Len(M) /\ i \in 0..mi /\ tj \in 0..Len(T) /\ j \in 0..tj
      /\ envelope.start \in Nat /\ envelope.end \in Nat
      /\ envelope.start <= envelope.end /\ envelope.end <= Len(base)
      /\ pos \in 0..Len(base) /\ out \in Seq(Line)
  BY <1>1, Numbers
<1>3. UNCHANGED <<base, M, T, mi, tj, envelope>>
  BY DEF Decide, inputs, lists
<1>4. Side(base, M)' /\ Side(base, T)' /\ base' \in Base
  BY <1>1, <1>3
<1>5. CASE \/ envelope.start < pos
           \/ mi > i /\ tj > j /\ Mine # Theirs
           \/ EndsOpen
  <2>1. step' = "done" /\ verdict' = "conflict" /\ UNCHANGED <<out, pos, i, j>>
    BY <1>5 DEF Decide, Finish
  <2>2. ~ (envelope.start < pos)
    BY <1>1, <1>2
  <2>3. Genuine
    <3>1. CASE mi > i /\ tj > j /\ Mine # Theirs
      <4>1. i < mi /\ j < tj
        BY <1>2, <3>1
      <4> QED BY <1>0, <3>1, <4>1, Disagreed
    <3>2. CASE EndsOpen
      BY <1>0, <3>2, WouldFuse
    <3> QED BY <1>5, <2>2, <3>1, <3>2
  <2>4. ConflictIsGenuine'
    BY <1>3, <2>3, GenuineStays
  <2>5. Answered'
    BY <2>1, <2>4 DEF Answered, BothSidesApplied, NoLineFused
  <2>6. TypeOK'
    BY <1>1, <1>3, <2>1 DEF TypeOK
  <2> QED BY <1>4, <2>1, <2>5, <2>6 DEF Inv
<1>6. CASE ~ \/ envelope.start < pos
             \/ mi > i /\ tj > j /\ Mine # Theirs
             \/ EndsOpen
  <2> DEFINE s == envelope.start  e == envelope.end
             t == IF i < mi THEN Mine ELSE Theirs
  <2>1. step' = "seed" /\ i' = mi /\ j' = tj /\ verdict' = verdict
        /\ out' = Cat(out, t) /\ pos' = e
    <3>1. (IF mi > i THEN Mine ELSE Theirs) = t
      BY <1>2
    <3>2. (IF envelope.end > pos THEN envelope.end ELSE pos) = e
      BY <1>1, <1>2
    <3>3. out' = out \o (IF mi > i THEN Mine ELSE Theirs)
          /\ pos' = (IF envelope.end > pos THEN envelope.end ELSE pos)
          /\ step' = "seed" /\ i' = mi /\ j' = tj /\ verdict' = verdict
      BY <1>6 DEF Decide, Goto
    <3> HIDE DEF t, e
    <3> QED BY <3>1, <3>2, <3>3 DEF Cat
  <2>2. i < mi /\ j < tj => Mine = Theirs
    BY <1>2, <1>6
  <2>3. t = (IF i < mi THEN Mine ELSE Theirs) /\ t = (IF j < tj THEN Theirs ELSE Mine)
    <3>1. i < mi \/ j < tj
      BY <1>1 DEF Complete, Grown
    <3> QED BY <2>2, <3>1
  <2>4. Split(M, T, i, j) /\ Split(T, M, j, i)
    BY <1>1 DEF Progress
  <2>5. Split(M, T, mi, tj) /\ Parted(M, mi, e)
    BY <1>1, <1>2, <2>4, Completed
  <2>6. Split(T, M, tj, mi) /\ Parted(T, tj, e)
    BY <1>1, <1>2, <2>4, Completed
  <2>7. /\ out = Text(base, Taken(M, T, 0, i, 0, j), 0, s)
        /\ out = Text(base, Taken(T, M, 0, j, 0, i), 0, s)
    BY <1>1 DEF Progress
  <2>8. Text(base, Taken(M, T, 0, mi, 0, tj), 0, e) = Cat(out, t)
    <3>1. Text(base, Taken(M, T, 0, mi, 0, tj), 0, e)
            = Cat(Text(base, Taken(M, T, 0, i, 0, j), 0, s),
                  Text(base, IF i < mi THEN Slice(M, i, mi) ELSE Slice(T, j, tj), s, e))
      BY <1>1, <1>2, <2>4, Settled
    <3>2. Text(base, IF i < mi THEN Slice(M, i, mi) ELSE Slice(T, j, tj), s, e) = t
      BY <1>1, <2>3
    <3> QED BY <2>7, <3>1, <3>2
  <2>9. Text(base, Taken(T, M, 0, tj, 0, mi), 0, e) = Cat(out, t)
    <3>1. Text(base, Taken(T, M, 0, tj, 0, mi), 0, e)
            = Cat(Text(base, Taken(T, M, 0, j, 0, i), 0, s),
                  Text(base, IF j < tj THEN Slice(T, j, tj) ELSE Slice(M, i, mi), s, e))
      BY <1>1, <1>2, <2>4, Settled
    <3>2. Text(base, IF j < tj THEN Slice(T, j, tj) ELSE Slice(M, i, mi), s, e) = t
      <4>1. t = (IF j < tj THEN Theirs ELSE Mine)
        BY <2>3
      <4> HIDE DEF t
      <4> QED BY <1>1, <4>1
    <3> QED BY <2>7, <3>1, <3>2
  <2>10. /\ Mine \in Seq(Line) /\ WholeText(Mine)
         /\ e < Len(base) /\ i < mi /\ M[mi].end = e => ~Unended(Mine)
    BY <1>1, <1>2, <2>4, OwnText
  <2>11. /\ Theirs \in Seq(Line) /\ WholeText(Theirs)
         /\ e < Len(base) /\ j < tj /\ T[tj].end = e => ~Unended(Theirs)
    BY <1>1, <1>2, <2>4, OwnText
  <2>12. (i < mi /\ M[mi].end = e) \/ (j < tj /\ T[tj].end = e)
    BY <1>1 DEF Complete, Grown
  <2>13. t \in Seq(Line) /\ WholeText(t) /\ (Unended(t) => e = Len(base))
    <3>1. (i < mi /\ M[mi].end = e => t = Mine) /\ (j < tj /\ T[tj].end = e => t = Theirs)
      BY <2>3
    <3>2. e < Len(base) \/ e = Len(base)
      BY <1>2
    <3>3. t = Mine \/ t = Theirs
      OBVIOUS
    <3> HIDE DEF t
    <3> QED BY <2>10, <2>11, <2>12, <3>1, <3>2, <3>3
  <2> HIDE DEF t, e, s
  <2>14. WholeText(out) /\ ~Unended(out)
    BY <1>1, <1>6 DEF Progress, EndsOpen, Unended
  <2>15. Cat(out, t) \in Seq(Line) /\ WholeText(Cat(out, t)) /\ (Unended(Cat(out, t)) => e = Len(base))
    <3>1. /\ WholeText(Cat(out, t)) <=> WholeText(out) /\ WholeText(t) /\ (t = <<>> \/ ~Unended(out))
          /\ Unended(Cat(out, t)) <=> IF t = <<>> THEN Unended(out) ELSE Unended(t)
      BY <1>2, <2>13, WholeCat
    <3> QED BY <1>2, <2>13, <2>14, <3>1, CatType
  <2>16. Progress'
    BY <1>3, <2>1, <2>5, <2>6, <2>8, <2>9, <2>15 DEF Progress
  <2>17. TypeOK'
    <3>1. pos' \in 0..Len(base') /\ out' \in Seq(Line)
      BY <1>2, <1>3, <2>1, <2>15 DEF e
    <3>2. i' \in 0..mi' /\ j' \in 0..tj'
      BY <1>2, <1>3, <2>1
    <3> QED BY <1>1, <1>3, <2>1, <3>1, <3>2 DEF TypeOK
  <2>18. verdict' = "none"
    BY <1>0, <2>1 DEF Inv
  <2> QED BY <1>4, <2>1, <2>16, <2>17, <2>18 DEF Inv
<1> QED BY <1>5, <1>6

(* EmitRest keeps it: what is merged is both sides' changes.                *)
LEMMA EmitRestStep == Inv /\ EmitRest => Inv'
<1> SUFFICES ASSUME Inv, EmitRest PROVE Inv'
  OBVIOUS
<1>1. TypeOK /\ base \in Base /\ step = "seed" /\ Side(base, M) /\ Side(base, T) /\ Progress
  BY DEF Inv, EmitRest
<1>2. /\ base \in Seq(Line) /\ WholeText(base) /\ Len(base) \in Nat
      /\ mi \in 0..Len(M) /\ i \in 0..mi /\ tj \in 0..Len(T) /\ j \in 0..tj
      /\ pos \in 0..Len(base) /\ out \in Seq(Line)
  BY <1>1, Numbers
<1>3. Len(M) \in Nat
  BY <1>1, <1>2, SideOf
<1>4. Len(T) \in Nat
  BY <1>1, <1>2, SideOf
<1>5. i = Len(M) /\ j = Len(T) /\ i \in 0..Len(M) /\ j \in 0..Len(T)
  BY <1>2, <1>3, <1>4 DEF EmitRest, MineLeft, TheirsLeft
<1>6. ~ (pos < Len(base) /\ EndsOpen)
  <2>1. EndsOpen => pos = Len(base)
    BY <1>1 DEF Progress, EndsOpen, Unended
  <2> QED BY <1>2, <2>1
<1> DEFINE N == Len(base)  w == SubSeq(base, pos + 1, N)
<1>7. UNCHANGED <<base, M, T, i, j, mi, tj, envelope>> /\ step' = "done" /\ verdict' = "merged"
      /\ out' = Cat(out, w) /\ pos' = N
  BY <1>6 DEF EmitRest, Finish, inputs, lists, Unchanged, Cat
<1>8. N \in pos..Len(base) /\ N \in 0..Len(base)
  BY <1>2
<1>9. Cat(out, w) \in Seq(Line) /\ WholeText(Cat(out, w))
  BY <1>1, <1>2, <1>8, Poured DEF Progress
<1>10. Parted(M, i, pos) /\ Parted(T, j, pos)
  BY <1>1 DEF Progress
<1> HIDE DEF N, w
<1>11. Text(base, Taken(M, T, 0, i, 0, j), 0, N) = Cat(out, w)
  BY <1>1, <1>2, <1>5, <1>8, <1>10, Flushed DEF Progress, w
<1>12. Text(base, Taken(T, M, 0, j, 0, i), 0, N) = Cat(out, w)
  BY <1>1, <1>2, <1>5, <1>8, <1>10, Flushed DEF Progress, w
<1>13. Taken(M, T, 0, i, 0, j) = Range(M) \cup TheirsApart
  <2>1. Taken(M, T, 0, Len(M), 0, Len(T)) = Range(M) \cup ApartFrom(T, M)
    BY <1>1, <1>2, TakenAll
  <2> QED BY <1>5, <2>1 DEF TheirsApart, ApartFrom
<1>14. Taken(T, M, 0, j, 0, i) = Range(T) \cup MineApart
  <2>1. Taken(T, M, 0, Len(T), 0, Len(M)) = Range(T) \cup ApartFrom(M, T)
    BY <1>1, <1>2, TakenAll
  <2>2. MineApart = ApartFrom(M, T)
    BY DEF MineApart, ApartFrom, Touch
  <2> QED BY <1>5, <2>1, <2>2
<1>15. BothSidesApplied'
  <2>1. All(Range(M) \cup TheirsApart)' = Text(base, Range(M) \cup TheirsApart, 0, N)
    BY <1>7 DEF All, TheirsApart, N
  <2>2. All(Range(T) \cup MineApart)' = Text(base, Range(T) \cup MineApart, 0, N)
    BY <1>7 DEF All, MineApart, N
  <2>3. out' = All(Range(M) \cup TheirsApart)' /\ out' = All(Range(T) \cup MineApart)'
    BY <1>7, <1>11, <1>12, <1>13, <1>14, <2>1, <2>2
  <2> QED BY <2>3 DEF BothSidesApplied
<1>16. NoLineFused'
  BY <1>7, <1>9 DEF NoLineFused
<1>17. ConflictIsGenuine'
  BY <1>7 DEF ConflictIsGenuine
<1>18. TypeOK'
  BY <1>1, <1>7, <1>8, <1>9 DEF TypeOK
<1>19. Side(base, M)' /\ Side(base, T)' /\ base' \in Base
  BY <1>1, <1>7
<1> QED BY <1>7, <1>15, <1>16, <1>17, <1>18, <1>19 DEF Inv, Answered

(* A stuttering step keeps it.                                              *)
LEMMA StutterStep == Inv /\ UNCHANGED vars => Inv'
<1> SUFFICES ASSUME Inv, UNCHANGED vars PROVE Inv'
  OBVIOUS
<1>1. UNCHANGED <<base, mine, theirs, M, T, step, out, pos, i, j, mi, tj, envelope, verdict>>
  BY DEF vars, inputs, lists
<1>2. TypeOK'
  BY <1>1 DEF TypeOK, Inv
<1>3. Progress <=> Progress'
  BY <1>1 DEF Progress
<1>4. Untouched <=> Untouched'
  BY <1>1 DEF Untouched
<1>5. Answered => Answered'
  <2>1. TheirsApart' = TheirsApart /\ MineApart' = MineApart
    BY <1>1 DEF TheirsApart, MineApart
  <2>2. BothSidesApplied => BothSidesApplied'
    BY <1>1, <2>1 DEF BothSidesApplied, All
  <2>3. NoLineFused => NoLineFused'
    BY <1>1 DEF NoLineFused
  <2>4. ConflictIsGenuine => ConflictIsGenuine'
    <3>1. CASE verdict = "conflict"
      BY <1>1, <3>1, GenuineStays DEF ConflictIsGenuine, Genuine
    <3>2. CASE verdict # "conflict"
      BY <1>1, <3>2 DEF ConflictIsGenuine
    <3> QED BY <3>1, <3>2
  <2> QED BY <2>2, <2>3, <2>4 DEF Answered
<1>6. Grown(M, T, i, mi, j, tj, envelope)' <=> Grown(M, T, i, mi, j, tj, envelope)
  BY <1>1
<1>7. Side(base, M)' <=> Side(base, M)
  BY <1>1
<1>8. Side(base, T)' <=> Side(base, T)
  BY <1>1
<1> QED BY <1>1, <1>2, <1>3, <1>4, <1>5, <1>6, <1>7, <1>8 DEF Inv

(* Every step keeps it.                                                     *)
LEMMA StepInv == Inv /\ [Next]_vars => Inv'
BY CompareStep, SeedMineStep, SeedTheirsStep, FlushStep, GrowMineStep, GrowTheirsStep,
   DecideStep, EmitRestStep, StutterStep DEF Next

(* The invariant holds of every run of merge3().                            *)
LEMMA InvHolds == Spec => []Inv
BY InitInv, StepInv, PTL DEF Spec

(* Whatever the base and the scripts, the counters, the region and the text *)
(* of merge3() stay within the inputs.                                      *)
THEOREM TypeCorrect == Spec => []TypeOK
<1>1. Inv => TypeOK
  BY DEF Inv
<1> QED BY <1>1, InvHolds, PTL

(* No cluster begins behind the cursor: merge3()'s bail for one is never    *)
(* taken.                                                                   *)
THEOREM CursorNeverPassed == Spec => []NeverBehindCursor
<1>1. Inv => NeverBehindCursor
  BY DEF Inv, NeverBehindCursor
<1> QED BY <1>1, InvHolds, PTL

(* The invariant gives what the verdict promises; before one there is       *)
(* nothing to promise.                                                      *)
LEMMA InvAnswers == Inv => Answered
<1>1. ASSUME verdict = "none" PROVE Answered
  BY <1>1 DEF Answered, BothSidesApplied, NoLineFused, ConflictIsGenuine
<1> QED BY <1>1 DEF Inv

(* A merge of merge3() is mine with every change of theirs that touches     *)
(* none of mine, and theirs with every change of mine that touches none of  *)
(* theirs, for every pair of edit scripts a diff may answer.                *)
THEOREM MergeTakesBothSides == Spec => []BothSidesApplied
<1>1. Inv => BothSidesApplied
  BY InvAnswers DEF Answered
<1> QED BY <1>1, InvHolds, PTL

(* A merge of merge3() never appends to a line without terminator.          *)
THEOREM MergeKeepsLinesApart == Spec => []NoLineFused
<1>1. Inv => NoLineFused
  BY InvAnswers DEF Answered
<1> QED BY <1>1, InvHolds, PTL

(* merge3() reports a conflict only where the two sides made different      *)
(* texts of one linked region, or where merging would fuse two lines.       *)
THEOREM ConflictsAreGenuine == Spec => []ConflictIsGenuine
<1>1. Inv => ConflictIsGenuine
  BY InvAnswers DEF Answered
<1> QED BY <1>1, InvHolds, PTL

(* The bails of merge3() for an edit script out of order, for a cluster     *)
(* behind the cursor and for base lines behind an open one are never taken: *)
(* a conflict comes of a complete cluster and of nothing else.              *)
THEOREM OnlyClustersConflict ==
  Spec => [][verdict = "none" /\ verdict' = "conflict" => Decide /\ ~(envelope.start < pos)]_vars
<1>1. ASSUME Inv, [Next]_vars, verdict = "none", verdict' = "conflict"
      PROVE  Decide /\ ~(envelope.start < pos)
  <2>1. verdict' # verdict
    BY <1>1
  <2>2. Next
    BY <1>1, <2>1 DEF vars
  <2>3. ~Compare
    <3> SUFFICES ASSUME Compare PROVE FALSE
      OBVIOUS
    <3>1. Untouched /\ base \in Base
      BY <1>1 DEF Inv, Compare
    <3>2. InOrder(Changes(mine)) /\ InOrder(Changes(theirs))
      BY <3>1, Scripted DEF Untouched
    <3> QED BY <1>1, <3>2 DEF Compare, Finish, Goto
  <2>4. ~SeedMine /\ ~SeedTheirs /\ ~GrowMine /\ ~GrowTheirs
    BY <2>1 DEF SeedMine, SeedTheirs, GrowMine, GrowTheirs, Goto
  <2>5. EndsOpen /\ step \in {"seed", "flush"} => ~(pos < Len(base))
    <3> SUFFICES ASSUME EndsOpen, step \in {"seed", "flush"} PROVE pos = Len(base) /\ Len(base) \in Nat
      OBVIOUS
    <3>1. Progress /\ TypeOK /\ base \in Base
      BY <1>1 DEF Inv
    <3> QED BY <3>1, Numbers DEF Progress, EndsOpen, Unended
  <2>6. ~Flush
    <3> SUFFICES ASSUME Flush PROVE FALSE
      OBVIOUS
    <3>1. pos < envelope.start /\ EndsOpen /\ step = "flush"
      BY <2>1 DEF Flush, Goto
    <3>2. TypeOK /\ base \in Base
      BY <1>1 DEF Inv
    <3>3. envelope.start \in Nat /\ envelope.end \in Nat /\ Len(base) \in Nat /\ pos \in 0..Len(base)
          /\ envelope.start <= envelope.end /\ envelope.end <= Len(base)
      BY <3>2, Numbers
    <3> QED BY <2>5, <3>1, <3>3
  <2>7. ~EmitRest
    <3> SUFFICES ASSUME EmitRest PROVE FALSE
      OBVIOUS
    <3>1. pos < Len(base) /\ EndsOpen /\ step = "seed"
      BY <1>1 DEF EmitRest, Finish
    <3> QED BY <2>5, <3>1
  <2>8. Decide
    BY <2>2, <2>3, <2>4, <2>6, <2>7 DEF Next
  <2>9. pos = envelope.start /\ TypeOK /\ base \in Base
    BY <1>1, <2>8 DEF Inv, Decide
  <2> QED BY <2>8, <2>9, Numbers
<1> QED BY <1>1, InvHolds, PTL DEF Spec

(* What merge3() merges is what the diff says: the changes of a side are in *)
(* order and apart without being sorted, and made on the base they give     *)
(* the text of the side, wherever the library says an insertion stands.     *)
THEOREM ChangesMakeTheSide ==
  \A b \in Base : \A hunks \in Scripts(b) :
    /\ Changes(hunks) = [k \in DOMAIN hunks |-> Change(hunks[k], Cursor(hunks, k))]
    /\ InOrder(Changes(hunks))
    /\ Applied(b, hunks) = Text(b, Range(Changes(hunks)), 0, Len(b))
BY Scripted
=============================================================================
