------------------------------- MODULE Retention -------------------------------
(***************************************************************************)
(* prune() of crates/snapshots: which versions of a note are kept as time  *)
(* passes.  A version is a record with the time at it was recorded and its *)
(* number no in the order of recording; a manifest is a set of versions.   *)
(***************************************************************************)
EXTENDS Integers

CONSTANTS Hour, Day, Week, Month   \* the windows, in the clock's units

ASSUME WindowAssumption ==
  /\ {Hour, Day, Week, Month} \subseteq Nat \ {0}
  /\ Hour <= Day /\ Day <= Week /\ Week <= Month

Age(v, now) == IF v.at < now THEN now - v.at ELSE 0

BucketKey(age) ==
  IF age < Day THEN <<0, 0>>
  ELSE IF age < Week THEN <<1, age \div Hour>>
  ELSE IF age < Month THEN <<2, age \div Day>>
  ELSE <<3, age \div Week>>

Before(v, w) == v.at < w.at \/ (v.at = w.at /\ v.no < w.no)

Oldest(v, versions) == \A w \in versions : ~Before(w, v)
Newest(v, versions) == \A w \in versions : ~Before(v, w)

SameBucket(v, w, now) == BucketKey(Age(v, now)) = BucketKey(Age(w, now))

NewestInBucket(v, versions, now) ==
  Newest(v, {w \in versions : SameBucket(v, w, now)})

(* Mutant: the oldest of a bucket is kept in the place of the newest.      *)
PruneNewest(versions, now) ==
  {v \in versions :
    \/ Oldest(v, versions) \/ Age(v, now) < Day
    \/ Oldest(v, {w \in versions : SameBucket(v, w, now)})}

(* prune(): two versions or fewer are an oldest and a newest.              *)
Prune(versions, now) ==
  {v \in versions :
    \/ Oldest(v, versions) \/ Newest(v, versions)
    \/ Age(v, now) < Day
    \/ NewestInBucket(v, versions, now)}

(* A thinning as the documentation puts it: a version goes only when it is *)
(* a day old, is not the oldest, and leaves a newer one of its bucket.     *)
LegalThinning(kept, all, now) ==
  /\ kept \subseteq all
  /\ \A v \in all \ kept :
       /\ Age(v, now) >= Day
       /\ \E w \in kept : Before(w, v)
       /\ \E w \in kept : Before(v, w) /\ SameBucket(v, w, now)
=============================================================================
