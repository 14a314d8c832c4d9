----------------------------- MODULE Scene_proofs -----------------------------
(***************************************************************************)
(* What every store and every tracker relies on, for scenes of any size    *)
(* and stamps of any value: that patches may arrive late, twice and in any *)
(* order (packages/contract/src/reconcile.ts:1-12), and what a tracker's   *)
(* patch says of the elements it looks at (autosave/sceneDiff.ts).         *)
(***************************************************************************)
EXTENDS SceneDiff, SequenceTheorems, FiniteSetTheorems, TLAPS

(* A tie is two copies of an element that the stamps cannot tell apart.     *)
(* Only copies that are the same may tie: a nonce is drawn per edit.        *)
Tie(x, y) == x # Absent /\ y # Absent /\ ~IsNewer(x, y) /\ ~IsNewer(y, x)

TieFree(s, t) == \A id \in Ids : Tie(s[id], t[id]) => s[id] = t[id]

Older(x, y) == x = Absent \/ (y # Absent /\ ~IsNewer(x, y))

(* "Is newer" orders stamps: it is asymmetric, and its negation transitive. *)
LEMMA NewerIsAsymmetric ==
    ASSUME NEW x \in Element, NEW y \in Element, IsNewer(x, y)
    PROVE  ~IsNewer(y, x)
  BY DEF IsNewer, Element

LEMMA NotNewerIsTransitive ==
    ASSUME NEW x \in Element, NEW y \in Element, NEW z \in Element,
           ~IsNewer(x, y), ~IsNewer(y, z)
    PROVE  ~IsNewer(x, z)
  BY DEF IsNewer, Element

LEMMA MergeIsScene ==
    ASSUME NEW s \in Scene, NEW t \in Scene
    PROVE  Merge(s, t) \in Scene
  BY DEF Scene, Merge

(* One slot of Merge(Merge(base, p), q). *)
Pick(x, y) == IF Takes(y, x) THEN y ELSE x

LEMMA PickCommutes ==
    ASSUME NEW x \in Entry, NEW y \in Entry, NEW z \in Entry, Tie(y, z) => y = z
    PROVE  Pick(Pick(x, y), z) = Pick(Pick(x, z), y)
  <1>1. CASE y = Absent \/ z = Absent
    BY <1>1 DEF Pick, Takes
  <1>2. CASE y # Absent /\ z # Absent /\ x = Absent
    <2>1. y \in Element /\ z \in Element
      BY <1>2 DEF Entry
    <2>2. QED
      BY <1>2, <2>1, NewerIsAsymmetric DEF Pick, Takes, Tie
  <1>3. CASE y # Absent /\ z # Absent /\ x # Absent
    <2>1. x \in Element /\ y \in Element /\ z \in Element
      BY <1>3 DEF Entry
    <2>2. IsNewer(y, x) /\ ~IsNewer(z, x) => ~IsNewer(z, y)
      BY <2>1, NotNewerIsTransitive, NewerIsAsymmetric
    <2>3. IsNewer(z, x) /\ ~IsNewer(y, x) => ~IsNewer(y, z)
      BY <2>1, NotNewerIsTransitive, NewerIsAsymmetric
    <2>4. QED
      BY <1>3, <2>1, <2>2, <2>3, NewerIsAsymmetric DEF Pick, Takes, Tie
  <1>4. QED
    BY <1>1, <1>2, <1>3

(* reconcile.ts:6-8: two patches leave the same scene whichever of them     *)
(* arrives first, whatever was stored before them.                          *)
THEOREM MergeCommutes ==
    ASSUME NEW base \in Scene, NEW p \in Scene, NEW q \in Scene, TieFree(p, q)
    PROVE  Merge(Merge(base, p), q) = Merge(Merge(base, q), p)
  <1>1. ASSUME NEW id \in Ids
        PROVE  /\ Merge(Merge(base, p), q)[id] = Pick(Pick(base[id], p[id]), q[id])
               /\ Merge(Merge(base, q), p)[id] = Pick(Pick(base[id], q[id]), p[id])
               /\ Pick(Pick(base[id], p[id]), q[id]) = Pick(Pick(base[id], q[id]), p[id])
    <2>1. base[id] \in Entry /\ p[id] \in Entry /\ q[id] \in Entry
      BY DEF Scene
    <2>2. Tie(p[id], q[id]) => p[id] = q[id]
      BY DEF TieFree
    <2>3. /\ Merge(Merge(base, p), q)[id] = Pick(Pick(base[id], p[id]), q[id])
          /\ Merge(Merge(base, q), p)[id] = Pick(Pick(base[id], q[id]), p[id])
      BY DEF Merge, Pick
    <2>4. QED
      BY <2>1, <2>2, <2>3, PickCommutes
  <1>2. \A id \in Ids : Merge(Merge(base, p), q)[id] = Merge(Merge(base, q), p)[id]
    BY <1>1
  <1>3. QED
    BY <1>2 DEF Merge

(* A patch that lands twice, with others in between or not, changes nothing *)
(* the second time (split.ts:22-23, the retries of the autosaver).          *)
THEOREM MergeAbsorbs ==
    ASSUME NEW base \in Scene, NEW p \in Scene, NEW q \in Scene
    PROVE  Merge(Merge(Merge(base, p), q), p) = Merge(Merge(base, p), q)
  <1>1. ASSUME NEW id \in Ids
        PROVE  ~Takes(p[id], Merge(Merge(base, p), q)[id])
    <2> DEFINE first == Pick(base[id], p[id])
               second == Pick(first, q[id])
    <2>1. base[id] \in Entry /\ p[id] \in Entry /\ q[id] \in Entry
      BY DEF Scene
    <2>2. Merge(Merge(base, p), q)[id] = second
      BY DEF Merge, Pick
    <2>3. first \in Entry /\ second \in Entry
      BY <2>1 DEF Pick
    <2>4. Older(p[id], first)
      BY <2>1, NewerIsAsymmetric DEF Older, Pick, Takes, Entry, IsNewer, Element
    <2>5. Older(first, second)
      BY <2>1, <2>3, NewerIsAsymmetric DEF Older, Pick, Takes, Entry, IsNewer, Element
    <2> HIDE DEF first, second
    <2>6. Older(p[id], second)
      BY <2>1, <2>3, <2>4, <2>5, NotNewerIsTransitive DEF Older, Entry
    <2>7. QED
      BY <2>2, <2>6 DEF Older, Takes
  <1>2. QED
    BY <1>1 DEF Merge

-----------------------------------------------------------------------------
(* The order of stamps, with "not there" below all of them. *)
LEMMA OlderIsTransitive ==
    ASSUME NEW x \in Entry, NEW y \in Entry, NEW z \in Entry, Older(x, y), Older(y, z)
    PROVE  Older(x, z)
  BY NotNewerIsTransitive DEF Older, Entry

LEMMA OlderIsReflexive ==
    ASSUME NEW x \in Entry
    PROVE  Older(x, x)
  BY NewerIsAsymmetric DEF Older, Entry

(* The same copy, whatever became of its picture. *)
Alike(x, y) ==
    \/ x = Absent /\ y = Absent
    \/ /\ x # Absent /\ y # Absent
       /\ x.version = y.version /\ x.versionNonce = y.versionNonce
       /\ x.updated = y.updated /\ x.isDeleted = y.isDeleted

LEMMA AlikeInOrder ==
    ASSUME NEW x \in Entry, NEW y \in Entry, NEW z \in Entry, Alike(x, y)
    PROVE  /\ Older(x, z) <=> Older(y, z)
           /\ Older(z, x) <=> Older(z, y)
           /\ IsLive(x) <=> IsLive(y)
           /\ Older(x, y) /\ Older(y, x)
  <1>1. CASE x = Absent
    BY <1>1 DEF Alike, Older, IsLive
  <1>2. CASE x # Absent
    <2>1. /\ x \in Element /\ y \in Element /\ y # Absent
          /\ x.version = y.version /\ x.versionNonce = y.versionNonce
          /\ x.updated = y.updated /\ x.isDeleted = y.isDeleted
      BY <1>2 DEF Alike, Entry
    <2>2. /\ IsNewer(x, z) <=> IsNewer(y, z)
          /\ IsNewer(z, x) <=> IsNewer(z, y)
          /\ ~IsNewer(x, y) /\ ~IsNewer(y, x)
      BY <2>1 DEF IsNewer, Element
    <2>3. QED
      BY <1>2, <2>1, <2>2 DEF Older, IsLive
  <1>3. QED
    BY <1>1, <1>2

(* x is a copy that a page had before y, or the one it has in y.            *)
Counts(x, y) ==
    x # Absent =>
        /\ y # Absent
        /\ \/ x.version < y.version
           \/ /\ x.version = y.version /\ x.isDeleted = y.isDeleted
              /\ y.isDeleted \/ x.versionNonce = y.versionNonce

LEMMA AlikeCounts ==
    ASSUME NEW x, NEW y, NEW z, Alike(x, y), Counts(y, z)
    PROVE  Counts(x, z)
  BY DEF Alike, Counts

LEMMA CountsOn ==
    ASSUME NEW x \in Entry, NEW y \in Entry, NEW z \in Element, z # Absent, Counts(x, y),
           y # Absent => y.version < z.version
    PROVE  Counts(x, z)
  BY DEF Counts, Entry, Element

-----------------------------------------------------------------------------
(* The tracker. *)

(* No stamp of these carries a clock: the engine and the saver draw none in  *)
(* the models that use it.                                                  *)
Timeless(elements) == \A id \in Ids : elements[id] # Absent => elements[id].updated = 0

LEMMA Restamped ==
    ASSUME NEW e \in Element, NEW v \in Nat, NEW n \in Nat
    PROVE  LET new == [e EXCEPT !.version = v, !.versionNonce = n]
           IN  new \in Element /\ new.isDeleted = e.isDeleted /\ new.picture = e.picture
  BY DEF Element

LEMMA Buried ==
    ASSUME NEW e \in Element, NEW n \in Nat
    PROVE  /\ TombstoneOf(e, n) \in Element
           /\ TombstoneOf(e, n).isDeleted /\ TombstoneOf(e, n).picture = NoPicture
           /\ TombstoneOf(e, n).updated = e.updated
           /\ TombstoneOf(e, n).version = e.version + 1
  <1> DEFINE v == e.version + 1
             one == [e EXCEPT !.isDeleted = TRUE, !.version = v]
  <1>1. v \in Nat
    BY DEF Element
  <1>2. TombstoneOf(e, n) = [one EXCEPT !.versionNonce = n, !.picture = NoPicture]
    BY DEF TombstoneOf
  <1> HIDE DEF v
  <1>3. one \in Element /\ one.isDeleted /\ one.updated = e.updated /\ one.version = v
    BY <1>1 DEF Element
  <1> HIDE DEF one
  <1>4. QED
    BY <1>2, <1>3 DEF Element, v

(* What a change noted brings: the element as shown, or newer; nothing when *)
(* the copy has it.                                                         *)
LEMMA ChangeBrings ==
    ASSUME NEW before \in Scene, NEW s \in Scene, NEW id \in Ids, NEW nonce \in Nat,
           s[id] = Absent \/ LiveOf(s, id), Timeless(before), Timeless(s)
    PROVE  LET change == Change([known |-> before], s, id, nonce)
           IN  /\ change # Absent => change.updated = 0 /\ Older(s[id], change)
               /\ Older(s[id], change) \/ Older(s[id], before[id])
  <1> DEFINE previous == before[id]
             change == Change([known |-> before], s, id, nonce)
  <1>1. previous \in Entry /\ s[id] \in Entry
    BY DEF Scene
  <1>2. CASE LiveOf(s, id)
    <2>1. s[id] \in Element /\ s[id] # Absent /\ s[id].updated = 0
      BY <1>1, <1>2 DEF LiveOf, IsLive, Entry, Timeless
    <2>2. change = ChangeOf([known |-> before], s[id], id, nonce)
      BY <1>2 DEF Change
    <2>3. CASE change = s[id]
      BY <1>1, <2>1, <2>3, OlderIsReflexive
    <2>4. CASE change = Absent /\ previous # Absent /\ SameStamp(previous, s[id])
      <3>1. previous \in Element /\ previous.updated = 0
        BY <1>1, <2>4 DEF Entry, Timeless
      <3>2. QED
        BY <2>1, <2>4, <3>1 DEF SameStamp, Older, IsNewer, Element
    <2>5. CASE /\ previous # Absent /\ s[id].version <= previous.version
               /\ change = [s[id] EXCEPT !.version = previous.version + 1,
                                         !.versionNonce = nonce]
      <3> DEFINE v == previous.version + 1
                 e == s[id]
      <3>1. v \in Nat /\ v > e.version
        BY <1>1, <2>1, <2>5 DEF Entry, Element
      <3>2. e \in Element /\ change = [e EXCEPT !.version = v, !.versionNonce = nonce]
        BY <2>1, <2>5
      <3>3. change \in Element /\ change.version = v /\ change.updated = e.updated
        <4> HIDE DEF v, e, change
        <4>1. QED
          BY <3>1, <3>2 DEF Element
      <3>4. e.version \in Nat /\ change # Absent
        BY <3>2, <3>3, ReconcileAssumption DEF Element
      <3>5. ~IsNewer(e, change)
        <4> HIDE DEF v, e, change
        <4>1. QED
          BY <3>1, <3>3, <3>4 DEF IsNewer
      <3>6. QED
        BY <2>1, <3>3, <3>4, <3>5 DEF Older
    <2>6. QED
      BY <2>2, <2>3, <2>4, <2>5 DEF ChangeOf
  <1>3. CASE s[id] = Absent
    <2>1. Older(s[id], change)
      BY <1>3 DEF Older
    <2>2. CASE LiveOf(before, id)
      <3>1. change = TombstoneOf(previous, nonce)
        BY <1>3, <2>2 DEF Change, LiveOf, IsLive
      <3>2. previous \in Element /\ previous.updated = 0
        BY <1>1, <2>2 DEF LiveOf, IsLive, Entry, Timeless
      <3>3. change.updated = 0
        BY <3>1, <3>2, Buried
      <3>4. QED
        BY <2>1, <3>3
    <2>3. CASE ~LiveOf(before, id)
      BY <1>3, <2>1, <2>3 DEF Change, LiveOf, IsLive
    <2>4. QED
      BY <2>2, <2>3
  <1>4. QED
    BY <1>2, <1>3

(* What a change says of life and death: nothing when the copy agrees; a    *)
(* tombstone only of what the copy has alive; and what turns the one into   *)
(* the other is stamped above what the copy has.  On a page that counts one *)
(* version up with each change, so is every change.                         *)
Gone(elements, id) == elements[id] # Absent /\ elements[id].isDeleted

LEMMA ChangeFlips ==
    ASSUME NEW before \in Scene, NEW s \in Scene, NEW id \in Ids, NEW nonce \in Nat
    PROVE  LET change == Change([known |-> before], s, id, nonce)
           IN  /\ change = Absent => (LiveOf(before, id) <=> LiveOf(s, id))
               /\ change # Absent =>
                     /\ IsLive(change) <=> LiveOf(s, id)
                     /\ change.isDeleted =>
                           LiveOf(before, id) /\ change.version > before[id].version
                     /\ ~change.isDeleted /\ Gone(before, id) =>
                           change.version > before[id].version
                     /\ HasPicture(change) => HasPicture(s[id])
               /\ Counts(before[id], s[id]) =>
                     /\ Counts(change, s[id])
                     /\ change # Absent /\ before[id] # Absent =>
                           change.version > before[id].version
  <1> DEFINE previous == before[id]
             change == Change([known |-> before], s, id, nonce)
             e == s[id]
  <1>1. /\ previous \in Entry /\ e \in Entry
        /\ previous # Absent => previous \in Element
        /\ e # Absent => e \in Element
    BY DEF Scene, Entry
  <1>2. CASE LiveOf(s, id)
    <2>1. /\ e \in Element /\ e # Absent /\ ~e.isDeleted
          /\ change = ChangeOf([known |-> before], e, id, nonce)
      BY <1>1, <1>2 DEF LiveOf, IsLive, Change
    <2>2. CASE /\ change = e
               /\ previous = Absent
                  \/ /\ ~(previous.isDeleted /\ e.version <= previous.version)
                     /\ ~SameStamp(previous, e)
      <3>1. CASE previous = Absent
        <4>1. change = e /\ Counts(e, e) /\ IsLive(e) /\ Counts(previous, e)
              /\ ~Gone(before, id) /\ ~LiveOf(before, id)
          BY <2>1, <2>2, <3>1 DEF Counts, Gone, IsLive, LiveOf
        <4> HIDE DEF change
        <4>2. QED
          BY <1>2, <2>1, <3>1, <4>1 DEF change
      <3>2. CASE previous # Absent
        <4>1. previous \in Element
          BY <1>1, <3>2
        <4>2. previous.isDeleted => e.version > previous.version
          BY <2>1, <2>2, <3>2, <4>1 DEF Element
        <4>3. Counts(previous, e) => e.version > previous.version
          <5>1. previous.version \in Nat /\ e.version \in Nat
            BY <2>1, <4>1 DEF Element
          <5>2. QED
            BY <2>1, <2>2, <3>2, <4>2, <5>1 DEF Counts, SameStamp
        <4>4. Counts(e, e) /\ IsLive(e)
          BY <2>1 DEF Counts, IsLive
        <4>5. QED
          BY <1>2, <2>1, <2>2, <3>2, <4>2, <4>3, <4>4 DEF Gone
      <3>3. QED
        BY <3>1, <3>2
    <2>3. CASE /\ change = Absent /\ previous # Absent /\ SameStamp(previous, e)
               /\ ~(previous.isDeleted /\ e.version <= previous.version)
      <3>1. previous \in Element
        BY <1>1, <2>3
      <3>2. ~previous.isDeleted
        BY <2>1, <2>3, <3>1 DEF SameStamp, Element
      <3>3. QED
        BY <1>2, <2>3, <3>2 DEF Counts, LiveOf, IsLive
    <2>4. CASE /\ previous # Absent /\ previous.isDeleted /\ e.version <= previous.version
               /\ change = [e EXCEPT !.version = previous.version + 1,
                                     !.versionNonce = nonce]
      <3> DEFINE v == previous.version + 1
      <3>1. v \in Nat /\ v > previous.version /\ previous.version \in Nat /\ e.version \in Nat
        BY <1>1, <2>1, <2>4 DEF Element
      <3>2. /\ change \in Element /\ change.isDeleted = e.isDeleted
            /\ change.picture = e.picture /\ change.version = v
        <4>1. e \in Element /\ change = [e EXCEPT !.version = v, !.versionNonce = nonce]
          BY <2>1, <2>4
        <4> HIDE DEF v, e, change
        <4>2. QED
          BY <3>1, <4>1 DEF Element
      <3>3. change # Absent /\ IsLive(change) /\ (HasPicture(change) => HasPicture(e))
        BY <2>1, <3>2, ReconcileAssumption DEF IsLive, HasPicture
      <3>4. ~Counts(previous, e)
        <4>1. previous # Absent /\ previous.isDeleted /\ e.version <= previous.version
          BY <2>4
        <4> HIDE DEF change, e, previous, v
        <4>2. ~(previous.version < e.version)
          BY <3>1, <4>1
        <4>3. previous.isDeleted # e.isDeleted
          BY <2>1, <4>1
        <4>4. QED
          BY <4>1, <4>2, <4>3 DEF Counts
      <3>5. ~change.isDeleted /\ change.version > previous.version
        BY <2>1, <3>1, <3>2
      <3> HIDE DEF v, change
      <3>6. QED
        BY <1>2, <3>3, <3>4, <3>5 DEF change
    <2>5. QED
      BY <2>1, <2>2, <2>3, <2>4 DEF ChangeOf
  <1>3. CASE ~LiveOf(s, id) /\ LiveOf(before, id)
    <2>1. previous \in Element /\ previous # Absent /\ ~previous.isDeleted
      BY <1>1, <1>3 DEF LiveOf, IsLive
    <2>2. change = TombstoneOf(previous, nonce)
      BY <1>3 DEF Change
    <2>3. /\ change \in Element /\ change.isDeleted /\ change.picture = NoPicture
          /\ change.version = previous.version + 1
      <3> HIDE DEF change, previous
      <3>1. QED
        BY <2>1, <2>2, Buried
    <2>4. change # Absent /\ ~IsLive(change) /\ ~HasPicture(change)
      BY <2>3, ReconcileAssumption DEF IsLive, HasPicture
    <2>5. change.version > previous.version /\ previous.version \in Nat
      BY <2>1, <2>3 DEF Element
    <2>6. Counts(previous, e) => Counts(change, e)
      <3>1. ASSUME Counts(previous, e)
            PROVE  Counts(change, e)
        <4>1. e # Absent /\ e.isDeleted
          BY <1>3, <2>1, <3>1 DEF Counts, LiveOf, IsLive
        <4>2. e \in Element /\ previous.version < e.version
          BY <1>1, <2>1, <3>1, <4>1 DEF Counts
        <4>3. change.version < e.version \/ change.version = e.version
          BY <2>3, <2>5, <4>2 DEF Element
        <4>4. QED
          BY <2>3, <4>1, <4>3 DEF Counts
      <3>2. QED
        BY <3>1
    <2> HIDE DEF change
    <2>7. QED
      BY <1>3, <2>3, <2>4, <2>5, <2>6 DEF change
  <1>4. CASE ~LiveOf(s, id) /\ ~LiveOf(before, id)
    <2>1. change = Absent
      BY <1>4 DEF Change
    <2>2. QED
      BY <1>4, <2>1 DEF Counts
  <1>5. QED
    BY <1>2, <1>3, <1>4

(* What is alive in a patch comes with the picture the scene has of it, ... *)
LEMMA ChangePictures ==
    ASSUME NEW before \in Scene, NEW s \in Scene, NEW id \in Ids, NEW nonce \in Nat
    PROVE  LET change == Change([known |-> before], s, id, nonce)
           IN  IsLive(change) => s[id] # Absent /\ change.picture = s[id].picture
  <1> DEFINE change == Change([known |-> before], s, id, nonce)
             e == s[id]
             previous == before[id]
             v == previous.version + 1
  <1>1. CASE LiveOf(s, id)
    <2>1. e # Absent /\ e \in Element
      BY <1>1 DEF LiveOf, IsLive, Scene, Entry
    <2>2. \/ change \in {Absent, e}
          \/ change = [e EXCEPT !.version = v, !.versionNonce = nonce]
      BY <1>1 DEF Change, ChangeOf
    <2> HIDE DEF change, e, v
    <2>3. IsLive(change) => change.picture = e.picture
      BY <2>1, <2>2 DEF IsLive, Element
    <2>4. QED
      BY <2>1, <2>3 DEF change, e
  <1>2. CASE ~LiveOf(s, id)
    <2>1. change = Absent \/ (LiveOf(before, id) /\ change = TombstoneOf(previous, nonce))
      BY <1>2 DEF Change
    <2>2. LiveOf(before, id) => previous \in Element
      BY DEF LiveOf, IsLive, Scene, Entry
    <2> HIDE DEF change, previous
    <2>3. ~IsLive(change)
      BY <2>1, <2>2, Buried DEF IsLive
    <2>4. QED
      BY <2>3 DEF change
  <1>3. QED
    BY <1>1, <1>2

-----------------------------------------------------------------------------
(* Lists of ids. *)

(* The places of a list, counted up to one of them: each has its own count. *)
LEMMA CountingUp ==
    ASSUME NEW n \in Nat, NEW at \in SUBSET (1..n)
    PROVE  /\ IsFiniteSet(at) /\ Cardinality(at) \in Nat
           /\ \A i \in at : Cardinality({j \in at : j <= i}) \in 1..Cardinality(at)
           /\ \A i, k \in at :
                 i < k => Cardinality({j \in at : j <= i}) < Cardinality({j \in at : j <= k})
           /\ \A m \in 1..Cardinality(at) : \E i \in at : Cardinality({j \in at : j <= i}) = m
  <1> DEFINE UpTo(i) == {j \in at : j <= i}
             count == [i \in at |-> Cardinality(UpTo(i))]
             all == 1..Cardinality(at)
  <1>0. at \in SUBSET Nat
    OBVIOUS
  <1>1. IsFiniteSet(at) /\ Cardinality(at) \in Nat
    <2>1. IsFiniteSet(1..n)
      BY FS_Interval
    <2>2. QED
      BY <2>1, FS_Subset, FS_CardinalityType
  <1>2. ASSUME NEW i \in at
        PROVE  /\ IsFiniteSet(UpTo(i))
               /\ Cardinality(UpTo(i)) \in Nat /\ Cardinality(UpTo(i)) <= Cardinality(at)
               /\ Cardinality(UpTo(i)) # 0
    <2>1. UpTo(i) \in SUBSET at
      OBVIOUS
    <2>2. i \in UpTo(i)
      OBVIOUS
    <2>3. IsFiniteSet(UpTo(i)) /\ Cardinality(UpTo(i)) <= Cardinality(at)
      BY <1>1, <2>1, FS_Subset
    <2>4. Cardinality(UpTo(i)) # 0
      BY <2>2, <2>3, FS_EmptySet
    <2>5. QED
      BY <2>3, <2>4, FS_CardinalityType
  <1>3. ASSUME NEW i \in at, NEW k \in at, i < k
        PROVE  Cardinality(UpTo(i)) < Cardinality(UpTo(k))
    <2> DEFINE lower == UpTo(i)
               upper == UpTo(k)
    <2>1. lower \in SUBSET upper /\ k \in upper /\ k \notin lower
      <3>1. i \in Nat /\ k \in Nat /\ \A j \in at : j \in Nat
        BY <1>0
      <3>2. \A j \in at : j <= i => j <= k
        BY <1>3, <3>1
      <3>3. k <= k /\ ~(k <= i)
        BY <1>3, <3>1
      <3>4. QED
        BY <3>2, <3>3
    <2>2. /\ Cardinality(UpTo(i)) <= Cardinality(UpTo(k))
          /\ Cardinality(UpTo(i)) # Cardinality(UpTo(k))
      BY <1>2, <2>1, FS_Subset
    <2>3. QED
      BY <1>2, <2>2
  <1>4. IsFiniteSet(all) /\ Cardinality(all) = Cardinality(at)
    BY <1>1, FS_Interval
  <1>5. ASSUME NEW m \in all, \A i \in at : count[i] # m
        PROVE  FALSE
    <2> DEFINE rest == all \ {m}
    <2>1. IsFiniteSet(rest) /\ Cardinality(rest) < Cardinality(at)
      <3>1. m \in all
        OBVIOUS
      <3> HIDE DEF all
      <3>2. IsFiniteSet(rest) /\ Cardinality(rest) = Cardinality(all) - 1
        BY <1>4, <3>1, FS_RemoveElement
      <3>3. QED
        BY <1>1, <1>4, <3>2
    <2>2. count \in [at -> rest]
      BY <1>1, <1>2, <1>5
    <2>3. \A i, k \in at : count[i] = count[k] => i = k
      BY <1>0, <1>2, <1>3
    <2> HIDE DEF count, rest, all
    <2>4. \E i, k \in at : i # k /\ count[i] = count[k]
      BY <1>1, <2>1, <2>2, FS_PigeonHole
    <2>5. QED
      BY <2>3, <2>4
  <1>7. \A m \in all : \E i \in at : Cardinality(UpTo(i)) = m
    BY <1>5
  <1>8. QED
    BY <1>1, <1>2, <1>3, <1>7

(* A filter leaves a list of what the list and the set have in common. *)
LEMMA OnlyFacts ==
    ASSUME NEW list \in Seq(Ids), NEW ids \in SUBSET Ids
    PROVE  /\ Only[ids][list] \in Seq(Ids)
           /\ Range(Only[ids][list]) = Range(list) \cap ids
  <1> DEFINE at == {i \in DOMAIN list : list[i] \in ids}
             Count(i) == Cardinality({j \in at : j <= i})
             all == 1..Cardinality(at)
             Place(m) == CHOOSE i \in at : Count(i) = m
             picked == [m \in all |-> list[Place(m)]]
  <1>1. Len(list) \in Nat /\ DOMAIN list = 1..Len(list) /\ \A i \in DOMAIN list : list[i] \in Ids
    BY LenProperties, ElementOfSeq
  <1>2. at \in SUBSET (1..Len(list))
    BY <1>1
  <1>3. Only[ids][list] = picked
    BY DEF Only
  <1>4. /\ Cardinality(at) \in Nat
        /\ \A i \in at : Count(i) \in all
        /\ \A i, k \in at : i < k => Count(i) < Count(k)
        /\ \A m \in all : \E i \in at : Count(i) = m
    <2> HIDE DEF at
    <2>1. QED
      BY <1>1, <1>2, CountingUp
  <1>5. \A m \in all : Place(m) \in at /\ Count(Place(m)) = m
    <2> HIDE DEF at
    <2>1. QED
      BY <1>4
  <1>6. \A i \in at : Place(Count(i)) = i
    <2> HIDE DEF at
    <2>1. at \in SUBSET Nat
      BY <1>1, <1>2
    <2>2. \A i \in at : Count(i) \in Nat
      BY <1>4
    <2> HIDE DEF Count
    <2>3. ASSUME NEW i \in at
          PROVE  Place(Count(i)) = i
      <3>1. Place(Count(i)) \in at /\ Count(Place(Count(i))) = Count(i)
        BY <1>4, <1>5
      <3>2. QED
        BY <1>4, <2>1, <2>2, <3>1
    <2>4. QED
      BY <2>3
  <1>7. \A i \in at : i \in DOMAIN list /\ list[i] \in ids
    OBVIOUS
  <1>8. \A i \in DOMAIN list : list[i] \in ids => i \in at
    OBVIOUS
  <1> HIDE DEF at, Place, Count
  <1>9. picked \in Seq(Ids)
    <2>1. \A m \in all : list[Place(m)] \in Ids
      BY <1>1, <1>5, <1>7
    <2>2. QED
      BY <1>4, <2>1, IsASeq
  <1>10. Range(picked) = Range(list) \cap ids
    <2>1. Range(picked) = {list[Place(m)] : m \in all}
      BY DEF Range
    <2>2. QED
      BY <1>4, <1>5, <1>6, <1>7, <1>8, <2>1 DEF Range
  <1>11. QED
    BY <1>3, <1>9, <1>10

LEMMA EmptyRange == Range(<<>>) = {} /\ <<>> \in Seq(Ids)
  <1>1. <<>> \in Seq(Ids) /\ Len(<<>>) = 0
    BY EmptySeq
  <1>2. DOMAIN <<>> = 1..0
    BY <1>1, LenProperties
  <1>3. QED
    BY <1>1, <1>2 DEF Range

(* A list keeps its order in what is picked of it: m is what the places f   *)
(* of the list hold, and those are all its places with an id in ids.        *)
Picks(f, list, ids, m) ==
    /\ f \in [1..Len(m) -> 1..Len(list)]
    /\ \A n, k \in 1..Len(m) : n < k => f[n] < f[k]
    /\ \A n \in 1..Len(m) : m[n] = list[f[n]] /\ list[f[n]] \in ids
    /\ \A i \in 1..Len(list) : list[i] \in ids => \E n \in 1..Len(m) : f[n] = i

LEMMA OnlyPicks ==
    ASSUME NEW list \in Seq(Ids), NEW ids \in SUBSET Ids
    PROVE  \E f : Picks(f, list, ids, Only[ids][list])
  <1> DEFINE at == {i \in DOMAIN list : list[i] \in ids}
             Count(i) == Cardinality({j \in at : j <= i})
             all == 1..Cardinality(at)
             Place(m) == CHOOSE i \in at : Count(i) = m
             f == [m \in all |-> Place(m)]
             picked == [m \in all |-> list[Place(m)]]
             only == Only[ids][list]
  <1>1. Len(list) \in Nat /\ DOMAIN list = 1..Len(list)
    BY LenProperties
  <1>2. at \in SUBSET (1..Len(list))
    BY <1>1
  <1>3. only = picked
    BY DEF Only
  <1>4. /\ Cardinality(at) \in Nat
        /\ \A i, k \in at : i < k => Count(i) < Count(k)
        /\ \A i \in at : Count(i) \in all
        /\ \A m \in all : \E i \in at : Count(i) = m
    <2> HIDE DEF at
    <2>1. QED
      BY <1>1, <1>2, CountingUp
  <1>5. only \in Seq(Ids)
    BY OnlyFacts
  <1>6. /\ \A i \in at : i \in 1..Len(list) /\ list[i] \in ids
        /\ \A i \in 1..Len(list) : list[i] \in ids => i \in at
    BY <1>1
  <1> HIDE DEF at, Count
  <1>7. \A m \in all : Place(m) \in at /\ Count(Place(m)) = m
    BY <1>4
  <1> HIDE DEF Place, only
  <1>8. 1..Len(only) = all
    <2>1. DOMAIN only = all
      BY <1>3
    <2>2. DOMAIN only = 1..Len(only)
      BY <1>5, LenProperties
    <2>3. QED
      BY <2>1, <2>2
  <1>9. \A m \in all : f[m] = Place(m) /\ only[m] = list[Place(m)]
    BY <1>3
  <1>10. f \in [all -> 1..Len(list)]
    BY <1>6, <1>7
  <1>11. ASSUME NEW n \in all, NEW k \in all, n < k
         PROVE  f[n] < f[k]
    <2>1. f[n] \in Nat /\ f[k] \in Nat /\ f[n] \in at /\ f[k] \in at
          /\ Count(f[n]) = n /\ Count(f[k]) = k /\ n \in Nat /\ k \in Nat
      BY <1>1, <1>4, <1>6, <1>7, <1>9
    <2>2. f[k] < f[n] => k < n
      BY <1>4, <2>1
    <2>3. f[k] = f[n] => k = n
      BY <2>1
    <2> HIDE DEF f
    <2>4. QED
      BY <1>11, <2>1, <2>2, <2>3
  <1>12. ASSUME NEW i \in 1..Len(list), list[i] \in ids
         PROVE  \E n \in all : f[n] = i
    <2> DEFINE n == Count(i)
    <2>1. i \in at /\ n \in all
      BY <1>4, <1>6, <1>12
    <2>2. f[n] \in at /\ Count(f[n]) = n
      BY <1>7, <1>9, <2>1
    <2>3. f[n] \in Nat /\ i \in Nat /\ n \in Nat
      <3>1. n \in Nat
        BY <1>4, <2>1
      <3>2. f[n] \in 1..Len(list)
        BY <1>6, <2>2
      <3> HIDE DEF f, n
      <3>3. QED
        BY <1>1, <3>1, <3>2
    <2>4. /\ i < f[n] => n < Count(f[n])
          /\ f[n] < i => Count(f[n]) < n
      BY <1>4, <2>1, <2>2
    <2> HIDE DEF f
    <2>5. f[n] = i
      <3> HIDE DEF n
      <3>1. QED
        BY <2>2, <2>3, <2>4
    <2>6. QED
      BY <2>1, <2>5
  <1>13. \A n \in all : only[n] = list[f[n]] /\ list[f[n]] \in ids
    BY <1>6, <1>7, <1>9
  <1> HIDE DEF f, all
  <1>14. Picks(f, list, ids, only)
    BY <1>8, <1>10, <1>11, <1>12, <1>13 DEF Picks
  <1>15. QED
    BY <1>14 DEF only

UpTo(at, i) == {j \in at : j <= i}

Upwards(f, a, at) ==
    /\ f \in [1..a -> at]
    /\ \A n, k \in 1..a : n < k => f[n] < f[k]
    /\ \A i \in at : \E n \in 1..a : f[n] = i

(* Numbers listed upwards: each is as many as its place. *)
LEMMA CountOfImage ==
    ASSUME NEW b \in Nat, NEW at \in SUBSET (1..b), NEW a \in Nat, NEW f, Upwards(f, a, at)
    PROVE  /\ Cardinality(at) = a
           /\ \A n \in 1..a : Cardinality(UpTo(at, f[n])) = n
  <1>0. \A n \in 1..a : f[n] \in Nat /\ f[n] \in at /\ n \in Nat
    <2>1. at \in SUBSET Nat
      OBVIOUS
    <2>2. \A n \in 1..a : f[n] \in at
      BY DEF Upwards
    <2>3. \A n \in 1..a : n \in Nat
      OBVIOUS
    <2>4. QED
      BY <2>1, <2>2, <2>3
  <1>01. \A n, k \in 1..a : n < k => f[n] < f[k]
    BY DEF Upwards
  <1>02. \A i \in at : \E n \in 1..a : f[n] = i
    BY DEF Upwards
  <1>1. ASSUME NEW n \in 0..a, NEW S \in SUBSET at,
               \A k \in 1..n : f[k] \in S,
               \A i \in S : \E k \in 1..n : f[k] = i
        PROVE  Cardinality(S) = n
    <2> DEFINE g == [k \in 1..n |-> f[k]]
    <2>1. n \in Nat /\ 1..n \subseteq 1..a
      OBVIOUS
    <2>2. g \in [1..n -> S]
      BY <1>1
    <2>3. \A k, l \in 1..n : g[k] = g[l] => k = l
      <3>1. ASSUME NEW k \in 1..n, NEW l \in 1..n, f[k] = f[l]
            PROVE  k = l
        <4>1. k \in 1..a /\ l \in 1..a
          BY <2>1
        <4>2. f[k] \in Nat /\ f[l] \in Nat /\ k \in Nat /\ l \in Nat
          BY <1>0, <4>1
        <4>3. (k < l => f[k] < f[l]) /\ (l < k => f[l] < f[k])
          BY <1>01, <4>1
        <4>4. QED
          BY <3>1, <4>2, <4>3
      <3>2. QED
        BY <3>1
    <2>4. \A i \in S : \E k \in 1..n : g[k] = i
      BY <1>1
    <2> HIDE DEF g
    <2>5. g \in Bijection(1..n, S)
      BY <2>2, <2>3, <2>4 DEF Bijection, Injection, Surjection, IsInjective
    <2>6. ExistsBijection(1..n, S)
      BY <2>5 DEF ExistsBijection
    <2>7. QED
      BY <2>1, <2>6, FS_CountingElements
  <1>2. Cardinality(at) = a
    <2>1. a \in 0..a /\ at \in SUBSET at /\ \A k \in 1..a : f[k] \in at
      BY <1>0
    <2>2. QED
      BY <1>1, <1>02, <2>1
  <1>3. ASSUME NEW n \in 1..a
        PROVE  Cardinality(UpTo(at, f[n])) = n
    <2> DEFINE S == {j \in at : j <= f[n]}
    <2>1. \A k \in 1..n : k \in 1..a /\ (k < n \/ k = n)
      OBVIOUS
    <2>2. ASSUME NEW k \in 1..n
          PROVE  f[k] \in S
      <3>1. k \in 1..a /\ f[k] \in at /\ f[k] \in Nat /\ f[n] \in Nat
        BY <1>0, <2>1
      <3>2. f[k] < f[n] \/ f[k] = f[n]
        BY <1>01, <2>1, <3>1
      <3>3. QED
        BY <3>1, <3>2
    <2>3. ASSUME NEW i \in S
          PROVE  \E k \in 1..n : f[k] = i
      <3>1. PICK k \in 1..a : f[k] = i
        BY <1>02
      <3>2. f[k] \in Nat /\ f[n] \in Nat /\ f[k] <= f[n] /\ k \in Nat /\ n \in Nat /\ 1 <= k
        BY <1>0, <3>1
      <3>3. n < k => f[n] < f[k]
        BY <1>01
      <3>4. k \in 1..n
        BY <3>2, <3>3
      <3>5. QED
        BY <3>1, <3>4
    <2>4. S \in SUBSET at /\ n \in 0..a
      OBVIOUS
    <2> HIDE DEF S
    <2>5. Cardinality(S) = n
      BY <1>1, <2>2, <2>3, <2>4
    <2>6. QED
      BY <2>5 DEF S, UpTo
  <1>4. QED
    BY <1>2, <1>3

LEMMA PickedIsOnly ==
    ASSUME NEW list \in Seq(Ids), NEW ids \in SUBSET Ids, NEW m \in Seq(Ids), NEW f,
           Picks(f, list, ids, m)
    PROVE  m = Only[ids][list]
  <1> DEFINE only == Only[ids][list]
  <1>1. PICK g : Picks(g, list, ids, only)
    BY OnlyPicks
  <1>2. only \in Seq(Ids)
    BY OnlyFacts
  <1> HIDE DEF only
  <1> DEFINE a == Len(m)
             o == Len(only)
             b == Len(list)
             ms == 1..a
             os == 1..o
             at == {i \in 1..b : list[i] \in ids}
  <1>3. a \in Nat /\ o \in Nat /\ b \in Nat
    BY <1>2, LenProperties
  <1>4. /\ f \in [ms -> at] /\ \A n, k \in ms : n < k => f[n] < f[k]
        /\ \A i \in at : \E n \in ms : f[n] = i
    BY DEF Picks
  <1>5. /\ g \in [os -> at] /\ \A n, k \in os : n < k => g[n] < g[k]
        /\ \A i \in at : \E n \in os : g[n] = i
    BY <1>1 DEF Picks
  <1>6. at \in SUBSET (1..b)
    OBVIOUS
  <1>60. Upwards(f, a, at) /\ Upwards(g, o, at)
    BY <1>4, <1>5 DEF Upwards
  <1> HIDE DEF at, a, o, b
  <1>7. /\ Cardinality(at) = a
        /\ \A n \in ms : Cardinality(UpTo(at, f[n])) = n
    BY <1>3, <1>6, <1>60, CountOfImage
  <1>8. /\ Cardinality(at) = o
        /\ \A n \in os : Cardinality(UpTo(at, g[n])) = n
    BY <1>3, <1>6, <1>60, CountOfImage
  <1>9. ms = os
    BY <1>7, <1>8
  <1>10. \A i, k \in at :
            i < k => Cardinality(UpTo(at, i)) < Cardinality(UpTo(at, k))
    BY <1>3, <1>6, CountingUp DEF UpTo
  <1>11. ASSUME NEW n \in ms
         PROVE  f[n] = g[n]
    <2>1. f[n] \in at /\ g[n] \in at /\ f[n] \in Nat /\ g[n] \in Nat /\ n \in Nat
      <3>1. at \in SUBSET Nat
        BY <1>3, <1>6
      <3>2. f[n] \in at /\ g[n] \in at /\ n \in Nat
        BY <1>3, <1>4, <1>5, <1>9
      <3>3. QED
        BY <3>1, <3>2
    <2> DEFINE x == Cardinality(UpTo(at, f[n]))
               y == Cardinality(UpTo(at, g[n]))
    <2>2. x = n /\ y = n
      BY <1>7, <1>8, <1>9
    <2>3. /\ f[n] < g[n] => x < y
          /\ g[n] < f[n] => y < x
      BY <1>10, <2>1
    <2> HIDE DEF x, y
    <2>4. QED
      BY <2>1, <2>2, <2>3
  <1>12. /\ \A n \in ms : m[n] = list[f[n]]
         /\ \A n \in os : only[n] = list[g[n]]
    BY <1>1 DEF Picks, a, o
  <1>13. m = [n \in ms |-> m[n]] /\ only = [n \in os |-> only[n]]
    BY <1>2, SeqDef, LenProperties DEF a, o
  <1>14. \A n \in ms : m[n] = only[n]
    BY <1>9, <1>11, <1>12
  <1> HIDE DEF ms, os
  <1>15. QED
    BY <1>9, <1>13, <1>14 DEF only

(* How lists and their parts go together. *)
LEMMA OnlyOfAll ==
    ASSUME NEW list \in Seq(Ids), NEW ids \in SUBSET Ids, Range(list) \subseteq ids
    PROVE  Only[ids][list] = list
  <1> DEFINE n == Len(list)
             f == [i \in 1..n |-> i]
  <1>1. n \in Nat /\ DOMAIN list = 1..n
    BY LenProperties
  <1>2. \A i \in 1..n : list[i] \in ids
    BY <1>1 DEF Range
  <1>3. Picks(f, list, ids, list)
    <2>1. \A i \in 1..n : f[i] = i /\ i \in Nat
      BY <1>1
    <2>2. f \in [1..n -> 1..n]
      OBVIOUS
    <2> HIDE DEF f
    <2>3. QED
      BY <1>2, <2>1, <2>2 DEF Picks
  <1>4. QED
    BY <1>3, PickedIsOnly

LEMMA EmptyIfRange ==
    ASSUME NEW list \in Seq(Ids), Range(list) = {}
    PROVE  list = <<>>
  <1>1. Len(list) \in Nat /\ DOMAIN list = 1..Len(list)
    BY LenProperties
  <1>2. ASSUME Len(list) # 0
        PROVE  FALSE
    <2>1. 1 \in DOMAIN list
      BY <1>1, <1>2
    <2>2. list[1] \in Range(list)
      BY <2>1 DEF Range
    <2>3. QED
      BY <2>2
  <1>3. QED
    BY <1>2, EmptySeq

LEMMA OnlyOfNone ==
    ASSUME NEW list \in Seq(Ids), NEW ids \in SUBSET Ids, Range(list) \cap ids = {}
    PROVE  Only[ids][list] = <<>>
  <1> DEFINE only == Only[ids][list]
  <1>1. only \in Seq(Ids) /\ Range(only) = {}
    BY OnlyFacts
  <1> HIDE DEF only
  <1>2. QED
    BY <1>1, EmptyIfRange DEF only

(* Only what the list has of the set counts. *)
LEMMA OnlyDepends ==
    ASSUME NEW list \in Seq(Ids), NEW S \in SUBSET Ids, NEW T \in SUBSET Ids,
           Range(list) \cap S = Range(list) \cap T
    PROVE  Only[S][list] = Only[T][list]
  <1>1. PICK f : Picks(f, list, S, Only[S][list])
    BY OnlyPicks
  <1> DEFINE m == Only[S][list]
  <1>2. m \in Seq(Ids)
    BY OnlyFacts
  <1>3. \A i \in 1..Len(list) : list[i] \in S <=> list[i] \in T
    BY LenProperties DEF Range
  <1>4. Picks(f, list, T, m)
    BY <1>1, <1>3 DEF Picks
  <1> HIDE DEF m
  <1>5. QED
    BY <1>2, <1>4, PickedIsOnly DEF m

LEMMA OnlyOfOnly ==
    ASSUME NEW list \in Seq(Ids), NEW S \in SUBSET Ids, NEW T \in SUBSET Ids
    PROVE  Only[S][Only[T][list]] = Only[S \cap T][list]
  <1> DEFINE m == Only[T][list]
             r == Only[S][m]
             both == S \cap T
  <1>1. m \in Seq(Ids)
    BY OnlyFacts
  <1>2. PICK f : Picks(f, list, T, m)
    BY OnlyPicks
  <1>3. r \in Seq(Ids)
    <2> HIDE DEF m
    <2>1. QED
      BY <1>1, OnlyFacts
  <1>4. PICK g : Picks(g, m, S, r)
    <2> HIDE DEF m
    <2>1. QED
      BY <1>1, OnlyPicks
  <1> HIDE DEF m, r
  <1> DEFINE a == Len(list)
             b == Len(m)
             c == Len(r)
             h == [n \in 1..c |-> f[g[n]]]
  <1>5. a \in Nat /\ b \in Nat /\ c \in Nat
    BY <1>1, <1>3, LenProperties
  <1>6. /\ f \in [1..b -> 1..a]
        /\ \A n, k \in 1..b : n < k => f[n] < f[k]
        /\ \A n \in 1..b : m[n] = list[f[n]] /\ list[f[n]] \in T
        /\ \A i \in 1..a : list[i] \in T => \E n \in 1..b : f[n] = i
    BY <1>2 DEF Picks
  <1>7. /\ g \in [1..c -> 1..b]
        /\ \A n, k \in 1..c : n < k => g[n] < g[k]
        /\ \A n \in 1..c : r[n] = m[g[n]] /\ m[g[n]] \in S
        /\ \A i \in 1..b : m[i] \in S => \E n \in 1..c : g[n] = i
    BY <1>4 DEF Picks
  <1> HIDE DEF a, b, c
  <1>8. \A n \in 1..c : g[n] \in 1..b /\ f[g[n]] \in 1..a
    BY <1>6, <1>7
  <1>9. /\ h \in [1..c -> 1..a] /\ \A n \in 1..c : h[n] = f[g[n]]
    BY <1>8
  <1> HIDE DEF h
  <1>10. \A n, k \in 1..c : n < k => h[n] < h[k]
    BY <1>6, <1>7, <1>8, <1>9
  <1>11. \A n \in 1..c : r[n] = list[h[n]] /\ list[h[n]] \in both
    BY <1>6, <1>7, <1>8, <1>9
  <1>12. ASSUME NEW i \in 1..a, list[i] \in both
         PROVE  \E n \in 1..c : h[n] = i
    <2>1. PICK j \in 1..b : f[j] = i
      BY <1>6, <1>12
    <2>2. m[j] \in S
      BY <1>6, <1>12, <2>1
    <2>3. PICK n \in 1..c : g[n] = j
      BY <1>7, <2>2
    <2>4. QED
      BY <1>9, <2>1, <2>3
  <1>13. Picks(h, list, both, r)
    BY <1>9, <1>10, <1>11, <1>12 DEF Picks, a, c
  <1> HIDE DEF both
  <1>14. both \in SUBSET Ids
    BY DEF both
  <1>15. r = Only[both][list]
    BY <1>3, <1>13, <1>14, PickedIsOnly
  <1>16. QED
    BY <1>15 DEF r, m, both

LEMMA OnlyOfBoth ==
    ASSUME NEW l \in Seq(Ids), NEW m \in Seq(Ids), NEW ids \in SUBSET Ids
    PROVE  Only[ids][l \o m] = Only[ids][l] \o Only[ids][m]
  <1> DEFINE p == Only[ids][l]
             q == Only[ids][m]
             lm == l \o m
             pq == p \o q
             a == Len(l)
             b == Len(m)
             c == Len(p)
             d == Len(q)
  <1>1. p \in Seq(Ids) /\ q \in Seq(Ids)
    BY OnlyFacts
  <1>2. PICK f : Picks(f, l, ids, p)
    BY OnlyPicks
  <1>3. PICK g : Picks(g, m, ids, q)
    BY OnlyPicks
  <1> HIDE DEF p, q
  <1>4. a \in Nat /\ b \in Nat /\ c \in Nat /\ d \in Nat
    BY <1>1, LenProperties
  <1>5. /\ lm \in Seq(Ids) /\ Len(lm) = a + b
        /\ \A i \in 1..a : lm[i] = l[i]
        /\ \A i \in 1..b : lm[a + i] = m[i]
    <2>1. lm \in Seq(Ids) /\ Len(lm) = a + b
          /\ \A i \in 1..a + b : lm[i] = IF i <= a THEN l[i] ELSE m[i - a]
      BY ConcatProperties
    <2> HIDE DEF lm, a, b
    <2>2. \A i \in 1..a : i \in 1..a + b /\ i <= a
      BY <1>4
    <2>3. \A i \in 1..b : a + i \in 1..a + b /\ ~(a + i <= a) /\ (a + i) - a = i
      BY <1>4
    <2>4. QED
      BY <2>1, <2>2, <2>3
  <1>6. /\ pq \in Seq(Ids) /\ Len(pq) = c + d
        /\ \A i \in 1..c : pq[i] = p[i]
        /\ \A i \in 1..d : pq[c + i] = q[i]
    <2>1. pq \in Seq(Ids) /\ Len(pq) = c + d
          /\ \A i \in 1..c + d : pq[i] = IF i <= c THEN p[i] ELSE q[i - c]
      BY <1>1, ConcatProperties
    <2> HIDE DEF pq, c, d
    <2>2. \A i \in 1..c : i \in 1..c + d /\ i <= c
      BY <1>4
    <2>3. \A i \in 1..d : c + i \in 1..c + d /\ ~(c + i <= c) /\ (c + i) - c = i
      BY <1>4
    <2>4. QED
      BY <2>1, <2>2, <2>3
  <1>7. /\ f \in [1..c -> 1..a]
        /\ \A n, k \in 1..c : n < k => f[n] < f[k]
        /\ \A n \in 1..c : p[n] = l[f[n]] /\ l[f[n]] \in ids
        /\ \A i \in 1..a : l[i] \in ids => \E n \in 1..c : f[n] = i
    BY <1>2 DEF Picks
  <1>8. /\ g \in [1..d -> 1..b]
        /\ \A n, k \in 1..d : n < k => g[n] < g[k]
        /\ \A n \in 1..d : q[n] = m[g[n]] /\ m[g[n]] \in ids
        /\ \A i \in 1..b : m[i] \in ids => \E n \in 1..d : g[n] = i
    BY <1>3 DEF Picks
  <1> HIDE DEF lm, pq, a, b, c, d
  <1> DEFINE h == [n \in 1..c + d |-> IF n <= c THEN f[n] ELSE a + g[n - c]]
  <1>9. \A n \in 1..c + d : (n <= c /\ n \in 1..c) \/ (~(n <= c) /\ n - c \in 1..d /\ c + (n - c) = n)
    BY <1>4
  <1>10. \A i \in 1..a + b : i \in 1..a \/ (i - a \in 1..b /\ a + (i - a) = i)
    BY <1>4
  <1>11. /\ \A n \in 1..c : n \in 1..c + d /\ h[n] = f[n]
         /\ \A n \in 1..d : c + n \in 1..c + d /\ h[c + n] = a + g[n]
    <2>1. \A n \in 1..c : n \in 1..c + d /\ n <= c
      BY <1>4
    <2>2. \A n \in 1..d : c + n \in 1..c + d /\ ~(c + n <= c) /\ (c + n) - c = n
      BY <1>4
    <2>3. QED
      BY <2>1, <2>2
  <1>12. /\ \A n \in 1..c : h[n] \in 1..a /\ h[n] \in 1..a + b
         /\ \A n \in 1..d : g[n] \in 1..b /\ h[c + n] \in 1..a + b /\ a < h[c + n]
    <2>1. \A i \in 1..a : i \in 1..a + b
      BY <1>4
    <2>2. \A i \in 1..b : a + i \in 1..a + b /\ a < a + i
      BY <1>4
    <2> HIDE DEF h
    <2>3. QED
      BY <1>7, <1>8, <1>11, <2>1, <2>2
  <1> DEFINE hs == 1..c + d
             is == 1..a + b
  <1>13. h \in [hs -> is]
    <2>1. ASSUME NEW n \in hs
          PROVE  h[n] \in is
      <3> HIDE DEF h
      <3>1. CASE n \in 1..c
        BY <1>12, <3>1
      <3>2. CASE n - c \in 1..d /\ c + (n - c) = n
        BY <1>12, <3>2
      <3>3. QED
        BY <1>9, <3>1, <3>2
    <2>2. h = [n \in hs |-> h[n]]
      OBVIOUS
    <2> HIDE DEF h
    <2>3. QED
      BY <2>1, <2>2
  <1> HIDE DEF h
  <1>14. ASSUME NEW n \in hs, NEW k \in hs, n < k
         PROVE  h[n] < h[k]
    <2>1. CASE n \in 1..c /\ k \in 1..c
      BY <1>7, <1>11, <1>14, <2>1
    <2>2. CASE n \in 1..c /\ k \notin 1..c
      <3>1. k - c \in 1..d /\ c + (k - c) = k
        BY <1>9, <2>2
      <3>2. h[n] \in 1..a /\ h[k] \in 1..a + b /\ a < h[k]
        BY <1>12, <2>2, <3>1
      <3>3. QED
        BY <1>4, <3>2
    <2>3. CASE n \notin 1..c /\ k \in 1..c
      <3>1. ~(n <= c) /\ k <= c /\ n \in Nat /\ k \in Nat
        BY <1>4, <1>9, <2>3
      <3>2. QED
        BY <1>4, <1>14, <3>1
    <2>4. CASE n \notin 1..c /\ k \notin 1..c
      <3>1. /\ n - c \in 1..d /\ c + (n - c) = n
            /\ k - c \in 1..d /\ c + (k - c) = k
        BY <1>9, <2>4
      <3>2. n - c < k - c
        BY <1>4, <1>14
      <3> DEFINE x == n - c
                 y == k - c
      <3>3. x \in 1..d /\ y \in 1..d /\ x < y /\ h[n] = a + g[x] /\ h[k] = a + g[y]
        BY <1>11, <3>1, <3>2
      <3> HIDE DEF x, y
      <3>4. g[x] < g[y] /\ g[x] \in 1..b /\ g[y] \in 1..b
        BY <1>8, <3>3
      <3>5. QED
        BY <1>4, <3>3, <3>4
    <2>5. QED
      BY <2>1, <2>2, <2>3, <2>4
  <1>15. ASSUME NEW n \in hs
         PROVE  pq[n] = lm[h[n]] /\ lm[h[n]] \in ids
    <2>1. CASE n \in 1..c
      <3>1. pq[n] = p[n] /\ h[n] = f[n] /\ f[n] \in 1..a
        BY <1>6, <1>7, <1>11, <2>1
      <3>2. p[n] = l[f[n]] /\ l[f[n]] \in ids /\ lm[f[n]] = l[f[n]]
        BY <1>5, <1>7, <2>1, <3>1
      <3>3. QED
        BY <3>1, <3>2
    <2>2. CASE n \notin 1..c
      <3> DEFINE x == n - c
      <3>1. x \in 1..d /\ c + x = n
        BY <1>9, <2>2
      <3> HIDE DEF x
      <3>2. pq[n] = q[x] /\ h[n] = a + g[x] /\ g[x] \in 1..b
        BY <1>6, <1>8, <1>11, <3>1
      <3>3. q[x] = m[g[x]] /\ m[g[x]] \in ids /\ lm[a + g[x]] = m[g[x]]
        BY <1>5, <1>8, <3>1, <3>2
      <3>4. QED
        BY <3>2, <3>3
    <2>3. QED
      BY <2>1, <2>2
  <1>16. ASSUME NEW i \in is, lm[i] \in ids
         PROVE  \E n \in hs : h[n] = i
    <2>1. CASE i \in 1..a
      <3>1. l[i] \in ids
        BY <1>5, <1>16, <2>1
      <3>2. PICK n \in 1..c : f[n] = i
        BY <1>7, <2>1, <3>1
      <3>3. n \in hs /\ h[n] = i
        BY <1>11, <3>2
      <3>4. QED
        BY <3>3
    <2>2. CASE i \notin 1..a
      <3> DEFINE x == i - a
      <3>1. x \in 1..b /\ a + x = i
        BY <1>10, <2>2
      <3> HIDE DEF x
      <3>2. m[x] \in ids
        BY <1>5, <1>16, <3>1
      <3>3. PICK n \in 1..d : g[n] = x
        BY <1>8, <3>1, <3>2
      <3>4. c + n \in hs /\ h[c + n] = i
        BY <1>11, <3>1, <3>3
      <3>5. QED
        BY <3>4
    <2>3. QED
      BY <2>1, <2>2
  <1>17. Len(lm) = a + b /\ Len(pq) = c + d /\ lm \in Seq(Ids) /\ pq \in Seq(Ids)
    BY <1>5, <1>6
  <1>18. Picks(h, lm, ids, pq)
    BY <1>13, <1>14, <1>15, <1>16, <1>17 DEF Picks
  <1>19. pq = Only[ids][lm]
    BY <1>17, <1>18, PickedIsOnly
  <1>20. QED
    BY <1>19 DEF pq, lm, p, q

(* Any set of ids can be listed. *)
LEMMA SetToSeqType ==
    ASSUME NEW S \in SUBSET Ids
    PROVE  SetToSeq(S) \in Seq(Ids) /\ Range(SetToSeq(S)) = S
  <1>1. IsFiniteSet(S) /\ Cardinality(S) \in Nat
    BY ReconcileAssumption, FS_Subset, FS_CardinalityType
  <1>2. \E f \in [1..Cardinality(S) -> S] : IsInjective(f)
    BY <1>1, FS_CardinalityType DEF ExistsBijection, Bijection, Injection
  <1>3. SetToSeq(S) \in [1..Cardinality(S) -> S] /\ IsInjective(SetToSeq(S))
    BY <1>2 DEF SetToSeq
  <1> DEFINE f == SetToSeq(S)
             n == Cardinality(S)
  <1>4. f = [i \in 1..n |-> f[i]] /\ \A i \in 1..n : f[i] \in Ids
    BY <1>3
  <1>5. f \in [1..n -> S] /\ \A i, j \in 1..n : f[i] = f[j] => i = j
    BY <1>3 DEF IsInjective
  <1>6. n \in Nat
    BY <1>1
  <1> HIDE DEF f
  <1>7. ASSUME NEW x \in S, \A i \in 1..n : f[i] # x
        PROVE  FALSE
    <2> DEFINE T == S \ {x}
    <2>1. IsFiniteSet(T) /\ Cardinality(T) = n - 1
      BY <1>1, FS_RemoveElement
    <2>2. f \in [1..n -> T]
      BY <1>5, <1>7
    <2> HIDE DEF T, n
    <2>3. IsFiniteSet(1..n) /\ (Cardinality(1..n) = n \/ n = 0)
      BY <1>6, FS_Interval
    <2>4. n # 0
      BY <1>1, <1>7, FS_EmptySet DEF n
    <2>5. Cardinality(T) < Cardinality(1..n)
      BY <1>6, <2>1, <2>3, <2>4
    <2>6. \E i, j \in 1..n : i # j /\ f[i] = f[j]
      BY <2>1, <2>2, <2>3, <2>5, FS_PigeonHole
    <2>7. QED
      BY <1>5, <2>6
  <1> HIDE DEF n
  <1>8. [i \in 1..n |-> f[i]] \in Seq(Ids)
    BY <1>4, <1>6, IsASeq
  <1>9. Range(f) = S
    <2>1. DOMAIN f = 1..n
      BY <1>5
    <2>2. QED
      BY <1>5, <1>7, <2>1 DEF Range
  <1>10. QED
    BY <1>4, <1>8, <1>9 DEF f

-----------------------------------------------------------------------------
(* What a diff is. *)

LEMMA ChangeType ==
    ASSUME NEW before \in Scene, NEW s \in Scene, NEW id \in Ids, NEW nonce \in Nat,
           Timeless(before), Timeless(s)
    PROVE  LET change == Change([known |-> before], s, id, nonce)
           IN  change \in Entry /\ (change # Absent => change.updated = 0)
  <1> DEFINE previous == before[id]
             change == Change([known |-> before], s, id, nonce)
  <1>1. /\ previous \in Entry /\ s[id] \in Entry
        /\ previous # Absent => previous \in Element /\ previous.updated = 0
        /\ s[id] # Absent => s[id] \in Element /\ s[id].updated = 0
    BY DEF Scene, Entry, Timeless
  <1>2. CASE LiveOf(s, id)
    <2>1. change = ChangeOf([known |-> before], s[id], id, nonce)
      BY <1>2 DEF Change
    <2>2. CASE change = s[id] \/ change = Absent
      BY <1>1, <2>2 DEF Entry
    <2>3. CASE /\ previous # Absent
               /\ change = [s[id] EXCEPT !.version = previous.version + 1,
                                         !.versionNonce = nonce]
      <3> DEFINE v == previous.version + 1
                 e == s[id]
      <3>1. v \in Nat
        BY <1>1, <2>3 DEF Element
      <3>2. e \in Element /\ e.updated = 0
            /\ change = [e EXCEPT !.version = v, !.versionNonce = nonce]
        BY <1>1, <1>2, <2>3 DEF LiveOf, IsLive
      <3>3. change \in Element /\ change.updated = 0
        <4> HIDE DEF v, e, change
        <4>1. QED
          BY <3>1, <3>2 DEF Element
      <3>4. QED
        BY <3>3 DEF Entry
    <2>4. QED
      BY <2>1, <2>2, <2>3 DEF ChangeOf
  <1>3. CASE ~LiveOf(s, id) /\ LiveOf(before, id)
    <2>1. previous \in Element /\ previous.updated = 0
      BY <1>1, <1>3 DEF LiveOf, IsLive
    <2>2. change = TombstoneOf(previous, nonce)
      BY <1>3 DEF Change
    <2>3. QED
      BY <2>1, <2>2, Buried DEF Entry
  <1>4. CASE ~LiveOf(s, id) /\ ~LiveOf(before, id)
    BY <1>4 DEF Change, Entry
  <1>5. QED
    BY <1>2, <1>3, <1>4

Trackers == [known: Scene, order: Seq(Ids), touched: Seq(Ids) \cup {Everything},
             since: SUBSET Ids, quiet: BOOLEAN, full: BOOLEAN]

Named(patch) == {id \in Ids : patch.elements[id] # Absent}

(* A patch over a list names what changed of it, and lists what it names.   *)
LEMMA PatchOverFacts ==
    ASSUME NEW t, t.known \in Scene, NEW s \in Scene, Timeless(t.known), Timeless(s),
           NEW list \in Seq(Ids), NEW nonces \in [Ids -> Nat]
    PROVE  LET patch == PatchOver(t, s, list, nonces, Absent)
           IN  /\ patch \in Diffs /\ Timeless(patch.elements)
               /\ Range(patch.list) = Named(patch)
               /\ \A id \in Ids :
                     patch.elements[id] = IF id \in Range(list)
                                          THEN Change([known |-> t.known], s, id, nonces[id])
                                          ELSE Absent
  <1> DEFINE changes == [id \in Ids |-> IF id \in Range(list)
                                        THEN Change(t, s, id, nonces[id]) ELSE Absent]
             changed == {id \in Ids : changes[id] # Absent}
             shorter == Only[changed][list]
             patch == [elements |-> changes, list |-> shorter, order |-> Absent]
  <1>1. PatchOver(t, s, list, nonces, Absent) = patch
    BY DEF PatchOver
  <1>2. \A id \in Ids : Change(t, s, id, nonces[id])
                            = Change([known |-> t.known], s, id, nonces[id])
    BY DEF Change, ChangeOf
  <1>3. \A id \in Ids : LET change == Change([known |-> t.known], s, id, nonces[id])
                        IN  change \in Entry /\ (change # Absent => change.updated = 0)
    BY ChangeType
  <1>4. Absent \in Entry
    BY DEF Entry
  <1>5. changes \in Scene /\ Timeless(changes)
    BY <1>2, <1>3, <1>4 DEF Scene, Timeless
  <1>6. \A id \in Ids : changes[id] = IF id \in Range(list)
                                      THEN Change([known |-> t.known], s, id, nonces[id])
                                      ELSE Absent
    BY <1>2
  <1>7. changed \in SUBSET Ids /\ changed \subseteq Range(list)
    OBVIOUS
  <1>8. shorter \in Seq(Ids) /\ Range(shorter) = changed
    <2> HIDE DEF changed
    <2>1. QED
      BY <1>7, OnlyFacts
  <1> HIDE DEF changes, shorter
  <1>9. patch \in Diffs /\ patch.elements = changes /\ patch.list = shorter
    BY <1>5, <1>8 DEF Diffs
  <1>10. Named(patch) = changed
    BY <1>9 DEF Named
  <1> HIDE DEF patch, changed
  <1>11. QED
    BY <1>1, <1>5, <1>6, <1>8, <1>9, <1>10

LEMMA PredictOrderType ==
    ASSUME NEW order \in Seq(Ids), NEW elements \in Scene, NEW list \in Seq(Ids)
    PROVE  PredictOrder(order, elements, list) \in Seq(Ids)
  <1> DEFINE stay == {id \in Ids : elements[id] = Absent \/ ~elements[id].isDeleted}
             new == LiveIds(elements) \ Range(order)
  <1>1. stay \in SUBSET Ids /\ new \in SUBSET Ids
    BY DEF LiveIds
  <1>2. PredictOrder(order, elements, list) = Only[stay][order] \o Only[new][list]
    BY DEF PredictOrder
  <1> HIDE DEF stay, new
  <1>3. Only[stay][order] \in Seq(Ids) /\ Only[new][list] \in Seq(Ids)
    BY <1>1, OnlyFacts
  <1>4. QED
    BY <1>2, <1>3, ConcatProperties

(* A diff says of each id it looks at what changed of it, and nothing of     *)
(* the others.  Comparing everything looks at the whole stack.              *)
LEMMA DiffFacts ==
    ASSUME NEW t \in Trackers, NEW s \in Scene, Timeless(t.known), Timeless(s),
           NEW stack \in Seq(Ids), NEW nonces \in [Ids -> Nat]
    PROVE  LET patch == Diff(t, s, stack, nonces)
           IN  /\ patch \in Diffs /\ Timeless(patch.elements)
               /\ Range(patch.list) = Named(patch)
               /\ \A id \in Ids :
                     /\ patch.elements[id]
                            \in {Absent, Change([known |-> t.known], s, id, nonces[id])}
                     /\ \/ t.touched = Everything /\ (id \in Range(stack) \/ ~LiveOf(s, id))
                        \/ t.touched # Everything /\ id \in Range(t.touched)
                        => patch.elements[id] = Change([known |-> t.known], s, id, nonces[id])
                     /\ t.touched # Everything /\ id \notin Range(t.touched) =>
                           patch.elements[id] = Absent
  <1> DEFINE patch == Diff(t, s, stack, nonces)
  <1>1. t.known \in Scene /\ t.touched \in Seq(Ids) \cup {Everything} /\ t.order \in Seq(Ids)
    BY DEF Trackers
  <1>2. CASE t.touched # Everything
    <2> DEFINE list == t.touched
               plain == PatchOver(t, s, list, nonces, Absent)
    <2>1. patch = plain
      BY <1>2 DEF Diff, DiffTouched
    <2>2. list \in Seq(Ids)
      BY <1>1, <1>2
    <2> HIDE DEF patch, list
    <2>3. /\ plain \in Diffs /\ Timeless(plain.elements)
          /\ Range(plain.list) = Named(plain)
          /\ \A id \in Ids :
                plain.elements[id] = IF id \in Range(list)
                                     THEN Change([known |-> t.known], s, id, nonces[id])
                                     ELSE Absent
      BY <1>1, <2>2, PatchOverFacts
    <2> HIDE DEF plain
    <2>4. QED
      BY <1>2, <2>1, <2>3 DEF patch, list
  <1>3. CASE t.touched = Everything
    <2> DEFINE gone == {id \in Ids : LiveOf(t.known, id) /\ ~LiveOf(s, id)}
               list == stack \o SetToSeq(gone)
               plain == PatchOver(t, s, list, nonces, Absent)
    <2>1. SetToSeq(gone) \in Seq(Ids) /\ Range(SetToSeq(gone)) = gone
      BY SetToSeqType
    <2>2. list \in Seq(Ids) /\ Range(list) = Range(stack) \cup gone
      <3> HIDE DEF gone
      <3>1. QED
        BY <2>1, ConcatProperties, RangeConcatenation
    <2>3. \/ patch = plain
          \/ patch = [plain EXCEPT !.order = stack]
      BY <1>3 DEF Diff, DiffAll
    <2> HIDE DEF list, patch
    <2>4. /\ plain \in Diffs /\ Timeless(plain.elements)
          /\ Range(plain.list) = Named(plain)
          /\ \A id \in Ids :
                plain.elements[id] = IF id \in Range(list)
                                     THEN Change([known |-> t.known], s, id, nonces[id])
                                     ELSE Absent
      BY <1>1, <2>2, PatchOverFacts
    <2> HIDE DEF plain
    <2>5. patch \in Diffs /\ patch.elements = plain.elements /\ patch.list = plain.list
      BY <2>3, <2>4 DEF Diffs
    <2>6. Named(patch) = Named(plain)
      BY <2>5 DEF Named
    <2>7. /\ patch \in Diffs /\ Timeless(patch.elements)
          /\ Range(patch.list) = Named(patch)
      BY <2>4, <2>5, <2>6
    <2>8. \A id \in Ids :
             /\ patch.elements[id]
                    \in {Absent, Change([known |-> t.known], s, id, nonces[id])}
             /\ id \in Range(stack) \/ ~LiveOf(s, id) =>
                    patch.elements[id] = Change([known |-> t.known], s, id, nonces[id])
      <3>1. ASSUME NEW id \in Ids, ~LiveOf(s, id), id \notin Range(list)
            PROVE  Change([known |-> t.known], s, id, nonces[id]) = Absent
        BY <2>2, <3>1 DEF Change
      <3>2. \A id \in Ids :
               patch.elements[id] = IF id \in Range(list)
                                    THEN Change([known |-> t.known], s, id, nonces[id])
                                    ELSE Absent
        BY <2>4, <2>5
      <3> HIDE DEF gone
      <3>3. QED
        BY <2>2, <3>1, <3>2
    <2>9. QED
      BY <1>3, <2>7, <2>8 DEF patch
  <1>4. QED
    BY <1>2, <1>3

(* Settling forgets notes and nothing else.                                 *)
LEMMA SettledFacts ==
    ASSUME NEW t \in Trackers
    PROVE  /\ Settled(t) \in Trackers
           /\ Settled(t).known = t.known /\ Settled(t).order = t.order
           /\ Settled(t).since = t.since /\ Settled(t).quiet = t.quiet
           /\ Settled(t).full = t.full
           /\ t.touched # Everything =>
                 /\ Settled(t).touched # Everything
                 /\ Range(Settled(t).touched) = Range(t.touched) \cap t.since
           /\ t.touched = Everything =>
                 Settled(t).touched = IF t.full /\ t.quiet THEN <<>> ELSE Everything
  <1>1. t.touched \in Seq(Ids) \cup {Everything} /\ t.since \in SUBSET Ids
    BY DEF Trackers
  <1>2. CASE t.touched # Everything
    <2> DEFINE list == Only[t.since][t.touched]
    <2>1. list \in Seq(Ids) /\ Range(list) = Range(t.touched) \cap t.since
      BY <1>1, <1>2, OnlyFacts
    <2>2. Settled(t) = [t EXCEPT !.touched = list]
      BY <1>2 DEF Settled
    <2> HIDE DEF list
    <2>3. QED
      BY <1>2, <2>1, <2>2, SceneDiffAssumption DEF Trackers
  <1>3. CASE t.touched = Everything /\ t.full /\ t.quiet
    <2>1. Settled(t) = [t EXCEPT !.touched = <<>>] /\ <<>> \in Seq(Ids)
      BY <1>3, EmptySeq DEF Settled
    <2>2. QED
      BY <1>3, <2>1 DEF Trackers
  <1>4. CASE t.touched = Everything /\ ~(t.full /\ t.quiet)
    BY <1>4 DEF Settled
  <1>5. QED
    BY <1>2, <1>3, <1>4

(* What was sent is known, and the rest as before; then the notes settle.   *)
LEMMA AcknowledgedFacts ==
    ASSUME NEW t \in Trackers, NEW patch \in Diffs
    PROVE  LET known == [id \in Ids |-> IF patch.elements[id] = Absent THEN t.known[id]
                                        ELSE patch.elements[id]]
               after == Acknowledged(t, patch)
           IN  /\ after \in Trackers
               /\ after.known = known
               /\ after.since = t.since /\ after.quiet = t.quiet /\ after.full = t.full
               /\ t.touched # Everything =>
                     /\ after.touched # Everything
                     /\ Range(after.touched) = Range(t.touched) \cap t.since
               /\ t.touched = Everything =>
                     after.touched = IF t.full /\ t.quiet THEN <<>> ELSE Everything
  <1> DEFINE known == [id \in Ids |-> IF patch.elements[id] = Absent THEN t.known[id]
                                      ELSE patch.elements[id]]
             order == IF patch.order # Absent THEN patch.order
                      ELSE PredictOrder(t.order, patch.elements, patch.list)
             learnt == [t EXCEPT !.known = known, !.order = order]
  <1>1. /\ patch.elements \in Scene /\ patch.list \in Seq(Ids)
        /\ patch.order \in Seq(Ids) \cup {Absent}
        /\ t.known \in Scene /\ t.order \in Seq(Ids)
    BY DEF Diffs, Trackers
  <1>2. known \in Scene
    BY <1>1 DEF Scene
  <1>3. order \in Seq(Ids)
    BY <1>1, PredictOrderType
  <1>4. Acknowledged(t, patch) = Settled(learnt)
    BY DEF Acknowledged
  <1> HIDE DEF known, order
  <1>5. /\ learnt \in Trackers
        /\ learnt.known = known /\ learnt.touched = t.touched
        /\ learnt.since = t.since /\ learnt.quiet = t.quiet /\ learnt.full = t.full
    BY <1>2, <1>3 DEF Trackers
  <1> HIDE DEF learnt
  <1>6. QED
    BY <1>4, <1>5, SettledFacts DEF known

(* A diff that found nothing settles the notes it looked at; one that found *)
(* something keeps them until it is acknowledged.                           *)
LEMMA DiffedFacts ==
    ASSUME NEW t \in Trackers, NEW patch
    PROVE  LET after == Diffed(t, patch)
           IN  /\ after \in Trackers
               /\ after.known = t.known
               /\ after.since = {} /\ after.quiet /\ after.full = (t.touched = Everything)
               /\ ~IsEmpty(patch) => after.touched = t.touched
               /\ IsEmpty(patch) => after.touched # Everything /\ Range(after.touched) = {}
  <1> DEFINE looked == [t EXCEPT !.since = {}, !.quiet = TRUE,
                                 !.full = (t.touched = Everything)]
  <1>1. /\ looked \in Trackers
        /\ looked.known = t.known /\ looked.touched = t.touched
        /\ looked.since = {} /\ looked.quiet /\ looked.full = (t.touched = Everything)
    BY DEF Trackers
  <1>2. Diffed(t, patch) = IF IsEmpty(patch) THEN Settled(looked) ELSE looked
    BY DEF Diffed
  <1> HIDE DEF looked
  <1>3. Range(<<>>) = {} /\ <<>> # Everything
    BY EmptyRange, SceneDiffAssumption
  <1>4. QED
    BY <1>1, <1>2, <1>3, SettledFacts

-----------------------------------------------------------------------------
(* A patch on the wire. *)

(* Every element a patch lists rides in one of its requests.                *)
LEMMA SplitFacts ==
    ASSUME NEW patch \in Diffs
    PROVE  /\ Split(patch) \in Seq(Diffs) /\ Split(patch) # <<>>
           /\ \A i \in DOMAIN Split(patch) : Split(patch)[i].elements = patch.elements
           /\ \A id \in Range(patch.list) :
                 \E i \in DOMAIN Split(patch) : id \in Range(Split(patch)[i].list)
           /\ WithPicture(patch.elements) = {} => Len(Split(patch)) = 1
  <1> DEFINE pictured == WithPicture(patch.elements)
             pictures == Only[pictured][patch.list]
             plain == Only[Ids \ pictured][patch.list]
             Part(list) == [patch EXCEPT !.list = list]
             first == IF plain # <<>> \/ pictures = <<>> THEN <<Part(plain)>> ELSE <<>>
             second == [i \in 1..Len(pictures) |-> Part(<<pictures[i]>>)]
  <1>1. patch.elements \in Scene /\ patch.list \in Seq(Ids)
    BY DEF Diffs
  <1>2. pictured \in SUBSET Ids
    BY DEF WithPicture
  <1>3. Split(patch) = first \o second
    BY DEF Split
  <1> HIDE DEF pictured
  <1>4. /\ pictures \in Seq(Ids) /\ Range(pictures) = Range(patch.list) \cap pictured
        /\ plain \in Seq(Ids) /\ Range(plain) = Range(patch.list) \ pictured
    <2>1. /\ pictures \in Seq(Ids) /\ Range(pictures) = Range(patch.list) \cap pictured
          /\ plain \in Seq(Ids) /\ Range(plain) = Range(patch.list) \cap (Ids \ pictured)
      BY <1>1, <1>2, OnlyFacts
    <2>2. Range(patch.list) \subseteq Ids
      BY <1>1, RangeOfSeq
    <2>3. QED
      BY <2>1, <2>2
  <1> HIDE DEF pictures, plain
  <1>5. ASSUME NEW list \in Seq(Ids)
        PROVE  /\ Part(list) \in Diffs
               /\ Part(list).elements = patch.elements /\ Part(list).list = list
    BY DEF Diffs
  <1>6. Len(pictures) \in Nat /\ \A i \in 1..Len(pictures) : pictures[i] \in Ids
    BY <1>4, LenProperties, ElementOfSeq
  <1>7. \A i \in 1..Len(pictures) : <<pictures[i]>> \in Seq(Ids)
    BY <1>6
  <1>8. /\ second \in Seq(Diffs) /\ Len(second) = Len(pictures)
        /\ \A i \in 1..Len(pictures) : second[i].elements = patch.elements
                                       /\ second[i].list = <<pictures[i]>>
    <2>1. /\ \A i \in 1..Len(pictures) : Part(<<pictures[i]>>) \in Diffs
          /\ \A i \in 1..Len(pictures) : /\ Part(<<pictures[i]>>).elements = patch.elements
                                         /\ Part(<<pictures[i]>>).list = <<pictures[i]>>
      BY <1>5, <1>7
    <2> HIDE DEF Part
    <2>2. second \in Seq(Diffs)
      BY <1>6, <2>1, IsASeq
    <2>3. DOMAIN second = 1..Len(pictures)
      OBVIOUS
    <2>4. Len(second) = Len(pictures)
      BY <1>6, <2>2, <2>3, LenProperties
    <2>5. QED
      BY <2>1, <2>2, <2>4
  <1>9. /\ first \in Seq(Diffs) /\ Len(first) \in {0, 1}
        /\ Len(first) = 1 => first[1].elements = patch.elements /\ first[1].list = plain
        /\ plain # <<>> \/ pictures = <<>> => Len(first) = 1
    <2>1. Part(plain) \in Diffs /\ Part(plain).elements = patch.elements
          /\ Part(plain).list = plain
      BY <1>4, <1>5
    <2> HIDE DEF Part
    <2>2. CASE first = <<Part(plain)>>
      BY <2>1, <2>2
    <2>3. CASE ~(plain # <<>> \/ pictures = <<>>) /\ first = <<>>
      <3>1. first \in Seq(Diffs) /\ Len(first) = 0
        BY <2>3, EmptySeq
      <3>2. QED
        BY <2>3, <3>1
    <2>4. QED
      BY <2>2, <2>3
  <1> HIDE DEF first, second
  <1> DEFINE all == first \o second
  <1>10. /\ all \in Seq(Diffs) /\ Len(all) = Len(first) + Len(second)
         /\ \A i \in 1..Len(first) : all[i] = first[i]
         /\ \A i \in 1..Len(second) : all[Len(first) + i] = second[i]
         /\ \A i \in 1..Len(all) : i <= Len(first) \/ i - Len(first) \in 1..Len(second)
         /\ DOMAIN all = 1..Len(all)
    <2>1. /\ all \in Seq(Diffs) /\ Len(all) = Len(first) + Len(second)
          /\ Len(first) \in Nat /\ Len(second) \in Nat
          /\ \A i \in 1..Len(all) : all[i] = IF i <= Len(first) THEN first[i]
                                             ELSE second[i - Len(first)]
      <3>1. first \in Seq(Diffs) /\ second \in Seq(Diffs)
        BY <1>8, <1>9
      <3>2. Len(first) \in Nat /\ Len(second) \in Nat
        BY <3>1, LenProperties
      <3>3. QED
        BY <3>1, <3>2, ConcatProperties
    <2>2. DOMAIN all = 1..Len(all)
      BY <2>1, LenProperties
    <2> HIDE DEF all
    <2>3. ASSUME NEW i \in 1..Len(second)
          PROVE  all[Len(first) + i] = second[i]
      <3>1. Len(first) + i \in 1..Len(all) /\ ~(Len(first) + i <= Len(first))
            /\ (Len(first) + i) - Len(first) = i
        BY <2>1
      <3>2. QED
        BY <2>1, <3>1
    <2>4. ASSUME NEW i \in 1..Len(first)
          PROVE  all[i] = first[i]
      BY <2>1
    <2>5. \A i \in 1..Len(all) : i <= Len(first) \/ i - Len(first) \in 1..Len(second)
      BY <2>1
    <2>6. QED
      BY <2>1, <2>2, <2>3, <2>4, <2>5
  <1>11. Len(second) = Len(pictures) /\ Len(first) \in Nat /\ Len(pictures) \in Nat
         /\ Len(all) \in Nat
    BY <1>6, <1>8, <1>9, <1>10
  <1> HIDE DEF all
  <1>12. ASSUME NEW i \in 1..Len(all)
         PROVE  all[i].elements = patch.elements
    <2>1. CASE i <= Len(first)
      <3>1. i \in Nat /\ i > 0
        BY <1>11
      <3>2. i \in 1..Len(first) /\ Len(first) # 0
        BY <1>11, <2>1, <3>1
      <3>3. Len(first) = 1
        BY <1>9, <3>2
      <3>4. i = 1
        BY <3>2, <3>3
      <3>5. all[i] = first[1]
        BY <1>10, <3>2, <3>4
      <3>6. QED
        BY <1>9, <3>3, <3>5
    <2>2. CASE i - Len(first) \in 1..Len(second)
      <3> DEFINE j == i - Len(first)
      <3>1. i = Len(first) + j /\ j \in 1..Len(second)
        BY <1>11, <2>2
      <3> HIDE DEF j
      <3>2. QED
        BY <1>8, <1>10, <1>11, <3>1
    <2>3. QED
      BY <1>10, <2>1, <2>2
  <1>13. ASSUME NEW id \in Range(patch.list)
         PROVE  \E i \in 1..Len(all) : id \in Range(all[i].list)
    <2>1. CASE id \in pictured
      <3>1. PICK i \in 1..Len(pictures) : pictures[i] = id
        BY <1>4, <2>1, RangeEquality
      <3>2. Len(first) + i \in 1..Len(all) /\ all[Len(first) + i].list = <<id>>
        BY <1>8, <1>10, <1>11, <3>1
      <3>3. id \in Range(<<id>>)
        BY DEF Range
      <3>4. QED
        BY <3>2, <3>3
    <2>2. CASE id \notin pictured
      <3>1. id \in Range(plain)
        BY <1>4, <2>2
      <3>2. plain # <<>>
        BY <3>1, EmptyRange
      <3>3. Len(first) = 1 /\ first[1].list = plain
        BY <1>9, <3>2
      <3>4. 1 \in 1..Len(first) /\ 1 \in 1..Len(all)
        BY <1>8, <1>10, <1>11, <3>3
      <3>5. all[1].list = plain
        BY <1>10, <3>3, <3>4
      <3>6. QED
        BY <3>1, <3>4, <3>5
    <2>3. QED
      BY <2>1, <2>2
  <1>14. all # <<>>
    <2>1. Len(all) # 0
      <3>1. CASE Len(first) = 1
        BY <1>8, <1>10, <1>11, <3>1
      <3>2. CASE pictures # <<>>
        BY <1>4, <1>8, <1>10, <1>11, <3>2, EmptySeq
      <3>3. QED
        BY <1>9, <3>1, <3>2
    <2>2. QED
      BY <2>1, EmptySeq
  <1>15. Split(patch) = all
    BY <1>3 DEF all
  <1>16. ASSUME pictured = {}
         PROVE  Len(all) = 1
    <2>1. Range(pictures) = {}
      BY <1>4, <1>16
    <2>2. \A i \in 1..Len(pictures) : FALSE
      BY <1>4, <2>1, RangeEquality
    <2>3. Len(pictures) = 0
      BY <1>11, <2>2
    <2>4. pictures = <<>>
      BY <1>4, <2>3, EmptySeq
    <2>5. QED
      BY <1>9, <1>10, <1>11, <2>3, <2>4
  <1>17. QED
    BY <1>10, <1>12, <1>13, <1>14, <1>15, <1>16 DEF pictured

(* Leaving off a picture changes no stamp. *)
LEMMA StripFacts ==
    ASSUME NEW held, NEW elements \in Scene
    PROVE  /\ Strip(held, elements) \in Scene
           /\ \A id \in Ids : Older(elements[id], Strip(held, elements)[id])
           /\ \A id \in Ids : LET e == Strip(held, elements)[id]
                             IN  /\ e # Absent /\ e.isDeleted =>
                                       elements[id] # Absent /\ elements[id].isDeleted
                                 /\ Alike(elements[id], e)
                                 /\ HasPicture(e) => HasPicture(elements[id])
  <1>1. ASSUME NEW id \in Ids
        PROVE  LET e == IF LiveOf(elements, id) /\ id \in held
                        THEN [elements[id] EXCEPT !.picture = NoPicture] ELSE elements[id]
               IN  /\ e \in Entry /\ Older(elements[id], e)
                   /\ e # Absent /\ e.isDeleted => elements[id] # Absent /\ elements[id].isDeleted
                   /\ Alike(elements[id], e)
                   /\ HasPicture(e) => HasPicture(elements[id])
    <2> DEFINE old == elements[id]
               new == [old EXCEPT !.picture = NoPicture]
    <2>1. old \in Entry
      BY DEF Scene
    <2>2. CASE ~(LiveOf(elements, id) /\ id \in held)
      BY <2>1, <2>2, OlderIsReflexive DEF Alike
    <2>3. CASE LiveOf(elements, id) /\ id \in held
      <3>1. old \in Element /\ old # Absent /\ ~old.isDeleted
        BY <2>1, <2>3 DEF LiveOf, IsLive, Entry
      <3> HIDE DEF old
      <3>2. new \in Element /\ new # Absent /\ ~new.isDeleted
            /\ new.version = old.version /\ new.versionNonce = old.versionNonce
            /\ new.updated = old.updated /\ new.picture = NoPicture
            /\ new.isDeleted = old.isDeleted
        BY <3>1, ReconcileAssumption DEF Element
      <3> HIDE DEF new
      <3>3. Older(old, new)
        BY <3>1, <3>2 DEF Older, IsNewer, Element
      <3>4. Alike(old, new) /\ ~HasPicture(new)
        BY <3>1, <3>2 DEF Alike, HasPicture
      <3>5. QED
        BY <2>3, <3>2, <3>3, <3>4 DEF old, new, Entry
    <2>4. QED
      BY <2>2, <2>3
  <1>2. QED
    BY <1>1 DEF Strip, Scene

(* ... which the requests carry unless the other side has it, ...           *)
LEMMA StripPictures ==
    ASSUME NEW held, NEW elements \in Scene, NEW id \in Ids, id \notin held
    PROVE  Strip(held, elements)[id] = elements[id]
  BY DEF Strip

(* A request says of an element it lists what its patch does.               *)
LEMMA RequestFacts ==
    ASSUME NEW part \in Diffs
    PROVE  LET o == Request(part)
           IN  /\ o.kind = "patch" /\ o.patch.elements \in Scene
               /\ \A id \in Ids : o.patch.elements[id] = IF id \in Range(part.list)
                                                         THEN part.elements[id] ELSE Absent
  BY DEF Request, Diffs, Scene, Entry

(* The server's merge keeps, under every id, a stamp at least as new as what *)
(* the board has and as what the request brings, and buries nothing itself.  *)
LEMMA WriteFacts ==
    ASSUME NEW b, b.elements \in Scene, NEW o, o.kind = "patch", o.patch.elements \in Scene
    PROVE  LET after == Written(b, o).elements
           IN  /\ after \in Scene
               /\ \A id \in Ids :
                     /\ Older(b.elements[id], after[id])
                     /\ Older(o.patch.elements[id], after[id])
                     /\ \/ after[id] = Absent
                        \/ ~after[id].isDeleted
                        \/ b.elements[id] # Absent /\ b.elements[id].isDeleted
                        \/ o.patch.elements[id] # Absent /\ o.patch.elements[id].isDeleted
                     /\ \/ Alike(after[id], b.elements[id])
                        \/ /\ o.patch.elements[id] # Absent
                           /\ Alike(after[id], o.patch.elements[id])
  <1>1. ASSUME NEW id \in Ids
        PROVE  LET mine == b.elements[id]
                   theirs == o.patch.elements[id]
                   merged == IF Takes(theirs, mine) THEN theirs ELSE mine
                   kept == KeepPicture(id, merged, mine, theirs)
                   result == IF kept = Absent \/ ~kept.isDeleted THEN kept
                             ELSE [kept EXCEPT !.picture = NoPicture]
               IN  /\ result \in Entry
                   /\ Older(mine, result) /\ Older(theirs, result)
                   /\ \/ result = Absent
                      \/ ~result.isDeleted
                      \/ mine # Absent /\ mine.isDeleted
                      \/ theirs # Absent /\ theirs.isDeleted
                   /\ Alike(result, mine) \/ (theirs # Absent /\ Alike(result, theirs))
    <2> DEFINE mine == b.elements[id]
               theirs == o.patch.elements[id]
               merged == IF Takes(theirs, mine) THEN theirs ELSE mine
               kept == KeepPicture(id, merged, mine, theirs)
               result == IF kept = Absent \/ ~kept.isDeleted THEN kept
                         ELSE [kept EXCEPT !.picture = NoPicture]
    <2>1. mine \in Entry /\ theirs \in Entry /\ merged \in {mine, theirs}
      BY DEF Scene
    <2>2. Older(mine, merged) /\ Older(theirs, merged)
      BY <2>1 DEF Older, Takes, IsNewer, Entry, Element
    <2> HIDE DEF mine, theirs, merged
    <2>3. CASE merged = Absent
      <3>1. result = Absent
        BY <2>3 DEF KeepPicture
      <3>2. Alike(result, mine)
        <4>1. mine = Absent
          BY <2>2, <2>3 DEF Older
        <4>2. QED
          BY <3>1, <4>1 DEF Alike
      <3>3. Older(mine, result) /\ Older(theirs, result) /\ result \in Entry
        BY <2>2, <2>3, <3>1 DEF Entry
      <3> HIDE DEF kept, result
      <3>4. QED
        BY <3>1, <3>2, <3>3 DEF result, kept, mine, theirs, merged
    <2>4. CASE merged # Absent
      <3>1. merged \in Element
        BY <2>1, <2>4 DEF Entry
      <3>2. PictureOf(mine, theirs) \in Pictures \cup {NoPicture}
        BY <2>1 DEF PictureOf, HasPicture, IsLive, Entry, Element
      <3>3. /\ kept \in Element
            /\ kept.version = merged.version
            /\ kept.versionNonce = merged.versionNonce
            /\ kept.updated = merged.updated
            /\ kept.isDeleted = merged.isDeleted
        BY <3>1, <3>2, <2>4 DEF KeepPicture, Element
      <3> HIDE DEF kept
      <3>4. /\ result \in Element /\ result # Absent
            /\ result.version = merged.version
            /\ result.versionNonce = merged.versionNonce
            /\ result.updated = merged.updated
            /\ result.isDeleted = merged.isDeleted
        BY <3>3, ReconcileAssumption DEF Element
      <3> HIDE DEF result
      <3>5. Older(mine, result) /\ Older(theirs, result)
        BY <2>2, <2>4, <3>4 DEF Older, IsNewer
      <3>6. \/ ~result.isDeleted
            \/ mine # Absent /\ mine.isDeleted
            \/ theirs # Absent /\ theirs.isDeleted
        BY <2>1, <2>4, <3>4
      <3>7. Alike(result, mine) \/ (theirs # Absent /\ Alike(result, theirs))
        BY <2>1, <2>4, <3>4 DEF Alike
      <3>8. QED
        BY <3>4, <3>5, <3>6, <3>7 DEF Entry, result, kept, mine, theirs, merged
    <2>5. QED
      BY <2>3, <2>4
  <1>2. \A id \in Ids :
            LET mine == b.elements[id]
                theirs == o.patch.elements[id]
                merged == IF Takes(theirs, mine) THEN theirs ELSE mine
                kept == KeepPicture(id, merged, mine, theirs)
            IN  Written(b, o).elements[id] = IF kept = Absent \/ ~kept.isDeleted THEN kept
                                             ELSE [kept EXCEPT !.picture = NoPicture]
    BY DEF Written, NextDocument, Stowed, MergedElements, KeepPictures, Merge
  <1>3. DOMAIN Written(b, o).elements = Ids
        /\ Written(b, o).elements = [id \in Ids |-> Written(b, o).elements[id]]
    BY DEF Written, NextDocument, Stowed
  <1> DEFINE after == Written(b, o).elements
  <1>4. after = [id \in Ids |-> after[id]]
    BY <1>3
  <1>5. ASSUME NEW id \in Ids
        PROVE  /\ after[id] \in Entry
               /\ Older(b.elements[id], after[id]) /\ Older(o.patch.elements[id], after[id])
               /\ \/ after[id] = Absent
                  \/ ~after[id].isDeleted
                  \/ b.elements[id] # Absent /\ b.elements[id].isDeleted
                  \/ o.patch.elements[id] # Absent /\ o.patch.elements[id].isDeleted
               /\ \/ Alike(after[id], b.elements[id])
                  \/ /\ o.patch.elements[id] # Absent
                     /\ Alike(after[id], o.patch.elements[id])
    BY <1>1, <1>2
  <1> HIDE DEF after
  <1>6. after \in Scene
    BY <1>4, <1>5 DEF Scene
  <1>7. QED
    BY <1>5, <1>6 DEF after

(* ... and which the server's merge keeps, if either side of it has one.    *)
LEMMA PictureKept ==
    ASSUME NEW b, b.elements \in Scene, NEW o, o.kind = "patch", o.patch.elements \in Scene,
           NEW id \in Images
    PROVE  LET after == Written(b, o).elements[id]
           IN  IsLive(after) /\ (HasPicture(b.elements[id]) \/ HasPicture(o.patch.elements[id]))
                  => HasPicture(after)
  <1> DEFINE mine == b.elements[id]
             theirs == o.patch.elements[id]
             merged == IF Takes(theirs, mine) THEN theirs ELSE mine
             kept == KeepPicture(id, merged, mine, theirs)
             after == Written(b, o).elements[id]
  <1>1. id \in Ids
    BY ReconcileAssumption
  <1>2. after = IF kept = Absent \/ ~kept.isDeleted THEN kept
                ELSE [kept EXCEPT !.picture = NoPicture]
    BY <1>1 DEF Written, NextDocument, Stowed, MergedElements, KeepPictures, Merge
  <1>3. mine \in Entry /\ theirs \in Entry /\ merged \in {mine, theirs}
    BY <1>1 DEF Scene
  <1> HIDE DEF mine, theirs, merged
  <1>4. CASE merged = Absent
    <2>1. kept = Absent
      BY <1>4 DEF KeepPicture
    <2>2. ~IsLive(after)
      BY <1>2, <2>1 DEF IsLive
    <2> HIDE DEF after
    <2>3. QED
      BY <2>2 DEF after
  <1>5. CASE merged # Absent /\ merged.isDeleted
    <2>1. merged \in Element
      BY <1>3, <1>5 DEF Entry
    <2>2. kept = [merged EXCEPT !.picture = NoPicture]
      BY <1>5 DEF KeepPicture
    <2>3. kept \in Element /\ kept.isDeleted
      BY <1>5, <2>1, <2>2, ReconcileAssumption DEF Element
    <2> HIDE DEF kept
    <2>4. ~IsLive(after)
      BY <1>2, <2>3 DEF IsLive, Element
    <2> HIDE DEF after
    <2>5. QED
      BY <2>4 DEF after
  <1>6. CASE merged # Absent /\ ~merged.isDeleted
    <2>1. merged \in Element
      BY <1>3, <1>6 DEF Entry
    <2> DEFINE picture == PictureOf(mine, theirs)
    <2>2. kept = IF merged.picture # NoPicture THEN merged
                 ELSE [merged EXCEPT !.picture = picture]
      BY <1>6 DEF KeepPicture
    <2>3. HasPicture(mine) \/ HasPicture(theirs) => picture # NoPicture
      BY DEF PictureOf, HasPicture
    <2>4. picture \in Pictures \cup {NoPicture}
      BY <1>3 DEF PictureOf, HasPicture, IsLive, Entry, Element
    <2> HIDE DEF picture
    <2>5. /\ kept \in Element /\ ~kept.isDeleted
          /\ HasPicture(mine) \/ HasPicture(theirs) => kept.picture # NoPicture
      BY <1>6, <2>1, <2>2, <2>3, <2>4 DEF Element
    <2> HIDE DEF kept
    <2>6. after = kept /\ kept # Absent
      BY <1>2, <2>5, ReconcileAssumption
    <2> HIDE DEF after
    <2>7. HasPicture(mine) \/ HasPicture(theirs) => HasPicture(after)
      BY <2>5, <2>6 DEF HasPicture, IsLive
    <2>8. QED
      BY <2>7 DEF after, mine, theirs
  <1>7. QED
    BY <1>4, <1>5, <1>6

(* x is the copy y, as far as a comparison of stamps can tell.              *)
InStep(x, y) == IF IsLive(y) THEN IsLive(x) /\ SameStamp(x, y) ELSE ~IsLive(x)

(* A change is what brings a copy in step.  It is the page's own where the  *)
(* page counts up.                                                          *)
LEMMA ChangeInStep ==
    ASSUME NEW before \in Scene, NEW s \in Scene, NEW id \in Ids, NEW nonce \in Nat
    PROVE  LET change == Change([known |-> before], s, id, nonce)
           IN  /\ change = Absent <=> InStep(before[id], s[id])
               /\ change # Absent => (IsLive(change) <=> LiveOf(s, id))
               /\ change # Absent /\ Counts(before[id], s[id]) => InStep(change, s[id])
  <1> DEFINE x == before[id]
             y == s[id]
             change == Change([known |-> before], s, id, nonce)
  <1>1. /\ x # Absent => x.version \in Nat /\ x.isDeleted \in BOOLEAN
        /\ y # Absent => y.version \in Nat /\ y.isDeleted \in BOOLEAN
    BY DEF Scene, Entry, Element
  <1>2. change # Absent => (IsLive(change) <=> LiveOf(s, id))
    BY ChangeFlips
  <1>3. CASE IsLive(y)
    <2>1. change = ChangeOf([known |-> before], y, id, nonce) /\ y # Absent
      BY <1>3 DEF Change, LiveOf, IsLive
    <2>2. CASE x = Absent
      <3>1. change = y /\ ~InStep(x, y) /\ InStep(y, y)
        BY <1>3, <2>1, <2>2 DEF ChangeOf, InStep, IsLive, SameStamp
      <3>2. QED
        BY <1>2, <2>1, <3>1
    <2>3. CASE x # Absent /\ x.isDeleted /\ y.version <= x.version
      <3>1. change # Absent
        <4> DEFINE v == x.version + 1
        <4>1. change = [y EXCEPT !.version = v, !.versionNonce = nonce]
          BY <2>1, <2>3 DEF ChangeOf
        <4>2. y \in Element
          BY <2>1 DEF Scene, Entry
        <4>3. v \in Nat
          BY <1>1, <2>3
        <4> HIDE DEF v, y, change
        <4>4. change \in Element
          BY <4>1, <4>2, <4>3 DEF Element
        <4>5. QED
          BY <4>4, ReconcileAssumption
      <3>2. /\ x.version \in Nat /\ y.version \in Nat /\ y.version <= x.version
            /\ x.isDeleted = TRUE /\ y.isDeleted = FALSE /\ x # Absent /\ y # Absent
        BY <1>1, <1>3, <2>1, <2>3 DEF IsLive
      <3>20. ~InStep(x, y) /\ ~Counts(x, y)
        <4>1. ~InStep(x, y)
          BY <1>3, <3>2 DEF InStep, IsLive
        <4>2. ~(x.version < y.version) /\ ~(x.isDeleted = y.isDeleted)
          <5> HIDE DEF x, y
          <5>1. QED
            BY <3>2
        <4>3. QED
          BY <3>2, <4>1, <4>2 DEF Counts
      <3>3. QED
        BY <1>2, <3>1, <3>20
    <2>4. CASE x # Absent /\ ~(x.isDeleted /\ y.version <= x.version) /\ SameStamp(x, y)
      <3>1. change = Absent /\ InStep(x, y)
        BY <1>1, <1>3, <2>1, <2>4 DEF ChangeOf, InStep, IsLive, SameStamp
      <3>2. QED
        BY <3>1
    <2>5. CASE x # Absent /\ ~(x.isDeleted /\ y.version <= x.version) /\ ~SameStamp(x, y)
      <3>1. change = y /\ ~InStep(x, y) /\ InStep(y, y)
        BY <1>3, <2>1, <2>5 DEF ChangeOf, InStep, IsLive, SameStamp
      <3>2. QED
        BY <1>2, <2>1, <3>1
    <2>6. QED
      BY <2>2, <2>3, <2>4, <2>5
  <1>4. CASE ~IsLive(y)
    <2>1. change # Absent => InStep(change, y)
      BY <1>2, <1>4 DEF InStep, LiveOf
    <2>2. CASE IsLive(x)
      <3>1. change = TombstoneOf(x, nonce) /\ x \in Element
        BY <1>4, <2>2 DEF Change, LiveOf, IsLive, Scene, Entry
      <3>2. change # Absent
        BY <3>1, Buried, ReconcileAssumption
      <3>3. QED
        BY <1>2, <1>4, <2>1, <2>2, <3>2 DEF InStep
    <2>3. CASE ~IsLive(x)
      BY <1>4, <2>3 DEF Change, LiveOf, InStep
    <2>4. QED
      BY <2>2, <2>3
  <1>5. QED
    BY <1>3, <1>4

(* What order the other side is left with: what it had and is not told to   *)
(* be gone, and what is new to it.                                          *)
LEMMA PredictedRange ==
    ASSUME NEW order \in Seq(Ids), NEW elements \in Scene, NEW list \in Seq(Ids),
           LiveIds(elements) \subseteq Range(list)
    PROVE  Range(PredictOrder(order, elements, list))
               = {id \in Range(order) : ~Gone(elements, id)} \cup LiveIds(elements)
  <1> DEFINE stay == {id \in Ids : elements[id] = Absent \/ ~elements[id].isDeleted}
             new == LiveIds(elements) \ Range(order)
             left == Only[stay][order]
             added == Only[new][list]
  <1>1. stay \in SUBSET Ids /\ new \in SUBSET Ids /\ Range(order) \subseteq Ids
    BY LenProperties DEF LiveIds, Range
  <1>2. PredictOrder(order, elements, list) = left \o added
    BY DEF PredictOrder
  <1>3. \A id \in Ids : id \in stay <=> ~Gone(elements, id)
    BY DEF Gone
  <1>4. \A id \in LiveIds(elements) : id \in Ids /\ ~Gone(elements, id)
    BY DEF LiveIds, IsLive, Gone
  <1>5. new \subseteq Range(list) /\ new = LiveIds(elements) \ Range(order)
    OBVIOUS
  <1> HIDE DEF stay, new
  <1>6. /\ left \in Seq(Ids) /\ added \in Seq(Ids)
        /\ Range(left) = Range(order) \cap stay
        /\ Range(added) = Range(list) \cap new
    BY <1>1, OnlyFacts
  <1> HIDE DEF left, added
  <1>7. Range(left \o added) = Range(left) \cup Range(added)
    BY <1>6, RangeConcatenation
  <1>8. QED
    BY <1>1, <1>2, <1>3, <1>4, <1>5, <1>6, <1>7

(* The order that goes with a diff: none when only some elements were       *)
(* looked at, and when all were, whenever the other side would not arrive   *)
(* at it.                                                                   *)
LEMMA DiffOrders ==
    ASSUME NEW t \in Trackers, NEW s \in Scene, Timeless(t.known), Timeless(s),
           NEW stack \in Seq(Ids), NEW nonces \in [Ids -> Nat]
    PROVE  LET patch == Diff(t, s, stack, nonces)
           IN  /\ t.touched # Everything =>
                     /\ patch.order = Absent
                     /\ patch.list = Only[Named(patch)][t.touched]
               /\ t.touched = Everything =>
                     (IF patch.order # Absent THEN patch.order
                      ELSE PredictOrder(t.order, patch.elements, patch.list)) = stack
  <1> DEFINE patch == Diff(t, s, stack, nonces)
  <1>1. CASE t.touched # Everything
    <2> DEFINE list == t.touched
               changes == [id \in Ids |-> IF id \in Range(list)
                                          THEN Change(t, s, id, nonces[id]) ELSE Absent]
               changed == {id \in Ids : changes[id] # Absent}
               shorter == Only[changed][list]
    <2>1. patch = [elements |-> changes, list |-> shorter, order |-> Absent]
      BY <1>1 DEF Diff, DiffTouched, PatchOver
    <2> HIDE DEF changes, shorter, patch
    <2>2. patch.elements = changes /\ patch.list = shorter /\ patch.order = Absent
      BY <2>1
    <2>3. Named(patch) = changed
      BY <2>2 DEF Named
    <2> HIDE DEF changed
    <2>4. patch.list = Only[Named(patch)][t.touched]
      BY <2>2, <2>3 DEF shorter
    <2>5. QED
      BY <1>1, <2>2, <2>4 DEF patch
  <1>2. CASE t.touched = Everything
    <2> DEFINE gone == {id \in Ids : LiveOf(t.known, id) /\ ~LiveOf(s, id)}
               plain == PatchOver(t, s, stack \o SetToSeq(gone), nonces, Absent)
    <2>1. patch = IF PredictOrder(t.order, plain.elements, plain.list) = stack THEN plain
                  ELSE [plain EXCEPT !.order = stack]
      BY <1>2 DEF Diff, DiffAll
    <2>2. plain = [elements |-> plain.elements, list |-> plain.list, order |-> Absent]
      BY DEF PatchOver
    <2> HIDE DEF plain, patch
    <2> DEFINE e == plain.elements
               l == plain.list
    <2>3. plain = [elements |-> e, list |-> l, order |-> Absent]
      BY <2>2
    <2> HIDE DEF e, l
    <2>4. plain.elements = e /\ plain.list = l /\ plain.order = Absent
      BY <2>3
    <2>5. stack # Absent
      BY SceneDiffAssumption
    <2>6. CASE PredictOrder(t.order, plain.elements, plain.list) = stack
      <3>1. patch = plain
        BY <2>1, <2>6
      <3>2. QED
        BY <1>2, <2>4, <2>6, <3>1 DEF patch
    <2>7. CASE PredictOrder(t.order, plain.elements, plain.list) # stack
      <3>1. patch = [plain EXCEPT !.order = stack]
        BY <2>1, <2>7
      <3>2. patch.order = stack
        BY <2>3, <3>1
      <3>3. QED
        BY <1>2, <2>5, <3>2 DEF patch
    <2>8. QED
      BY <2>6, <2>7
  <1>3. QED
    BY <1>1, <1>2

(* What an acknowledged patch makes of the order and of the notes.          *)
LEMMA AcknowledgedOrder ==
    ASSUME NEW t \in Trackers, NEW patch \in Diffs
    PROVE  LET after == Acknowledged(t, patch)
           IN  /\ after.order = IF patch.order # Absent THEN patch.order
                                ELSE PredictOrder(t.order, patch.elements, patch.list)
               /\ t.touched # Everything => after.touched = Only[t.since][t.touched]
  <1> DEFINE known == [id \in Ids |-> IF patch.elements[id] = Absent THEN t.known[id]
                                      ELSE patch.elements[id]]
             order == IF patch.order # Absent THEN patch.order
                      ELSE PredictOrder(t.order, patch.elements, patch.list)
             learnt == [t EXCEPT !.known = known, !.order = order]
  <1>1. /\ patch.elements \in Scene /\ patch.list \in Seq(Ids)
        /\ patch.order \in Seq(Ids) \cup {Absent}
        /\ t.known \in Scene /\ t.order \in Seq(Ids)
    BY DEF Diffs, Trackers
  <1>2. known \in Scene
    BY <1>1 DEF Scene
  <1>3. order \in Seq(Ids)
    BY <1>1, PredictOrderType
  <1>4. Acknowledged(t, patch) = Settled(learnt)
    BY DEF Acknowledged
  <1> HIDE DEF known, order
  <1>5. /\ learnt \in Trackers
        /\ learnt.order = order /\ learnt.touched = t.touched /\ learnt.since = t.since
    BY <1>2, <1>3 DEF Trackers
  <1> HIDE DEF learnt
  <1>6. Settled(learnt).order = order
    BY <1>5, SettledFacts
  <1>7. ASSUME t.touched # Everything
        PROVE  Settled(learnt).touched = Only[t.since][t.touched]
    <2> DEFINE list == Only[learnt.since][learnt.touched]
    <2>1. Settled(learnt) = [learnt EXCEPT !.touched = list]
      BY <1>5, <1>7 DEF Settled
    <2>2. list = Only[t.since][t.touched]
      BY <1>5
    <2> HIDE DEF list
    <2>3. QED
      BY <1>5, <2>1, <2>2 DEF Trackers
  <1>8. QED
    BY <1>4, <1>6, <1>7 DEF order

LEMMA DiffedOrder ==
    ASSUME NEW t \in Trackers, NEW patch
    PROVE  Diffed(t, patch).order = t.order
  <1> DEFINE looked == [t EXCEPT !.since = {}, !.quiet = TRUE,
                                 !.full = (t.touched = Everything)]
  <1>1. looked \in Trackers /\ looked.order = t.order
    BY DEF Trackers
  <1>2. Diffed(t, patch) = IF IsEmpty(patch) THEN Settled(looked) ELSE looked
    BY DEF Diffed
  <1> HIDE DEF looked
  <1>3. QED
    BY <1>1, <1>2, SettledFacts

LEMMA OnlyOfOne ==
    ASSUME NEW id \in Ids, NEW ids \in SUBSET Ids
    PROVE  Only[ids][<<id>>] = IF id \in ids THEN <<id>> ELSE <<>>
  <1>1. <<id>> \in Seq(Ids) /\ Range(<<id>>) = {id}
    <2>1. <<id>> \in Seq(Ids) /\ Len(<<id>>) = 1 /\ <<id>>[1] = id
      OBVIOUS
    <2>2. DOMAIN <<id>> = 1..1
      BY <2>1, LenProperties
    <2>3. QED
      BY <2>1, <2>2 DEF Range
  <1>2. CASE id \in ids
    BY <1>1, <1>2, OnlyOfAll
  <1>3. CASE id \notin ids
    BY <1>1, <1>3, OnlyOfNone
  <1>4. QED
    BY <1>2, <1>3

(* What a list has of a set, one more id at its end. *)
LEMMA OnlyOfLonger ==
    ASSUME NEW list \in Seq(Ids), NEW id \in Ids, NEW ids \in SUBSET Ids
    PROVE  Only[ids][Append(list, id)]
               = IF id \in ids THEN Append(Only[ids][list], id) ELSE Only[ids][list]
  <1> DEFINE only == Only[ids][list]
             one == <<id>>
  <1>1. only \in Seq(Ids)
    BY OnlyFacts
  <1>2. one \in Seq(Ids)
    OBVIOUS
  <1>3. Append(list, id) = list \o one /\ Append(only, id) = only \o one
    <2> HIDE DEF only
    <2>1. QED
      BY <1>1, AppendIsConcat
  <1>4. Only[ids][one] = IF id \in ids THEN one ELSE <<>>
    BY OnlyOfOne
  <1> HIDE DEF one
  <1>5. Only[ids][list \o one] = only \o Only[ids][one]
    BY <1>2, OnlyOfBoth
  <1>6. only \o <<>> = only
    <2> HIDE DEF only
    <2>1. QED
      BY <1>1, ConcatEmptySeq
  <1> HIDE DEF only
  <1>7. QED
    BY <1>3, <1>4, <1>5, <1>6 DEF only

(* A list with one id more has that one more. *)
LEMMA AppendRange ==
    ASSUME NEW list \in Seq(Ids), NEW id \in Ids
    PROVE  Append(list, id) \in Seq(Ids) /\ Range(Append(list, id)) = Range(list) \cup {id}
  <1> DEFINE longer == Append(list, id)
  <1>1. /\ longer \in Seq(Ids) /\ Len(longer) = Len(list) + 1 /\ Len(list) \in Nat
        /\ \A i \in 1..Len(list) : longer[i] = list[i]
        /\ longer[Len(list) + 1] = id
    BY AppendProperties, LenProperties
  <1>2. DOMAIN longer = 1..Len(list) + 1 /\ DOMAIN list = 1..Len(list)
    BY <1>1, LenProperties
  <1> HIDE DEF longer
  <1>3. Range(longer) = Range(list) \cup {id}
    BY <1>1, <1>2 DEF Range
  <1>4. QED
    BY <1>1, <1>3 DEF longer

(* Three lists in a row. *)
LEMMA ConcatThree ==
    ASSUME NEW l \in Seq(Ids), NEW m \in Seq(Ids), NEW n \in Seq(Ids)
    PROVE  (l \o m) \o n = l \o (m \o n)
  BY ConcatAssociative

(* An empty list has no place. *)
LEMMA NothingToUndo ==
    /\ <<>> \in Seq(Ids) /\ DOMAIN <<>> = {}
  BY EmptySeq

(* A list without its last id. *)
LEMMA FrontFacts ==
    ASSUME NEW list \in Seq(Ids), list # <<>>
    PROVE  /\ Front(list) \in Seq(Ids)
           /\ \A i \in DOMAIN Front(list) : /\ i \in DOMAIN list /\ i # Len(list)
                                            /\ Front(list)[i] = list[i]
  <1> DEFINE n == Len(list)
             m == n - 1
             shorter == SubSeq(list, 1, m)
  <1>1. n \in Nat /\ DOMAIN list = 1..n /\ n # 0
    BY LenProperties, EmptySeq
  <1> HIDE DEF n
  <1>2. /\ m \in Int /\ m \in Nat /\ n = m + 1 /\ 1 \in Int
        /\ \A i \in 1..m : i \in 1..n /\ i # n /\ 1 + i - 1 = i
        /\ m - 1 + 1 = m /\ (IF 1 <= m THEN m ELSE 0) = m
    BY <1>1
  <1> HIDE DEF m
  <1>3. \A i \in 1..m : list[i] \in Ids
    BY <1>1, <1>2, ElementOfSeq
  <1>4. /\ shorter \in Seq(Ids) /\ Len(shorter) = m
        /\ \A i \in 1..m : shorter[i] = list[i]
    BY <1>2, <1>3, SubSeqProperties
  <1>5. DOMAIN shorter = 1..m
    BY <1>4, LenProperties
  <1> HIDE DEF shorter
  <1>6. Front(list) = shorter
    BY DEF Front, shorter, m, n
  <1>7. QED
    BY <1>1, <1>2, <1>4, <1>5, <1>6 DEF n

(* Of two filters, all that matters is what passes both.  *)
LEMMA OnlyOfTwo ==
    ASSUME NEW list \in Seq(Ids), NEW S \in SUBSET Ids, NEW T \in SUBSET Ids, NEW U \in SUBSET Ids,
           \A id \in Range(list) : id \in S /\ id \in T <=> id \in U
    PROVE  Only[S][Only[T][list]] = Only[U][list]
  <1> DEFINE both == S \cap T
  <1>1. Only[S][Only[T][list]] = Only[both][list]
    BY OnlyOfOnly
  <1>2. both \in SUBSET Ids /\ Range(list) \cap both = Range(list) \cap U
    OBVIOUS
  <1> HIDE DEF both
  <1>3. Only[both][list] = Only[U][list]
    BY <1>2, OnlyDepends
  <1>4. QED
    BY <1>1, <1>3

-----------------------------------------------------------------------------
(* What comes before what in a list, and the places of a board. *)

(* A filter changes nothing of what comes before what.                      *)
LEMMA OnlyPrecedes ==
    ASSUME NEW list \in Seq(Ids), NEW ids \in SUBSET Ids, NEW x, NEW y
    PROVE  Precedes(x, y, Only[ids][list]) <=> x \in ids /\ y \in ids /\ Precedes(x, y, list)
  <1> DEFINE m == Only[ids][list]
  <1>1. PICK f : Picks(f, list, ids, m)
    BY OnlyPicks
  <1>2. m \in Seq(Ids)
    BY OnlyFacts
  <1>3. DOMAIN m = 1..Len(m) /\ Len(m) \in Nat /\ DOMAIN list = 1..Len(list) /\ Len(list) \in Nat
    BY <1>2, LenProperties
  <1> HIDE DEF m
  <1>4. /\ f \in [1..Len(m) -> 1..Len(list)]
        /\ \A n, k \in 1..Len(m) : n < k => f[n] < f[k]
        /\ \A n \in 1..Len(m) : m[n] = list[f[n]] /\ list[f[n]] \in ids
        /\ \A i \in 1..Len(list) : list[i] \in ids => \E n \in 1..Len(m) : f[n] = i
    BY <1>1 DEF Picks
  <1>5. ASSUME Precedes(x, y, m)
        PROVE  x \in ids /\ y \in ids /\ Precedes(x, y, list)
    <2>1. PICK i, j \in 1..Len(m) : i < j /\ m[i] = x /\ m[j] = y
      BY <1>3, <1>5 DEF Precedes
    <2>2. f[i] \in DOMAIN list /\ f[j] \in DOMAIN list /\ f[i] < f[j]
      BY <1>3, <1>4, <2>1
    <2>3. list[f[i]] = x /\ list[f[j]] = y /\ x \in ids /\ y \in ids
      BY <1>4, <2>1
    <2>4. QED
      BY <2>2, <2>3 DEF Precedes
  <1>6. ASSUME x \in ids, y \in ids, Precedes(x, y, list)
        PROVE  Precedes(x, y, m)
    <2>1. PICK i, j \in 1..Len(list) : i < j /\ list[i] = x /\ list[j] = y
      BY <1>3, <1>6 DEF Precedes
    <2>2. PICK n \in 1..Len(m) : f[n] = i
      BY <1>4, <1>6, <2>1
    <2>3. PICK k \in 1..Len(m) : f[k] = j
      BY <1>4, <1>6, <2>1
    <2>4. n < k
      <3>1. n # k
        BY <2>1, <2>2, <2>3
      <3>2. ~(k < n)
        BY <1>4, <2>1, <2>2, <2>3
      <3>3. QED
        BY <1>3, <3>1, <3>2
    <2>5. m[n] = x /\ m[k] = y
      BY <1>4, <2>1, <2>2, <2>3
    <2>6. QED
      BY <1>3, <2>4, <2>5 DEF Precedes
  <1>7. QED
    BY <1>5, <1>6 DEF m

LEMMA ConcatPrecedes ==
    ASSUME NEW list \in Seq(Ids), NEW more \in Seq(Ids), NEW x, NEW y, Precedes(x, y, list)
    PROVE  Precedes(x, y, list \o more)
  <1>1. PICK i, j \in 1..Len(list) : i < j /\ list[i] = x /\ list[j] = y
    BY LenProperties DEF Precedes
  <1> DEFINE both == list \o more
  <1>2. /\ both \in Seq(Ids) /\ Len(both) = Len(list) + Len(more)
        /\ Len(list) \in Nat /\ Len(more) \in Nat
        /\ \A n \in 1..(Len(list) + Len(more)) : both[n] = IF n <= Len(list) THEN list[n]
                                                         ELSE more[n - Len(list)]
    BY ConcatProperties, LenProperties
  <1>3. DOMAIN both = 1..Len(both)
    BY <1>2, LenProperties
  <1> HIDE DEF both
  <1>4. both[i] = x /\ both[j] = y /\ i \in DOMAIN both /\ j \in DOMAIN both
    BY <1>1, <1>2, <1>3
  <1>5. Precedes(x, y, both)
    BY <1>1, <1>4 DEF Precedes
  <1>6. QED
    BY <1>5 DEF both

LEMMA AppendPrecedes ==
    ASSUME NEW list \in Seq(Ids), NEW id \in Ids, NEW x, NEW y
    PROVE  Precedes(x, y, Append(list, id)) <=>
               Precedes(x, y, list) \/ (x \in Range(list) /\ y = id)
  <1> DEFINE longer == Append(list, id)
             n == Len(list)
  <1>1. /\ longer \in Seq(Ids) /\ Len(longer) = n + 1 /\ n \in Nat
        /\ \A i \in 1..n : longer[i] = list[i]
        /\ longer[n + 1] = id
    BY AppendProperties, LenProperties
  <1>2. DOMAIN longer = 1..(n + 1) /\ DOMAIN list = 1..n
    BY <1>1, LenProperties
  <1> HIDE DEF longer, n
  <1>3. ASSUME Precedes(x, y, longer)
        PROVE  Precedes(x, y, list) \/ (x \in Range(list) /\ y = id)
    <2>1. PICK i, j \in 1..(n + 1) : i < j /\ longer[i] = x /\ longer[j] = y
      BY <1>2, <1>3 DEF Precedes
    <2>2. i \in 1..n /\ (j \in 1..n \/ j = n + 1)
      BY <1>1, <2>1
    <2>3. list[i] = x /\ i \in DOMAIN list /\ (j \in 1..n => list[j] = y) /\ (j = n + 1 => y = id)
      BY <1>1, <1>2, <2>1, <2>2
    <2>4. x \in Range(list)
      BY <2>3 DEF Range
    <2>5. QED
      BY <1>2, <2>1, <2>2, <2>3, <2>4 DEF Precedes
  <1>4. ASSUME Precedes(x, y, list)
        PROVE  Precedes(x, y, longer)
    <2>1. PICK i, j \in 1..n : i < j /\ list[i] = x /\ list[j] = y
      BY <1>2, <1>4 DEF Precedes
    <2>2. i \in 1..(n + 1) /\ j \in 1..(n + 1) /\ longer[i] = x /\ longer[j] = y
      BY <1>1, <2>1
    <2>3. QED
      BY <1>2, <2>1, <2>2 DEF Precedes
  <1>5. ASSUME x \in Range(list), y = id
        PROVE  Precedes(x, y, longer)
    <2>1. PICK i \in 1..n : list[i] = x
      BY <1>2, <1>5 DEF Range
    <2>2. i < n + 1 /\ i \in 1..(n + 1) /\ n + 1 \in 1..(n + 1) /\ longer[i] = x /\ longer[n + 1] = y
      BY <1>1, <1>5, <2>1
    <2>3. QED
      BY <1>2, <2>2 DEF Precedes
  <1>6. QED
    BY <1>3, <1>4, <1>5 DEF longer

(* What precedes another is listed.                                         *)
LEMMA PrecedesRange ==
    ASSUME NEW list \in Seq(Ids), NEW x, NEW y, Precedes(x, y, list)
    PROVE  x \in Range(list) /\ y \in Range(list)
  BY DEF Precedes, Range

(* A list without repetitions has none after a filter, ... *)
LEMMA OnlyInjective ==
    ASSUME NEW list \in Seq(Ids), NEW ids \in SUBSET Ids, IsInjective(list)
    PROVE  IsInjective(Only[ids][list])
  <1> DEFINE m == Only[ids][list]
  <1>1. PICK f : Picks(f, list, ids, m)
    BY OnlyPicks
  <1>2. m \in Seq(Ids)
    BY OnlyFacts
  <1>3. DOMAIN m = 1..Len(m) /\ Len(m) \in Nat /\ DOMAIN list = 1..Len(list) /\ Len(list) \in Nat
    BY <1>2, LenProperties
  <1> HIDE DEF m
  <1>4. \A n, k \in 1..Len(m) : m[n] = m[k] => f[n] = f[k]
    BY <1>1, <1>3 DEF Picks, IsInjective
  <1>5. \A n, k \in 1..Len(m) : f[n] = f[k] => n = k
    <2>1. SUFFICES ASSUME NEW n \in 1..Len(m), NEW k \in 1..Len(m), f[n] = f[k], n # k
                   PROVE  FALSE
      OBVIOUS
    <2>2. f[n] \in Nat /\ f[k] \in Nat /\ n \in Nat /\ k \in Nat
      BY <1>1, <1>3 DEF Picks
    <2>3. n < k \/ k < n
      BY <2>1, <2>2
    <2>4. f[n] < f[k] \/ f[k] < f[n]
      BY <1>1, <2>3 DEF Picks
    <2>5. QED
      BY <2>1, <2>2, <2>4
  <1>6. QED
    BY <1>3, <1>4, <1>5 DEF IsInjective, m

(* ... one id more that it lacks, ... *)
LEMMA LongerInjective ==
    ASSUME NEW list \in Seq(Ids), NEW id \in Ids, IsInjective(list), id \notin Range(list)
    PROVE  IsInjective(Append(list, id))
  <1>0. /\ Append(list, id) \in Seq(Ids) /\ Len(Append(list, id)) = Len(list) + 1
        /\ Len(list) \in Nat
        /\ \A i \in 1..Len(list) : Append(list, id)[i] = list[i]
        /\ Append(list, id)[Len(list) + 1] = id
    BY AppendProperties, LenProperties
  <1>1. PICK longer, n :
            /\ longer = Append(list, id) /\ n = Len(list)
            /\ longer \in Seq(Ids) /\ n \in Nat /\ Len(longer) = n + 1
            /\ \A i \in 1..n : longer[i] = list[i]
            /\ longer[n + 1] = id
    BY <1>0, Zenon
  <1>2. DOMAIN longer = 1..(n + 1) /\ DOMAIN list = 1..n
    BY <1>1, LenProperties
  <1>3. \A i \in 1..(n + 1) : i \in 1..n \/ i = n + 1
    BY <1>1
  <1>4. \A i \in 1..n : list[i] # id
    BY <1>2 DEF Range
  <1>5. \A i, j \in 1..n : list[i] = list[j] => i = j
    BY <1>2 DEF IsInjective
  <1>6. ASSUME NEW i \in 1..(n + 1), NEW j \in 1..(n + 1), longer[i] = longer[j]
        PROVE  i = j
    BY <1>1, <1>3, <1>4, <1>5, <1>6
  <1>7. IsInjective(longer)
    BY <1>2, <1>6 DEF IsInjective
  <1>8. QED
    BY <1>1, <1>7, Zenon

(* ... or one list after another that has none of it. *)
LEMMA ConcatInjective ==
    ASSUME NEW list \in Seq(Ids), NEW more \in Seq(Ids), IsInjective(list), IsInjective(more),
           Range(list) \cap Range(more) = {}
    PROVE  IsInjective(list \o more)
  <1> DEFINE both == list \o more
             n == Len(list)
             k == Len(more)
  <1>1. /\ both \in Seq(Ids) /\ Len(both) = n + k
        /\ n \in Nat /\ k \in Nat
        /\ \A i \in 1..(n + k) : both[i] = IF i <= n THEN list[i] ELSE more[i - n]
    BY ConcatProperties, LenProperties
  <1>2. DOMAIN both = 1..(n + k) /\ DOMAIN list = 1..n /\ DOMAIN more = 1..k
    BY <1>1, LenProperties
  <1> HIDE DEF both, n, k
  <1>3. \A i \in 1..n : list[i] \in Range(list)
    BY <1>2 DEF Range
  <1>4. \A i \in 1..k : more[i] \in Range(more)
    BY <1>2 DEF Range
  <1>5. \A i \in 1..n, j \in 1..k : list[i] # more[j]
    BY <1>3, <1>4
  <1>6. /\ \A i, j \in 1..n : list[i] = list[j] => i = j
        /\ \A i, j \in 1..k : more[i] = more[j] => i = j
    BY <1>2 DEF IsInjective
  <1>7. ASSUME NEW i \in 1..(n + k), NEW j \in 1..(n + k), both[i] = both[j]
        PROVE  i = j
    <2>1. \/ i \in 1..n /\ both[i] = list[i]
          \/ i - n \in 1..k /\ both[i] = more[i - n]
      BY <1>1
    <2>2. \/ j \in 1..n /\ both[j] = list[j]
          \/ j - n \in 1..k /\ both[j] = more[j - n]
      BY <1>1
    <2>3. CASE i \in 1..n /\ both[i] = list[i] /\ j \in 1..n /\ both[j] = list[j]
      BY <1>6, <1>7, <2>3
    <2>4. CASE i - n \in 1..k /\ both[i] = more[i - n] /\ j - n \in 1..k /\ both[j] = more[j - n]
      <3>1. i - n = j - n
        BY <1>6, <1>7, <2>4
      <3>2. QED
        BY <1>1, <3>1
    <2>5. QED
      BY <1>5, <1>7, <2>1, <2>2, <2>3, <2>4
  <1>8. IsInjective(both)
    BY <1>2, <1>7 DEF IsInjective
  <1>9. QED
    BY <1>8 DEF both

LEMMA SetToSeqInjective ==
    ASSUME NEW S \in SUBSET Ids
    PROVE  IsInjective(SetToSeq(S))
  <1>1. IsFiniteSet(S) /\ Cardinality(S) \in Nat
    BY ReconcileAssumption, FS_Subset, FS_CardinalityType
  <1>2. \E f \in [1..Cardinality(S) -> S] : IsInjective(f)
    BY <1>1, FS_CardinalityType DEF ExistsBijection, Bijection, Injection
  <1>3. QED
    BY <1>2 DEF SetToSeq

LEMMA OneInjective ==
    ASSUME NEW id \in Ids
    PROVE  <<id>> \in Seq(Ids) /\ IsInjective(<<id>>) /\ Range(<<id>>) = {id} /\ IsInjective(<<>>)
  BY DEF IsInjective, Range

(* What two lists in a row put before what. *)
LEMMA BothPrecede ==
    ASSUME NEW list \in Seq(Ids), NEW more \in Seq(Ids), NEW x, NEW y, Precedes(x, y, list \o more)
    PROVE  \/ Precedes(x, y, list) \/ Precedes(x, y, more)
           \/ x \in Range(list) /\ y \in Range(more)
  <1> DEFINE both == list \o more
             n == Len(list)
             k == Len(more)
  <1>1. /\ both \in Seq(Ids) /\ Len(both) = n + k
        /\ n \in Nat /\ k \in Nat
        /\ \A i \in 1..(n + k) : both[i] = IF i <= n THEN list[i] ELSE more[i - n]
    BY ConcatProperties, LenProperties
  <1>2. DOMAIN both = 1..(n + k) /\ DOMAIN list = 1..n /\ DOMAIN more = 1..k
    BY <1>1, LenProperties
  <1> HIDE DEF both, n, k
  <1>3. PICK i, j \in 1..(n + k) : i < j /\ both[i] = x /\ both[j] = y
    BY <1>2 DEF Precedes, both
  <1>4. \/ i \in 1..n /\ x = list[i]
        \/ i - n \in 1..k /\ x = more[i - n]
    BY <1>1, <1>3
  <1>5. \/ j \in 1..n /\ y = list[j]
        \/ j - n \in 1..k /\ y = more[j - n]
    BY <1>1, <1>3
  <1>6. CASE j \in 1..n /\ y = list[j]
    <2>1. i \in 1..n /\ x = list[i]
      BY <1>1, <1>3, <1>6
    <2>2. QED
      BY <1>2, <1>3, <1>6, <2>1 DEF Precedes
  <1>7. CASE j - n \in 1..k /\ y = more[j - n]
    <2>1. CASE i \in 1..n /\ x = list[i]
      BY <1>2, <1>7, <2>1 DEF Range
    <2>2. CASE i - n \in 1..k /\ x = more[i - n]
      <3>1. i - n < j - n
        BY <1>1, <1>3
      <3>2. QED
        BY <1>2, <1>7, <2>2, <3>1 DEF Precedes
    <2>3. QED
      BY <1>4, <2>1, <2>2
  <1>8. QED
    BY <1>5, <1>6, <1>7

(* The places of a list that names nothing twice go up along it.            *)
LEMMA PlaceOfFacts ==
    ASSUME NEW list \in Seq(Ids), IsInjective(list)
    PROVE  /\ PlaceOf(list) \in Places
           /\ \A id \in Ids : PlaceOf(list)[id] # 0 <=> id \in Range(list)
           /\ \A x, y : Precedes(x, y, list) => PlaceOf(list)[x] < PlaceOf(list)[y]
  <1> DEFINE Where(id) == CHOOSE i \in DOMAIN list : list[i] = id
             at == [id \in Ids |-> IF id \in Range(list) THEN Where(id) ELSE 0]
  <1>1. Len(list) \in Nat /\ DOMAIN list = 1..Len(list) /\ \A i \in DOMAIN list : list[i] \in Ids
    BY LenProperties, ElementOfSeq
  <1>2. \A id \in Range(list) : Where(id) \in DOMAIN list /\ list[Where(id)] = id
    <2>1. ASSUME NEW id \in Range(list)
          PROVE  Where(id) \in DOMAIN list /\ list[Where(id)] = id
      <3>1. \E i \in DOMAIN list : list[i] = id
        BY DEF Range
      <3>2. QED
        BY <3>1
    <2>2. QED
      BY <2>1
  <1> HIDE DEF Where
  <1>3. at \in [Ids -> Nat] /\ \A id \in Ids : at[id] # 0 <=> id \in Range(list)
    BY <1>1, <1>2
  <1>4. \A i \in DOMAIN list : at[list[i]] = i
    <2>1. \A i \in DOMAIN list : list[i] \in Range(list)
      BY DEF Range
    <2>2. \A i \in DOMAIN list : Where(list[i]) = i
      BY <1>2, <2>1 DEF IsInjective
    <2>3. QED
      BY <1>1, <2>1, <2>2
  <1>5. PlaceOf(list) = at
    BY DEF PlaceOf, Where
  <1> HIDE DEF at
  <1>6. ASSUME NEW x, NEW y, Precedes(x, y, list)
        PROVE  at[x] < at[y]
    BY <1>4, <1>6 DEF Precedes
  <1>7. QED
    BY <1>3, <1>5, <1>6 DEF Places

(* A strictly larger finite set has more in it. *)
LEMMA MoreIsMore ==
    ASSUME NEW S \in SUBSET Ids, NEW T \in SUBSET Ids, S \subseteq T, NEW x \in T, x \notin S
    PROVE  Cardinality(S) < Cardinality(T)
  <1>1. IsFiniteSet(T)
    BY ReconcileAssumption, FS_Subset
  <1>2. IsFiniteSet(S) /\ Cardinality(S) <= Cardinality(T) /\ Cardinality(T) # Cardinality(S)
    BY <1>1, FS_Subset
  <1>3. Cardinality(S) \in Nat /\ Cardinality(T) \in Nat
    BY <1>1, <1>2, FS_CardinalityType
  <1>4. QED
    BY <1>2, <1>3

(* What the server makes of the places: whatever was there stays where it   *)
(* was, and what is new goes on top, in the order of the request.           *)
LEMMA MergePlaceFacts ==
    ASSUME NEW place \in Places, NEW arriving \in Places, NEW m, m = MergePlace(place, arriving),
           \A id \in Ids : place[id] <= Cardinality(Present(place))
    PROVE  /\ m \in Places
           /\ \A id \in Ids : m[id] # 0 <=> place[id] # 0 \/ arriving[id] # 0
           /\ \A id \in Ids : place[id] # 0 => m[id] = place[id]
           /\ \A id \in Ids : m[id] <= Cardinality(Present(m))
           /\ \A x, y \in Ids : place[x] # 0 /\ place[y] = 0 /\ arriving[y] # 0 =>
                                    m[x] < m[y]
           /\ \A x, y \in Ids : place[x] = 0 /\ place[y] = 0 /\ 0 < arriving[x] /\ arriving[x] < arriving[y] =>
                                    m[x] < m[y]
  <1> DEFINE there == Present(place)
             New(id) == {j \in Ids : place[j] = 0 /\ arriving[j] \in 1..arriving[id]}
             after == [id \in Ids |-> IF place[id] # 0 \/ arriving[id] = 0 THEN place[id]
                                      ELSE Cardinality(there) + Cardinality(New(id))]
             all == {j \in Ids : place[j] # 0 \/ arriving[j] # 0}
  <1>0. \A id \in Ids : place[id] \in Nat /\ arriving[id] \in Nat
    BY DEF Places
  <1>1. there \in SUBSET Ids /\ all \in SUBSET Ids /\ \A id : New(id) \in SUBSET Ids
    BY DEF Present
  <1>2. \A S \in SUBSET Ids : IsFiniteSet(S) /\ Cardinality(S) \in Nat
    BY ReconcileAssumption, FS_Subset, FS_CardinalityType
  <1>3. m = after
    BY DEF MergePlace
  <1>4. \A id \in Ids : place[id] = 0 /\ arriving[id] # 0 => id \in New(id)
    BY <1>0
  <1>5. ASSUME NEW x \in Ids, NEW y \in Ids, place[x] = 0, place[y] = 0,
               0 < arriving[x], arriving[x] < arriving[y]
        PROVE  New(x) \subseteq New(y) /\ y \in New(y) /\ y \notin New(x)
    <2>1. arriving[x] \in Nat /\ arriving[y] \in Nat
      BY <1>0
    <2>2. 1..arriving[x] \subseteq 1..arriving[y]
      BY <1>5, <2>1
    <2>3. arriving[y] \in 1..arriving[y] /\ arriving[y] \notin 1..arriving[x]
      BY <1>5, <2>1
    <2>4. QED
      BY <1>5, <2>2, <2>3
  <1>6. \A id \in Ids : New(id) \cap there = {} /\ New(id) \subseteq all /\ there \subseteq all
    BY <1>0 DEF Present
  <1>7. \A id : id \in there <=> id \in Ids /\ place[id] # 0
    BY DEF Present
  <1> HIDE DEF New, there
  <1>8. \A id \in Ids : /\ place[id] # 0 \/ arriving[id] = 0 => after[id] = place[id]
                        /\ place[id] = 0 /\ arriving[id] # 0 =>
                              after[id] = Cardinality(there) + Cardinality(New(id))
    OBVIOUS
  <1>9. \A id \in Ids : place[id] = 0 /\ arriving[id] # 0 => Cardinality(New(id)) > 0
    <2>1. ASSUME NEW id \in Ids, place[id] = 0, arriving[id] # 0
          PROVE  Cardinality(New(id)) > 0
      <3>1. {} \in SUBSET Ids /\ {} \subseteq New(id) /\ id \in New(id) /\ id \notin {}
        BY <1>4, <2>1
      <3>2. Cardinality({}) < Cardinality(New(id))
        BY <1>1, <3>1, MoreIsMore
      <3>3. QED
        BY <3>2, FS_EmptySet
    <2>2. QED
      BY <2>1
  <1>10. after \in Places
    <2>1. \A id \in Ids : after[id] \in Nat
      BY <1>0, <1>1, <1>2, <1>8
    <2>2. QED
      BY <2>1 DEF Places
  <1>11. \A id \in Ids : after[id] # 0 <=> place[id] # 0 \/ arriving[id] # 0
    BY <1>0, <1>1, <1>2, <1>8, <1>9
  <1>12. Present(after) = all
    BY <1>11 DEF Present
  <1>13. \A id \in Ids : after[id] <= Cardinality(all)
    <2>1. ASSUME NEW id \in Ids
          PROVE  after[id] <= Cardinality(all)
      <3>1. Cardinality(there) <= Cardinality(all)
        BY <1>1, <1>2, <1>6, FS_Subset
      <3>2. CASE place[id] # 0 \/ arriving[id] = 0
        BY <1>0, <1>1, <1>2, <1>8, <2>1, <3>1, <3>2 DEF there
      <3>3. CASE place[id] = 0 /\ arriving[id] # 0
        <4>1. New(id) \cap there = {} /\ New(id) \cup there \in SUBSET all
          BY <1>6
        <4>2. Cardinality(New(id) \cup there) <= Cardinality(all)
          BY <1>1, <1>2, <4>1, FS_Subset
        <4>3. Cardinality(New(id) \cup there)
                  = Cardinality(New(id)) + Cardinality(there) - Cardinality(New(id) \cap there)
          BY <1>1, <1>2, FS_Union
        <4>4. Cardinality(New(id) \cap there) = 0
          BY <4>1, FS_EmptySet
        <4>5. QED
          BY <1>1, <1>2, <1>8, <3>3, <4>2, <4>3, <4>4
      <3>4. QED
        BY <3>2, <3>3
    <2>2. QED
      BY <2>1
  <1>14. ASSUME NEW x \in Ids, NEW y \in Ids, place[x] # 0, place[y] = 0, arriving[y] # 0
         PROVE  after[x] < after[y]
    <2>1. place[x] <= Cardinality(there)
      BY DEF there
    <2>2. QED
      BY <1>0, <1>1, <1>2, <1>8, <1>9, <1>14, <2>1
  <1>15. ASSUME NEW x \in Ids, NEW y \in Ids, place[x] = 0, place[y] = 0,
                0 < arriving[x], arriving[x] < arriving[y]
         PROVE  after[x] < after[y]
    <2>1. arriving[y] # 0
      BY <1>0, <1>15
    <2>2. Cardinality(New(x)) < Cardinality(New(y))
      BY <1>1, <1>5, <1>15, MoreIsMore
    <2>3. QED
      BY <1>1, <1>2, <1>8, <1>15, <2>1, <2>2
  <1> HIDE DEF after
  <1>16. /\ \A id \in Ids : place[id] # 0 => after[id] = place[id]
         /\ \A id \in Ids : after[id] <= Cardinality(Present(after))
    BY <1>8, <1>12, <1>13
  <1>17. m \in Places /\ \A id \in Ids : m[id] # 0 <=> place[id] # 0 \/ arriving[id] # 0
    BY <1>3, <1>10, <1>11
  <1>18. \A x, y \in Ids : place[x] # 0 /\ place[y] = 0 /\ arriving[y] # 0 => m[x] < m[y]
    BY <1>3, <1>14
  <1>19. \A x, y \in Ids : place[x] = 0 /\ place[y] = 0 /\ 0 < arriving[x] /\ arriving[x] < arriving[y] =>
                                    m[x] < m[y]
    BY <1>0, <1>3, <1>15
  <1>20. QED
    BY <1>3, <1>16, <1>17, <1>18, <1>19

(* A declared order is what the places come to, for the ids it names. *)
LEMMA ApplyOrderFacts ==
    ASSUME NEW place \in Places, NEW rank \in Places, NEW m, m = ApplyOrder(place, rank)
    PROVE  /\ m \in Places
           /\ \A id \in Ids : m[id] # 0 <=> place[id] # 0
           /\ \A id \in Ids : m[id] <= Cardinality(Present(m))
           /\ \A x, y \in Ids : place[x] # 0 /\ place[y] # 0 /\ 0 < rank[x] /\ rank[x] < rank[y] =>
                                    m[x] < m[y]
  <1> DEFINE there == Present(place)
             UpToIt(id) == {j \in there : j = id \/ Below(place, rank, j, id)}
             after == [id \in Ids |-> IF place[id] = 0 THEN 0 ELSE Cardinality(UpToIt(id))]
  <1>0. \A id \in Ids : place[id] \in Nat /\ rank[id] \in Nat
    BY DEF Places
  <1>1. there \in SUBSET Ids /\ \A id : UpToIt(id) \in SUBSET there
    BY DEF Present
  <1>2. \A S \in SUBSET Ids : IsFiniteSet(S) /\ Cardinality(S) \in Nat
    BY ReconcileAssumption, FS_Subset, FS_CardinalityType
  <1>3. m = after
    BY DEF ApplyOrder
  <1>4. \A id : id \in there <=> id \in Ids /\ place[id] # 0
    BY DEF Present
  <1>5. \A id \in there : id \in UpToIt(id)
    OBVIOUS
  <1>6. \A x, y \in there : 0 < rank[x] /\ rank[x] < rank[y] =>
            UpToIt(x) \subseteq UpToIt(y) /\ y \notin UpToIt(x)
    <2> SUFFICES ASSUME NEW x \in there, NEW y \in there, 0 < rank[x], rank[x] < rank[y]
                 PROVE  UpToIt(x) \subseteq UpToIt(y) /\ y \notin UpToIt(x)
      OBVIOUS
    <2>1. x \in Ids /\ y \in Ids /\ rank[x] \in Nat /\ rank[y] \in Nat
      BY <1>0, <1>1
    <2>2. ~Below(place, rank, y, x) /\ y # x
      BY <2>1 DEF Below
    <2>3. ASSUME NEW j \in there, j = x \/ Below(place, rank, j, x)
          PROVE  Below(place, rank, j, y)
      <3>1. rank[j] \in Nat
        BY <1>0, <1>1
      <3>2. QED
        BY <2>1, <2>3, <3>1 DEF Below
    <2>4. QED
      BY <2>2, <2>3
  <1> HIDE DEF there, UpToIt
  <1>7. \A id \in there : Cardinality(UpToIt(id)) # 0
    BY <1>1, <1>2, <1>5, FS_EmptySet
  <1>8. \A id \in Ids : /\ after[id] \in Nat
                        /\ after[id] # 0 <=> place[id] # 0
                        /\ id \in there => after[id] = Cardinality(UpToIt(id))
    BY <1>1, <1>2, <1>4, <1>7
  <1>9. after \in Places
    BY <1>8 DEF Places
  <1> HIDE DEF after
  <1>10. Present(after) = there
    BY <1>4, <1>8 DEF Present
  <1>11. \A id \in Ids : after[id] <= Cardinality(there)
    <2>1. ASSUME NEW id \in Ids
          PROVE  after[id] <= Cardinality(there)
      <3>1. CASE id \in there
        BY <1>1, <1>2, <1>8, <3>1, FS_Subset
      <3>2. CASE id \notin there
        <4>1. after[id] = 0
          BY <1>4, <1>8, <3>2
        <4>2. QED
          BY <1>1, <1>2, <4>1
      <3>3. QED
        BY <3>1, <3>2
    <2>2. QED
      BY <2>1
  <1>12. ASSUME NEW x \in Ids, NEW y \in Ids, place[x] # 0, place[y] # 0,
                0 < rank[x], rank[x] < rank[y]
         PROVE  after[x] < after[y]
    <2>1. x \in there /\ y \in there
      BY <1>4, <1>12
    <2>2. UpToIt(x) \subseteq UpToIt(y) /\ y \notin UpToIt(x) /\ y \in UpToIt(y)
      BY <1>5, <1>6, <1>12, <2>1
    <2>3. Cardinality(UpToIt(x)) < Cardinality(UpToIt(y))
      BY <1>1, <2>2, MoreIsMore
    <2>4. QED
      BY <1>8, <2>1, <2>3
  <1>13. /\ \A id \in Ids : after[id] # 0 <=> place[id] # 0
         /\ \A id \in Ids : after[id] <= Cardinality(Present(after))
    BY <1>8, <1>10, <1>11
  <1>14. m \in Places
    BY <1>3, <1>9
  <1>15. \A x, y \in Ids : place[x] # 0 /\ place[y] # 0 /\ 0 < rank[x] /\ rank[x] < rank[y] =>
                                    m[x] < m[y]
    BY <1>0, <1>3, <1>12
  <1>16. QED
    BY <1>3, <1>13, <1>14, <1>15

(* As many ids as places, in a list that names nothing twice. *)
LEMMA CountOfFirst ==
    ASSUME NEW list \in Seq(Ids), IsInjective(list), NEW k \in 0..Len(list)
    PROVE  Cardinality({list[i] : i \in 1..k}) = k
  <1> DEFINE S == {list[i] : i \in 1..k}
             f == [i \in 1..k |-> list[i]]
  <1>1. DOMAIN list = 1..Len(list) /\ Len(list) \in Nat /\ k \in Nat
    BY LenProperties
  <1>2. \A i, j \in 1..k : list[i] = list[j] => i = j
    BY <1>1 DEF IsInjective
  <1>3. f \in [1..k -> S] /\ (\A i, j \in 1..k : f[i] = f[j] => i = j)
        /\ \A x \in S : \E i \in 1..k : f[i] = x
    BY <1>2
  <1>4. ExistsBijection(1..k, S)
    BY <1>3, Zenon DEF ExistsBijection, Bijection, Injection, Surjection, IsInjective
  <1>5. IsFiniteSet(1..k) /\ Cardinality(1..k) = k
    BY <1>1, FS_Interval
  <1> HIDE DEF S
  <1>6. QED
    BY <1>4, <1>5, FS_Bijection DEF S

(* A list of what is alive on a board, whose places go up along it, is the  *)
(* board's live stack.                                                      *)
LEMMA LiveStackIs ==
    ASSUME NEW b, b.place \in Places, NEW list \in Seq(Ids), Range(list) = LiveIds(b.elements),
           \A x, y \in Ids : Precedes(x, y, list) => b.place[x] < b.place[y]
    PROVE  LiveStack(b) = list
  <1> DEFINE ids == LiveIds(b.elements)
             Rank(id) == Cardinality({j \in ids : b.place[j] <= b.place[id]})
             n == Len(list)
  <1>1. DOMAIN list = 1..n /\ n \in Nat /\ (\A i \in 1..n : list[i] \in Ids /\ list[i] \in ids)
        /\ \A id \in ids : \E i \in 1..n : list[i] = id
    BY LenProperties, ElementOfSeq DEF Range
  <1>2. \A id \in Ids : b.place[id] \in Nat
    BY DEF Places
  <1>3. \A i, j \in 1..n : i < j => b.place[list[i]] < b.place[list[j]]
    BY <1>1 DEF Precedes
  <1>4. \A i, j \in 1..n : i # j => b.place[list[i]] # b.place[list[j]]
    <2>1. SUFFICES ASSUME NEW i \in 1..n, NEW j \in 1..n, i # j
                   PROVE  b.place[list[i]] # b.place[list[j]]
      OBVIOUS
    <2>2. i < j \/ j < i
      BY <1>1, <2>1
    <2>3. b.place[list[i]] \in Nat /\ b.place[list[j]] \in Nat
      BY <1>1, <1>2
    <2>4. QED
      BY <1>3, <2>2, <2>3
  <1>5. IsInjective(list)
    BY <1>1, <1>4 DEF IsInjective
  <1> HIDE DEF ids, n
  <1>6. \A k \in 1..n : Rank(list[k]) = k
    <2> SUFFICES ASSUME NEW k \in 1..n PROVE Rank(list[k]) = k
      OBVIOUS
    <2>1. \A i \in 1..n : b.place[list[i]] <= b.place[list[k]] <=> i <= k
      <3>1. SUFFICES ASSUME NEW i \in 1..n
                     PROVE  b.place[list[i]] <= b.place[list[k]] <=> i <= k
        OBVIOUS
      <3>2. b.place[list[i]] \in Nat /\ b.place[list[k]] \in Nat /\ i \in Nat /\ k \in Nat
        BY <1>1, <1>2
      <3>3. (i < k => b.place[list[i]] < b.place[list[k]]) /\ (k < i => b.place[list[k]] < b.place[list[i]])
        BY <1>3
      <3>4. QED
        BY <3>2, <3>3
    <2>2. 1..k \subseteq 1..n /\ \A i \in 1..n : i <= k <=> i \in 1..k
      BY <1>1
    <2>3. {j \in ids : b.place[j] <= b.place[list[k]]} = {list[i] : i \in 1..k}
      BY <1>1, <2>1, <2>2
    <2>4. Cardinality({list[i] : i \in 1..k}) = k
      <3>1. k \in 0..Len(list)
        BY DEF n
      <3>2. QED
        BY <1>5, <3>1, CountOfFirst
    <2>5. QED
      BY <2>3, <2>4
  <1>7. Cardinality(ids) = n
    <2>1. Cardinality({list[i] : i \in 1..n}) = n
      <3>1. n \in 0..Len(list)
        BY <1>1 DEF n
      <3>2. QED
        BY <1>5, <3>1, CountOfFirst
    <2>2. ids = {list[i] : i \in 1..n}
      BY <1>1
    <2>3. QED
      BY <2>1, <2>2
  <1> HIDE DEF Rank
  <1>8. \A k \in 1..n : (CHOOSE id \in ids : Rank(id) = k) = list[k]
    <2> SUFFICES ASSUME NEW k \in 1..n
                 PROVE  (CHOOSE id \in ids : Rank(id) = k) = list[k]
      OBVIOUS
    <2> DEFINE it == CHOOSE id \in ids : Rank(id) = k
    <2>1. list[k] \in ids /\ Rank(list[k]) = k
      BY <1>1, <1>6
    <2>2. it \in ids /\ Rank(it) = k
      BY <2>1
    <2> HIDE DEF it
    <2>3. PICK i \in 1..n : list[i] = it
      BY <1>1, <2>2
    <2>4. i = k
      BY <1>6, <2>2, <2>3
    <2>5. QED
      BY <2>3, <2>4 DEF it
  <1>9. LiveStack(b) = [k \in 1..n |-> CHOOSE id \in ids : Rank(id) = k]
    BY <1>7 DEF LiveStack, ids, Rank
  <1>10. list = [k \in 1..n |-> list[k]]
    BY <1>1
  <1>11. [k \in 1..n |-> CHOOSE id \in ids : Rank(id) = k] = [k \in 1..n |-> list[k]]
    BY <1>8
  <1>12. QED
    BY <1>9, <1>10, <1>11

(* The places the server writes for one request of a patch.                 *)
LEMMA ServedPlaces ==
    ASSUME NEW b, b.place \in Places,
           \A id \in Ids : b.place[id] <= Cardinality(Present(b.place)),
           NEW part \in Diffs, IsInjective(part.list),
           part.order # Absent => IsInjective(part.order),
           NEW m, m = Written(b, Request(part)).place
    PROVE  /\ m \in Places
           /\ \A id \in Ids : m[id] # 0 <=> b.place[id] # 0 \/ id \in Range(part.list)
           /\ \A id \in Ids : m[id] <= Cardinality(Present(m))
           /\ part.order = Absent =>
                 /\ \A id \in Ids : b.place[id] # 0 => m[id] = b.place[id]
                 /\ \A x, y \in Ids : b.place[x] # 0 /\ b.place[y] = 0 /\ y \in Range(part.list)
                                      => m[x] < m[y]
                 /\ \A x, y \in Ids : b.place[x] = 0 /\ b.place[y] = 0 /\ Precedes(x, y, part.list)
                                      => m[x] < m[y]
           /\ part.order # Absent =>
                 \A x, y \in Ids : m[x] # 0 /\ m[y] # 0 /\ Precedes(x, y, part.order)
                                   => m[x] < m[y]
  <1> DEFINE place == b.place
             arriving == PlaceOf(part.list)
             merged == MergePlace(place, arriving)
  <1>1. part.list \in Seq(Ids) /\ part.order \in Seq(Ids) \cup {Absent}
    BY DEF Diffs
  <1>2. m = IF part.order = Absent THEN merged ELSE ApplyOrder(merged, PlaceOf(part.order))
    <2>1. /\ Request(part).kind = "patch"
          /\ Request(part).patch.place = arriving
          /\ Request(part).patch.order = IF part.order = Absent THEN Absent ELSE PlaceOf(part.order)
      BY DEF Request
    <2>2. m = MergedPlace(b, Request(part).patch)
      BY <2>1 DEF Written, NextDocument
    <2>3. part.order # Absent => PlaceOf(part.order) # Absent
      <3>1. part.order # Absent => PlaceOf(part.order) \in Places
        BY <1>1, PlaceOfFacts
      <3>2. QED
        BY <3>1, ReconcileAssumption
    <2> HIDE DEF arriving
    <2>4. QED
      BY <2>1, <2>2, <2>3 DEF MergedPlace
  <1>3. /\ arriving \in Places
        /\ \A id \in Ids : arriving[id] # 0 <=> id \in Range(part.list)
        /\ \A x, y : Precedes(x, y, part.list) => arriving[x] < arriving[y]
    BY <1>1, PlaceOfFacts
  <1>4. place \in Places /\ \A id \in Ids : place[id] <= Cardinality(Present(place))
    OBVIOUS
  <1> HIDE DEF arriving, place
  <1>5. /\ merged \in Places
        /\ \A id \in Ids : merged[id] # 0 <=> place[id] # 0 \/ arriving[id] # 0
        /\ \A id \in Ids : place[id] # 0 => merged[id] = place[id]
        /\ \A id \in Ids : merged[id] <= Cardinality(Present(merged))
        /\ \A x, y \in Ids : place[x] # 0 /\ place[y] = 0 /\ arriving[y] # 0 =>
                                 merged[x] < merged[y]
        /\ \A x, y \in Ids : place[x] = 0 /\ place[y] = 0 /\ 0 < arriving[x] /\ arriving[x] < arriving[y] =>
                                 merged[x] < merged[y]
    BY <1>3, <1>4, MergePlaceFacts
  <1> HIDE DEF merged
  <1>6. CASE part.order = Absent
    <2>1. m = merged
      BY <1>2, <1>6
    <2>2. ASSUME NEW x \in Ids, NEW y \in Ids, place[x] = 0, place[y] = 0, Precedes(x, y, part.list)
          PROVE  m[x] < m[y]
      <3>1. x \in Range(part.list)
        BY <1>1, <2>2, PrecedesRange
      <3>2. arriving[x] \in Nat /\ arriving[x] # 0 /\ arriving[x] < arriving[y]
        BY <1>3, <2>2, <3>1 DEF Places
      <3>3. QED
        BY <1>5, <2>1, <2>2, <3>2
    <2>3. QED
      BY <1>3, <1>5, <1>6, <2>1, <2>2 DEF place
  <1>7. CASE part.order # Absent
    <2> DEFINE rank == PlaceOf(part.order)
    <2>1. /\ rank \in Places
          /\ \A id \in Ids : rank[id] # 0 <=> id \in Range(part.order)
          /\ \A x, y : Precedes(x, y, part.order) => rank[x] < rank[y]
      BY <1>1, <1>7, PlaceOfFacts
    <2>2. m = ApplyOrder(merged, rank)
      BY <1>2, <1>7
    <2> HIDE DEF rank
    <2>3. /\ m \in Places
          /\ \A id \in Ids : m[id] # 0 <=> merged[id] # 0
          /\ \A id \in Ids : m[id] <= Cardinality(Present(m))
          /\ \A x, y \in Ids : merged[x] # 0 /\ merged[y] # 0 /\ 0 < rank[x] /\ rank[x] < rank[y] =>
                                   m[x] < m[y]
      BY <1>5, <2>1, <2>2, ApplyOrderFacts
    <2>4. ASSUME NEW x \in Ids, NEW y \in Ids, m[x] # 0, m[y] # 0, Precedes(x, y, part.order)
          PROVE  m[x] < m[y]
      <3>1. part.order \in Seq(Ids)
        BY <1>1, <1>7
      <3>2. x \in Range(part.order)
        BY <2>4, <3>1, PrecedesRange
      <3>3. rank[x] \in Nat /\ rank[x] # 0 /\ rank[x] < rank[y]
        BY <2>1, <2>4, <3>2 DEF Places
      <3>4. QED
        BY <2>3, <2>4, <3>3
    <2>5. QED
      BY <1>3, <1>5, <1>7, <2>3, <2>4 DEF place
  <1>8. QED
    BY <1>6, <1>7

(* The order the tracker predicts is the one the server arrives at, where   *)
(* the board has what the tracker knows: "there" is what the board has, and *)
(* nothing comes back from the dead.                                        *)
LEMMA OrderIsPredicted ==
    ASSUME NEW b, b.place \in Places,
           \A id \in Ids : b.place[id] <= Cardinality(Present(b.place)),
           NEW part \in Diffs, IsInjective(part.list), Range(part.list) = Named(part),
           part.order # Absent => IsInjective(part.order),
           NEW m, m = Written(b, Request(part)).place,
           NEW order \in Seq(Ids),
           \A id \in Range(order) : b.place[id] # 0,
           \A id \in Ids : LiveOf(part.elements, id) /\ b.place[id] # 0 => id \in Range(order),
           \A x, y \in Ids : Precedes(x, y, order) => b.place[x] < b.place[y],
           part.order # Absent =>
               \A id \in Range(part.order) : b.place[id] # 0 \/ id \in Named(part)
    PROVE  LET ahead == IF part.order # Absent THEN part.order
                        ELSE PredictOrder(order, part.elements, part.list)
           IN  \A x, y \in Ids : Precedes(x, y, ahead) => m[x] < m[y]
  <1>1. part.list \in Seq(Ids) /\ part.order \in Seq(Ids) \cup {Absent} /\ part.elements \in Scene
    BY DEF Diffs
  <1>2. \A id \in Ids : m[id] # 0 <=> b.place[id] # 0 \/ id \in Range(part.list)
    BY ServedPlaces
  <1>3. CASE part.order # Absent
    <2>1. part.order \in Seq(Ids)
      BY <1>1, <1>3
    <2>2. \A x, y \in Ids : m[x] # 0 /\ m[y] # 0 /\ Precedes(x, y, part.order) => m[x] < m[y]
      BY <1>3, ServedPlaces
    <2>3. ASSUME NEW x \in Ids, NEW y \in Ids, Precedes(x, y, part.order)
          PROVE  m[x] < m[y]
      <3>1. x \in Range(part.order) /\ y \in Range(part.order)
        BY <2>1, <2>3, PrecedesRange
      <3>2. m[x] # 0 /\ m[y] # 0
        BY <1>2, <1>3, <3>1
      <3>3. QED
        BY <2>2, <2>3, <3>2
    <2>4. QED
      BY <1>3, <2>3
  <1>4. CASE part.order = Absent
    <2> DEFINE stay == {id \in Ids : part.elements[id] = Absent \/ ~part.elements[id].isDeleted}
               new == LiveIds(part.elements) \ Range(order)
               first == Only[stay][order]
               second == Only[new][part.list]
    <2>1. PredictOrder(order, part.elements, part.list) = first \o second
      BY DEF PredictOrder
    <2>2. stay \in SUBSET Ids /\ new \in SUBSET Ids
      BY DEF LiveIds
    <2>3. \A id \in new : b.place[id] = 0
      BY DEF LiveIds, LiveOf
    <2> HIDE DEF stay, new
    <2>4. first \in Seq(Ids) /\ second \in Seq(Ids)
          /\ Range(first) = Range(order) \cap stay /\ Range(second) = Range(part.list) \cap new
      BY <1>1, <2>2, OnlyFacts
    <2>5. /\ \A id \in Ids : b.place[id] # 0 => m[id] = b.place[id]
          /\ \A x, y \in Ids : b.place[x] # 0 /\ b.place[y] = 0 /\ y \in Range(part.list)
                               => m[x] < m[y]
          /\ \A x, y \in Ids : b.place[x] = 0 /\ b.place[y] = 0 /\ Precedes(x, y, part.list)
                               => m[x] < m[y]
      BY <1>4, ServedPlaces
    <2>6. ASSUME NEW x \in Ids, NEW y \in Ids, Precedes(x, y, first \o second)
          PROVE  m[x] < m[y]
      <3> HIDE DEF first, second
      <3>1. \/ Precedes(x, y, first) \/ Precedes(x, y, second)
            \/ x \in Range(first) /\ y \in Range(second)
        BY <2>4, <2>6, BothPrecede
      <3>2. CASE Precedes(x, y, first)
        <4>1. Precedes(x, y, order)
          BY <2>2, <3>2, OnlyPrecedes DEF first
        <4>2. x \in Range(order) /\ y \in Range(order)
          BY <4>1, PrecedesRange
        <4>3. m[x] = b.place[x] /\ m[y] = b.place[y]
          BY <2>5, <4>2
        <4>4. b.place[x] < b.place[y]
          BY <4>1
        <4>5. QED
          BY <4>3, <4>4
      <3>3. CASE Precedes(x, y, second)
        <4>1. Precedes(x, y, part.list) /\ x \in new /\ y \in new
          BY <1>1, <2>2, <3>3, OnlyPrecedes DEF second
        <4>2. QED
          BY <2>3, <2>5, <4>1
      <3>4. CASE x \in Range(first) /\ y \in Range(second)
        BY <2>3, <2>4, <2>5, <3>4
      <3>5. QED
        BY <3>1, <3>2, <3>3, <3>4
    <2> HIDE DEF first, second
    <2>7. QED
      BY <1>4, <2>1, <2>6
  <1>5. QED
    BY <1>3, <1>4

(* A patch without pictures is one request. *)
LEMMA SplitPlain ==
    ASSUME NEW patch \in Diffs, WithPicture(patch.elements) = {}
    PROVE  Split(patch) = <<patch>>
  <1>1. patch.list \in Seq(Ids) /\ patch = [elements |-> patch.elements, list |-> patch.list,
                                            order |-> patch.order]
    BY DEF Diffs
  <1>2. Range(patch.list) \cap {} = {} /\ Range(patch.list) \subseteq Ids \ {}
    BY <1>1, RangeOfSeq
  <1>3. Only[{}][patch.list] = <<>>
    BY <1>1, <1>2, OnlyOfNone
  <1>4. Only[Ids \ {}][patch.list] = patch.list
    BY <1>1, <1>2, OnlyOfAll
  <1> DEFINE Part(list) == [patch EXCEPT !.list = list]
             none == <<>>
             first == IF patch.list # none \/ none = none THEN <<Part(patch.list)>> ELSE none
             second == [i \in 1..Len(none) |-> Part(<<none[i]>>)]
  <1>5. Split(patch) = first \o second
    BY <1>3, <1>4 DEF Split
  <1>6. Part(patch.list) = patch
    BY <1>1
  <1>7. first = <<patch>>
    BY <1>6
  <1>8. second = <<>>
    BY EmptySeq
  <1>9. <<patch>> \in Seq(Diffs)
    OBVIOUS
  <1> HIDE DEF first, second
  <1>10. <<patch>> \o <<>> = <<patch>>
    BY <1>9, ConcatEmptySeq
  <1>11. QED
    BY <1>5, <1>7, <1>8, <1>10

(* A diff names nothing twice, as the page does not, nor its notes.         *)
LEMMA DiffInjective ==
    ASSUME NEW t \in Trackers, NEW s \in Scene, NEW stack \in Seq(Ids), IsInjective(stack),
           Range(stack) \subseteq LiveIds(s),
           t.touched # Everything => IsInjective(t.touched),
           NEW nonces
    PROVE  LET patch == Diff(t, s, stack, nonces)
           IN  /\ IsInjective(patch.list)
               /\ patch.order \in {Absent, stack}
  <1> DEFINE gone == {id \in Ids : LiveOf(t.known, id) /\ ~LiveOf(s, id)}
             whole == IF t.touched = Everything THEN stack \o SetToSeq(gone) ELSE t.touched
             plain == PatchOver(t, s, whole, nonces, Absent)
  <1>1. Diff(t, s, stack, nonces) \in {plain, [plain EXCEPT !.order = stack]}
    BY DEF Diff, DiffAll, DiffTouched
  <1>2. whole \in Seq(Ids) /\ IsInjective(whole)
    <2>1. CASE t.touched # Everything
      BY <2>1 DEF Trackers
    <2>2. CASE t.touched = Everything
      <3>1. gone \in SUBSET Ids /\ LiveIds(s) \cap gone = {}
        BY DEF LiveIds, LiveOf
      <3> HIDE DEF gone
      <3>2. SetToSeq(gone) \in Seq(Ids) /\ Range(SetToSeq(gone)) = gone /\ IsInjective(SetToSeq(gone))
        BY <3>1, SetToSeqType, SetToSeqInjective
      <3>3. Range(stack) \cap Range(SetToSeq(gone)) = {}
        BY <3>1, <3>2
      <3>4. stack \o SetToSeq(gone) \in Seq(Ids) /\ IsInjective(stack \o SetToSeq(gone))
        BY <3>2, <3>3, ConcatInjective, ConcatProperties
      <3>5. QED
        BY <2>2, <3>4
    <2>3. QED
      BY <2>1, <2>2
  <1> HIDE DEF whole
  <1> DEFINE changes == [id \in Ids |-> IF id \in Range(whole)
                                        THEN Change(t, s, id, nonces[id]) ELSE Absent]
             changed == {id \in Ids : changes[id] # Absent}
             shorter == Only[changed][whole]
  <1>3. plain = [elements |-> changes, list |-> shorter, order |-> Absent]
    BY DEF PatchOver
  <1>4. IsInjective(shorter)
    <2>1. changed \in SUBSET Ids
      OBVIOUS
    <2> HIDE DEF changed
    <2>2. QED
      BY <1>2, <2>1, OnlyInjective
  <1> HIDE DEF changes, shorter, plain
  <1>5. plain.list = shorter /\ plain.order = Absent
        /\ [plain EXCEPT !.order = stack].list = shorter
        /\ [plain EXCEPT !.order = stack].order = stack
    BY <1>3
  <1>6. QED
    BY <1>1, <1>4, <1>5
=============================================================================
