---------------------------- MODULE Drafts_proofs ----------------------------
(***************************************************************************)
(* The draft keeps up with the page, and nobody's elements are deleted but *)
(* by somebody: for any elements, any visits, edits and failures, however  *)
(* the changes are batched and however old the draft a page begins from.   *)
(***************************************************************************)
EXTENDS Drafts, Scene_proofs

(* Induction over a list's places, told by a set of them. *)
LEMMA CountInduction ==
    ASSUME NEW n \in Nat, NEW T, 0 \in T,
           \A k \in 0..n : k # 0 /\ k - 1 \in T => k \in T
    PROVE  \A k \in 0..n : k \in T
  <1> DEFINE all == FiniteSubsetsOf(1..n)
             R == StrictSubsetOrdering(1..n)
             rest == {s \in all : \E k \in 0..n : s = 1..k /\ k \notin T}
  <1>1. SUFFICES ASSUME NEW m \in 0..n, m \notin T PROVE FALSE
    OBVIOUS
  <1>2. IsFiniteSet(1..n)
    BY FS_Interval
  <1>3. IsWellFoundedOn(R, all) /\ all = SUBSET (1..n)
    BY <1>2, FS_StrictSubsetOrderingWellFounded, FS_FiniteSubsetsOfFinite
  <1>4. 1..m \in rest
    BY <1>1, <1>3
  <1>5. PICK s \in rest : \A t \in rest : <<t, s>> \notin R
    <2>1. rest \subseteq all
      OBVIOUS
    <2> HIDE DEF rest, R, all
    <2>2. QED
      BY <1>3, <1>4, <2>1, WFMin
  <1>6. PICK k \in 0..n : s = 1..k /\ k \notin T
    OBVIOUS
  <1>7. k # 0 /\ k - 1 \in 0..n /\ k - 1 \notin T
    BY <1>6
  <1>8. 1..(k - 1) \in rest
    <2> DEFINE j == k - 1
    <2>1. j \in 0..n /\ j \notin T
      BY <1>7
    <2> HIDE DEF j
    <2>2. 1..j \in SUBSET (1..n)
      BY <2>1
    <2>3. QED
      BY <1>3, <2>1, <2>2 DEF j
  <1>9. 1..(k - 1) \subseteq s /\ s # 1..(k - 1) /\ s \subseteq 1..n
    <2>1. k \in 1..k /\ k \notin 1..(k - 1)
      BY <1>7
    <2>2. QED
      BY <1>6, <2>1
  <1>10. <<1..(k - 1), s>> \in R
    BY <1>9 DEF StrictSubsetOrdering
  <1>11. QED
    BY <1>5, <1>8, <1>10

-----------------------------------------------------------------------------
(* What a draft and a batch may hold: of these ids only. *)
SceneIn(U) ==
    {elements \in Scene : Timeless(elements) /\ \A id \in Ids : elements[id] # Absent => id \in U}

Stored(U) == [elements: SceneIn(U), order: Seq(U)]

Batches(U) ==
    [puts: SceneIn(U), deletes: SUBSET Ids, order: Seq(U) \cup {Absent}, appended: Seq(U)]

IsWriting(f, stored, batches) ==
    f = [n \in 0..Len(batches) |-> IF n = 0 THEN stored ELSE Wrote(f[n - 1], batches[n])]

Writing(stored, batches) == CHOOSE f : IsWriting(f, stored, batches)

(* The draft once these batches are written, one after the other. *)
AllWritten(stored, batches) == Writing(stored, batches)[Len(batches)]

LEMMA SettlingIs == Settling = Wrote(AllWritten(db, queue), pending)
  BY Zenon DEF Settling, AllWritten, Writing, IsWriting

(* What a list of ids has of a set. *)
LEMMA OnlyIn ==
    ASSUME NEW U \in SUBSET Ids, NEW list \in Seq(U), NEW ids \in SUBSET Ids
    PROVE  Only[ids][list] \in Seq(U) /\ list \in Seq(Ids)
  <1>1. list \in Seq(Ids)
    BY SeqMonotonic
  <1>2. Only[ids][list] \in Seq(Ids) /\ Range(Only[ids][list]) = Range(list) \cap ids
    BY <1>1, OnlyFacts
  <1> DEFINE only == Only[ids][list]
  <1>3. Range(list) \subseteq U
    BY RangeOfSeq
  <1> HIDE DEF only
  <1>4. only \in Seq(Range(only))
    BY <1>2, SeqOfRange DEF only
  <1>5. Range(only) \subseteq U
    BY <1>2, <1>3 DEF only
  <1>6. only \in Seq(U)
    <2> DEFINE r == Range(only)
    <2>1. only \in Seq(r) /\ r \subseteq U
      BY <1>4, <1>5
    <2> HIDE DEF r
    <2>2. QED
      BY <2>1, SeqMonotonic
  <1>7. QED
    BY <1>1, <1>6 DEF only

LEMMA StackedType ==
    ASSUME NEW U \in SUBSET Ids, NEW order \in Seq(U), NEW batch \in Batches(U)
    PROVE  Stacked(order, batch) \in Seq(U)
  <1>1. CASE batch.order # Absent
    BY <1>1 DEF Stacked, Batches
  <1>2. CASE batch.order = Absent
    <2> DEFINE rest == Ids \ Range(order)
               new == batch.appended
               on == Only[rest][new]
    <2>1. rest \in SUBSET Ids /\ new \in Seq(U)
      BY DEF Batches
    <2>2. Stacked(order, batch) = order \o on
      BY <1>2 DEF Stacked
    <2> HIDE DEF rest, new
    <2>3. on \in Seq(U)
      BY <2>1, OnlyIn
    <2> HIDE DEF on
    <2>4. order \o on \in Seq(U)
      BY <2>3, ConcatProperties
    <2>5. QED
      BY <2>2, <2>4
  <1>3. QED
    BY <1>1, <1>2

LEMMA WroteType ==
    ASSUME NEW U \in SUBSET Ids, NEW stored \in Stored(U), NEW batch \in Batches(U)
    PROVE  Wrote(stored, batch) \in Stored(U)
  <1>1. stored.order \in Seq(U) /\ stored.elements \in SceneIn(U)
    BY DEF Stored
  <1>2. Stacked(stored.order, batch) \in Seq(U)
    BY <1>1, StackedType
  <1>3. batch.puts \in SceneIn(U) /\ batch.deletes \in SUBSET Ids
    BY DEF Batches
  <1> DEFINE left == [id \in Ids |-> IF id \in batch.deletes THEN Absent
                                     ELSE IF batch.puts[id] # Absent THEN batch.puts[id]
                                     ELSE stored.elements[id]]
  <1>4. left \in SceneIn(U)
    <2>1. left \in Scene
      BY <1>1, <1>3 DEF SceneIn, Scene, Entry
    <2>2. Timeless(left) /\ \A id \in Ids : left[id] # Absent => id \in U
      BY <1>1, <1>3 DEF SceneIn, Timeless
    <2>3. QED
      BY <2>1, <2>2 DEF SceneIn
  <1> HIDE DEF left
  <1>5. Wrote(stored, batch) = [elements |-> left, order |-> Stacked(stored.order, batch)]
    BY DEF Wrote, left
  <1>6. QED
    BY <1>2, <1>4, <1>5 DEF Stored

(* Such a draft there is, for any list of batches.                          *)
WritesUpTo(f, stored, batches, k) ==
    /\ f[0] = stored
    /\ \A n \in 1..k : f[n] = Wrote(f[n - 1], batches[n])

LEMMA WritingExists ==
    ASSUME NEW stored, NEW batches, Len(batches) \in Nat
    PROVE  IsWriting(Writing(stored, batches), stored, batches)
  <1> DEFINE L == Len(batches)
             T == {k \in 0..L : \E f : WritesUpTo(f, stored, batches, k)}
  <1>1. 0 \in T
    <2>1. WritesUpTo([n \in 0..0 |-> stored], stored, batches, 0)
      BY DEF WritesUpTo
    <2>2. QED
      BY <2>1
  <1>2. ASSUME NEW k \in 0..L, k # 0, k - 1 \in T
        PROVE  k \in T
    <2>1. PICK f : WritesUpTo(f, stored, batches, k - 1)
      BY <1>2
    <2> DEFINE g == [n \in 0..k |-> IF n = k THEN Wrote(f[k - 1], batches[k]) ELSE f[n]]
    <2>2. /\ g[0] = f[0] /\ g[k] = Wrote(f[k - 1], batches[k])
          /\ \A n \in 0..(k - 1) : g[n] = f[n]
      BY <1>2
    <2> HIDE DEF g
    <2>3. \A n \in 1..k : g[n] = Wrote(g[n - 1], batches[n])
      <3>1. ASSUME NEW n \in 1..k PROVE g[n] = Wrote(g[n - 1], batches[n])
        <4>1. CASE n = k
          <5>1. g[k - 1] = f[k - 1]
            BY <1>2, <2>2
          <5>2. QED
            BY <2>2, <4>1, <5>1
        <4>2. CASE n # k
          <5>1. n \in 1..(k - 1) /\ n - 1 \in 0..(k - 1) /\ n \in 0..(k - 1)
            BY <4>2
          <5>2. f[n] = Wrote(f[n - 1], batches[n])
            BY <2>1, <5>1 DEF WritesUpTo
          <5>3. g[n] = f[n] /\ g[n - 1] = f[n - 1]
            BY <2>2, <5>1
          <5>4. QED
            BY <5>2, <5>3
        <4>3. QED
          BY <4>1, <4>2
      <3>2. QED
        BY <3>1
    <2>4. WritesUpTo(g, stored, batches, k)
      BY <2>1, <2>2, <2>3 DEF WritesUpTo
    <2>5. QED
      BY <2>4
  <1>3. L \in T
    <2> HIDE DEF T
    <2>1. L \in Nat /\ L \in 0..L
      OBVIOUS
    <2> HIDE DEF L
    <2>2. QED
      BY <1>1, <1>2, <2>1, CountInduction
  <1>4. PICK f : WritesUpTo(f, stored, batches, L)
    BY <1>3
  <1> DEFINE g == [n \in 0..L |-> f[n]]
  <1>5. \A n \in 0..L : g[n] = IF n = 0 THEN stored ELSE Wrote(g[n - 1], batches[n])
    <2>1. ASSUME NEW n \in 0..L
          PROVE  g[n] = IF n = 0 THEN stored ELSE Wrote(g[n - 1], batches[n])
      <3>1. CASE n = 0
        BY <1>4, <3>1 DEF WritesUpTo
      <3>2. CASE n # 0
        <4>1. n \in 1..L /\ n - 1 \in 0..L
          BY <3>2
        <4>2. f[n] = Wrote(f[n - 1], batches[n])
          BY <1>4, <4>1 DEF WritesUpTo
        <4>3. g[n] = f[n] /\ g[n - 1] = f[n - 1]
          BY <4>1
        <4>4. QED
          BY <3>2, <4>2, <4>3
      <3>3. QED
        BY <3>1, <3>2
    <2>2. QED
      BY <2>1
  <1>6. IsWriting(g, stored, batches)
    BY <1>5 DEF IsWriting
  <1>7. QED
    BY <1>6, Zenon DEF Writing

LEMMA WritingFacts ==
    ASSUME NEW U \in SUBSET Ids, NEW stored \in Stored(U), NEW batches \in Seq(Batches(U))
    PROVE  LET f == Writing(stored, batches)
           IN  /\ f[0] = stored
               /\ \A n \in 1..Len(batches) : f[n] = Wrote(f[n - 1], batches[n])
               /\ \A n \in 0..Len(batches) : f[n] \in Stored(U)
  <1> DEFINE f == Writing(stored, batches)
             L == Len(batches)
             T == {k \in 0..L : f[k] \in Stored(U)}
  <1>1. L \in Nat
    BY LenProperties
  <1>2. f = [n \in 0..L |-> IF n = 0 THEN stored ELSE Wrote(f[n - 1], batches[n])]
    BY <1>1, WritingExists DEF IsWriting
  <1> HIDE DEF f
  <1>3. f[0] = stored
    BY <1>1, <1>2
  <1>4. \A n \in 1..L : f[n] = Wrote(f[n - 1], batches[n])
    <2>1. \A n \in 1..L : n \in 0..L /\ n # 0
      OBVIOUS
    <2>2. QED
      BY <1>2, <2>1
  <1>5. \A k \in 0..L : k \in T
    <2>1. 0 \in T
      BY <1>1, <1>3
    <2>2. ASSUME NEW k \in 0..L, k # 0, k - 1 \in T
          PROVE  k \in T
      <3>1. k \in 1..L /\ batches[k] \in Batches(U)
        BY <2>2, ElementOfSeq
      <3>2. f[k - 1] \in Stored(U) /\ f[k] = Wrote(f[k - 1], batches[k])
        BY <1>4, <2>2, <3>1
      <3>3. f[k] \in Stored(U)
        BY <3>1, <3>2, WroteType
      <3>4. QED
        BY <3>3
    <2> HIDE DEF T, L
    <2>3. QED
      BY <1>1, <2>1, <2>2, CountInduction
  <1>6. QED
    BY <1>3, <1>4, <1>5 DEF f

LEMMA AllWrittenType ==
    ASSUME NEW U \in SUBSET Ids, NEW stored \in Stored(U), NEW batches \in Seq(Batches(U))
    PROVE  AllWritten(stored, batches) \in Stored(U)
  <1>1. Len(batches) \in Nat /\ Len(batches) \in 0..Len(batches)
    BY LenProperties
  <1>2. QED
    BY <1>1, WritingFacts DEF AllWritten

(* One batch more is written last, ... *)
LEMMA OneMoreWritten ==
    ASSUME NEW U \in SUBSET Ids, NEW stored \in Stored(U), NEW batches \in Seq(Batches(U)),
           NEW batch \in Batches(U)
    PROVE  AllWritten(stored, Append(batches, batch)) = Wrote(AllWritten(stored, batches), batch)
  <1> DEFINE more == Append(batches, batch)
             L == Len(batches)
             f == Writing(stored, batches)
             g == Writing(stored, more)
             T == {k \in 0..L : f[k] = g[k]}
  <1>1. /\ more \in Seq(Batches(U)) /\ Len(more) = L + 1 /\ L \in Nat
        /\ \A k \in 1..L : more[k] = batches[k]
        /\ more[L + 1] = batch
    BY AppendProperties, LenProperties
  <1> HIDE DEF more
  <1>2. /\ f[0] = stored
        /\ \A n \in 1..L : f[n] = Wrote(f[n - 1], batches[n])
    BY WritingFacts
  <1>3. /\ g[0] = stored
        /\ \A n \in 1..(L + 1) : g[n] = Wrote(g[n - 1], more[n])
    BY <1>1, WritingFacts
  <1> HIDE DEF f, g
  <1>4. \A k \in 0..L : k \in T
    <2>1. 0 \in T
      BY <1>1, <1>2, <1>3
    <2>2. ASSUME NEW k \in 0..L, k # 0, k - 1 \in T
          PROVE  k \in T
      <3>1. k \in 1..L /\ k \in 1..(L + 1) /\ f[k - 1] = g[k - 1]
        BY <1>1, <2>2
      <3>2. f[k] = Wrote(f[k - 1], batches[k]) /\ g[k] = Wrote(g[k - 1], batches[k])
        BY <1>1, <1>2, <1>3, <3>1
      <3>3. QED
        BY <3>1, <3>2
    <2> HIDE DEF T, L
    <2>3. QED
      BY <1>1, <2>1, <2>2, CountInduction
  <1>5. L \in 0..L /\ L + 1 \in 1..(L + 1) /\ L + 1 - 1 = L
    BY <1>1
  <1>6. f[L] = g[L] /\ g[L + 1] = Wrote(g[L], batch)
    BY <1>1, <1>3, <1>4, <1>5
  <1>7. QED
    BY <1>1, <1>6 DEF AllWritten, f, g, more

(* ... and the first one written changes nothing of what will be.           *)
LEMMA FirstWritten ==
    ASSUME NEW U \in SUBSET Ids, NEW stored \in Stored(U), NEW batches \in Seq(Batches(U)),
           batches # <<>>
    PROVE  /\ Head(batches) \in Batches(U) /\ Tail(batches) \in Seq(Batches(U))
           /\ AllWritten(Wrote(stored, Head(batches)), Tail(batches)) = AllWritten(stored, batches)
  <1> DEFINE first == Head(batches)
             rest == Tail(batches)
             next == Wrote(stored, first)
             L == Len(rest)
             f == Writing(stored, batches)
             g == Writing(next, rest)
             T == {k \in 0..L : g[k] = f[k + 1]}
  <1>1. /\ first \in Batches(U) /\ rest \in Seq(Batches(U)) /\ Len(batches) = L + 1 /\ L \in Nat
        /\ first = batches[1]
        /\ \A k \in 1..L : rest[k] = batches[k + 1]
    BY HeadTailProperties, LenProperties
  <1> HIDE DEF first, rest
  <1>2. next \in Stored(U)
    BY <1>1, WroteType
  <1>3. /\ f[0] = stored
        /\ \A n \in 1..(L + 1) : f[n] = Wrote(f[n - 1], batches[n])
    <2>1. /\ f[0] = stored
          /\ \A n \in 1..Len(batches) : f[n] = Wrote(f[n - 1], batches[n])
      BY WritingFacts
    <2> HIDE DEF f
    <2>2. QED
      BY <1>1, <2>1
  <1> HIDE DEF next
  <1>4. /\ g[0] = next
        /\ \A n \in 1..L : g[n] = Wrote(g[n - 1], rest[n])
    BY <1>1, <1>2, WritingFacts
  <1> HIDE DEF f, g
  <1>5. \A k \in 0..L : k \in T
    <2>1. 0 \in T
      <3>1. 1 \in 1..(L + 1) /\ 1 - 1 = 0 /\ 0 + 1 = 1
        BY <1>1
      <3>2. f[1] = Wrote(stored, first)
        BY <1>1, <1>3, <3>1
      <3>3. QED
        BY <1>1, <1>4, <3>1, <3>2 DEF next
    <2>2. ASSUME NEW k \in 0..L, k # 0, k - 1 \in T
          PROVE  k \in T
      <3>1. k \in 1..L /\ k + 1 \in 1..(L + 1) /\ k + 1 - 1 = k /\ k - 1 + 1 = k
        BY <1>1, <2>2
      <3>2. g[k] = Wrote(g[k - 1], rest[k]) /\ f[k + 1] = Wrote(f[k], batches[k + 1])
        BY <1>3, <1>4, <3>1
      <3>3. g[k - 1] = f[k] /\ rest[k] = batches[k + 1]
        BY <1>1, <2>2, <3>1
      <3>4. QED
        BY <3>2, <3>3
    <2> HIDE DEF T, L
    <2>3. QED
      BY <1>1, <2>1, <2>2, CountInduction
  <1>6. L \in 0..L
    BY <1>1
  <1>7. g[L] = f[L + 1]
    BY <1>5, <1>6
  <1>8. QED
    BY <1>1, <1>7 DEF AllWritten, f, g, next, first, rest

-----------------------------------------------------------------------------
Types ==
    /\ page \in {"away", "open"}
    /\ used \in SUBSET Ids
    /\ scene \in SceneIn(used) /\ stack \in Seq(used)
    /\ undo \in Seq(Ids) /\ \A i \in DOMAIN undo : scene[undo[i]] # Absent
    /\ tracker \in Trackers /\ tracker.known \in SceneIn(used)
    /\ board \in SceneIn(used)
    /\ late = Absent \/ late \in SceneIn(used)
    /\ pending \in Batches(used) /\ queue \in Seq(Batches(used)) /\ db \in Stored(used)
    /\ told \in SUBSET Ids /\ placed \in SUBSET Ids

(* Whoever is about to say that an element is gone says so of one that      *)
(* somebody erased: the patch on its way, and the page, of an element that  *)
(* it believes the server has.                                              *)
GoneIsErased ==
    /\ \A id \in Ids : Gone(board, id) => id \in erased
    /\ late # Absent => \A id \in Ids : Gone(late, id) => id \in erased
    /\ \A id \in Ids : LiveOf(tracker.known, id) /\ ~LiveOf(scene, id) => id \in erased

(* What is allowed of more ids is allowed. *)
LEMMA MoreIds ==
    ASSUME NEW U, NEW V \in SUBSET Ids, U \subseteq V
    PROVE  /\ U \in SUBSET Ids
           /\ SceneIn(U) \subseteq SceneIn(V) /\ Seq(U) \subseteq Seq(V)
           /\ Batches(U) \subseteq Batches(V) /\ Stored(U) \subseteq Stored(V)
           /\ Seq(Batches(U)) \subseteq Seq(Batches(V))
  <1>1. SceneIn(U) \subseteq SceneIn(V) /\ U \in SUBSET Ids
    BY DEF SceneIn
  <1>2. Seq(U) \subseteq Seq(V)
    BY SeqMonotonic
  <1> DEFINE S == Batches(U)
             T == Batches(V)
  <1>3. S \subseteq T /\ Stored(U) \subseteq Stored(V)
    BY <1>1, <1>2 DEF Batches, Stored
  <1> HIDE DEF S, T
  <1>4. Seq(S) \subseteq Seq(T)
    BY <1>3, SeqMonotonic
  <1>5. QED
    BY <1>1, <1>2, <1>3, <1>4 DEF S, T

LEMMA NothingIn ==
    ASSUME NEW U
    PROVE  /\ Nobody \in SceneIn(U) /\ <<>> \in Seq(U) /\ NoBatch \in Batches(U)
           /\ <<>> \in Seq(Batches(U))
  <1>1. Nobody \in SceneIn(U)
    BY DEF Nobody, SceneIn, Scene, Entry, Timeless
  <1>2. <<>> \in Seq(U) /\ <<>> \in Seq(Batches(U))
    BY EmptySeq
  <1>3. QED
    BY <1>1, <1>2 DEF NoBatch, Batches

LEMMA SeqIn ==
    ASSUME NEW U \in SUBSET Ids, NEW list \in Seq(Ids)
    PROVE  list \in Seq(U) <=> Range(list) \subseteq U
  <1>1. ASSUME Range(list) \subseteq U PROVE list \in Seq(U)
    <2> DEFINE r == Range(list)
    <2>1. list \in Seq(r) /\ r \subseteq U
      BY <1>1, SeqOfRange
    <2> HIDE DEF r
    <2>2. QED
      BY <2>1, SeqMonotonic
  <1>2. ASSUME list \in Seq(U) PROVE Range(list) \subseteq U
    BY <1>2, RangeOfSeq
  <1>3. QED
    BY <1>1, <1>2

(* What the page shows is of the ids it knows.                              *)
LEMMA ShownIn ==
    ASSUME NEW U \in SUBSET Ids, scene \in SceneIn(U), stack \in Seq(U)
    PROVE  /\ Shown \in Seq(U) /\ Shown \in Seq(Ids) /\ stack \in Seq(Ids)
           /\ LiveIds(scene) \in SUBSET Ids /\ LiveIds(scene) \subseteq U
           /\ Range(Shown) = Range(stack) \cap LiveIds(scene)
  <1> DEFINE live == LiveIds(scene)
  <1>1. live \in SUBSET Ids /\ live \subseteq U
    BY DEF LiveIds, IsLive, SceneIn
  <1>2. Shown = Only[live][stack]
    BY DEF Shown
  <1> HIDE DEF live
  <1>3. Only[live][stack] \in Seq(U) /\ stack \in Seq(Ids)
    BY <1>1, OnlyIn
  <1>4. Only[live][stack] \in Seq(Ids) /\ Range(Only[live][stack]) = Range(stack) \cap live
    BY <1>1, <1>3, OnlyFacts
  <1>5. QED
    BY <1>1, <1>2, <1>3, <1>4 DEF live

LEMMA NotedType ==
    ASSUME NEW t \in Trackers, NEW id \in Ids
    PROVE  /\ NoteChanged(t, id) \in Trackers /\ NoteChanged(t, id).known = t.known
           /\ NoteEverything(t) \in Trackers /\ NoteEverything(t).known = t.known
  <1>1. Append(t.touched, id) \in Seq(Ids) \/ t.touched = Everything
    BY AppendProperties DEF Trackers
  <1>2. NoteChanged(t, id) \in Trackers /\ NoteChanged(t, id).known = t.known
    BY <1>1 DEF NoteChanged, Trackers
  <1>3. QED
    BY <1>2 DEF NoteEverything, Trackers

LEMMA RecordedType ==
    ASSUME NEW V \in SUBSET Ids, scene' \in SceneIn(V), pending \in Batches(V),
           NEW updated \in SUBSET Ids, NEW removed \in SUBSET Ids,
           NEW whole \in BOOLEAN, NEW ids \in Seq(V)
    PROVE  Recorded(updated, removed, [whole |-> whole, ids |-> ids]) \in Batches(V)
  <1> DEFINE stacked == [whole |-> whole, ids |-> ids]
             puts == [id \in Ids |-> IF id \in updated THEN scene'[id]
                                     ELSE IF id \in removed THEN Absent ELSE pending.puts[id]]
  <1>1. /\ pending.puts \in SceneIn(V) /\ pending.deletes \in SUBSET Ids
        /\ pending.order = Absent \/ pending.order \in Seq(V)
        /\ pending.appended \in Seq(V)
    BY DEF Batches
  <1>2. puts \in SceneIn(V)
    <2>1. puts \in Scene
      BY <1>1 DEF SceneIn, Scene, Entry
    <2>2. Timeless(puts) /\ \A id \in Ids : puts[id] # Absent => id \in V
      BY <1>1 DEF SceneIn, Timeless
    <2>3. QED
      BY <2>1, <2>2 DEF SceneIn
  <1>3. pending.appended \o ids \in Seq(V)
    BY <1>1, ConcatProperties
  <1>4. pending.order # Absent => pending.order \o ids \in Seq(V)
    BY <1>1, ConcatProperties
  <1>5. <<>> \in Seq(V)
    BY EmptySeq
  <1> DEFINE deletes == (pending.deletes \ updated) \cup removed
             order == IF whole THEN ids
                      ELSE IF pending.order # Absent THEN pending.order \o ids ELSE Absent
             appended == IF whole \/ pending.order # Absent THEN <<>> ELSE pending.appended \o ids
  <1>6. deletes \in SUBSET Ids
    BY <1>1
  <1>7. order \in Seq(V) \cup {Absent}
    BY <1>4
  <1>8. appended \in Seq(V)
    BY <1>3, <1>5
  <1>9. Recorded(updated, removed, stacked)
            = [puts |-> puts, deletes |-> deletes, order |-> order, appended |-> appended]
    BY DEF Recorded, RecordedWith
  <1> HIDE DEF puts, deletes, order, appended, stacked
  <1>10. Recorded(updated, removed, stacked) \in Batches(V)
    BY <1>2, <1>6, <1>7, <1>8, <1>9 DEF Batches
  <1>11. QED
    BY <1>10 DEF stacked

-----------------------------------------------------------------------------
(* What the user does: of these ids some are live now, some are not, and    *)
(* the others are as they were.                                             *)
Reports(updated, removed, whole, ids) ==
    /\ used \subseteq used' /\ used' \in SUBSET Ids
    /\ scene' \in SceneIn(used') /\ stack' \in Seq(used')
    /\ undo' \in Seq(Ids) /\ \A i \in DOMAIN undo' : scene'[undo'[i]] # Absent
    /\ updated \in SUBSET Ids /\ removed \in SUBSET Ids /\ updated \cap removed = {}
    /\ \A id \in updated : LiveOf(scene', id)
    /\ \A id \in removed : ~LiveOf(scene', id)
    /\ \A id \in Ids \ (updated \cup removed) : scene'[id] = scene[id]
    /\ erased \subseteq erased' /\ removed \subseteq erased'
    /\ whole \in BOOLEAN /\ ids \in Seq(used')
    /\ \E noted \in Trackers :
          /\ noted.known = tracker.known
          /\ Report(updated, removed, [whole |-> whole, ids |-> ids], noted)

LEMMA OneChanges ==
    ASSUME Types, NEW id \in Ids, NEW e \in Element, e.updated = 0,
           scene' = [scene EXCEPT ![id] = e]
    PROVE  /\ scene' \in SceneIn(used \cup {id}) /\ scene'[id] = e /\ e # Absent
           /\ \A other \in Ids \ {id} : scene'[other] = scene[other]
  <1>1. scene \in SceneIn(used) /\ e # Absent
    BY ReconcileAssumption DEF Types
  <1>2. /\ scene' \in Scene /\ scene'[id] = e
        /\ \A other \in Ids \ {id} : scene'[other] = scene[other]
    BY <1>1 DEF SceneIn, Scene, Entry
  <1>3. Timeless(scene') /\ \A some \in Ids : scene'[some] # Absent => some \in used \cup {id}
    BY <1>1, <1>2 DEF SceneIn, Timeless
  <1>4. QED
    BY <1>1, <1>2, <1>3 DEF SceneIn

LEMMA DrawnType ==
    ASSUME NEW id \in Ids, NEW nonce \in Nonces
    PROVE  /\ Drawn(id, nonce) \in Element /\ Drawn(id, nonce).updated = 0
           /\ ~Drawn(id, nonce).isDeleted
  <1>1. nonce \in Nat
    BY DraftsAssumption
  <1>2. QED
    BY <1>1 DEF Drawn, Element

LEMMA OneIsIn ==
    ASSUME NEW id, NEW U, id \in U
    PROVE  <<id>> \in Seq(U) /\ Range(<<id>>) = {id}
  BY DEF Range

LEMMA DrawReports ==
    ASSUME Types, NEW id \in Ids, Draw(id)
    PROVE  /\ Reports({id}, {}, FALSE, <<id>>) /\ stack' = Append(stack, id)
           /\ id \notin used /\ page = "open"
  <1>1. /\ id \notin used /\ used' = used \cup {id} /\ stack' = Append(stack, id)
        /\ undo' = <<>> /\ erased' = erased
        /\ Report({id}, {}, OnTop(<<id>>), NoteChanged(tracker, id))
    BY DEF Draw
  <1>2. PICK nonce \in Nonces : scene' = [scene EXCEPT ![id] = Drawn(id, nonce)]
    BY DEF Draw
  <1> DEFINE e == Drawn(id, nonce)
  <1>3. e \in Element /\ e.updated = 0 /\ ~e.isDeleted
    BY DrawnType
  <1>4. scene' = [scene EXCEPT ![id] = e]
    BY <1>2
  <1> HIDE DEF e
  <1>5. /\ scene' \in SceneIn(used') /\ scene'[id] = e /\ e # Absent
        /\ \A other \in Ids \ {id} : scene'[other] = scene[other]
    BY <1>1, <1>3, <1>4, OneChanges
  <1>6. LiveOf(scene', id)
    BY <1>3, <1>5 DEF LiveOf, IsLive
  <1> DEFINE U == used'
  <1>7. U \in SUBSET Ids /\ used \subseteq U /\ id \in U
    BY <1>1 DEF Types
  <1>8. stack \in Seq(U)
    BY <1>7, SeqMonotonic DEF Types
  <1> HIDE DEF U
  <1>9. Append(stack, id) \in Seq(U)
    BY <1>7, <1>8, AppendProperties
  <1>10. <<id>> \in Seq(U)
    BY <1>7, OneIsIn
  <1>11. /\ NoteChanged(tracker, id) \in Trackers
         /\ NoteChanged(tracker, id).known = tracker.known
    BY NotedType DEF Types
  <1>12. undo' \in Seq(Ids) /\ \A i \in DOMAIN undo' : scene'[undo'[i]] # Absent
    BY <1>1, NothingToUndo
  <1>13. \E noted \in Trackers :
            /\ noted.known = tracker.known
            /\ Report({id}, {}, [whole |-> FALSE, ids |-> <<id>>], noted)
    BY <1>1, <1>11, Zenon DEF OnTop
  <1>14. \A some \in Ids \ ({id} \cup {}) : scene'[some] = scene[some]
    BY <1>5
  <1>15. stack' \in Seq(used') /\ used' \in SUBSET Ids /\ used \subseteq used' /\ <<id>> \in Seq(used')
    BY <1>1, <1>7, <1>9, <1>10 DEF U
  <1>16. /\ {id} \in SUBSET Ids /\ {} \in SUBSET Ids /\ {id} \cap {} = {}
         /\ \A some \in {id} : LiveOf(scene', some)
         /\ erased \subseteq erased' /\ {} \subseteq erased'
    BY <1>1, <1>6
  <1>17. Reports({id}, {}, FALSE, <<id>>)
    BY <1>5, <1>12, <1>13, <1>14, <1>15, <1>16, Zenon DEF Reports
  <1>18. QED
    BY <1>1, <1>17 DEF Report

LEMMA DrawBelowReports ==
    ASSUME Types, NEW id \in Ids, DrawBelow(id)
    PROVE  /\ Reports({id}, {}, TRUE, <<id>> \o Shown) /\ stack' = <<id>> \o stack
           /\ id \notin used /\ page = "open"
  <1>1. /\ id \notin used /\ used' = used \cup {id} /\ stack' = <<id>> \o stack
        /\ undo' = <<>> /\ erased' = erased
        /\ Report({id}, {}, Whole(<<id>> \o Shown), NoteEverything(NoteChanged(tracker, id)))
    BY DEF DrawBelow
  <1>2. PICK nonce \in Nonces : scene' = [scene EXCEPT ![id] = Drawn(id, nonce)]
    BY DEF DrawBelow
  <1> DEFINE e == Drawn(id, nonce)
  <1>3. e \in Element /\ e.updated = 0 /\ ~e.isDeleted
    BY DrawnType
  <1>4. scene' = [scene EXCEPT ![id] = e]
    BY <1>2
  <1> HIDE DEF e
  <1>5. /\ scene' \in SceneIn(used') /\ scene'[id] = e /\ e # Absent
        /\ \A other \in Ids \ {id} : scene'[other] = scene[other]
    BY <1>1, <1>3, <1>4, OneChanges
  <1>6. LiveOf(scene', id)
    BY <1>3, <1>5 DEF LiveOf, IsLive
  <1> DEFINE U == used'
             one == <<id>>
             below == one \o Shown
  <1>7. U \in SUBSET Ids /\ used \subseteq U /\ id \in U
    BY <1>1 DEF Types
  <1>8. stack \in Seq(U) /\ Shown \in Seq(U)
    <2>1. stack \in Seq(used) /\ Shown \in Seq(used)
      BY ShownIn DEF Types
    <2> HIDE DEF U
    <2>2. QED
      BY <1>7, <2>1, SeqMonotonic
  <1> HIDE DEF U
  <1>9. one \in Seq(U)
    BY <1>7, OneIsIn
  <1> HIDE DEF one
  <1>10. one \o stack \in Seq(U) /\ below \in Seq(U)
    BY <1>8, <1>9, ConcatProperties
  <1>11. /\ NoteEverything(NoteChanged(tracker, id)) \in Trackers
         /\ NoteEverything(NoteChanged(tracker, id)).known = tracker.known
    BY NotedType DEF Types
  <1>12. undo' \in Seq(Ids) /\ \A i \in DOMAIN undo' : scene'[undo'[i]] # Absent
    BY <1>1, NothingToUndo
  <1>13. \E noted \in Trackers :
            /\ noted.known = tracker.known
            /\ Report({id}, {}, [whole |-> TRUE, ids |-> below], noted)
    BY <1>1, <1>11, Zenon DEF Whole, one
  <1>14. \A some \in Ids \ ({id} \cup {}) : scene'[some] = scene[some]
    BY <1>5
  <1>15. /\ stack' \in Seq(used') /\ used' \in SUBSET Ids /\ used \subseteq used'
         /\ below \in Seq(used')
    <2>1. stack' = one \o stack
      BY <1>1 DEF one
    <2> HIDE DEF below
    <2>2. QED
      BY <1>1, <1>7, <1>10, <2>1 DEF U
  <1>16. /\ {id} \in SUBSET Ids /\ {} \in SUBSET Ids /\ {id} \cap {} = {}
         /\ \A some \in {id} : LiveOf(scene', some)
         /\ erased \subseteq erased' /\ {} \subseteq erased'
    BY <1>1, <1>6
  <1> HIDE DEF below
  <1>17. Reports({id}, {}, TRUE, below)
    BY <1>5, <1>12, <1>13, <1>14, <1>15, <1>16, Zenon DEF Reports
  <1>18. QED
    BY <1>1, <1>17 DEF Report, below, one

LEMMA EditReports ==
    ASSUME Types, NEW id \in Ids, Edit(id)
    PROVE  /\ Reports({id}, {}, FALSE, <<>>) /\ stack' = stack
           /\ LiveIds(scene') = LiveIds(scene) /\ page = "open"
  <1>1. /\ LiveOf(scene, id) /\ used' = used /\ stack' = stack
        /\ undo' = <<>> /\ erased' = erased
        /\ Report({id}, {}, OnTop(<<>>), NoteChanged(tracker, id))
    BY DEF Edit
  <1>2. PICK nonce \in Nonces :
            scene' = [scene EXCEPT ![id].version = @ + 1, ![id].versionNonce = nonce]
    BY DEF Edit
  <1> DEFINE old == scene[id]
             v == old.version + 1
             e == [old EXCEPT !.version = v, !.versionNonce = nonce]
  <1>3. old \in Element /\ old.updated = 0 /\ old # Absent /\ ~old.isDeleted /\ id \in used
    BY <1>1 DEF Types, SceneIn, Scene, Entry, LiveOf, IsLive, Timeless
  <1>4. v \in Nat /\ nonce \in Nat
    BY <1>3, DraftsAssumption DEF Element
  <1>5. scene' = [scene EXCEPT ![id] = e]
    BY <1>2 DEF Types, SceneIn, Scene
  <1> HIDE DEF v, old
  <1>6. e \in Element /\ e.updated = 0 /\ ~e.isDeleted
    BY <1>3, <1>4 DEF Element
  <1> HIDE DEF e
  <1>7. /\ scene' \in SceneIn(used \cup {id}) /\ scene'[id] = e /\ e # Absent
        /\ \A other \in Ids \ {id} : scene'[other] = scene[other]
    BY <1>5, <1>6, OneChanges
  <1>8. scene' \in SceneIn(used')
    <2>1. used \cup {id} = used
      BY <1>3
    <2>2. QED
      BY <1>1, <1>7, <2>1
  <1>9. LiveOf(scene', id)
    BY <1>6, <1>7 DEF LiveOf, IsLive
  <1>10. LiveIds(scene') = LiveIds(scene)
    BY <1>1, <1>7, <1>9 DEF LiveIds, LiveOf
  <1>11. /\ NoteChanged(tracker, id) \in Trackers
         /\ NoteChanged(tracker, id).known = tracker.known
    BY NotedType DEF Types
  <1>12. undo' \in Seq(Ids) /\ \A i \in DOMAIN undo' : scene'[undo'[i]] # Absent
    BY <1>1, NothingToUndo
  <1>13. \E noted \in Trackers :
            /\ noted.known = tracker.known
            /\ Report({id}, {}, [whole |-> FALSE, ids |-> <<>>], noted)
    BY <1>1, <1>11, Zenon DEF OnTop
  <1>14. \A some \in Ids \ ({id} \cup {}) : scene'[some] = scene[some]
    BY <1>7
  <1>15. stack' \in Seq(used') /\ used' \in SUBSET Ids /\ used \subseteq used' /\ <<>> \in Seq(used')
    BY <1>1, EmptySeq DEF Types
  <1>16. /\ {id} \in SUBSET Ids /\ {} \in SUBSET Ids /\ {id} \cap {} = {}
         /\ \A some \in {id} : LiveOf(scene', some)
         /\ erased \subseteq erased' /\ {} \subseteq erased'
    BY <1>1, <1>9
  <1>17. Reports({id}, {}, FALSE, <<>>)
    BY <1>8, <1>12, <1>13, <1>14, <1>15, <1>16, Zenon DEF Reports
  <1>18. QED
    BY <1>1, <1>10, <1>17 DEF Report

LEMMA EraseReports ==
    ASSUME Types, NEW id \in Ids, Erase(id)
    PROVE  /\ Reports({}, {id}, FALSE, <<>>) /\ stack' = stack
           /\ LiveIds(scene') \subseteq LiveIds(scene) /\ page = "open"
  <1>1. /\ LiveOf(scene, id) /\ used' = used /\ stack' = stack
        /\ undo' = Append(undo, id) /\ erased' = erased \cup {id}
        /\ scene' = [scene EXCEPT ![id].version = @ + 1, ![id].isDeleted = TRUE]
        /\ Report({}, {id}, OnTop(<<>>), NoteChanged(tracker, id))
    BY DEF Erase
  <1> DEFINE old == scene[id]
             v == old.version + 1
             e == [old EXCEPT !.version = v, !.isDeleted = TRUE]
  <1>3. old \in Element /\ old.updated = 0 /\ old # Absent /\ id \in used
    BY <1>1 DEF Types, SceneIn, Scene, Entry, LiveOf, IsLive, Timeless
  <1>4. v \in Nat
    BY <1>3 DEF Element
  <1>5. scene' = [scene EXCEPT ![id] = e]
    BY <1>1 DEF Types, SceneIn, Scene
  <1> HIDE DEF v, old
  <1>6. e \in Element /\ e.updated = 0 /\ e.isDeleted
    BY <1>3, <1>4 DEF Element
  <1> HIDE DEF e
  <1>7. /\ scene' \in SceneIn(used \cup {id}) /\ scene'[id] = e /\ e # Absent
        /\ \A other \in Ids \ {id} : scene'[other] = scene[other]
    BY <1>5, <1>6, OneChanges
  <1>8. scene' \in SceneIn(used')
    <2>1. used \cup {id} = used
      BY <1>3
    <2>2. QED
      BY <1>1, <1>7, <2>1
  <1>9. ~LiveOf(scene', id)
    BY <1>6, <1>7 DEF LiveOf, IsLive
  <1>10. LiveIds(scene') \subseteq LiveIds(scene)
    BY <1>1, <1>7, <1>9 DEF LiveIds, LiveOf
  <1>11. /\ NoteChanged(tracker, id) \in Trackers
         /\ NoteChanged(tracker, id).known = tracker.known
    BY NotedType DEF Types
  <1>12. undo' \in Seq(Ids) /\ \A i \in DOMAIN undo' : scene'[undo'[i]] # Absent
    <2> DEFINE longer == Append(undo, id)
               n == Len(undo)
    <2>1. undo \in Seq(Ids)
      BY DEF Types
    <2>2. /\ longer \in Seq(Ids) /\ Len(longer) = n + 1 /\ n \in Nat
          /\ \A i \in 1..n : longer[i] = undo[i] /\ undo[i] \in Ids
          /\ longer[n + 1] = id
      BY <2>1, AppendProperties, LenProperties, ElementOfSeq
    <2>3. DOMAIN longer = 1..(n + 1) /\ DOMAIN undo = 1..n
      BY <2>1, <2>2, LenProperties
    <2> HIDE DEF longer, n
    <2>4. ASSUME NEW i \in 1..(n + 1) PROVE scene'[longer[i]] # Absent
      <3>1. CASE i = n + 1
        BY <1>7, <2>2, <3>1
      <3>2. CASE i # n + 1
        <4>1. i \in 1..n
          BY <2>2, <3>2
        <4>2. longer[i] = undo[i] /\ undo[i] \in Ids /\ scene[undo[i]] # Absent
          BY <2>2, <2>3, <4>1 DEF Types
        <4>3. QED
          BY <1>7, <4>2
      <3>3. QED
        BY <3>1, <3>2
    <2>5. QED
      BY <1>1, <2>2, <2>3, <2>4 DEF longer
  <1>13. \E noted \in Trackers :
            /\ noted.known = tracker.known
            /\ Report({}, {id}, [whole |-> FALSE, ids |-> <<>>], noted)
    BY <1>1, <1>11, Zenon DEF OnTop
  <1>14. \A some \in Ids \ ({} \cup {id}) : scene'[some] = scene[some]
    BY <1>7
  <1>15. stack' \in Seq(used') /\ used' \in SUBSET Ids /\ used \subseteq used' /\ <<>> \in Seq(used')
    BY <1>1, EmptySeq DEF Types
  <1>16. /\ {id} \in SUBSET Ids /\ {} \in SUBSET Ids /\ {} \cap {id} = {}
         /\ \A some \in {id} : ~LiveOf(scene', some)
         /\ erased \subseteq erased' /\ {id} \subseteq erased'
    BY <1>1, <1>9
  <1>17. Reports({}, {id}, FALSE, <<>>)
    BY <1>8, <1>12, <1>13, <1>14, <1>15, <1>16, Zenon DEF Reports
  <1>18. QED
    BY <1>1, <1>10, <1>17 DEF Report

LEMMA UndeleteReports ==
    ASSUME Types, NEW id \in Ids, Undelete(id)
    PROVE  Reports({id}, {}, TRUE, Shown') /\ page = "open"
  <1>1. /\ undo # <<>> /\ id = Last(undo) /\ used' = used /\ stack' = stack
        /\ undo' = Front(undo) /\ erased' = erased
        /\ Report({id}, {}, Whole(Shown'), NoteEverything(tracker))
    BY DEF Undelete
  <1>2. PICK nonce \in Nonces :
            scene' = [scene EXCEPT ![id].isDeleted = FALSE, ![id].version = @ + 1,
                                   ![id].versionNonce = nonce]
    BY DEF Undelete
  <1>3. /\ undo \in Seq(Ids) /\ Len(undo) \in Nat /\ Len(undo) > 0
        /\ DOMAIN undo = 1..Len(undo) /\ id = undo[Len(undo)]
    BY <1>1, LenProperties, EmptySeq DEF Types, Last
  <1> DEFINE old == scene[id]
             v == old.version + 1
             e == [old EXCEPT !.isDeleted = FALSE, !.version = v, !.versionNonce = nonce]
  <1>4. old \in Element /\ old.updated = 0 /\ old # Absent /\ id \in used
    <2>1. old # Absent
      BY <1>3 DEF Types
    <2>2. QED
      BY <2>1 DEF Types, SceneIn, Scene, Entry, Timeless
  <1>5. v \in Nat /\ nonce \in Nat
    BY <1>4, DraftsAssumption DEF Element
  <1>6. scene' = [scene EXCEPT ![id] = e]
    BY <1>2 DEF Types, SceneIn, Scene
  <1> HIDE DEF v, old
  <1>7. e \in Element /\ e.updated = 0 /\ ~e.isDeleted
    BY <1>4, <1>5 DEF Element
  <1> HIDE DEF e
  <1>8. /\ scene' \in SceneIn(used \cup {id}) /\ scene'[id] = e /\ e # Absent
        /\ \A other \in Ids \ {id} : scene'[other] = scene[other]
    BY <1>6, <1>7, OneChanges
  <1>9. scene' \in SceneIn(used')
    <2>1. used \cup {id} = used
      BY <1>4
    <2>2. QED
      BY <1>1, <1>8, <2>1
  <1>10. LiveOf(scene', id)
    BY <1>7, <1>8 DEF LiveOf, IsLive
  <1>11. NoteEverything(tracker) \in Trackers /\ NoteEverything(tracker).known = tracker.known
    BY NotedType DEF Types
  <1>12. undo' \in Seq(Ids) /\ \A i \in DOMAIN undo' : scene'[undo'[i]] # Absent
    <2>1. /\ undo' \in Seq(Ids)
          /\ \A i \in DOMAIN undo' : i \in DOMAIN undo /\ undo'[i] = undo[i]
      BY <1>1, <1>3, FrontFacts
    <2>2. \A i \in DOMAIN undo : undo[i] \in Ids /\ scene[undo[i]] # Absent
      BY <1>3, ElementOfSeq DEF Types
    <2>3. QED
      BY <1>8, <2>1, <2>2
  <1>13. \E noted \in Trackers :
            /\ noted.known = tracker.known
            /\ Report({id}, {}, [whole |-> TRUE, ids |-> Shown'], noted)
    BY <1>1, <1>11, Zenon DEF Whole
  <1>14. \A some \in Ids \ ({id} \cup {}) : scene'[some] = scene[some]
    BY <1>8
  <1>15. stack' \in Seq(used') /\ used' \in SUBSET Ids /\ used \subseteq used' /\ Shown' \in Seq(used')
    <2>1. stack' \in Seq(used') /\ used' \in SUBSET Ids /\ used \subseteq used'
      BY <1>1 DEF Types
    <2> DEFINE live == LiveIds(scene')
    <2>2. live \in SUBSET Ids /\ Shown' = Only[live][stack']
      BY DEF LiveIds, Shown
    <2> HIDE DEF live
    <2>3. Only[live][stack'] \in Seq(used')
      BY <2>1, <2>2, OnlyIn
    <2>4. QED
      BY <2>1, <2>2, <2>3
  <1>16. /\ {id} \in SUBSET Ids /\ {} \in SUBSET Ids /\ {id} \cap {} = {}
         /\ \A some \in {id} : LiveOf(scene', some)
         /\ erased \subseteq erased' /\ {} \subseteq erased'
    BY <1>1, <1>10
  <1>17. Reports({id}, {}, TRUE, Shown')
    BY <1>9, <1>12, <1>13, <1>14, <1>15, <1>16, Zenon DEF Reports
  <1>18. QED
    BY <1>1, <1>17 DEF Report

LEMMA RestackReports ==
    ASSUME Types, NEW id \in Ids, Restack(id)
    PROVE  Reports({}, {}, TRUE, Shown') /\ page = "open"
  <1> DEFINE rest == Ids \ {id}
             live == LiveIds(scene)
             under == Only[rest][stack]
             over == Only[rest][Shown]
  <1>1. /\ LiveOf(scene, id) /\ stack' = Append(under, id)
        /\ Report({}, {}, Whole(Append(over, id)), NoteEverything(tracker))
        /\ scene' = scene /\ used' = used /\ undo' = <<>> /\ erased' = erased
    BY DEF Restack
  <1>2. id \in live /\ live \in SUBSET Ids /\ rest \in SUBSET Ids /\ id \in used
    BY <1>1 DEF LiveOf, LiveIds, IsLive, Types, SceneIn
  <1>3. Shown = Only[live][stack] /\ Shown' = Only[live][stack']
    BY <1>1 DEF Shown
  <1> HIDE DEF live, rest
  <1>4. stack \in Seq(Ids) /\ Shown \in Seq(Ids) /\ stack \in Seq(used) /\ Shown \in Seq(used)
    BY ShownIn DEF Types
  <1>5. under \in Seq(used) /\ under \in Seq(Ids) /\ over \in Seq(used)
    <2>1. used \in SUBSET Ids
      BY DEF Types
    <2> HIDE DEF under, over
    <2>2. Only[rest][stack] \in Seq(used) /\ Only[rest][Shown] \in Seq(used)
      BY <1>2, <1>4, <2>1, OnlyIn
    <2>3. under \in Seq(used) /\ over \in Seq(used)
      BY <2>2 DEF under, over
    <2>4. QED
      BY <2>1, <2>3, SeqMonotonic
  <1> DEFINE both == live \cap rest
  <1>6. Only[live][under] = over
    <2>1. both \in SUBSET Ids /\ \A some \in Range(stack) : some \in live /\ some \in rest <=> some \in both
      BY <1>2
    <2> HIDE DEF both
    <2>2. Only[live][Only[rest][stack]] = Only[both][stack]
      BY <1>2, <1>4, <2>1, OnlyOfTwo
    <2>3. Only[rest][Only[live][stack]] = Only[both][stack]
      BY <1>2, <1>4, <2>1, OnlyOfTwo
    <2>4. QED
      BY <1>3, <2>2, <2>3
  <1> HIDE DEF under, over
  <1>7. Shown' = Append(over, id)
    <2>1. Only[live][Append(under, id)] = Append(Only[live][under], id)
      BY <1>2, <1>5, OnlyOfLonger
    <2>2. QED
      BY <1>1, <1>3, <1>6, <2>1
  <1>8. Append(over, id) \in Seq(used) /\ Append(under, id) \in Seq(used)
    BY <1>2, <1>5, AppendProperties
  <1>11. NoteEverything(tracker) \in Trackers /\ NoteEverything(tracker).known = tracker.known
    BY NotedType DEF Types
  <1>12. undo' \in Seq(Ids) /\ \A i \in DOMAIN undo' : scene'[undo'[i]] # Absent
    BY <1>1, NothingToUndo
  <1>13. \E noted \in Trackers :
            /\ noted.known = tracker.known
            /\ Report({}, {}, [whole |-> TRUE, ids |-> Shown'], noted)
    BY <1>1, <1>7, <1>11, Zenon DEF Whole
  <1>14. /\ \A some \in Ids \ ({} \cup {}) : scene'[some] = scene[some]
         /\ scene' \in SceneIn(used')
    BY <1>1 DEF Types
  <1>15. stack' \in Seq(used') /\ used' \in SUBSET Ids /\ used \subseteq used' /\ Shown' \in Seq(used')
    BY <1>1, <1>7, <1>8 DEF Types
  <1>16. /\ {} \in SUBSET Ids /\ {} \cap {} = {}
         /\ erased \subseteq erased' /\ {} \subseteq erased'
    BY <1>1
  <1>17. Reports({}, {}, TRUE, Shown')
    BY <1>12, <1>13, <1>14, <1>15, <1>16, Zenon DEF Reports
  <1>18. QED
    BY <1>1, <1>17 DEF Report

(* Whatever it was, it keeps the types, and whoever is gone was erased. *)
LEMMA ReportTypes ==
    ASSUME Types, NEW updated, NEW removed, NEW whole, NEW ids, page = "open",
           Reports(updated, removed, whole, ids)
    PROVE  Types'
  <1> DEFINE U == used'
  <1>1. /\ used \subseteq U /\ U \in SUBSET Ids
        /\ scene' \in SceneIn(U) /\ stack' \in Seq(U)
        /\ undo' \in Seq(Ids) /\ \A i \in DOMAIN undo' : scene'[undo'[i]] # Absent
        /\ updated \in SUBSET Ids /\ removed \in SUBSET Ids
        /\ whole \in BOOLEAN /\ ids \in Seq(U)
    BY DEF Reports
  <1>2. PICK noted \in Trackers :
            /\ noted.known = tracker.known
            /\ Report(updated, removed, [whole |-> whole, ids |-> ids], noted)
    BY Zenon DEF Reports
  <1>3. /\ pending' = Recorded(updated, removed, [whole |-> whole, ids |-> ids])
        /\ tracker' = noted
        /\ told' = told \cup updated \cup removed
        /\ placed' \in {Ids, placed \cup Range(ids)}
        /\ page' = page /\ board' = board /\ late' = late /\ queue' = queue /\ db' = db
    <2>1. [whole |-> whole, ids |-> ids].ids = ids
      OBVIOUS
    <2>2. QED
      BY <1>2, <2>1 DEF Report
  <1> HIDE DEF U
  <1>4. /\ SceneIn(used) \subseteq SceneIn(U) /\ Batches(used) \subseteq Batches(U)
        /\ Stored(used) \subseteq Stored(U)
        /\ Seq(Batches(used)) \subseteq Seq(Batches(U))
    BY <1>1, MoreIds
  <1>5. pending' \in Batches(U)
    <2>1. pending \in Batches(U)
      BY <1>4 DEF Types
    <2>2. QED
      BY <1>1, <1>3, <2>1, RecordedType
  <1>6. /\ tracker' \in Trackers /\ tracker'.known \in SceneIn(U) /\ board' \in SceneIn(U)
        /\ late' = Absent \/ late' \in SceneIn(U)
        /\ queue' \in Seq(Batches(U)) /\ db' \in Stored(U)
    BY <1>2, <1>3, <1>4 DEF Types
  <1>7. told' \in SUBSET Ids /\ placed' \in SUBSET Ids
    <2>1. Range(ids) \subseteq U
      BY <1>1, RangeOfSeq
    <2>2. QED
      BY <1>1, <1>3, <2>1 DEF Types
  <1>8. page' \in {"away", "open"}
    BY <1>3 DEF Types
  <1>9. QED
    BY <1>1, <1>5, <1>6, <1>7, <1>8, Zenon DEF Types, U

LEMMA ReportGone ==
    ASSUME GoneIsErased, NEW updated, NEW removed, NEW whole, NEW ids,
           Reports(updated, removed, whole, ids)
    PROVE  GoneIsErased'
  <1>1. PICK noted \in Trackers :
            /\ noted.known = tracker.known
            /\ Report(updated, removed, [whole |-> whole, ids |-> ids], noted)
    BY Zenon DEF Reports
  <1>2. tracker'.known = tracker.known /\ board' = board /\ late' = late
    BY <1>1 DEF Report
  <1>3. /\ \A id \in updated : LiveOf(scene', id)
        /\ \A id \in Ids \ (updated \cup removed) : scene'[id] = scene[id]
        /\ erased \subseteq erased' /\ removed \subseteq erased'
    BY DEF Reports
  <1>4. ASSUME NEW id \in Ids, LiveOf(tracker'.known, id), ~LiveOf(scene', id)
        PROVE  id \in erased'
    <2>1. id \notin updated
      BY <1>3, <1>4
    <2>2. CASE id \in removed
      BY <1>3, <2>2
    <2>3. CASE id \notin removed
      <3>1. scene'[id] = scene[id] /\ LiveOf(tracker.known, id)
        BY <1>2, <1>3, <1>4, <2>1, <2>3
      <3>2. ~LiveOf(scene, id)
        BY <1>4, <3>1 DEF LiveOf
      <3>3. QED
        BY <1>3, <3>1, <3>2 DEF GoneIsErased
    <2>4. QED
      BY <2>2, <2>3
  <1>5. QED
    BY <1>2, <1>3, <1>4 DEF GoneIsErased

-----------------------------------------------------------------------------
(* The draft keeps up: what it is about to hold says of the ids reported    *)
(* what the page has, and has those whose place was reported in the page's  *)
(* order.  That none of them is missing from its order is what makes this   *)
(* inductive: a shape drawn on top of them is written after all of them.    *)
Tells(final) == \A id \in told : final.elements[id] = Live(scene)[id]

Ranks(order) ==
    /\ \A x, y \in placed : Precedes(x, y, Shown) => Precedes(x, y, order)
    /\ placed \cap Range(Shown) \subseteq Range(order)

KeepsUp == page = "open" /\ ~failed => Tells(Settling) /\ Ranks(Settling.order)

(* What a report makes of the draft to come, whatever is written before.    *)
LEMMA RecordedElements ==
    ASSUME NEW F, NEW updated \in SUBSET Ids, NEW removed \in SUBSET Ids,
           updated \cap removed = {}, \A id \in updated : LiveOf(scene', id),
           NEW stacked
    PROVE  \A id \in Ids :
               Wrote(F, Recorded(updated, removed, stacked)).elements[id]
                   = IF id \in removed THEN Absent
                     ELSE IF id \in updated THEN scene'[id]
                     ELSE Wrote(F, pending).elements[id]
  <1> DEFINE batch == Recorded(updated, removed, stacked)
  <1>1. /\ batch.puts = [id \in Ids |-> IF id \in updated THEN scene'[id]
                                        ELSE IF id \in removed THEN Absent ELSE pending.puts[id]]
        /\ batch.deletes = (pending.deletes \ updated) \cup removed
    BY DEF Recorded, RecordedWith
  <1> HIDE DEF batch
  <1>2. ASSUME NEW id \in Ids
        PROVE  Wrote(F, batch).elements[id]
                   = IF id \in removed THEN Absent
                     ELSE IF id \in updated THEN scene'[id]
                     ELSE Wrote(F, pending).elements[id]
    <2>1. Wrote(F, batch).elements[id]
              = IF id \in batch.deletes THEN Absent
                ELSE IF batch.puts[id] # Absent THEN batch.puts[id] ELSE F.elements[id]
      BY DEF Wrote
    <2>2. Wrote(F, pending).elements[id]
              = IF id \in pending.deletes THEN Absent
                ELSE IF pending.puts[id] # Absent THEN pending.puts[id] ELSE F.elements[id]
      BY DEF Wrote
    <2>3. CASE id \in removed
      BY <1>1, <2>1, <2>3
    <2>4. CASE id \in updated
      <3>1. scene'[id] # Absent /\ id \notin removed
        BY <2>4 DEF LiveOf, IsLive
      <3>2. id \notin batch.deletes /\ batch.puts[id] = scene'[id]
        BY <1>1, <2>4, <3>1
      <3>3. QED
        BY <2>1, <2>4, <3>1, <3>2
    <2>5. CASE id \notin removed /\ id \notin updated
      <3>1. id \in batch.deletes <=> id \in pending.deletes
        BY <1>1, <2>5
      <3>2. batch.puts[id] = pending.puts[id]
        BY <1>1, <2>5
      <3>3. QED
        BY <2>1, <2>2, <2>5, <3>1, <3>2
    <2>6. QED
      BY <2>3, <2>4, <2>5
  <1>3. QED
    BY <1>2 DEF batch

LEMMA RecordedWhole ==
    ASSUME NEW F, NEW updated, NEW removed, NEW U \in SUBSET Ids, NEW ids \in Seq(U)
    PROVE  Wrote(F, Recorded(updated, removed, [whole |-> TRUE, ids |-> ids])).order = ids
  <1> DEFINE batch == Recorded(updated, removed, [whole |-> TRUE, ids |-> ids])
  <1>1. batch.order = ids
    BY DEF Recorded, RecordedWith
  <1> HIDE DEF batch
  <1>2. ids # Absent
    <2>1. ids \in Seq(Ids)
      BY SeqMonotonic
    <2>2. QED
      BY <2>1, SceneDiffAssumption
  <1>3. Stacked(F.order, batch) = ids
    BY <1>1, <1>2 DEF Stacked
  <1>4. QED
    BY <1>3 DEF Wrote, batch

(* Nothing, or one id that was not there, goes on top. *)
LEMMA RecordedOnTop ==
    ASSUME NEW U \in SUBSET Ids, NEW F \in Stored(U), pending \in Batches(U),
           NEW updated, NEW removed, NEW ids \in Seq(Ids)
    PROVE  LET batch == Recorded(updated, removed, [whole |-> FALSE, ids |-> ids])
               rest == Ids \ Range(F.order)
           IN  Range(ids) \subseteq rest =>
                   /\ Wrote(F, batch).order = Wrote(F, pending).order \o ids
                   /\ Wrote(F, pending).order \in Seq(U)
  <1> DEFINE batch == Recorded(updated, removed, [whole |-> FALSE, ids |-> ids])
             rest == Ids \ Range(F.order)
             order == F.order
             new == pending.appended
  <1>1. /\ batch.order = IF pending.order # Absent THEN pending.order \o ids ELSE Absent
        /\ batch.appended = IF pending.order # Absent THEN <<>> ELSE new \o ids
    BY DEF Recorded, RecordedWith
  <1> HIDE DEF batch
  <1>2. /\ Wrote(F, batch).order = Stacked(order, batch)
        /\ Wrote(F, pending).order = Stacked(order, pending)
    BY DEF Wrote
  <1>3. order \in Seq(U) /\ order \in Seq(Ids) /\ new \in Seq(U) /\ new \in Seq(Ids)
    <2>1. order \in Seq(U) /\ new \in Seq(U)
      BY DEF Stored, Batches
    <2> HIDE DEF order, new
    <2>2. QED
      BY <2>1, SeqMonotonic
  <1>4. Stacked(order, pending) \in Seq(U)
    <2> HIDE DEF order
    <2>1. QED
      BY <1>3, StackedType
  <1>5. CASE pending.order # Absent
    <2>1. Stacked(order, pending) = pending.order
      BY <1>5 DEF Stacked
    <2>2. pending.order \o ids # Absent
      <3> DEFINE p == pending.order
      <3>1. p \in Seq(U)
        BY <1>5 DEF Batches
      <3> HIDE DEF p
      <3>2. p \in Seq(Ids)
        BY <3>1, SeqMonotonic
      <3>3. p \o ids \in Seq(Ids)
        BY <3>2, ConcatProperties
      <3>4. QED
        BY <3>3, SceneDiffAssumption DEF p
    <2>3. batch.order = pending.order \o ids /\ batch.order # Absent
      BY <1>1, <1>5, <2>2
    <2>4. Stacked(order, batch) = pending.order \o ids
      BY <2>3, Zenon DEF Stacked
    <2>5. QED
      BY <1>2, <1>4, <2>1, <2>4, Zenon DEF batch
  <1>6. CASE pending.order = Absent
    <2>1. Stacked(order, pending) = order \o Only[rest][new]
      BY <1>6 DEF Stacked
    <2>2. Stacked(order, batch) = order \o Only[rest][new \o ids]
      <3>1. batch.order = Absent /\ batch.appended = new \o ids
        BY <1>1, <1>6
      <3>2. QED
        BY <3>1, Zenon DEF Stacked
    <2>3. rest \in SUBSET Ids
      OBVIOUS
    <2>4. ASSUME Range(ids) \subseteq rest
          PROVE  Stacked(order, batch) = Stacked(order, pending) \o ids
      <3> HIDE DEF rest, new, order
      <3>1. Only[rest][new \o ids] = Only[rest][new] \o Only[rest][ids]
        BY <1>3, <2>3, OnlyOfBoth
      <3>2. Only[rest][ids] = ids
        BY <2>3, <2>4, OnlyOfAll
      <3> DEFINE mid == Only[rest][new]
      <3>3. mid \in Seq(Ids)
        BY <1>3, <2>3, OnlyFacts
      <3> HIDE DEF mid
      <3>4. order \o (mid \o ids) = (order \o mid) \o ids
        BY <1>3, <3>3, ConcatThree
      <3>5. Stacked(order, pending) = order \o mid
        BY <2>1 DEF mid
      <3>6. Stacked(order, batch) = order \o (mid \o ids)
        BY <2>2, <3>1, <3>2, Zenon DEF mid
      <3>7. QED
        BY <3>4, <3>5, <3>6, Zenon
    <2>5. QED
      BY <1>2, <1>4, <2>4, Zenon DEF batch, rest
  <1>7. QED
    BY <1>5, <1>6, Zenon DEF batch

LEMMA SettlingType ==
    ASSUME Types
    PROVE  /\ AllWritten(db, queue) \in Stored(used) /\ used \in SUBSET Ids
           /\ Settling = Wrote(AllWritten(db, queue), pending) /\ Settling \in Stored(used)
  <1>1. used \in SUBSET Ids /\ db \in Stored(used) /\ queue \in Seq(Batches(used))
        /\ pending \in Batches(used)
    BY DEF Types
  <1>2. AllWritten(db, queue) \in Stored(used)
    BY <1>1, AllWrittenType
  <1>3. Wrote(AllWritten(db, queue), pending) \in Stored(used)
    BY <1>1, <1>2, WroteType
  <1>4. QED
    BY <1>1, <1>2, <1>3, SettlingIs

(* What a report leaves to be written, on top of what was. *)
LEMMA ReportSettles ==
    ASSUME Types, NEW updated, NEW removed, NEW whole, NEW ids,
           Reports(updated, removed, whole, ids)
    PROVE  \E F \in Stored(used') :
              /\ F \in Stored(used)
              /\ Settling = Wrote(F, pending)
              /\ Settling' = Wrote(F, Recorded(updated, removed, [whole |-> whole, ids |-> ids]))
  <1>1. PICK noted \in Trackers :
            Report(updated, removed, [whole |-> whole, ids |-> ids], noted)
    BY Zenon DEF Reports
  <1>2. /\ pending' = Recorded(updated, removed, [whole |-> whole, ids |-> ids])
        /\ queue' = queue /\ db' = db
    BY <1>1 DEF Report
  <1>3. used \subseteq used' /\ used' \in SUBSET Ids
    BY DEF Reports
  <1>4. PICK F \in Stored(used) : F = AllWritten(db, queue) /\ Settling = Wrote(F, pending)
    BY SettlingType
  <1>5. F \in Stored(used')
    BY <1>3, <1>4, MoreIds
  <1>6. Settling' = Wrote(AllWritten(db', queue'), pending')
    BY Zenon DEF Settling, AllWritten, Writing, IsWriting
  <1>7. Settling' = Wrote(F, pending')
    BY <1>2, <1>4, <1>6
  <1>8. QED
    BY <1>2, <1>4, <1>5, <1>7

LEMMA ReportTells ==
    ASSUME Types, Tells(Settling), NEW updated, NEW removed, NEW whole, NEW ids,
           Reports(updated, removed, whole, ids)
    PROVE  Tells(Settling)'
  <1>1. PICK F \in Stored(used') :
            /\ Settling = Wrote(F, pending)
            /\ Settling' = Wrote(F, Recorded(updated, removed, [whole |-> whole, ids |-> ids]))
    BY ReportSettles
  <1>2. /\ updated \in SUBSET Ids /\ removed \in SUBSET Ids /\ updated \cap removed = {}
        /\ \A id \in updated : LiveOf(scene', id)
        /\ \A id \in removed : ~LiveOf(scene', id)
        /\ \A id \in Ids \ (updated \cup removed) : scene'[id] = scene[id]
    BY DEF Reports
  <1>3. told' = told \cup updated \cup removed
    BY Zenon DEF Reports, Report
  <1>4. \A id \in Ids :
            Settling'.elements[id] = IF id \in removed THEN Absent
                                     ELSE IF id \in updated THEN scene'[id]
                                     ELSE Settling.elements[id]
    BY <1>1, <1>2, RecordedElements
  <1>5. ASSUME NEW id \in told'
        PROVE  Settling'.elements[id] = Live(scene')[id]
    <2>1. id \in Ids
      BY <1>2, <1>3 DEF Types
    <2>2. Live(scene')[id] = IF LiveOf(scene', id) THEN scene'[id] ELSE Absent
      BY <2>1 DEF Live
    <2>3. CASE id \in removed
      BY <1>2, <1>4, <2>1, <2>2, <2>3
    <2>4. CASE id \in updated
      BY <1>2, <1>4, <2>1, <2>2, <2>4
    <2>5. CASE id \notin removed /\ id \notin updated
      <3>1. id \in told /\ scene'[id] = scene[id]
        BY <1>2, <1>3, <2>1, <2>5
      <3>2. Settling.elements[id] = Live(scene)[id]
        BY <3>1 DEF Tells
      <3>3. Live(scene)[id] = IF LiveOf(scene, id) THEN scene[id] ELSE Absent
        BY <2>1 DEF Live
      <3>4. LiveOf(scene', id) <=> LiveOf(scene, id)
        BY <3>1 DEF LiveOf
      <3>5. QED
        BY <1>4, <2>1, <2>2, <2>5, <3>1, <3>2, <3>3, <3>4
    <2>6. QED
      BY <2>3, <2>4, <2>5
  <1>6. QED
    BY <1>5 DEF Tells

(* The whole order. *)
LEMMA WholeRanks ==
    ASSUME Types, NEW updated, NEW removed, Reports(updated, removed, TRUE, Shown')
    PROVE  Ranks(Settling.order)'
  <1>1. PICK F \in Stored(used') :
            Settling' = Wrote(F, Recorded(updated, removed, [whole |-> TRUE, ids |-> Shown']))
    BY ReportSettles
  <1>2. Shown' \in Seq(used') /\ used' \in SUBSET Ids
    BY DEF Reports
  <1>3. Settling'.order = Shown'
    BY <1>1, <1>2, RecordedWhole
  <1>4. QED
    BY <1>3 DEF Ranks

(* Nothing moved, and nothing new is shown. *)
LEMMA NothingOnTopRanks ==
    ASSUME Types, Ranks(Settling.order), NEW updated, NEW removed,
           Reports(updated, removed, FALSE, <<>>), stack' = stack,
           LiveIds(scene') \subseteq LiveIds(scene)
    PROVE  Ranks(Settling.order)'
  <1> DEFINE none == <<>>
  <1>1. PICK F \in Stored(used') :
            /\ F \in Stored(used)
            /\ Settling = Wrote(F, pending)
            /\ Settling' = Wrote(F, Recorded(updated, removed, [whole |-> FALSE, ids |-> none]))
    BY ReportSettles
  <1>2. none \in Seq(Ids) /\ Range(none) = {}
    BY EmptyRange
  <1>3. used \in SUBSET Ids /\ pending \in Batches(used)
    BY DEF Types
  <1>4. placed' = placed \cup Range(none)
    <2>1. PICK noted \in Trackers :
              Report(updated, removed, [whole |-> FALSE, ids |-> none], noted)
      BY Zenon DEF Reports
    <2> HIDE DEF none
    <2>2. QED
      BY <2>1 DEF Report
  <1> HIDE DEF none
  <1>5. Settling'.order = Settling.order \o none /\ Settling.order \in Seq(used)
    BY <1>1, <1>2, <1>3, RecordedOnTop
  <1>6. Settling'.order = Settling.order
    <2> DEFINE order == Settling.order
    <2>1. order \in Seq(used)
      BY <1>5
    <2> HIDE DEF order
    <2>2. order \o <<>> = order
      BY <2>1, ConcatEmptySeq
    <2>3. QED
      BY <1>5, <2>2 DEF order, none
  <1> DEFINE live == LiveIds(scene)
             left == LiveIds(scene')
  <1>7. stack \in Seq(Ids) /\ live \in SUBSET Ids /\ left \in SUBSET Ids /\ left \subseteq live
    BY ShownIn DEF Types, LiveIds
  <1>8. Shown = Only[live][stack] /\ Shown' = Only[left][stack]
    BY DEF Shown
  <1> HIDE DEF live, left
  <1>9. \A x, y : Precedes(x, y, Shown') => Precedes(x, y, Shown)
    BY <1>7, <1>8, OnlyPrecedes
  <1>10. Range(Shown') \subseteq Range(Shown)
    BY <1>7, <1>8, OnlyFacts
  <1>11. placed' = placed
    BY <1>2, <1>4
  <1>12. QED
    BY <1>6, <1>9, <1>10, <1>11 DEF Ranks

(* A new shape on top. *)
LEMMA OneOnTopRanks ==
    ASSUME Types, Ranks(Settling.order), NEW id \in Ids, id \notin used,
           Reports({id}, {}, FALSE, <<id>>), stack' = Append(stack, id)
    PROVE  Ranks(Settling.order)'
  <1> DEFINE one == <<id>>
  <1>1. PICK F \in Stored(used') :
            /\ F \in Stored(used)
            /\ Settling = Wrote(F, pending)
            /\ Settling' = Wrote(F, Recorded({id}, {}, [whole |-> FALSE, ids |-> one]))
    BY ReportSettles
  <1>2. one \in Seq(Ids) /\ Range(one) = {id}
    BY OneIsIn
  <1>3. used \in SUBSET Ids /\ pending \in Batches(used)
    BY DEF Types
  <1>4. placed' = placed \cup Range(one)
    <2>1. PICK noted \in Trackers :
              Report({id}, {}, [whole |-> FALSE, ids |-> one], noted)
      BY Zenon DEF Reports
    <2> HIDE DEF one
    <2>2. QED
      BY <2>1 DEF Report
  <1> HIDE DEF one
  <1>5. Settling'.order = Settling.order \o one /\ Settling.order \in Seq(used)
    <2>1. F.order \in Seq(used)
      BY <1>1 DEF Stored
    <2>2. Range(F.order) \subseteq used
      BY <2>1, RangeOfSeq
    <2>3. Range(one) \subseteq Ids \ Range(F.order)
      BY <1>2, <2>2
    <2>4. QED
      BY <1>1, <1>2, <1>3, <2>3, RecordedOnTop
  <1>6. PICK order \in Seq(used) : order = Settling.order
    BY <1>5
  <1>7. order \in Seq(Ids) /\ Settling'.order = Append(order, id)
    <2>1. order \in Seq(Ids)
      BY <1>3, <1>6, SeqMonotonic
    <2>2. Append(order, id) = order \o <<id>>
      BY <2>1, AppendIsConcat
    <2>3. Settling'.order = order \o one
      BY <1>5, <1>6
    <2>4. QED
      BY <2>1, <2>2, <2>3 DEF one
  <1> DEFINE live == LiveIds(scene)
             more == LiveIds(scene')
  <1>8. stack \in Seq(Ids) /\ stack \in Seq(used) /\ live \in SUBSET Ids /\ more \in SUBSET Ids
    BY ShownIn DEF Types, LiveIds
  <1>9. Shown = Only[live][stack] /\ Shown' = Only[more][Append(stack, id)]
    BY DEF Shown
  <1>10. id \in more /\ \A some \in used : some \in more <=> some \in live
    <2>1. /\ LiveOf(scene', id)
          /\ \A some \in Ids \ {id} : scene'[some] = scene[some]
      BY DEF Reports
    <2>2. \A some \in used : some \in Ids \ {id}
      BY <1>3
    <2>3. QED
      BY <2>1, <2>2 DEF LiveIds, LiveOf
  <1> HIDE DEF live, more
  <1>11. Range(stack) \subseteq used
    BY <1>8, RangeOfSeq
  <1>12. Shown' = Append(Shown, id)
    <2>1. Only[more][Append(stack, id)] = Append(Only[more][stack], id)
      BY <1>8, <1>10, OnlyOfLonger
    <2>2. Range(stack) \cap more = Range(stack) \cap live
      BY <1>10, <1>11
    <2>3. Only[more][stack] = Only[live][stack]
      BY <1>8, <2>2, OnlyDepends
    <2>4. QED
      BY <1>9, <2>1, <2>3
  <1>13. Shown \in Seq(Ids) /\ Range(Shown) \subseteq used
    BY <1>8, <1>9, <1>11, OnlyFacts
  <1>14. ASSUME NEW x \in placed', NEW y \in placed', Precedes(x, y, Shown')
         PROVE  Precedes(x, y, Settling'.order)
    <2>1. CASE Precedes(x, y, Shown)
      <3>1. x \in Range(Shown) /\ y \in Range(Shown)
        BY <1>13, <2>1, PrecedesRange
      <3>2. x \in placed /\ y \in placed
        BY <1>2, <1>4, <1>13, <3>1
      <3>3. Precedes(x, y, order)
        BY <1>6, <2>1, <3>2 DEF Ranks
      <3>4. QED
        BY <1>7, <3>3, AppendPrecedes
    <2>2. CASE ~Precedes(x, y, Shown)
      <3>1. x \in Range(Shown) /\ y = id
        BY <1>12, <1>13, <1>14, <2>2, AppendPrecedes
      <3>2. x \in placed
        BY <1>2, <1>4, <1>13, <3>1
      <3>3. x \in Range(order)
        BY <1>6, <3>1, <3>2 DEF Ranks
      <3>4. QED
        BY <1>7, <3>1, <3>3, AppendPrecedes
    <2>3. QED
      BY <2>1, <2>2
  <1>15. placed' \cap Range(Shown') \subseteq Range(Settling'.order)
    <2>1. Range(Shown') = Range(Shown) \cup {id}
      BY <1>12, <1>13, AppendRange
    <2>2. Range(Settling'.order) = Range(order) \cup {id}
      BY <1>7, AppendRange
    <2>3. placed \cap Range(Shown) \subseteq Range(order)
      BY <1>6 DEF Ranks
    <2>4. QED
      BY <1>2, <1>4, <2>1, <2>2, <2>3
  <1>16. QED
    BY <1>14, <1>15 DEF Ranks

IInv == Types /\ GoneIsErased /\ KeepsUp

LEMMA DrawBelowShows ==
    ASSUME Types, NEW id \in Ids, DrawBelow(id)
    PROVE  Shown' = <<id>> \o Shown
  <1>1. /\ Reports({id}, {}, TRUE, <<id>> \o Shown) /\ stack' = <<id>> \o stack
        /\ id \notin used
    BY DrawBelowReports
  <1> DEFINE one == <<id>>
             live == LiveIds(scene)
             more == LiveIds(scene')
  <1>2. stack \in Seq(Ids) /\ stack \in Seq(used) /\ live \in SUBSET Ids /\ more \in SUBSET Ids
    BY ShownIn DEF Types, LiveIds
  <1>3. Shown = Only[live][stack] /\ Shown' = Only[more][one \o stack]
    BY <1>1 DEF Shown
  <1>4. id \in more /\ \A some \in used : some \in more <=> some \in live
    <2>1. /\ LiveOf(scene', id)
          /\ \A some \in Ids \ {id} : scene'[some] = scene[some]
      BY <1>1 DEF Reports
    <2>2. \A some \in used : some \in Ids \ {id}
      BY <1>1 DEF Types
    <2>3. QED
      BY <2>1, <2>2 DEF LiveIds, LiveOf
  <1> HIDE DEF live, more
  <1>5. Range(stack) \subseteq used
    BY <1>2, RangeOfSeq
  <1>6. Range(stack) \cap more = Range(stack) \cap live
    BY <1>4, <1>5
  <1>7. Only[more][stack] = Only[live][stack]
    BY <1>2, <1>6, OnlyDepends
  <1>8. one \in Seq(Ids) /\ Range(one) \subseteq more
    BY <1>4, OneIsIn
  <1> HIDE DEF one
  <1>9. Only[more][one \o stack] = Only[more][one] \o Only[more][stack]
    BY <1>2, <1>8, OnlyOfBoth
  <1>10. Only[more][one] = one
    BY <1>2, <1>8, OnlyOfAll
  <1>11. QED
    BY <1>3, <1>7, <1>9, <1>10, Zenon DEF one

LEMMA DrawingKeeps ==
    ASSUME IInv, NEW id \in Ids,
           Draw(id) \/ DrawBelow(id) \/ Edit(id) \/ Erase(id) \/ Undelete(id) \/ Restack(id)
    PROVE  IInv'
  <1>1. Types /\ GoneIsErased
    BY DEF IInv
  <1>2. ASSUME NEW updated, NEW removed, NEW whole, NEW ids,
               Reports(updated, removed, whole, ids), page = "open",
               ~failed /\ Tells(Settling) /\ Ranks(Settling.order) => Ranks(Settling.order)'
        PROVE  IInv'
    <2>1. Types'
      BY <1>1, <1>2, ReportTypes
    <2>2. GoneIsErased'
      BY <1>1, <1>2, ReportGone
    <2>3. failed' = failed
      BY <1>2, Zenon DEF Reports, Report
    <2>4. KeepsUp'
      <3>1. CASE failed
        BY <2>3, <3>1 DEF KeepsUp
      <3>2. CASE ~failed
        <4>1. Tells(Settling) /\ Ranks(Settling.order)
          BY <1>2, <3>2 DEF IInv, KeepsUp
        <4>2. Tells(Settling)'
          BY <1>1, <1>2, <4>1, ReportTells
        <4>3. Ranks(Settling.order)'
          BY <1>2, <3>2, <4>1
        <4>4. QED
          BY <4>2, <4>3 DEF KeepsUp
      <3>3. QED
        BY <3>1, <3>2
    <2>5. QED
      BY <2>1, <2>2, <2>4 DEF IInv
  <1>3. CASE Draw(id)
    <2>1. /\ Reports({id}, {}, FALSE, <<id>>) /\ stack' = Append(stack, id)
          /\ id \notin used /\ page = "open"
      BY <1>1, <1>3, DrawReports
    <2>2. Ranks(Settling.order) => Ranks(Settling.order)'
      BY <1>1, <2>1, OneOnTopRanks
    <2>3. QED
      BY <1>2, <2>1, <2>2
  <1>4. CASE DrawBelow(id)
    <2>1. Reports({id}, {}, TRUE, Shown') /\ page = "open"
      BY <1>1, <1>4, DrawBelowReports, DrawBelowShows
    <2>2. Ranks(Settling.order)'
      BY <1>1, <2>1, WholeRanks
    <2>3. QED
      BY <1>2, <2>1, <2>2
  <1>5. CASE Edit(id)
    <2>1. /\ Reports({id}, {}, FALSE, <<>>) /\ stack' = stack
          /\ LiveIds(scene') \subseteq LiveIds(scene) /\ page = "open"
      BY <1>1, <1>5, EditReports
    <2>2. Ranks(Settling.order) => Ranks(Settling.order)'
      BY <1>1, <2>1, NothingOnTopRanks
    <2>3. QED
      BY <1>2, <2>1, <2>2
  <1>6. CASE Erase(id)
    <2>1. /\ Reports({}, {id}, FALSE, <<>>) /\ stack' = stack
          /\ LiveIds(scene') \subseteq LiveIds(scene) /\ page = "open"
      BY <1>1, <1>6, EraseReports
    <2>2. Ranks(Settling.order) => Ranks(Settling.order)'
      BY <1>1, <2>1, NothingOnTopRanks
    <2>3. QED
      BY <1>2, <2>1, <2>2
  <1>7. CASE Undelete(id)
    <2>1. Reports({id}, {}, TRUE, Shown') /\ page = "open"
      BY <1>1, <1>7, UndeleteReports
    <2>2. Ranks(Settling.order)'
      BY <1>1, <2>1, WholeRanks
    <2>3. QED
      BY <1>2, <2>1, <2>2
  <1>8. CASE Restack(id)
    <2>1. Reports({}, {}, TRUE, Shown') /\ page = "open"
      BY <1>1, <1>8, RestackReports
    <2>2. Ranks(Settling.order)'
      BY <1>1, <2>1, WholeRanks
    <2>3. QED
      BY <1>2, <2>1, <2>2
  <1>9. QED
    BY <1>3, <1>4, <1>5, <1>6, <1>7, <1>8

-----------------------------------------------------------------------------
(* The draft's own steps. *)
LEMMA WroteNothing ==
    ASSUME NEW U \in SUBSET Ids, NEW stored \in Stored(U)
    PROVE  Wrote(stored, NoBatch) = stored
  <1> DEFINE elements == stored.elements
             order == stored.order
             rest == Ids \ Range(order)
  <1>1. elements \in SceneIn(U) /\ order \in Seq(U)
        /\ stored = [elements |-> elements, order |-> order]
    BY DEF Stored
  <1>2. Wrote(stored, NoBatch).elements = elements
    BY <1>1 DEF Wrote, NoBatch, Nobody, SceneIn, Scene
  <1>3. Stacked(order, NoBatch) = order \o Only[rest][<<>>]
    BY DEF Stacked, NoBatch
  <1>4. rest \in SUBSET Ids
    OBVIOUS
  <1> DEFINE none == <<>>
  <1>5. none \in Seq(Ids) /\ Range(none) = {}
    BY EmptyRange
  <1> HIDE DEF elements, order, rest, none
  <1>6. Only[rest][none] = <<>>
    BY <1>4, <1>5, OnlyOfNone
  <1>7. order \o <<>> = order
    BY <1>1, ConcatEmptySeq
  <1>8. Stacked(order, NoBatch) = order
    BY <1>3, <1>6, <1>7, Zenon DEF none
  <1>9. Wrote(stored, NoBatch) = [elements |-> Wrote(stored, NoBatch).elements, order |-> order]
    BY <1>8 DEF Wrote, order
  <1>10. QED
    BY <1>1, <1>2, <1>9

LEMMA KeptUp ==
    ASSUME KeepsUp, Settling' = Settling, page' = page, failed' = failed, told' = told,
           placed' = placed, scene' = scene, stack' = stack
    PROVE  KeepsUp'
  <1>1. Shown' = Shown
    BY DEF Shown
  <1>2. Tells(Settling)' <=> Tells(Settling)
    BY Zenon DEF Tells, Live
  <1>3. Ranks(Settling.order)' <=> Ranks(Settling.order)
    BY <1>1, Zenon DEF Ranks
  <1>4. QED
    BY <1>2, <1>3, Zenon DEF KeepsUp

LEMMA BatchesIssued ==
    ASSUME Types
    PROVE  Issued \in Seq(Batches(used))
  <1> DEFINE B == Batches(used)
  <1>1. queue \in Seq(B) /\ pending \in B
    BY DEF Types
  <1> HIDE DEF B
  <1>2. Append(queue, pending) \in Seq(B)
    BY <1>1, AppendProperties
  <1>3. QED
    BY <1>1, <1>2 DEF Issued, B

LEMMA FlushKeeps ==
    ASSUME IInv, FlushDraft
    PROVE  IInv'
  <1>1. Types /\ GoneIsErased /\ KeepsUp
    BY DEF IInv
  <1>2. /\ queue' = Append(queue, pending) /\ pending' = NoBatch /\ db' = db
        /\ queue' = Issued
        /\ UNCHANGED <<page, scene, stack, undo, tracker, board, late, told, placed, failed,
                       used, erased>>
    BY DEF FlushDraft, Issued, browser, history
  <1>3. Types'
    <2>1. queue' \in Seq(Batches(used)) /\ NoBatch \in Batches(used)
      BY <1>1, <1>2, BatchesIssued, NothingIn
    <2>2. QED
      BY <1>1, <1>2, <2>1, Zenon DEF Types
  <1>4. GoneIsErased'
    BY <1>1, <1>2 DEF GoneIsErased
  <1>5. Settling' = Settling
    <2>1. PICK F \in Stored(used) : F = AllWritten(db, queue) /\ Settling = Wrote(F, pending)
      BY <1>1, SettlingType
    <2>2. used \in SUBSET Ids /\ db \in Stored(used) /\ queue \in Seq(Batches(used))
          /\ pending \in Batches(used)
      BY <1>1 DEF Types
    <2>3. AllWritten(db, Append(queue, pending)) = Wrote(F, pending)
      BY <2>1, <2>2, OneMoreWritten
    <2>4. Settling' = Wrote(AllWritten(db', queue'), pending')
      BY Zenon DEF Settling, AllWritten, Writing, IsWriting
    <2>5. Settling' = Wrote(Wrote(F, pending), NoBatch)
      BY <1>2, <2>3, <2>4
    <2>6. Wrote(F, pending) \in Stored(used)
      BY <2>2, WroteType
    <2>7. Wrote(Wrote(F, pending), NoBatch) = Wrote(F, pending)
      BY <2>2, <2>6, WroteNothing
    <2>8. QED
      BY <2>1, <2>5, <2>7
  <1>6. KeepsUp'
    BY <1>1, <1>2, <1>5, KeptUp
  <1>7. QED
    BY <1>3, <1>4, <1>6 DEF IInv

LEMMA BatchKeeps ==
    ASSUME IInv, BatchLands \/ BatchFails
    PROVE  IInv'
  <1>1. Types /\ GoneIsErased /\ KeepsUp
    BY DEF IInv
  <1>2. /\ queue # <<>> /\ queue' = Tail(queue) /\ pending' = pending
        /\ UNCHANGED <<page, scene, stack, undo, tracker, board, late, told, placed,
                       used, erased>>
    BY DEF BatchLands, BatchFails, browser, history
  <1>3. used \in SUBSET Ids /\ db \in Stored(used) /\ queue \in Seq(Batches(used))
    BY <1>1 DEF Types
  <1>4. Head(queue) \in Batches(used) /\ Tail(queue) \in Seq(Batches(used))
    BY <1>2, <1>3, FirstWritten
  <1>5. GoneIsErased'
    BY <1>1, <1>2 DEF GoneIsErased
  <1>6. CASE BatchLands
    <2>1. db' = Wrote(db, Head(queue)) /\ failed' = failed
      BY <1>6 DEF BatchLands, history
    <2>2. db' \in Stored(used)
      BY <1>3, <1>4, <2>1, WroteType
    <2>3. Types'
      BY <1>1, <1>2, <1>4, <2>2, Zenon DEF Types
    <2>4. Settling' = Wrote(AllWritten(db', queue'), pending')
      BY Zenon DEF Settling, AllWritten, Writing, IsWriting
    <2>5. AllWritten(db', queue') = AllWritten(db, queue)
      BY <1>2, <1>3, <2>1, FirstWritten
    <2>6. Settling' = Settling
      BY <1>2, <2>4, <2>5, SettlingIs
    <2>7. KeepsUp'
      BY <1>1, <1>2, <2>1, <2>6, KeptUp
    <2>8. QED
      BY <1>5, <2>3, <2>7 DEF IInv
  <1>7. CASE BatchFails
    <2>1. db' = db /\ failed' = TRUE
      BY <1>7 DEF BatchFails
    <2>2. Types'
      BY <1>1, <1>2, <1>4, <2>1, Zenon DEF Types
    <2>3. KeepsUp'
      BY <2>1 DEF KeepsUp
    <2>4. QED
      BY <1>5, <2>2, <2>3 DEF IInv
  <1>8. QED
    BY <1>6, <1>7

-----------------------------------------------------------------------------
(* The server's side. *)
LEMMA MergeIn ==
    ASSUME NEW U, NEW s \in SceneIn(U), NEW t \in SceneIn(U)
    PROVE  /\ Merge(s, t) \in SceneIn(U)
           /\ \A id \in Ids : Gone(Merge(s, t), id) => Gone(s, id) \/ Gone(t, id)
  <1>1. s \in Scene /\ t \in Scene
    BY DEF SceneIn
  <1>2. Merge(s, t) \in Scene
    BY <1>1, MergeIsScene
  <1>3. \A id \in Ids : Merge(s, t)[id] \in {s[id], t[id]}
    BY DEF Merge
  <1> DEFINE m == Merge(s, t)
  <1> HIDE DEF m
  <1>4. m \in Scene /\ \A id \in Ids : m[id] = s[id] \/ m[id] = t[id]
    BY <1>2, <1>3 DEF m
  <1>5. Timeless(m) /\ \A id \in Ids : m[id] # Absent => id \in U
    BY <1>4 DEF SceneIn, Timeless
  <1>6. m \in SceneIn(U)
    BY <1>4, <1>5 DEF SceneIn
  <1>7. \A id \in Ids : Gone(m, id) => Gone(s, id) \/ Gone(t, id)
    BY <1>4 DEF Gone
  <1>8. QED
    BY <1>6, <1>7 DEF m

(* A patch of the page says of nobody that it is gone but of the erased.    *)
LEMMA PatchFacts ==
    ASSUME Types, GoneIsErased, NEW patch \in Patches
    PROVE  /\ patch \in Diffs /\ patch.elements \in SceneIn(used)
           /\ \A id \in Ids : Gone(patch.elements, id) => id \in erased
           /\ \A id \in Ids : patch.elements[id] # Absent =>
                  (IsLive(patch.elements[id]) <=> LiveOf(scene, id))
  <1>1. PICK nonce \in Nonces : patch = Diff(tracker, scene, Shown, [id \in Ids |-> nonce])
    BY DEF Patches
  <1> DEFINE nonces == [id \in Ids |-> nonce]
  <1>2. nonce \in Nat /\ nonces \in [Ids -> Nat] /\ \A id \in Ids : nonces[id] = nonce
    BY DraftsAssumption
  <1>3. /\ tracker \in Trackers /\ scene \in Scene /\ Timeless(scene) /\ Timeless(tracker.known)
        /\ tracker.known \in Scene /\ Shown \in Seq(Ids)
        /\ \A id \in Ids : /\ scene[id] # Absent => id \in used
                           /\ tracker.known[id] # Absent => id \in used
    BY ShownIn DEF Types, SceneIn
  <1> HIDE DEF nonces
  <1>4. /\ patch \in Diffs /\ Timeless(patch.elements)
        /\ \A id \in Ids : patch.elements[id]
                \in {Absent, Change([known |-> tracker.known], scene, id, nonces[id])}
    BY <1>1, <1>2, <1>3, DiffFacts DEF nonces
  <1>5. ASSUME NEW id \in Ids, patch.elements[id] # Absent
        PROVE  /\ IsLive(patch.elements[id]) <=> LiveOf(scene, id)
               /\ patch.elements[id].isDeleted => LiveOf(tracker.known, id)
               /\ id \in used
    <2> DEFINE change == Change([known |-> tracker.known], scene, id, nonces[id])
    <2>1. patch.elements[id] = change
      BY <1>4, <1>5
    <2>2. /\ IsLive(change) <=> LiveOf(scene, id)
          /\ change.isDeleted => LiveOf(tracker.known, id)
      BY <1>2, <1>3, <1>5, <2>1, ChangeFlips
    <2> HIDE DEF change
    <2>3. IsLive(change) \/ change.isDeleted
      BY <1>5, <2>1 DEF IsLive
    <2>4. id \in used
      BY <1>3, <2>2, <2>3 DEF LiveOf, IsLive
    <2>5. QED
      BY <2>1, <2>2, <2>4
  <1>6. patch.elements \in SceneIn(used)
    BY <1>4, <1>5 DEF SceneIn, Diffs
  <1>7. \A id \in Ids : Gone(patch.elements, id) => id \in erased
    BY <1>5 DEF Gone, GoneIsErased, IsLive
  <1>8. QED
    BY <1>4, <1>5, <1>6, <1>7

LEMMA SaveKeeps ==
    ASSUME IInv, Save \/ SaveFails
    PROVE  IInv'
  <1>1. Types /\ GoneIsErased /\ KeepsUp
    BY DEF IInv
  <1>2. PICK patch \in Patches :
            /\ board' = Merge(board, patch.elements)
            /\ \/ tracker' = Diffed(tracker, patch)
               \/ tracker' = Acknowledged(Diffed(tracker, patch), patch)
    BY DEF Save, SaveFails
  <1>3. UNCHANGED <<page, scene, stack, undo, late, pending, queue, db, told, placed, failed,
                    used, erased>>
    BY DEF Save, SaveFails, draft, history
  <1>4. /\ patch \in Diffs /\ patch.elements \in SceneIn(used)
        /\ \A id \in Ids : Gone(patch.elements, id) => id \in erased
        /\ \A id \in Ids : patch.elements[id] # Absent =>
               (IsLive(patch.elements[id]) <=> LiveOf(scene, id))
    BY <1>1, <1>2, PatchFacts
  <1>5. /\ board' \in SceneIn(used)
        /\ \A id \in Ids : Gone(board', id) => id \in erased
    <2>1. board \in SceneIn(used)
      BY <1>1 DEF Types
    <2>2. QED
      BY <1>1, <1>2, <1>4, <2>1, MergeIn DEF GoneIsErased
  <1> DEFINE looked == Diffed(tracker, patch)
             known == [id \in Ids |-> IF patch.elements[id] = Absent THEN tracker.known[id]
                                      ELSE patch.elements[id]]
  <1>6. looked \in Trackers /\ looked.known = tracker.known
    BY <1>1, DiffedFacts DEF Types
  <1> HIDE DEF looked
  <1>7. Acknowledged(looked, patch) \in Trackers /\ Acknowledged(looked, patch).known = known
    BY <1>4, <1>6, AcknowledgedFacts
  <1>8. known \in SceneIn(used)
    <2>1. tracker.known \in SceneIn(used)
      BY <1>1 DEF Types
    <2>2. known \in Scene
      BY <1>4, <2>1 DEF SceneIn, Scene
    <2>3. Timeless(known) /\ \A id \in Ids : known[id] # Absent => id \in used
      BY <1>4, <2>1 DEF SceneIn, Timeless
    <2>4. QED
      BY <2>2, <2>3 DEF SceneIn
  <1>9. \A id \in Ids : LiveOf(known, id) /\ ~LiveOf(scene, id) => id \in erased
    <2>1. ASSUME NEW id \in Ids, LiveOf(known, id), ~LiveOf(scene, id)
          PROVE  id \in erased
      <3>1. CASE patch.elements[id] = Absent
        BY <1>1, <2>1, <3>1 DEF GoneIsErased, LiveOf
      <3>2. CASE patch.elements[id] # Absent
        BY <1>4, <2>1, <3>2 DEF LiveOf
      <3>3. QED
        BY <3>1, <3>2
    <2>2. QED
      BY <2>1
  <1> HIDE DEF known
  <1>10. tracker' \in Trackers /\ tracker'.known \in {tracker.known, known}
    BY <1>2, <1>6, <1>7 DEF looked
  <1>11. tracker'.known \in SceneIn(used)
    BY <1>1, <1>8, <1>10 DEF Types
  <1>12. Types'
    BY <1>1, <1>3, <1>5, <1>10, <1>11, Zenon DEF Types
  <1>13. GoneIsErased'
    BY <1>1, <1>3, <1>5, <1>9, <1>10 DEF GoneIsErased
  <1>14. Settling' = Settling
    BY <1>3 DEF Settling
  <1>15. KeepsUp'
    BY <1>1, <1>3, <1>14, KeptUp
  <1>16. QED
    BY <1>12, <1>13, <1>15 DEF IInv

LEMMA LateKeeps ==
    ASSUME IInv, LateLands
    PROVE  IInv'
  <1>1. Types /\ GoneIsErased /\ KeepsUp
    BY DEF IInv
  <1>2. /\ late # Absent /\ late' = Absent /\ board' = Merge(board, late)
        /\ UNCHANGED <<page, scene, stack, undo, tracker, pending, queue, db, told, placed, failed,
                       used, erased>>
    BY DEF LateLands, browser, draft, history
  <1>3. /\ board' \in SceneIn(used)
        /\ \A id \in Ids : Gone(board', id) => id \in erased
    <2>1. board \in SceneIn(used) /\ late \in SceneIn(used)
      BY <1>1, <1>2 DEF Types
    <2>2. QED
      BY <1>1, <1>2, <2>1, MergeIn DEF GoneIsErased
  <1>4. Types'
    BY <1>1, <1>2, <1>3, Zenon DEF Types
  <1>5. GoneIsErased'
    BY <1>1, <1>2, <1>3 DEF GoneIsErased
  <1>6. Settling' = Settling
    BY <1>2 DEF Settling
  <1>7. KeepsUp'
    BY <1>1, <1>2, <1>6, KeptUp
  <1>8. QED
    BY <1>4, <1>5, <1>7 DEF IInv

(* The page goes, with a last patch on its way or none. *)
LEMMA LeavingKeeps ==
    ASSUME IInv, Leave \/ Crash
    PROVE  IInv'
  <1>1. Types /\ GoneIsErased
    BY DEF IInv
  <1>2. /\ page' = "away" /\ LastWords /\ pending' = NoBatch
        /\ UNCHANGED <<scene, stack, undo, tracker, board, told, placed, failed, used, erased>>
    BY DEF Leave, Crash, Goes, history
  <1>3. /\ late' = Absent \/ late' \in SceneIn(used)
        /\ late' # Absent => \A id \in Ids : Gone(late', id) => id \in erased
    <2>1. late' = late \/ \E patch \in Patches : late' = patch.elements
      BY <1>2 DEF LastWords
    <2>2. QED
      BY <1>1, <2>1, PatchFacts DEF Types, GoneIsErased
  <1>4. queue' \in Seq(Batches(used)) /\ db' \in Stored(used) /\ pending' \in Batches(used)
    <2>1. used \in SUBSET Ids /\ db \in Stored(used) /\ queue \in Seq(Batches(used))
      BY <1>1 DEF Types
    <2>2. NoBatch \in Batches(used) /\ <<>> \in Seq(Batches(used))
      BY NothingIn
    <2>3. CASE Leave
      BY <1>1, <1>2, <2>1, <2>2, <2>3, BatchesIssued DEF Leave
    <2>4. CASE Crash
      <3>1. queue' = <<>> /\ (db' = db \/ (queue # <<>> /\ db' = Wrote(db, Head(queue))))
        BY <2>4 DEF Crash
      <3>2. queue # <<>> => Head(queue) \in Batches(used)
        BY <2>1, FirstWritten
      <3>3. queue # <<>> => Wrote(db, Head(queue)) \in Stored(used)
        BY <2>1, <3>2, WroteType
      <3>4. QED
        BY <1>2, <2>1, <2>2, <3>1, <3>3
    <2>5. QED
      BY <2>3, <2>4
  <1>5. Types'
    BY <1>1, <1>2, <1>3, <1>4, Zenon DEF Types
  <1>6. GoneIsErased'
    BY <1>1, <1>2, <1>3 DEF GoneIsErased
  <1>7. KeepsUp'
    BY <1>2 DEF KeepsUp
  <1>8. QED
    BY <1>5, <1>6, <1>7 DEF IInv

(* A page is opened, with what it knows of the server in its scene.         *)
LEMMA OpeningKeeps ==
    ASSUME IInv, NEW loaded \in SceneIn(used), NEW ids \in Seq(used),
           OpenedWith(loaded, loaded, ids)
    PROVE  IInv'
  <1>1. Types /\ GoneIsErased
    BY DEF IInv
  <1>2. /\ page' = "open" /\ scene' = loaded /\ stack' = ids /\ undo' = <<>>
        /\ tracker' = Adopted(loaded, ids) /\ told' = {} /\ placed' = {}
        /\ UNCHANGED <<board, late, pending, queue, db, used, erased>>
    BY DEF OpenedWith, draft
  <1>3. tracker' \in Trackers /\ tracker'.known = loaded
    <2>1. loaded \in Scene /\ ids \in Seq(Ids) /\ <<>> \in Seq(Ids)
      <3>1. used \in SUBSET Ids
        BY <1>1 DEF Types
      <3>2. QED
        BY <3>1, SeqMonotonic, EmptySeq DEF SceneIn
    <2>2. QED
      BY <1>2, <2>1 DEF Adopted, Trackers
  <1>4. undo' \in Seq(Ids) /\ \A i \in DOMAIN undo' : scene'[undo'[i]] # Absent
    BY <1>2, NothingToUndo
  <1>5. told' \in SUBSET Ids /\ placed' \in SUBSET Ids /\ page' \in {"away", "open"}
    BY <1>2
  <1>6. Types'
    BY <1>1, <1>2, <1>3, <1>4, <1>5, Zenon DEF Types
  <1>7. GoneIsErased'
    BY <1>1, <1>2, <1>3 DEF GoneIsErased
  <1>8. KeepsUp'
    BY <1>2 DEF KeepsUp, Tells, Ranks
  <1>9. QED
    BY <1>6, <1>7, <1>8 DEF IInv

LEMMA OpensKeep ==
    ASSUME IInv, OpenOnline \/ OpenOffline
    PROVE  IInv'
  <1>1. used \in SUBSET Ids /\ db \in Stored(used) /\ board \in SceneIn(used)
    BY DEF IInv, Types
  <1>2. CASE OpenOnline
    <2> DEFINE live == LiveIds(board)
               ids == SetToSeq(live)
    <2>1. Live(board) \in SceneIn(used)
      BY <1>1 DEF Live, SceneIn, Scene, Entry, Timeless, LiveOf, IsLive
    <2>2. live \in SUBSET Ids /\ live \subseteq used
      BY <1>1 DEF LiveIds, SceneIn, IsLive
    <2> HIDE DEF live
    <2>3. ids \in Seq(Ids) /\ Range(ids) = live
      BY <2>2, SetToSeqType
    <2> HIDE DEF ids
    <2>4. ids \in Seq(used)
      BY <1>1, <2>2, <2>3, SeqIn
    <2>5. OpenedWith(Live(board), Live(board), ids)
      BY <1>2, Zenon DEF OpenOnline, live, ids
    <2>6. QED
      BY <2>1, <2>4, <2>5, OpeningKeeps
  <1>3. CASE OpenOffline
    <2> DEFINE kept == {id \in Ids : db.elements[id] # Absent}
               order == db.order
               rest == kept \ Range(order)
               listed == Only[kept][order]
               others_ == SetToSeq(rest)
    <2>1. db.elements \in SceneIn(used) /\ order \in Seq(used)
      BY <1>1 DEF Stored
    <2>2. kept \in SUBSET Ids /\ kept \subseteq used
      BY <2>1 DEF SceneIn
    <2>3. Loaded(db) = listed \o others_
      BY DEF Loaded
    <2> HIDE DEF kept, order
    <2>4. listed \in Seq(used)
      BY <1>1, <2>1, <2>2, OnlyIn
    <2>5. rest \in SUBSET Ids /\ rest \subseteq used
      BY <2>2
    <2> HIDE DEF rest, listed
    <2>6. others_ \in Seq(Ids) /\ Range(others_) = rest
      BY <2>5, SetToSeqType
    <2> HIDE DEF others_
    <2>7. others_ \in Seq(used)
      BY <1>1, <2>5, <2>6, SeqIn
    <2>8. listed \o others_ \in Seq(used)
      BY <2>4, <2>7, ConcatProperties
    <2>9. OpenedWith(db.elements, db.elements, Loaded(db)) /\ Loaded(db) \in Seq(used)
      BY <1>3, <2>3, <2>8 DEF OpenOffline
    <2>10. QED
      BY <2>1, <2>9, OpeningKeeps
  <1>4. QED
    BY <1>2, <1>3

LEMMA OthersKeep ==
    ASSUME IInv, OtherWrites
    PROVE  IInv'
  <1>1. Types /\ GoneIsErased /\ KeepsUp
    BY DEF IInv
  <1>2. PICK id \in LiveIds(board), gone \in BOOLEAN, nonce \in Nonces :
            /\ board' = [board EXCEPT ![id].version = @ + 1, ![id].versionNonce = nonce,
                                      ![id].isDeleted = gone]
            /\ erased' = IF gone THEN erased \cup {id} ELSE erased
    BY DEF OtherWrites
  <1>3. UNCHANGED <<page, scene, stack, undo, tracker, late, pending, queue, db, told, placed,
                    failed, used>>
    BY DEF OtherWrites, browser, draft
  <1> DEFINE old == board[id]
             v == old.version + 1
             e == [old EXCEPT !.version = v, !.versionNonce = nonce, !.isDeleted = gone]
  <1>4. id \in Ids /\ old \in Element /\ old.updated = 0 /\ id \in used /\ board \in SceneIn(used)
    BY <1>1 DEF LiveIds, IsLive, Types, SceneIn, Scene, Entry, Timeless
  <1>5. v \in Nat /\ nonce \in Nat
    BY <1>4, DraftsAssumption DEF Element
  <1>6. board' = [board EXCEPT ![id] = e]
    BY <1>2, <1>4 DEF SceneIn, Scene
  <1> HIDE DEF v, old
  <1>7. e \in Element /\ e.updated = 0 /\ e.isDeleted = gone
    BY <1>4, <1>5 DEF Element
  <1> HIDE DEF e
  <1>8. board' \in Scene /\ board'[id] = e /\ \A other \in Ids \ {id} : board'[other] = board[other]
    BY <1>4, <1>6, <1>7 DEF SceneIn, Scene, Entry
  <1>9. Timeless(board') /\ \A some \in Ids : board'[some] # Absent => some \in used
    BY <1>4, <1>7, <1>8 DEF SceneIn, Timeless
  <1>10. board' \in SceneIn(used)
    BY <1>8, <1>9 DEF SceneIn
  <1>11. Types'
    BY <1>1, <1>3, <1>10, Zenon DEF Types
  <1>12. GoneIsErased'
    <2>1. erased \subseteq erased'
      BY <1>2
    <2>2. ASSUME NEW some \in Ids, Gone(board', some)
          PROVE  some \in erased'
      <3>1. CASE some = id
        BY <1>2, <1>7, <1>8, <2>2, <3>1 DEF Gone
      <3>2. CASE some # id
        BY <1>1, <1>8, <2>1, <2>2, <3>2 DEF Gone, GoneIsErased
      <3>3. QED
        BY <3>1, <3>2
    <2>3. QED
      BY <1>1, <1>3, <2>1, <2>2 DEF GoneIsErased
  <1>13. Settling' = Settling
    BY <1>3 DEF Settling
  <1>14. KeepsUp'
    BY <1>1, <1>3, <1>13, KeptUp
  <1>15. QED
    BY <1>11, <1>12, <1>14 DEF IInv

LEMMA InitHolds ==
    ASSUME Init
    PROVE  IInv
  <1>1. PICK ids \in Boards, nonce \in Nonces :
            /\ board = [id \in Ids |-> IF id \in ids THEN Drawn(id, nonce) ELSE Absent]
            /\ used = ids
    BY Zenon DEF Init
  <1>2. /\ page = "away" /\ scene = Nobody /\ stack = <<>> /\ undo = <<>>
        /\ tracker = Adopted(Nobody, <<>>) /\ late = Absent
        /\ pending = NoBatch /\ queue = <<>> /\ db = [elements |-> Nobody, order |-> <<>>]
        /\ told = {} /\ placed = {} /\ erased = {}
    BY DEF Init
  <1>3. used \in SUBSET Ids
    BY <1>1, DraftsAssumption
  <1>4. board \in SceneIn(used) /\ \A id \in Ids : ~Gone(board, id)
    <2>1. \A id \in Ids : Drawn(id, nonce) \in Element /\ Drawn(id, nonce).updated = 0
                          /\ ~Drawn(id, nonce).isDeleted
      BY DrawnType
    <2>2. board \in Scene
      BY <1>1, <2>1 DEF Scene, Entry
    <2>3. Timeless(board) /\ \A id \in Ids : board[id] # Absent => id \in used
      BY <1>1, <2>1 DEF Timeless
    <2>4. QED
      BY <1>1, <2>1, <2>2, <2>3 DEF SceneIn, Gone
  <1>5. /\ Nobody \in SceneIn(used) /\ <<>> \in Seq(used) /\ NoBatch \in Batches(used)
        /\ <<>> \in Seq(Batches(used)) /\ <<>> \in Seq(Ids) /\ DOMAIN <<>> = {}
    BY NothingIn, NothingToUndo
  <1>6. tracker \in Trackers /\ tracker.known = Nobody
    BY <1>2, <1>5 DEF Adopted, Trackers, SceneIn
  <1>7. db \in Stored(used)
    BY <1>2, <1>5 DEF Stored
  <1>8. undo \in Seq(Ids) /\ \A i \in DOMAIN undo : scene[undo[i]] # Absent
    BY <1>2, <1>5
  <1>9. Types
    <2>1. /\ page \in {"away", "open"} /\ scene \in SceneIn(used) /\ stack \in Seq(used)
          /\ tracker.known \in SceneIn(used) /\ pending \in Batches(used)
          /\ queue \in Seq(Batches(used)) /\ told \in SUBSET Ids /\ placed \in SUBSET Ids
      BY <1>2, <1>5, <1>6
    <2>2. QED
      BY <1>2, <1>3, <1>4, <1>6, <1>7, <1>8, <2>1, Zenon DEF Types
  <1>10. GoneIsErased
    BY <1>2, <1>4, <1>6 DEF GoneIsErased, Nobody, LiveOf, IsLive
  <1>11. KeepsUp
    BY <1>2 DEF KeepsUp
  <1>12. QED
    BY <1>9, <1>10, <1>11 DEF IInv

-----------------------------------------------------------------------------
(* Whatever a page did and whichever draft it was opened from.              *)
THEOREM DraftsAreAccountedFor == Spec => []IInv
  <1>1. Init => IInv
    BY InitHolds
  <1>2. IInv /\ [Next]_vars => IInv'
    <2> SUFFICES ASSUME IInv, [Next]_vars PROVE IInv'
      OBVIOUS
    <2>1. CASE Next
      BY <2>1, DrawingKeeps, FlushKeeps, BatchKeeps, SaveKeeps, LateKeeps, LeavingKeeps,
         OpensKeep, OthersKeep DEF Next
    <2>2. CASE UNCHANGED vars
      <3>1. UNCHANGED <<page, scene, stack, undo, tracker, board, late, pending, queue, db, told,
                        placed, failed, used, erased>>
        BY <2>2 DEF vars, browser, draft, history
      <3>2. Types' /\ GoneIsErased'
        BY <3>1 DEF IInv, Types, GoneIsErased
      <3>3. Settling' = Settling
        BY <3>1 DEF Settling
      <3>4. KeepsUp'
        BY <3>1, <3>3, KeptUp DEF IInv
      <3>5. QED
        BY <3>2, <3>4 DEF IInv
    <2>3. QED
      BY <2>1, <2>2
  <1>3. QED
    BY <1>1, <1>2, PTL DEF Spec

(* The draft holds what the page does as soon as it is written, in the      *)
(* page's order (draftStore.ts:1-10, 68-76): the invariant says so of the   *)
(* order written, and a draft is loaded in that order.                      *)
THEOREM NoChangeIsLeftOut == Spec => []DraftKeepsUp
  <1>1. IInv => DraftKeepsUp
    <2> SUFFICES ASSUME IInv, page = "open", ~failed
                 PROVE  /\ \A id \in told : Settling.elements[id] = Live(scene)[id]
                        /\ \A x, y \in placed :
                              /\ Precedes(x, y, Shown)
                              /\ Settling.elements[x] # Absent /\ Settling.elements[y] # Absent
                              => Precedes(x, y, Loaded(Settling))
      BY Zenon DEF DraftKeepsUp
    <2>1. Tells(Settling) /\ Ranks(Settling.order)
      BY DEF IInv, KeepsUp
    <2>2. Settling \in Stored(used) /\ used \in SUBSET Ids
      BY SettlingType DEF IInv
    <2>3. PICK final \in Stored(used) : final = Settling
      BY <2>2
    <2> DEFINE kept == {id \in Ids : final.elements[id] # Absent}
               order == final.order
               rest == kept \ Range(order)
               listed == Only[kept][order]
               more == SetToSeq(rest)
    <2>4. Loaded(final) = listed \o more
      BY DEF Loaded
    <2>5. order \in Seq(Ids) /\ kept \in SUBSET Ids /\ rest \in SUBSET Ids
      <3>1. final.order \in Seq(used)
        BY DEF Stored
      <3>2. final.order \in Seq(Ids)
        BY <2>2, <3>1, SeqMonotonic
      <3>3. QED
        BY <3>2
    <2>6. \A id : id \in kept <=> id \in Ids /\ final.elements[id] # Absent
      OBVIOUS
    <2> HIDE DEF kept, order, rest
    <2>7. listed \in Seq(Ids) /\ more \in Seq(Ids)
      BY <2>5, OnlyFacts, SetToSeqType
    <2> HIDE DEF more
    <2>8. ASSUME NEW x \in placed, NEW y \in placed, Precedes(x, y, Shown),
                 final.elements[x] # Absent, final.elements[y] # Absent
          PROVE  Precedes(x, y, Loaded(final))
      <3>1. x \in Ids /\ y \in Ids
        BY DEF IInv, Types
      <3>2. x \in kept /\ y \in kept
        BY <2>6, <2>8, <3>1
      <3>3. Precedes(x, y, order)
        BY <2>1, <2>3, <2>8 DEF Ranks, order
      <3>4. Precedes(x, y, listed)
        BY <2>5, <3>2, <3>3, OnlyPrecedes
      <3> HIDE DEF listed
      <3>5. Precedes(x, y, listed \o more)
        BY <2>7, <3>4, ConcatPrecedes
      <3>6. QED
        BY <2>4, <3>5, Zenon
    <2>9. QED
      BY <2>1, <2>3, <2>8 DEF Tells
  <1>2. QED
    BY <1>1, DraftsAreAccountedFor, PTL

(* Nothing goes from the board that nobody erased, however old the draft    *)
(* that a page began from.                                                  *)
THEOREM NobodyElseGoes == Spec => []OnlyTheErasedGo
  <1>1. IInv => OnlyTheErasedGo
    BY DEF IInv, GoneIsErased, OnlyTheErasedGo, Gone
  <1>2. QED
    BY <1>1, DraftsAreAccountedFor, PTL
=============================================================================
