------------------------------ MODULE SceneDiff ------------------------------
(***************************************************************************)
(* The tracker that turns "the scene changed" into a patch                 *)
(* (apps/web/src/lib/autosave/sceneDiff.ts), and the split of a patch into *)
(* requests (split.ts, pictures.ts).  Pure operators: Autosave and the     *)
(* live link keep the state.                                               *)
(*                                                                         *)
(* A scene is its live elements by id, and its stack: their ids, bottom    *)
(* first.  A tracker is a record                                           *)
(*   known, order  what the other side acknowledged: elements (tombstones  *)
(*                 included) and live stack                                *)
(*   touched       the ids noted since the last settled diff, in the order *)
(*                 of their first note, or Everything                      *)
(*   since, quiet  the ids noted since the last diff, and whether nothing  *)
(*                 at all was: the code compares note counters             *)
(*   full          whether the last diff compared everything               *)
(***************************************************************************)
EXTENDS BoardOps, SequencesExt

CONSTANT Everything   \* "touched" when only comparing everything will do

Scene == [Ids -> Entry]

(* A patch: the elements by id, the order they ride in, and the declared    *)
(* order or Absent.                                                         *)
Diffs == [elements: Scene, list: Seq(Ids), order: Seq(Ids) \cup {Absent}]

ASSUME SceneDiffAssumption ==
    /\ Everything \notin Seq(Ids)
    /\ Absent \notin Seq(Ids) /\ Absent \notin Diffs

Nobody == [id \in Ids |-> Absent]

LiveOf(elements, id) == IsLive(elements[id])

(* What a list has of a set, in the list's order: the code's array.filter.  *)
(* SelectSeq, in a form that says where each one goes and does not recur.   *)
Only[ids \in SUBSET Ids] ==
    [list \in Seq(Ids) |->
        LET at == {i \in DOMAIN list : list[i] \in ids}
            Rank(i) == Cardinality({j \in at : j <= i})
        IN  [n \in 1..Cardinality(at) |-> list[CHOOSE i \in at : Rank(i) = n]]]

(* reset: the tracker of a board just loaded. *)
Adopted(elements, stack) ==
    [known |-> elements, order |-> stack, touched |-> <<>>,
     since |-> {}, quiet |-> TRUE, full |-> FALSE]

NoteChanged(t, id) ==
    [t EXCEPT !.quiet = FALSE,
              !.since = @ \cup {id},
              !.touched = IF @ = Everything \/ id \in Range(@) THEN @ ELSE Append(@, id)]

NoteNothing(t) == [t EXCEPT !.quiet = FALSE]   \* fault: a whole scene is not compared

NoteEverything(t) == [t EXCEPT !.quiet = FALSE, !.touched = Everything]

(* The order the other side is expected to arrive at without being told one. *)
PredictOrder(order, elements, list) ==
    LET stay == {id \in Ids : elements[id] = Absent \/ ~elements[id].isDeleted}
    IN  Only[stay][order] \o Only[LiveIds(elements) \ Range(order)][list]

TombstoneOf(previous, nonce) ==
    [previous EXCEPT !.isDeleted = TRUE, !.version = @ + 1, !.versionNonce = nonce,
                     !.picture = NoPicture]

SameStamp(x, y) == x.version = y.version /\ x.versionNonce = y.versionNonce

ChangeUnlessKnown(t, element, id, nonce) ==   \* fault: no stamp above a tombstone
    IF t.known[id] # Absent /\ SameStamp(t.known[id], element) THEN Absent ELSE element

(* What to send of a live element: nothing when it is known as it is; above *)
(* its tombstone when it is back from the dead without being stamped so.    *)
ChangeOf(t, element, id, nonce) ==
    LET previous == t.known[id]
    IN  IF previous = Absent THEN element
        ELSE IF previous.isDeleted /\ element.version <= previous.version
        THEN [element EXCEPT !.version = previous.version + 1, !.versionNonce = nonce]
        ELSE IF SameStamp(previous, element) THEN Absent
        ELSE element

ChangeOfLive(t, scene, id, nonce) ==   \* fault: nothing is said of what is gone
    IF LiveOf(scene, id) THEN ChangeOf(t, scene[id], id, nonce) ELSE Absent

(* The change of one id, live or gone. *)
Change(t, scene, id, nonce) ==
    IF LiveOf(scene, id) THEN ChangeOf(t, scene[id], id, nonce)
    ELSE IF LiveOf(t.known, id) THEN TombstoneOf(t.known[id], nonce)
    ELSE Absent

PatchOver(t, scene, list, nonces, order) ==
    LET changes == [id \in Ids |-> IF id \in Range(list)
                                   THEN Change(t, scene, id, nonces[id]) ELSE Absent]
        changed == {id \in Ids : changes[id] # Absent}
    IN  [elements |-> changes, list |-> Only[changed][list], order |-> order]

DiffTouched(t, scene, nonces) == PatchOver(t, scene, t.touched, nonces, Absent)

DiffUnordered(t, scene, stack, nonces) ==   \* fault: an order is never declared
    LET gone == {id \in Ids : LiveOf(t.known, id) /\ ~LiveOf(scene, id)}
    IN  PatchOver(t, scene, stack \o SetToSeq(gone), nonces, Absent)

DiffAll(t, scene, stack, nonces) ==
    LET gone == {id \in Ids : LiveOf(t.known, id) /\ ~LiveOf(scene, id)}
        patch == PatchOver(t, scene, stack \o SetToSeq(gone), nonces, Absent)
    IN  IF PredictOrder(t.order, patch.elements, patch.list) = stack THEN patch
        ELSE [patch EXCEPT !.order = stack]

Diff(t, scene, stack, nonces) ==
    IF t.touched = Everything THEN DiffAll(t, scene, stack, nonces)
    ELSE DiffTouched(t, scene, nonces)

IsEmpty(patch) == patch.list = <<>> /\ patch.order = Absent

SettledAll(t) == [t EXCEPT !.touched = <<>>]   \* fault: notes made since are forgotten

Settled(t) ==
    IF t.touched # Everything THEN [t EXCEPT !.touched = Only[t.since][@]]
    ELSE IF t.full /\ t.quiet THEN [t EXCEPT !.touched = <<>>]
    ELSE t

(* The tracker once a diff was built; an empty one is settled at once. *)
Diffed(t, patch) ==
    LET looked == [t EXCEPT !.since = {}, !.quiet = TRUE, !.full = (t.touched = Everything)]
    IN  IF IsEmpty(patch) THEN Settled(looked) ELSE looked

Acknowledged(t, patch) ==
    Settled([t EXCEPT
        !.known = [id \in Ids |-> IF patch.elements[id] = Absent THEN @[id]
                                 ELSE patch.elements[id]],
        !.order = IF patch.order # Absent THEN patch.order
                  ELSE PredictOrder(@, patch.elements, patch.list)])

-----------------------------------------------------------------------------
(* PictureLedger.  "held" is the images whose picture the other side has.   *)
Strip(held, elements) ==
    [id \in Ids |-> IF LiveOf(elements, id) /\ id \in held
                    THEN [elements[id] EXCEPT !.picture = NoPicture] ELSE elements[id]]

WithPicture(elements) == {id \in Ids : HasPicture(elements[id])}

NotedForGood(held, elements) ==   \* fault: a tombstone is taken to keep its picture
    held \cup WithPicture(elements)

Noted(held, elements) ==
    (held \ {id \in Ids : elements[id] # Absent /\ elements[id].isDeleted})
    \cup WithPicture(elements)

SplitLast(patch) ==   \* fault: only what is left over is sent
    LET pictures == Only[WithPicture(patch.elements)][patch.list]
    IN  IF pictures = <<>> THEN <<patch>> ELSE <<[patch EXCEPT !.list = pictures]>>

(* splitPatch: whatever carries no picture in one request, then a request   *)
(* for each picture, every one with the patch's order.                      *)
Split(patch) ==
    LET pictured == WithPicture(patch.elements)
        pictures == Only[pictured][patch.list]
        plain == Only[Ids \ pictured][patch.list]
        Part(list) == [patch EXCEPT !.list = list]
    IN  (IF plain # <<>> \/ pictures = <<>> THEN <<Part(plain)>> ELSE <<>>)
        \o [i \in 1..Len(pictures) |-> Part(<<pictures[i]>>)]

(* A request on the wire, as the repository takes it. *)
PlaceOf(ids) == [id \in Ids |-> IF id \in Range(ids)
                                THEN CHOOSE i \in DOMAIN ids : ids[i] = id ELSE 0]

Request(part) ==
    [kind |-> "patch", rev |-> 0,
     patch |-> [elements |-> [id \in Ids |-> IF id \in Range(part.list)
                                             THEN part.elements[id] ELSE Absent],
                place |-> PlaceOf(part.list),
                order |-> IF part.order = Absent THEN Absent ELSE PlaceOf(part.order)]]

(* The live stack of a stored board: what is alive there, by its place. *)
LiveStack(board) ==
    LET ids == LiveIds(board.elements)
        Rank(id) == Cardinality({j \in ids : board.place[j] <= board.place[id]})
    IN  [n \in 1..Cardinality(ids) |-> CHOOSE id \in ids : Rank(id) = n]

Precedes(x, y, ids) ==
    \E i, j \in DOMAIN ids : i < j /\ ids[i] = x /\ ids[j] = y
=============================================================================
