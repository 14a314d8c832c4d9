------------------------------ MODULE Reconcile ------------------------------
(***************************************************************************)
(* The merge rule every store of the system shares                         *)
(* (packages/contract/src/reconcile.ts) and the picture rule the API       *)
(* server adds to it (apps/api/src/boards/pictures.ts).                    *)
(*                                                                         *)
(* The code keeps a scene as one array.  Here a scene is two functions of  *)
(* the id: "elements" says which copy of an element the array holds, and   *)
(* "place" its position in the array (0 when it is not there).  MergeLoop  *)
(* runs the code's own loops over arrays and checks that they compute      *)
(* these operators.                                                        *)
(***************************************************************************)
EXTENDS Integers, FiniteSets

CONSTANTS
    Ids,        \* element ids
    Images,     \* the ids of elements whose type is "image"
    Pictures,   \* picture contents; a picture's key is a hash of its content
    Absent,     \* "the array has no element with this id"
    NoPicture   \* "neither dataUrl nor picture is set"

Element == [version: Nat, versionNonce: Nat, updated: Nat,
            isDeleted: BOOLEAN, picture: Pictures \cup {NoPicture}]

Entry == Element \cup {Absent}

Places == [Ids -> Nat]

(* A patch as it arrives: the elements it names, the position each has in   *)
(* the request, and the declared order (a rank per id, 0 for an unnamed id; *)
(* "order" is Absent when the request declares none).                       *)
Patch == [elements: [Ids -> Entry], place: Places, order: Places \cup {Absent}]

ASSUME ReconcileAssumption ==
    /\ IsFiniteSet(Ids)
    /\ Images \subseteq Ids
    /\ NoPicture \notin Pictures
    /\ Absent \notin Element
    /\ Absent \notin Places

-----------------------------------------------------------------------------
(* Stamps are compared field by field: edits, then nonce, then clock. *)
IsNewer(a, b) ==
    \/ a.version > b.version
    \/ a.version = b.version /\ a.versionNonce > b.versionNonce
    \/ /\ a.version = b.version
       /\ a.versionNonce = b.versionNonce
       /\ a.updated > b.updated

TakesByVersion(next, current) ==   \* fault: a tie of versions is not broken
    next # Absent /\ (current = Absent \/ next.version > current.version)

Takes(next, current) ==
    next # Absent /\ (current = Absent \/ IsNewer(next, current))

MergeLastWins(base, incoming) ==   \* fault: what arrives always wins
    [id \in Ids |-> IF incoming[id] # Absent THEN incoming[id] ELSE base[id]]

Merge(base, incoming) ==
    [id \in Ids |-> IF Takes(incoming[id], base[id]) THEN incoming[id] ELSE base[id]]

Present(place) == {id \in Ids : place[id] # 0}

(* What the base has keeps its slot; what it lacks is appended, in the order *)
(* the patch brings it.                                                      *)
MergePlace(place, arriving) ==
    [id \in Ids |->
        IF place[id] # 0 \/ arriving[id] = 0 THEN place[id]
        ELSE Cardinality(Present(place))
             + Cardinality({j \in Ids : place[j] = 0 /\ arriving[j] \in 1..arriving[id]})]

(* Named ids come first, by rank; unnamed ones keep their order, on top. *)
Below(place, rank, j, id) ==
    \/ rank[j] # 0 /\ (rank[id] = 0 \/ rank[j] < rank[id])
    \/ rank[j] = 0 /\ rank[id] = 0 /\ place[j] < place[id]

ApplyOrder(place, rank) ==
    [id \in Ids |->
        IF place[id] = 0 THEN 0
        ELSE Cardinality({j \in Present(place) : j = id \/ Below(place, rank, j, id)})]

IsLive(e) == e # Absent /\ ~e.isDeleted

LiveIds(elements) == {id \in Ids : IsLive(elements[id])}

-----------------------------------------------------------------------------
(* The picture some live copy of an image carries: the incoming copy's if it *)
(* has one, else the stored copy's.                                          *)
HasPicture(e) == IsLive(e) /\ e.picture # NoPicture

PictureOfIncoming(stored, incoming) ==   \* fault: the stored copy is not looked at
    IF HasPicture(incoming) THEN incoming.picture ELSE NoPicture

PictureOf(stored, incoming) ==
    IF HasPicture(incoming) THEN incoming.picture
    ELSE IF HasPicture(stored) THEN stored.picture
    ELSE NoPicture

(* A tombstone keeps no picture; a live image without one is given a copy's. *)
KeepPicture(id, merged, stored, incoming) ==
    IF merged = Absent THEN merged
    ELSE IF merged.isDeleted THEN [merged EXCEPT !.picture = NoPicture]
    ELSE IF id \notin Images \/ merged.picture # NoPicture THEN merged
    ELSE [merged EXCEPT !.picture = PictureOf(stored, incoming)]

KeepPictures(merged, stored, incoming) ==
    [id \in Ids |-> KeepPicture(id, merged[id], stored[id], incoming[id])]

(* What stow leaves in the board: tombstones lose their picture. *)
Stowed(elements) ==
    [id \in Ids |-> IF elements[id] = Absent \/ ~elements[id].isDeleted
                    THEN elements[id]
                    ELSE [elements[id] EXCEPT !.picture = NoPicture]]

PicturesOf(elements) ==
    {elements[id].picture : id \in {i \in Ids : HasPicture(elements[i])}}
=============================================================================
