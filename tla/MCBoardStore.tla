----------------------------- MODULE MCBoardStore -----------------------------
(* Small boards for BoardStore: an image and two shapes, one too many for   *)
(* the document, and the patches of tabs that draw, move, delete, restack   *)
(* and re-send them.                                                        *)
EXTENDS BoardStore

CONSTANTS a, b, c, pic

MCElement(version, nonce, deleted, picture) ==
    [version |-> version, versionNonce |-> nonce, updated |-> 0,
     isDeleted |-> deleted, picture |-> picture]

Image(version, picture) == MCElement(version, 0, FALSE, picture)
Shape(version) == MCElement(version, 0, FALSE, NoPicture)

(* A request that brings "elements" (a function of some ids), placed as in  *)
(* "place", and declares "order".                                           *)
Bring(elements, place, order) ==
    [elements |-> [id \in Ids |-> IF id \in DOMAIN elements THEN elements[id] ELSE Absent],
     place |-> [id \in Ids |-> IF id \in DOMAIN elements THEN place[id] ELSE 0],
     order |-> order]

Asks(kind, patch, rev) == [kind |-> kind, patch |-> patch, rev |-> rev]

Upwards == [id \in Ids |-> IF id = a THEN 1 ELSE IF id = b THEN 2 ELSE 3]
BelowA == [id \in Ids |-> IF id = a THEN 2 ELSE IF id = b THEN 1 ELSE 0]

Only(id, e) == [i \in {id} |-> e]

NoPatch == Bring(<<>>, Upwards, Absent)

DrawBoth == Asks("patch", Bring([i \in {a, b} |-> IF i = a THEN Image(1, pic) ELSE Shape(1)],
                                Upwards, Absent), 0)
MoveImage == Asks("patch", Bring(Only(a, Image(2, NoPicture)), Upwards, Absent), 0)
DeleteImage == Asks("patch", Bring(Only(a, MCElement(2, 1, TRUE, NoPicture)), Upwards, Absent), 0)
Restack == Asks("patch", Bring([i \in {b, c} |-> Shape(2)], Upwards, BelowA), 0)
ReplaceAt2 == Asks("put", Bring(Only(b, Shape(3)), [Upwards EXCEPT ![b] = 1], Absent), 2)
ReplaceAny == Asks("put", Bring(Only(a, Image(1, pic)), Upwards, Absent), AnyRev)
DeleteBoard == Asks("delete", NoPatch, 0)

MCOperations ==
    {DrawBoth, MoveImage, DeleteImage, Restack, ReplaceAt2, ReplaceAny, DeleteBoard}
=============================================================================
