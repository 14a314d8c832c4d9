------------------------------- MODULE BoardOps -------------------------------
(***************************************************************************)
(* A board as the API server stores it, and what each write makes of it    *)
(* (apps/api/src/boards/repository.ts).  Shared by Board, which says what  *)
(* the server promises, and BoardStore, which is how it does it.           *)
(***************************************************************************)
EXTENDS Reconcile

CONSTANT DocumentLimit   \* elements a board document has room for

ASSUME DocumentLimitAssumption == DocumentLimit \in Nat

BoardDoc == [elements: [Ids -> Entry], place: Places, rev: Nat, deleted: BOOLEAN]

(* create(): an empty board at rev 1. *)
NewBoard == [elements |-> [id \in Ids |-> Absent],
             place |-> [id \in Ids |-> 0],
             rev |-> 1,
             deleted |-> FALSE]

(* What a request asks for.  "rev" is the If-Match of a full replace; revs  *)
(* start at 1, so 0 stands for "If-Match: *".                               *)
AnyRev == 0

Operation == [kind: {"patch", "put", "delete"}, patch: Patch, rev: Nat]

MergedElements(board, patch) ==
    KeepPictures(Merge(board.elements, patch.elements), board.elements, patch.elements)

MergedPlace(board, patch) ==
    LET merged == MergePlace(board.place, patch.place)
    IN  IF patch.order = Absent THEN merged ELSE ApplyOrder(merged, patch.order)

(* The document commit() writes: a patch merges into what was read, a put   *)
(* takes its place.                                                         *)
NextDocument(board, elements, place) ==
    [elements |-> Stowed(elements), place |-> place,
     rev |-> board.rev + 1, deleted |-> board.deleted]

Written(board, o) ==
    IF o.kind = "patch"
    THEN NextDocument(board, MergedElements(board, o.patch), MergedPlace(board, o.patch))
    ELSE NextDocument(board, o.patch.elements, o.patch.place)

SoftDeletedSilently(board) ==   \* fault: the lock is not told
    [board EXCEPT !.deleted = TRUE]

SoftDeleted(board) ==
    [elements |-> board.elements, place |-> board.place,
     rev |-> board.rev + 1, deleted |-> TRUE]

TooLarge(board) == Cardinality(Present(board.place)) > DocumentLimit
=============================================================================
