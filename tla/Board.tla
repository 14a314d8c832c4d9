-------------------------------- MODULE Board --------------------------------
(***************************************************************************)
(* What the API server promises of one board: every request that is        *)
(* answered "ok" took effect exactly once, in one step, on the board as it *)
(* was at that step, and every other answer left the board alone, except   *)
(* "error", which says nothing.  BoardStore implements this, and says what  *)
(* the writes are.                                                         *)
(***************************************************************************)
CONSTANTS
    Requests,         \* requests that can be under way at once
    Operations,       \* what they may ask for
    Nothing,          \* a request slot with no request in it
    NewBoard,         \* the document of a board just created
    AnyRev,           \* the rev of "If-Match: *"
    Written(_, _),    \* what a patch or a put makes of a document
    SoftDeleted(_)    \* what a delete makes of it

VARIABLES
    board,        \* the stored document
    op,           \* what each request asks for
    answer        \* what each was told: "none" while it is under way

vars == <<board, op, answer>>

Answers == {"ok", "notFound", "conflict", "tooLarge", "error"}

Init ==
    /\ board = NewBoard
    /\ op = [r \in Requests |-> Nothing]
    /\ answer = [r \in Requests |-> "none"]

UnderWay(r) == op[r] # Nothing /\ answer[r] = "none"

Ask(r) ==
    /\ op[r] = Nothing
    /\ \E o \in Operations : op' = [op EXCEPT ![r] = o]
    /\ UNCHANGED <<board, answer>>

(* A full replace happens only on the rev its caller named. *)
Allowed(o) ==
    /\ ~board.deleted
    /\ o.kind = "put" => o.rev \in {AnyRev, board.rev}

TakeEffect(r) ==
    /\ UnderWay(r)
    /\ Allowed(op[r])
    /\ board' = IF op[r].kind = "delete" THEN SoftDeleted(board) ELSE Written(board, op[r])
    /\ \E told \in {"ok", "error"} : answer' = [answer EXCEPT ![r] = told]
    /\ op' = op

(* "Not found" is said only of a deleted board, and a replace of a named rev *)
(* is a conflict only when the board has left that rev.                      *)
Refuse(r) ==
    /\ UnderWay(r)
    /\ \E told \in Answers \ {"ok"} :
          /\ told = "notFound" => board.deleted
          /\ told = "conflict" => /\ op[r].kind # "delete"
                                  /\ op[r].kind = "put" =>
                                        op[r].rev = AnyRev \/ op[r].rev # board.rev
          /\ answer' = [answer EXCEPT ![r] = told]
    /\ UNCHANGED <<board, op>>

Leave(r) ==
    /\ answer[r] # "none"
    /\ op' = [op EXCEPT ![r] = Nothing]
    /\ answer' = [answer EXCEPT ![r] = "none"]
    /\ UNCHANGED board

Next == \E r \in Requests : Ask(r) \/ TakeEffect(r) \/ Refuse(r) \/ Leave(r)

Spec == Init /\ [][Next]_vars
=============================================================================
