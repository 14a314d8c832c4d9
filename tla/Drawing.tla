------------------------------- MODULE Drawing --------------------------------
(***************************************************************************)
(* What the online store promises of one drawing: a scene that changes     *)
(* whole and only on the rev its writer names, pictures that appear whole  *)
(* and are written once, and an owner, whose first write claims it.  Of    *)
(* staging, parts, counters and retries nothing shows.  A drawing that was *)
(* not written for a year vanishes.                                        *)
(***************************************************************************)
EXTENDS Integers, Sequences

CONSTANTS
    Requests,    \* requests that can be under way at once
    Operations,  \* what they may ask for
    Nothing,     \* a request slot with no request in it
    Nobody,      \* the owner of a drawing nobody wrote yet
    Pids,        \* ids of pictures
    PidOf(_),    \* the picture an operation on one is about
    Whole(_)     \* the whole contents that can be made of an operation's item

VARIABLES
    rev,        \* of the scene: 0 until one is written
    scene,      \* its parts
    pictures,   \* the parts of each picture, none while it is not there
    owner,      \* whose token writes
    op, answer  \* what the request in each slot asks for, and was told, until the next comes

vars == <<rev, scene, pictures, owner, op, answer>>

Refusals == {"conflict", "forbidden", "partExists", "outOfOrder", "stagedIncomplete",
             "tooLarge", "tooManyPictures", "busy", "unavailable"}

Unanswered == [r \in Requests |-> "none"]

Init ==
    /\ rev = 0
    /\ scene = <<>>
    /\ pictures = [pid \in Pids |-> <<>>]
    /\ owner = Nobody
    /\ op = [r \in Requests |-> Nothing]
    /\ answer = Unanswered

Done(r) ==
    /\ op[r] # Nothing
    /\ op' = [op EXCEPT ![r] = Nothing]

Tell(r, told) == answer' = [answer EXCEPT ![r] = told]

Ask(r) ==
    /\ op[r] = Nothing
    /\ op'[r] \in Operations
    /\ op' = [op EXCEPT ![r] = op'[r]]
    /\ answer' = Unanswered
    /\ UNCHANGED <<rev, scene, pictures, owner>>

(* A write by the owner, whose answer may be lost. *)
ByOwner(r) ==
    /\ Done(r)
    /\ owner \in {Nobody, op[r].token}
    /\ owner' = op[r].token
    /\ \E told \in {"ok", "unavailable"} : Tell(r, told)

Publish(r) ==
    /\ ByOwner(r)
    /\ op[r].kind \in {"scene", "commit"}
    /\ op[r].expected = rev
    /\ rev' = rev + 1
    /\ scene' \in Whole(op[r])
    /\ UNCHANGED pictures

AddPicture(r) ==
    /\ ByOwner(r)
    /\ op[r].kind \in {"picture", "upload"}
    /\ pictures[PidOf(op[r])] = <<>>
    /\ \E whole \in Whole(op[r]) : pictures' = [pictures EXCEPT ![PidOf(op[r])] = whole]
    /\ UNCHANGED <<rev, scene>>

(* A part that completes nothing. *)
TakePart(r) ==
    /\ ByOwner(r)
    /\ \/ op[r].kind = "staged" /\ op[r].expected = rev
       \/ op[r].kind = "upload" /\ op[r].n < op[r].total - 1
    /\ UNCHANGED <<rev, scene, pictures>>

(* A part that is there already, whoever sent it: what the store has of it  *)
(* now is compared, and the drawing may have changed hands since its owner  *)
(* was.                                                                     *)
Repeat(r) ==
    /\ Done(r)
    /\ \/ op[r].kind = "staged"
       \/ op[r].kind = "upload" /\ op[r].n < op[r].total - 1
       \/ op[r].kind \in {"picture", "upload"} /\ pictures[PidOf(op[r])] # <<>>
    /\ owner # Nobody
    /\ Tell(r, "ok")
    /\ UNCHANGED <<rev, scene, pictures, owner>>

(* A conflict is said only of another rev, and "forbidden" only to another. *)
Refuse(r) ==
    /\ Done(r)
    /\ \E told \in Refusals :
          /\ told = "conflict" => op[r].expected # rev
          /\ told = "forbidden" => owner \notin {Nobody, op[r].token}
          /\ Tell(r, told)
    /\ UNCHANGED <<rev, scene, pictures, owner>>

Vanish ==
    /\ rev' = 0
    /\ scene' = <<>>
    /\ pictures' = [pid \in Pids |-> <<>>]
    /\ owner' = Nobody
    /\ UNCHANGED <<op, answer>>

Next ==
    \/ \E r \in Requests :
          Ask(r) \/ Publish(r) \/ AddPicture(r) \/ TakePart(r) \/ Repeat(r) \/ Refuse(r)
    \/ Vanish

Spec == Init /\ [][Next]_vars
=============================================================================
