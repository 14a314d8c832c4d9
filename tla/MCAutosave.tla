------------------------------ MODULE MCAutosave ------------------------------
(* Two elements, the first of which may be an image. *)
EXTENDS Autosave

CONSTANTS a, b, pic

Peer(peerId, e) ==
    [kind |-> "patch", rev |-> 0,
     patch |-> [elements |-> [id \in Ids |-> IF id = peerId THEN e ELSE Absent],
                place |-> [id \in Ids |-> IF id = peerId THEN 1 ELSE 0],
                order |-> Absent]]

PeerElement(version, deleted) ==
    [version |-> version, versionNonce |-> 0, updated |-> 0,
     isDeleted |-> deleted, picture |-> NoPicture]

(* Another tab erases the second element, or moves it twice. *)
OtherTab == {Peer(b, PeerElement(2, TRUE)), Peer(b, PeerElement(3, FALSE))}

BothEngines == BOOLEAN
=============================================================================
