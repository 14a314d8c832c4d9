---------------------------- MODULE MCOnlineStore -----------------------------
EXTENDS OnlineStore, TLC

CONSTANTS b1, b2, sid, pid, pid2, uid, mine, other

Slots == Permutations(Requests)

Full == [b \in Bodies |-> IF b = b1 THEN 2 ELSE 1]

Op(kind, item, n, total, body) ==
    [kind |-> kind, item |-> item, n |-> n, total |-> total, body |-> body,
     expected |-> 0, token |-> mine]

(* The first of two parts is full, the second is not. *)
InTwo(kind, item) == {Op(kind, item, 0, 2, b1), Op(kind, item, 1, 2, b2)}

ByOther(o) == [o EXCEPT !.token = other]

(* The other writes a scene, and sends a picture there may be already. *)
Ops ==
    InTwo("staged", Staged(sid)) \cup InTwo("upload", Pending(pid, uid))
    \cup {Op("commit", Staged(sid), 0, 1, b1), Op("picture", Picture(pid2), 0, 1, b2),
          Op("scene", Scene, 0, 1, b2), ByOther(Op("scene", Scene, 0, 1, b1)),
          ByOther(Op("picture", Picture(pid2), 0, 1, b2))}
=============================================================================
