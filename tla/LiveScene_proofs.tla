--------------------------- MODULE LiveScene_proofs ---------------------------
(***************************************************************************)
(* What holds of a board's pages for any number of pages and elements, and *)
(* however many edits, lost links, joins and catch-ups: once every save    *)
(* landed, the server has what a page shows; a page that is linked has     *)
(* told the room all of it; and once no frame is on its way, the pages     *)
(* show the same drawing.                                                  *)
(*                                                                         *)
(* A save sends what the saver's tracker does not know already, of the ids *)
(* noted.  So the invariant is that the tracker knows nothing the server   *)
(* lacks, and that a page's own copy of an element is on the server, or    *)
(* newer there, or noted.  The same is said of the room, with the link's   *)
(* tracker in the place of the server: nobody can say what the room has.   *)
(*                                                                         *)
(* That the pages agree takes two invariants more.  Of an element nobody   *)
(* erased, nobody says more than it has, and a copy that a page lacks is   *)
(* with a page that has yet to join, or in a frame, or asked for by one    *)
(* (SoundKept).  Of one erased, that argument fails: a deletion is not     *)
(* told to who has not said it had the element.  But while no link broke   *)
(* nobody has to ask, and what its only user did to an element is with the *)
(* others, or in a frame (Unbroken).                                       *)
(***************************************************************************)
EXTENDS LiveScene, Scene_proofs

(* Elements whose stamp carries no clock: the engine draws none here.       *)
Untimed == {e \in Element : e.updated = 0} \cup {Absent}
Copies == [Ids -> Untimed]

Inventories == [Ids -> (Nat \X Nat) \cup {Absent}]

Frames ==
    [type: {"patch"}, from: Pages, elements: Copies]
    \cup [type: {"join"}, from: Pages, have: Inventories]
    \cup [type: {"sync"}, from: Pages, to: Pages, elements: Copies, have: Inventories]

PageTypes ==
    /\ scene \in [Pages -> Copies] /\ mirror \in [Pages -> Copies]
    /\ told \in [Pages -> Copies] /\ untold \in [Pages -> SUBSET Ids]
    /\ saved \in [Pages -> Copies] /\ unsaved \in [Pages -> SUBSET Ids]
    /\ board \in Copies /\ fallen \in SUBSET Ids

WireTypes ==
    /\ link \in [Pages -> {"closed", "down", "ready"}] /\ before \in [Pages -> BOOLEAN]
    /\ out \in [Pages -> Seq(Frames)] /\ inbox \in [Pages -> SUBSET Frames]
    /\ reading \in [Pages -> Copies \cup {Nothing, Asked}]

BoundTypes ==
    /\ edits \in Nat /\ breaks \in Nat
    /\ erased \in SUBSET Ids /\ changers \in [Ids -> SUBSET Pages]

(* A page's own copies are of live elements. *)
MirrorIsLive == \A p \in Pages, id \in Ids : mirror[p][id] = Absent \/ LiveOf(mirror[p], id)

(* The saver's tracker takes nothing for saved that the server lacks. *)
SavedIsServed == \A p \in Pages, id \in Ids : Older(saved[p][id], board[id])

(* What a page has is on the server, or noted for the next save. *)
SavedOrNoted ==
    \A p \in Pages, id \in Ids : id \in unsaved[p] \/ Older(mirror[p][id], board[id])

(* What a page has it told the room, or was told by it, or has noted for    *)
(* the next patch; while the link is up, nothing waits there.               *)
ToldOrNoted ==
    \A p \in Pages :
        /\ \A id \in Ids : id \in untold[p] \/ Older(mirror[p][id], told[p][id])
        /\ Ready(p) => untold[p] = {}

Kept == MirrorIsLive /\ SavedIsServed /\ SavedOrNoted /\ ToldOrNoted

IInv == PageTypes /\ WireTypes /\ BoundTypes /\ Kept

-----------------------------------------------------------------------------
(* The pieces patches are made of. *)

LEMMA CopiesAreScenes ==
    ASSUME NEW s \in Copies
    PROVE  s \in Scene /\ Timeless(s) /\ \A id \in Ids : s[id] \in Entry
  BY ReconcileAssumption DEF Copies, Untimed, Scene, Entry, Timeless

LEMMA LiveFacts ==
    ASSUME NEW s \in Copies
    PROVE  /\ Live(s) \in Copies
           /\ \A id \in Ids : /\ Live(s)[id] = Absent \/ LiveOf(Live(s), id)
                              /\ Older(Live(s)[id], s[id])
  <1>1. \A id \in Ids : s[id] \in Entry
    BY CopiesAreScenes
  <1>2. \A id \in Ids : Older(s[id], s[id])
    BY <1>1, OlderIsReflexive
  <1>3. Live(s) \in Copies
    BY DEF Live, Copies, Untimed
  <1>4. QED
    BY <1>2, <1>3 DEF Live, LiveOf, Older

LEMMA OverFacts ==
    ASSUME NEW s \in Copies, NEW patch \in Copies
    PROVE  /\ Over(s, patch) \in Copies
           /\ \A id \in Ids : Over(s, patch)[id] = IF patch[id] = Absent THEN s[id] ELSE patch[id]
  BY DEF Over, Copies

LEMMA MergeFacts ==
    ASSUME NEW s \in Copies, NEW patch \in Copies
    PROVE  /\ Merge(s, patch) \in Copies
           /\ \A id \in Ids : /\ Older(s[id], Merge(s, patch)[id])
                              /\ Older(patch[id], Merge(s, patch)[id])
  <1>1. Merge(s, patch) \in Copies
    BY DEF Merge, Copies
  <1>2. ASSUME NEW id \in Ids
        PROVE  /\ Older(s[id], Merge(s, patch)[id])
               /\ Older(patch[id], Merge(s, patch)[id])
    <2> DEFINE x == s[id]
               y == patch[id]
    <2>1. x \in Entry /\ y \in Entry
      BY CopiesAreScenes
    <2>2. Merge(s, patch)[id] = IF Takes(y, x) THEN y ELSE x
      BY DEF Merge
    <2> HIDE DEF x, y
    <2>3. Older(x, x) /\ Older(y, y)
      BY <2>1, OlderIsReflexive
    <2>4. CASE Takes(y, x)
      <3>1. Older(x, y)
        BY <2>1, <2>4, NewerIsAsymmetric DEF Takes, Older, Entry
      <3>2. QED
        BY <2>2, <2>3, <2>4, <3>1 DEF x, y
    <2>5. CASE ~Takes(y, x)
      <3>1. Older(y, x)
        BY <2>5 DEF Takes, Older
      <3>2. QED
        BY <2>2, <2>3, <2>5, <3>1 DEF x, y
    <2>6. QED
      BY <2>4, <2>5
  <1>3. QED
    BY <1>1, <1>2

LEMMA MissingType ==
    ASSUME NEW known \in Copies, NEW have
    PROVE  Missing(known, have) \in Copies
  BY DEF Missing, Copies, Untimed

LEMMA InventoryType ==
    ASSUME NEW known \in Copies
    PROVE  Inventory(known) \in Inventories
  BY DEF Inventory, Inventories, Copies, Untimed, Element

(* Once a tracker has taken what it has to say of the ids noted, it knows   *)
(* of each what the page shows; of the others, what it knew.                *)
LEMMA ChangesFacts ==
    ASSUME NEW known \in Copies, NEW elements \in Copies, NEW noted \in SUBSET Ids,
           NEW nonce \in Nat,
           \A id \in Ids : elements[id] = Absent \/ LiveOf(elements, id)
    PROVE  LET patch == Changes(known, noted, elements, nonce)
           IN  /\ patch \in Copies
               /\ \A id \in noted : Older(elements[id], Over(known, patch)[id])
               /\ \A id \in Ids \ noted : Over(known, patch)[id] = known[id]
  <1> DEFINE patch == Changes(known, noted, elements, nonce)
             ChangeTo(id) == Change([known |-> known], elements, id, nonce)
  <1>1. known \in Scene /\ elements \in Scene /\ Timeless(known) /\ Timeless(elements)
    BY CopiesAreScenes
  <1>2. ASSUME NEW id \in Ids
        PROVE  /\ ChangeTo(id) \in Untimed
               /\ ChangeTo(id) # Absent => Older(elements[id], ChangeTo(id))
               /\ Older(elements[id], ChangeTo(id)) \/ Older(elements[id], known[id])
    <2>1. ChangeTo(id) \in Entry /\ (ChangeTo(id) # Absent => ChangeTo(id).updated = 0)
      BY <1>1, ChangeType
    <2>2. /\ ChangeTo(id) # Absent => Older(elements[id], ChangeTo(id))
          /\ Older(elements[id], ChangeTo(id)) \/ Older(elements[id], known[id])
      BY <1>1, ChangeBrings
    <2> HIDE DEF ChangeTo
    <2>3. QED
      BY <2>1, <2>2 DEF Untimed, Entry
  <1>3. patch = [id \in Ids |-> IF id \in noted THEN ChangeTo(id) ELSE Absent]
    BY DEF Changes
  <1> HIDE DEF patch, ChangeTo
  <1>4. patch \in Copies
    BY <1>2, <1>3 DEF Copies, Untimed
  <1>5. \A id \in Ids : Over(known, patch)[id] = IF patch[id] = Absent THEN known[id] ELSE patch[id]
    BY <1>4, OverFacts
  <1>6. ASSUME NEW id \in noted
        PROVE  Older(elements[id], Over(known, patch)[id])
    <2>1. id \in Ids /\ patch[id] = ChangeTo(id)
      BY <1>3
    <2>2. ChangeTo(id) = Absent => Older(elements[id], known[id])
      BY <1>2, <2>1 DEF Older
    <2>3. QED
      BY <1>2, <1>5, <2>1, <2>2
  <1>7. \A id \in Ids \ noted : Over(known, patch)[id] = known[id]
    BY <1>3, <1>5
  <1>8. QED
    BY <1>4, <1>6, <1>7 DEF patch

-----------------------------------------------------------------------------
(* What is said of a page, page by page: "m", "k" and "s" are its own       *)
(* copies and what its two trackers know.                                   *)
Alive(m) == \A id \in Ids : m[id] = Absent \/ LiveOf(m, id)
Within(k, noted, m) == \A id \in Ids : id \in noted \/ Older(m[id], k[id])

LEMMA KeptByPage ==
    /\ MirrorIsLive <=> \A p \in Pages : Alive(mirror[p])
    /\ SavedIsServed <=> \A p \in Pages : Within(board, {}, saved[p])
    /\ SavedOrNoted <=> \A p \in Pages : Within(board, unsaved[p], mirror[p])
    /\ ToldOrNoted <=> \A p \in Pages : /\ Within(told[p], untold[p], mirror[p])
                                        /\ Ready(p) => untold[p] = {}
  BY DEF MirrorIsLive, SavedIsServed, SavedOrNoted, ToldOrNoted, Alive, Within

(* The engine took something of what arrived: the page's copies, and what   *)
(* it takes the room to know, follow it; the saver notes all of it.         *)
LEMMA AppliedKeeps ==
    ASSUME IInv, NEW p \in Pages, NEW patch \in Copies, Applied(p, patch),
           UNCHANGED <<untold, saved, board, link>>
    PROVE  PageTypes' /\ Kept'
  <1>1. CASE ~AppliesTo(p, patch)
    <2>1. UNCHANGED <<scene, mirror, told, unsaved, untold, saved, board, link, fallen>>
      BY <1>1 DEF Applied
    <2>2. QED
      BY <2>1 DEF IInv, PageTypes, Kept, MirrorIsLive, SavedIsServed, SavedOrNoted, ToldOrNoted, Ready
  <1>2. CASE AppliesTo(p, patch)
    <2> DEFINE named == {id \in Ids : patch[id] # Absent}
               seen == Merge(scene[p], patch)
               now == Over(mirror[p], patch)
               m == Live(now)
               k == Over(told[p], patch)
               noted == unsaved[p] \cup named
    <2>1. /\ scene' = [scene EXCEPT ![p] = seen]
          /\ mirror' = [mirror EXCEPT ![p] = m]
          /\ told' = [told EXCEPT ![p] = k]
          /\ unsaved' = [unsaved EXCEPT ![p] = noted]
          /\ fallen' \in SUBSET Ids
      BY <1>2 DEF Applied, IInv, PageTypes
    <2>2. /\ scene[p] \in Copies /\ mirror[p] \in Copies /\ told[p] \in Copies
          /\ unsaved[p] \in SUBSET Ids
      BY DEF IInv, PageTypes
    <2>3. seen \in Copies /\ now \in Copies /\ k \in Copies /\ noted \in SUBSET Ids
      BY <2>2, MergeFacts, OverFacts
    <2>4. m \in Copies /\ Alive(m) /\ \A id \in Ids : Older(m[id], now[id])
      BY <2>3, LiveFacts DEF Alive
    <2>5. /\ Alive(mirror[p])
          /\ Within(board, unsaved[p], mirror[p]) /\ Within(told[p], untold[p], mirror[p])
      BY KeptByPage DEF IInv, Kept
    <2>6. \A id \in Ids : /\ now[id] = IF patch[id] = Absent THEN mirror[p][id] ELSE patch[id]
                          /\ k[id] = IF patch[id] = Absent THEN told[p][id] ELSE patch[id]
      BY <2>2, OverFacts
    <2>7. \A id \in Ids : patch[id] = Absent => m[id] = mirror[p][id]
      BY <2>5, <2>6 DEF Alive, Live, LiveOf, IsLive
    <2>8. Within(board, noted, m)
      BY <2>5, <2>7 DEF Within
    <2>9. Within(k, untold[p], m)
      BY <2>4, <2>5, <2>6, <2>7 DEF Within
    <2> HIDE DEF seen, now, m, k, noted
    <2>10. PageTypes'
      BY <2>1, <2>3, <2>4 DEF IInv, PageTypes
    <2>11. \A q \in Pages : Alive(mirror'[q])
      BY <2>1, <2>4, KeptByPage DEF IInv, PageTypes, Kept
    <2>12. \A q \in Pages : Within(board', unsaved'[q], mirror'[q])
      BY <2>1, <2>8, KeptByPage DEF IInv, PageTypes, Kept
    <2>13. \A q \in Pages : /\ Within(told'[q], untold'[q], mirror'[q])
                            /\ link'[q] = "ready" => untold'[q] = {}
      BY <2>1, <2>9, KeptByPage DEF IInv, PageTypes, Kept, Ready
    <2>14. \A q \in Pages : Within(board', {}, saved'[q])
      BY KeptByPage DEF IInv, Kept
    <2>15. QED
      BY <2>10, <2>11, <2>12, <2>13, <2>14
      DEF Kept, MirrorIsLive, SavedIsServed, SavedOrNoted, ToldOrNoted, Alive, Within, Ready
  <1>3. QED
    BY <1>1, <1>2

(* takePatch: the link's tracker has said all that was noted. *)
LEMMA TookKeeps ==
    ASSUME NEW p \in Pages, NEW m \in Copies, NEW noted \in SUBSET Ids, NEW nonce \in Nat,
           told \in [Pages -> Copies], untold \in [Pages -> SUBSET Ids],
           Alive(m), Within(told[p], noted, m), Took(p, Taken(p, noted, m, nonce))
    PROVE  /\ Taken(p, noted, m, nonce) \in Copies
           /\ told' \in [Pages -> Copies] /\ untold' \in [Pages -> SUBSET Ids]
           /\ Within(told'[p], {}, m) /\ untold'[p] = {}
           /\ \A q \in Pages \ {p} : told'[q] = told[q] /\ untold'[q] = untold[q]
  <1> DEFINE known == told[p]
             patch == Changes(known, noted, m, nonce)
             k == Over(known, patch)
  <1>1. known \in Copies
    OBVIOUS
  <1>2. Taken(p, noted, m, nonce) = patch
    BY DEF Taken
  <1>3. told' = [told EXCEPT ![p] = k] /\ untold' = [untold EXCEPT ![p] = {}]
    BY <1>2 DEF Took
  <1>4. \A id \in Ids : m[id] = Absent \/ LiveOf(m, id)
    BY DEF Alive
  <1>5. \A id \in Ids : id \in noted \/ Older(m[id], known[id])
    BY DEF Within
  <1> HIDE DEF known
  <1>6. /\ patch \in Copies
        /\ \A id \in noted : Older(m[id], k[id])
        /\ \A id \in Ids \ noted : k[id] = known[id]
    BY <1>1, <1>4, ChangesFacts
  <1> HIDE DEF patch
  <1>7. k \in Copies
    BY <1>1, <1>6, OverFacts
  <1> HIDE DEF k
  <1>8. Within(k, {}, m)
    BY <1>5, <1>6 DEF Within
  <1>9. QED
    BY <1>2, <1>3, <1>6, <1>7, <1>8

(* Frames join the end of what is being written. *)
LEMMA PatchOfType ==
    ASSUME NEW p \in Pages, NEW patch \in Copies
    PROVE  PatchOf(p, patch) \in Seq(Frames)
  <1>1. PatchFrame(p, patch) \in Frames
    BY DEF PatchFrame, Frames
  <1>2. <<>> \in Seq(Frames) /\ <<PatchFrame(p, patch)>> \in Seq(Frames)
    BY <1>1
  <1>3. QED
    BY <1>2 DEF PatchOf

-----------------------------------------------------------------------------
(* A user's change: the page's copies follow it where it was noted.         *)
LEMMA ChangedKeeps ==
    ASSUME IInv, NEW p \in Pages, NEW now \in Copies, NEW noted \in SUBSET Ids,
           Changed(p, now, noted)
    PROVE  IInv'
  <1> DEFINE m == [id \in Ids |-> IF id \in noted THEN Live(now)[id] ELSE mirror[p][id]]
             all == unsaved[p] \cup noted
  <1>1. /\ scene' = [scene EXCEPT ![p] = now] /\ mirror' = [mirror EXCEPT ![p] = m]
        /\ unsaved' = [unsaved EXCEPT ![p] = all]
        /\ edits' = edits + 1 /\ breaks' = breaks
        /\ erased' = erased \cup {id \in noted : now[id].isDeleted}
        /\ changers' = [id \in Ids |-> IF id \in noted THEN changers[id] \cup {p}
                                       ELSE changers[id]]
        /\ UNCHANGED <<saved, fallen, link, before, inbox, reading, board>>
    BY DEF Changed
  <1>2. /\ mirror[p] \in Copies /\ all \in SUBSET Ids
        /\ Alive(mirror[p])
        /\ Within(board, unsaved[p], mirror[p]) /\ Within(told[p], untold[p], mirror[p])
    BY KeptByPage DEF IInv, PageTypes, Kept
  <1>3. m \in Copies /\ Alive(m) /\ mirror'[p] = m
    <2>1. Live(now) \in Copies /\ Alive(Live(now))
      BY LiveFacts DEF Alive
    <2>2. m \in Copies
      BY <1>2, <2>1 DEF Copies
    <2>3. Alive(m)
      BY <1>2, <2>1 DEF Alive, LiveOf
    <2>4. mirror'[p] = m
      <3> HIDE DEF m
      <3>1. QED
        BY <1>1 DEF IInv, PageTypes
    <2>5. QED
      BY <2>2, <2>3, <2>4
  <1>4. Within(board, all, m) /\ Within(told[p], untold[p] \cup noted, m)
    BY <1>2 DEF Within
  <1> HIDE DEF m, all
  <1>5. /\ told' \in [Pages -> Copies] /\ untold' \in [Pages -> SUBSET Ids]
        /\ out' \in [Pages -> Seq(Frames)]
        /\ Within(told'[p], untold'[p], m) /\ (link[p] = "ready" => untold'[p] = {})
        /\ \A q \in Pages \ {p} : told'[q] = told[q] /\ untold'[q] = untold[q]
    <2>1. CASE Ready(p)
      <3>1. PICK nonce \in HostNonces[p] :
               LET patch == Taken(p, untold[p] \cup noted, mirror'[p], nonce)
               IN  Took(p, patch) /\ out' = [out EXCEPT ![p] = @ \o PatchOf(p, patch)]
        BY <2>1 DEF Changed
      <3> DEFINE news == untold[p] \cup noted
                 patch == Taken(p, news, m, nonce)
                 more == PatchOf(p, patch)
      <3>2. nonce \in Nat /\ news \in SUBSET Ids
        BY LiveSceneAssumption DEF IInv, PageTypes
      <3>3. Took(p, patch) /\ out' = [out EXCEPT ![p] = @ \o more]
        BY <1>3, <3>1
      <3> HIDE DEF news
      <3>4. /\ patch \in Copies
            /\ told' \in [Pages -> Copies] /\ untold' \in [Pages -> SUBSET Ids]
            /\ Within(told'[p], {}, m) /\ untold'[p] = {}
            /\ \A q \in Pages \ {p} : told'[q] = told[q] /\ untold'[q] = untold[q]
        <4>1. Within(told[p], news, m)
          BY <1>4 DEF news
        <4>2. told \in [Pages -> Copies] /\ untold \in [Pages -> SUBSET Ids]
          BY DEF IInv, PageTypes
        <4>3. QED
          BY <1>3, <3>2, <3>3, <4>1, <4>2, TookKeeps
      <3>5. more \in Seq(Frames)
        BY <3>4, PatchOfType
      <3> HIDE DEF patch, more
      <3>6. out' \in [Pages -> Seq(Frames)]
        BY <3>3, <3>5 DEF IInv, WireTypes
      <3>7. QED
        BY <3>4, <3>6
    <2>2. CASE ~Ready(p)
      <3>1. untold' = [untold EXCEPT ![p] = @ \cup noted] /\ UNCHANGED <<told, out>>
        BY <2>2 DEF Changed
      <3>2. link[p] # "ready"
        BY <2>2 DEF Ready
      <3>3. QED
        BY <1>4, <3>1, <3>2 DEF IInv, PageTypes, WireTypes
    <2>3. QED
      BY <2>1, <2>2
  <1>6. PageTypes'
    BY <1>1, <1>2, <1>3, <1>5 DEF IInv, PageTypes
  <1>7. WireTypes' /\ BoundTypes'
    BY <1>1, <1>5 DEF IInv, WireTypes, BoundTypes
  <1>8. \A q \in Pages : Alive(mirror'[q])
    BY <1>1, <1>3, KeptByPage DEF IInv, PageTypes, Kept
  <1>9. \A q \in Pages : Within(board', unsaved'[q], mirror'[q])
    BY <1>1, <1>3, <1>4, KeptByPage DEF IInv, PageTypes, Kept
  <1>10. \A q \in Pages : /\ Within(told'[q], untold'[q], mirror'[q])
                          /\ link'[q] = "ready" => untold'[q] = {}
    <2>1. \A q \in Pages \ {p} : mirror'[q] = mirror[q]
      BY <1>1 DEF IInv, PageTypes
    <2>2. \A q \in Pages : /\ Within(told[q], untold[q], mirror[q])
                           /\ link[q] = "ready" => untold[q] = {}
      BY KeptByPage DEF IInv, Kept, Ready
    <2>3. QED
      BY <1>1, <1>3, <1>5, <2>1, <2>2
  <1>11. \A q \in Pages : Within(board', {}, saved'[q])
    BY <1>1, KeptByPage DEF IInv, Kept
  <1>12. Kept'
    BY <1>8, <1>9, <1>10, <1>11
    DEF Kept, MirrorIsLive, SavedIsServed, SavedOrNoted, ToldOrNoted, Alive, Within, Ready
  <1>13. QED
    BY <1>6, <1>7, <1>12 DEF IInv

LEMMA DrawnType == ASSUME NEW nonce \in Nat PROVE Drawn(nonce) \in Untimed
  BY DEF Drawn, Untimed, Element

LEMMA UserKeeps ==
    ASSUME IInv, NEW p \in Pages, UserActs(p)
    PROVE  IInv'
  <1>1. PICK id \in Ids : Draw(p, id) \/ Edit(p, id) \/ Erase(p, id)
    BY DEF UserActs
  <1>2. \A nonce \in Nonces[p] : nonce \in Nat
    BY LiveSceneAssumption
  <1>3. scene[p] \in Copies
    BY DEF IInv, PageTypes
  <1>4. CASE Draw(p, id)
    <2>1. PICK nonce \in Nonces[p] : Changed(p, [scene[p] EXCEPT ![id] = Drawn(nonce)], {id})
      BY <1>4 DEF Draw
    <2> DEFINE now == [scene[p] EXCEPT ![id] = Drawn(nonce)]
    <2>2. Drawn(nonce) \in Untimed
      BY <1>2, DrawnType
    <2>3. now \in Copies
      BY <1>3, <2>2 DEF Copies
    <2>4. Changed(p, now, {id})
      BY <2>1
    <2> HIDE DEF now
    <2>5. QED
      BY <2>3, <2>4, ChangedKeeps
  <1>5. CASE Edit(p, id)
    <2>1. PICK nonce \in Nonces[p] :
             Changed(p, [scene[p] EXCEPT ![id].version = @ + 1, ![id].versionNonce = nonce], {id})
      BY <1>5 DEF Edit
    <2> DEFINE e == scene[p][id]
               v == e.version + 1
               new == [e EXCEPT !.version = v, !.versionNonce = nonce]
               now == [scene[p] EXCEPT ![id] = new]
    <2>2. e \in Element /\ e.updated = 0 /\ nonce \in Nat
      BY <1>2, <1>3, <1>5 DEF Edit, LiveOf, IsLive, Copies, Untimed
    <2>3. v \in Nat
      BY <2>2 DEF Element
    <2>4. [scene[p] EXCEPT ![id].version = @ + 1, ![id].versionNonce = nonce] = now
      BY <1>3 DEF Copies
    <2> HIDE DEF v, e
    <2>5. new \in Untimed
      BY <2>2, <2>3 DEF Untimed, Element
    <2> HIDE DEF new
    <2>6. now \in Copies
      BY <1>3, <2>5 DEF Copies
    <2>7. Changed(p, now, {id})
      BY <2>1, <2>4
    <2> HIDE DEF now
    <2>8. QED
      BY <2>6, <2>7, ChangedKeeps
  <1>6. CASE Erase(p, id)
    <2>1. PICK nonce \in Nonces[p] :
             Changed(p, [scene[p] EXCEPT ![id].version = @ + 1, ![id].versionNonce = nonce,
                                         ![id].isDeleted = TRUE], {id})
      BY <1>6 DEF Erase
    <2> DEFINE e == scene[p][id]
               v == e.version + 1
               new == [e EXCEPT !.version = v, !.versionNonce = nonce, !.isDeleted = TRUE]
               now == [scene[p] EXCEPT ![id] = new]
    <2>2. e \in Element /\ e.updated = 0 /\ nonce \in Nat
      BY <1>2, <1>3, <1>6 DEF Erase, LiveOf, IsLive, Copies, Untimed
    <2>3. v \in Nat
      BY <2>2 DEF Element
    <2>4. [scene[p] EXCEPT ![id].version = @ + 1, ![id].versionNonce = nonce,
                           ![id].isDeleted = TRUE] = now
      BY <1>3 DEF Copies
    <2> HIDE DEF v, e
    <2>5. new \in Untimed
      BY <2>2, <2>3 DEF Untimed, Element
    <2> HIDE DEF new
    <2>6. now \in Copies
      BY <1>3, <2>5 DEF Copies
    <2>7. Changed(p, now, {id})
      BY <2>1, <2>4
    <2> HIDE DEF now
    <2>8. QED
      BY <2>6, <2>7, ChangedKeeps
  <1>7. QED
    BY <1>1, <1>4, <1>5, <1>6

-----------------------------------------------------------------------------
(* A save: the server takes what the tracker had to say, and what it knows  *)
(* afterwards is that or what it knew.                                      *)
LEMMA SaveKeeps ==
    ASSUME IInv, NEW p \in Pages, Save(p)
    PROVE  IInv'
  <1>1. PICK nonce \in HostNonces[p] :
           LET patch == Changes(saved[p], unsaved[p], mirror[p], nonce)
           IN  board' = Merge(board, patch) /\ saved' = [saved EXCEPT ![p] = Over(@, patch)]
    BY DEF Save
  <1> DEFINE known == saved[p]
             noted == unsaved[p]
             m == mirror[p]
             patch == Changes(known, noted, m, nonce)
             k == Over(known, patch)
             new == Merge(board, patch)
             old == board
  <1>2. /\ board' = new /\ saved' = [saved EXCEPT ![p] = k]
        /\ unsaved' = [unsaved EXCEPT ![p] = {}]
        /\ UNCHANGED <<scene, mirror, told, untold, fallen, link, before, out, inbox, reading,
                       edits, breaks, erased, changers>>
    BY <1>1 DEF Save, wire, bounds
  <1>3. /\ known \in Copies /\ m \in Copies /\ noted \in SUBSET Ids /\ old \in Copies
        /\ nonce \in Nat
    BY LiveSceneAssumption DEF IInv, PageTypes
  <1>4. /\ \A id \in Ids : m[id] = Absent \/ LiveOf(m, id)
        /\ \A id \in Ids : Older(known[id], old[id])
        /\ \A id \in Ids : id \in noted \/ Older(m[id], old[id])
    BY KeptByPage DEF IInv, Kept, Alive, Within
  <1> HIDE DEF known, noted, m
  <1>5. /\ patch \in Copies
        /\ \A id \in noted : Older(m[id], k[id])
        /\ \A id \in Ids \ noted : k[id] = known[id]
    BY <1>3, <1>4, ChangesFacts
  <1> HIDE DEF patch
  <1>6. /\ k \in Copies
        /\ \A id \in Ids : k[id] = known[id] \/ k[id] = patch[id]
    BY <1>3, <1>5, OverFacts
  <1>7. /\ new \in Copies
        /\ \A id \in Ids : Older(old[id], new[id]) /\ Older(patch[id], new[id])
    BY <1>3, <1>5, MergeFacts
  <1> HIDE DEF k, new
  <1>8. ASSUME NEW s \in Copies, NEW id \in Ids, Older(s[id], old[id])
        PROVE  Older(s[id], new[id])
    <2>1. s[id] \in Entry /\ old[id] \in Entry /\ new[id] \in Entry
      BY <1>3, <1>7, CopiesAreScenes
    <2>2. QED
      BY <1>7, <1>8, <2>1, OlderIsTransitive
  <1>9. \A id \in Ids : Older(k[id], new[id])
    BY <1>3, <1>4, <1>6, <1>7, <1>8
  <1>10. \A id \in Ids : Older(m[id], new[id])
    <2>1. ASSUME NEW id \in noted
          PROVE  Older(m[id], new[id])
      <3>1. m[id] \in Entry /\ k[id] \in Entry /\ new[id] \in Entry
        BY <1>3, <1>6, <1>7, CopiesAreScenes
      <3>2. QED
        BY <1>3, <1>5, <1>9, <3>1, OlderIsTransitive
    <2>2. QED
      BY <1>3, <1>4, <1>8, <2>1
  <1>11. PageTypes'
    BY <1>2, <1>6, <1>7 DEF IInv, PageTypes
  <1>12. WireTypes' /\ BoundTypes'
    BY <1>2 DEF IInv, WireTypes, BoundTypes
  <1>13. \A q \in Pages : Within(board', {}, saved'[q])
    <2>1. ASSUME NEW q \in Pages \ {p}
          PROVE  Within(new, {}, saved[q])
      <3>1. saved[q] \in Copies /\ Within(old, {}, saved[q])
        BY KeptByPage DEF IInv, PageTypes, Kept
      <3>2. QED
        BY <1>8, <3>1 DEF Within
    <2>2. saved'[p] = k /\ \A q \in Pages \ {p} : saved'[q] = saved[q]
      BY <1>2 DEF IInv, PageTypes
    <2>3. QED
      BY <1>2, <1>9, <2>1, <2>2 DEF Within
  <1>14. \A q \in Pages : Within(board', unsaved'[q], mirror'[q])
    <2>1. ASSUME NEW q \in Pages \ {p}
          PROVE  Within(new, unsaved[q], mirror[q])
      <3>1. mirror[q] \in Copies /\ Within(old, unsaved[q], mirror[q])
        BY KeptByPage DEF IInv, PageTypes, Kept
      <3>2. QED
        BY <1>8, <3>1 DEF Within
    <2>2. Within(new, {}, mirror[p])
      BY <1>10 DEF Within, m
    <2>3. unsaved'[p] = {} /\ \A q \in Pages \ {p} : unsaved'[q] = unsaved[q]
      BY <1>2 DEF IInv, PageTypes
    <2>4. QED
      BY <1>2, <2>1, <2>2, <2>3
  <1>15. MirrorIsLive' /\ ToldOrNoted'
    BY <1>2 DEF IInv, Kept, MirrorIsLive, ToldOrNoted, Ready
  <1>16. SavedIsServed' /\ SavedOrNoted'
    BY <1>13, <1>14 DEF SavedIsServed, SavedOrNoted, Within
  <1>17. QED
    BY <1>11, <1>12, <1>15, <1>16 DEF IInv, Kept

(* A page opens on the board: it shows, and takes for saved and told, the   *)
(* live elements of it.                                                     *)
LEMMA OpenKeeps ==
    ASSUME IInv, NEW p \in Pages, Open(p)
    PROVE  IInv'
  <1> DEFINE now == Live(board)
  <1>1. /\ link' = [link EXCEPT ![p] = "down"] /\ breaks' = breaks + 1
        /\ scene' = [scene EXCEPT ![p] = now] /\ mirror' = [mirror EXCEPT ![p] = now]
        /\ told' = [told EXCEPT ![p] = now] /\ saved' = [saved EXCEPT ![p] = now]
        /\ UNCHANGED <<untold, unsaved, fallen, before, out, inbox, reading, board,
                       edits, erased, changers>>
    BY DEF Open
  <1>2. /\ now \in Copies /\ Alive(now)
        /\ \A id \in Ids : Older(now[id], board[id])
    BY LiveFacts DEF Alive, IInv, PageTypes
  <1>3. \A id \in Ids : Older(now[id], now[id])
    BY <1>2, CopiesAreScenes, OlderIsReflexive
  <1> HIDE DEF now
  <1>4. PageTypes'
    BY <1>1, <1>2 DEF IInv, PageTypes
  <1>5. WireTypes' /\ BoundTypes'
    BY <1>1 DEF IInv, WireTypes, BoundTypes
  <1>6. \A q \in Pages : Alive(mirror'[q])
    BY <1>1, <1>2, KeptByPage DEF IInv, PageTypes, Kept
  <1>7. \A q \in Pages : Within(board', unsaved'[q], mirror'[q])
    <2>1. \A noted : Within(board, noted, now)
      BY <1>2 DEF Within
    <2>2. QED
      BY <1>1, <2>1, KeptByPage DEF IInv, PageTypes, Kept
  <1>8. \A q \in Pages : Within(board', {}, saved'[q])
    <2>1. Within(board, {}, now)
      BY <1>2 DEF Within
    <2>2. QED
      BY <1>1, <2>1, KeptByPage DEF IInv, PageTypes, Kept
  <1>9. \A q \in Pages : /\ Within(told'[q], untold'[q], mirror'[q])
                         /\ link'[q] = "ready" => untold'[q] = {}
    <2>1. \A noted : Within(now, noted, now)
      BY <1>3 DEF Within
    <2>2. \A q \in Pages : Within(told[q], untold[q], mirror[q])
      BY KeptByPage DEF IInv, Kept
    <2>3. \A q \in Pages : Within(told'[q], untold'[q], mirror'[q])
      BY <1>1, <2>1, <2>2 DEF IInv, PageTypes
    <2>4. \A q \in Pages : link[q] = "ready" => untold[q] = {}
      BY KeptByPage DEF IInv, Kept, Ready
    <2>5. \A q \in Pages : link'[q] = "ready" => link[q] = "ready"
      BY <1>1 DEF IInv, WireTypes
    <2>6. QED
      BY <1>1, <2>3, <2>4, <2>5
  <1>10. Kept'
    BY <1>6, <1>7, <1>8, <1>9
    DEF Kept, MirrorIsLive, SavedIsServed, SavedOrNoted, ToldOrNoted, Alive, Within, Ready
  <1>11. QED
    BY <1>4, <1>5, <1>10 DEF IInv

-----------------------------------------------------------------------------
(* The link. *)

(* SUBSCRIBED: what was noted while it was down is taken, and goes out.     *)
LEMMA JoinKeeps ==
    ASSUME IInv, NEW p \in Pages, Join(p)
    PROVE  IInv'
  <1>1. /\ link' = [link EXCEPT ![p] = "ready"] /\ before' = [before EXCEPT ![p] = TRUE]
        /\ reading' = [reading EXCEPT ![p] = IF before[p] THEN Asked ELSE @]
        /\ UNCHANGED <<scene, mirror, saved, unsaved, fallen, inbox, board,
                       edits, breaks, erased, changers>>
    BY DEF Join, bounds
  <1>2. PICK nonce \in HostNonces[p] :
           LET patch == Taken(p, untold[p], mirror[p], nonce)
               join == [type |-> "join", from |-> p, have |-> Inventory(told'[p])]
           IN  Took(p, patch) /\ out' = [out EXCEPT ![p] = @ \o PatchOf(p, patch) \o <<join>>]
    BY DEF Join
  <1> DEFINE noted == untold[p]
             m == mirror[p]
             patch == Taken(p, noted, m, nonce)
             join == [type |-> "join", from |-> p, have |-> Inventory(told'[p])]
             news == PatchOf(p, patch)
             all == out[p] \o news \o <<join>>
  <1>3. /\ Took(p, patch) /\ out' = [out EXCEPT ![p] = all]
        /\ nonce \in Nat /\ noted \in SUBSET Ids /\ m \in Copies
        /\ told \in [Pages -> Copies] /\ untold \in [Pages -> SUBSET Ids]
    BY <1>2, LiveSceneAssumption DEF IInv, PageTypes
  <1>4. Alive(m) /\ Within(told[p], noted, m)
    BY KeptByPage DEF IInv, Kept
  <1> HIDE DEF noted, m
  <1>5. /\ patch \in Copies
        /\ told' \in [Pages -> Copies] /\ untold' \in [Pages -> SUBSET Ids]
        /\ Within(told'[p], {}, m) /\ untold'[p] = {}
        /\ \A q \in Pages \ {p} : told'[q] = told[q] /\ untold'[q] = untold[q]
    BY <1>3, <1>4, TookKeeps
  <1>6. news \in Seq(Frames)
    BY <1>5, PatchOfType
  <1>7. join \in Frames
    BY <1>5, InventoryType DEF Frames
  <1> HIDE DEF patch, join, news
  <1>8. all \in Seq(Frames)
    BY <1>6, <1>7 DEF IInv, WireTypes
  <1> HIDE DEF all
  <1>9. PageTypes' /\ BoundTypes'
    BY <1>1, <1>5 DEF IInv, PageTypes, BoundTypes
  <1>10. WireTypes'
    BY <1>1, <1>3, <1>8 DEF IInv, WireTypes
  <1>11. \A q \in Pages : /\ Within(told'[q], untold'[q], mirror'[q])
                          /\ link'[q] = "ready" => untold'[q] = {}
    <2>1. \A q \in Pages \ {p} : link'[q] = link[q]
      BY <1>1 DEF IInv, WireTypes
    <2>2. \A q \in Pages : /\ Within(told[q], untold[q], mirror[q])
                           /\ link[q] = "ready" => untold[q] = {}
      BY KeptByPage DEF IInv, Kept, Ready
    <2>3. QED
      BY <1>1, <1>5, <2>1, <2>2 DEF m
  <1>12. MirrorIsLive' /\ SavedIsServed' /\ SavedOrNoted'
    BY <1>1 DEF IInv, Kept, MirrorIsLive, SavedIsServed, SavedOrNoted
  <1>13. QED
    BY <1>9, <1>10, <1>11, <1>12 DEF IInv, Kept, ToldOrNoted, Within, Ready

(* Frames move, links are lost: nothing a page has or knows changes.        *)
LEMMA PagesStand ==
    ASSUME IInv, UNCHANGED <<page, board>>, \A q \in Pages : Ready(q)' => Ready(q)
    PROVE  PageTypes' /\ Kept'
  BY DEF IInv, page, PageTypes, Kept, MirrorIsLive, SavedIsServed, SavedOrNoted, ToldOrNoted

LEMMA RelayedKeeps ==
    ASSUME IInv, NEW p \in Pages, Relayed(p)
    PROVE  IInv'
  <1> DEFINE head == Head(out[p])
             rest == Tail(out[p])
  <1>1. out[p] \in Seq(Frames) /\ out[p] # <<>>
    BY DEF Relayed, IInv, WireTypes
  <1>2. head \in Frames /\ rest \in Seq(Frames)
    BY <1>1
  <1>3. /\ out' = [out EXCEPT ![p] = rest]
        /\ inbox' = [q \in Pages |-> IF q # p /\ Ready(q) THEN inbox[q] \cup {head}
                                     ELSE inbox[q]]
        /\ UNCHANGED <<page, link, before, reading, board, edits, breaks, erased, changers>>
    BY DEF Relayed, bounds
  <1> HIDE DEF head, rest
  <1>4. WireTypes' /\ BoundTypes'
    BY <1>2, <1>3 DEF IInv, WireTypes, BoundTypes
  <1>5. PageTypes' /\ Kept'
    BY <1>3, PagesStand DEF Ready
  <1>6. QED
    BY <1>4, <1>5 DEF IInv

LEMMA DropKeeps ==
    ASSUME IInv, NEW p \in Pages, Drop(p)
    PROVE  IInv'
  <1>1. /\ link' = [link EXCEPT ![p] = "down"] /\ out' = [out EXCEPT ![p] = <<>>]
        /\ inbox' = [inbox EXCEPT ![p] = {}] /\ breaks' = breaks + 1
        /\ UNCHANGED <<page, before, reading, board, edits, erased, changers>>
    BY DEF Drop
  <1>2. WireTypes' /\ BoundTypes'
    BY <1>1 DEF IInv, WireTypes, BoundTypes
  <1>3. \A q \in Pages : Ready(q)' => Ready(q)
    BY <1>1 DEF IInv, WireTypes, Ready
  <1>4. PageTypes' /\ Kept'
    BY <1>1, <1>3, PagesStand
  <1>5. QED
    BY <1>2, <1>4 DEF IInv

-----------------------------------------------------------------------------
(* What a page hears. *)

LEMMA FrameFacts ==
    ASSUME NEW frame \in Frames
    PROVE  /\ frame.type \in {"patch", "sync"} => frame.elements \in Copies
           /\ frame.type \in {"join", "sync"} => frame.from \in Pages
  BY DEF Frames

LEMMA OpensFacts ==
    ASSUME IInv, NEW p \in Pages, NEW frame \in inbox[p], Opens(p, frame)
    PROVE  /\ frame \in Frames
           /\ inbox' \in [Pages -> SUBSET Frames]
           /\ UNCHANGED <<saved, link, before, reading, board, edits, breaks, erased, changers>>
  BY DEF IInv, WireTypes, Opens, bounds

LEMMA HearJoinKeeps ==
    ASSUME IInv, NEW p \in Pages, HearJoin(p)
    PROVE  IInv'
  <1>1. PICK frame \in inbox[p] :
           /\ frame.type = "join" /\ Opens(p, frame)
           /\ out' = [out EXCEPT ![p] = Append(@,
                   [type |-> "sync", from |-> p, to |-> frame.from,
                    elements |-> Missing(told[p], frame.have), have |-> Inventory(told[p])])]
           /\ UNCHANGED page
    BY DEF HearJoin
  <1> DEFINE known == told[p]
             lacking == Missing(known, frame.have)
             answer == [type |-> "sync", from |-> p, to |-> frame.from,
                        elements |-> lacking, have |-> Inventory(known)]
  <1>2. /\ frame \in Frames /\ inbox' \in [Pages -> SUBSET Frames]
        /\ UNCHANGED <<saved, link, before, reading, board, edits, breaks, erased, changers>>
    BY <1>1, OpensFacts
  <1>3. /\ known \in Copies /\ lacking \in Copies /\ Inventory(known) \in Inventories
        /\ frame.from \in Pages
    <2>1. known \in Copies
      BY DEF IInv, PageTypes
    <2>2. QED
      BY <1>1, <1>2, <2>1, MissingType, InventoryType, FrameFacts
  <1>4. out' = [out EXCEPT ![p] = Append(@, answer)]
    BY <1>1
  <1> HIDE DEF lacking, known
  <1>5. answer \in Frames
    BY <1>3 DEF Frames
  <1> HIDE DEF answer
  <1>6. out' \in [Pages -> Seq(Frames)]
    BY <1>4, <1>5 DEF IInv, WireTypes
  <1>7. WireTypes' /\ BoundTypes'
    BY <1>2, <1>6 DEF IInv, WireTypes, BoundTypes
  <1>8. PageTypes' /\ Kept'
    BY <1>1, <1>2, PagesStand DEF Ready
  <1>9. QED
    BY <1>7, <1>8 DEF IInv

LEMMA HearSyncKeeps ==
    ASSUME IInv, NEW p \in Pages, HearSync(p)
    PROVE  IInv'
  <1>1. PICK frame \in inbox[p] :
           /\ frame.type = "sync" /\ Opens(p, frame)
           /\ IF frame.to # p THEN UNCHANGED <<page, out>>
              ELSE /\ Applied(p, frame.elements)
                   /\ out' = [out EXCEPT ![p] = @ \o PatchOf(p, Missing(told'[p], frame.have))]
                   /\ UNCHANGED <<untold, saved>>
    BY DEF HearSync
  <1>2. /\ frame \in Frames /\ inbox' \in [Pages -> SUBSET Frames]
        /\ UNCHANGED <<saved, link, before, reading, board, edits, breaks, erased, changers>>
    BY <1>1, OpensFacts
  <1>3. CASE frame.to # p
    <2>1. PageTypes' /\ Kept'
      BY <1>1, <1>2, <1>3, PagesStand DEF Ready
    <2>2. QED
      BY <1>1, <1>2, <1>3, <2>1 DEF IInv, WireTypes, BoundTypes
  <1>4. CASE frame.to = p
    <2> DEFINE patch == frame.elements
               known == told'[p]
               lacking == Missing(known, frame.have)
               more == PatchOf(p, lacking)
    <2>1. patch \in Copies
      BY <1>1, <1>2, FrameFacts
    <2>2. /\ Applied(p, patch) /\ out' = [out EXCEPT ![p] = @ \o more]
          /\ UNCHANGED <<untold, saved, board, link>>
      BY <1>1, <1>2, <1>4
    <2> HIDE DEF patch
    <2>3. PageTypes' /\ Kept'
      BY <2>1, <2>2, AppliedKeeps
    <2>4. known \in Copies
      BY <2>3 DEF PageTypes
    <2> HIDE DEF known
    <2>5. more \in Seq(Frames)
      BY <2>4, MissingType, PatchOfType
    <2> HIDE DEF more
    <2>6. out' \in [Pages -> Seq(Frames)]
      BY <2>2, <2>5 DEF IInv, WireTypes
    <2>7. WireTypes' /\ BoundTypes'
      BY <1>2, <2>6 DEF IInv, WireTypes, BoundTypes
    <2>8. QED
      BY <2>3, <2>7 DEF IInv
  <1>5. QED
    BY <1>3, <1>4

LEMMA HearPatchKeeps ==
    ASSUME IInv, NEW p \in Pages, HearPatch(p)
    PROVE  IInv'
  <1>1. PICK frame \in inbox[p] :
           /\ frame.type = "patch" /\ Opens(p, frame)
           /\ Applied(p, frame.elements)
           /\ UNCHANGED <<out, untold, saved>>
    BY DEF HearPatch
  <1>2. /\ frame \in Frames /\ inbox' \in [Pages -> SUBSET Frames]
        /\ UNCHANGED <<saved, link, before, reading, board, edits, breaks, erased, changers>>
    BY <1>1, OpensFacts
  <1> DEFINE patch == frame.elements
  <1>3. patch \in Copies /\ Applied(p, patch)
    BY <1>1, <1>2, FrameFacts
  <1> HIDE DEF patch
  <1>4. PageTypes' /\ Kept'
    BY <1>1, <1>2, <1>3, AppliedKeeps
  <1>5. QED
    BY <1>1, <1>2, <1>4 DEF IInv, WireTypes, BoundTypes

(* catchUp: what was read of the board is taken as a patch of the room's is. *)
LEMMA ServedKeeps ==
    ASSUME IInv, NEW p \in Pages, Served(p)
    PROVE  IInv'
  <1>1. /\ reading' = [reading EXCEPT ![p] = board]
        /\ UNCHANGED <<page, link, before, out, inbox, board, edits, breaks, erased, changers>>
    BY DEF Served, bounds
  <1>2. WireTypes' /\ BoundTypes'
    BY <1>1 DEF IInv, PageTypes, WireTypes, BoundTypes
  <1>3. PageTypes' /\ Kept'
    BY <1>1, PagesStand DEF Ready
  <1>4. QED
    BY <1>2, <1>3 DEF IInv

LEMMA CaughtUpKeeps ==
    ASSUME IInv, NEW p \in Pages, CaughtUp(p)
    PROVE  IInv'
  <1> DEFINE patch == reading[p]
  <1>1. patch \in Copies
    BY DEF CaughtUp, IInv, WireTypes
  <1>2. /\ Applied(p, patch) /\ reading' = [reading EXCEPT ![p] = Nothing]
        /\ UNCHANGED <<untold, saved, link, before, out, inbox, board,
                       edits, breaks, erased, changers>>
    BY DEF CaughtUp, bounds
  <1> HIDE DEF patch
  <1>3. PageTypes' /\ Kept'
    BY <1>1, <1>2, AppliedKeeps
  <1>4. QED
    BY <1>2, <1>3 DEF IInv, WireTypes, BoundTypes

-----------------------------------------------------------------------------
LEMMA InitHolds == Init => IInv
  <1> SUFFICES ASSUME Init PROVE IInv
    OBVIOUS
  <1>1. PICK ids \in Boards : board = [id \in Ids |-> IF id \in ids THEN Drawn(0) ELSE Absent]
    BY Zenon DEF Init
  <1>2. PICK open \in (SUBSET Pages) \ {{}} :
          /\ link = [p \in Pages |-> IF p \in open THEN "ready" ELSE "closed"]
          /\ before = [p \in Pages |-> p \in open]
          /\ scene = [p \in Pages |-> IF p \in open THEN board ELSE None]
    BY Zenon DEF Init
  <1>3. /\ mirror = scene /\ told = scene /\ saved = scene
        /\ untold = Everyone({}) /\ unsaved = Everyone({})
        /\ out = Everyone(<<>>) /\ inbox = Everyone({}) /\ reading = Everyone(Nothing)
        /\ edits = 0 /\ breaks = 0 /\ fallen = {} /\ erased = {} /\ changers = [id \in Ids |-> {}]
    BY DEF Init
  <1>4. Drawn(0) \in Untimed /\ Drawn(0) # Absent /\ ~Drawn(0).isDeleted
    <2>1. Drawn(0) \in Element /\ Drawn(0).updated = 0 /\ ~Drawn(0).isDeleted
      BY DEF Drawn, Element
    <2>2. QED
      BY <2>1, ReconcileAssumption DEF Untimed
  <1>5. board \in Copies /\ None \in Copies
    BY <1>1, <1>4 DEF Copies, None, Untimed
  <1>6. Alive(board) /\ Alive(None)
    BY <1>1, <1>4 DEF Alive, None, LiveOf, IsLive
  <1>7. \A p \in Pages : scene[p] = board \/ scene[p] = None
    BY <1>2
  <1>8. /\ \A id \in Ids : Older(board[id], board[id])
        /\ \A id \in Ids : Older(None[id], None[id]) /\ Older(None[id], board[id])
    <2>1. \A id \in Ids : board[id] \in Entry
      BY <1>5, CopiesAreScenes
    <2>2. \A id \in Ids : None[id] = Absent
      BY DEF None
    <2>3. QED
      BY <2>1, <2>2, OlderIsReflexive DEF Older
  <1>9. PageTypes
    BY <1>2, <1>3, <1>5 DEF PageTypes, Everyone
  <1>10. WireTypes /\ BoundTypes
    BY <1>2, <1>3 DEF WireTypes, BoundTypes, Everyone
  <1>11. \A p \in Pages : Alive(mirror[p])
    BY <1>3, <1>6, <1>7
  <1>12. \A p \in Pages, id \in Ids : /\ Older(scene[p][id], board[id])
                                      /\ Older(scene[p][id], scene[p][id])
    <2>1. ASSUME NEW p \in Pages, NEW id \in Ids
          PROVE  Older(scene[p][id], board[id]) /\ Older(scene[p][id], scene[p][id])
      BY <1>7, <1>8
    <2>2. QED
      BY <2>1
  <1>13. \A p \in Pages : untold[p] = {}
    BY <1>3 DEF Everyone
  <1>14. Kept
    BY <1>3, <1>11, <1>12, <1>13
    DEF Kept, MirrorIsLive, SavedIsServed, SavedOrNoted, ToldOrNoted, Alive
  <1>15. QED
    BY <1>9, <1>10, <1>14 DEF IInv

LEMMA NextHolds == IInv /\ [Next]_vars => IInv'
  <1> SUFFICES ASSUME IInv, [Next]_vars PROVE IInv'
    OBVIOUS
  <1>1. CASE UNCHANGED vars
    BY <1>1 DEF vars, page, wire, bounds, IInv, PageTypes, WireTypes, BoundTypes, Kept,
                MirrorIsLive, SavedIsServed, SavedOrNoted, ToldOrNoted, Ready
  <1>2. CASE Next
    <2>1. PICK p \in Pages :
             \/ UserActs(p) \/ Save(p) \/ Open(p)
             \/ Join(p) \/ Relayed(p) \/ Drop(p)
             \/ Hears(p) \/ Served(p) \/ CaughtUp(p)
      BY <1>2 DEF Next
    <2>2. CASE Hears(p)
      BY <2>2, HearJoinKeeps, HearSyncKeeps, HearPatchKeeps DEF Hears
    <2>3. QED
      BY <2>1, <2>2, UserKeeps, SaveKeeps, OpenKeeps, JoinKeeps, RelayedKeeps, DropKeeps,
         ServedKeeps, CaughtUpKeeps
  <1>3. QED
    BY <1>1, <1>2

(* What a page has is on the server or noted for a save, and was told the   *)
(* room or is noted for a patch, which waits only while the link is down    *)
(* (DrawSurface.svelte, onSceneChange, applyRemote, catchUp).               *)
THEOREM PagesKeepTrack == Spec => []IInv
  <1>1. QED
    BY InitHolds, NextHolds, PTL DEF Spec

(* liveBroadcast.ts: a page that is linked has sent, or was sent, what its  *)
(* own copies hold, in that copy or a newer one.                            *)
THEOREM LinkedPagesTellAll ==
    Spec => [](\A p \in Pages, id \in Ids : Ready(p) => Older(mirror[p][id], told[p][id]))
  <1>1. IInv => \A p \in Pages, id \in Ids : Ready(p) => Older(mirror[p][id], told[p][id])
    BY DEF IInv, Kept, ToldOrNoted
  <1>2. QED
    BY <1>1, PagesKeepTrack, PTL

(* The page says "Saved" (DrawSurface.svelte): every save has landed, so    *)
(* the server has each element a page shows, or a newer copy of it.         *)
THEOREM EditsAlwaysReachBoard == Spec => []EditsReachBoard
  <1>1. IInv => EditsReachBoard
    <2> SUFFICES ASSUME IInv, AllSaved, NEW p \in Pages, NEW id \in Ids \ Shadowed(p),
                        LiveOf(scene[p], id)
                 PROVE  board[id] # Absent /\ ~IsNewer(scene[p][id], board[id])
      BY DEF EditsReachBoard
    <2>1. mirror[p][id] = scene[p][id]
      BY DEF Shadowed, Live
    <2>2. Older(mirror[p][id], board[id])
      BY DEF AllSaved, IInv, Kept, SavedOrNoted
    <2>3. QED
      BY <2>1, <2>2 DEF Older, LiveOf, IsLive
  <1>2. QED
    BY <1>1, PagesKeepTrack, PTL

-----------------------------------------------------------------------------
(* The room, one element at a time.  A copy is plain if edits made it.      *)
Plain ==
    {e \in Element : e.updated = 0 /\ ~e.isDeleted /\ e.picture = NoPicture} \cup {Absent}

(* An element nobody erased, and of which no page's copy fell behind.       *)
Sound(id) == id \notin erased /\ id \notin fallen

Sent(p) == Range(out[p])

(* Some page shows it, or a newer copy: nobody invents what users did not.  *)
Shown(x, id) == x \in Plain /\ \E r \in Pages : Older(x, scene[r][id])

(* The page's own copies keep up with its engine, and so does what it takes *)
(* the room and the server to know, but for what is noted.                  *)
FollowedBy(p, id) ==
    /\ scene[p][id] \in Plain
    /\ mirror[p][id] = scene[p][id]
    /\ told[p][id] \in Plain /\ Older(told[p][id], scene[p][id])
    /\ id \in untold[p] \/ told[p][id] = scene[p][id]
    /\ saved[p][id] \in Plain /\ Older(saved[p][id], scene[p][id])
    /\ link[p] = "closed" => scene[p][id] = Absent /\ reading[p] = Nothing

(* The stamp, of an inventory, is not above a copy's. *)
StampUpTo(stamp, x) ==
    \/ stamp = Absent
    \/ /\ x # Absent
       /\ ~(\/ stamp[1] > x.version
            \/ stamp[1] = x.version /\ stamp[2] > x.versionNonce)

(* A frame says no more of the element than its sender has. *)
Says(frame, id, x) ==
    /\ frame.type \in {"patch", "sync"} =>
          frame.elements[id] \in Plain /\ Older(frame.elements[id], x)
    /\ frame.type \in {"join", "sync"} => StampUpTo(frame.have[id], x)

Honest(id) ==
    /\ Shown(board[id], id)
    /\ \A p \in Pages : FollowedBy(p, id)
    /\ \A p \in Pages : reading[p] \notin {Nothing, Asked} => Shown(reading[p][id], id)
    /\ \A p \in Pages : \A f \in Sent(p) : f.from = p /\ Says(f, id, scene[p][id])
    /\ \A p \in Pages : \A f \in inbox[p] : Says(f, id, scene[f.from][id])

HasIt(a, id, x) == Older(x, scene[a][id])

(* The frame brings page q the copy, or gets its sender asked for it. *)
Comes(frame, q, id, x) ==
    \/ /\ frame.type = "patch" \/ (frame.type = "sync" /\ frame.to = q)
       /\ Older(x, frame.elements[id])
    \/ frame.type = "join" /\ HasIt(frame.from, id, x)

(* Page a is told what page q has, and answers with what q lacks. *)
AsksFor(frame, q, a) ==
    /\ frame.from = q
    /\ frame.type = "join" \/ (frame.type = "sync" /\ frame.to = a)

(* A copy page q lacks is with a page that has yet to join, or comes in a   *)
(* frame, or is asked for by one.                                           *)
OnItsWay(q, id, x) ==
    \/ \E a \in Pages : ~Ready(a) /\ HasIt(a, id, x)
    \/ \E f \in inbox[q] : Comes(f, q, id, x)
    \/ \E a \in Pages \ {q} : Ready(a) /\ \E f \in Sent(a) : Comes(f, q, id, x)
    \/ \E f \in Sent(q) : \/ f.type = "join"
                          \/ f.type = "sync" /\ f.to # q /\ HasIt(f.to, id, x)
    \/ \E a \in Pages \ {q} : /\ Ready(a) /\ HasIt(a, id, x)
                              /\ \E f \in inbox[a] : AsksFor(f, q, a)

NothingStuck(id) ==
    \A q, r \in Pages :
        Ready(q) /\ ~Older(scene[r][id], scene[q][id]) => OnItsWay(q, id, scene[r][id])

SoundKept == \A id \in Ids : Sound(id) => Honest(id) /\ NothingStuck(id)

LEMMA PlainOrder ==
    /\ Absent \in Plain
    /\ \A x \in Plain : x # Absent => x \in Element
    /\ \A x \in Plain : x \in Untimed /\ x \in Entry
    /\ \A x \in Plain : Older(x, x) /\ Older(Absent, x) /\ (Older(x, Absent) => x = Absent)
    /\ \A x, y \in Plain : Older(x, y) /\ Older(y, x) => x = y
    /\ \A x, y \in Plain : Older(x, y) \/ Older(y, x)
    /\ \A x, y, z \in Plain : Older(x, y) /\ Older(y, z) => Older(x, z)
  <1>1. \A x \in Plain : x \in Untimed /\ x \in Entry /\ (x # Absent => x \in Element)
    BY DEF Plain, Untimed, Entry
  <1>2. Absent \in Plain
    BY DEF Plain
  <1>3. \A x \in Plain : Older(x, x)
    BY <1>1, OlderIsReflexive
  <1>4. \A x, y, z \in Plain : Older(x, y) /\ Older(y, z) => Older(x, z)
    BY <1>1, OlderIsTransitive
  <1>5. \A x \in Plain : Older(Absent, x) /\ (Older(x, Absent) => x = Absent)
    BY DEF Older
  <1>6. ASSUME NEW x \in Plain, NEW y \in Plain
        PROVE  Older(x, y) \/ Older(y, x)
    BY <1>1, NewerIsAsymmetric DEF Older
  <1>7. ASSUME NEW x \in Plain, NEW y \in Plain, Older(x, y), Older(y, x)
        PROVE  x = y
    <2>1. CASE x = Absent \/ y = Absent
      BY <1>7, <2>1 DEF Older
    <2>2. CASE x # Absent /\ y # Absent
      <3>1. x \in Element /\ y \in Element /\ ~IsNewer(x, y) /\ ~IsNewer(y, x)
        BY <1>1, <1>7, <2>2 DEF Older
      <3>2. /\ x.updated = 0 /\ ~x.isDeleted /\ x.picture = NoPicture
            /\ y.updated = 0 /\ ~y.isDeleted /\ y.picture = NoPicture
        BY <2>2 DEF Plain
      <3>3. x.version = y.version /\ x.versionNonce = y.versionNonce
        BY <3>1 DEF IsNewer, Element
      <3>4. QED
        BY <3>1, <3>2, <3>3 DEF Element
    <2>3. QED
      BY <2>1, <2>2
  <1>8. QED
    BY <1>1, <1>2, <1>3, <1>4, <1>5, <1>6, <1>7

LEMMA StampGrows ==
    ASSUME NEW stamp \in (Nat \X Nat) \cup {Absent}, NEW x \in Plain, NEW y \in Plain,
           StampUpTo(stamp, x), Older(x, y)
    PROVE  StampUpTo(stamp, y)
  <1>1. CASE stamp = Absent
    BY <1>1 DEF StampUpTo
  <1>2. CASE stamp # Absent
    <2>1. x # Absent /\ y # Absent /\ ~IsNewer(x, y)
      BY <1>2 DEF StampUpTo, Older
    <2>2. x \in Element /\ y \in Element
      BY <2>1, PlainOrder
    <2>3. stamp[1] \in Nat /\ stamp[2] \in Nat
      BY <1>2
    <2>4. QED
      BY <1>2, <2>1, <2>2, <2>3 DEF StampUpTo, IsNewer, Element
  <1>3. QED
    BY <1>1, <1>2

(* inventory(): of what a page has, the stamp. *)
LEMMA OwnStamp ==
    ASSUME NEW known \in Copies, NEW id \in Ids, known[id] \in Plain
    PROVE  StampUpTo(Inventory(known)[id], known[id])
  <1>1. CASE known[id] = Absent
    BY <1>1 DEF Inventory, StampUpTo
  <1>2. CASE known[id] # Absent
    <2>1. known[id] \in Element
      BY <1>2, PlainOrder
    <2>2. Inventory(known)[id] = <<known[id].version, known[id].versionNonce>>
      BY <1>2 DEF Inventory
    <2>3. QED
      BY <1>2, <2>1, <2>2 DEF StampUpTo, Element
  <1>3. QED
    BY <1>1, <1>2

(* missing(): what is newer than all a page has is sent to it, and nothing  *)
(* but what is known is.                                                    *)
LEMMA MissingFacts ==
    ASSUME NEW known \in Copies, NEW have \in Inventories, NEW id \in Ids, known[id] \in Plain
    PROVE  /\ Missing(known, have)[id] \in {Absent, known[id]}
           /\ \A y \in Plain : StampUpTo(have[id], y) /\ ~Older(known[id], y) =>
                 Missing(known, have)[id] = known[id]
  <1>1. Missing(known, have)[id] \in {Absent, known[id]}
    BY DEF Missing
  <1>2. ASSUME NEW y \in Plain, StampUpTo(have[id], y), ~Older(known[id], y)
        PROVE  Missing(known, have)[id] = known[id]
    <2>1. known[id] # Absent
      BY <1>2 DEF Older
    <2>2. known[id] \in Element /\ ~known[id].isDeleted
      BY <2>1 DEF Plain
    <2>3. CASE have[id] = Absent
      BY <2>1, <2>2, <2>3 DEF Missing
    <2>4. CASE have[id] # Absent
      <3>1. have[id] \in Nat \X Nat
        BY <2>4 DEF Inventories
      <3>2. have[id][1] \in Nat /\ have[id][2] \in Nat
        BY <3>1
      <3>3. y # Absent /\ IsNewer(known[id], y)
        BY <1>2, <2>1, <2>4 DEF StampUpTo, Older
      <3>4. y \in Element /\ y.updated = 0 /\ known[id].updated = 0
        BY <2>1, <3>3 DEF Plain
      <3>5. \/ have[id][1] < known[id].version
            \/ have[id][1] = known[id].version /\ have[id][2] < known[id].versionNonce
        BY <1>2, <2>2, <2>4, <3>2, <3>3, <3>4 DEF StampUpTo, IsNewer, Element
      <3>6. QED
        BY <2>1, <2>4, <3>5 DEF Missing, Behind
    <2>5. QED
      BY <2>3, <2>4
  <1>3. QED
    BY <1>1, <1>2

(* Of an element nobody erased, a tracker has the page's copy to say, or    *)
(* knows it already.                                                        *)
LEMMA PlainChange ==
    ASSUME NEW known \in Copies, NEW elements \in Copies, NEW noted \in SUBSET Ids,
           NEW nonce \in Nat, NEW id \in Ids,
           known[id] \in Plain, elements[id] \in Plain, Older(known[id], elements[id])
    PROVE  LET patch == Changes(known, noted, elements, nonce)
           IN  /\ patch[id] \in {Absent, elements[id]}
               /\ id \notin noted => patch[id] = Absent
               /\ id \in noted => patch[id] = elements[id] \/ known[id] = elements[id]
  <1> DEFINE x == known[id]
             y == elements[id]
             change == Change([known |-> known], elements, id, nonce)
  <1>1. Changes(known, noted, elements, nonce)[id] = IF id \in noted THEN change ELSE Absent
    BY DEF Changes
  <1>2. change \in {Absent, y} /\ (change = y \/ x = y)
    <2>1. CASE y = Absent
      <3>1. x = Absent
        BY <2>1 DEF Older
      <3>2. QED
        BY <2>1, <3>1 DEF Change, LiveOf, IsLive
    <2>2. CASE y # Absent
      <3>1. y \in Element /\ y.updated = 0 /\ ~y.isDeleted /\ y.picture = NoPicture
        BY <2>2 DEF Plain
      <3>2. change = ChangeOf([known |-> known], y, id, nonce)
        BY <2>2, <3>1 DEF Change, LiveOf, IsLive
      <3>3. CASE x = Absent
        BY <3>2, <3>3 DEF ChangeOf
      <3>4. CASE x # Absent
        <4>1. x \in Element /\ x.updated = 0 /\ ~x.isDeleted /\ x.picture = NoPicture
          BY <3>4 DEF Plain
        <4>2. change = IF SameStamp(x, y) THEN Absent ELSE y
          BY <3>2, <3>4, <4>1 DEF ChangeOf
        <4>3. SameStamp(x, y) => x = y
          BY <3>1, <4>1 DEF SameStamp, Element
        <4>4. QED
          BY <4>2, <4>3
      <3>5. QED
        BY <3>3, <3>4
    <2>3. QED
      BY <2>1, <2>2
  <1>3. QED
    BY <1>1, <1>2

LEMMA SaysMore ==
    ASSUME NEW f \in Frames, NEW id \in Ids, NEW x \in Plain, NEW y \in Plain,
           Says(f, id, x), Older(x, y)
    PROVE  Says(f, id, y)
  <1>1. f.type \in {"join", "sync"} => f.have[id] \in (Nat \X Nat) \cup {Absent}
    BY DEF Frames, Inventories
  <1>2. f.type \in {"join", "sync"} => StampUpTo(f.have[id], y)
    BY <1>1, StampGrows DEF Says
  <1>3. f.type \in {"patch", "sync"} =>
          f.elements[id] \in Plain /\ Older(f.elements[id], y)
    BY PlainOrder DEF Says
  <1>4. QED
    BY <1>2, <1>3 DEF Says

LEMMA FramesAre ==
    ASSUME IInv, NEW p \in Pages
    PROVE  Sent(p) \subseteq Frames /\ inbox[p] \subseteq Frames
  <1>1. out[p] \in Seq(Frames) /\ inbox[p] \subseteq Frames
    BY DEF IInv, WireTypes
  <1>2. QED
    BY <1>1 DEF Sent, Range

(* The element on every page is as new as before, or newer.                 *)
Grows(id) == \A r \in Pages : scene'[r][id] \in Plain /\ Older(scene[r][id], scene'[r][id])

(* What a step keeps: whoever says or shows something new of an element     *)
(* has it from a page.                                                      *)
LEMMA HonestStep ==
    ASSUME IInv, IInv', NEW id \in Ids, Honest(id), Grows(id), Shown(board'[id], id),
           \A p \in Pages : FollowedBy(p, id)',
           \A p \in Pages : reading'[p] \in {reading[p], Nothing, Asked, board},
           \A p \in Pages : \A f \in Sent(p)' :
              f \in Sent(p) \/ (f.from = p /\ Says(f, id, scene'[p][id])),
           \A p \in Pages : \A f \in inbox'[p] : f \in inbox[p] \/ \E a \in Pages : f \in Sent(a)
    PROVE  Honest(id)'
  <1>1. \A r \in Pages : scene[r][id] \in Plain /\ scene'[r][id] \in Plain
    BY DEF Honest, FollowedBy, Grows
  <1>2. ASSUME NEW x, Shown(x, id)
        PROVE  x \in Plain /\ \E r \in Pages : Older(x, scene'[r][id])
    <2>1. PICK r \in Pages : Older(x, scene[r][id])
      BY <1>2 DEF Shown
    <2>2. x \in Plain
      BY <1>2 DEF Shown
    <2>3. Older(x, scene'[r][id])
      BY <1>1, <2>1, <2>2, PlainOrder DEF Grows
    <2>4. QED
      BY <2>2, <2>3
  <1>3. Shown(board[id], id)'
    BY <1>2 DEF Shown
  <1>4. ASSUME NEW p \in Pages, reading'[p] \notin {Nothing, Asked}
        PROVE  Shown(reading[p][id], id)'
    <2>1. Shown(reading'[p][id], id)
      BY <1>4 DEF Honest
    <2>2. QED
      BY <1>2, <2>1 DEF Shown
  <1>5. ASSUME NEW f \in Frames, NEW r \in Pages, Says(f, id, scene[r][id])
        PROVE  Says(f, id, scene'[r][id])
    BY <1>1, <1>5, SaysMore DEF Grows
  <1>6. ASSUME NEW p \in Pages, NEW f \in Sent(p)'
        PROVE  f.from = p /\ Says(f, id, scene'[p][id])
    <2>1. CASE f \in Sent(p)
      <3>1. f \in Frames /\ f.from = p /\ Says(f, id, scene[p][id])
        BY <2>1, FramesAre DEF Honest
      <3>2. QED
        BY <3>1, <1>5
    <2>2. QED
      BY <2>1
  <1>7. ASSUME NEW p \in Pages, NEW f \in inbox'[p]
        PROVE  Says(f, id, scene'[f.from][id])
    <2>1. f \in Frames /\ f.from \in Pages /\ Says(f, id, scene[f.from][id])
      <3>1. CASE f \in inbox[p]
        BY <3>1, FramesAre DEF Honest, Frames
      <3>2. CASE \E a \in Pages : f \in Sent(a)
        BY <3>2, FramesAre DEF Honest, Frames
      <3>3. QED
        BY <3>1, <3>2
    <2>2. QED
      BY <2>1, <1>5
  <1>8. QED
    BY <1>3, <1>4, <1>6, <1>7 DEF Honest, Says

(* A copy that is on its way somewhere is there as well, if it was not.     *)
Carried(id) ==
    \A q, s \in Pages, y \in Plain :
        (/\ y = scene[s][id] /\ Ready(q)' /\ ~Older(y, scene'[q][id])
         /\ Ready(q) => OnItsWay(q, id, y))
        => OnItsWay(q, id, y)'

LEMMA WayOfOlder ==
    ASSUME IInv', NEW q \in Pages, NEW id \in Ids, NEW x \in Plain, NEW y \in Plain,
           Honest(id)', OnItsWay(q, id, y)', Older(x, y)
    PROVE  OnItsWay(q, id, x)'
  <1>1. \A a \in Pages : HasIt(a, id, y)' => HasIt(a, id, x)'
    <2>1. \A a \in Pages : scene'[a][id] \in Plain
      BY DEF Honest, FollowedBy
    <2>2. QED
      BY <2>1, PlainOrder DEF HasIt
  <1>2. \A f \in Frames : f.type = "join" \/ f.type = "sync" => f.from \in Pages
    BY DEF Frames
  <1>3. \A f \in Frames : f.type = "sync" => f.to \in Pages
    BY DEF Frames
  <1>4. \A a \in Pages : Range(out'[a]) \subseteq Frames /\ inbox'[a] \subseteq Frames
    <2>1. \A a \in Pages : out'[a] \in Seq(Frames) /\ inbox'[a] \subseteq Frames
      BY DEF IInv, WireTypes
    <2>2. QED
      BY <2>1 DEF Range
  <1>5. ASSUME NEW f \in Frames, Comes(f, q, id, y)', 
               f.type \in {"patch", "sync"} => f.elements[id] \in Plain
        PROVE  Comes(f, q, id, x)'
    BY <1>1, <1>2, <1>5, PlainOrder DEF Comes
  <1>6. \A a \in Pages : \A f \in Range(out'[a]) \cup inbox'[a] :
            f.type \in {"patch", "sync"} => f.elements[id] \in Plain
    BY DEF Honest, Says, Sent
  <1>7. CASE (\E f \in inbox[q] : Comes(f, q, id, y))'
    BY <1>4, <1>5, <1>6, <1>7 DEF OnItsWay
  <1>8. CASE (\E a \in Pages \ {q} : Ready(a) /\ \E f \in Sent(a) : Comes(f, q, id, y))'
    BY <1>4, <1>5, <1>6, <1>8 DEF OnItsWay, Sent
  <1>9. CASE (\E f \in Sent(q) : \/ f.type = "join"
                                 \/ f.type = "sync" /\ f.to # q /\ HasIt(f.to, id, y))'
    BY <1>1, <1>3, <1>4, <1>9 DEF OnItsWay, Sent
  <1>10. CASE (\E a \in Pages : ~Ready(a) /\ HasIt(a, id, y))'
    BY <1>1, <1>10 DEF OnItsWay
  <1>11. CASE (\E a \in Pages \ {q} : /\ Ready(a) /\ HasIt(a, id, y)
                                      /\ \E f \in inbox[a] : AsksFor(f, q, a))'
    BY <1>1, <1>11 DEF OnItsWay
  <1>12. QED
    BY <1>7, <1>8, <1>9, <1>10, <1>11 DEF OnItsWay

(* When no page shows anything newer than some page did, and all that was   *)
(* on its way is, nothing is stuck.                                         *)
LEMMA StuckStep ==
    ASSUME IInv', NEW id \in Ids, Honest(id), Honest(id)', NothingStuck(id), Grows(id),
           Carried(id),
           \A q, r \in Pages :
              \/ \E s \in Pages : Older(scene'[r][id], scene[s][id])
              \/ Ready(q)' /\ ~Older(scene'[r][id], scene'[q][id])
                    => OnItsWay(q, id, scene[r][id])'
    PROVE  NothingStuck(id)'
  <1> SUFFICES ASSUME NEW q \in Pages, NEW r \in Pages, NEW x, x = scene'[r][id],
                      Ready(q)', ~Older(x, scene'[q][id])
               PROVE  OnItsWay(q, id, x)'
    BY DEF NothingStuck
  <1>1. CASE \E s \in Pages : Older(x, scene[s][id])
    <2>1. PICK s \in Pages : Older(x, scene[s][id])
      BY <1>1
    <2>2. PICK y : y = scene[s][id]
      OBVIOUS
    <2>3. /\ x \in Plain /\ y \in Plain /\ scene[q][id] \in Plain /\ scene'[q][id] \in Plain
          /\ Older(scene[q][id], scene'[q][id]) /\ Older(x, y)
      BY <2>1, <2>2 DEF Honest, FollowedBy, Grows
    <2>4. ~Older(y, scene'[q][id]) /\ ~Older(y, scene[q][id])
      BY <2>3, PlainOrder
    <2>5. Ready(q) => OnItsWay(q, id, y)
      BY <2>2, <2>4 DEF NothingStuck
    <2>6. OnItsWay(q, id, y)'
      BY <2>2, <2>3, <2>4, <2>5 DEF Carried
    <2>7. QED
      BY <2>3, <2>6, WayOfOlder
  <1>2. CASE OnItsWay(q, id, scene[r][id])'
    BY <1>2
  <1>3. QED
    BY <1>1, <1>2

(* Nothing was lost or consumed: what was on its way still is.              *)
LEMMA CarriedOn ==
    ASSUME IInv, IInv', NEW id \in Ids, Honest(id), Grows(id),
           \A a \in Pages : Ready(a)' <=> Ready(a),
           \A a \in Pages : Sent(a) \subseteq Sent(a)' /\ inbox[a] \subseteq inbox'[a]
    PROVE  Carried(id)
  <1> SUFFICES ASSUME NEW q \in Pages, NEW y \in Plain, OnItsWay(q, id, y)
               PROVE  OnItsWay(q, id, y)'
    BY DEF Carried
  <1>1. \A a \in Pages : HasIt(a, id, y) => HasIt(a, id, y)'
    <2>1. \A a \in Pages : /\ scene[a][id] \in Plain /\ scene'[a][id] \in Plain
                           /\ Older(scene[a][id], scene'[a][id])
      BY DEF Honest, FollowedBy, Grows
    <2>2. QED
      BY <2>1, PlainOrder DEF HasIt
  <1>2. \A a \in Pages : Sent(a) \subseteq Frames /\ inbox[a] \subseteq Frames
    BY FramesAre
  <1>3. \A f \in Frames : /\ f.type \in {"join", "sync"} => f.from \in Pages
                          /\ f.type = "sync" => f.to \in Pages
    BY DEF Frames
  <1>4. ASSUME NEW f \in Frames, Comes(f, q, id, y)
        PROVE  Comes(f, q, id, y)'
    BY <1>1, <1>3, <1>4 DEF Comes
  <1>5. CASE \E f \in inbox[q] : Comes(f, q, id, y)
    BY <1>2, <1>4, <1>5 DEF OnItsWay
  <1>6. CASE \E a \in Pages \ {q} : Ready(a) /\ \E f \in Sent(a) : Comes(f, q, id, y)
    BY <1>2, <1>4, <1>6 DEF OnItsWay
  <1>7. CASE \E f \in Sent(q) : \/ f.type = "join"
                                \/ f.type = "sync" /\ f.to # q /\ HasIt(f.to, id, y)
    BY <1>1, <1>2, <1>3, <1>7 DEF OnItsWay
  <1>8. CASE \E a \in Pages : ~Ready(a) /\ HasIt(a, id, y)
    BY <1>1, <1>8 DEF OnItsWay
  <1>9. CASE \E a \in Pages \ {q} : /\ Ready(a) /\ HasIt(a, id, y)
                                    /\ \E f \in inbox[a] : AsksFor(f, q, a)
    BY <1>1, <1>9 DEF OnItsWay, AsksFor
  <1>10. QED
    BY <1>5, <1>6, <1>7, <1>8, <1>9 DEF OnItsWay

-----------------------------------------------------------------------------
(* The frames a page has yet to send, as a set. *)
LEMMA RangeOfOne == ASSUME NEW f PROVE Range(<<f>>) = {f}
  <1>1. DOMAIN <<f>> = {1} /\ <<f>>[1] = f
    OBVIOUS
  <1>2. QED
    BY <1>1, Zenon DEF Range

LEMMA RangeOfBoth ==
    ASSUME NEW S, NEW s \in Seq(S), NEW t \in Seq(S)
    PROVE  s \o t \in Seq(S) /\ Range(s \o t) = Range(s) \cup Range(t)
  BY RangeConcatenation, ConcatProperties

LEMMA RangeOfTail ==
    ASSUME NEW S, NEW s \in Seq(S), s # <<>>
    PROVE  Range(s) = {Head(s)} \cup Range(Tail(s))
  <1> DEFINE head == Head(s)
             tail == Tail(s)
  <1>1. /\ tail \in Seq(S) /\ Len(tail) = Len(s) - 1 /\ Len(s) \in Nat /\ Len(s) # 0
        /\ head = s[1]
        /\ \A i \in 1..Len(tail) : tail[i] = s[i + 1]
    BY HeadTailProperties, LenProperties, EmptySeq
  <1>2. DOMAIN s = 1..Len(s) /\ DOMAIN tail = 1..Len(tail)
    BY <1>1, LenProperties
  <1> HIDE DEF head, tail
  <1>3. \A i \in 1..Len(s) : s[i] \in {head} \cup Range(tail)
    <2>1. ASSUME NEW i \in 1..Len(s), i # 1
          PROVE  s[i] \in Range(tail)
      <3>1. i - 1 \in 1..Len(tail) /\ s[i] = tail[i - 1]
        BY <1>1, <2>1
      <3>2. QED
        BY <1>2, <3>1 DEF Range
    <2>2. QED
      BY <1>1, <2>1
  <1>4. \A i \in 1..Len(tail) : tail[i] \in Range(s)
    <2>1. ASSUME NEW i \in 1..Len(tail)
          PROVE  tail[i] \in Range(s)
      <3>1. i + 1 \in 1..Len(s) /\ tail[i] = s[i + 1]
        BY <1>1, <2>1
      <3>2. QED
        BY <1>2, <3>1 DEF Range
    <2>2. QED
      BY <2>1
  <1>5. head \in Range(s)
    <2>1. 1 \in 1..Len(s)
      BY <1>1
    <2>2. QED
      BY <1>1, <1>2, <2>1 DEF Range
  <1>6. QED
    BY <1>2, <1>3, <1>4, <1>5 DEF Range, head, tail

LEMMA RangeOfPatch ==
    ASSUME NEW p \in Pages, NEW patch \in Copies
    PROVE  /\ PatchOf(p, patch) \in Seq(Frames)
           /\ \A f \in Range(PatchOf(p, patch)) : f = PatchFrame(p, patch)
           /\ \A id \in Ids : patch[id] # Absent => PatchFrame(p, patch) \in Range(PatchOf(p, patch))
  <1>1. PatchOf(p, patch) \in Seq(Frames)
    BY PatchOfType
  <1>2. CASE patch = None
    <2>1. PatchOf(p, patch) = <<>>
      BY <1>2 DEF PatchOf
    <2>2. Range(PatchOf(p, patch)) = {}
      BY <2>1, EmptyRange
    <2>3. \A id \in Ids : patch[id] = Absent
      BY <1>2 DEF None
    <2>4. QED
      BY <1>1, <2>2, <2>3
  <1>3. CASE patch # None
    <2>1. PatchOf(p, patch) = <<PatchFrame(p, patch)>>
      BY <1>3 DEF PatchOf
    <2>2. Range(PatchOf(p, patch)) = {PatchFrame(p, patch)}
      BY <2>1, RangeOfOne
    <2>3. QED
      BY <1>1, <2>2
  <1>4. QED
    BY <1>2, <1>3

(* A page puts frames behind those it has yet to send. *)
LEMMA SendsMore ==
    ASSUME IInv, NEW p \in Pages, NEW more \in Seq(Frames), out' = [out EXCEPT ![p] = @ \o more]
    PROVE  /\ Sent(p)' = Sent(p) \cup Range(more)
           /\ \A q \in Pages \ {p} : Sent(q)' = Sent(q)
  <1>1. out \in [Pages -> Seq(Frames)]
    BY DEF IInv, WireTypes
  <1>2. out'[p] = out[p] \o more /\ \A q \in Pages \ {p} : out'[q] = out[q]
    BY <1>1
  <1>3. Range(out[p] \o more) = Range(out[p]) \cup Range(more)
    BY <1>1, RangeOfBoth
  <1>4. QED
    BY <1>2, <1>3 DEF Sent

-----------------------------------------------------------------------------
(* Each step, for one element that is sound still. *)
LEMMA SameFollowed ==
    ASSUME NEW q \in Pages, NEW id \in Ids, FollowedBy(q, id),
           scene'[q][id] = scene[q][id], mirror'[q][id] = mirror[q][id],
           told'[q][id] = told[q][id], saved'[q][id] = saved[q][id],
           id \in untold[q] => id \in untold'[q],
           link'[q] = "closed" => link[q] = "closed" /\ reading'[q] = reading[q]
    PROVE  FollowedBy(q, id)'
  BY DEF FollowedBy

LEMMA SameGrows ==
    ASSUME NEW id \in Ids, Honest(id), \A r \in Pages : scene'[r][id] = scene[r][id]
    PROVE  /\ Grows(id)
           /\ \A r \in Pages : \E s \in Pages : Older(scene'[r][id], scene[s][id])
  <1>1. \A r \in Pages : scene[r][id] \in Plain
    BY DEF Honest, FollowedBy
  <1>2. QED
    BY <1>1, PlainOrder DEF Grows

(* The engine took what is newer of what some page shows: since the page's  *)
(* copy did not fall behind, it is that of the engine.                      *)
LEMMA AppliedSound ==
    ASSUME IInv, NEW p \in Pages, NEW patch \in Copies, NEW id \in Ids, Honest(id),
           id \notin fallen', Shown(patch[id], id), Applied(p, patch),
           UNCHANGED <<untold, saved, link>>, link[p] # "closed",
           \A q \in Pages : reading'[q] \in {reading[q], Nothing}
    PROVE  /\ Grows(id) /\ \A q \in Pages : FollowedBy(q, id)'
           /\ \A r \in Pages : \E s \in Pages : Older(scene'[r][id], scene[s][id])
           /\ Older(patch[id], scene'[p][id])
  <1>1. patch[id] \in Plain /\ \A q \in Pages : FollowedBy(q, id) /\ scene[q][id] \in Plain
    BY DEF Honest, FollowedBy, Shown
  <1>2. CASE ~AppliesTo(p, patch)
    <2>1. UNCHANGED <<scene, mirror, told>>
      BY <1>2 DEF Applied
    <2>2. Older(patch[id], scene[p][id])
      BY <1>2 DEF AppliesTo, Takes, Older
    <2>3. \A q \in Pages : FollowedBy(q, id)'
      BY <1>1, <2>1 DEF FollowedBy
    <2>4. QED
      BY <2>1, <2>2, <2>3, SameGrows
  <1>3. CASE AppliesTo(p, patch)
    <2>1. /\ scene' = [scene EXCEPT ![p] = Merge(@, patch)]
          /\ mirror' = [mirror EXCEPT ![p] = Live(Over(@, patch))]
          /\ told' = [told EXCEPT ![p] = Over(@, patch)]
          /\ fallen' = fallen \cup {i \in Ids : mirror'[p][i] # Live(scene'[p])[i]}
      BY <1>3 DEF Applied
    <2> DEFINE s == scene[p]
               m == mirror[p]
               k == told[p]
               new == Merge(s, patch)
               now == Over(m, patch)
               kn == Over(k, patch)
    <2>2. s \in Copies /\ m \in Copies /\ k \in Copies
      BY DEF IInv, PageTypes
    <2>3. scene'[p] = new /\ mirror'[p] = Live(now) /\ told'[p] = kn
      BY <2>1 DEF IInv, PageTypes
    <2>4. \A q \in Pages \ {p} : scene'[q] = scene[q] /\ mirror'[q] = mirror[q] /\ told'[q] = told[q]
      BY <2>1 DEF IInv, PageTypes
    <2>5. new[id] = IF Takes(patch[id], s[id]) THEN patch[id] ELSE s[id]
      BY DEF Merge
    <2>6. /\ now[id] = IF patch[id] = Absent THEN m[id] ELSE patch[id]
          /\ kn[id] = IF patch[id] = Absent THEN k[id] ELSE patch[id]
      BY <2>2, OverFacts
    <2>7. Live(now)[id] = Live(new)[id]
      BY <2>1, <2>3
    <2> HIDE DEF new, now, kn
    <2>8. new[id] \in Plain /\ now[id] \in Plain
      BY <1>1, <2>5, <2>6 DEF FollowedBy
    <2>9. \A t \in {new, now} : Live(t)[id] = t[id]
      BY <2>8 DEF Live, LiveOf, IsLive, Plain
    <2>10. now[id] = new[id]
      BY <2>7, <2>9
    <2>11. Older(s[id], new[id]) /\ Older(patch[id], new[id])
      <3>1. Older(s[id], s[id]) /\ Older(patch[id], patch[id])
        BY <1>1, PlainOrder
      <3>2. CASE Takes(patch[id], s[id])
        <4>1. ~Older(patch[id], s[id])
          BY <3>2 DEF Takes, Older
        <4>2. QED
          BY <1>1, <2>5, <3>1, <3>2, <4>1, PlainOrder
      <3>3. CASE ~Takes(patch[id], s[id])
        BY <2>5, <3>1, <3>3 DEF Takes, Older
      <3>4. QED
        BY <3>2, <3>3
    <2>12. FollowedBy(p, id)'
      <3>1. FollowedBy(p, id)
        BY <1>1
      <3>2. kn[id] \in Plain /\ Older(kn[id], new[id]) /\ (id \in untold[p] \/ kn[id] = new[id])
        <4>1. CASE patch[id] = Absent
          <5>1. new[id] = s[id]
            BY <2>5, <4>1 DEF Takes
          <5>2. QED
            BY <2>6, <3>1, <4>1, <5>1 DEF FollowedBy
        <4>2. CASE patch[id] # Absent
          BY <1>1, <2>6, <2>10, <2>11, <4>2
        <4>3. QED
          BY <4>1, <4>2
      <3>3. saved[p][id] \in Plain /\ Older(saved[p][id], new[id])
        BY <1>1, <2>8, <2>11, <3>1, PlainOrder DEF FollowedBy
      <3>4. QED
        BY <2>3, <2>8, <2>9, <2>10, <3>2, <3>3 DEF FollowedBy
    <2>13. Grows(id)
      BY <1>1, <2>3, <2>4, <2>8, <2>11, PlainOrder DEF Grows
    <2>14. \A q \in Pages \ {p} : FollowedBy(q, id)'
      <3>1. \A q \in Pages : link'[q] = "closed" /\ FollowedBy(q, id) => reading'[q] = reading[q]
        BY DEF FollowedBy
      <3>2. QED
        BY <1>1, <2>4, <3>1, SameFollowed
    <2>15. ASSUME NEW r \in Pages
           PROVE  \E q \in Pages : Older(scene'[r][id], scene[q][id])
      <3>1. CASE r # p
        BY <1>1, <2>4, <3>1, PlainOrder
      <3>2. CASE r = p
        <4>1. PICK q \in Pages : Older(patch[id], scene[q][id])
          BY DEF Shown
        <4>2. Older(s[id], s[id])
          BY <1>1, PlainOrder
        <4>3. QED
          BY <2>3, <2>5, <3>2, <4>1, <4>2
      <3>3. QED
        BY <3>1, <3>2
    <2>16. QED
      BY <2>3, <2>11, <2>12, <2>13, <2>14, <2>15
  <1>4. QED
    BY <1>2, <1>3

(* No frame moves, no link comes or goes. *)
LEMMA StillSound ==
    ASSUME IInv, IInv', NEW id \in Ids, Honest(id), NothingStuck(id), Grows(id),
           \A r \in Pages : \E s \in Pages : Older(scene'[r][id], scene[s][id]),
           \A p \in Pages : FollowedBy(p, id)', Shown(board'[id], id),
           \A p \in Pages : reading'[p] \in {reading[p], Nothing, Asked, board},
           \A p \in Pages : Ready(p)' <=> Ready(p), UNCHANGED <<out, inbox>>
    PROVE  Honest(id)' /\ NothingStuck(id)'
  <1>1. \A p \in Pages : Sent(p)' = Sent(p)
    BY DEF Sent
  <1>2. Honest(id)'
    <2>1. \A p \in Pages : \A f \in Sent(p)' :
              f \in Sent(p) \/ (f.from = p /\ Says(f, id, scene'[p][id]))
      <3>1. ASSUME NEW p \in Pages, NEW f \in Sent(p)'
            PROVE  f \in Sent(p)
        BY DEF Sent
      <3>2. QED
        BY <3>1
    <2>2. \A p \in Pages : \A f \in inbox'[p] : f \in inbox[p] \/ \E a \in Pages : f \in Sent(a)
      OBVIOUS
    <2>3. QED
      BY <2>1, <2>2, HonestStep
  <1>3. Carried(id)
    BY <1>1, CarriedOn
  <1>4. QED
    BY <1>2, <1>3, StuckStep

LEMMA SaveSound ==
    ASSUME IInv, IInv', NEW p \in Pages, Save(p), NEW id \in Ids, Honest(id), NothingStuck(id)
    PROVE  Honest(id)' /\ NothingStuck(id)'
  <1>1. PICK nonce \in HostNonces[p] :
           LET patch == Changes(saved[p], unsaved[p], mirror[p], nonce)
           IN  board' = Merge(board, patch) /\ saved' = [saved EXCEPT ![p] = Over(@, patch)]
    BY DEF Save
  <1> DEFINE known == saved[p]
             noted == unsaved[p]
             m == mirror[p]
             patch == Changes(known, noted, m, nonce)
  <1>2. /\ board' = Merge(board, patch) /\ saved' = [saved EXCEPT ![p] = Over(@, patch)]
        /\ UNCHANGED <<scene, mirror, told, untold, link, out, inbox, reading>>
    BY <1>1 DEF Save, wire
  <1>3. /\ known \in Copies /\ m \in Copies /\ noted \in SUBSET Ids /\ nonce \in Nat
        /\ board \in Copies
    BY LiveSceneAssumption DEF IInv, PageTypes
  <1>4. /\ FollowedBy(p, id) /\ scene[p][id] \in Plain /\ known[id] \in Plain
        /\ m[id] = scene[p][id] /\ Older(known[id], scene[p][id])
        /\ Shown(board[id], id)
    BY DEF Honest, FollowedBy
  <1>5. \A i \in Ids : m[i] = Absent \/ LiveOf(m, i)
    BY KeptByPage DEF IInv, Kept, Alive
  <1>6. saved'[p] = Over(known, patch) /\ \A q \in Pages \ {p} : saved'[q] = saved[q]
    BY <1>2 DEF IInv, PageTypes
  <1> HIDE DEF known, noted, m
  <1>7. patch \in Copies /\ patch[id] \in {Absent, scene[p][id]}
    <2>1. patch \in Copies
      BY <1>3, <1>5, ChangesFacts
    <2>2. m[id] \in Plain /\ Older(known[id], m[id])
      BY <1>4
    <2>3. patch[id] \in {Absent, m[id]}
      BY <1>3, <1>4, <2>2, PlainChange
    <2>4. QED
      BY <1>4, <2>1, <2>3
  <1> HIDE DEF patch
  <1>8. Shown(board'[id], id)
    <2>1. board'[id] \in {board[id], patch[id]}
      BY <1>2 DEF Merge
    <2>2. Shown(Absent, id) /\ Shown(scene[p][id], id)
      BY <1>4, PlainOrder DEF Shown
    <2>3. board'[id] = board[id] \/ board'[id] = Absent \/ board'[id] = scene[p][id]
      BY <1>7, <2>1
    <2>4. QED
      BY <1>4, <2>2, <2>3
  <1>9. FollowedBy(p, id)'
    <2>1. saved'[p][id] \in {known[id], patch[id]}
      BY <1>3, <1>6, <1>7, OverFacts
    <2>2. saved'[p][id] \in Plain /\ Older(saved'[p][id], scene[p][id])
      BY <1>4, <1>7, <2>1, PlainOrder
    <2>3. QED
      BY <1>2, <1>4, <2>2 DEF FollowedBy
  <1>10. \A q \in Pages : FollowedBy(q, id)'
    BY <1>2, <1>6, <1>9, SameFollowed DEF Honest
  <1>11. QED
    BY <1>2, <1>8, <1>10, SameGrows, StillSound DEF Ready

LEMMA ServedSound ==
    ASSUME IInv, IInv', NEW p \in Pages, Served(p), NEW id \in Ids, Honest(id), NothingStuck(id)
    PROVE  Honest(id)' /\ NothingStuck(id)'
  <1>1. /\ reading[p] = Asked /\ reading' = [reading EXCEPT ![p] = board]
        /\ UNCHANGED <<scene, mirror, told, untold, saved, link, out, inbox, board>>
    BY DEF Served, page
  <1>2. /\ reading'[p] = board /\ \A q \in Pages \ {p} : reading'[q] = reading[q]
    BY <1>1 DEF IInv, WireTypes
  <1>3. \A q \in Pages : FollowedBy(q, id)
    BY DEF Honest
  <1>4. link[p] # "closed"
    BY <1>1, <1>3, LiveSceneAssumption DEF FollowedBy
  <1>5. \A q \in Pages : link[q] = "closed" => reading'[q] = reading[q]
    BY <1>2, <1>4
  <1>6. \A q \in Pages : FollowedBy(q, id)'
    BY <1>1, <1>3, <1>5, SameFollowed
  <1>7. Shown(board'[id], id)
    BY <1>1 DEF Honest
  <1>8. QED
    BY <1>1, <1>2, <1>6, <1>7, SameGrows, StillSound DEF Ready

LEMMA CaughtUpSound ==
    ASSUME IInv, IInv', NEW p \in Pages, CaughtUp(p), NEW id \in Ids, Honest(id),
           NothingStuck(id), id \notin fallen'
    PROVE  Honest(id)' /\ NothingStuck(id)'
  <1>1. PICK patch : patch = reading[p]
    OBVIOUS
  <1>2. /\ patch \notin {Nothing, Asked} /\ reading' = [reading EXCEPT ![p] = Nothing]
        /\ Applied(p, patch)
        /\ UNCHANGED <<untold, saved, link, out, inbox, board>>
    BY <1>1 DEF CaughtUp
  <1>3. reading'[p] = Nothing /\ \A q \in Pages \ {p} : reading'[q] = reading[q]
    BY <1>2 DEF IInv, WireTypes
  <1>4. patch \in Copies /\ Shown(patch[id], id) /\ link[p] # "closed"
    <2>1. patch \in Copies
      BY <1>1, <1>2 DEF IInv, WireTypes
    <2>2. Shown(patch[id], id)
      BY <1>1, <1>2 DEF Honest
    <2>3. link[p] # "closed"
      BY <1>1, <1>2 DEF Honest, FollowedBy
    <2>4. QED
      BY <2>1, <2>2, <2>3
  <1>5. /\ Grows(id) /\ \A q \in Pages : FollowedBy(q, id)'
        /\ \A r \in Pages : \E s \in Pages : Older(scene'[r][id], scene[s][id])
    BY <1>2, <1>3, <1>4, AppliedSound
  <1>6. Shown(board'[id], id)
    BY <1>2 DEF Honest
  <1>7. QED
    BY <1>2, <1>3, <1>5, <1>6, StillSound DEF Ready

LEMMA OpenSound ==
    ASSUME IInv, IInv', NEW p \in Pages, Open(p), NEW id \in Ids, Honest(id), NothingStuck(id)
    PROVE  Honest(id)' /\ NothingStuck(id)'
  <1> DEFINE now == Live(board)
  <1>1. /\ link[p] = "closed" /\ link' = [link EXCEPT ![p] = "down"]
        /\ scene' = [scene EXCEPT ![p] = now] /\ mirror' = [mirror EXCEPT ![p] = now]
        /\ told' = [told EXCEPT ![p] = now] /\ saved' = [saved EXCEPT ![p] = now]
        /\ UNCHANGED <<untold, out, inbox, reading, board>>
    BY DEF Open
  <1>2. Shown(board[id], id) /\ \A q \in Pages : FollowedBy(q, id)
    BY DEF Honest
  <1>3. now[id] = board[id] /\ now[id] \in Plain
    BY <1>2 DEF Live, LiveOf, IsLive, Shown, Plain
  <1> HIDE DEF now
  <1>4. /\ scene'[p] = now /\ mirror'[p] = now /\ told'[p] = now /\ saved'[p] = now
        /\ link'[p] = "down"
        /\ \A q \in Pages \ {p} : /\ scene'[q] = scene[q] /\ mirror'[q] = mirror[q]
                                  /\ told'[q] = told[q] /\ saved'[q] = saved[q]
                                  /\ link'[q] = link[q]
    BY <1>1 DEF IInv, PageTypes, WireTypes
  <1>5. scene[p][id] = Absent /\ \A q \in Pages : scene[q][id] \in Plain
    BY <1>1, <1>2 DEF FollowedBy
  <1>6. Grows(id)
    BY <1>3, <1>4, <1>5, PlainOrder DEF Grows
  <1>7. FollowedBy(p, id)'
    BY <1>3, <1>4, PlainOrder DEF FollowedBy
  <1>8. \A q \in Pages : FollowedBy(q, id)'
    BY <1>1, <1>2, <1>4, <1>7, SameFollowed
  <1>9. \A r \in Pages : \E s \in Pages : Older(scene'[r][id], scene[s][id])
    BY <1>2, <1>3, <1>4, <1>5, PlainOrder DEF Shown
  <1>10. \A q \in Pages : Ready(q)' <=> Ready(q)
    BY <1>1, <1>4 DEF Ready
  <1>11. QED
    BY <1>1, <1>2, <1>6, <1>8, <1>9, <1>10, StillSound

(* A frame is relayed: it reaches who is linked, and who is not will join.  *)
LEMMA RelayedSound ==
    ASSUME IInv, IInv', NEW p \in Pages, Relayed(p), NEW id \in Ids, Honest(id),
           NothingStuck(id)
    PROVE  Honest(id)' /\ NothingStuck(id)'
  <1>1. PICK head, rest : head = Head(out[p]) /\ rest = Tail(out[p])
    OBVIOUS
  <1>2. /\ Ready(p) /\ out[p] # <<>> /\ out' = [out EXCEPT ![p] = rest]
        /\ inbox' = [q \in Pages |-> IF q # p /\ Ready(q) THEN inbox[q] \cup {head}
                                     ELSE inbox[q]]
        /\ UNCHANGED <<scene, mirror, told, untold, saved, link, reading, board>>
    BY <1>1 DEF Relayed, page
  <1>3. /\ Sent(p) = {head} \cup Sent(p)'
        /\ \A q \in Pages \ {p} : Sent(q)' = Sent(q)
    <2>1. out \in [Pages -> Seq(Frames)]
      BY DEF IInv, WireTypes
    <2>2. Range(out[p]) = {head} \cup Range(rest)
      BY <1>1, <1>2, <2>1, RangeOfTail
    <2>3. out'[p] = rest /\ \A q \in Pages \ {p} : out'[q] = out[q]
      BY <1>2, <2>1
    <2>4. QED
      BY <2>2, <2>3 DEF Sent
  <1>4. /\ \A q \in Pages : inbox[q] \subseteq inbox'[q]
        /\ \A q \in Pages \ {p} : Ready(q) => head \in inbox'[q]
        /\ \A q \in Pages : \A f \in inbox'[q] : f \in inbox[q] \/ f = head
    BY <1>2
  <1>5. \A q \in Pages : FollowedBy(q, id)'
    BY <1>2, SameFollowed DEF Honest
  <1>6. /\ Grows(id) /\ \A r \in Pages : \E s \in Pages : Older(scene'[r][id], scene[s][id])
    BY <1>2, SameGrows
  <1>7. Honest(id)'
    <2>1. Shown(board'[id], id) /\ \A q \in Pages : reading'[q] = reading[q]
      BY <1>2 DEF Honest
    <2>2. \A q \in Pages : \A f \in Sent(q)' : f \in Sent(q)
      BY <1>3
    <2>3. \A q \in Pages : \A f \in inbox'[q] : f \in inbox[q] \/ \E a \in Pages : f \in Sent(a)
      BY <1>3, <1>4
    <2>4. QED
      BY <1>5, <1>6, <2>1, <2>2, <2>3, HonestStep
  <1>8. Carried(id)
    <2> SUFFICES ASSUME NEW q \in Pages, NEW s \in Pages, NEW y \in Plain, y = scene[s][id],
                        Ready(q), ~Older(y, scene[q][id]), OnItsWay(q, id, y)
                 PROVE  OnItsWay(q, id, y)'
      BY <1>2 DEF Carried, Ready
    <2>1. \A a \in Pages : /\ Ready(a)' <=> Ready(a)
                           /\ HasIt(a, id, y)' <=> HasIt(a, id, y)
      BY <1>2 DEF Ready, HasIt
    <2>2. \A f \in Frames : /\ f.type \in {"join", "sync"} => f.from \in Pages
                            /\ f.type = "sync" => f.to \in Pages
      BY DEF Frames
    <2>3. \A a \in Pages : Sent(a) \subseteq Frames /\ inbox[a] \subseteq Frames
      BY FramesAre
    <2>4. \A f \in Frames : Comes(f, q, id, y)' <=> Comes(f, q, id, y)
      BY <1>2, <2>2 DEF Comes, HasIt
    <2>5. head \in Frames /\ head.from = p
      BY <1>3, <2>3 DEF Honest
    <2>6. CASE \E a \in Pages : ~Ready(a) /\ HasIt(a, id, y)
      BY <2>1, <2>6 DEF OnItsWay
    <2>7. CASE \E f \in inbox[q] : Comes(f, q, id, y)
      BY <1>4, <2>3, <2>4, <2>7 DEF OnItsWay
    <2>8. CASE \E a \in Pages \ {q} : Ready(a) /\ \E f \in Sent(a) : Comes(f, q, id, y)
      <3> PICK a \in Pages \ {q} : Ready(a) /\ \E f \in Sent(a) : Comes(f, q, id, y)
        BY <2>8
      <3>1. PICK f \in Sent(a) : Ready(a) /\ Comes(f, q, id, y)
        OBVIOUS
      <3>2. CASE f \in Sent(a)'
        BY <2>1, <2>3, <2>4, <3>1, <3>2 DEF OnItsWay
      <3>3. CASE f \notin Sent(a)'
        <4>1. a = p /\ f = head
          BY <1>3, <3>3
        <4>2. f \in inbox'[q]
          BY <1>4, <4>1
        <4>3. QED
          BY <2>4, <2>5, <3>1, <4>1, <4>2 DEF OnItsWay
      <3>4. QED
        BY <3>2, <3>3
    <2>9. CASE \E f \in Sent(q) : \/ f.type = "join"
                                  \/ f.type = "sync" /\ f.to # q /\ HasIt(f.to, id, y)
      <3>1. PICK f \in Sent(q) : \/ f.type = "join"
                                 \/ f.type = "sync" /\ f.to # q /\ HasIt(f.to, id, y)
        BY <2>9
      <3>2. CASE f \in Sent(q)'
        BY <2>1, <2>2, <2>3, <3>1, <3>2 DEF OnItsWay
      <3>3. CASE f \notin Sent(q)'
        <4>1. q = p /\ f = head
          BY <1>3, <3>3
        <4>2. PICK a \in Pages : a # q /\ HasIt(a, id, y) /\ AsksFor(f, q, a)
          <5>1. CASE f.type = "join"
            <6>1. s # q /\ HasIt(s, id, y)
              BY PlainOrder DEF HasIt, Honest, FollowedBy
            <6>2. QED
              BY <2>5, <4>1, <5>1, <6>1 DEF AsksFor
          <5>2. CASE f.type = "sync"
            BY <2>2, <2>5, <3>1, <4>1, <5>2 DEF AsksFor
          <5>3. QED
            BY <3>1, <5>1, <5>2
        <4>3. CASE Ready(a)
          <5>1. f \in inbox'[a]
            BY <1>4, <4>1, <4>2, <4>3
          <5>2. AsksFor(f, q, a)'
            BY <4>2 DEF AsksFor
          <5>3. QED
            BY <2>1, <4>2, <4>3, <5>1, <5>2 DEF OnItsWay
        <4>4. CASE ~Ready(a)
          BY <2>1, <4>2, <4>4 DEF OnItsWay
        <4>5. QED
          BY <4>3, <4>4
      <3>4. QED
        BY <3>2, <3>3
    <2>10. CASE \E a \in Pages \ {q} : /\ Ready(a) /\ HasIt(a, id, y)
                                       /\ \E f \in inbox[a] : AsksFor(f, q, a)
      BY <1>4, <2>1, <2>10 DEF OnItsWay, AsksFor
    <2>11. QED
      BY <2>6, <2>7, <2>8, <2>9, <2>10 DEF OnItsWay
  <1>9. QED
    BY <1>6, <1>7, <1>8, StuckStep

(* A link breaks: what was on its way from this page it has itself.         *)
LEMMA DropSound ==
    ASSUME IInv, IInv', NEW p \in Pages, Drop(p), NEW id \in Ids, Honest(id), NothingStuck(id)
    PROVE  Honest(id)' /\ NothingStuck(id)'
  <1>1. /\ link' = [link EXCEPT ![p] = "down"] /\ out' = [out EXCEPT ![p] = <<>>]
        /\ inbox' = [inbox EXCEPT ![p] = {}]
        /\ UNCHANGED <<scene, mirror, told, untold, saved, reading, board>>
    BY DEF Drop, page
  <1>2. /\ Sent(p)' = {} /\ inbox'[p] = {} /\ link'[p] = "down"
        /\ \A q \in Pages \ {p} : /\ Sent(q)' = Sent(q) /\ inbox'[q] = inbox[q]
                                  /\ link'[q] = link[q]
    <2>1. /\ out'[p] = <<>> /\ inbox'[p] = {} /\ link'[p] = "down"
          /\ \A q \in Pages \ {p} : /\ out'[q] = out[q] /\ inbox'[q] = inbox[q]
                                    /\ link'[q] = link[q]
      BY <1>1 DEF IInv, WireTypes
    <2>2. QED
      BY <2>1, EmptyRange DEF Sent
  <1>3. ~Ready(p)' /\ \A q \in Pages \ {p} : Ready(q)' <=> Ready(q)
    BY <1>2 DEF Ready
  <1>4. \A q \in Pages : FollowedBy(q, id)'
    BY <1>1, <1>2, SameFollowed DEF Honest
  <1>5. /\ Grows(id) /\ \A r \in Pages : \E s \in Pages : Older(scene'[r][id], scene[s][id])
    BY <1>1, SameGrows
  <1>6. Honest(id)'
    <2>1. Shown(board'[id], id) /\ \A q \in Pages : reading'[q] = reading[q]
      BY <1>1 DEF Honest
    <2>2. \A q \in Pages : \A f \in Sent(q)' : f \in Sent(q)
      BY <1>2
    <2>3. \A q \in Pages : \A f \in inbox'[q] : f \in inbox[q]
      BY <1>2
    <2>4. QED
      BY <1>4, <1>5, <2>1, <2>2, <2>3, HonestStep
  <1>7. Carried(id)
    <2> SUFFICES ASSUME NEW q \in Pages \ {p}, NEW y \in Plain, OnItsWay(q, id, y)
                 PROVE  OnItsWay(q, id, y)'
      BY <1>3 DEF Carried
    <2>1. \A a \in Pages : HasIt(a, id, y)' <=> HasIt(a, id, y)
      BY <1>1 DEF HasIt
    <2>2. \A f \in Frames : /\ f.type \in {"join", "sync"} => f.from \in Pages
                            /\ f.type = "sync" => f.to \in Pages
      BY DEF Frames
    <2>3. \A a \in Pages : Sent(a) \subseteq Frames /\ inbox[a] \subseteq Frames
      BY FramesAre
    <2>4. \A f \in Frames : Comes(f, q, id, y)' <=> Comes(f, q, id, y)
      BY <1>1, <2>2 DEF Comes, HasIt
    <2>5. HasIt(p, id, y) => OnItsWay(q, id, y)'
      BY <1>3, <2>1 DEF OnItsWay
    <2>6. CASE \E a \in Pages : ~Ready(a) /\ HasIt(a, id, y)
      BY <1>3, <2>1, <2>5, <2>6 DEF OnItsWay
    <2>7. CASE \E f \in inbox[q] : Comes(f, q, id, y)
      BY <1>2, <2>3, <2>4, <2>7 DEF OnItsWay
    <2>8. CASE \E a \in Pages \ {q} : Ready(a) /\ \E f \in Sent(a) : Comes(f, q, id, y)
      <3> PICK a \in Pages \ {q} : Ready(a) /\ \E f \in Sent(a) : Comes(f, q, id, y)
        BY <2>8
      <3>1. PICK f \in Sent(a) : Ready(a) /\ Comes(f, q, id, y)
        OBVIOUS
      <3>2. CASE a # p
        BY <1>2, <1>3, <2>3, <2>4, <3>1, <3>2 DEF OnItsWay
      <3>3. CASE a = p
        <4>1. f.from = p /\ Says(f, id, scene[p][id]) /\ scene[p][id] \in Plain
          BY <3>3 DEF Honest, FollowedBy
        <4>2. HasIt(p, id, y)
          <5>1. CASE f.type = "join"
            BY <3>1, <4>1, <5>1 DEF Comes
          <5>2. CASE f.type # "join"
            <6>1. f.type \in {"patch", "sync"} /\ Older(y, f.elements[id])
              BY <3>1, <5>2 DEF Comes
            <6>2. QED
              BY <4>1, <6>1, PlainOrder DEF Says, HasIt
          <5>3. QED
            BY <5>1, <5>2
        <4>3. QED
          BY <2>5, <4>2
      <3>4. QED
        BY <3>2, <3>3
    <2>9. CASE \E f \in Sent(q) : \/ f.type = "join"
                                  \/ f.type = "sync" /\ f.to # q /\ HasIt(f.to, id, y)
      BY <1>2, <2>1, <2>2, <2>3, <2>9 DEF OnItsWay
    <2>10. CASE \E a \in Pages \ {q} : /\ Ready(a) /\ HasIt(a, id, y)
                                       /\ \E f \in inbox[a] : AsksFor(f, q, a)
      BY <1>2, <1>3, <2>1, <2>5, <2>10 DEF OnItsWay, AsksFor
    <2>11. QED
      BY <2>6, <2>7, <2>8, <2>9, <2>10 DEF OnItsWay
  <1>8. QED
    BY <1>5, <1>6, <1>7, StuckStep

(* A page joins: it says what it has, and asks for the rest.                *)
LEMMA JoinSound ==
    ASSUME IInv, IInv', NEW p \in Pages, Join(p), NEW id \in Ids, Honest(id), NothingStuck(id)
    PROVE  Honest(id)' /\ NothingStuck(id)'
  <1>1. /\ link[p] = "down" /\ link' = [link EXCEPT ![p] = "ready"]
        /\ reading' = [reading EXCEPT ![p] = IF before[p] THEN Asked ELSE @]
        /\ UNCHANGED <<scene, mirror, saved, inbox, board>>
    BY DEF Join
  <1>2. PICK nonce \in HostNonces[p] :
           LET patch == Taken(p, untold[p], mirror[p], nonce)
               join == [type |-> "join", from |-> p, have |-> Inventory(told'[p])]
           IN  Took(p, patch) /\ out' = [out EXCEPT ![p] = @ \o PatchOf(p, patch) \o <<join>>]
    BY DEF Join
  <1>3. PICK known, noted, m, x :
           known = told[p] /\ noted = untold[p] /\ m = mirror[p] /\ x = scene[p][id]
    OBVIOUS
  <1>4. PICK patch : patch = Changes(known, noted, m, nonce)
    OBVIOUS
  <1>5. PICK k : k = Over(known, patch)
    OBVIOUS
  <1>6. PICK join : join = [type |-> "join", from |-> p, have |-> Inventory(k)]
    OBVIOUS
  <1>7. /\ known \in Copies /\ m \in Copies /\ noted \in SUBSET Ids /\ nonce \in Nat
        /\ \A i \in Ids : m[i] = Absent \/ LiveOf(m, i)
    BY <1>3, LiveSceneAssumption, KeptByPage DEF IInv, PageTypes, Kept, Alive
  <1>8. /\ x \in Plain /\ m[id] = x /\ known[id] \in Plain /\ Older(known[id], x)
        /\ id \in noted \/ known[id] = x
    BY <1>3 DEF Honest, FollowedBy
  <1>9. /\ patch \in Copies /\ patch[id] \in {Absent, x}
        /\ id \in noted => patch[id] = x \/ known[id] = x
    <2>1. patch \in Copies
      BY <1>4, <1>7, ChangesFacts
    <2>2. m[id] \in Plain /\ Older(known[id], m[id])
      BY <1>8
    <2>3. patch[id] \in {Absent, m[id]} /\ (id \in noted => patch[id] = m[id] \/ known[id] = m[id])
      BY <1>4, <1>7, <1>8, <2>2, PlainChange
    <2>4. QED
      BY <1>8, <2>1, <2>3
  <1>10. k \in Copies /\ k[id] = x
    <2>1. k \in Copies /\ k[id] = IF patch[id] = Absent THEN known[id] ELSE patch[id]
      BY <1>5, <1>7, <1>9, OverFacts
    <2>2. patch[id] = Absent /\ patch[id] = x => known[id] = x
      BY <1>8, PlainOrder
    <2>3. QED
      BY <1>8, <1>9, <2>1, <2>2
  <1>11. /\ told'[p] = k /\ \A q \in Pages \ {p} : told'[q] = told[q] /\ untold'[q] = untold[q]
    BY <1>2, <1>3, <1>4, <1>5 DEF IInv, PageTypes, Took, Taken
  <1>12. join \in Frames
    BY <1>6, <1>10, InventoryType DEF Frames
  <1>13. PICK news : news = PatchOf(p, patch)
    OBVIOUS
  <1>14. news \in Seq(Frames) /\ \A f \in Range(news) : f = PatchFrame(p, patch)
    BY <1>9, <1>13, RangeOfPatch
  <1>15. /\ Sent(p)' = Sent(p) \cup Range(news) \cup {join}
         /\ \A q \in Pages \ {p} : Sent(q)' = Sent(q)
    <2>1. out' = [out EXCEPT ![p] = @ \o news \o <<join>>]
      BY <1>2, <1>3, <1>4, <1>6, <1>11, <1>13 DEF Taken
    <2>2. out \in [Pages -> Seq(Frames)]
      BY DEF IInv, WireTypes
    <2>3. PICK all : all = out[p] \o news
      OBVIOUS
    <2>4. all \in Seq(Frames) /\ Range(all) = Range(out[p]) \cup Range(news)
      BY <1>14, <2>2, <2>3, RangeOfBoth
    <2>5. PICK one : one = <<join>>
      OBVIOUS
    <2>6. Range(all \o one) = Range(all) \cup {join}
      <3>1. one \in Seq(Frames) /\ Range(one) = {join}
        BY <1>12, <2>5, RangeOfOne
      <3>2. QED
        BY <2>4, <3>1, RangeOfBoth
    <2>7. out'[p] = all \o one /\ \A q \in Pages \ {p} : out'[q] = out[q]
      BY <2>1, <2>2, <2>3, <2>5
    <2>8. QED
      BY <2>4, <2>6, <2>7 DEF Sent
  <1>16. Ready(p)' /\ ~Ready(p) /\ \A q \in Pages \ {p} : link'[q] = link[q]
    BY <1>1 DEF Ready, IInv, WireTypes
  <1>17. \A q \in Pages : FollowedBy(q, id)'
    <2>1. FollowedBy(p, id)'
      BY <1>1, <1>3, <1>8, <1>10, <1>11, <1>16, PlainOrder DEF FollowedBy, Honest, Ready
    <2>2. \A q \in Pages \ {p} : reading'[q] = reading[q]
      BY <1>1 DEF IInv, WireTypes
    <2>3. \A q \in Pages \ {p} : FollowedBy(q, id)'
      BY <1>1, <1>11, <1>16, <2>2, SameFollowed DEF Honest
    <2>4. QED
      BY <2>1, <2>3
  <1>18. /\ Grows(id) /\ \A r \in Pages : \E s \in Pages : Older(scene'[r][id], scene[s][id])
    BY <1>1, SameGrows
  <1>19. Honest(id)'
    <2>1. Shown(board'[id], id) /\ \A q \in Pages : reading'[q] \in {reading[q], Asked}
      BY <1>1 DEF Honest, IInv, WireTypes
    <2>2. join.from = p /\ Says(join, id, x)
      BY <1>6, <1>8, <1>10, OwnStamp DEF Says
    <2>3. \A f \in Range(news) : f.from = p /\ Says(f, id, x)
      BY <1>8, <1>9, <1>14, PlainOrder DEF Says, PatchFrame
    <2>4. \A q \in Pages : \A f \in Sent(q)' :
              f \in Sent(q) \/ (f.from = q /\ Says(f, id, scene'[q][id]))
      BY <1>1, <1>3, <1>15, <2>2, <2>3
    <2>5. QED
      BY <1>1, <1>17, <1>18, <2>1, <2>4, HonestStep
  <1>20. Carried(id)
    <2> SUFFICES ASSUME NEW q \in Pages, NEW y \in Plain, Ready(q) => OnItsWay(q, id, y), Ready(q)'
                 PROVE  OnItsWay(q, id, y)'
      BY DEF Carried
    <2>1. CASE q = p
      BY <1>6, <1>15, <2>1 DEF OnItsWay
    <2>2. CASE q # p
      <3>1. \A a \in Pages : HasIt(a, id, y)' <=> HasIt(a, id, y)
        BY <1>1 DEF HasIt
      <3>2. \A f \in Frames : /\ f.type \in {"join", "sync"} => f.from \in Pages
                              /\ f.type = "sync" => f.to \in Pages
        BY DEF Frames
      <3>3. \A a \in Pages : /\ Sent(a) \subseteq Frames /\ inbox[a] \subseteq Frames
                             /\ Sent(a) \subseteq Sent(a)'
        BY <1>15, FramesAre
      <3>4. \A f \in Frames : Comes(f, q, id, y)' <=> Comes(f, q, id, y)
        BY <1>1, <3>2 DEF Comes, HasIt
      <3>5. Ready(q) /\ \A a \in Pages : Ready(a) => Ready(a)'
        BY <1>16, <2>2 DEF Ready
      <3>6. CASE \E a \in Pages : ~Ready(a) /\ HasIt(a, id, y)
        <4>1. PICK a \in Pages : ~Ready(a) /\ HasIt(a, id, y)
          BY <3>6
        <4>2. CASE a = p
          <5>1. Comes(join, q, id, y)'
            BY <1>6, <3>1, <4>1, <4>2 DEF Comes
          <5>2. QED
            BY <1>15, <1>16, <2>2, <5>1 DEF OnItsWay
        <4>3. CASE a # p
          BY <1>16, <3>1, <4>1, <4>3 DEF OnItsWay, Ready
        <4>4. QED
          BY <4>2, <4>3
      <3>7. CASE \E f \in inbox[q] : Comes(f, q, id, y)
        BY <1>1, <3>3, <3>4, <3>7 DEF OnItsWay
      <3>8. CASE \E a \in Pages \ {q} : Ready(a) /\ \E f \in Sent(a) : Comes(f, q, id, y)
        BY <3>3, <3>4, <3>5, <3>8 DEF OnItsWay
      <3>9. CASE \E f \in Sent(q) : \/ f.type = "join"
                                    \/ f.type = "sync" /\ f.to # q /\ HasIt(f.to, id, y)
        BY <3>1, <3>2, <3>3, <3>9 DEF OnItsWay
      <3>10. CASE \E a \in Pages \ {q} : /\ Ready(a) /\ HasIt(a, id, y)
                                         /\ \E f \in inbox[a] : AsksFor(f, q, a)
        BY <1>1, <3>1, <3>5, <3>10 DEF OnItsWay, AsksFor
      <3>11. QED
        BY <3>5, <3>6, <3>7, <3>8, <3>9, <3>10 DEF OnItsWay
    <2>3. QED
      BY <2>1, <2>2
  <1>21. QED
    BY <1>18, <1>19, <1>20, StuckStep

(* A page hears a frame: what that brought or asked for is taken care of.   *)
LEMMA CarriedPast ==
    ASSUME IInv, IInv', NEW id \in Ids, Honest(id), Grows(id), NEW p \in Pages, NEW g \in Frames,
           \A a \in Pages : Ready(a)' <=> Ready(a),
           \A a \in Pages : Sent(a) \subseteq Sent(a)' /\ inbox[a] \ inbox'[a] \subseteq {g},
           \A a \in Pages \ {p} : inbox[a] \subseteq inbox'[a],
           \A y \in Plain : Comes(g, p, id, y) /\ ~Older(y, scene'[p][id]) => OnItsWay(p, id, y)',
           \A q \in Pages \ {p}, y \in Plain :
              AsksFor(g, q, p) /\ HasIt(p, id, y) /\ ~Older(y, scene'[q][id]) /\ Ready(p)
                 => OnItsWay(q, id, y)'
    PROVE  Carried(id)
  <1> SUFFICES ASSUME NEW q \in Pages, NEW y \in Plain, OnItsWay(q, id, y),
                      ~Older(y, scene'[q][id])
               PROVE  OnItsWay(q, id, y)'
    BY DEF Carried
  <1>1. \A a \in Pages : HasIt(a, id, y) => HasIt(a, id, y)'
    <2>1. \A a \in Pages : /\ scene[a][id] \in Plain /\ scene'[a][id] \in Plain
                           /\ Older(scene[a][id], scene'[a][id])
      BY DEF Honest, FollowedBy, Grows
    <2>2. QED
      BY <2>1, PlainOrder DEF HasIt
  <1>2. \A a \in Pages : Sent(a) \subseteq Frames /\ inbox[a] \subseteq Frames
    BY FramesAre
  <1>3. \A f \in Frames : /\ f.type \in {"join", "sync"} => f.from \in Pages
                          /\ f.type = "sync" => f.to \in Pages
    BY DEF Frames
  <1>4. ASSUME NEW f \in Frames, Comes(f, q, id, y)
        PROVE  Comes(f, q, id, y)'
    BY <1>1, <1>3, <1>4 DEF Comes
  <1>5. CASE \E f \in inbox[q] : Comes(f, q, id, y)
    <2>1. PICK f \in inbox[q] : Comes(f, q, id, y)
      BY <1>5
    <2>2. CASE f \in inbox'[q]
      BY <1>2, <1>4, <2>1, <2>2 DEF OnItsWay
    <2>3. CASE f \notin inbox'[q]
      <3>1. f = g /\ q = p
        BY <2>3
      <3>2. QED
        BY <2>1, <3>1
    <2>4. QED
      BY <2>2, <2>3
  <1>6. CASE \E a \in Pages \ {q} : Ready(a) /\ \E f \in Sent(a) : Comes(f, q, id, y)
    BY <1>2, <1>4, <1>6 DEF OnItsWay
  <1>7. CASE \E f \in Sent(q) : \/ f.type = "join"
                                \/ f.type = "sync" /\ f.to # q /\ HasIt(f.to, id, y)
    BY <1>1, <1>2, <1>3, <1>7 DEF OnItsWay
  <1>8. CASE \E a \in Pages : ~Ready(a) /\ HasIt(a, id, y)
    BY <1>1, <1>8 DEF OnItsWay
  <1>9. CASE \E a \in Pages \ {q} : /\ Ready(a) /\ HasIt(a, id, y)
                                    /\ \E f \in inbox[a] : AsksFor(f, q, a)
    <2> PICK a \in Pages \ {q} : /\ Ready(a) /\ HasIt(a, id, y)
                                 /\ \E f \in inbox[a] : AsksFor(f, q, a)
      BY <1>9
    <2>1. PICK f \in inbox[a] : AsksFor(f, q, a)
      OBVIOUS
    <2>2. CASE f \in inbox'[a]
      <3>1. AsksFor(f, q, a)'
        BY <2>1 DEF AsksFor
      <3>2. QED
        BY <1>1, <2>2, <3>1 DEF OnItsWay
    <2>3. CASE f \notin inbox'[a]
      <3>1. f = g /\ a = p
        BY <2>3
      <3>2. QED
        BY <2>1, <3>1
    <2>4. QED
      BY <2>2, <2>3
  <1>10. QED
    BY <1>5, <1>6, <1>7, <1>8, <1>9 DEF OnItsWay

LEMMA OpensLinks ==
    ASSUME IInv, NEW p \in Pages, NEW frame \in inbox[p], Opens(p, frame)
    PROVE  /\ Ready(p) /\ link[p] # "closed" /\ frame \in Frames
           /\ \A a \in Pages : Ready(a)' <=> Ready(a)
           /\ \A a \in Pages : inbox'[a] \subseteq inbox[a] /\ inbox[a] \ inbox'[a] \subseteq {frame}
           /\ \A a \in Pages \ {p} : inbox[a] \subseteq inbox'[a]
           /\ UNCHANGED <<saved, link, reading, board>>
  BY DEF IInv, WireTypes, Opens, Ready

LEMMA HearJoinSound ==
    ASSUME IInv, IInv', NEW p \in Pages, HearJoin(p), NEW id \in Ids, Honest(id),
           NothingStuck(id)
    PROVE  Honest(id)' /\ NothingStuck(id)'
  <1>1. PICK g \in inbox[p] :
           /\ g.type = "join" /\ Opens(p, g)
           /\ out' = [out EXCEPT ![p] = Append(@,
                   [type |-> "sync", from |-> p, to |-> g.from,
                    elements |-> Missing(told[p], g.have), have |-> Inventory(told[p])])]
           /\ UNCHANGED page
    BY DEF HearJoin
  <1>2. /\ Ready(p) /\ link[p] # "closed" /\ g \in Frames
        /\ \A a \in Pages : Ready(a)' <=> Ready(a)
        /\ \A a \in Pages : inbox'[a] \subseteq inbox[a] /\ inbox[a] \ inbox'[a] \subseteq {g}
        /\ \A a \in Pages \ {p} : inbox[a] \subseteq inbox'[a]
        /\ UNCHANGED <<saved, link, reading, board, scene, mirror, told, untold>>
    BY <1>1, OpensLinks DEF page
  <1>3. PICK known, x, lacking, answer :
           /\ known = told[p] /\ x = scene[p][id]
           /\ lacking = Missing(known, g.have)
           /\ answer = [type |-> "sync", from |-> p, to |-> g.from,
                        elements |-> lacking, have |-> Inventory(known)]
    OBVIOUS
  <1>4. /\ known \in Copies /\ lacking \in Copies /\ Inventory(known) \in Inventories
        /\ g.from \in Pages /\ g.have \in Inventories
    <2>1. known \in Copies
      BY <1>3 DEF IInv, PageTypes
    <2>2. QED
      BY <1>1, <1>2, <1>3, <2>1, MissingType, InventoryType DEF Frames
  <1>5. answer \in Frames
    BY <1>3, <1>4 DEF Frames
  <1>6. /\ Sent(p)' = Sent(p) \cup {answer}
        /\ \A q \in Pages \ {p} : Sent(q)' = Sent(q)
    <2>1. out \in [Pages -> Seq(Frames)]
      BY DEF IInv, WireTypes
    <2>2. out' = [out EXCEPT ![p] = Append(@, answer)]
      BY <1>1, <1>3
    <2>3. PICK one : one = <<answer>>
      OBVIOUS
    <2>4. one \in Seq(Frames) /\ Range(one) = {answer}
      BY <1>5, <2>3, RangeOfOne
    <2>5. out' = [out EXCEPT ![p] = @ \o one]
      <3>1. Append(out[p], answer) = out[p] \o one
        BY <1>5, <2>1, <2>3, AppendIsConcat
      <3>2. QED
        BY <2>1, <2>2, <3>1
    <2>6. QED
      BY <2>4, <2>5, SendsMore
  <1>7. /\ x \in Plain /\ known[id] = x
    BY <1>2, <1>3 DEF Honest, FollowedBy, IInv, Kept, ToldOrNoted
  <1>8. /\ lacking[id] \in {Absent, x}
        /\ \A y \in Plain : StampUpTo(g.have[id], y) /\ ~Older(x, y) => lacking[id] = x
    BY <1>3, <1>4, <1>7, MissingFacts
  <1>9. \A q \in Pages : FollowedBy(q, id)'
    BY <1>2, SameFollowed DEF Honest
  <1>10. /\ Grows(id) /\ \A r \in Pages : \E s \in Pages : Older(scene'[r][id], scene[s][id])
    BY <1>2, SameGrows
  <1>11. Honest(id)'
    <2>1. Shown(board'[id], id) /\ \A q \in Pages : reading'[q] = reading[q]
      BY <1>2 DEF Honest
    <2>2. answer.from = p /\ Says(answer, id, x)
      BY <1>3, <1>4, <1>7, <1>8, OwnStamp, PlainOrder DEF Says
    <2>3. \A q \in Pages : \A f \in Sent(q)' :
              f \in Sent(q) \/ (f.from = q /\ Says(f, id, scene'[q][id]))
      BY <1>2, <1>3, <1>6, <2>2
    <2>4. \A q \in Pages : \A f \in inbox'[q] : f \in inbox[q]
      BY <1>2
    <2>5. QED
      BY <1>9, <1>10, <2>1, <2>3, <2>4, HonestStep
  <1>12. Carried(id)
    <2>1. ASSUME NEW y \in Plain, Comes(g, p, id, y), ~Older(y, scene'[p][id])
          PROVE  OnItsWay(p, id, y)'
      <3>1. HasIt(g.from, id, y)'
        BY <1>1, <1>2, <2>1 DEF Comes, HasIt
      <3>2. g.from # p
        BY <2>1, <3>1 DEF HasIt
      <3>3. answer \in Sent(p)' /\ answer.type = "sync" /\ answer.to = g.from
        BY <1>3, <1>6
      <3>4. QED
        BY <3>1, <3>2, <3>3 DEF OnItsWay
    <2>2. ASSUME NEW q \in Pages \ {p}, NEW y \in Plain, AsksFor(g, q, p), HasIt(p, id, y),
                 ~Older(y, scene'[q][id])
          PROVE  OnItsWay(q, id, y)'
      <3>1. g.from = q /\ scene[q][id] \in Plain /\ StampUpTo(g.have[id], scene[q][id])
        BY <1>1, <2>2 DEF AsksFor, Honest, FollowedBy, Says
      <3>2. Older(y, x) /\ ~Older(x, scene[q][id])
        BY <1>2, <1>3, <1>7, <2>2, <3>1, PlainOrder DEF HasIt
      <3>3. lacking[id] = x
        BY <1>8, <3>1, <3>2
      <3>4. Comes(answer, q, id, y)'
        BY <1>3, <3>1, <3>2, <3>3 DEF Comes
      <3>5. QED
        BY <1>2, <1>6, <3>4 DEF OnItsWay
    <2>3. \A a \in Pages : Sent(a) \subseteq Sent(a)'
      BY <1>6
    <2>4. QED
      BY <1>2, <1>10, <2>1, <2>2, <2>3, CarriedPast
  <1>13. QED
    BY <1>10, <1>11, <1>12, StuckStep

(* What a frame that came brings is with some page: with its sender.        *)
LEMMA HeardIsShown ==
    ASSUME IInv, NEW p \in Pages, NEW id \in Ids, Honest(id), NEW g \in inbox[p],
           g.type \in {"patch", "sync"}
    PROVE  g.elements \in Copies /\ Shown(g.elements[id], id)
  <1>1. g \in Frames /\ Says(g, id, scene[g.from][id])
    BY FramesAre DEF Honest
  <1>2. g.elements \in Copies /\ g.from \in Pages
    BY <1>1 DEF Frames
  <1>3. QED
    BY <1>1, <1>2 DEF Says, Shown

LEMMA HearPatchSound ==
    ASSUME IInv, IInv', NEW p \in Pages, HearPatch(p), NEW id \in Ids, Honest(id),
           NothingStuck(id), id \notin fallen'
    PROVE  Honest(id)' /\ NothingStuck(id)'
  <1>1. PICK g \in inbox[p] :
           /\ g.type = "patch" /\ Opens(p, g)
           /\ Applied(p, g.elements)
           /\ UNCHANGED <<out, untold, saved>>
    BY DEF HearPatch
  <1>2. /\ link[p] # "closed" /\ g \in Frames
        /\ \A a \in Pages : Ready(a)' <=> Ready(a)
        /\ \A a \in Pages : inbox'[a] \subseteq inbox[a] /\ inbox[a] \ inbox'[a] \subseteq {g}
        /\ \A a \in Pages \ {p} : inbox[a] \subseteq inbox'[a]
        /\ UNCHANGED <<saved, link, reading, board>>
    BY <1>1, OpensLinks
  <1>3. PICK patch : patch = g.elements
    OBVIOUS
  <1>4. patch \in Copies /\ Shown(patch[id], id)
    BY <1>1, <1>3, HeardIsShown
  <1>5. /\ Grows(id) /\ \A q \in Pages : FollowedBy(q, id)'
        /\ \A r \in Pages : \E s \in Pages : Older(scene'[r][id], scene[s][id])
        /\ Older(patch[id], scene'[p][id])
    BY <1>1, <1>2, <1>3, <1>4, AppliedSound
  <1>6. \A q \in Pages : Sent(q)' = Sent(q)
    BY <1>1 DEF Sent
  <1>7. Honest(id)'
    <2>1. Shown(board'[id], id) /\ \A q \in Pages : reading'[q] = reading[q]
      BY <1>2 DEF Honest
    <2>2. \A q \in Pages : \A f \in Sent(q)' : f \in Sent(q)
      BY <1>6
    <2>3. \A q \in Pages : \A f \in inbox'[q] : f \in inbox[q]
      BY <1>2
    <2>4. QED
      BY <1>5, <2>1, <2>2, <2>3, HonestStep
  <1>8. Carried(id)
    <2>1. ASSUME NEW y \in Plain, Comes(g, p, id, y), ~Older(y, scene'[p][id])
          PROVE  OnItsWay(p, id, y)'
      <3>1. Older(y, patch[id])
        BY <1>1, <1>3, <2>1 DEF Comes
      <3>2. patch[id] \in Plain /\ scene'[p][id] \in Plain
        BY <1>4, <1>5 DEF Shown, Grows
      <3>3. QED
        BY <1>5, <2>1, <3>1, <3>2, PlainOrder
    <2>2. \A q \in Pages : ~AsksFor(g, q, p)
      BY <1>1 DEF AsksFor
    <2>3. \A a \in Pages : Sent(a) \subseteq Sent(a)'
      BY <1>6
    <2>4. QED
      BY <1>2, <1>5, <2>1, <2>2, <2>3, CarriedPast
  <1>9. QED
    BY <1>5, <1>7, <1>8, StuckStep

LEMMA HearSyncSound ==
    ASSUME IInv, IInv', NEW p \in Pages, HearSync(p), NEW id \in Ids, Honest(id),
           NothingStuck(id), id \notin fallen'
    PROVE  Honest(id)' /\ NothingStuck(id)'
  <1>1. PICK g \in inbox[p] :
           /\ g.type = "sync" /\ Opens(p, g)
           /\ IF g.to # p THEN UNCHANGED <<page, out>>
              ELSE /\ Applied(p, g.elements)
                   /\ out' = [out EXCEPT ![p] = @ \o PatchOf(p, Missing(told'[p], g.have))]
                   /\ UNCHANGED <<untold, saved>>
    BY DEF HearSync
  <1>2. /\ Ready(p) /\ link[p] # "closed" /\ g \in Frames
        /\ \A a \in Pages : Ready(a)' <=> Ready(a)
        /\ \A a \in Pages : inbox'[a] \subseteq inbox[a] /\ inbox[a] \ inbox'[a] \subseteq {g}
        /\ \A a \in Pages \ {p} : inbox[a] \subseteq inbox'[a]
        /\ UNCHANGED <<saved, link, reading, board>>
    BY <1>1, OpensLinks
  <1>3. /\ Shown(board'[id], id) /\ \A q \in Pages : reading'[q] = reading[q]
        /\ \A q \in Pages : \A f \in inbox'[q] : f \in inbox[q]
    BY <1>2 DEF Honest
  <1>4. CASE g.to # p
    <2>1. UNCHANGED <<scene, mirror, told, untold>> /\ \A q \in Pages : Sent(q)' = Sent(q)
      BY <1>1, <1>4 DEF page, Sent
    <2>2. \A q \in Pages : FollowedBy(q, id)'
      BY <1>2, <2>1, SameFollowed DEF Honest
    <2>3. /\ Grows(id) /\ \A r \in Pages : \E s \in Pages : Older(scene'[r][id], scene[s][id])
      BY <2>1, SameGrows
    <2>4. Honest(id)'
      <3>1. \A q \in Pages : \A f \in Sent(q)' : f \in Sent(q)
        BY <2>1
      <3>2. QED
        BY <1>3, <2>2, <2>3, <3>1, HonestStep
    <2>5. Carried(id)
      <3>1. \A y : ~Comes(g, p, id, y)
        BY <1>1, <1>4 DEF Comes
      <3>2. \A q \in Pages : ~AsksFor(g, q, p)
        BY <1>1, <1>4 DEF AsksFor
      <3>3. \A a \in Pages : Sent(a) \subseteq Sent(a)'
        BY <2>1
      <3>4. QED
        BY <1>2, <2>3, <3>1, <3>2, <3>3, CarriedPast
    <2>6. QED
      BY <2>3, <2>4, <2>5, StuckStep
  <1>5. CASE g.to = p
    <2>1. PICK patch, known, lacking, more :
             /\ patch = g.elements /\ known = told'[p]
             /\ lacking = Missing(known, g.have) /\ more = PatchOf(p, lacking)
      OBVIOUS
    <2>2. patch \in Copies /\ Shown(patch[id], id)
      BY <1>1, <2>1, HeardIsShown
    <2>3. /\ Grows(id) /\ \A q \in Pages : FollowedBy(q, id)'
          /\ \A r \in Pages : \E s \in Pages : Older(scene'[r][id], scene[s][id])
          /\ Older(patch[id], scene'[p][id])
      BY <1>1, <1>2, <1>5, <2>1, <2>2, AppliedSound
    <2>4. PICK x : x = scene'[p][id]
      OBVIOUS
    <2>5. x \in Plain /\ known \in Copies /\ known[id] = x /\ g.have \in Inventories
      <3>1. known \in Copies
        BY <2>1 DEF IInv, PageTypes
      <3>2. Ready(p)'
        BY <1>2
      <3>3. id \notin untold'[p]
        BY <3>2 DEF IInv, Kept, ToldOrNoted
      <3>4. x \in Plain /\ known[id] = x
        BY <2>1, <2>3, <2>4, <3>3 DEF FollowedBy
      <3>5. QED
        BY <1>1, <1>2, <3>1, <3>4 DEF Frames
    <2>6. /\ lacking \in Copies /\ lacking[id] \in {Absent, x}
          /\ \A y \in Plain : StampUpTo(g.have[id], y) /\ ~Older(x, y) => lacking[id] = x
      <3>1. lacking \in Copies
        BY <2>1, <2>5, MissingType
      <3>2. QED
        BY <2>1, <2>5, <3>1, MissingFacts
    <2>7. /\ more \in Seq(Frames)
          /\ \A f \in Range(more) : f = PatchFrame(p, lacking)
          /\ lacking[id] # Absent => PatchFrame(p, lacking) \in Range(more)
      BY <2>1, <2>6, RangeOfPatch
    <2>8. /\ Sent(p)' = Sent(p) \cup Range(more)
          /\ \A q \in Pages \ {p} : Sent(q)' = Sent(q)
      BY <1>1, <1>5, <2>1, <2>7, SendsMore
    <2>9. Honest(id)'
      <3>1. \A f \in Range(more) : f.from = p /\ Says(f, id, x)
        BY <2>5, <2>6, <2>7, PlainOrder DEF Says, PatchFrame
      <3>2. \A q \in Pages : \A f \in Sent(q)' :
                f \in Sent(q) \/ (f.from = q /\ Says(f, id, scene'[q][id]))
        BY <2>4, <2>8, <3>1
      <3>3. QED
        BY <1>3, <2>3, <3>2, HonestStep
    <2>10. Carried(id)
      <3>1. ASSUME NEW y \in Plain, Comes(g, p, id, y), ~Older(y, scene'[p][id])
            PROVE  OnItsWay(p, id, y)'
        <4>1. Older(y, patch[id])
          BY <1>1, <2>1, <3>1 DEF Comes
        <4>2. patch[id] \in Plain /\ scene'[p][id] \in Plain
          BY <2>2, <2>3 DEF Shown, Grows
        <4>3. QED
          BY <2>3, <3>1, <4>1, <4>2, PlainOrder
      <3>2. ASSUME NEW q \in Pages \ {p}, NEW y \in Plain, AsksFor(g, q, p), HasIt(p, id, y),
                   ~Older(y, scene'[q][id])
            PROVE  OnItsWay(q, id, y)'
        <4>1. /\ g.from = q /\ scene[q][id] \in Plain /\ StampUpTo(g.have[id], scene[q][id])
              /\ scene[p][id] \in Plain
          BY <1>1, <3>2 DEF AsksFor, Honest, FollowedBy, Says
        <4>2. Older(y, scene[p][id]) /\ Older(scene[p][id], x) /\ Older(scene[q][id], scene'[q][id])
          BY <2>3, <2>4, <3>2 DEF HasIt, Grows
        <4>3. scene'[q][id] \in Plain
          BY <2>3 DEF Grows
        <4>4. Older(y, x) /\ ~Older(x, scene[q][id])
          BY <2>5, <3>2, <4>1, <4>2, <4>3, PlainOrder
        <4>5. lacking[id] = x /\ x # Absent
          BY <2>5, <2>6, <4>1, <4>4, PlainOrder
        <4>6. PatchFrame(p, lacking) \in Sent(p)'
          BY <2>7, <2>8, <4>5
        <4>7. Comes(PatchFrame(p, lacking), q, id, y)'
          <5>1. PICK f : f = PatchFrame(p, lacking)
            OBVIOUS
          <5>2. f.type = "patch" /\ f.elements = lacking
            BY <5>1 DEF PatchFrame
          <5>3. Comes(f, q, id, y)'
            BY <4>4, <4>5, <5>2 DEF Comes
          <5>4. QED
            BY <5>1, <5>3
        <4>8. QED
          BY <1>2, <4>6, <4>7 DEF OnItsWay
      <3>3. \A a \in Pages : Sent(a) \subseteq Sent(a)'
        BY <2>8
      <3>4. QED
        BY <1>2, <2>3, <3>1, <3>2, <3>3, CarriedPast
    <2>11. QED
      BY <2>3, <2>9, <2>10, StuckStep
  <1>6. QED
    BY <1>4, <1>5

(* A user changes something: a page that is linked sends its new copy, the  *)
(* others have it ready for when they join.                                 *)
LEMMA ChangedSound ==
    ASSUME IInv, IInv', NEW p \in Pages, NEW now \in Copies, NEW noted \in SUBSET Ids,
           Changed(p, now, noted), NEW id \in Ids, Honest(id), NothingStuck(id),
           id \notin noted => now[id] = scene[p][id],
           id \in noted => now[id] \in Plain /\ ~Older(now[id], scene[p][id])
    PROVE  Honest(id)' /\ NothingStuck(id)'
  <1>1. /\ link[p] # "closed"
        /\ scene' = [scene EXCEPT ![p] = now]
        /\ mirror' = [mirror EXCEPT ![p] = [i \in Ids |-> IF i \in noted THEN Live(now)[i]
                                                          ELSE mirror[p][i]]]
        /\ UNCHANGED <<saved, link, inbox, reading, board>>
    BY DEF Changed
  <1>2. PICK x, old, m : x = now[id] /\ old = scene[p][id] /\ m = mirror'[p]
    OBVIOUS
  <1>3. /\ scene'[p] = now /\ \A q \in Pages \ {p} : scene'[q] = scene[q] /\ mirror'[q] = mirror[q]
    BY <1>1 DEF IInv, PageTypes
  <1>4. /\ FollowedBy(p, id) /\ old \in Plain /\ told[p] \in Copies /\ told[p][id] \in Plain
        /\ Older(told[p][id], old) /\ mirror[p][id] = old
    BY <1>2 DEF Honest, FollowedBy, IInv, PageTypes
  <1>5. x \in Plain /\ Older(old, x) /\ (id \notin noted => x = old) /\ (id \in noted => ~Older(x, old))
    BY <1>2, <1>4, PlainOrder
  <1>6. m[id] = x
    <2>1. m = [i \in Ids |-> IF i \in noted THEN Live(now)[i] ELSE mirror[p][i]]
      <3>1. mirror \in [Pages -> Copies]
        BY DEF IInv, PageTypes
      <3>2. QED
        BY <1>1, <1>2, <3>1
    <2>2. Live(now)[id] = x
      BY <1>2, <1>5 DEF Live, LiveOf, IsLive, Plain
    <2>3. QED
      BY <1>4, <1>5, <2>1, <2>2
  <1>7. Grows(id)
    <2>1. \A q \in Pages : scene[q][id] \in Plain
      BY DEF Honest, FollowedBy
    <2>2. QED
      BY <1>2, <1>3, <1>5, <2>1, PlainOrder DEF Grows
  <1>8. Older(told[p][id], x)
    BY <1>4, <1>5, PlainOrder
  <1>9. Ready(p) =>
          /\ told'[p][id] = x /\ untold'[p] = {}
          /\ \A f \in Sent(p)' : f \in Sent(p) \/ (f.from = p /\ Says(f, id, x))
          /\ id \in noted => \E f \in Sent(p)' : f.type = "patch" /\ f.elements[id] = x
          /\ Sent(p) \subseteq Sent(p)'
          /\ \A q \in Pages \ {p} : Sent(q)' = Sent(q) /\ told'[q] = told[q] /\ untold'[q] = untold[q]
    <2> SUFFICES ASSUME Ready(p)
                 PROVE  /\ told'[p][id] = x /\ untold'[p] = {}
                        /\ \A f \in Sent(p)' : f \in Sent(p) \/ (f.from = p /\ Says(f, id, x))
                        /\ id \in noted => \E f \in Sent(p)' : f.type = "patch" /\ f.elements[id] = x
                        /\ Sent(p) \subseteq Sent(p)'
                        /\ \A q \in Pages \ {p} : /\ Sent(q)' = Sent(q) /\ told'[q] = told[q]
                                                  /\ untold'[q] = untold[q]
      OBVIOUS
    <2>1. PICK nonce \in HostNonces[p] :
             LET patch == Taken(p, untold[p] \cup noted, mirror'[p], nonce)
             IN  Took(p, patch) /\ out' = [out EXCEPT ![p] = @ \o PatchOf(p, patch)]
      BY DEF Changed
    <2>2. untold[p] = {}
      BY DEF IInv, Kept, ToldOrNoted
    <2>3. PICK known : known = told[p]
      OBVIOUS
    <2>4. PICK patch : patch = Changes(known, noted, m, nonce)
      OBVIOUS
    <2>5. PICK more : more = PatchOf(p, patch)
      OBVIOUS
    <2>6. /\ m \in Copies /\ known \in Copies /\ nonce \in Nat
          /\ \A i \in Ids : m[i] = Absent \/ LiveOf(m, i)
      <3>1. m \in Copies /\ \A i \in Ids : m[i] = Absent \/ LiveOf(m, i)
        BY <1>2 DEF IInv, PageTypes, Kept, MirrorIsLive, LiveOf
      <3>2. QED
        BY <2>3, <3>1, LiveSceneAssumption DEF IInv, PageTypes
    <2>7. Took(p, patch) /\ out' = [out EXCEPT ![p] = @ \o more]
      BY <1>2, <2>1, <2>2, <2>3, <2>4, <2>5 DEF Taken
    <2>8. /\ patch \in Copies /\ patch[id] \in {Absent, x}
          /\ id \notin noted => patch[id] = Absent
          /\ id \in noted => patch[id] = x \/ known[id] = x
      <3>1. patch \in Copies
        BY <2>4, <2>6, ChangesFacts
      <3>2. known[id] \in Plain /\ m[id] \in Plain /\ Older(known[id], m[id])
        BY <1>4, <1>5, <1>6, <1>8, <2>3
      <3>3. /\ patch[id] \in {Absent, m[id]}
            /\ id \notin noted => patch[id] = Absent
            /\ id \in noted => patch[id] = m[id] \/ known[id] = m[id]
        BY <2>4, <2>6, <3>2, PlainChange
      <3>4. QED
        BY <1>6, <3>1, <3>3
    <2>9. id \in noted => patch[id] = x /\ x # Absent
      <3>1. known[id] = x => Older(x, old)
        BY <1>4, <2>3
      <3>2. QED
        BY <1>4, <1>5, <2>8, <3>1, PlainOrder
    <2>10. told'[p] = Over(known, patch) /\ untold'[p] = {}
           /\ \A q \in Pages \ {p} : told'[q] = told[q] /\ untold'[q] = untold[q]
      BY <2>3, <2>7 DEF Took, IInv, PageTypes
    <2>11. told'[p][id] = x
      <3>1. Over(known, patch)[id] = IF patch[id] = Absent THEN known[id] ELSE patch[id]
        BY <2>6, <2>8, OverFacts
      <3>2. known[id] = old
        BY <1>2, <1>4, <2>2, <2>3 DEF FollowedBy
      <3>3. QED
        BY <1>5, <2>8, <2>9, <2>10, <3>1, <3>2
    <2>12. /\ more \in Seq(Frames) /\ \A f \in Range(more) : f = PatchFrame(p, patch)
           /\ patch[id] # Absent => PatchFrame(p, patch) \in Range(more)
      BY <2>5, <2>8, RangeOfPatch
    <2>13. Sent(p)' = Sent(p) \cup Range(more) /\ \A q \in Pages \ {p} : Sent(q)' = Sent(q)
      BY <2>7, <2>12, SendsMore
    <2>14. \A f \in Range(more) : f.from = p /\ Says(f, id, x)
      BY <1>5, <2>8, <2>12, PlainOrder DEF Says, PatchFrame
    <2>15. id \in noted => \E f \in Sent(p)' : f.type = "patch" /\ f.elements[id] = x
      <3>1. PatchFrame(p, patch).type = "patch" /\ PatchFrame(p, patch).elements = patch
        BY DEF PatchFrame
      <3>2. id \in noted => PatchFrame(p, patch) \in Sent(p)'
        BY <2>9, <2>12, <2>13
      <3>3. QED
        BY <2>9, <3>1, <3>2
    <2>16. QED
      BY <2>10, <2>11, <2>13, <2>14, <2>15
  <1>10. ~Ready(p) => /\ told' = told /\ untold' = [untold EXCEPT ![p] = @ \cup noted]
                      /\ \A q \in Pages : Sent(q)' = Sent(q)
    <2>1. ~Ready(p) => UNCHANGED <<told, out>> /\ untold' = [untold EXCEPT ![p] = @ \cup noted]
      BY DEF Changed
    <2>2. QED
      BY <2>1 DEF Sent
  <1>11. \A q \in Pages : FollowedBy(q, id)'
    <2>1. FollowedBy(p, id)'
      <3>1. told'[p][id] \in Plain /\ Older(told'[p][id], x) /\ (id \in untold'[p] \/ told'[p][id] = x)
        <4>1. CASE Ready(p)
          BY <1>5, <1>9, <4>1, PlainOrder
        <4>2. CASE ~Ready(p)
          <5>1. told'[p][id] = told[p][id] /\ untold'[p] = untold[p] \cup noted
            BY <1>10, <4>2 DEF IInv, PageTypes
          <5>2. id \in untold[p] \/ told[p][id] = old
            BY <1>2, <1>4 DEF FollowedBy
          <5>3. QED
            BY <1>4, <1>5, <1>8, <5>1, <5>2
        <4>3. QED
          BY <4>1, <4>2
      <3>2. saved[p][id] \in Plain /\ Older(saved[p][id], x)
        BY <1>2, <1>4, <1>5, PlainOrder DEF FollowedBy
      <3>3. QED
        BY <1>1, <1>2, <1>3, <1>5, <1>6, <3>1, <3>2 DEF FollowedBy
    <2>2. \A q \in Pages \ {p} : told'[q] = told[q] /\ untold'[q] = untold[q]
      BY <1>9, <1>10 DEF IInv, PageTypes
    <2>3. \A q \in Pages \ {p} : FollowedBy(q, id)'
      BY <1>1, <1>3, <2>2, SameFollowed DEF Honest
    <2>4. QED
      BY <2>1, <2>3
  <1>12. \A q \in Pages : Sent(q) \subseteq Sent(q)'
    BY <1>9, <1>10
  <1>13. Honest(id)'
    <2>1. Shown(board'[id], id) /\ \A q \in Pages : reading'[q] = reading[q]
      BY <1>1 DEF Honest
    <2>2. \A q \in Pages : \A f \in Sent(q)' :
              f \in Sent(q) \/ (f.from = q /\ Says(f, id, scene'[q][id]))
      BY <1>2, <1>3, <1>9, <1>10
    <2>3. \A q \in Pages : \A f \in inbox'[q] : f \in inbox[q]
      BY <1>1
    <2>4. QED
      BY <1>7, <1>11, <2>1, <2>2, <2>3, HonestStep
  <1>14. \A a \in Pages : Ready(a)' <=> Ready(a)
    BY <1>1 DEF Ready
  <1>15. Carried(id)
    BY <1>1, <1>7, <1>12, <1>14, CarriedOn
  <1>16. ASSUME NEW q \in Pages, NEW r \in Pages
         PROVE  \/ \E s \in Pages : Older(scene'[r][id], scene[s][id])
                \/ Ready(q)' /\ ~Older(scene'[r][id], scene'[q][id])
                      => OnItsWay(q, id, scene[r][id])'
    <2>1. CASE r # p \/ id \notin noted
      <3>1. scene'[r][id] = scene[r][id] /\ scene[r][id] \in Plain
        BY <1>2, <1>3, <1>5, <2>1 DEF Honest, FollowedBy
      <3>2. QED
        BY <3>1, PlainOrder
    <2>2. CASE r = p /\ id \in noted
      <3> SUFFICES ASSUME ~Older(x, scene'[q][id])
                   PROVE  OnItsWay(q, id, x)'
        BY <1>2, <1>3, <2>2
      <3>1. q # p /\ HasIt(p, id, x)'
        BY <1>2, <1>3, <1>5, PlainOrder DEF HasIt
      <3>2. CASE ~Ready(p)
        BY <1>14, <3>1, <3>2 DEF OnItsWay
      <3>3. CASE Ready(p)
        <4>1. PICK f \in Sent(p)' : f.type = "patch" /\ f.elements[id] = x
          BY <1>9, <2>2, <3>3
        <4>2. Comes(f, q, id, x)'
          BY <1>5, <4>1, PlainOrder DEF Comes
        <4>3. QED
          BY <1>14, <3>1, <3>3, <4>1, <4>2 DEF OnItsWay
      <3>4. QED
        BY <3>2, <3>3
    <2>3. QED
      BY <2>1, <2>2
  <1>17. QED
    BY <1>7, <1>13, <1>15, <1>16, StuckStep

LEMMA UserSound ==
    ASSUME IInv, IInv', NEW p \in Pages, UserActs(p), NEW id \in Ids, Honest(id),
           NothingStuck(id), id \notin erased'
    PROVE  Honest(id)' /\ NothingStuck(id)'
  <1>1. PICK i \in Ids : Draw(p, i) \/ Edit(p, i) \/ Erase(p, i)
    BY DEF UserActs
  <1>2. \A nonce \in Nonces[p] : nonce \in Nat
    BY LiveSceneAssumption
  <1>3. scene[p] \in Copies /\ scene[p][id] \in Plain
    BY DEF IInv, PageTypes, Honest, FollowedBy
  <1>4. CASE Draw(p, i)
    <2>1. PICK nonce \in Nonces[p] : Changed(p, [scene[p] EXCEPT ![i] = Drawn(nonce)], {i})
      BY <1>4 DEF Draw
    <2>2. PICK new, now : new = Drawn(nonce) /\ now = [scene[p] EXCEPT ![i] = new]
      OBVIOUS
    <2>3. new \in Untimed /\ new \in Plain /\ new # Absent
      <3>1. new \in Element /\ ~new.isDeleted /\ new.picture = NoPicture /\ new.updated = 0
        BY <1>2, <2>2 DEF Drawn, Element
      <3>2. QED
        BY <3>1, ReconcileAssumption DEF Plain, Untimed
    <2>4. now \in Copies /\ now[i] = new /\ \A j \in Ids \ {i} : now[j] = scene[p][j]
      BY <1>3, <2>2, <2>3 DEF Copies
    <2>5. scene[p][i] = Absent
      BY <1>4 DEF Draw
    <2>6. id = i => now[id] \in Plain /\ ~Older(now[id], scene[p][id])
      BY <2>3, <2>4, <2>5, PlainOrder
    <2>7. Changed(p, now, {i})
      BY <2>1, <2>2
    <2>8. QED
      BY <2>4, <2>6, <2>7, ChangedSound
  <1>5. CASE Edit(p, i)
    <2>1. PICK nonce \in Nonces[p] :
             Changed(p, [scene[p] EXCEPT ![i].version = @ + 1, ![i].versionNonce = nonce], {i})
      BY <1>5 DEF Edit
    <2>2. PICK e : e = scene[p][i]
      OBVIOUS
    <2>3. PICK v : v = e.version + 1
      OBVIOUS
    <2>4. PICK new : new = [e EXCEPT !.version = v, !.versionNonce = nonce]
      OBVIOUS
    <2>5. PICK now : now = [scene[p] EXCEPT ![i] = new]
      OBVIOUS
    <2>6. e \in Element /\ e.updated = 0 /\ nonce \in Nat /\ v \in Nat /\ v > e.version
      <3>1. e \in Element /\ e.updated = 0 /\ nonce \in Nat
        BY <1>2, <1>3, <1>5, <2>2 DEF Edit, LiveOf, IsLive, Copies, Untimed
      <3>2. QED
        BY <2>3, <3>1 DEF Element
    <2>7. /\ new \in Element /\ new.version = v /\ new.updated = 0
          /\ new.isDeleted = e.isDeleted /\ new.picture = e.picture
      BY <2>4, <2>6 DEF Element
    <2>8. /\ now \in Copies /\ now[i] = new /\ \A j \in Ids \ {i} : now[j] = scene[p][j]
      <3>1. new \in Untimed
        BY <2>7 DEF Untimed
      <3>2. QED
        BY <1>3, <2>5, <3>1 DEF Copies
    <2>9. Changed(p, now, {i})
      <3>1. [scene[p] EXCEPT ![i].version = @ + 1, ![i].versionNonce = nonce] = now
        BY <1>3, <2>2, <2>3, <2>4, <2>5 DEF Copies
      <3>2. QED
        BY <2>1, <3>1
    <2>10. id = i => now[id] \in Plain /\ ~Older(now[id], scene[p][id])
      <3>1. SUFFICES ASSUME id = i PROVE new \in Plain /\ ~Older(new, e)
        BY <2>2, <2>8
      <3>2. e # Absent /\ new # Absent
        BY <2>6, <2>7, ReconcileAssumption
      <3>3. new \in Plain
        BY <1>3, <2>2, <2>7, <3>1, <3>2 DEF Plain
      <3>4. IsNewer(new, e)
        BY <2>6, <2>7 DEF IsNewer, Element
      <3>5. QED
        BY <3>2, <3>3, <3>4 DEF Older
    <2>11. QED
      BY <2>8, <2>9, <2>10, ChangedSound
  <1>6. CASE Erase(p, i)
    <2>1. PICK nonce \in Nonces[p] :
             Changed(p, [scene[p] EXCEPT ![i].version = @ + 1, ![i].versionNonce = nonce,
                                         ![i].isDeleted = TRUE], {i})
      BY <1>6 DEF Erase
    <2>2. PICK e : e = scene[p][i]
      OBVIOUS
    <2>3. PICK v : v = e.version + 1
      OBVIOUS
    <2>4. PICK new : new = [e EXCEPT !.version = v, !.versionNonce = nonce, !.isDeleted = TRUE]
      OBVIOUS
    <2>5. PICK now : now = [scene[p] EXCEPT ![i] = new]
      OBVIOUS
    <2>6. e \in Element /\ e.updated = 0 /\ nonce \in Nat /\ v \in Nat
      <3>1. e \in Element /\ e.updated = 0 /\ nonce \in Nat
        BY <1>2, <1>3, <1>6, <2>2 DEF Erase, LiveOf, IsLive, Copies, Untimed
      <3>2. QED
        BY <2>3, <3>1 DEF Element
    <2>7. new \in Element /\ new.updated = 0 /\ new.isDeleted
      BY <2>4, <2>6 DEF Element
    <2>8. /\ now \in Copies /\ now[i] = new /\ \A j \in Ids \ {i} : now[j] = scene[p][j]
      <3>1. new \in Untimed
        BY <2>7 DEF Untimed
      <3>2. QED
        BY <1>3, <2>5, <3>1 DEF Copies
    <2>9. Changed(p, now, {i})
      <3>1. [scene[p] EXCEPT ![i].version = @ + 1, ![i].versionNonce = nonce,
                             ![i].isDeleted = TRUE] = now
        BY <1>3, <2>2, <2>3, <2>4, <2>5 DEF Copies
      <3>2. QED
        BY <2>1, <3>1
    <2>10. i \in erased'
      BY <2>7, <2>8, <2>9 DEF Changed
    <2>11. QED
      BY <2>8, <2>9, <2>10, ChangedSound
  <1>7. QED
    BY <1>1, <1>4, <1>5, <1>6

LEMMA InitSound == Init => SoundKept
  <1> SUFFICES ASSUME Init, NEW id \in Ids
               PROVE  Honest(id) /\ NothingStuck(id)
    BY DEF SoundKept
  <1>1. PICK ids \in Boards : board = [i \in Ids |-> IF i \in ids THEN Drawn(0) ELSE Absent]
    BY Zenon DEF Init
  <1>2. PICK open \in (SUBSET Pages) \ {{}} :
          /\ link = [p \in Pages |-> IF p \in open THEN "ready" ELSE "closed"]
          /\ scene = [p \in Pages |-> IF p \in open THEN board ELSE None]
    BY Zenon DEF Init
  <1>3. /\ mirror = scene /\ told = scene /\ saved = scene
        /\ out = Everyone(<<>>) /\ inbox = Everyone({}) /\ reading = Everyone(Nothing)
    BY DEF Init
  <1>4. PICK x : x = board[id]
    OBVIOUS
  <1>5. x \in Plain
    <2>1. Drawn(0) \in Element /\ Drawn(0).updated = 0 /\ ~Drawn(0).isDeleted /\ Drawn(0).picture = NoPicture
      BY DEF Drawn, Element
    <2>2. Drawn(0) \in Plain
      BY <2>1 DEF Plain
    <2>3. QED
      BY <1>1, <1>4, <2>2, PlainOrder
  <1>6. \A p \in Pages : /\ scene[p][id] = IF p \in open THEN x ELSE Absent
                         /\ link[p] = IF p \in open THEN "ready" ELSE "closed"
                         /\ reading[p] = Nothing /\ inbox[p] = {} /\ out[p] = <<>>
    BY <1>2, <1>3, <1>4 DEF None, Everyone
  <1>7. \A p \in Pages : Sent(p) = {}
    BY <1>6, EmptyRange DEF Sent
  <1>8. \A p \in Pages : FollowedBy(p, id)
    BY <1>3, <1>5, <1>6, PlainOrder DEF FollowedBy
  <1>9. Shown(board[id], id)
    <2>1. PICK p \in Pages : p \in open
      OBVIOUS
    <2>2. QED
      BY <1>4, <1>5, <1>6, <2>1, PlainOrder DEF Shown
  <1>10. Honest(id)
    BY <1>6, <1>7, <1>8, <1>9 DEF Honest
  <1>11. NothingStuck(id)
    BY <1>5, <1>6, PlainOrder DEF NothingStuck, Ready
  <1>12. QED
    BY <1>10, <1>11

(* Whatever a user does, the histories grow. *)
LEMMA UserHistory ==
    ASSUME NEW p \in Pages, UserActs(p)
    PROVE  erased \subseteq erased' /\ fallen' = fallen /\ breaks' = breaks
  <1>1. ASSUME NEW now, NEW id \in Ids, Changed(p, now, {id})
        PROVE  erased \subseteq erased' /\ fallen' = fallen /\ breaks' = breaks
    BY <1>1 DEF Changed
  <1>2. PICK id \in Ids : Draw(p, id) \/ Edit(p, id) \/ Erase(p, id)
    BY DEF UserActs
  <1>3. CASE Draw(p, id)
    BY <1>1, <1>3 DEF Draw
  <1>4. CASE Edit(p, id)
    BY <1>1, <1>4 DEF Edit
  <1>5. CASE Erase(p, id)
    BY <1>1, <1>5 DEF Erase
  <1>6. QED
    BY <1>2, <1>3, <1>4, <1>5

LEMMA NextSound == IInv /\ IInv' /\ SoundKept /\ [Next]_vars => SoundKept'
  <1> SUFFICES ASSUME IInv, IInv', SoundKept, [Next]_vars, NEW id \in Ids, Sound(id)'
               PROVE  Honest(id)' /\ NothingStuck(id)'
    BY DEF SoundKept
  <1>1. CASE UNCHANGED vars
    <2>1. UNCHANGED <<scene, mirror, told, untold, saved, link, out, inbox, reading, board,
                      erased, fallen>>
      BY <1>1 DEF vars, page, wire, bounds
    <2>2. Sound(id)
      BY <2>1 DEF Sound
    <2>3. /\ Honest(id) /\ NothingStuck(id)
      BY <2>2 DEF SoundKept
    <2>4. Shown(board'[id], id) /\ \A q \in Pages : FollowedBy(q, id)'
      BY <2>1, <2>3, SameFollowed DEF Honest
    <2>5. QED
      BY <2>1, <2>3, <2>4, SameGrows, StillSound DEF Ready
  <1>2. CASE Next
    <2>1. PICK p \in Pages :
             \/ UserActs(p) \/ Save(p) \/ Open(p)
             \/ Join(p) \/ Relayed(p) \/ Drop(p)
             \/ Hears(p) \/ Served(p) \/ CaughtUp(p)
      BY <1>2 DEF Next
    <2>2. id \notin erased' /\ id \notin fallen'
      BY DEF Sound
    <2>3. erased \subseteq erased' /\ fallen \subseteq fallen'
      <3>1. CASE UserActs(p)
        BY <3>1, UserHistory
      <3>2. CASE Save(p) \/ Open(p) \/ Join(p) \/ Relayed(p) \/ Drop(p) \/ Served(p)
        BY <3>2 DEF Save, Open, Join, Relayed, Drop, Served, page, bounds
      <3>3. CASE Hears(p) \/ CaughtUp(p)
        BY <3>3 DEF Hears, HearJoin, HearSync, HearPatch, CaughtUp, Opens, Applied, page, bounds
      <3>4. QED
        BY <2>1, <3>1, <3>2, <3>3
    <2>4. Honest(id) /\ NothingStuck(id)
      BY <2>2, <2>3 DEF SoundKept, Sound
    <2>5. CASE UserActs(p)
      BY <2>2, <2>4, <2>5, UserSound
    <2>6. CASE Save(p) \/ Open(p)
      BY <2>4, <2>6, SaveSound, OpenSound
    <2>7. CASE Join(p) \/ Relayed(p) \/ Drop(p)
      BY <2>4, <2>7, JoinSound, RelayedSound, DropSound
    <2>8. CASE Hears(p)
      BY <2>2, <2>4, <2>8, HearJoinSound, HearSyncSound, HearPatchSound DEF Hears
    <2>9. CASE Served(p) \/ CaughtUp(p)
      BY <2>2, <2>4, <2>9, ServedSound, CaughtUpSound
    <2>10. QED
      BY <2>1, <2>5, <2>6, <2>7, <2>8, <2>9
  <1>3. QED
    BY <1>1, <1>2

(* Linked pages that have heard all there is to hear of such an element     *)
(* show the same copy of it.                                                *)
LEMMA SoundAgrees ==
    ASSUME SoundKept, AtRest, NEW id \in Ids, Sound(id), NEW p \in Pages, NEW q \in Pages,
           IsOpen(p), IsOpen(q)
    PROVE  scene[p][id] = scene[q][id]
  <1>1. Honest(id) /\ NothingStuck(id)
    BY DEF SoundKept
  <1>2. \A a \in Pages : scene[a][id] \in Plain /\ (~Ready(a) => scene[a][id] = Absent)
    BY <1>1 DEF AtRest, IsOpen, Honest, FollowedBy
  <1>3. \A a \in Pages : Ready(a) => Sent(a) = {} /\ inbox[a] = {}
    BY EmptyRange DEF AtRest, IsOpen, Ready, Sent
  <1>4. Ready(p) /\ Ready(q)
    BY DEF AtRest
  <1>5. ASSUME NEW a \in Pages, NEW r \in Pages, Ready(a), ~Older(scene[r][id], scene[a][id])
        PROVE  FALSE
    <2>1. PICK x : x = scene[r][id]
      OBVIOUS
    <2>2. OnItsWay(a, id, x)
      BY <1>1, <1>5, <2>1 DEF NothingStuck
    <2>3. x \in Plain /\ x # Absent
      BY <1>2, <1>5, <2>1, PlainOrder
    <2>4. \A b \in Pages : ~Ready(b) => ~HasIt(b, id, x)
      BY <1>2, <2>3, PlainOrder DEF HasIt
    <2>5. QED
      BY <1>3, <1>5, <2>2, <2>4 DEF OnItsWay
  <1>6. Older(scene[p][id], scene[q][id]) /\ Older(scene[q][id], scene[p][id])
    BY <1>4, <1>5
  <1>7. QED
    BY <1>2, <1>6, PlainOrder

-----------------------------------------------------------------------------
(* While no link broke and nobody came late, what one user alone did to an  *)
(* element, erasing it included: the page's tracker has the copy the room   *)
(* is to end with, and everything else said or shown of it comes before.    *)
LeadsTo(x, y) == x = y \/ x = Absent \/ (y # Absent /\ x.version < y.version)

(* What the tracker said, against what the engine has: a deletion has two   *)
(* stamps of one version.                                                   *)
Tells(x, y) ==
    IF y = Absent THEN x = Absent
    ELSE /\ x # Absent /\ x.version = y.version /\ x.isDeleted = y.isDeleted
         /\ ~y.isDeleted => x = y

Undisturbed ==
    \A p \in Pages :
        /\ link[p] \in {"closed", "ready"} /\ reading[p] = Nothing
        /\ \A f \in Sent(p) \cup inbox[p] : f.type = "patch"
        /\ link[p] = "closed" => \A id \in Ids : scene[p][id] = Absent

Untouched(id) ==
    /\ \A p \in Pages : \A f \in Sent(p) \cup inbox[p] : f.elements[id] = Absent
    /\ \A p \in Pages : told[p][id] = scene[p][id]
    /\ \A p, q \in Pages : Ready(p) /\ Ready(q) => scene[p][id] = scene[q][id]

OnlyBy(p, id) ==
    /\ Ready(p) /\ Tells(told[p][id], scene[p][id])
    /\ \A f \in inbox[p] : f.elements[id] = Absent
    /\ \A q \in Pages \ {p} :
          /\ \A f \in Sent(q) : f.elements[id] = Absent
          /\ \A f \in inbox[q] \cup Sent(p) : LeadsTo(f.elements[id], told[p][id])
          /\ LeadsTo(scene[q][id], told[p][id])
          /\ Ready(q) => \/ scene[q][id] = told[p][id]
                         \/ \E f \in inbox[q] \cup Sent(p) : f.elements[id] = told[p][id]

OneAtMost(id) ==
    /\ changers[id] = {} => Untouched(id)
    /\ \A p \in Pages : changers[id] = {p} => OnlyBy(p, id)

Unbroken == breaks = 0 => Undisturbed /\ \A id \in Ids : OneAtMost(id)

(* What a tracker says of a change the page's user made: one version up.    *)
LEMMA NextStamp ==
    ASSUME NEW known \in Copies, NEW elements \in Copies, NEW id \in Ids, NEW nonce \in Nat,
           NEW new \in Untimed, new # Absent,
           elements[id] = IF IsLive(new) THEN new ELSE Absent,
           \/ known[id] = Absent /\ ~new.isDeleted
           \/ IsLive(known[id]) /\ new.version = known[id].version + 1
    PROVE  LET y == Change([known |-> known], elements, id, nonce)
           IN  y # Absent /\ Tells(y, new) /\ LeadsTo(known[id], y)
  <1>1. PICK x, y : x = known[id] /\ y = Change([known |-> known], elements, id, nonce)
    OBVIOUS
  <1>2. new \in Element /\ (x # Absent => x \in Element)
    BY <1>1 DEF Copies, Untimed
  <1>3. CASE ~new.isDeleted
    <2>1. IsLive(new) /\ elements[id] = new
      BY <1>3 DEF IsLive
    <2>2. y = ChangeOf([known |-> known], new, id, nonce)
      BY <1>1, <2>1 DEF Change, LiveOf
    <2>3. x # Absent => ~x.isDeleted /\ ~SameStamp(x, new) /\ x.version < new.version
      BY <1>1, <1>2 DEF IsLive, SameStamp, Element
    <2>4. y = new
      BY <1>1, <2>2, <2>3 DEF ChangeOf
    <2>5. QED
      BY <1>1, <2>3, <2>4 DEF Tells, LeadsTo
  <1>4. CASE new.isDeleted
    <2>1. IsLive(x) /\ new.version = x.version + 1 /\ elements[id] = Absent
      BY <1>1, <1>4 DEF IsLive
    <2>2. y = TombstoneOf(x, nonce) /\ x \in Element
      BY <1>1, <1>2, <2>1 DEF Change, LiveOf, IsLive
    <2>3. y \in Element /\ y.isDeleted /\ y.version = x.version + 1
      BY <2>2, Buried
    <2>4. y # Absent /\ x.version < y.version
      BY <2>2, <2>3, ReconcileAssumption DEF Element
    <2>5. Tells(y, new) /\ LeadsTo(x, y)
      BY <1>2, <1>4, <2>1, <2>3, <2>4 DEF Tells, LeadsTo, Element
    <2>6. QED
      BY <1>1, <2>4, <2>5
  <1>5. QED
    BY <1>2, <1>3, <1>4 DEF Element

LEMMA ChangeIsSent ==
    ASSUME IInv, IInv', NEW p \in Pages, Ready(p), NEW now \in Copies, NEW i \in Ids,
           Changed(p, now, {i}), told[p][i] = scene[p][i], now[i] # Absent,
           \/ scene[p][i] = Absent /\ ~now[i].isDeleted
           \/ IsLive(scene[p][i]) /\ now[i].version = scene[p][i].version + 1
    PROVE  \E patch \in Copies :
              /\ Tells(patch[i], now[i]) /\ LeadsTo(scene[p][i], patch[i]) /\ patch[i] # Absent
              /\ scene[p][i] = Absent \/ scene[p][i].version < patch[i].version
              /\ \A j \in Ids \ {i} : patch[j] = Absent
              /\ told'[p][i] = patch[i] /\ \A j \in Ids \ {i} : told'[p][j] = told[p][j]
              /\ \A q \in Pages \ {p} : told'[q] = told[q] /\ Sent(q)' = Sent(q)
              /\ Sent(p)' = Sent(p) \cup {PatchFrame(p, patch)}
  <1>1. PICK nonce \in HostNonces[p] :
           LET patch == Taken(p, untold[p] \cup {i}, mirror'[p], nonce)
           IN  Took(p, patch) /\ out' = [out EXCEPT ![p] = @ \o PatchOf(p, patch)]
    BY DEF Changed
  <1>2. untold[p] = {}
    BY DEF IInv, Kept, ToldOrNoted
  <1>3. PICK known, m : known = told[p] /\ m = mirror'[p]
    OBVIOUS
  <1>4. PICK patch : patch = Changes(known, {i}, m, nonce)
    OBVIOUS
  <1>5. PICK more : more = PatchOf(p, patch)
    OBVIOUS
  <1>6. /\ m \in Copies /\ known \in Copies /\ nonce \in Nat
        /\ \A j \in Ids : m[j] = Absent \/ LiveOf(m, j)
    <2>1. m \in Copies /\ \A j \in Ids : m[j] = Absent \/ LiveOf(m, j)
      BY <1>3 DEF IInv, PageTypes, Kept, MirrorIsLive, LiveOf
    <2>2. QED
      BY <1>3, <2>1, LiveSceneAssumption DEF IInv, PageTypes
  <1>7. Took(p, patch) /\ out' = [out EXCEPT ![p] = @ \o more]
    BY <1>1, <1>2, <1>3, <1>4, <1>5 DEF Taken
  <1>8. patch \in Copies /\ \A j \in Ids \ {i} : patch[j] = Absent
    <2>1. patch \in Copies
      BY <1>4, <1>6, ChangesFacts
    <2>2. \A j \in Ids \ {i} : patch[j] = Absent
      BY <1>4 DEF Changes
    <2>3. QED
      BY <2>1, <2>2
  <1>9. m[i] = IF IsLive(now[i]) THEN now[i] ELSE Absent
    <2>1. mirror' = [mirror EXCEPT ![p] = [j \in Ids |-> IF j \in {i} THEN Live(now)[j]
                                                         ELSE mirror[p][j]]]
      BY DEF Changed
    <2>2. m = [j \in Ids |-> IF j \in {i} THEN Live(now)[j] ELSE mirror[p][j]]
      <3>1. mirror \in [Pages -> Copies]
        BY DEF IInv, PageTypes
      <3>2. QED
        BY <1>3, <2>1, <3>1
    <2>3. QED
      BY <2>2 DEF Live, LiveOf
  <1>10. /\ Tells(patch[i], now[i]) /\ LeadsTo(scene[p][i], patch[i]) /\ patch[i] # Absent
    <2>1. PICK y : y = Change([known |-> known], m, i, nonce)
      OBVIOUS
    <2>2. now[i] \in Untimed /\ known[i] = scene[p][i]
      BY <1>3 DEF Copies
    <2>3. y # Absent /\ Tells(y, now[i]) /\ LeadsTo(known[i], y)
      BY <1>6, <1>9, <2>1, <2>2, NextStamp
    <2>4. patch[i] = y
      BY <1>4, <2>1 DEF Changes
    <2>5. QED
      BY <2>2, <2>3, <2>4
  <1>11. scene[p][i] = Absent \/ scene[p][i].version < patch[i].version
    <2>1. patch[i].version = now[i].version
      BY <1>10 DEF Tells
    <2>2. IsLive(scene[p][i]) => scene[p][i].version \in Nat
      BY DEF IInv, PageTypes, Copies, Untimed, Element, IsLive
    <2>3. QED
      BY <2>1, <2>2
  <1>12. /\ told'[p] = Over(known, patch) /\ \A q \in Pages \ {p} : told'[q] = told[q]
    BY <1>3, <1>7 DEF Took, IInv, PageTypes
  <1>13. told'[p][i] = patch[i] /\ \A j \in Ids \ {i} : told'[p][j] = told[p][j]
    BY <1>3, <1>6, <1>8, <1>10, <1>12, OverFacts
  <1>14. Sent(p)' = Sent(p) \cup {PatchFrame(p, patch)} /\ \A q \in Pages \ {p} : Sent(q)' = Sent(q)
    <2>1. /\ more \in Seq(Frames) /\ \A f \in Range(more) : f = PatchFrame(p, patch)
          /\ PatchFrame(p, patch) \in Range(more)
      BY <1>5, <1>8, <1>10, RangeOfPatch
    <2>2. Sent(p)' = Sent(p) \cup Range(more) /\ \A q \in Pages \ {p} : Sent(q)' = Sent(q)
      BY <1>7, <2>1, SendsMore
    <2>3. QED
      BY <2>1, <2>2
  <1>15. QED
    BY <1>8, <1>10, <1>11, <1>12, <1>13, <1>14

(* A step that says and shows nothing more of the element. *)
LEMMA SameTurn ==
    ASSUME NEW id \in Ids, OneAtMost(id), changers'[id] = changers[id], inbox' = inbox,
           \A q \in Pages : /\ scene'[q][id] = scene[q][id] /\ told'[q][id] = told[q][id]
                            /\ Ready(q)' <=> Ready(q)
                            /\ Sent(q) \subseteq Sent(q)'
                            /\ \A f \in Sent(q)' : f \in Sent(q) \/ f.elements[id] = Absent
    PROVE  OneAtMost(id)'
  <1>1. ASSUME changers[id] = {} PROVE Untouched(id)'
    <2>1. Untouched(id)
      BY <1>1 DEF OneAtMost
    <2>2. QED
      BY <2>1 DEF Untouched
  <1>2. ASSUME NEW p \in Pages, changers[id] = {p} PROVE OnlyBy(p, id)'
    <2>1. OnlyBy(p, id)
      BY <1>2 DEF OneAtMost
    <2>2. Ready(p)' /\ Tells(told'[p][id], scene'[p][id])
      BY <2>1 DEF OnlyBy
    <2>3. \A f \in inbox'[p] : f.elements[id] = Absent
      BY <2>1 DEF OnlyBy
    <2>4. ASSUME NEW q \in Pages \ {p}
          PROVE  /\ \A f \in Sent(q)' : f.elements[id] = Absent
                 /\ \A f \in inbox'[q] \cup Sent(p)' : LeadsTo(f.elements[id], told'[p][id])
                 /\ LeadsTo(scene'[q][id], told'[p][id])
                 /\ Ready(q)' => \/ scene'[q][id] = told'[p][id]
                                 \/ \E f \in inbox'[q] \cup Sent(p)' :
                                       f.elements[id] = told'[p][id]
      <3>1. \A f \in Sent(q)' : f.elements[id] = Absent
        BY <2>1 DEF OnlyBy
      <3>2. \A f \in inbox'[q] \cup Sent(p)' : LeadsTo(f.elements[id], told'[p][id])
        BY <2>1 DEF OnlyBy, LeadsTo
      <3>3. LeadsTo(scene'[q][id], told'[p][id])
        BY <2>1 DEF OnlyBy
      <3>4. ASSUME Ready(q)'
            PROVE  \/ scene'[q][id] = told'[p][id]
                   \/ \E f \in inbox'[q] \cup Sent(p)' : f.elements[id] = told'[p][id]
        BY <2>1, <3>4 DEF OnlyBy
      <3>5. QED
        BY <3>1, <3>2, <3>3, <3>4
    <2>5. QED
      BY <2>2, <2>3, <2>4 DEF OnlyBy
  <1>3. QED
    BY <1>1, <1>2 DEF OneAtMost

(* Whatever a user changed, the link says nothing of anything else. *)
LEMMA OnlyThatIsSent ==
    ASSUME IInv, IInv', NEW p \in Pages, Ready(p), NEW now \in Copies, NEW i \in Ids,
           Changed(p, now, {i})
    PROVE  \E patch \in Copies :
              /\ \A j \in Ids \ {i} : patch[j] = Absent /\ told'[p][j] = told[p][j]
              /\ \A q \in Pages \ {p} : told'[q] = told[q] /\ Sent(q)' = Sent(q)
              /\ Sent(p) \subseteq Sent(p)'
              /\ \A f \in Sent(p)' : f \in Sent(p) \/ f = PatchFrame(p, patch)
  <1>1. PICK nonce \in HostNonces[p] :
           LET patch == Taken(p, untold[p] \cup {i}, mirror'[p], nonce)
           IN  Took(p, patch) /\ out' = [out EXCEPT ![p] = @ \o PatchOf(p, patch)]
    BY DEF Changed
  <1>2. untold[p] = {}
    BY DEF IInv, Kept, ToldOrNoted
  <1>3. PICK known, m : known = told[p] /\ m = mirror'[p]
    OBVIOUS
  <1>4. PICK patch : patch = Changes(known, {i}, m, nonce)
    OBVIOUS
  <1>5. PICK more : more = PatchOf(p, patch)
    OBVIOUS
  <1>6. /\ m \in Copies /\ known \in Copies /\ nonce \in Nat
        /\ \A j \in Ids : m[j] = Absent \/ LiveOf(m, j)
    <2>1. m \in Copies /\ \A j \in Ids : m[j] = Absent \/ LiveOf(m, j)
      BY <1>3 DEF IInv, PageTypes, Kept, MirrorIsLive, LiveOf
    <2>2. QED
      BY <1>3, <2>1, LiveSceneAssumption DEF IInv, PageTypes
  <1>7. Took(p, patch) /\ out' = [out EXCEPT ![p] = @ \o more]
    BY <1>1, <1>2, <1>3, <1>4, <1>5 DEF Taken
  <1>8. patch \in Copies /\ \A j \in Ids \ {i} : patch[j] = Absent
    <2>1. patch \in Copies
      BY <1>4, <1>6, ChangesFacts
    <2>2. \A j \in Ids \ {i} : patch[j] = Absent
      BY <1>4 DEF Changes
    <2>3. QED
      BY <2>1, <2>2
  <1>9. /\ told'[p] = Over(known, patch) /\ \A q \in Pages \ {p} : told'[q] = told[q]
    BY <1>3, <1>7 DEF Took, IInv, PageTypes
  <1>10. \A j \in Ids \ {i} : told'[p][j] = told[p][j]
    BY <1>3, <1>6, <1>8, <1>9, OverFacts
  <1>11. /\ Sent(p)' = Sent(p) \cup Range(more) /\ \A q \in Pages \ {p} : Sent(q)' = Sent(q)
         /\ \A f \in Range(more) : f = PatchFrame(p, patch)
    <2>1. more \in Seq(Frames) /\ \A f \in Range(more) : f = PatchFrame(p, patch)
      BY <1>5, <1>8, RangeOfPatch
    <2>2. QED
      BY <1>7, <2>1, SendsMore
  <1>12. QED
    BY <1>8, <1>9, <1>10, <1>11

(* A user's change, while nothing was lost. *)
LEMMA ChangedAlone ==
    ASSUME IInv, IInv', Undisturbed, \A id \in Ids : OneAtMost(id), NEW p \in Pages,
           NEW now \in Copies, NEW i \in Ids, Changed(p, now, {i}), now[i] # Absent,
           \A j \in Ids \ {i} : now[j] = scene[p][j],
           \/ scene[p][i] = Absent /\ ~now[i].isDeleted
           \/ IsLive(scene[p][i]) /\ now[i].version = scene[p][i].version + 1
    PROVE  Undisturbed' /\ \A id \in Ids : OneAtMost(id)'
  <1>1. /\ link[p] # "closed" /\ UNCHANGED <<link, inbox, reading>>
        /\ scene' = [scene EXCEPT ![p] = now]
        /\ changers' = [id \in Ids |-> IF id \in {i} THEN changers[id] \cup {p}
                                                     ELSE changers[id]]
    BY DEF Changed
  <1>2. Ready(p) /\ \A q \in Pages : Ready(q)' <=> Ready(q)
    BY <1>1 DEF Undisturbed, Ready
  <1>3. scene'[p] = now /\ \A q \in Pages \ {p} : scene'[q] = scene[q]
    BY <1>1 DEF IInv, PageTypes
  <1>4. PICK patch \in Copies :
              /\ \A j \in Ids \ {i} : patch[j] = Absent /\ told'[p][j] = told[p][j]
              /\ \A q \in Pages \ {p} : told'[q] = told[q] /\ Sent(q)' = Sent(q)
              /\ Sent(p) \subseteq Sent(p)'
              /\ \A f \in Sent(p)' : f \in Sent(p) \/ f = PatchFrame(p, patch)
    BY <1>2, OnlyThatIsSent
  <1>5. PatchFrame(p, patch).type = "patch" /\ PatchFrame(p, patch).elements = patch
    BY DEF PatchFrame
  <1>6. Undisturbed'
    <2>1. ASSUME NEW q \in Pages
          PROVE  /\ link'[q] \in {"closed", "ready"} /\ reading'[q] = Nothing
                 /\ \A f \in Sent(q)' \cup inbox'[q] : f.type = "patch"
                 /\ link'[q] = "closed" => \A id \in Ids : scene'[q][id] = Absent
      <3>1. \A f \in Sent(q)' : f \in Sent(q) \/ f = PatchFrame(p, patch)
        BY <1>4
      <3>2. \A f \in Sent(q)' \cup inbox'[q] : f.type = "patch"
        BY <1>1, <1>5, <3>1 DEF Undisturbed
      <3>3. link'[q] = "closed" => \A id \in Ids : scene'[q][id] = Absent
        BY <1>1, <1>3 DEF Undisturbed
      <3>4. QED
        BY <1>1, <3>2, <3>3 DEF Undisturbed
    <2>2. QED
      BY <2>1 DEF Undisturbed
  <1>7. ASSUME NEW id \in Ids \ {i} PROVE OneAtMost(id)'
    <2>1. changers'[id] = changers[id]
      BY <1>1
    <2>2. \A q \in Pages : scene'[q][id] = scene[q][id] /\ told'[q][id] = told[q][id]
      BY <1>3, <1>4
    <2>3. \A q \in Pages : /\ Sent(q) \subseteq Sent(q)'
                           /\ \A f \in Sent(q)' : f \in Sent(q) \/ f.elements[id] = Absent
      BY <1>4, <1>5
    <2>4. QED
      BY <1>1, <1>2, <2>1, <2>2, <2>3, SameTurn
  <1>8. OneAtMost(i)'
    <2>1. changers'[i] = changers[i] \cup {p}
      BY <1>1
    <2>2. SUFFICES ASSUME changers[i] \subseteq {p}
                   PROVE  OnlyBy(p, i)'
      BY <2>1 DEF OneAtMost
    <2>3. changers[i] = {} \/ changers[i] = {p}
      BY <2>2
    <2>4. /\ told[p][i] = scene[p][i]
          /\ \A f \in inbox[p] : f.elements[i] = Absent
          /\ \A q \in Pages \ {p} :
                /\ \A f \in Sent(q) : f.elements[i] = Absent
                /\ \A f \in inbox[q] \cup Sent(p) : LeadsTo(f.elements[i], scene[p][i])
                /\ LeadsTo(scene[q][i], scene[p][i])
      <3>1. CASE changers[i] = {}
        <4>1. Untouched(i)
          BY <3>1 DEF OneAtMost
        <4>2. \A q \in Pages : scene[q][i] = scene[p][i] \/ scene[q][i] = Absent
          BY <1>2, <4>1 DEF Untouched, Undisturbed, Ready
        <4>3. QED
          BY <4>1, <4>2 DEF Untouched, LeadsTo
      <3>2. CASE changers[i] = {p}
        <4>1. OnlyBy(p, i)
          BY <3>2 DEF OneAtMost
        <4>2. told[p][i] = scene[p][i]
          BY <4>1 DEF OnlyBy, Tells, IsLive
        <4>3. QED
          BY <4>1, <4>2 DEF OnlyBy
      <3>3. QED
        BY <2>3, <3>1, <3>2
    <2>5. PICK sent \in Copies :
              /\ Tells(sent[i], now[i]) /\ LeadsTo(scene[p][i], sent[i]) /\ sent[i] # Absent
              /\ scene[p][i] = Absent \/ scene[p][i].version < sent[i].version
              /\ told'[p][i] = sent[i]
              /\ \A q \in Pages \ {p} : Sent(q)' = Sent(q)
              /\ Sent(p)' = Sent(p) \cup {PatchFrame(p, sent)}
      BY <1>2, <2>4, ChangeIsSent
    <2>6. PICK x, y : x = scene[p][i] /\ y = sent[i]
      OBVIOUS
    <2>7. y # Absent /\ (x = Absent \/ x.version < y.version) /\ told'[p][i] = y
      BY <2>5, <2>6
    <2>8. \A z \in Untimed : LeadsTo(z, x) => LeadsTo(z, y)
      <3>1. y \in Element /\ (x # Absent => x \in Element)
        BY <2>6, <2>7 DEF IInv, PageTypes, Copies, Untimed
      <3>2. ASSUME NEW z \in Untimed, LeadsTo(z, x), z # Absent
            PROVE  LeadsTo(z, y)
        <4>1. z \in Element /\ x # Absent /\ (z = x \/ z.version < x.version)
          BY <3>2 DEF Untimed, LeadsTo
        <4>2. z.version < y.version
          BY <2>7, <3>1, <4>1 DEF Element
        <4>3. QED
          BY <2>7, <4>2 DEF LeadsTo
      <3>3. QED
        BY <3>2 DEF LeadsTo
    <2>9. PatchFrame(p, sent).elements[i] = y
      BY <2>6 DEF PatchFrame
    <2>10. ASSUME NEW q \in Pages \ {p}
           PROVE  /\ \A f \in Sent(q)' : f.elements[i] = Absent
                  /\ \A f \in inbox'[q] \cup Sent(p)' : LeadsTo(f.elements[i], told'[p][i])
                  /\ LeadsTo(scene'[q][i], told'[p][i])
                  /\ \E f \in inbox'[q] \cup Sent(p)' : f.elements[i] = told'[p][i]
      <3>1. \A f \in inbox[q] \cup Sent(p) : f.elements[i] \in Untimed
        <4>1. \A f \in inbox[q] \cup Sent(p) : f \in Frames /\ f.type = "patch"
          BY FramesAre DEF Undisturbed
        <4>2. QED
          BY <4>1 DEF Frames, Copies
      <3>2. \A f \in inbox'[q] \cup Sent(p)' : LeadsTo(f.elements[i], y)
        <4>1. \A f \in inbox[q] \cup Sent(p) : LeadsTo(f.elements[i], y)
          BY <2>4, <2>6, <2>8, <3>1
        <4>2. LeadsTo(y, y)
          BY DEF LeadsTo
        <4>3. QED
          BY <1>1, <2>5, <2>9, <4>1, <4>2
      <3>3. LeadsTo(scene'[q][i], y)
        <4>1. scene[q][i] \in Untimed
          BY DEF IInv, PageTypes, Copies
        <4>2. QED
          BY <1>3, <2>4, <2>6, <2>8, <4>1
      <3>4. PatchFrame(p, sent) \in Sent(p)'
        BY <2>5
      <3>5. \A f \in Sent(q)' : f.elements[i] = Absent
        BY <2>4, <2>5
      <3>6. QED
        BY <2>7, <2>9, <3>2, <3>3, <3>4, <3>5
    <2>11. Ready(p)' /\ Tells(told'[p][i], scene'[p][i])
      BY <1>2, <1>3, <2>5
    <2>12. \A f \in inbox'[p] : f.elements[i] = Absent
      BY <1>1, <2>4
    <2>13. QED
      BY <2>10, <2>11, <2>12 DEF OnlyBy
  <1>9. QED
    BY <1>6, <1>7, <1>8

LEMMA UserAlone ==
    ASSUME IInv, IInv', Undisturbed, \A id \in Ids : OneAtMost(id), NEW p \in Pages, UserActs(p)
    PROVE  Undisturbed' /\ \A id \in Ids : OneAtMost(id)'
  <1>1. PICK i \in Ids : Draw(p, i) \/ Edit(p, i) \/ Erase(p, i)
    BY DEF UserActs
  <1>2. \A nonce \in Nonces[p] : nonce \in Nat
    BY LiveSceneAssumption
  <1>3. scene[p] \in Copies
    BY DEF IInv, PageTypes
  <1>4. PICK e : e = scene[p][i]
    OBVIOUS
  <1>5. CASE Draw(p, i)
    <2>1. PICK nonce \in Nonces[p] : Changed(p, [scene[p] EXCEPT ![i] = Drawn(nonce)], {i})
      BY <1>5 DEF Draw
    <2>2. PICK new, now : new = Drawn(nonce) /\ now = [scene[p] EXCEPT ![i] = new]
      OBVIOUS
    <2>3. new \in Untimed /\ new # Absent /\ ~new.isDeleted
      <3>1. new \in Element /\ ~new.isDeleted /\ new.updated = 0
        BY <1>2, <2>2 DEF Drawn, Element
      <3>2. QED
        BY <3>1, ReconcileAssumption DEF Untimed
    <2>4. now \in Copies /\ now[i] = new /\ \A j \in Ids \ {i} : now[j] = scene[p][j]
      BY <1>3, <2>2, <2>3 DEF Copies
    <2>5. scene[p][i] = Absent
      BY <1>5 DEF Draw
    <2>6. Changed(p, now, {i})
      BY <2>1, <2>2
    <2>7. QED
      BY <2>3, <2>4, <2>5, <2>6, ChangedAlone
  <1>6. CASE Edit(p, i) \/ Erase(p, i)
    <2>1. PICK nonce \in Nonces[p], gone \in BOOLEAN :
             Changed(p, [scene[p] EXCEPT ![i] =
                           [e EXCEPT !.version = @ + 1, !.versionNonce = nonce,
                                     !.isDeleted = gone]], {i})
      <3>1. e \in Element /\ ~e.isDeleted
        BY <1>3, <1>4, <1>6 DEF Edit, Erase, LiveOf, IsLive, Copies, Untimed
      <3>2. CASE Edit(p, i)
        <4>1. PICK nonce \in Nonces[p] :
                Changed(p, [scene[p] EXCEPT ![i].version = @ + 1, ![i].versionNonce = nonce], {i})
          BY <3>2 DEF Edit
        <4>2. [scene[p] EXCEPT ![i].version = @ + 1, ![i].versionNonce = nonce]
                = [scene[p] EXCEPT ![i] = [e EXCEPT !.version = @ + 1, !.versionNonce = nonce,
                                                    !.isDeleted = FALSE]]
          BY <1>3, <1>4, <3>1 DEF Copies, Element
        <4>3. QED
          BY <4>1, <4>2
      <3>3. CASE Erase(p, i)
        <4>1. PICK nonce \in Nonces[p] :
                Changed(p, [scene[p] EXCEPT ![i].version = @ + 1, ![i].versionNonce = nonce,
                                            ![i].isDeleted = TRUE], {i})
          BY <3>3 DEF Erase
        <4>2. [scene[p] EXCEPT ![i].version = @ + 1, ![i].versionNonce = nonce,
                               ![i].isDeleted = TRUE]
                = [scene[p] EXCEPT ![i] = [e EXCEPT !.version = @ + 1, !.versionNonce = nonce,
                                                    !.isDeleted = TRUE]]
          BY <1>3, <1>4, <3>1 DEF Copies, Element
        <4>3. QED
          BY <4>1, <4>2
      <3>4. QED
        BY <1>6, <3>2, <3>3
    <2>2. PICK v : v = e.version + 1
      OBVIOUS
    <2>3. PICK new : new = [e EXCEPT !.version = v, !.versionNonce = nonce, !.isDeleted = gone]
      OBVIOUS
    <2>4. PICK now : now = [scene[p] EXCEPT ![i] = new]
      OBVIOUS
    <2>5. IsLive(e) /\ e \in Element /\ e.updated = 0 /\ nonce \in Nat /\ v \in Nat
      <3>1. IsLive(e) /\ e \in Element /\ e.updated = 0 /\ nonce \in Nat
        BY <1>2, <1>3, <1>4, <1>6 DEF Edit, Erase, LiveOf, IsLive, Copies, Untimed
      <3>2. QED
        BY <2>2, <3>1 DEF Element
    <2>6. new \in Element /\ new.version = v /\ new.updated = 0
      BY <2>3, <2>5 DEF Element
    <2>7. /\ now \in Copies /\ now[i] = new /\ \A j \in Ids \ {i} : now[j] = scene[p][j]
      <3>1. new \in Untimed
        BY <2>6 DEF Untimed
      <3>2. QED
        BY <1>3, <2>4, <3>1 DEF Copies
    <2>8. Changed(p, now, {i})
      BY <2>1, <2>2, <2>3, <2>4
    <2>9. now[i] # Absent
      BY <2>6, <2>7, ReconcileAssumption
    <2>10. IsLive(scene[p][i]) /\ now[i].version = scene[p][i].version + 1
      BY <1>4, <2>2, <2>5, <2>6, <2>7
    <2>11. QED
      BY <2>7, <2>8, <2>9, <2>10, ChangedAlone
  <1>7. QED
    BY <1>1, <1>5, <1>6

(* A save, which the room does not see. *)
LEMMA SaveAlone ==
    ASSUME Undisturbed, \A id \in Ids : OneAtMost(id),
           UNCHANGED <<scene, told, link, out, inbox, reading, changers>>
    PROVE  Undisturbed' /\ \A id \in Ids : OneAtMost(id)'
  <1>1. \A q \in Pages : Sent(q)' = Sent(q) /\ (Ready(q)' <=> Ready(q))
    BY DEF Sent, Ready
  <1>2. Undisturbed'
    BY <1>1 DEF Undisturbed
  <1>3. \A id \in Ids : OneAtMost(id)'
    BY <1>1, SameTurn
  <1>4. QED
    BY <1>2, <1>3

LEMMA RelayedAlone ==
    ASSUME IInv, Undisturbed, \A id \in Ids : OneAtMost(id), NEW p \in Pages, Relayed(p)
    PROVE  Undisturbed' /\ \A id \in Ids : OneAtMost(id)'
  <1>1. PICK head, rest : head = Head(out[p]) /\ rest = Tail(out[p])
    OBVIOUS
  <1>2. /\ Ready(p) /\ out[p] # <<>> /\ out' = [out EXCEPT ![p] = rest]
        /\ inbox' = [q \in Pages |-> IF q # p /\ Ready(q) THEN inbox[q] \cup {head}
                                     ELSE inbox[q]]
        /\ UNCHANGED <<scene, told, link, reading, changers>>
    BY <1>1 DEF Relayed, page, bounds
  <1>3. /\ Sent(p) = {head} \cup Sent(p)'
        /\ \A q \in Pages \ {p} : Sent(q)' = Sent(q)
    <2>1. out \in [Pages -> Seq(Frames)]
      BY DEF IInv, WireTypes
    <2>2. Range(out[p]) = {head} \cup Range(rest)
      BY <1>1, <1>2, <2>1, RangeOfTail
    <2>3. out'[p] = rest /\ \A q \in Pages \ {p} : out'[q] = out[q]
      BY <1>2, <2>1
    <2>4. QED
      BY <2>2, <2>3 DEF Sent
  <1>4. /\ \A q \in Pages : inbox[q] \subseteq inbox'[q]
        /\ \A q \in Pages \ {p} : Ready(q) => head \in inbox'[q]
        /\ inbox'[p] = inbox[p]
        /\ \A q \in Pages : \A f \in inbox'[q] : f \in inbox[q] \/ (q # p /\ f = head)
    BY <1>2
  <1>5. \A q \in Pages : Ready(q)' <=> Ready(q)
    BY <1>2 DEF Ready
  <1>6. Undisturbed'
    <2>1. \A q \in Pages : \A f \in Sent(q)' \cup inbox'[q] : f.type = "patch"
      BY <1>3, <1>4 DEF Undisturbed
    <2>2. QED
      BY <1>2, <2>1 DEF Undisturbed
  <1>7. ASSUME NEW id \in Ids PROVE OneAtMost(id)'
    <2>1. ASSUME changers[id] = {} PROVE Untouched(id)'
      <3>1. Untouched(id)
        BY <2>1 DEF OneAtMost
      <3>2. \A q \in Pages : \A f \in Sent(q)' \cup inbox'[q] : f.elements[id] = Absent
        BY <1>3, <1>4, <3>1 DEF Untouched
      <3>3. QED
        BY <1>2, <1>5, <3>1, <3>2 DEF Untouched
    <2>2. ASSUME NEW r \in Pages, changers[id] = {r} PROVE OnlyBy(r, id)'
      <3>1. OnlyBy(r, id)
        BY <2>2 DEF OneAtMost
      <3>2. \A f \in inbox'[r] : f.elements[id] = Absent
        BY <1>3, <1>4, <3>1 DEF OnlyBy
      <3>3. ASSUME NEW q \in Pages \ {r}
            PROVE  /\ \A f \in Sent(q)' : f.elements[id] = Absent
                   /\ \A f \in inbox'[q] \cup Sent(r)' : LeadsTo(f.elements[id], told'[r][id])
                   /\ LeadsTo(scene'[q][id], told'[r][id])
                   /\ Ready(q)' => \/ scene'[q][id] = told'[r][id]
                                   \/ \E f \in inbox'[q] \cup Sent(r)' :
                                         f.elements[id] = told'[r][id]
        <4>1. \A f \in Sent(q)' : f.elements[id] = Absent
          BY <1>3, <3>1 DEF OnlyBy
        <4>2. \A f \in inbox'[q] \cup Sent(r)' : LeadsTo(f.elements[id], told[r][id])
          <5>1. \A f \in inbox[q] \cup Sent(r) : LeadsTo(f.elements[id], told[r][id])
            BY <3>1 DEF OnlyBy
          <5>2. r # p => head.elements[id] = Absent
            BY <1>3, <3>1 DEF OnlyBy
          <5>3. LeadsTo(head.elements[id], told[r][id])
            BY <1>3, <5>1, <5>2 DEF LeadsTo
          <5>4. QED
            BY <1>3, <1>4, <5>1, <5>3
        <4>3. ASSUME Ready(q), scene[q][id] # told[r][id]
              PROVE  \E f \in inbox'[q] \cup Sent(r)' : f.elements[id] = told[r][id]
          <5>1. PICK f \in inbox[q] \cup Sent(r) : f.elements[id] = told[r][id]
            BY <3>1, <4>3 DEF OnlyBy
          <5>2. CASE f \in inbox[q] \/ f \in Sent(r)'
            BY <1>4, <5>1, <5>2
          <5>3. CASE f \in Sent(r) /\ f \notin Sent(r)'
            <6>1. r = p /\ f = head
              BY <1>3, <5>3
            <6>2. f \in inbox'[q]
              BY <1>4, <4>3, <6>1
            <6>3. QED
              BY <5>1, <6>2
          <5>4. QED
            BY <5>2, <5>3
        <4>4. LeadsTo(scene[q][id], told[r][id])
          BY <3>1 DEF OnlyBy
        <4>5. QED
          BY <1>2, <1>5, <4>1, <4>2, <4>3, <4>4
      <3>4. QED
        BY <1>2, <1>5, <3>1, <3>2, <3>3 DEF OnlyBy
    <2>3. QED
      BY <1>2, <2>1, <2>2 DEF OneAtMost
  <1>8. QED
    BY <1>6, <1>7

(* What the engine took of a patch, or not, for each element. *)
LEMMA AppliedFacts ==
    ASSUME IInv, NEW p \in Pages, NEW patch \in Copies, Applied(p, patch)
    PROVE  /\ \A q \in Pages \ {p} : scene'[q] = scene[q] /\ told'[q] = told[q]
           /\ \A id \in Ids :
                 /\ scene'[p][id] = IF Takes(patch[id], scene[p][id]) THEN patch[id]
                                    ELSE scene[p][id]
                 /\ told'[p][id] \in {told[p][id], patch[id]}
                 /\ patch[id] = Absent => told'[p][id] = told[p][id]
  <1>1. /\ scene \in [Pages -> Copies] /\ told \in [Pages -> Copies]
        /\ scene[p] \in Copies /\ told[p] \in Copies
    BY DEF IInv, PageTypes
  <1>2. CASE ~AppliesTo(p, patch)
    <2>1. UNCHANGED <<scene, told>>
      BY <1>2 DEF Applied
    <2>2. QED
      BY <1>2, <2>1 DEF AppliesTo
  <1>3. CASE AppliesTo(p, patch)
    <2>1. PICK s, t : s = scene[p] /\ t = told[p]
      OBVIOUS
    <2>2. scene' = [scene EXCEPT ![p] = Merge(s, patch)] /\ told' = [told EXCEPT ![p] = Over(t, patch)]
      BY <1>3, <2>1 DEF Applied
    <2>3. /\ scene'[p] = Merge(s, patch) /\ told'[p] = Over(t, patch)
          /\ \A q \in Pages \ {p} : scene'[q] = scene[q] /\ told'[q] = told[q]
      BY <1>1, <2>2
    <2>4. QED
      BY <2>1, <2>3 DEF Merge, Over
  <1>4. QED
    BY <1>2, <1>3

LEMMA HearPatchAlone ==
    ASSUME IInv, Undisturbed, \A id \in Ids : OneAtMost(id), NEW p \in Pages, HearPatch(p)
    PROVE  Undisturbed' /\ \A id \in Ids : OneAtMost(id)'
  <1>1. PICK g \in inbox[p] :
           /\ g.type = "patch" /\ Opens(p, g)
           /\ Applied(p, g.elements)
           /\ UNCHANGED <<out, untold, saved>>
    BY DEF HearPatch
  <1>2. /\ Ready(p) /\ link[p] # "closed" /\ g \in Frames
        /\ \A a \in Pages : Ready(a)' <=> Ready(a)
        /\ \A a \in Pages : inbox'[a] \subseteq inbox[a] /\ inbox[a] \ inbox'[a] \subseteq {g}
        /\ \A a \in Pages \ {p} : inbox[a] \subseteq inbox'[a]
        /\ UNCHANGED <<saved, link, reading, board>>
    BY <1>1, OpensLinks
  <1>3. PICK patch : patch = g.elements
    OBVIOUS
  <1>4. patch \in Copies
    BY <1>1, <1>2, <1>3 DEF Frames
  <1>5. /\ \A q \in Pages \ {p} : scene'[q] = scene[q] /\ told'[q] = told[q]
        /\ \A id \in Ids :
              /\ scene'[p][id] = IF Takes(patch[id], scene[p][id]) THEN patch[id]
                                 ELSE scene[p][id]
              /\ told'[p][id] \in {told[p][id], patch[id]}
              /\ patch[id] = Absent => told'[p][id] = told[p][id]
    BY <1>1, <1>3, <1>4, AppliedFacts
  <1>6. \A q \in Pages : Sent(q)' = Sent(q)
    BY <1>1 DEF Sent
  <1>7. changers' = changers
    BY <1>1 DEF Opens, bounds
  <1>8. Undisturbed'
    BY <1>2, <1>5, <1>6 DEF Undisturbed
  <1>9. ASSUME NEW id \in Ids, patch[id] = Absent
        PROVE  \A q \in Pages : scene'[q][id] = scene[q][id] /\ told'[q][id] = told[q][id]
    BY <1>5, <1>9 DEF Takes
  <1>10. ASSUME NEW id \in Ids PROVE OneAtMost(id)'
    <2>1. ASSUME changers[id] = {} PROVE Untouched(id)'
      <3>1. Untouched(id)
        BY <2>1 DEF OneAtMost
      <3>2. patch[id] = Absent
        BY <1>3, <3>1 DEF Untouched
      <3>3. \A q \in Pages : scene'[q][id] = scene[q][id] /\ told'[q][id] = told[q][id]
        BY <1>9, <3>2
      <3>4. \A q \in Pages : \A f \in Sent(q)' \cup inbox'[q] : f.elements[id] = Absent
        BY <1>2, <1>6, <3>1 DEF Untouched
      <3>5. QED
        BY <1>2, <3>1, <3>3, <3>4 DEF Untouched
    <2>2. ASSUME NEW r \in Pages, changers[id] = {r} PROVE OnlyBy(r, id)'
      <3>1. OnlyBy(r, id)
        BY <2>2 DEF OneAtMost
      <3>2. r = p => patch[id] = Absent
        BY <1>3, <3>1 DEF OnlyBy
      <3>3. scene'[r][id] = scene[r][id] /\ told'[r][id] = told[r][id]
        BY <1>5, <1>9, <3>2
      <3>4. PICK y : y = told[r][id]
        OBVIOUS
      <3>5. \A f \in inbox'[r] : f.elements[id] = Absent
        BY <1>2, <3>1 DEF OnlyBy
      <3>6. ASSUME NEW q \in Pages \ {r}
            PROVE  /\ \A f \in Sent(q)' : f.elements[id] = Absent
                   /\ \A f \in inbox'[q] \cup Sent(r)' : LeadsTo(f.elements[id], y)
                   /\ LeadsTo(scene'[q][id], y)
                   /\ Ready(q) => \/ scene'[q][id] = y
                                  \/ \E f \in inbox'[q] \cup Sent(r)' : f.elements[id] = y
        <4>1. /\ \A f \in Sent(q)' : f.elements[id] = Absent
              /\ \A f \in inbox'[q] \cup Sent(r)' : LeadsTo(f.elements[id], y)
          BY <1>2, <1>6, <3>1, <3>4 DEF OnlyBy
        <4>2. /\ LeadsTo(scene[q][id], y)
              /\ Ready(q) => \/ scene[q][id] = y
                             \/ \E f \in inbox[q] \cup Sent(r) : f.elements[id] = y
          BY <3>1, <3>4 DEF OnlyBy
        <4>3. CASE q # p
          <5>1. scene'[q][id] = scene[q][id] /\ inbox[q] \subseteq inbox'[q]
            BY <1>2, <1>5, <4>3
          <5>2. QED
            BY <1>6, <4>1, <4>2, <5>1
        <4>4. CASE q = p
          <5>1. PICK x, z : x = scene[p][id] /\ z = patch[id]
            OBVIOUS
          <5>2. LeadsTo(z, y) /\ LeadsTo(x, y)
            BY <1>3, <3>1, <3>4, <4>2, <4>4, <5>1 DEF OnlyBy
          <5>3. scene'[p][id] = IF Takes(z, x) THEN z ELSE x
            BY <1>5, <5>1
          <5>4. x \in Untimed /\ y \in Untimed /\ z \in Untimed
            BY <1>4, <3>4, <5>1 DEF IInv, PageTypes, Copies
          <5>5. ASSUME x = y \/ z = y
                PROVE  scene'[p][id] = y
            <6>1. CASE x = y
              <7>1. Takes(z, x) => z = y
                BY <5>2, <5>4, <6>1 DEF LeadsTo, Takes, IsNewer, Untimed, Element
              <7>2. QED
                BY <5>3, <6>1, <7>1
            <6>2. CASE z = y
              <7>1. ~Takes(z, x) => x = y
                BY <5>2, <5>4, <6>2 DEF LeadsTo, Takes, IsNewer, Untimed, Element
              <7>2. QED
                BY <5>3, <6>2, <7>1
            <6>3. QED
              BY <5>5, <6>1, <6>2
          <5>6. CASE \E f \in inbox'[q] \cup Sent(r)' : f.elements[id] = y
            BY <4>1, <4>4, <5>2, <5>3, <5>6
          <5>7. CASE ~\E f \in inbox'[q] \cup Sent(r)' : f.elements[id] = y
            <6>1. x = y \/ z = y
              BY <1>2, <1>3, <1>6, <4>2, <4>4, <5>1, <5>7
            <6>2. scene'[q][id] = y
              BY <4>4, <5>5, <6>1
            <6>3. QED
              BY <4>1, <6>2 DEF LeadsTo
          <5>8. QED
            BY <5>6, <5>7
        <4>5. QED
          BY <4>3, <4>4
      <3>7. Ready(r)' /\ Tells(told'[r][id], scene'[r][id])
        BY <1>2, <3>1, <3>3 DEF OnlyBy
      <3>8. QED
        BY <1>2, <3>3, <3>4, <3>5, <3>6, <3>7 DEF OnlyBy
    <2>3. QED
      BY <1>7, <2>1, <2>2 DEF OneAtMost
  <1>11. QED
    BY <1>8, <1>10

LEMMA InitUnbroken == Init => Unbroken
  <1> SUFFICES ASSUME Init
               PROVE  Undisturbed /\ \A id \in Ids : OneAtMost(id)
    BY DEF Unbroken
  <1>1. PICK open \in (SUBSET Pages) \ {{}} :
          /\ link = [p \in Pages |-> IF p \in open THEN "ready" ELSE "closed"]
          /\ scene = [p \in Pages |-> IF p \in open THEN board ELSE None]
    BY Zenon DEF Init
  <1>2. /\ told = scene /\ out = Everyone(<<>>) /\ inbox = Everyone({})
        /\ reading = Everyone(Nothing) /\ changers = [id \in Ids |-> {}]
    BY DEF Init
  <1>3. \A p \in Pages : /\ out[p] = <<>> /\ inbox[p] = {} /\ reading[p] = Nothing
                         /\ link[p] = IF p \in open THEN "ready" ELSE "closed"
                         /\ scene[p] = IF p \in open THEN board ELSE None
    BY <1>1, <1>2 DEF Everyone
  <1>4. \A p \in Pages : Sent(p) = {}
    BY <1>3, EmptyRange DEF Sent
  <1>5. Undisturbed
    BY <1>3, <1>4 DEF Undisturbed, None
  <1>6. ASSUME NEW id \in Ids PROVE OneAtMost(id)
    <2>1. changers[id] = {}
      BY <1>2
    <2>2. Untouched(id)
      BY <1>2, <1>3, <1>4 DEF Untouched, Ready
    <2>3. QED
      BY <2>1, <2>2 DEF OneAtMost
  <1>7. QED
    BY <1>5, <1>6

LEMMA NextUnbroken == IInv /\ IInv' /\ Unbroken /\ [Next]_vars => Unbroken'
  <1> SUFFICES ASSUME IInv, IInv', Unbroken, [Next]_vars, breaks' = 0
               PROVE  Undisturbed' /\ \A id \in Ids : OneAtMost(id)'
    BY DEF Unbroken
  <1>1. CASE UNCHANGED vars
    <2>1. UNCHANGED <<scene, told, link, out, inbox, reading, changers, breaks>>
      BY <1>1 DEF vars, page, wire, bounds
    <2>2. Undisturbed /\ \A id \in Ids : OneAtMost(id)
      BY <2>1 DEF Unbroken
    <2>3. QED
      BY <2>1, <2>2, SaveAlone
  <1>2. CASE Next
    <2>1. PICK p \in Pages :
             \/ UserActs(p) \/ Save(p) \/ Open(p)
             \/ Join(p) \/ Relayed(p) \/ Drop(p)
             \/ Hears(p) \/ Served(p) \/ CaughtUp(p)
      BY <1>2 DEF Next
    <2>2. breaks \in Nat
      BY DEF IInv, BoundTypes
    <2>3. ~Open(p) /\ ~Drop(p)
      BY <2>2 DEF Open, Drop
    <2>4. breaks = 0
      <3>1. CASE UserActs(p)
        BY <3>1, UserHistory
      <3>2. CASE Save(p) \/ Join(p) \/ Relayed(p) \/ Served(p)
        BY <3>2 DEF Save, Join, Relayed, Served, bounds
      <3>3. CASE Hears(p) \/ CaughtUp(p)
        BY <3>3 DEF Hears, HearJoin, HearSync, HearPatch, CaughtUp, Opens, bounds
      <3>4. QED
        BY <2>1, <2>3, <3>1, <3>2, <3>3
    <2>5. Undisturbed /\ \A id \in Ids : OneAtMost(id)
      BY <2>4 DEF Unbroken
    <2>6. ~Join(p) /\ ~Served(p) /\ ~CaughtUp(p)
      BY <2>5, LiveSceneAssumption DEF Undisturbed, Join, Served, CaughtUp
    <2>7. ~HearJoin(p) /\ ~HearSync(p)
      BY <2>5 DEF Undisturbed, HearJoin, HearSync
    <2>8. CASE UserActs(p)
      BY <2>5, <2>8, UserAlone
    <2>9. CASE Save(p)
      <3>1. UNCHANGED <<scene, told, link, out, inbox, reading, changers>>
        BY <2>9 DEF Save, wire, bounds
      <3>2. QED
        BY <2>5, <3>1, SaveAlone
    <2>10. CASE Relayed(p)
      BY <2>5, <2>10, RelayedAlone
    <2>11. CASE HearPatch(p)
      BY <2>5, <2>11, HearPatchAlone
    <2>12. QED
      BY <2>1, <2>3, <2>6, <2>7, <2>8, <2>9, <2>10, <2>11 DEF Hears
  <1>3. QED
    BY <1>1, <1>2

(* Once the pages have heard all there is to hear, they show of an element  *)
(* what its only user left of it.                                           *)
LEMMA AloneAgrees ==
    ASSUME Undisturbed, AtRest, NEW id \in Ids, OneAtMost(id), NEW a \in Pages,
           changers[id] = {a}, NEW q \in Pages, IsOpen(q)
    PROVE  Live(scene[q])[id] = Live(scene[a])[id]
  <1>1. OnlyBy(a, id)
    BY DEF OneAtMost
  <1>2. /\ Ready(a) /\ Ready(q) /\ inbox[q] = {} /\ out[a] = <<>>
    BY <1>1 DEF AtRest, IsOpen, OnlyBy, Ready
  <1>3. Sent(a) = {}
    BY <1>2, EmptyRange DEF Sent
  <1>4. CASE q = a
    BY <1>4
  <1>5. CASE q # a
    <2>1. scene[q][id] = told[a][id]
      BY <1>1, <1>2, <1>3, <1>5 DEF OnlyBy
    <2>2. Tells(scene[q][id], scene[a][id])
      BY <1>1, <2>1 DEF OnlyBy
    <2>3. QED
      BY <2>2 DEF Tells, Live, LiveOf, IsLive
  <1>6. QED
    BY <1>4, <1>5

LEMMA KeptAgrees ==
    SoundKept /\ Unbroken /\ IInv => RoomAgrees
  <1> SUFFICES ASSUME SoundKept, Unbroken, IInv, AtRest,
                      NEW p \in Pages, NEW q \in Pages, NEW id \in Ids,
                      IsOpen(p), IsOpen(q), id \notin fallen,
                      ~(id \in erased /\ (breaks > 0 \/ changers[id] \notin {{p}, {q}}))
               PROVE  Live(scene[p])[id] = Live(scene[q])[id]
    BY DEF RoomAgrees
  <1>1. CASE id \notin erased
    <2>1. scene[p][id] = scene[q][id]
      BY <1>1, SoundAgrees DEF Sound
    <2>2. QED
      BY <2>1 DEF Live, LiveOf
  <1>2. CASE id \in erased
    <2>1. breaks = 0 /\ (changers[id] = {p} \/ changers[id] = {q})
      BY <1>2 DEF IInv, BoundTypes
    <2>2. Undisturbed /\ OneAtMost(id)
      BY <2>1 DEF Unbroken
    <2>3. QED
      BY <2>1, <2>2, AloneAgrees
  <1>3. QED
    BY <1>1, <1>2

(* Of what no user erased and no page fell behind on, nobody says more than *)
(* it has, and what a page lacks is on its way; of what one user alone      *)
(* changed, while no link broke, the others have it or have it coming       *)
(* (takePatch, missing, applyRemote, and the join, sync and patch frames).  *)
THEOREM RoomKeepsTrack == Spec => [](SoundKept /\ Unbroken)
  <1>1. Init => IInv /\ SoundKept /\ Unbroken
    BY InitHolds, InitSound, InitUnbroken
  <1>2. IInv /\ SoundKept /\ Unbroken /\ [Next]_vars => (IInv /\ SoundKept /\ Unbroken)'
    BY NextHolds, NextSound, NextUnbroken
  <1>3. QED
    BY <1>1, <1>2, PTL DEF Spec

(* However many pages there are and whoever drew, lost the link or joined   *)
(* while the others drew, the pages that are linked show the same drawing   *)
(* once no frame is on its way (join, sync, LiveSceneBroadcaster.missing).  *)
THEOREM RoomAlwaysAgrees == Spec => []RoomAgrees
  <1>1. IInv /\ SoundKept /\ Unbroken => RoomAgrees
    BY KeptAgrees
  <1>2. QED
    BY <1>1, PagesKeepTrack, RoomKeepsTrack, PTL
=============================================================================
