---------------------------- MODULE Autosave_proofs ----------------------------
(***************************************************************************)
(* What holds of a board page and its autosaver for any scene, however     *)
(* many changes, lost requests, lost answers, refusals, flushes and writes *)
(* of other tabs: "saved" means that every element the page shows is on    *)
(* the board, and the tracker takes nothing for acknowledged that the      *)
(* board does not have.                                                    *)
(*                                                                         *)
(* "Saved" is told when a patch has landed and no change came meanwhile,   *)
(* so the invariant says where every element the page shows is: the board  *)
(* has it, or newer, or it is noted; and of those noted, the patch in      *)
(* flight brings what was looked at and was not noted again.               *)
(*                                                                         *)
(* The second part is of what is alive and what was erased: a page that    *)
(* says "saved" shows nothing alive that the board lacks, and if nothing   *)
(* disturbed it, the board has nothing alive that it erased.  The third is *)
(* of pictures: every image on the board has its own.  The fourth is of    *)
(* order: what was noted is all that comparing everything would find, and  *)
(* a page that has nothing to do has nothing left to send.                 *)
(***************************************************************************)
EXTENDS Autosave, Scene_proofs

(* The shapes of the page's state.  An erased element keeps its place in    *)
(* the stack; one that can be undone was drawn before it was erased.        *)
Types ==
    /\ scene \in Scene /\ Timeless(scene)
    /\ stack \in Seq(Ids) /\ undo \in Seq(Ids)
    /\ tracker \in Trackers /\ Timeless(tracker.known)
    /\ sending \in Diffs \cup {Absent} /\ parts \in Seq(Diffs)
    /\ InFlight => Timeless(sending.elements)
    /\ board.elements \in Scene
    /\ timer \in BOOLEAN /\ dirty \in BOOLEAN /\ disposed \in BOOLEAN
    /\ status \in Statuses /\ flushes \in Nat

Drawable ==
    /\ \A id \in Ids : scene[id] # Absent => id \in Range(stack) /\ scene[id].version > 0
    /\ \A i, j \in DOMAIN undo : undo[i] = undo[j] => i = j
    /\ \A i \in DOMAIN undo : /\ scene[undo[i]] # Absent /\ scene[undo[i]].isDeleted
                              /\ scene[undo[i]].version > 1

(* What is in flight is on the board already, or in a request to come.      *)
OnItsWay ==
    InFlight =>
        /\ status = "saving" /\ parts # <<>>
        /\ \A i \in DOMAIN parts : \A id \in Ids :
              Older(sending.elements[id], parts[i].elements[id])
        /\ \A id \in Ids : \/ Older(sending.elements[id], board.elements[id])
                           \/ \E i \in DOMAIN parts : id \in Range(parts[i].list)

NotedId(id) == tracker.touched = Everything \/ id \in Range(tracker.touched)

OnBoard(id) == LiveOf(scene, id) => Older(scene[id], board.elements[id])

Brought(id) ==
    LiveOf(scene, id) => \/ Older(scene[id], board.elements[id])
                         \/ Older(scene[id], sending.elements[id])

Accounted == \A id \in Ids : NotedId(id) \/ OnBoard(id)

(* What the patch in flight looked at and was not noted since, it brings.   *)
LookedAt ==
    InFlight =>
        /\ tracker.touched # Everything =>
              \A id \in Range(tracker.touched) \ tracker.since : Brought(id)
        /\ tracker.touched = Everything /\ tracker.full /\ tracker.quiet =>
              \A id \in Ids : Brought(id)

(* A change made while a patch is in flight leaves a mark on the saver.     *)
Marked ==
    /\ tracker.quiet => tracker.since = {}
    /\ InFlight /\ ~dirty /\ ~disposed => tracker.quiet
    /\ InFlight /\ tracker.quiet /\ tracker.touched = Everything => tracker.full

Idle == Saved => \A id \in Ids : OnBoard(id)

Known == \A id \in Ids : Older(tracker.known[id], board.elements[id])

IInv == Types /\ Drawable /\ OnItsWay /\ Accounted /\ LookedAt /\ Marked /\ Idle /\ Known

-----------------------------------------------------------------------------
(* Only its elements matter of the board: a write keeps stamps as they are  *)
(* or newer, and what was on the board stays on it.                         *)
LEMMA BoardMoves ==
    ASSUME IInv, board'.elements \in Scene,
           \A id \in Ids : Older(board.elements[id], board'.elements[id]),
           UNCHANGED <<scene, tracker>>
    PROVE  /\ \A id \in Ids : OnBoard(id) => OnBoard(id)'
           /\ Accounted' /\ Known'
  <1>1. /\ scene \in Scene /\ board.elements \in Scene /\ tracker.known \in Scene
        /\ \A id \in Ids : /\ scene[id] \in Entry /\ tracker.known[id] \in Entry
                           /\ board.elements[id] \in Entry /\ board'.elements[id] \in Entry
    BY DEF IInv, Types, Trackers, Scene
  <1>2. ASSUME NEW id \in Ids, OnBoard(id)
        PROVE  OnBoard(id)'
    BY <1>1, <1>2, OlderIsTransitive DEF OnBoard
  <1>3. ASSUME NEW id \in Ids
        PROVE  Older(tracker.known[id], board'.elements[id])
    BY <1>1, OlderIsTransitive DEF IInv, Known
  <1>4. Accounted'
    BY <1>2 DEF IInv, Accounted, NotedId
  <1>5. QED
    BY <1>2, <1>3, <1>4 DEF Known

LEMMA ServedFacts ==
    ASSUME NEW part \in Diffs, board.elements \in Scene
    PROVE  /\ Served(board, part).elements \in Scene
           /\ \A id \in Ids :
                 /\ Older(board.elements[id], Served(board, part).elements[id])
                 /\ id \in Range(part.list) =>
                       Older(part.elements[id], Served(board, part).elements[id])
  <1> DEFINE o == Request(part)
             b == board
  <1>1. /\ o.kind = "patch" /\ o.patch.elements \in Scene
        /\ \A id \in Ids : id \in Range(part.list) => o.patch.elements[id] = part.elements[id]
    BY RequestFacts
  <1>2. Served(b, part).elements = Written(b, o).elements
    BY <1>1 DEF Served, Written, NextDocument
  <1>3. b.elements \in Scene
    OBVIOUS
  <1> HIDE DEF o, b
  <1>4. /\ Written(b, o).elements \in Scene
        /\ \A id \in Ids : /\ Older(b.elements[id], Written(b, o).elements[id])
                           /\ Older(o.patch.elements[id], Written(b, o).elements[id])
    BY <1>1, <1>3, WriteFacts
  <1>5. QED
    BY <1>1, <1>2, <1>4 DEF b

-----------------------------------------------------------------------------
(* The notes. *)

Looks(before, after, id) ==
    /\ after \in Trackers /\ after.known = before.known
    /\ ~after.quiet
    /\ \/ after.touched = Everything
       \/ /\ before.touched # Everything
          /\ Range(after.touched) = Range(before.touched) \cup {id}
          /\ after.since = before.since \cup {id}

LEMMA ChangedIsNoted ==
    ASSUME NEW t \in Trackers, NEW id \in Ids
    PROVE  Looks(t, NoteChanged(t, id), id)
  <1> DEFINE list == IF t.touched = Everything \/ id \in Range(t.touched) THEN t.touched
                     ELSE Append(t.touched, id)
             ids == t.since \cup {id}
             noted == [t EXCEPT !.quiet = FALSE, !.since = ids, !.touched = list]
  <1>1. NoteChanged(t, id) = noted
    BY DEF NoteChanged, Trackers
  <1>2. t.touched \in Seq(Ids) \cup {Everything}
    BY DEF Trackers
  <1>3. t.touched # Everything /\ id \notin Range(t.touched) =>
            Append(t.touched, id) \in Seq(Ids)
            /\ Range(Append(t.touched, id)) = Range(t.touched) \cup {id}
    BY <1>2, AppendRange
  <1>4. /\ list \in Seq(Ids) \cup {Everything}
        /\ \/ list = Everything
           \/ t.touched # Everything /\ Range(list) = Range(t.touched) \cup {id}
    BY <1>2, <1>3
  <1>5. ids \in SUBSET Ids
    BY DEF Trackers
  <1> HIDE DEF list, ids
  <1>6. /\ noted \in Trackers /\ noted.known = t.known /\ ~noted.quiet
        /\ noted.since = ids /\ noted.touched = list
    BY <1>4, <1>5 DEF Trackers
  <1> HIDE DEF noted
  <1>7. QED
    BY <1>1, <1>4, <1>6 DEF Looks, ids

LEMMA EverythingIsNoted ==
    ASSUME NEW t \in Trackers, NEW id \in Ids
    PROVE  Looks(t, NoteEverything(t), id) /\ Looks(t, NoteEverything(NoteChanged(t, id)), id)
  <1>1. ASSUME NEW u \in Trackers, u.known = t.known
        PROVE  Looks(t, NoteEverything(u), id)
    BY <1>1 DEF Looks, NoteEverything, Trackers
  <1>2. NoteChanged(t, id) \in Trackers /\ NoteChanged(t, id).known = t.known
    BY ChangedIsNoted DEF Looks
  <1>3. QED
    BY <1>1, <1>2

(* A change that is noted is accounted for, whatever it did to the element. *)
LEMMA ReportKeeps ==
    ASSUME IInv, NEW id \in Ids, NEW noted, Looks(tracker, noted, id), Report(noted),
           scene' \in Scene, Timeless(scene'),
           \A other \in Ids \ {id} : scene'[other] = scene[other],
           stack' \in Seq(Ids), undo' \in Seq(Ids), Drawable'
    PROVE  IInv'
  <1>1. /\ tracker' = noted /\ noted \in Trackers /\ noted.known = tracker.known
        /\ ~noted.quiet
        /\ UNCHANGED <<board, sending, parts, disposed, flushes>>
    BY DEF Report, Looks, Notify
  <1>2. /\ disposed => UNCHANGED <<timer, dirty, status>>
        /\ ~disposed /\ InFlight => dirty' = TRUE /\ UNCHANGED <<timer, status>>
        /\ ~disposed /\ ~InFlight => timer' = TRUE /\ status' = "pending" /\ UNCHANGED dirty
    BY DEF Report, Notify
  <1>3. /\ Types /\ OnItsWay /\ Accounted /\ LookedAt /\ Known
    BY DEF IInv
  <1>4. InFlight' = InFlight
    BY <1>1 DEF InFlight
  <1>5. Types'
    BY <1>1, <1>2, <1>3, <1>4 DEF Types, Statuses
  <1>6. OnItsWay'
    BY <1>1, <1>2, <1>3, <1>4 DEF OnItsWay
  <1>7. Accounted'
    <2> SUFFICES ASSUME NEW some \in Ids PROVE (NotedId(some) \/ OnBoard(some))'
      BY DEF Accounted
    <2>1. CASE tracker'.touched = Everything
      BY <2>1 DEF NotedId
    <2>2. CASE some = id
      BY <1>1, <2>2 DEF Looks, NotedId
    <2>3. CASE some # id /\ tracker'.touched # Everything
      <3>1. scene'[some] = scene[some] /\ board' = board
        BY <1>1, <2>3
      <3>2. NotedId(some) => NotedId(some)'
        BY <1>1, <2>3 DEF Looks, NotedId
      <3>3. QED
        BY <1>3, <3>1, <3>2 DEF Accounted, OnBoard, LiveOf
    <2>4. QED
      BY <2>1, <2>2, <2>3
  <1>8. LookedAt'
    <2> SUFFICES ASSUME InFlight', tracker'.touched # Everything,
                        NEW some \in Range(tracker'.touched) \ tracker'.since
                 PROVE  Brought(some)'
      BY <1>1 DEF LookedAt
    <2>1. /\ tracker.touched # Everything
          /\ some \in Range(tracker.touched) \ tracker.since /\ some # id
      BY <1>1 DEF Looks
    <2>2. Brought(some)
      BY <1>3, <1>4, <2>1 DEF LookedAt
    <2>3. some \in Ids
      BY <1>3, <2>1, RangeOfSeq DEF Types, Trackers
    <2>4. scene'[some] = scene[some] /\ board' = board /\ sending' = sending
      BY <1>1, <2>1, <2>3
    <2>5. QED
      BY <2>2, <2>4 DEF Brought, LiveOf
  <1>9. Marked'
    BY <1>1, <1>2, <1>3, <1>4 DEF Marked, Types
  <1>10. Idle'
    BY <1>1, <1>2, <1>3, <1>4 DEF Idle, Saved, OnItsWay
  <1>11. Known'
    BY <1>1, <1>3 DEF Known
  <1>12. QED
    BY <1>5, <1>6, <1>7, <1>8, <1>9, <1>10, <1>11 DEF IInv
-----------------------------------------------------------------------------
(* What the user does. *)

LEMMA OneChanges ==
    ASSUME Types, NEW id \in Ids, NEW e \in Element, e.updated = 0,
           scene' = [scene EXCEPT ![id] = e]
    PROVE  /\ scene' \in Scene /\ Timeless(scene') /\ scene'[id] = e /\ e # Absent
           /\ \A other \in Ids \ {id} : scene'[other] = scene[other]
  BY ReconcileAssumption DEF Types, Scene, Entry, Timeless

LEMMA DrawnType ==
    ASSUME NEW id \in Ids, NEW nonce \in Nonces
    PROVE  /\ Drawn(id, nonce) \in Element /\ Drawn(id, nonce).version = 1
           /\ Drawn(id, nonce).updated = 0 /\ ~Drawn(id, nonce).isDeleted
  <1>1. Picture(id) \in Pictures \cup {NoPicture}
    BY AutosaveAssumption DEF Picture
  <1>2. nonce \in Nat
    BY AutosaveAssumption
  <1>3. QED
    BY <1>1, <1>2 DEF Drawn, Element

LEMMA DrawKeeps ==
    ASSUME IInv, NEW id \in Ids, Draw(id) \/ DrawBelow(id)
    PROVE  IInv'
  <1>1. PICK nonce \in Nonces : scene' = [scene EXCEPT ![id] = Drawn(id, nonce)]
    BY DEF Draw, DrawBelow
  <1>2. Types /\ Drawable
    BY DEF IInv
  <1>3. /\ scene' \in Scene /\ Timeless(scene')
        /\ scene'[id] = Drawn(id, nonce) /\ scene'[id].version = 1
        /\ \A other \in Ids \ {id} : scene'[other] = scene[other]
    <2> DEFINE e == Drawn(id, nonce)
    <2>1. e \in Element /\ e.updated = 0 /\ e.version = 1
      BY DrawnType
    <2>2. scene' = [scene EXCEPT ![id] = e]
      BY <1>1
    <2> HIDE DEF e
    <2>3. QED
      BY <1>2, <2>1, <2>2, OneChanges DEF e
  <1>4. undo' = <<>>
    BY DEF Draw, DrawBelow
  <1>5. stack \in Seq(Ids)
    BY <1>2 DEF Types
  <1>6. stack' \in Seq(Ids) /\ Range(stack') = Range(stack) \cup {id}
    <2>1. CASE Draw(id)
      <3>1. stack' = Append(stack, id)
        BY <2>1 DEF Draw
      <3>2. QED
        BY <1>5, <3>1, AppendRange
    <2>2. CASE DrawBelow(id)
      <3>1. stack' = <<id>> \o stack
        BY <2>2 DEF DrawBelow
      <3> DEFINE one == <<id>>
      <3>2. one \in Seq(Ids) /\ Range(one) = {id}
        BY DEF Range
      <3> HIDE DEF one
      <3>3. Range(one \o stack) = Range(one) \cup Range(stack)
        BY <1>5, <3>2, RangeConcatenation
      <3>4. one \o stack \in Seq(Ids)
        BY <1>5, <3>2, ConcatProperties
      <3>5. QED
        BY <3>1, <3>2, <3>3, <3>4 DEF one
    <2>3. QED
      BY <2>1, <2>2
  <1>7. Drawable'
    BY <1>2, <1>3, <1>4, <1>6, NothingToUndo DEF Drawable
  <1>8. PICK noted : Looks(tracker, noted, id) /\ Report(noted)
    <2>1. tracker \in Trackers
      BY <1>2 DEF Types
    <2>2. QED
      BY <2>1, ChangedIsNoted, EverythingIsNoted DEF Draw, DrawBelow
  <1>9. QED
    BY <1>3, <1>4, <1>6, <1>7, <1>8, NothingToUndo, ReportKeeps

LEMMA EditKeeps ==
    ASSUME IInv, NEW id \in Ids, Edit(id)
    PROVE  IInv'
  <1>1. PICK nonce \in Nonces :
            scene' = [scene EXCEPT ![id].version = @ + 1, ![id].versionNonce = nonce]
    BY DEF Edit
  <1>2. Types /\ Drawable
    BY DEF IInv
  <1> DEFINE old == scene[id]
             v == old.version + 1
             e == [old EXCEPT !.version = v, !.versionNonce = nonce]
  <1>3. LiveOf(scene, id) /\ undo' = <<>> /\ stack' = stack
    BY DEF Edit
  <1>4. old \in Element /\ old.updated = 0 /\ old # Absent
    BY <1>2, <1>3 DEF Types, Scene, Entry, LiveOf, IsLive, Timeless
  <1>5. v \in Nat /\ v > 0 /\ nonce \in Nat
    BY <1>4, AutosaveAssumption DEF Element
  <1>6. scene' = [scene EXCEPT ![id] = e]
    BY <1>1, <1>2 DEF Types, Scene
  <1> HIDE DEF v, old
  <1>7. e \in Element /\ e.updated = 0 /\ e.version = v
    BY <1>4, <1>5 DEF Element
  <1> HIDE DEF e
  <1>8. /\ scene' \in Scene /\ Timeless(scene') /\ scene'[id] = e
        /\ \A other \in Ids \ {id} : scene'[other] = scene[other]
    BY <1>2, <1>6, <1>7, OneChanges
  <1>9. Drawable'
    BY <1>2, <1>3, <1>4, <1>5, <1>7, <1>8, NothingToUndo DEF Drawable, old
  <1>10. Report(NoteChanged(tracker, id)) /\ Looks(tracker, NoteChanged(tracker, id), id)
    BY <1>2, ChangedIsNoted DEF Edit, Types
  <1>11. stack' \in Seq(Ids) /\ undo' \in Seq(Ids)
    BY <1>2, <1>3, NothingToUndo DEF Types
  <1>12. QED
    BY <1>8, <1>9, <1>10, <1>11, ReportKeeps

LEMMA EraseKeeps ==
    ASSUME IInv, NEW id \in Ids, Erase(id)
    PROVE  IInv'
  <1>1. /\ LiveOf(scene, id) /\ stack' = stack /\ undo' = Append(undo, id)
        /\ scene' = [scene EXCEPT ![id].version = @ + 1, ![id].isDeleted = TRUE]
    BY DEF Erase
  <1>2. Types /\ Drawable
    BY DEF IInv
  <1> DEFINE old == scene[id]
             v == old.version + 1
             e == [old EXCEPT !.version = v, !.isDeleted = TRUE]
  <1>3. old \in Element /\ old.updated = 0 /\ old # Absent /\ old.version > 0
        /\ ~old.isDeleted
    BY <1>1, <1>2 DEF Types, Scene, Entry, LiveOf, IsLive, Timeless, Drawable
  <1>4. v \in Nat /\ v > 1
    BY <1>3 DEF Element
  <1>5. scene' = [scene EXCEPT ![id] = e]
    BY <1>1, <1>2 DEF Types, Scene
  <1> HIDE DEF v, old
  <1>6. e \in Element /\ e.updated = 0 /\ e.version = v /\ e.isDeleted
    BY <1>3, <1>4 DEF Element
  <1> HIDE DEF e
  <1>7. /\ scene' \in Scene /\ Timeless(scene') /\ scene'[id] = e /\ e # Absent
        /\ \A other \in Ids \ {id} : scene'[other] = scene[other]
    BY <1>2, <1>5, <1>6, OneChanges
  <1>8. undo \in Seq(Ids) /\ \A i \in DOMAIN undo : undo[i] \in Ids /\ undo[i] # id
    <2>1. undo \in Seq(Ids) /\ \A i \in DOMAIN undo : undo[i] \in Ids
      BY <1>2, ElementOfSeq, LenProperties DEF Types
    <2>2. QED
      BY <1>2, <1>3, <2>1 DEF Drawable, old
  <1>9. /\ undo' \in Seq(Ids)
        /\ \A i \in DOMAIN undo' : (i \in DOMAIN undo /\ undo'[i] = undo[i]) \/ undo'[i] = id
        /\ \A i, j \in DOMAIN undo' : undo'[i] = undo'[j] => i = j
    <2> DEFINE longer == Append(undo, id)
    <2>1. /\ longer \in Seq(Ids) /\ Len(longer) = Len(undo) + 1 /\ Len(undo) \in Nat
          /\ \A i \in 1..Len(undo) : longer[i] = undo[i]
          /\ longer[Len(undo) + 1] = id
      BY <1>8, AppendProperties, LenProperties
    <2>2. DOMAIN longer = 1..Len(undo) + 1 /\ DOMAIN undo = 1..Len(undo)
      BY <1>8, <2>1, LenProperties
    <2> HIDE DEF longer
    <2>3. \A i \in DOMAIN longer : i \in DOMAIN undo \/ i = Len(undo) + 1
      BY <2>1, <2>2
    <2>4. \A i \in DOMAIN longer : (i \in DOMAIN undo /\ longer[i] = undo[i]) \/ longer[i] = id
      BY <2>1, <2>2, <2>3
    <2>5. \A i, j \in DOMAIN longer : longer[i] = longer[j] => i = j
      BY <1>2, <1>8, <2>1, <2>2, <2>3 DEF Drawable
    <2>6. QED
      BY <1>1, <2>1, <2>4, <2>5 DEF longer
  <1>10. Drawable'
    <2>1. ASSUME NEW other \in Ids, scene'[other] # Absent
          PROVE  other \in Range(stack') /\ scene'[other].version > 0
      <3>1. CASE other = id
        <4>1. scene'[id].version > 0
          BY <1>4, <1>6, <1>7
        <4>2. QED
          BY <1>1, <1>2, <1>3, <3>1, <4>1 DEF Drawable, old
      <3>2. CASE other # id
        BY <1>1, <1>2, <1>7, <2>1, <3>2 DEF Drawable
      <3>3. QED
        BY <3>1, <3>2
    <2>2. \A i \in DOMAIN undo' : /\ scene'[undo'[i]] # Absent /\ scene'[undo'[i]].isDeleted
                                  /\ scene'[undo'[i]].version > 1
      BY <1>2, <1>4, <1>6, <1>7, <1>8, <1>9 DEF Drawable
    <2>3. QED
      BY <1>9, <2>1, <2>2 DEF Drawable
  <1>11. Report(NoteChanged(tracker, id)) /\ Looks(tracker, NoteChanged(tracker, id), id)
    BY <1>2, ChangedIsNoted DEF Erase, Types
  <1>12. stack' \in Seq(Ids)
    BY <1>1, <1>2 DEF Types
  <1>13. QED
    BY <1>7, <1>9, <1>10, <1>11, <1>12, ReportKeeps

LEMMA UndeleteKeeps ==
    ASSUME IInv, NEW id \in Ids, Undelete(id)
    PROVE  IInv'
  <1>1. /\ undo # <<>> /\ id = Last(undo) /\ undo' = Front(undo) /\ stack' = stack
        /\ Report(NoteEverything(tracker))
    BY DEF Undelete
  <1>2. PICK nonce \in Nonces, restamps \in EngineRestamps :
            scene' = [scene EXCEPT ![id].isDeleted = FALSE,
                                   ![id].version = IF restamps THEN @ + 1 ELSE @ - 1,
                                   ![id].versionNonce = nonce]
    BY DEF Undelete
  <1>3. Types /\ Drawable
    BY DEF IInv
  <1>4. /\ undo \in Seq(Ids) /\ Len(undo) \in Nat /\ Len(undo) > 0
        /\ DOMAIN undo = 1..Len(undo) /\ id = undo[Len(undo)]
    BY <1>1, <1>3, LenProperties, EmptySeq DEF Types, Last
  <1> DEFINE old == scene[id]
             v == IF restamps THEN old.version + 1 ELSE old.version - 1
             e == [old EXCEPT !.isDeleted = FALSE, !.version = v, !.versionNonce = nonce]
  <1>5. /\ old # Absent /\ old.isDeleted /\ old.version > 1
    BY <1>3, <1>4 DEF Drawable
  <1>6. old \in Element /\ old.updated = 0
    BY <1>3, <1>5 DEF Types, Scene, Entry, Timeless
  <1>7. v \in Nat /\ v > 0 /\ nonce \in Nat
    BY <1>5, <1>6, AutosaveAssumption DEF Element
  <1>8. scene' = [scene EXCEPT ![id] = e]
    BY <1>2, <1>3 DEF Types, Scene
  <1> HIDE DEF v, old
  <1>9. e \in Element /\ e.updated = 0 /\ e.version = v
    BY <1>6, <1>7 DEF Element
  <1> HIDE DEF e
  <1>10. /\ scene' \in Scene /\ Timeless(scene') /\ scene'[id] = e /\ e # Absent
         /\ \A other \in Ids \ {id} : scene'[other] = scene[other]
    BY <1>3, <1>8, <1>9, OneChanges
  <1>11. /\ undo' \in Seq(Ids)
         /\ \A i \in DOMAIN undo' : /\ i \in DOMAIN undo /\ undo'[i] = undo[i]
                                    /\ undo[i] # id /\ undo[i] \in Ids
    <2>1. /\ undo' \in Seq(Ids)
          /\ \A i \in DOMAIN undo' : /\ i \in DOMAIN undo /\ i # Len(undo)
                                     /\ undo'[i] = undo[i]
      BY <1>1, <1>4, FrontFacts
    <2>2. \A i \in DOMAIN undo : undo[i] \in Ids
      BY <1>4, ElementOfSeq
    <2>3. Len(undo) \in DOMAIN undo
      BY <1>4
    <2>4. QED
      BY <1>3, <1>4, <2>1, <2>2, <2>3 DEF Drawable
  <1>12. Drawable'
    <2>1. \A other \in Ids : scene'[other] # Absent =>
              other \in Range(stack') /\ scene'[other].version > 0
      BY <1>1, <1>3, <1>5, <1>7, <1>9, <1>10 DEF Drawable, old
    <2>2. \A i \in DOMAIN undo' : /\ scene'[undo'[i]] # Absent /\ scene'[undo'[i]].isDeleted
                                  /\ scene'[undo'[i]].version > 1
      BY <1>3, <1>10, <1>11 DEF Drawable
    <2>3. \A i, j \in DOMAIN undo' : undo'[i] = undo'[j] => i = j
      BY <1>3, <1>11 DEF Drawable
    <2>4. QED
      BY <2>1, <2>2, <2>3 DEF Drawable
  <1>13. Looks(tracker, NoteEverything(tracker), id)
    BY <1>3, EverythingIsNoted DEF Types
  <1>14. stack' \in Seq(Ids)
    BY <1>1, <1>3 DEF Types
  <1>15. QED
    BY <1>1, <1>10, <1>11, <1>12, <1>13, <1>14, ReportKeeps

LEMMA RestackKeeps ==
    ASSUME IInv, NEW id \in Ids, Restack(id)
    PROVE  IInv'
  <1>1. /\ LiveOf(scene, id) /\ scene' = scene /\ undo' = <<>>
        /\ stack' = Append(Only[Ids \ {id}][stack], id)
        /\ Report(NoteEverything(tracker))
    BY DEF Restack
  <1>2. Types /\ Drawable
    BY DEF IInv
  <1> DEFINE rest == Ids \ {id}
             others == Only[rest][stack]
  <1>3. stack \in Seq(Ids) /\ rest \in SUBSET Ids
    BY <1>2 DEF Types
  <1> HIDE DEF rest
  <1>4. others \in Seq(Ids) /\ Range(others) = Range(stack) \cap rest
    BY <1>3, OnlyFacts
  <1> HIDE DEF others
  <1>5. stack' = Append(others, id)
    BY <1>1 DEF others, rest
  <1>6. stack' \in Seq(Ids) /\ Range(stack') = Range(others) \cup {id}
    BY <1>4, <1>5, AppendRange
  <1>7. Range(stack) \subseteq Ids
    BY <1>3, RangeOfSeq
  <1>8. Range(stack) \subseteq Range(stack')
    BY <1>4, <1>6, <1>7 DEF rest
  <1>9. Drawable'
    BY <1>1, <1>2, <1>8, NothingToUndo DEF Drawable
  <1>10. Looks(tracker, NoteEverything(tracker), id)
    BY <1>2, EverythingIsNoted DEF Types
  <1>11. scene' \in Scene /\ Timeless(scene') /\ undo' \in Seq(Ids)
         /\ \A other \in Ids \ {id} : scene'[other] = scene[other]
    BY <1>1, <1>2, NothingToUndo DEF Types
  <1>12. QED
    BY <1>1, <1>6, <1>9, <1>10, <1>11, ReportKeeps
-----------------------------------------------------------------------------
(* What the saver's diff finds. *)

(* Of an element it looks at, the patch brings what the page shows, unless  *)
(* the board has it: the tracker would not leave it out otherwise.          *)
LEMMA PatchBrings ==
    ASSUME IInv, NEW patch \in Patches
    PROVE  /\ patch \in Diffs /\ Timeless(patch.elements)
           /\ Range(patch.list) = Named(patch)
           /\ \A id \in Ids :
                 NotedId(id) /\ LiveOf(scene, id) =>
                     \/ Older(scene[id], patch.elements[id])
                     \/ Older(scene[id], board.elements[id])
  <1>1. PICK nonces \in [Ids -> Nonces] : patch = Diff(tracker, scene, Shown, nonces)
    BY DEF Patches
  <1>2. Types /\ Drawable /\ Known
    BY DEF IInv
  <1>3. nonces \in [Ids -> Nat] /\ \A id \in Ids : nonces[id] \in Nat
    BY AutosaveAssumption
  <1> DEFINE live == LiveIds(scene)
             shown == Only[live][stack]
  <1>4. stack \in Seq(Ids) /\ live \in SUBSET Ids
    BY <1>2 DEF Types, LiveIds
  <1> HIDE DEF live
  <1>5. shown \in Seq(Ids) /\ Range(shown) = Range(stack) \cap live
    BY <1>4, OnlyFacts
  <1> HIDE DEF shown
  <1>6. patch = Diff(tracker, scene, shown, nonces)
    BY <1>1 DEF Shown, shown, live
  <1>7. /\ tracker \in Trackers /\ scene \in Scene /\ Timeless(tracker.known)
        /\ Timeless(scene)
    BY <1>2 DEF Types
  <1>8. /\ patch \in Diffs /\ Timeless(patch.elements)
        /\ Range(patch.list) = Named(patch)
        /\ \A id \in Ids :
              \/ tracker.touched = Everything /\ id \in Range(shown)
              \/ tracker.touched # Everything /\ id \in Range(tracker.touched)
              => patch.elements[id] = Change([known |-> tracker.known], scene, id, nonces[id])
    BY <1>3, <1>5, <1>6, <1>7, DiffFacts
  <1>9. ASSUME NEW id \in Ids, NotedId(id), LiveOf(scene, id)
        PROVE  \/ Older(scene[id], patch.elements[id])
               \/ Older(scene[id], board.elements[id])
    <2> DEFINE before == tracker.known
               nonce == nonces[id]
               change == Change([known |-> before], scene, id, nonce)
    <2>1. id \in Range(stack) /\ id \in live
      BY <1>2, <1>9 DEF Drawable, LiveOf, IsLive, LiveIds, live
    <2>2. patch.elements[id] = change
      BY <1>5, <1>8, <1>9, <2>1 DEF NotedId
    <2>3. before \in Scene /\ Timeless(before) /\ nonce \in Nat
      BY <1>3, <1>7 DEF Trackers
    <2> HIDE DEF before, nonce
    <2>4. Older(scene[id], change) \/ Older(scene[id], before[id])
      BY <1>7, <1>9, <2>3, ChangeBrings
    <2>5. Older(before[id], board.elements[id])
      BY <1>2 DEF Known, before
    <2>6. /\ scene[id] \in Entry /\ before[id] \in Entry /\ board.elements[id] \in Entry
      BY <1>2, <2>3 DEF Types, Scene
    <2>7. QED
      BY <2>2, <2>4, <2>5, <2>6, OlderIsTransitive
  <1>10. QED
    BY <1>8, <1>9

(* A diff begins or finds nothing: in the first case what it brings is on   *)
(* its way, in the second all there is to see is on the board.              *)
LEMMA RunKeeps ==
    ASSUME IInv, ~InFlight, Run,
           timer' \in BOOLEAN, dirty' \in BOOLEAN, flushes' \in Nat,
           UNCHANGED <<scene, stack, undo, board, held, disposed>>
    PROVE  IInv'
  <1>1. PICK patch \in Patches :
            /\ tracker' = Diffed(tracker, patch)
            /\ IF IsEmpty(patch)
               THEN status' = "idle" /\ UNCHANGED <<sending, parts>>
               ELSE /\ status' = "saving" /\ sending' = patch
                    /\ parts' = Split([patch EXCEPT !.elements = Strip(held, @)])
    BY DEF Run
  <1>2. /\ patch \in Diffs /\ Timeless(patch.elements)
        /\ Range(patch.list) = Named(patch)
        /\ \A id \in Ids :
              NotedId(id) /\ LiveOf(scene, id) =>
                  \/ Older(scene[id], patch.elements[id])
                  \/ Older(scene[id], board.elements[id])
    BY PatchBrings
  <1>3. Types /\ Drawable /\ Accounted /\ Known
    BY DEF IInv
  <1>4. /\ tracker' \in Trackers /\ tracker'.known = tracker.known
        /\ tracker'.since = {} /\ tracker'.quiet
        /\ tracker'.full = (tracker.touched = Everything)
        /\ ~IsEmpty(patch) => tracker'.touched = tracker.touched
        /\ IsEmpty(patch) => tracker'.touched # Everything /\ Range(tracker'.touched) = {}
    BY <1>1, <1>3, DiffedFacts DEF Types
  <1>5. Drawable' /\ Known' /\ \A id \in Ids : OnBoard(id)' = OnBoard(id)
    BY <1>3, <1>4 DEF Drawable, Known, OnBoard, LiveOf
  <1>6. CASE IsEmpty(patch)
    <2>1. \A id \in Ids : patch.elements[id] = Absent
      <3>1. patch.list = <<>>
        BY <1>6 DEF IsEmpty
      <3>2. QED
        BY <1>2, <3>1, EmptyRange DEF Named
    <2>2. ASSUME NEW id \in Ids
          PROVE  OnBoard(id)
      <3>1. CASE ~NotedId(id)
        BY <1>3, <3>1 DEF Accounted
      <3>2. CASE NotedId(id) /\ LiveOf(scene, id)
        BY <1>2, <2>1, <3>2 DEF OnBoard, Older, LiveOf, IsLive
      <3>3. QED
        BY <3>1, <3>2 DEF OnBoard
    <2>3. status' = "idle" /\ sending' = sending /\ parts' = parts /\ ~InFlight'
      BY <1>1, <1>6 DEF InFlight
    <2>4. Types'
      BY <1>3, <1>4, <2>3 DEF Types, Statuses
    <2>5. Accounted' /\ Idle'
      BY <1>5, <2>2 DEF Accounted, Idle
    <2>6. OnItsWay' /\ LookedAt' /\ Marked'
      BY <1>4, <2>3 DEF OnItsWay, LookedAt, Marked
    <2>7. QED
      BY <1>5, <2>4, <2>5, <2>6 DEF IInv
  <1>7. CASE ~IsEmpty(patch)
    <2> DEFINE stripped == Strip(held, patch.elements)
               sent == [patch EXCEPT !.elements = stripped]
    <2>1. status' = "saving" /\ sending' = patch /\ parts' = Split(sent)
      BY <1>1, <1>2, <1>7 DEF Diffs
    <2>2. stripped \in Scene /\ \A id \in Ids : Older(patch.elements[id], stripped[id])
      BY <1>2, StripFacts DEF Diffs
    <2> HIDE DEF stripped
    <2>3. sent \in Diffs /\ sent.elements = stripped /\ sent.list = patch.list
      BY <1>2, <2>2 DEF Diffs
    <2> HIDE DEF sent
    <2>4. /\ parts' \in Seq(Diffs) /\ parts' # <<>>
          /\ \A i \in DOMAIN parts' : parts'[i].elements = stripped
          /\ \A id \in Range(patch.list) : \E i \in DOMAIN parts' : id \in Range(parts'[i].list)
      BY <2>1, <2>3, SplitFacts
    <2>5. Types'
      BY <1>2, <1>3, <1>4, <2>1, <2>4 DEF Types, Statuses
    <2>6. OnItsWay'
      <3>1. \A id \in Ids : \/ Older(patch.elements[id], board'.elements[id])
                            \/ \E i \in DOMAIN parts' : id \in Range(parts'[i].list)
        BY <1>2, <2>4 DEF Named, Older
      <3>2. QED
        BY <2>1, <2>2, <2>4, <3>1 DEF OnItsWay
    <2>7. Accounted'
      BY <1>3, <1>4, <1>5, <1>7 DEF Accounted, NotedId
    <2>8. ASSUME NEW id \in Ids, NotedId(id)
          PROVE  Brought(id)'
      BY <1>2, <2>1, <2>8 DEF Brought, LiveOf
    <2>9. LookedAt'
      <3>1. tracker'.touched # Everything => Range(tracker'.touched) \subseteq Ids
        BY <1>4, RangeOfSeq DEF Trackers
      <3>2. QED
        BY <1>4, <1>7, <2>8, <3>1 DEF LookedAt, NotedId
    <2>10. Marked'
      BY <1>4, <1>7 DEF Marked
    <2>11. Idle'
      BY <2>1 DEF Idle, Saved
    <2>12. QED
      BY <1>5, <2>5, <2>6, <2>7, <2>9, <2>10, <2>11 DEF IInv
  <1>8. QED
    BY <1>6, <1>7

LEMMA TimerKeeps ==
    ASSUME IInv, TimerFires
    PROVE  IInv'
  <1>1. CASE disposed \/ InFlight
    <2>1. timer' = FALSE
          /\ UNCHANGED <<scene, stack, undo, board, dirty, disposed, flushes,
                         tracker, status, sending, parts>>
      BY <1>1 DEF TimerFires
    <2>2. QED
      BY <2>1 DEF IInv, Types, Drawable, OnItsWay, Accounted, LookedAt, Marked, Idle, Known,
                  InFlight, Saved, NotedId, OnBoard, Brought, LiveOf
  <1>2. CASE ~(disposed \/ InFlight)
    <2>1. /\ ~InFlight /\ Run /\ timer' = FALSE
          /\ UNCHANGED <<scene, stack, undo, board, held, dirty, disposed, flushes>>
      BY <1>2 DEF TimerFires
    <2>2. timer' \in BOOLEAN /\ dirty' \in BOOLEAN /\ flushes' \in Nat
      BY <2>1 DEF IInv, Types
    <2>3. QED
      BY <2>1, <2>2, RunKeeps
  <1>3. QED
    BY <1>1, <1>2

LEMMA FlushKeeps ==
    ASSUME IInv, Flush
    PROVE  IInv'
  <1>1. CASE InFlight
    <2>1. /\ timer' = FALSE /\ flushes' = 1
          /\ UNCHANGED <<scene, stack, undo, board, dirty, disposed,
                         tracker, status, sending, parts>>
      BY <1>1 DEF Flush
    <2>2. QED
      BY <2>1 DEF IInv, Types, Drawable, OnItsWay, Accounted, LookedAt, Marked, Idle, Known,
                  InFlight, Saved, NotedId, OnBoard, Brought, LiveOf
  <1>2. CASE ~InFlight
    <2>1. /\ Run /\ timer' = FALSE /\ dirty' = FALSE /\ flushes' = flushes
          /\ UNCHANGED <<scene, stack, undo, board, held, disposed>>
      BY <1>2 DEF Flush
    <2>2. flushes' \in Nat
      BY <2>1 DEF IInv, Types
    <2>3. QED
      BY <1>2, <2>1, <2>2, RunKeeps
  <1>3. QED
    BY <1>1, <1>2

LEMMA ResumeKeeps ==
    ASSUME IInv, ResumeFlush
    PROVE  IInv'
  <1>1. /\ ~InFlight /\ Run /\ timer' = FALSE /\ dirty' = FALSE
        /\ flushes > 0 /\ flushes' = flushes - 1
        /\ UNCHANGED <<scene, stack, undo, board, held, disposed>>
    BY DEF ResumeFlush, FlushResumes
  <1>2. flushes' \in Nat
    BY <1>1 DEF IInv, Types
  <1>3. QED
    BY <1>1, <1>2, RunKeeps

LEMMA DisposeKeeps ==
    ASSUME IInv, Dispose
    PROVE  IInv'
  <1>1. /\ timer' = FALSE /\ disposed' = TRUE
        /\ UNCHANGED <<scene, stack, undo, board, dirty, flushes,
                       tracker, status, sending, parts>>
    BY DEF Dispose
  <1>2. QED
    BY <1>1 DEF IInv, Types, Drawable, OnItsWay, Accounted, LookedAt, Marked, Idle, Known,
                InFlight, Saved, NotedId, OnBoard, Brought, LiveOf
-----------------------------------------------------------------------------
(* What the server and the network do. *)

(* Once a request is served, what it listed is on the board; what is left   *)
(* of the patch is in the requests after it.                                *)
LEMMA HeadServed ==
    ASSUME IInv, InFlight
    PROVE  /\ Served(board, Head(parts)).elements \in Scene
           /\ \A id \in Ids :
                 LET after == Served(board, Head(parts)).elements[id]
                 IN  /\ Older(board.elements[id], after)
                     /\ \/ Older(sending.elements[id], after)
                        \/ \E i \in 1..Len(Tail(parts)) : id \in Range(Tail(parts)[i].list)
           /\ Tail(parts) \in Seq(Diffs)
           /\ \A i \in 1..Len(Tail(parts)) : \A id \in Ids :
                 Older(sending.elements[id], Tail(parts)[i].elements[id])
           /\ Len(Tail(parts)) = Len(parts) - 1 /\ Len(parts) \in Nat
  <1> DEFINE first == Head(parts)
             rest == Tail(parts)
             after == Served(board, first).elements
  <1>1. /\ sending \in Diffs /\ sending.elements \in Scene /\ board.elements \in Scene
        /\ parts \in Seq(Diffs) /\ parts # <<>> /\ OnItsWay
    BY DEF IInv, Types, OnItsWay, InFlight, Diffs
  <1>2. /\ first \in Diffs /\ rest \in Seq(Diffs) /\ Len(rest) = Len(parts) - 1
        /\ \A i \in 1..Len(rest) : rest[i] = parts[i + 1]
    BY <1>1, HeadTailProperties
  <1>3. /\ first = parts[1] /\ Len(parts) \in Nat /\ DOMAIN parts = 1..Len(parts)
        /\ Len(parts) # 0
    BY <1>1, LenProperties, EmptySeq
  <1> HIDE DEF rest, first
  <1>4. /\ 1 \in DOMAIN parts
        /\ \A i \in 1..Len(rest) : i + 1 \in DOMAIN parts
        /\ \A i \in DOMAIN parts : i # 1 => i - 1 \in 1..Len(rest) /\ (i - 1) + 1 = i
    BY <1>2, <1>3
  <1>5. /\ after \in Scene
        /\ \A id \in Ids : /\ Older(board.elements[id], after[id])
                           /\ id \in Range(first.list) => Older(first.elements[id], after[id])
    BY <1>1, <1>2, ServedFacts
  <1> HIDE DEF after
  <1>6. ASSUME NEW id \in Ids
        PROVE  \/ Older(sending.elements[id], after[id])
               \/ \E i \in 1..Len(rest) : id \in Range(rest[i].list)
    <2>1. /\ sending.elements[id] \in Entry /\ board.elements[id] \in Entry
          /\ after[id] \in Entry /\ first.elements[id] \in Entry
      BY <1>1, <1>2, <1>5 DEF Scene, Diffs
    <2>2. CASE Older(sending.elements[id], board.elements[id])
      BY <1>5, <2>1, <2>2, OlderIsTransitive
    <2>3. CASE \E i \in DOMAIN parts : id \in Range(parts[i].list)
      <3>1. PICK i \in DOMAIN parts : id \in Range(parts[i].list)
        BY <2>3
      <3>2. CASE i = 1
        <4>1. /\ Older(sending.elements[id], first.elements[id])
              /\ Older(first.elements[id], after[id])
          BY <1>1, <1>3, <1>4, <1>5, <3>1, <3>2 DEF OnItsWay
        <4>2. QED
          BY <2>1, <4>1, OlderIsTransitive
      <3>3. CASE i # 1
        <4> DEFINE j == i - 1
        <4>1. j \in 1..Len(rest) /\ j + 1 = i
          BY <1>4, <3>3
        <4> HIDE DEF j
        <4>2. rest[j] = parts[i]
          BY <1>2, <4>1
        <4>3. QED
          BY <3>1, <4>1, <4>2
      <3>4. QED
        BY <3>2, <3>3
    <2>4. QED
      BY <1>1, <2>2, <2>3 DEF OnItsWay
  <1>7. \A i \in 1..Len(rest) : \A id \in Ids :
            Older(sending.elements[id], rest[i].elements[id])
    BY <1>1, <1>2, <1>4 DEF OnItsWay
  <1>8. QED
    BY <1>2, <1>3, <1>5, <1>6, <1>7 DEF first, rest, after

(* Between two requests of a patch: the rest of it is still to come.        *)
LEMMA NextPartKeeps ==
    ASSUME IInv, Accepted, Len(parts) > 1
    PROVE  IInv'
  <1>1. /\ InFlight /\ board' = Served(board, Head(parts)) /\ parts' = Tail(parts)
        /\ UNCHANGED <<tracker, timer, sending, dirty, status, scene, stack, undo,
                       disposed, flushes>>
    BY DEF Accepted
  <1>2. /\ board'.elements \in Scene
        /\ \A id \in Ids :
              /\ Older(board.elements[id], board'.elements[id])
              /\ \/ Older(sending.elements[id], board'.elements[id])
                 \/ \E i \in 1..Len(parts') : id \in Range(parts'[i].list)
        /\ parts' \in Seq(Diffs)
        /\ \A i \in 1..Len(parts') : \A id \in Ids :
              Older(sending.elements[id], parts'[i].elements[id])
        /\ Len(parts') = Len(parts) - 1 /\ Len(parts) \in Nat
    BY <1>1, HeadServed
  <1>3. Types /\ Drawable /\ OnItsWay /\ LookedAt /\ Marked
    BY DEF IInv
  <1>4. /\ \A id \in Ids : OnBoard(id) => OnBoard(id)'
        /\ Accounted' /\ Known'
    BY <1>1, <1>2, BoardMoves
  <1>5. Types' /\ Drawable' /\ InFlight'
    BY <1>1, <1>2, <1>3 DEF Types, Drawable, InFlight
  <1>6. OnItsWay'
    <2>1. DOMAIN parts' = 1..Len(parts') /\ Len(parts') # 0 /\ parts' # <<>>
      BY <1>2, LenProperties, EmptySeq
    <2>2. QED
      BY <1>1, <1>2, <1>3, <2>1 DEF OnItsWay
  <1>7. LookedAt'
    <2>1. ASSUME NEW id \in Ids, Brought(id)
          PROVE  Brought(id)'
      <3>1. /\ scene[id] \in Entry /\ board.elements[id] \in Entry
            /\ board'.elements[id] \in Entry
        BY <1>2, <1>3 DEF Types, Scene
      <3>2. QED
        BY <1>1, <1>2, <2>1, <3>1, OlderIsTransitive DEF Brought
    <2>2. tracker.touched # Everything => Range(tracker.touched) \subseteq Ids
      BY <1>3, RangeOfSeq DEF Types, Trackers
    <2>3. QED
      BY <1>1, <1>3, <2>1, <2>2 DEF LookedAt
  <1>8. Marked' /\ Idle'
    BY <1>1, <1>3, <1>5 DEF Marked, Idle, Saved, OnItsWay
  <1>9. QED
    BY <1>4, <1>5, <1>6, <1>7, <1>8 DEF IInv

(* The last answer: all of the patch is on the board.                       *)
LEMMA LandedKeeps ==
    ASSUME IInv, Accepted, ~(Len(parts) > 1)
    PROVE  IInv'
  <1>1. /\ InFlight /\ board' = Served(board, Head(parts))
        /\ sending' = Absent /\ parts' = <<>> /\ tracker' = Acknowledged(tracker, sending)
        /\ dirty => FollowUp
        /\ ~dirty => status' = "idle" /\ UNCHANGED <<timer, dirty>>
        /\ UNCHANGED <<scene, stack, undo, disposed, flushes>>
    BY DEF Accepted, Landed
  <1>2. Types /\ Drawable /\ Accounted /\ LookedAt /\ Marked /\ Known
    BY DEF IInv
  <1>3. /\ board'.elements \in Scene
        /\ \A id \in Ids : /\ Older(board.elements[id], board'.elements[id])
                           /\ Older(sending.elements[id], board'.elements[id])
    <2>1. /\ Len(Tail(parts)) = Len(parts) - 1 /\ Len(parts) \in Nat
      BY <1>1, HeadServed
    <2>2. \A i \in 1..Len(Tail(parts)) : FALSE
      BY <2>1
    <2>3. QED
      BY <1>1, <2>2, HeadServed
  <1>4. sending \in Diffs /\ Timeless(sending.elements) /\ sending.elements \in Scene
    BY <1>1, <1>2 DEF Types, InFlight, Diffs
  <1>5. /\ tracker' \in Trackers
        /\ \A id \in Ids : tracker'.known[id] = IF sending.elements[id] = Absent
                                                THEN tracker.known[id] ELSE sending.elements[id]
        /\ tracker'.since = tracker.since /\ tracker'.quiet = tracker.quiet
        /\ tracker'.full = tracker.full
        /\ tracker.touched # Everything =>
              /\ tracker'.touched # Everything
              /\ Range(tracker'.touched) = Range(tracker.touched) \cap tracker.since
        /\ tracker.touched = Everything =>
              tracker'.touched = IF tracker.full /\ tracker.quiet THEN <<>> ELSE Everything
    <2>1. tracker \in Trackers
      BY <1>2 DEF Types
    <2> DEFINE t == tracker
               patch == sending
               known == [id \in Ids |-> IF patch.elements[id] = Absent THEN t.known[id]
                                        ELSE patch.elements[id]]
               after == Acknowledged(t, patch)
    <2>2. t \in Trackers /\ patch \in Diffs
      BY <1>4, <2>1
    <2>3. tracker' = after
      BY <1>1
    <2> HIDE DEF t, patch
    <2>4. /\ after \in Trackers
          /\ after.known = known
          /\ after.since = t.since /\ after.quiet = t.quiet /\ after.full = t.full
          /\ t.touched # Everything =>
                /\ after.touched # Everything
                /\ Range(after.touched) = Range(t.touched) \cap t.since
          /\ t.touched = Everything =>
                after.touched = IF t.full /\ t.quiet THEN <<>> ELSE Everything
      BY <2>2, AcknowledgedFacts
    <2> HIDE DEF after
    <2>5. \A id \in Ids : after.known[id] = IF patch.elements[id] = Absent THEN t.known[id]
                                             ELSE patch.elements[id]
      BY <2>4
    <2>6. QED
      BY <2>3, <2>4, <2>5 DEF t, patch
  <1>6. /\ dirty' = FALSE
        /\ disposed \/ status' = "pending" \/ (status' = "idle" /\ ~dirty)
        /\ timer' \in BOOLEAN /\ status' \in Statuses /\ ~InFlight'
    BY <1>1, <1>2 DEF FollowUp, Types, Statuses, InFlight
  <1>7. Types' /\ Drawable'
    <2>1. Timeless(tracker'.known)
      BY <1>2, <1>4, <1>5 DEF Types, Timeless
    <2>2. parts' \in Seq(Diffs)
      BY <1>1, EmptySeq
    <2>3. QED
      BY <1>1, <1>2, <1>3, <1>5, <1>6, <2>1, <2>2 DEF Types, Drawable
  <1>8. ASSUME NEW id \in Ids, OnBoard(id) \/ Brought(id)
        PROVE  OnBoard(id)'
    <2>1. /\ scene[id] \in Entry /\ board.elements[id] \in Entry
          /\ sending.elements[id] \in Entry /\ board'.elements[id] \in Entry
      BY <1>2, <1>3, <1>4 DEF Types, Scene
    <2>2. scene' = scene
      BY <1>1
    <2>3. QED
      BY <1>3, <1>8, <2>1, <2>2, OlderIsTransitive DEF OnBoard, Brought
  <1>9. Accounted'
    <2> SUFFICES ASSUME NEW id \in Ids, ~NotedId(id)' PROVE OnBoard(id)'
      BY DEF Accounted
    <2>1. tracker'.touched # Everything /\ id \notin Range(tracker'.touched)
      BY DEF NotedId
    <2>2. CASE tracker.touched # Everything
      <3>1. id \in Range(tracker.touched) => Brought(id)
        BY <1>1, <1>2, <1>5, <2>1, <2>2 DEF LookedAt
      <3>2. id \notin Range(tracker.touched) => OnBoard(id)
        BY <1>2, <2>2 DEF Accounted, NotedId
      <3>3. QED
        BY <1>8, <3>1, <3>2
    <2>3. CASE tracker.touched = Everything
      <3>1. Brought(id)
        BY <1>1, <1>2, <1>5, <2>1, <2>3 DEF LookedAt
      <3>2. QED
        BY <1>8, <3>1
    <2>4. QED
      BY <2>2, <2>3
  <1>10. Known'
    <2> SUFFICES ASSUME NEW id \in Ids PROVE Older(tracker'.known[id], board'.elements[id])
      BY DEF Known
    <2>1. /\ tracker.known[id] \in Entry /\ board.elements[id] \in Entry
          /\ board'.elements[id] \in Entry
      BY <1>2, <1>3 DEF Types, Trackers, Scene
    <2>2. Older(tracker.known[id], board'.elements[id])
      BY <1>2, <1>3, <2>1, OlderIsTransitive DEF Known
    <2>3. QED
      BY <1>3, <1>5, <2>2
  <1>11. Idle'
    <2> SUFFICES ASSUME Saved', NEW id \in Ids PROVE OnBoard(id)'
      BY DEF Idle
    <2>1. ~disposed /\ ~dirty
      BY <1>1, <1>6 DEF Saved
    <2>2. tracker.quiet /\ tracker.since = {} /\ (tracker.touched = Everything => tracker.full)
      BY <1>1, <1>2, <2>1 DEF Marked
    <2>3. tracker'.touched # Everything /\ id \notin Range(tracker'.touched)
      BY <1>5, <2>2, EmptyRange, SceneDiffAssumption
    <2>4. QED
      BY <1>9, <2>3 DEF Accounted, NotedId
  <1>12. OnItsWay' /\ LookedAt' /\ Marked'
    BY <1>2, <1>5, <1>6 DEF OnItsWay, LookedAt, Marked
  <1>13. QED
    BY <1>7, <1>9, <1>10, <1>11, <1>12 DEF IInv

(* A request that fails gives the patch up, whatever became of it.          *)
LEMMA FailedKeeps ==
    ASSUME IInv, Failed \/ Refused
    PROVE  IInv'
  <1>1. /\ InFlight
        /\ board' = board \/ board' = Served(board, Head(parts))
        /\ sending' = Absent /\ parts' = <<>>
        /\ UNCHANGED <<scene, stack, undo, tracker, disposed, flushes>>
    BY DEF Failed, FailedThen, Refused, Landed
  <1>2. Types /\ Drawable /\ Marked
    BY DEF IInv
  <1>3. timer' \in BOOLEAN /\ dirty' \in BOOLEAN
        /\ status' \in {"error", "too-large", "pending"} /\ ~InFlight'
    BY <1>1, <1>2 DEF Failed, FailedThen, Refused, FollowUp, Types, InFlight
  <1>4. /\ board'.elements \in Scene
        /\ \A id \in Ids : Older(board.elements[id], board'.elements[id])
    <2>1. CASE board' = board
      <3>1. \A id \in Ids : board.elements[id] \in Entry
        BY <1>2 DEF Types, Scene
      <3>2. \A id \in Ids : Older(board.elements[id], board.elements[id])
        BY <3>1, OlderIsReflexive
      <3>3. QED
        BY <1>2, <2>1, <3>2 DEF Types
    <2>2. CASE board' = Served(board, Head(parts))
      BY <1>1, <2>2, HeadServed
    <2>3. QED
      BY <1>1, <2>1, <2>2
  <1>5. Accounted' /\ Known'
    BY <1>1, <1>4, BoardMoves
  <1>6. parts' \in Seq(Diffs)
    BY <1>1, EmptySeq
  <1>7. Types' /\ Drawable'
    BY <1>1, <1>2, <1>3, <1>4, <1>6 DEF Types, Drawable, Statuses
  <1>8. OnItsWay' /\ LookedAt' /\ Marked' /\ Idle'
    BY <1>1, <1>2, <1>3 DEF OnItsWay, LookedAt, Marked, Idle, Saved
  <1>9. QED
    BY <1>5, <1>7, <1>8 DEF IInv

(* Another tab's patch is merged like any other.                            *)
LEMMA PeerKeeps ==
    ASSUME IInv, PeerWrite
    PROVE  IInv'
  <1>1. PICK o \in PeerOperations : board' = [Written(board, o) EXCEPT !.rev = board.rev]
    BY DEF PeerWrite
  <1>2. UNCHANGED <<scene, stack, undo, tracker, timer, sending, parts, dirty, status,
                    disposed, flushes>>
    BY DEF PeerWrite, saver
  <1>3. Types /\ Drawable /\ OnItsWay /\ LookedAt /\ Marked /\ Idle
    BY DEF IInv
  <1>4. o.kind = "patch" /\ o.patch.elements \in Scene
    BY AutosaveAssumption DEF Operation, Patch, Scene
  <1>5. board'.elements = Written(board, o).elements
    BY <1>1, <1>4 DEF Written, NextDocument
  <1>6. /\ board'.elements \in Scene
        /\ \A id \in Ids : Older(board.elements[id], board'.elements[id])
    <2> DEFINE b == board
    <2>1. b.elements \in Scene
      BY <1>3 DEF Types
    <2> HIDE DEF b
    <2>2. /\ Written(b, o).elements \in Scene
          /\ \A id \in Ids : Older(b.elements[id], Written(b, o).elements[id])
      BY <1>4, <2>1, WriteFacts
    <2>3. QED
      BY <1>5, <2>2 DEF b
  <1>7. /\ \A id \in Ids : OnBoard(id) => OnBoard(id)'
        /\ Accounted' /\ Known'
    BY <1>2, <1>6, BoardMoves
  <1>8. Types' /\ Drawable' /\ InFlight' = InFlight
    BY <1>2, <1>3, <1>6 DEF Types, Drawable, InFlight
  <1>9. OnItsWay' /\ LookedAt'
    <2>1. ASSUME NEW e \in Entry, NEW id \in Ids, Older(e, board.elements[id])
          PROVE  Older(e, board'.elements[id])
      <3>1. board.elements[id] \in Entry /\ board'.elements[id] \in Entry
        BY <1>3, <1>6 DEF Types, Scene
      <3>2. QED
        BY <1>6, <2>1, <3>1, OlderIsTransitive
    <2>2. \A id \in Ids : scene[id] \in Entry /\ (InFlight => sending.elements[id] \in Entry)
      BY <1>3 DEF Types, Scene, Diffs, InFlight
    <2>3. \A id \in Ids : Brought(id) => Brought(id)'
      BY <1>2, <2>1, <2>2 DEF Brought
    <2>4. tracker.touched # Everything => Range(tracker.touched) \subseteq Ids
      BY <1>3, RangeOfSeq DEF Types, Trackers
    <2>5. OnItsWay'
      BY <1>2, <1>3, <1>8, <2>1, <2>2 DEF OnItsWay
    <2>6. LookedAt'
      BY <1>2, <1>3, <1>8, <2>3, <2>4 DEF LookedAt
    <2>7. QED
      BY <2>5, <2>6
  <1>10. Marked' /\ Idle'
    BY <1>2, <1>3, <1>7, <1>8 DEF Marked, Idle, Saved
  <1>11. QED
    BY <1>7, <1>8, <1>9, <1>10 DEF IInv
-----------------------------------------------------------------------------
(* A page opened on a board shows what the board has.                       *)
LEMMA InitHolds == Init => IInv
  <1> SUFFICES ASSUME Init PROVE IInv
    OBVIOUS
  <1>1. PICK ids \in SUBSET Ids : \E nonce \in Nonces, order \in [1..Cardinality(ids) -> ids] :
            /\ {order[i] : i \in DOMAIN order} = ids
            /\ scene = [id \in Ids |-> IF id \in ids THEN Drawn(id, nonce) ELSE Absent]
            /\ stack = order
            /\ board = [NewBoard EXCEPT !.elements = scene, !.place = PlaceOf(order)]
            /\ tracker = Adopted(scene, order)
            /\ held = ids \cap Images
    BY Zenon DEF Init
  <1>2. PICK nonce \in Nonces, order \in [1..Cardinality(ids) -> ids] :
            /\ {order[i] : i \in DOMAIN order} = ids
            /\ scene = [id \in Ids |-> IF id \in ids THEN Drawn(id, nonce) ELSE Absent]
            /\ stack = order
            /\ board = [NewBoard EXCEPT !.elements = scene, !.place = PlaceOf(order)]
            /\ tracker = Adopted(scene, order)
            /\ held = ids \cap Images
    BY <1>1, Zenon
  <1>3. /\ timer = FALSE /\ sending = Absent /\ parts = <<>> /\ dirty = FALSE
        /\ status = "idle" /\ disposed = FALSE /\ flushes = 0 /\ undo = <<>>
    BY DEF Init
  <1> DEFINE n == Cardinality(ids)
             list == [i \in 1..n |-> order[i]]
  <1>4. n \in Nat
    BY ReconcileAssumption, FS_Subset, FS_CardinalityType
  <1>5. stack = list /\ order \in [1..n -> ids]
    BY <1>2
  <1> HIDE DEF n
  <1>6. list \in Seq(Ids)
    <2>1. \A i \in 1..n : order[i] \in Ids
      BY <1>5
    <2>2. QED
      BY <1>4, <2>1, IsASeq
  <1>7. stack \in Seq(Ids) /\ Range(stack) = ids
    BY <1>2, <1>5, <1>6 DEF Range
  <1> HIDE DEF list
  <1>8. \A id \in Ids : /\ Drawn(id, nonce) \in Element /\ Drawn(id, nonce).version = 1
                        /\ Drawn(id, nonce).updated = 0 /\ ~Drawn(id, nonce).isDeleted
    BY DrawnType
  <1>9. /\ scene \in Scene /\ Timeless(scene)
        /\ \A id \in Ids : scene[id] # Absent => id \in ids /\ scene[id].version > 0
    BY <1>2, <1>8 DEF Scene, Entry, Timeless
  <1>10. board.elements = scene
    BY <1>2 DEF NewBoard
  <1>11. /\ tracker \in Trackers /\ tracker.known = scene
         /\ tracker.since = {} /\ tracker.quiet
    BY <1>2, <1>7, <1>9, EmptySeq DEF Adopted, Trackers
  <1>12. ~InFlight
    BY <1>3 DEF InFlight
  <1>13. Types
    BY <1>3, <1>7, <1>9, <1>10, <1>11, <1>12, EmptySeq DEF Types, Statuses
  <1>14. Drawable
    BY <1>3, <1>7, <1>9, NothingToUndo DEF Drawable
  <1>15. \A id \in Ids : Older(scene[id], scene[id])
    <2>1. \A id \in Ids : scene[id] \in Entry
      BY <1>9 DEF Scene
    <2>2. QED
      BY <2>1, OlderIsReflexive
  <1>16. Accounted /\ Idle /\ Known
    BY <1>10, <1>11, <1>15 DEF Accounted, Idle, Known, OnBoard
  <1>17. OnItsWay /\ LookedAt /\ Marked
    BY <1>11, <1>12 DEF OnItsWay, LookedAt, Marked
  <1>18. QED
    BY <1>13, <1>14, <1>16, <1>17 DEF IInv

LEMMA StepKeeps == IInv /\ [Next]_vars => IInv'
  <1> SUFFICES ASSUME IInv, [Next]_vars PROVE IInv'
    OBVIOUS
  <1>1. CASE UNCHANGED vars
    BY <1>1 DEF vars, saver, IInv, Types, Drawable, OnItsWay, Accounted, LookedAt, Marked,
                Idle, Known, InFlight, Saved, NotedId, OnBoard, Brought, LiveOf
  <1>2. CASE UserActs
    BY <1>2, DrawKeeps, EditKeeps, EraseKeeps, UndeleteKeeps, RestackKeeps DEF UserActs
  <1>3. CASE ResumeFlush \/ TimerFires \/ Flush \/ Dispose
    BY <1>3, ResumeKeeps, TimerKeeps, FlushKeeps, DisposeKeeps
  <1>4. CASE Accepted \/ Failed \/ Refused \/ PeerWrite
    BY <1>4, NextPartKeeps, LandedKeeps, FailedKeeps, PeerKeeps
  <1>5. QED
    BY <1>1, <1>2, <1>3, <1>4 DEF Next

-----------------------------------------------------------------------------
(* Whatever the page shows is on the board, on its way or noted, in every   *)
(* state a page, its saver, the server and other tabs can reach.            *)
THEOREM EverythingIsAccountedFor == Spec => []IInv
  <1>1. Init => IInv
    BY InitHolds
  <1>2. IInv /\ [Next]_vars => IInv'
    BY StepKeeps
  <1>3. QED
    BY <1>1, <1>2, PTL DEF Spec

(* "Saved" is true: every element the page shows is on the board as it is   *)
(* here, unless another tab outranks it (autosaver.ts, +page.svelte).       *)
THEOREM SavedIsTrue == Spec => []SavedIsSaved
  <1>1. IInv => SavedIsSaved
    BY DEF IInv, Idle, SavedIsSaved, OnBoard, Older, LiveIds, LiveOf, IsLive
  <1>2. QED
    BY <1>1, EverythingIsAccountedFor, PTL

(* The tracker never takes for acknowledged what the board does not have    *)
(* (sceneDiff.ts acknowledge).                                              *)
THEOREM TrackerKnowsNoMore == Spec => []KnownIsServed
  <1>1. IInv => KnownIsServed
    BY DEF IInv, Known, KnownIsServed, Older
  <1>2. QED
    BY <1>1, EverythingIsAccountedFor, PTL

(* Once the page is left, only a flush asked for before sends a patch       *)
(* (autosaver.ts flush, dispose).                                           *)
THEOREM NothingAfterDispose == Spec => [][disposed /\ ~InFlight /\ InFlight' => flushes > 0]_vars
  <1>1. [Next]_vars => [disposed /\ ~InFlight /\ InFlight' => flushes > 0]_vars
    <2> SUFFICES ASSUME Next, disposed, ~InFlight, InFlight' PROVE flushes > 0
      OBVIOUS
    <2>1. sending = Absent /\ sending' # Absent
      BY DEF InFlight
    <2>2. CASE ResumeFlush
      BY <2>2 DEF ResumeFlush, FlushResumes
    <2>3. CASE UserActs
      BY <2>1, <2>3 DEF UserActs, Draw, DrawBelow, Edit, Erase, Undelete, Restack, Report, Notify
    <2>4. CASE TimerFires \/ Flush \/ Dispose
      BY <2>1, <2>4 DEF TimerFires, Flush, Dispose
    <2>5. CASE Accepted \/ Failed \/ Refused \/ PeerWrite
      BY <2>1, <2>5 DEF Accepted, Failed, FailedThen, Refused, PeerWrite, InFlight, saver
    <2>6. QED
      BY <2>2, <2>3, <2>4, <2>5 DEF Next
  <1>2. QED
    BY <1>1, PTL DEF Spec
-----------------------------------------------------------------------------
(* What is gone.  IInv says where the elements are that the page shows; it  *)
(* says nothing of those it has erased.  "Saved" also means that nothing is *)
(* missing on the board but what another tab erased, and, of a page nothing *)
(* disturbs, that nothing is there that the page has erased.  Both follow   *)
(* from what the tracker knows to be alive: it is what the page shows, or   *)
(* the difference is noted, or on its way.                                  *)

SameLife(id) == LiveOf(tracker.known, id) <=> LiveOf(scene, id)

(* What the tracker knows once the patch in flight has landed. *)
After(id) ==
    IF sending.elements[id] = Absent THEN tracker.known[id] ELSE sending.elements[id]

LifeBrought(id) == IsLive(After(id)) <=> LiveOf(scene, id)

LifeNoted == \A id \in Ids : NotedId(id) \/ SameLife(id)

LifeLookedAt ==
    InFlight =>
        /\ tracker.touched # Everything =>
              \A id \in Ids :
                  /\ sending.elements[id] # Absent => id \in Range(tracker.touched)
                  /\ id \in Range(tracker.touched) \ tracker.since => LifeBrought(id)
        /\ tracker.touched = Everything /\ tracker.full /\ tracker.quiet =>
              \A id \in Ids : LifeBrought(id)

LifeIdle == Saved => \A id \in Ids : SameLife(id)

(* A tombstone is sent only of what is known to be alive, and what brings   *)
(* an element back or takes it away is stamped above what is known.         *)
Flips ==
    InFlight => \A id \in Ids :
        /\ Gone(sending.elements, id) =>
              /\ LiveOf(tracker.known, id)
              /\ sending.elements[id].version > tracker.known[id].version
        /\ LiveOf(sending.elements, id) /\ Gone(tracker.known, id) =>
              sending.elements[id].version > tracker.known[id].version

FromPeer(id) ==
    /\ peerWrites > 0
    /\ \E o \in PeerOperations :
          /\ o.patch.elements[id] # Absent
          /\ o.patch.elements[id].isDeleted = board.elements[id].isDeleted

(* An engine that stamps an undo counts one version up per change: every    *)
(* copy there is of this page's is the scene's, or an earlier version.      *)
CountedUp ==
    "restored" \notin undone =>
        \A id \in Ids :
            /\ Counts(tracker.known[id], scene[id])
            /\ InFlight => /\ Counts(sending.elements[id], scene[id])
                           /\ sending.elements[id] # Absent /\ tracker.known[id] # Absent =>
                                 sending.elements[id].version > tracker.known[id].version
            /\ Counts(board.elements[id], scene[id]) \/ FromPeer(id)

(* Until something fails, a tombstone of this page's on the board is known, *)
(* or on its way: the page sent it, and its answer is not in yet.           *)
OwnTombs ==
    failures = 0 => \A id \in Ids : Gone(board.elements, id) =>
        \/ ErasedByPeer(id)
        \/ Gone(tracker.known, id) /\ Older(board.elements[id], tracker.known[id])
        \/ /\ InFlight /\ Gone(sending.elements, id)
           /\ Older(board.elements[id], sending.elements[id])

(* No other tab writes, no older engine restores a delete as it was, and no *)
(* request was merged that the saver takes for failed.                      *)
Undisturbed ==
    /\ peerWrites = 0 /\ "restored" \notin undone
    /\ failures = 0 \/ (~AnswersGetLost /\ Images = {})

(* What is alive on the board of such a page is known, or on its way.       *)
Remembered ==
    Undisturbed => \A id \in Ids : LiveOf(board.elements, id) =>
        \/ LiveOf(tracker.known, id) /\ Older(board.elements[id], tracker.known[id])
        \/ /\ InFlight /\ Images # {} /\ LiveOf(sending.elements, id)
           /\ Older(board.elements[id], sending.elements[id])

(* Without images a patch is one request. *)
Plain ==
    Images = {} => /\ \A id \in Ids : scene[id] # Absent => scene[id].picture = NoPicture
                   /\ InFlight => Len(parts) = 1

LikeSent ==
    InFlight => \A i \in DOMAIN parts, id \in Ids :
                    Alike(parts[i].elements[id], sending.elements[id])

Numbers == failures \in Nat /\ peerWrites \in Nat

LInv ==
    /\ Numbers /\ LikeSent /\ Plain
    /\ LifeNoted /\ LifeLookedAt /\ LifeIdle
    /\ Flips /\ CountedUp /\ OwnTombs /\ Remembered

-----------------------------------------------------------------------------
(* What only moves the saver's timer, its mark or its status. *)
LEMMA QuietLives ==
    ASSUME LInv, UNCHANGED <<scene, undone, board, tracker, sending, parts, failures, peerWrites>>,
           Saved' => Saved
    PROVE  LInv'
  <1>1. InFlight' = InFlight /\ \A id \in Ids : /\ SameLife(id)' = SameLife(id)
                                                /\ (InFlight => LifeBrought(id)' = LifeBrought(id))
    BY DEF InFlight, SameLife, LifeBrought, After, LiveOf
  <1>2. Numbers' /\ LikeSent' /\ Plain'
    BY <1>1 DEF LInv, Numbers, LikeSent, Plain
  <1>3. LifeNoted' /\ LifeLookedAt' /\ LifeIdle'
    BY <1>1 DEF LInv, LifeNoted, LifeLookedAt, LifeIdle, NotedId
  <1>4. Flips' /\ CountedUp'
    BY <1>1 DEF LInv, Flips, CountedUp, Gone, LiveOf, FromPeer
  <1>5. OwnTombs' /\ Remembered'
    BY <1>1 DEF LInv, OwnTombs, Remembered, Gone, LiveOf, ErasedByPeer, Undisturbed
  <1>6. QED
    BY <1>2, <1>3, <1>4, <1>5 DEF LInv

(* A change of the page's, noted: no copy counts less than it did.          *)
LEMMA ReportLives ==
    ASSUME IInv, LInv, NEW id \in Ids, NEW noted, Looks(tracker, noted, id), Report(noted),
           scene' \in Scene,
           \A other \in Ids \ {id} : scene'[other] = scene[other],
           undone \subseteq undone',
           "restored" \notin undone' =>
               \A x \in Entry : Counts(x, scene[id]) => Counts(x, scene'[id]),
           Images = {} /\ scene'[id] # Absent => scene'[id].picture = NoPicture
    PROVE  LInv'
  <1>1. /\ tracker' = noted /\ noted \in Trackers /\ noted.known = tracker.known
        /\ ~noted.quiet
        /\ \/ noted.touched = Everything
           \/ /\ tracker.touched # Everything
              /\ Range(noted.touched) = Range(tracker.touched) \cup {id}
              /\ noted.since = tracker.since \cup {id}
        /\ UNCHANGED <<board, sending, parts, disposed, failures, peerWrites>>
    BY DEF Report, Looks, Notify
  <1>2. ~Saved'
    <2>1. /\ disposed => disposed'
          /\ ~disposed /\ InFlight => status' = status
          /\ ~disposed /\ ~InFlight => status' = "pending"
      BY DEF Report, Notify
    <2>2. InFlight => status = "saving"
      BY DEF IInv, OnItsWay
    <2>3. QED
      BY <2>1, <2>2 DEF Saved
  <1>3. InFlight' = InFlight
    BY <1>1 DEF InFlight
  <1>4. Numbers' /\ LikeSent' /\ Plain' /\ LifeIdle'
    <2>1. Numbers' /\ LikeSent' /\ LifeIdle'
      BY <1>1, <1>2, <1>3 DEF LInv, Numbers, LikeSent, LifeIdle
    <2>2. Plain'
      BY <1>1, <1>3 DEF LInv, Plain
    <2>3. QED
      BY <2>1, <2>2
  <1>5. LifeNoted'
    <2> SUFFICES ASSUME NEW some \in Ids, ~NotedId(some)' PROVE SameLife(some)'
      BY DEF LifeNoted
    <2>1. noted.touched # Everything /\ some \notin Range(noted.touched)
      BY <1>1 DEF NotedId
    <2>2. some # id /\ ~NotedId(some)
      BY <1>1, <2>1 DEF NotedId
    <2>3. scene'[some] = scene[some] /\ tracker'.known = tracker.known
      BY <1>1, <2>2
    <2>4. SameLife(some)
      BY <2>2 DEF LInv, LifeNoted
    <2>5. QED
      BY <2>3, <2>4 DEF SameLife, LiveOf
  <1>6. LifeLookedAt'
    <2> SUFFICES ASSUME InFlight', tracker'.touched # Everything, NEW some \in Ids
                 PROVE  /\ sending'.elements[some] # Absent => some \in Range(tracker'.touched)
                        /\ some \in Range(tracker'.touched) \ tracker'.since => LifeBrought(some)'
      BY <1>1 DEF LifeLookedAt
    <2>1. tracker.touched # Everything /\ InFlight
      BY <1>1, <1>3
    <2>2. sending.elements[some] # Absent => some \in Range(tracker.touched)
      BY <2>1 DEF LInv, LifeLookedAt
    <2>3. ASSUME some \in Range(tracker'.touched) \ tracker'.since
          PROVE  LifeBrought(some)'
      <3>1. some # id /\ some \in Range(tracker.touched) \ tracker.since
        BY <1>1, <2>3
      <3>2. LifeBrought(some)
        BY <2>1, <3>1 DEF LInv, LifeLookedAt
      <3>3. /\ scene'[some] = scene[some] /\ tracker'.known = tracker.known
            /\ sending' = sending
        BY <1>1, <3>1
      <3>4. QED
        BY <3>2, <3>3 DEF LifeBrought, After, LiveOf
    <2>4. QED
      BY <1>1, <2>1, <2>2, <2>3
  <1>7. Flips'
    BY <1>1, <1>3 DEF LInv, Flips, Gone, LiveOf
  <1>8. CountedUp'
    <2> SUFFICES ASSUME "restored" \notin undone', NEW some \in Ids
                 PROVE  /\ Counts(tracker'.known[some], scene'[some])
                        /\ InFlight' =>
                              /\ Counts(sending'.elements[some], scene'[some])
                              /\ sending'.elements[some] # Absent /\ tracker'.known[some] # Absent =>
                                    sending'.elements[some].version > tracker'.known[some].version
                        /\ Counts(board'.elements[some], scene'[some]) \/ FromPeer(some)'
      BY DEF CountedUp
    <2>1. "restored" \notin undone
      OBVIOUS
    <2>2. \A x \in Entry : Counts(x, scene[some]) => Counts(x, scene'[some])
      BY <2>1
    <2>3. /\ tracker.known[some] \in Entry /\ board.elements[some] \in Entry
          /\ InFlight => sending.elements[some] \in Entry
      BY DEF IInv, Types, Trackers, Diffs, Scene, InFlight
    <2>4. /\ Counts(tracker.known[some], scene[some])
          /\ InFlight => /\ Counts(sending.elements[some], scene[some])
                         /\ sending.elements[some] # Absent /\ tracker.known[some] # Absent =>
                               sending.elements[some].version > tracker.known[some].version
          /\ Counts(board.elements[some], scene[some]) \/ FromPeer(some)
      BY <2>1 DEF LInv, CountedUp
    <2>5. FromPeer(some)' = FromPeer(some)
      BY <1>1 DEF FromPeer
    <2>6. /\ tracker'.known = tracker.known /\ sending' = sending /\ board' = board
      BY <1>1
    <2>7. QED
      BY <1>3, <2>2, <2>3, <2>4, <2>5, <2>6
  <1>9. OwnTombs'
    BY <1>1, <1>3 DEF LInv, OwnTombs, Gone, ErasedByPeer
  <1>10. Remembered'
    <2>1. Undisturbed' => Undisturbed
      BY <1>1 DEF Undisturbed
    <2>2. QED
      BY <1>1, <1>3, <2>1 DEF LInv, Remembered, LiveOf
  <1>11. QED
    BY <1>4, <1>5, <1>6, <1>7, <1>8, <1>9, <1>10 DEF LInv

LEMMA DrawLives ==
    ASSUME IInv, LInv, NEW id \in Ids, Draw(id) \/ DrawBelow(id)
    PROVE  LInv'
  <1>1. PICK nonce \in Nonces : scene' = [scene EXCEPT ![id] = Drawn(id, nonce)]
    BY DEF Draw, DrawBelow
  <1>2. Types /\ scene[id] = Absent /\ undone' = undone
    BY DEF IInv, Draw, DrawBelow
  <1> DEFINE e == Drawn(id, nonce)
  <1>3. e \in Element /\ e.updated = 0
    BY DrawnType
  <1>4. Images = {} => e.picture = NoPicture
    BY DEF Drawn, Picture
  <1>5. scene' = [scene EXCEPT ![id] = e]
    BY <1>1
  <1> HIDE DEF e
  <1>6. /\ scene' \in Scene /\ scene'[id] = e /\ e # Absent
        /\ \A other \in Ids \ {id} : scene'[other] = scene[other]
    BY <1>2, <1>3, <1>5, OneChanges
  <1>7. \A x \in Entry : Counts(x, scene[id]) => Counts(x, scene'[id])
    BY <1>2 DEF Counts
  <1>8. PICK noted : Looks(tracker, noted, id) /\ Report(noted)
    <2>1. tracker \in Trackers
      BY <1>2 DEF Types
    <2>2. QED
      BY <2>1, ChangedIsNoted, EverythingIsNoted DEF Draw, DrawBelow
  <1>9. QED
    BY <1>2, <1>4, <1>6, <1>7, <1>8, ReportLives

LEMMA EditLives ==
    ASSUME IInv, LInv, NEW id \in Ids, Edit(id)
    PROVE  LInv'
  <1>1. PICK nonce \in Nonces :
            scene' = [scene EXCEPT ![id].version = @ + 1, ![id].versionNonce = nonce]
    BY DEF Edit
  <1>2. Types /\ LiveOf(scene, id) /\ undone' = undone
    BY DEF IInv, Edit
  <1> DEFINE old == scene[id]
             v == old.version + 1
             e == [old EXCEPT !.version = v, !.versionNonce = nonce]
  <1>3. old \in Element /\ old.updated = 0 /\ old # Absent
    BY <1>2 DEF Types, Scene, Entry, LiveOf, IsLive, Timeless
  <1>4. v \in Nat /\ nonce \in Nat /\ old.version < v
    BY <1>3, AutosaveAssumption DEF Element
  <1>5. scene' = [scene EXCEPT ![id] = e]
    BY <1>1, <1>2 DEF Types, Scene
  <1>6. Images = {} => old.picture = NoPicture
    BY <1>3 DEF LInv, Plain
  <1> HIDE DEF v
  <1>7. old = scene[id]
    OBVIOUS
  <1> HIDE DEF old
  <1>8. e \in Element /\ e.updated = 0 /\ e.version = v /\ e.picture = old.picture
    BY <1>3, <1>4 DEF Element
  <1> HIDE DEF e
  <1>9. /\ scene' \in Scene /\ scene'[id] = e /\ e # Absent
        /\ \A other \in Ids \ {id} : scene'[other] = scene[other]
    BY <1>2, <1>5, <1>8, OneChanges
  <1>10. ASSUME NEW x \in Entry, Counts(x, old)
         PROVE  Counts(x, e)
    BY <1>3, <1>4, <1>8, <1>9, <1>10, CountsOn DEF Entry
  <1>11. Report(NoteChanged(tracker, id)) /\ Looks(tracker, NoteChanged(tracker, id), id)
    BY <1>2, ChangedIsNoted DEF Edit, Types
  <1>12. QED
    BY <1>2, <1>6, <1>7, <1>8, <1>9, <1>10, <1>11, ReportLives

LEMMA EraseLives ==
    ASSUME IInv, LInv, NEW id \in Ids, Erase(id)
    PROVE  LInv'
  <1>1. /\ LiveOf(scene, id) /\ undone' = undone
        /\ scene' = [scene EXCEPT ![id].version = @ + 1, ![id].isDeleted = TRUE]
    BY DEF Erase
  <1>2. Types
    BY DEF IInv
  <1> DEFINE old == scene[id]
             v == old.version + 1
             e == [old EXCEPT !.version = v, !.isDeleted = TRUE]
  <1>3. old \in Element /\ old.updated = 0 /\ old # Absent
    BY <1>1, <1>2 DEF Types, Scene, Entry, LiveOf, IsLive, Timeless
  <1>4. v \in Nat /\ old.version < v
    BY <1>3 DEF Element
  <1>5. scene' = [scene EXCEPT ![id] = e]
    BY <1>1, <1>2 DEF Types, Scene
  <1>6. Images = {} => old.picture = NoPicture
    BY <1>3 DEF LInv, Plain
  <1> HIDE DEF v
  <1>7. old = scene[id]
    OBVIOUS
  <1> HIDE DEF old
  <1>8. e \in Element /\ e.updated = 0 /\ e.version = v /\ e.picture = old.picture
    BY <1>3, <1>4 DEF Element
  <1> HIDE DEF e
  <1>9. /\ scene' \in Scene /\ scene'[id] = e /\ e # Absent
        /\ \A other \in Ids \ {id} : scene'[other] = scene[other]
    BY <1>2, <1>5, <1>8, OneChanges
  <1>10. ASSUME NEW x \in Entry, Counts(x, old)
         PROVE  Counts(x, e)
    BY <1>3, <1>4, <1>8, <1>9, <1>10, CountsOn DEF Entry
  <1>11. Report(NoteChanged(tracker, id)) /\ Looks(tracker, NoteChanged(tracker, id), id)
    BY <1>2, ChangedIsNoted DEF Erase, Types
  <1>12. QED
    BY <1>1, <1>6, <1>7, <1>8, <1>9, <1>10, <1>11, ReportLives

LEMMA UndeleteLives ==
    ASSUME IInv, LInv, NEW id \in Ids, Undelete(id)
    PROVE  LInv'
  <1>1. /\ undo # <<>> /\ id = Last(undo) /\ Report(NoteEverything(tracker))
    BY DEF Undelete
  <1>2. PICK nonce \in Nonces, restamps \in EngineRestamps :
            /\ undone' = undone \cup {IF restamps THEN "restamped" ELSE "restored"}
            /\ scene' = [scene EXCEPT ![id].isDeleted = FALSE,
                                      ![id].version = IF restamps THEN @ + 1 ELSE @ - 1,
                                      ![id].versionNonce = nonce]
    BY DEF Undelete
  <1>3. Types /\ Drawable
    BY DEF IInv
  <1>4. /\ undo \in Seq(Ids) /\ Len(undo) \in Nat /\ Len(undo) > 0
        /\ DOMAIN undo = 1..Len(undo) /\ id = undo[Len(undo)]
    BY <1>1, <1>3, LenProperties, EmptySeq DEF Types, Last
  <1> DEFINE old == scene[id]
             v == IF restamps THEN old.version + 1 ELSE old.version - 1
             e == [old EXCEPT !.isDeleted = FALSE, !.version = v, !.versionNonce = nonce]
  <1>5. /\ old # Absent /\ old.isDeleted /\ old.version > 1
    BY <1>3, <1>4 DEF Drawable
  <1>6. old \in Element /\ old.updated = 0
    BY <1>3, <1>5 DEF Types, Scene, Entry, Timeless
  <1>7. /\ v \in Nat /\ nonce \in Nat
        /\ "restored" \notin undone' => old.version < v
    BY <1>2, <1>5, <1>6, AutosaveAssumption DEF Element
  <1>8. scene' = [scene EXCEPT ![id] = e]
    BY <1>2, <1>3 DEF Types, Scene
  <1>9. Images = {} => old.picture = NoPicture
    BY <1>5 DEF LInv, Plain
  <1>10. old = scene[id] /\ undone \subseteq undone'
    BY <1>2
  <1> HIDE DEF v, old
  <1>11. e \in Element /\ e.updated = 0 /\ e.version = v /\ e.picture = old.picture
    BY <1>6, <1>7 DEF Element
  <1> HIDE DEF e
  <1>12. /\ scene' \in Scene /\ scene'[id] = e /\ e # Absent
         /\ \A other \in Ids \ {id} : scene'[other] = scene[other]
    BY <1>3, <1>8, <1>11, OneChanges
  <1>13. ASSUME "restored" \notin undone', NEW x \in Entry, Counts(x, old)
         PROVE  Counts(x, e)
    <2>1. old \in Entry /\ old.version < e.version
      BY <1>6, <1>7, <1>11, <1>13 DEF Entry
    <2>2. QED
      BY <1>11, <1>12, <1>13, <2>1, CountsOn
  <1>14. Looks(tracker, NoteEverything(tracker), id)
    BY <1>3, EverythingIsNoted DEF Types
  <1>15. QED
    BY <1>1, <1>9, <1>10, <1>11, <1>12, <1>13, <1>14, ReportLives

LEMMA RestackLives ==
    ASSUME IInv, LInv, NEW id \in Ids, Restack(id)
    PROVE  LInv'
  <1>1. scene' = scene /\ undone' = undone /\ Report(NoteEverything(tracker))
    BY DEF Restack
  <1>2. Types
    BY DEF IInv
  <1>3. Looks(tracker, NoteEverything(tracker), id)
    BY <1>2, EverythingIsNoted DEF Types
  <1>4. /\ scene' \in Scene
        /\ Images = {} /\ scene'[id] # Absent => scene'[id].picture = NoPicture
    BY <1>1, <1>2 DEF Types, LInv, Plain
  <1>5. QED
    BY <1>1, <1>3, <1>4, ReportLives
-----------------------------------------------------------------------------
(* What the saver's diff finds, dead or alive. *)

LEMMA PatchFlips ==
    ASSUME IInv, LInv, NEW patch \in Patches
    PROVE  \A id \in Ids :
              /\ NotedId(id) =>
                    (IF patch.elements[id] = Absent THEN LiveOf(tracker.known, id)
                     ELSE IsLive(patch.elements[id])) <=> LiveOf(scene, id)
              /\ patch.elements[id] # Absent => NotedId(id)
              /\ Gone(patch.elements, id) =>
                    /\ LiveOf(tracker.known, id)
                    /\ patch.elements[id].version > tracker.known[id].version
              /\ LiveOf(patch.elements, id) /\ Gone(tracker.known, id) =>
                    patch.elements[id].version > tracker.known[id].version
              /\ HasPicture(patch.elements[id]) => HasPicture(scene[id])
              /\ Counts(tracker.known[id], scene[id]) =>
                    /\ Counts(patch.elements[id], scene[id])
                    /\ patch.elements[id] # Absent /\ tracker.known[id] # Absent =>
                          patch.elements[id].version > tracker.known[id].version
  <1>1. PICK nonces \in [Ids -> Nonces] : patch = Diff(tracker, scene, Shown, nonces)
    BY DEF Patches
  <1>2. Types /\ Drawable
    BY DEF IInv
  <1>3. nonces \in [Ids -> Nat] /\ \A id \in Ids : nonces[id] \in Nat
    BY AutosaveAssumption
  <1> DEFINE live == LiveIds(scene)
             shown == Only[live][stack]
  <1>4. stack \in Seq(Ids) /\ live \in SUBSET Ids
    BY <1>2 DEF Types, LiveIds
  <1> HIDE DEF live
  <1>5. shown \in Seq(Ids) /\ Range(shown) = Range(stack) \cap live
    BY <1>4, OnlyFacts
  <1> HIDE DEF shown
  <1>6. patch = Diff(tracker, scene, shown, nonces)
    BY <1>1 DEF Shown, shown, live
  <1>7. /\ tracker \in Trackers /\ scene \in Scene /\ Timeless(tracker.known)
        /\ Timeless(scene) /\ tracker.known \in Scene
    BY <1>2 DEF Types, Trackers
  <1>8. \A id \in Ids :
           /\ patch.elements[id] \in {Absent, Change([known |-> tracker.known], scene, id, nonces[id])}
           /\ \/ tracker.touched = Everything /\ (id \in Range(shown) \/ ~LiveOf(scene, id))
              \/ tracker.touched # Everything /\ id \in Range(tracker.touched)
              => patch.elements[id] = Change([known |-> tracker.known], scene, id, nonces[id])
           /\ tracker.touched # Everything /\ id \notin Range(tracker.touched) =>
                 patch.elements[id] = Absent
    BY <1>3, <1>5, <1>6, <1>7, DiffFacts
  <1> SUFFICES ASSUME NEW id \in Ids
               PROVE  /\ NotedId(id) =>
                            (IF patch.elements[id] = Absent THEN LiveOf(tracker.known, id)
                             ELSE IsLive(patch.elements[id])) <=> LiveOf(scene, id)
                      /\ patch.elements[id] # Absent => NotedId(id)
                      /\ Gone(patch.elements, id) =>
                            /\ LiveOf(tracker.known, id)
                            /\ patch.elements[id].version > tracker.known[id].version
                      /\ LiveOf(patch.elements, id) /\ Gone(tracker.known, id) =>
                            patch.elements[id].version > tracker.known[id].version
                      /\ HasPicture(patch.elements[id]) => HasPicture(scene[id])
                      /\ Counts(tracker.known[id], scene[id]) =>
                            /\ Counts(patch.elements[id], scene[id])
                            /\ patch.elements[id] # Absent /\ tracker.known[id] # Absent =>
                                  patch.elements[id].version > tracker.known[id].version
    OBVIOUS
  <1> DEFINE before == tracker.known
             nonce == nonces[id]
             change == Change([known |-> before], scene, id, nonce)
             this == patch.elements[id]
  <1>9. LiveOf(scene, id) => id \in Range(shown)
    BY <1>2, <1>5 DEF Drawable, LiveOf, IsLive, LiveIds, live
  <1>10. /\ this \in {Absent, change}
         /\ NotedId(id) => this = change
         /\ this # Absent => NotedId(id)
    BY <1>8, <1>9 DEF NotedId
  <1>11. before \in Scene /\ nonce \in Nat /\ scene \in Scene
    BY <1>3, <1>7
  <1>12. before = tracker.known /\ this = patch.elements[id]
    OBVIOUS
  <1> HIDE DEF before, nonce, this
  <1>13. /\ change = Absent => (LiveOf(before, id) <=> LiveOf(scene, id))
         /\ change # Absent =>
               /\ IsLive(change) <=> LiveOf(scene, id)
               /\ change.isDeleted => LiveOf(before, id) /\ change.version > before[id].version
               /\ ~change.isDeleted /\ Gone(before, id) => change.version > before[id].version
               /\ HasPicture(change) => HasPicture(scene[id])
         /\ Counts(before[id], scene[id]) =>
               /\ Counts(change, scene[id])
               /\ change # Absent /\ before[id] # Absent => change.version > before[id].version
    BY <1>11, ChangeFlips
  <1> HIDE DEF change
  <1>14. /\ NotedId(id) => (IF this = Absent THEN LiveOf(before, id) ELSE IsLive(this))
                              <=> LiveOf(scene, id)
         /\ this # Absent => NotedId(id)
    BY <1>10, <1>13
  <1>15. /\ this # Absent /\ this.isDeleted => LiveOf(before, id) /\ this.version > before[id].version
         /\ IsLive(this) /\ Gone(before, id) => this.version > before[id].version
         /\ HasPicture(this) => HasPicture(scene[id])
    BY <1>10, <1>13 DEF IsLive, HasPicture
  <1>16. Counts(before[id], scene[id]) =>
            /\ Counts(this, scene[id])
            /\ this # Absent /\ before[id] # Absent => this.version > before[id].version
    BY <1>10, <1>13 DEF Counts
  <1>17. QED
    BY <1>12, <1>14, <1>15, <1>16 DEF Gone, LiveOf

LEMMA RunLives ==
    ASSUME IInv, LInv, ~InFlight, Run,
           UNCHANGED <<scene, undone, board, held, disposed, failures, peerWrites>>
    PROVE  LInv'
  <1>1. PICK patch \in Patches :
            /\ tracker' = Diffed(tracker, patch)
            /\ IF IsEmpty(patch)
               THEN status' = "idle" /\ UNCHANGED <<sending, parts>>
               ELSE /\ status' = "saving" /\ sending' = patch
                    /\ parts' = Split([patch EXCEPT !.elements = Strip(held, @)])
    BY DEF Run
  <1>2. patch \in Diffs /\ Range(patch.list) = Named(patch)
    BY PatchBrings
  <1>3. \A id \in Ids :
           /\ NotedId(id) =>
                 (IF patch.elements[id] = Absent THEN LiveOf(tracker.known, id)
                  ELSE IsLive(patch.elements[id])) <=> LiveOf(scene, id)
           /\ patch.elements[id] # Absent => NotedId(id)
           /\ Gone(patch.elements, id) =>
                 /\ LiveOf(tracker.known, id)
                 /\ patch.elements[id].version > tracker.known[id].version
           /\ LiveOf(patch.elements, id) /\ Gone(tracker.known, id) =>
                 patch.elements[id].version > tracker.known[id].version
           /\ HasPicture(patch.elements[id]) => HasPicture(scene[id])
           /\ Counts(tracker.known[id], scene[id]) =>
                 /\ Counts(patch.elements[id], scene[id])
                 /\ patch.elements[id] # Absent /\ tracker.known[id] # Absent =>
                       patch.elements[id].version > tracker.known[id].version
    BY PatchFlips
  <1>4. Types /\ LInv
    BY DEF IInv
  <1>5. /\ tracker' \in Trackers /\ tracker'.known = tracker.known
        /\ tracker'.since = {} /\ tracker'.quiet
        /\ ~IsEmpty(patch) => tracker'.touched = tracker.touched
        /\ IsEmpty(patch) => tracker'.touched # Everything /\ Range(tracker'.touched) = {}
    BY <1>1, <1>4, DiffedFacts DEF Types
  <1>6. Numbers'
    BY DEF LInv, Numbers
  <1>7. OwnTombs' /\ Remembered'
    <2>1. \A id \in Ids : ErasedByPeer(id)' = ErasedByPeer(id)
      BY DEF ErasedByPeer
    <2>2. OwnTombs'
      BY <1>5, <2>1 DEF LInv, OwnTombs, Gone
    <2>3. Remembered'
      BY <1>5 DEF LInv, Remembered, Undisturbed, LiveOf
    <2>4. QED
      BY <2>2, <2>3
  <1>8. /\ \A id \in Ids : SameLife(id)' = SameLife(id)
        /\ \A id \in Ids : FromPeer(id)' = FromPeer(id)
    BY <1>5 DEF SameLife, LiveOf, FromPeer
  <1>9. \A id \in Ids : NotedId(id) \/ SameLife(id)
    BY DEF LInv, LifeNoted
  <1>10. CASE IsEmpty(patch)
    <2>1. \A id \in Ids : patch.elements[id] = Absent
      <3>1. patch.list = <<>>
        BY <1>10 DEF IsEmpty
      <3>2. QED
        BY <1>2, <3>1, EmptyRange DEF Named
    <2>2. \A id \in Ids : SameLife(id)
      BY <1>3, <1>9, <2>1 DEF SameLife
    <2>3. ~InFlight' /\ parts' = parts
      BY <1>1, <1>10 DEF InFlight
    <2>4. LifeNoted' /\ LifeIdle' /\ LifeLookedAt' /\ Flips' /\ LikeSent' /\ Plain'
      <3>1. LifeNoted' /\ LifeIdle'
        BY <1>8, <2>2 DEF LifeNoted, LifeIdle
      <3>2. LifeLookedAt' /\ Flips' /\ LikeSent'
        BY <2>3 DEF LifeLookedAt, Flips, LikeSent
      <3>3. Plain'
        BY <2>3 DEF LInv, Plain
      <3>4. QED
        BY <3>1, <3>2, <3>3
    <2>5. CountedUp'
      BY <1>5, <1>8, <2>3 DEF LInv, CountedUp
    <2>6. QED
      BY <1>6, <1>7, <2>4, <2>5 DEF LInv
  <1>11. CASE ~IsEmpty(patch)
    <2> DEFINE stripped == Strip(held, patch.elements)
               sent == [patch EXCEPT !.elements = stripped]
    <2>1. status' = "saving" /\ sending' = patch /\ parts' = Split(sent)
      BY <1>1, <1>2, <1>11 DEF Diffs
    <2>2. /\ stripped \in Scene
          /\ \A id \in Ids : /\ Alike(patch.elements[id], stripped[id])
                             /\ HasPicture(stripped[id]) => HasPicture(patch.elements[id])
      BY <1>2, StripFacts DEF Diffs
    <2> HIDE DEF stripped
    <2>3. sent \in Diffs /\ sent.elements = stripped
      BY <1>2, <2>2 DEF Diffs
    <2> HIDE DEF sent
    <2>4. /\ \A i \in DOMAIN parts' : parts'[i].elements = stripped
          /\ WithPicture(stripped) = {} => Len(parts') = 1
      BY <2>1, <2>3, SplitFacts
    <2>5. LikeSent'
      <3>1. \A id \in Ids : Alike(stripped[id], patch.elements[id])
        BY <2>2 DEF Alike
      <3>2. QED
        BY <2>1, <2>4, <3>1 DEF LikeSent
    <2>6. Plain'
      <3> SUFFICES ASSUME Images = {} PROVE Len(parts') = 1
        BY DEF Plain, LInv
      <3>1. \A id \in Ids : scene[id] # Absent => scene[id].picture = NoPicture
        BY DEF LInv, Plain
      <3>2. \A id \in Ids : ~HasPicture(stripped[id])
        BY <1>3, <2>2, <3>1 DEF HasPicture, IsLive
      <3>3. QED
        BY <2>4, <3>2 DEF WithPicture
    <2>7. LifeNoted' /\ LifeIdle'
      BY <1>5, <1>8, <1>9, <1>11, <2>1 DEF LifeNoted, LifeIdle, NotedId, Saved
    <2>8. LifeLookedAt'
      <3>1. \A id \in Ids : NotedId(id) => LifeBrought(id)'
        BY <1>3, <1>5, <2>1 DEF LifeBrought, After, LiveOf
      <3>2. QED
        BY <1>3, <1>5, <1>11, <2>1, <3>1 DEF LifeLookedAt, NotedId
    <2>9. Flips'
      BY <1>3, <1>5, <2>1 DEF Flips, Gone, LiveOf
    <2>10. CountedUp'
      BY <1>3, <1>5, <1>8, <2>1 DEF LInv, CountedUp
    <2>11. QED
      BY <1>6, <1>7, <2>5, <2>6, <2>7, <2>8, <2>9, <2>10 DEF LInv
  <1>12. QED
    BY <1>10, <1>11

LEMMA SaverLives ==
    ASSUME IInv, LInv, TimerFires \/ Flush \/ ResumeFlush \/ Dispose
    PROVE  LInv'
  <1>1. UNCHANGED <<scene, undone, board, held, failures, peerWrites>>
    BY DEF TimerFires, Flush, ResumeFlush, Dispose
  <1>2. CASE ~InFlight /\ Run /\ UNCHANGED disposed
    BY <1>1, <1>2, RunLives
  <1>3. CASE UNCHANGED <<tracker, sending, parts, status>> /\ (disposed => disposed')
    BY <1>1, <1>3, QuietLives DEF Saved
  <1>4. QED
    BY <1>2, <1>3 DEF TimerFires, Flush, ResumeFlush, FlushResumes, Dispose
-----------------------------------------------------------------------------
(* What the server and the network do, dead or alive. *)

(* A request leaves on the board what was there, or what the page sent.     *)
LEMMA HeadServedAlike ==
    ASSUME IInv, LInv, InFlight
    PROVE  \A id \in Ids :
              LET after == Served(board, Head(parts)).elements[id]
              IN  \/ Alike(after, board.elements[id])
                  \/ sending.elements[id] # Absent /\ Alike(after, sending.elements[id])
  <1> DEFINE first == Head(parts)
             o == Request(first)
             b == board
             after == Written(b, o).elements
  <1>1. /\ parts \in Seq(Diffs) /\ parts # <<>> /\ board.elements \in Scene
        /\ sending.elements \in Scene
    BY DEF IInv, Types, OnItsWay, InFlight, Diffs
  <1>2. first \in Diffs /\ first = parts[1] /\ 1 \in DOMAIN parts
    BY <1>1, HeadTailProperties, LenProperties, EmptySeq
  <1>3. \A id \in Ids : Alike(first.elements[id], sending.elements[id])
    BY <1>2 DEF LInv, LikeSent
  <1> HIDE DEF first
  <1>4. /\ o.kind = "patch" /\ o.patch.elements \in Scene
        /\ \A id \in Ids : o.patch.elements[id] = IF id \in Range(first.list)
                                                  THEN first.elements[id] ELSE Absent
    BY <1>2, RequestFacts
  <1>5. Served(b, first).elements = Written(b, o).elements
    BY <1>4 DEF Served, Written, NextDocument
  <1>6. b.elements \in Scene /\ b = board
    BY <1>1
  <1> HIDE DEF o, b
  <1>7. /\ after \in Scene
        /\ \A id \in Ids :
              \/ Alike(after[id], b.elements[id])
              \/ o.patch.elements[id] # Absent /\ Alike(after[id], o.patch.elements[id])
    BY <1>4, <1>6, WriteFacts
  <1> HIDE DEF after
  <1>8. ASSUME NEW id \in Ids
        PROVE  \/ Alike(after[id], board.elements[id])
               \/ sending.elements[id] # Absent /\ Alike(after[id], sending.elements[id])
    <2>1. o.patch.elements[id] # Absent => o.patch.elements[id] = first.elements[id]
      BY <1>4
    <2>2. CASE o.patch.elements[id] # Absent /\ Alike(after[id], o.patch.elements[id])
      BY <1>3, <2>1, <2>2 DEF Alike
    <2>3. QED
      BY <1>6, <1>7, <2>2
  <1>9. QED
    BY <1>5, <1>6, <1>8 DEF first, after

(* ... so no copy on the board counts more than the scene's.                *)
LEMMA BoardCounts ==
    ASSUME IInv, LInv, UNCHANGED <<scene, undone, peerWrites>>,
           \A id \in Ids :
              \/ Alike(board'.elements[id], board.elements[id])
              \/ /\ InFlight /\ sending.elements[id] # Absent
                 /\ Alike(board'.elements[id], sending.elements[id])
    PROVE  "restored" \notin undone' =>
              \A id \in Ids : Counts(board'.elements[id], scene'[id]) \/ FromPeer(id)'
  <1> SUFFICES ASSUME "restored" \notin undone', NEW id \in Ids
               PROVE  Counts(board'.elements[id], scene'[id]) \/ FromPeer(id)'
    OBVIOUS
  <1>1. /\ Counts(board.elements[id], scene[id]) \/ FromPeer(id)
        /\ InFlight => Counts(sending.elements[id], scene[id])
    BY DEF LInv, CountedUp
  <1>2. CASE InFlight /\ Alike(board'.elements[id], sending.elements[id])
    BY <1>1, <1>2, AlikeCounts
  <1>3. CASE Alike(board'.elements[id], board.elements[id])
    <2>1. CASE Counts(board.elements[id], scene[id])
      BY <1>3, <2>1, AlikeCounts
    <2>2. CASE FromPeer(id) /\ board'.elements[id] = Absent
      BY <2>2 DEF Counts
    <2>3. CASE FromPeer(id) /\ board'.elements[id] # Absent
      <3>1. board'.elements[id].isDeleted = board.elements[id].isDeleted
        BY <1>3, <2>3 DEF Alike
      <3>2. PICK o \in PeerOperations :
               /\ o.patch.elements[id] # Absent
               /\ o.patch.elements[id].isDeleted = board.elements[id].isDeleted
        BY <2>3 DEF FromPeer
      <3>3. peerWrites' > 0
        BY <2>3 DEF FromPeer
      <3>4. o.patch.elements[id].isDeleted = board'.elements[id].isDeleted
        BY <3>1, <3>2
      <3>5. QED
        BY <3>2, <3>3, <3>4 DEF FromPeer
    <2>4. QED
      BY <1>1, <2>1, <2>2, <2>3
  <1>4. QED
    BY <1>2, <1>3

LEMMA NextPartLives ==
    ASSUME IInv, IInv', LInv, Accepted, Len(parts) > 1
    PROVE  LInv'
  <1>1. /\ InFlight /\ board' = Served(board, Head(parts)) /\ parts' = Tail(parts)
        /\ UNCHANGED <<tracker, sending, status, scene, undone, disposed, failures, peerWrites>>
    BY DEF Accepted
  <1>2. /\ \A id \in Ids :
              \/ Alike(board'.elements[id], board.elements[id])
              \/ sending.elements[id] # Absent /\ Alike(board'.elements[id], sending.elements[id])
    BY <1>1, HeadServedAlike
  <1>3. InFlight' /\ Images # {}
    <2>1. sending # Absent /\ sending' = sending
      BY <1>1 DEF InFlight
    <2>2. Images = {} => Len(parts) = 1
      BY <1>1 DEF LInv, Plain
    <2> DEFINE n == Len(parts)
    <2>3. n \in Nat /\ n > 1
      BY LenProperties DEF IInv, Types
    <2> HIDE DEF n
    <2>4. n # 1
      BY <2>3
    <2>5. QED
      BY <2>1, <2>2, <2>4 DEF InFlight, n
  <1>4. \A id \in Ids : /\ board.elements[id] \in Entry /\ board'.elements[id] \in Entry
                        /\ sending.elements[id] \in Entry /\ tracker.known[id] \in Entry
    BY <1>1 DEF IInv, Types, Trackers, Diffs, Scene, InFlight
  <1>5. Numbers' /\ Plain'
    BY <1>1, <1>3 DEF LInv, Numbers, Plain
  <1>6. LikeSent'
    <2> DEFINE rest == Tail(parts)
    <2>1. parts \in Seq(Diffs) /\ parts # <<>>
      BY <1>1 DEF IInv, Types, OnItsWay
    <2>2. /\ rest \in Seq(Diffs) /\ Len(rest) = Len(parts) - 1 /\ Len(parts) \in Nat
          /\ \A i \in 1..Len(rest) : rest[i] = parts[i + 1]
          /\ DOMAIN parts = 1..Len(parts)
      BY <2>1, HeadTailProperties, LenProperties
    <2>3. DOMAIN rest = 1..Len(rest)
      BY <2>2, LenProperties
    <2>4. \A i \in DOMAIN rest : i + 1 \in DOMAIN parts
      BY <2>2, <2>3
    <2> HIDE DEF rest
    <2>5. \A i \in DOMAIN rest, id \in Ids : Alike(rest[i].elements[id], sending.elements[id])
      BY <1>1, <2>2, <2>3, <2>4 DEF LInv, LikeSent
    <2>6. QED
      BY <1>1, <2>5 DEF LikeSent, rest
  <1>7. LifeNoted' /\ LifeLookedAt' /\ LifeIdle' /\ Flips'
    <2>1. \A id \in Ids : SameLife(id)' = SameLife(id) /\ LifeBrought(id)' = LifeBrought(id)
      BY <1>1 DEF SameLife, LifeBrought, After, LiveOf
    <2>2. LifeNoted' /\ LifeLookedAt'
      BY <1>1, <1>3, <2>1 DEF LInv, LifeNoted, LifeLookedAt, NotedId
    <2>3. LifeIdle'
      BY <1>1, <2>1 DEF LInv, LifeIdle, Saved
    <2>4. Flips'
      BY <1>1, <1>3 DEF LInv, Flips, Gone, LiveOf
    <2>5. QED
      BY <2>2, <2>3, <2>4
  <1>8. CountedUp'
    <2>1. "restored" \notin undone' =>
             \A id \in Ids : Counts(board'.elements[id], scene'[id]) \/ FromPeer(id)'
      BY <1>1, <1>2, BoardCounts
    <2>2. QED
      BY <1>1, <1>3, <2>1 DEF LInv, CountedUp
  <1>9. OwnTombs'
    <2> SUFFICES ASSUME failures = 0, NEW id \in Ids, Gone(board'.elements, id),
                        ~ErasedByPeer(id)
                 PROVE  \/ /\ Gone(tracker.known, id)
                           /\ Older(board'.elements[id], tracker.known[id])
                        \/ /\ Gone(sending.elements, id)
                           /\ Older(board'.elements[id], sending.elements[id])
      BY <1>1, <1>3 DEF OwnTombs, ErasedByPeer
    <2>1. CASE Alike(board'.elements[id], sending.elements[id])
      <3>1. Gone(sending.elements, id)
        BY <2>1 DEF Gone, Alike
      <3>2. Older(board'.elements[id], sending.elements[id])
        BY <1>4, <2>1, AlikeInOrder
      <3>3. QED
        BY <3>1, <3>2
    <2>2. CASE Alike(board'.elements[id], board.elements[id])
      <3>1. Gone(board.elements, id)
        BY <2>2 DEF Gone, Alike
      <3>2. \/ Gone(tracker.known, id) /\ Older(board.elements[id], tracker.known[id])
            \/ Gone(sending.elements, id) /\ Older(board.elements[id], sending.elements[id])
        BY <3>1 DEF LInv, OwnTombs
      <3>3. QED
        BY <1>4, <2>2, <3>2, AlikeInOrder
    <2>3. QED
      BY <1>2, <2>1, <2>2
  <1>10. Remembered'
    <2> SUFFICES ASSUME Undisturbed, NEW id \in Ids, LiveOf(board'.elements, id)
                 PROVE  \/ /\ LiveOf(tracker.known, id)
                           /\ Older(board'.elements[id], tracker.known[id])
                        \/ /\ LiveOf(sending.elements, id)
                           /\ Older(board'.elements[id], sending.elements[id])
      BY <1>1, <1>3 DEF Remembered, Undisturbed
    <2>1. CASE Alike(board'.elements[id], sending.elements[id])
      BY <1>4, <2>1, AlikeInOrder DEF LiveOf
    <2>2. CASE Alike(board'.elements[id], board.elements[id])
      <3>1. LiveOf(board.elements, id)
        BY <1>4, <2>2, AlikeInOrder DEF LiveOf
      <3>2. \/ LiveOf(tracker.known, id) /\ Older(board.elements[id], tracker.known[id])
            \/ LiveOf(sending.elements, id) /\ Older(board.elements[id], sending.elements[id])
        BY <3>1 DEF LInv, Remembered
      <3>3. QED
        BY <1>4, <2>2, <3>2, AlikeInOrder
    <2>3. QED
      BY <1>2, <2>1, <2>2
  <1>11. QED
    BY <1>5, <1>6, <1>7, <1>8, <1>9, <1>10 DEF LInv

(* The last answer: the tracker knows what the page sent, and so does the   *)
(* board, unless something there outranks it.                               *)
LEMMA LandedLives ==
    ASSUME IInv, IInv', LInv, Accepted, ~(Len(parts) > 1)
    PROVE  LInv'
  <1>1. /\ InFlight /\ board' = Served(board, Head(parts))
        /\ sending' = Absent /\ parts' = <<>> /\ tracker' = Acknowledged(tracker, sending)
        /\ dirty => FollowUp
        /\ ~dirty => status' = "idle"
        /\ UNCHANGED <<scene, undone, disposed, failures, peerWrites>>
    BY DEF Accepted, Landed
  <1>2. \A id \in Ids :
           \/ Alike(board'.elements[id], board.elements[id])
           \/ sending.elements[id] # Absent /\ Alike(board'.elements[id], sending.elements[id])
    BY <1>1, HeadServedAlike
  <1>3. /\ tracker \in Trackers /\ sending \in Diffs /\ Marked
        /\ board.elements \in Scene /\ board'.elements \in Scene
    BY <1>1 DEF IInv, Types, InFlight
  <1>4. \A id \in Ids : Older(sending.elements[id], board'.elements[id])
    <2>1. /\ Len(Tail(parts)) = Len(parts) - 1 /\ Len(parts) \in Nat
      BY <1>1, HeadServed
    <2>2. \A i \in 1..Len(Tail(parts)) : FALSE
      BY <2>1
    <2>3. QED
      BY <1>1, <2>2, HeadServed
  <1>5. /\ \A id \in Ids : tracker'.known[id] = After(id)
        /\ tracker.touched # Everything =>
              /\ tracker'.touched # Everything
              /\ Range(tracker'.touched) = Range(tracker.touched) \cap tracker.since
        /\ tracker.touched = Everything =>
              tracker'.touched = IF tracker.full /\ tracker.quiet THEN <<>> ELSE Everything
    <2> DEFINE t == tracker
               patch == sending
               known == [id \in Ids |-> IF patch.elements[id] = Absent THEN t.known[id]
                                        ELSE patch.elements[id]]
               after == Acknowledged(t, patch)
    <2>1. t \in Trackers /\ patch \in Diffs /\ tracker' = after
      BY <1>1, <1>3
    <2>2. \A id \in Ids : known[id] = After(id)
      BY DEF After
    <2> HIDE DEF t, patch
    <2>3. /\ after.known = known
          /\ t.touched # Everything =>
                /\ after.touched # Everything
                /\ Range(after.touched) = Range(t.touched) \cap t.since
          /\ t.touched = Everything =>
                after.touched = IF t.full /\ t.quiet THEN <<>> ELSE Everything
      BY <2>1, AcknowledgedFacts
    <2> HIDE DEF after, known
    <2>4. QED
      BY <2>1, <2>2, <2>3 DEF t
  <1>6. ~InFlight'
    BY <1>1 DEF InFlight
  <1>7. \A id \in Ids : /\ board.elements[id] \in Entry /\ board'.elements[id] \in Entry
                        /\ sending.elements[id] \in Entry /\ tracker.known[id] \in Entry
                        /\ tracker'.known[id] \in Entry
    BY <1>3, <1>5 DEF After, Trackers, Diffs, Scene
  <1>8. Numbers' /\ Plain' /\ LikeSent' /\ LifeLookedAt' /\ Flips'
    BY <1>1, <1>6 DEF LInv, Numbers, Plain, LikeSent, LifeLookedAt, Flips
  <1>9. ASSUME NEW id \in Ids, LifeBrought(id)
        PROVE  SameLife(id)'
    BY <1>1, <1>5, <1>9 DEF LifeBrought, SameLife, LiveOf
  <1>10. LifeNoted'
    <2> SUFFICES ASSUME NEW id \in Ids, ~NotedId(id)' PROVE LifeBrought(id)
      BY <1>9 DEF LifeNoted
    <2>1. tracker'.touched # Everything /\ id \notin Range(tracker'.touched)
      BY DEF NotedId
    <2>2. CASE tracker.touched # Everything /\ id \in Range(tracker.touched)
      BY <1>1, <1>5, <2>1, <2>2 DEF LInv, LifeLookedAt
    <2>3. CASE tracker.touched # Everything /\ id \notin Range(tracker.touched)
      <3>1. SameLife(id) /\ sending.elements[id] = Absent
        BY <1>1, <2>3 DEF LInv, LifeLookedAt, LifeNoted, NotedId
      <3>2. QED
        BY <3>1 DEF SameLife, LifeBrought, After, LiveOf
    <2>4. CASE tracker.touched = Everything
      BY <1>1, <1>5, <2>1, <2>4 DEF LInv, LifeLookedAt
    <2>5. QED
      BY <2>2, <2>3, <2>4
  <1>11. LifeIdle'
    <2> SUFFICES ASSUME Saved', NEW id \in Ids PROVE SameLife(id)'
      BY DEF LifeIdle
    <2>1. ~disposed /\ ~dirty
      BY <1>1 DEF Saved, FollowUp
    <2>2. tracker.quiet /\ tracker.since = {} /\ (tracker.touched = Everything => tracker.full)
      BY <1>1, <1>3, <2>1 DEF Marked
    <2>3. tracker'.touched # Everything /\ id \notin Range(tracker'.touched)
      BY <1>5, <2>2, EmptyRange, SceneDiffAssumption
    <2>4. QED
      BY <1>10, <2>3 DEF LifeNoted, NotedId
  <1>12. CountedUp'
    <2>1. "restored" \notin undone' =>
             \A id \in Ids : Counts(board'.elements[id], scene'[id]) \/ FromPeer(id)'
      BY <1>1, <1>2, BoardCounts
    <2>2. "restored" \notin undone' => \A id \in Ids : Counts(tracker'.known[id], scene'[id])
      BY <1>1, <1>5 DEF LInv, CountedUp, After
    <2>3. QED
      BY <1>6, <2>1, <2>2 DEF CountedUp
  (* What the page sent is not outranked by what it knew, so what is left   *)
  (* on the board of what it knew has not been sent again.                  *)
  <1>13. ASSUME NEW id \in Ids, sending.elements[id] # Absent,
                Older(board'.elements[id], tracker.known[id]), tracker.known[id] # Absent
         PROVE  ~(sending.elements[id].version > tracker.known[id].version)
    <2>1. Older(sending.elements[id], tracker.known[id])
      BY <1>4, <1>7, <1>13, OlderIsTransitive
    <2>2. ~IsNewer(sending.elements[id], tracker.known[id])
      BY <1>13, <2>1 DEF Older
    <2>3. QED
      BY <2>2 DEF IsNewer
  <1>14. OwnTombs'
    <2> SUFFICES ASSUME failures = 0, NEW id \in Ids, Gone(board'.elements, id),
                        ~ErasedByPeer(id)
                 PROVE  Gone(tracker'.known, id) /\ Older(board'.elements[id], tracker'.known[id])
      BY <1>1 DEF OwnTombs, ErasedByPeer
    <2>1. CASE sending.elements[id] # Absent /\ Alike(board'.elements[id], sending.elements[id])
      <3>1. tracker'.known[id] = sending.elements[id]
        BY <1>5, <2>1 DEF After
      <3>2. Older(board'.elements[id], sending.elements[id])
        BY <1>7, <2>1, AlikeInOrder
      <3>3. Gone(sending.elements, id)
        BY <2>1 DEF Gone, Alike
      <3>4. QED
        BY <3>1, <3>2, <3>3 DEF Gone
    <2>2. CASE Alike(board'.elements[id], board.elements[id])
      <3>1. Gone(board.elements, id)
        BY <2>2 DEF Gone, Alike
      <3>2. \/ Gone(tracker.known, id) /\ Older(board.elements[id], tracker.known[id])
            \/ Gone(sending.elements, id) /\ Older(board.elements[id], sending.elements[id])
        BY <3>1 DEF LInv, OwnTombs
      <3>3. \/ Gone(tracker.known, id) /\ Older(board'.elements[id], tracker.known[id])
            \/ Gone(sending.elements, id) /\ Older(board'.elements[id], sending.elements[id])
        BY <1>7, <2>2, <3>2, AlikeInOrder
      <3>4. CASE Gone(sending.elements, id) /\ Older(board'.elements[id], sending.elements[id])
        <4>1. tracker'.known[id] = sending.elements[id]
          BY <1>5, <3>4 DEF After, Gone
        <4>2. QED
          BY <3>4, <4>1 DEF Gone
      <3>5. CASE Gone(tracker.known, id) /\ Older(board'.elements[id], tracker.known[id])
        <4>1. CASE sending.elements[id] = Absent
          <5>1. tracker'.known[id] = tracker.known[id]
            BY <1>5, <4>1 DEF After
          <5>2. QED
            BY <3>5, <5>1 DEF Gone
        <4>2. CASE sending.elements[id] # Absent
          <5>1. ~(sending.elements[id].version > tracker.known[id].version)
            BY <1>13, <3>5, <4>2 DEF Gone
          <5>2. Gone(sending.elements, id) \/ LiveOf(sending.elements, id)
            BY <4>2 DEF Gone, LiveOf, IsLive
          <5>3. QED
            BY <1>1, <3>5, <5>1, <5>2 DEF LInv, Flips, Gone, LiveOf, IsLive
        <4>3. QED
          BY <4>1, <4>2
      <3>6. QED
        BY <3>3, <3>4, <3>5
    <2>3. QED
      BY <1>2, <2>1, <2>2
  <1>15. Remembered'
    <2> SUFFICES ASSUME Undisturbed, NEW id \in Ids, LiveOf(board'.elements, id)
                 PROVE  LiveOf(tracker'.known, id) /\ Older(board'.elements[id], tracker'.known[id])
      BY <1>1 DEF Remembered, Undisturbed
    <2>1. CASE sending.elements[id] # Absent /\ Alike(board'.elements[id], sending.elements[id])
      <3>1. tracker'.known[id] = sending.elements[id]
        BY <1>5, <2>1 DEF After
      <3>2. Older(board'.elements[id], sending.elements[id]) /\ LiveOf(sending.elements, id)
        BY <1>7, <2>1, AlikeInOrder DEF LiveOf
      <3>3. QED
        BY <3>1, <3>2 DEF LiveOf
    <2>2. CASE Alike(board'.elements[id], board.elements[id])
      <3>1. LiveOf(board.elements, id)
        BY <1>7, <2>2, AlikeInOrder DEF LiveOf
      <3>2. \/ LiveOf(tracker.known, id) /\ Older(board.elements[id], tracker.known[id])
            \/ LiveOf(sending.elements, id) /\ Older(board.elements[id], sending.elements[id])
        BY <3>1 DEF LInv, Remembered
      <3>3. \/ LiveOf(tracker.known, id) /\ Older(board'.elements[id], tracker.known[id])
            \/ LiveOf(sending.elements, id) /\ Older(board'.elements[id], sending.elements[id])
        BY <1>7, <2>2, <3>2, AlikeInOrder
      <3>4. CASE LiveOf(sending.elements, id) /\ Older(board'.elements[id], sending.elements[id])
        <4>1. tracker'.known[id] = sending.elements[id]
          BY <1>5, <3>4 DEF After, LiveOf, IsLive
        <4>2. QED
          BY <3>4, <4>1 DEF LiveOf
      <3>5. CASE LiveOf(tracker.known, id) /\ Older(board'.elements[id], tracker.known[id])
        <4>1. CASE sending.elements[id] = Absent
          <5>1. tracker'.known[id] = tracker.known[id]
            BY <1>5, <4>1 DEF After
          <5>2. QED
            BY <3>5, <5>1 DEF LiveOf
        <4>2. CASE sending.elements[id] # Absent
          <5>1. tracker.known[id] # Absent
            BY <3>5 DEF LiveOf, IsLive
          <5>2. sending.elements[id].version > tracker.known[id].version
            BY <1>1, <4>2, <5>1 DEF LInv, CountedUp, Undisturbed
          <5>3. QED
            BY <1>13, <3>5, <4>2, <5>1, <5>2
        <4>3. QED
          BY <4>1, <4>2
      <3>6. QED
        BY <3>3, <3>4, <3>5
    <2>3. QED
      BY <1>2, <2>1, <2>2
  <1>16. QED
    BY <1>8, <1>10, <1>11, <1>12, <1>14, <1>15 DEF LInv

(* A request that failed, merged or not, or was refused.                    *)
LEMMA FailedLives ==
    ASSUME IInv, LInv, Failed \/ Refused
    PROVE  LInv'
  <1>1. /\ InFlight
        /\ board' = board \/ (AnswersGetLost /\ board' = Served(board, Head(parts)))
        /\ sending' = Absent /\ parts' = <<>> /\ failures' = failures + 1
        /\ UNCHANGED <<scene, undone, tracker, disposed, peerWrites>>
    BY DEF Failed, FailedThen, Refused, Landed
  <1>2. ~Saved'
    BY <1>1 DEF Failed, FailedThen, Refused, FollowUp, Saved
  <1>3. ~InFlight'
    BY <1>1 DEF InFlight
  <1>4. failures \in Nat /\ failures' \in Nat /\ failures' # 0
    BY <1>1 DEF LInv, Numbers
  <1>5. \A id \in Ids :
           \/ Alike(board'.elements[id], board.elements[id])
           \/ sending.elements[id] # Absent /\ Alike(board'.elements[id], sending.elements[id])
    <2>1. \A id \in Ids : Alike(board.elements[id], board.elements[id])
      BY DEF Alike
    <2>2. QED
      BY <1>1, <2>1, HeadServedAlike
  <1>6. Numbers' /\ Plain' /\ LikeSent' /\ LifeLookedAt' /\ LifeIdle' /\ Flips' /\ OwnTombs'
    BY <1>1, <1>2, <1>3, <1>4
       DEF LInv, Numbers, Plain, LikeSent, LifeLookedAt, LifeIdle, Flips, OwnTombs
  <1>7. LifeNoted'
    BY <1>1 DEF LInv, LifeNoted, NotedId, SameLife, LiveOf
  <1>8. CountedUp'
    <2>1. "restored" \notin undone' =>
             \A id \in Ids : Counts(board'.elements[id], scene'[id]) \/ FromPeer(id)'
      BY <1>1, <1>5, BoardCounts
    <2>2. QED
      BY <1>1, <1>3, <2>1 DEF LInv, CountedUp
  <1>9. Remembered'
    <2> SUFFICES ASSUME Undisturbed', NEW id \in Ids, LiveOf(board'.elements, id)
                 PROVE  LiveOf(tracker.known, id) /\ Older(board'.elements[id], tracker.known[id])
      BY <1>1 DEF Remembered
    <2>1. ~AnswersGetLost /\ Images = {} /\ Undisturbed
      BY <1>1, <1>4 DEF Undisturbed
    <2>2. board' = board
      BY <1>1, <2>1
    <2>3. QED
      BY <2>1, <2>2 DEF LInv, Remembered
  <1>10. QED
    BY <1>6, <1>7, <1>8, <1>9 DEF LInv

LEMMA PeerLives ==
    ASSUME IInv, IInv', LInv, PeerWrite
    PROVE  LInv'
  <1>1. PICK o \in PeerOperations : board' = [Written(board, o) EXCEPT !.rev = board.rev]
    BY DEF PeerWrite
  <1>2. /\ UNCHANGED <<scene, undone, tracker, sending, parts, status, disposed, failures>>
        /\ peerWrites' = peerWrites + 1
    BY DEF PeerWrite, saver
  <1>3. o.kind = "patch" /\ o.patch.elements \in Scene
    BY AutosaveAssumption DEF Operation, Patch, Scene
  <1>4. board'.elements = Written(board, o).elements
    BY <1>1, <1>3 DEF Written, NextDocument
  <1>5. \A id \in Ids :
           \/ Alike(board'.elements[id], board.elements[id])
           \/ o.patch.elements[id] # Absent /\ Alike(board'.elements[id], o.patch.elements[id])
    <2> DEFINE b == board
    <2>1. b.elements \in Scene
      BY DEF IInv, Types
    <2> HIDE DEF b
    <2>2. \A id \in Ids :
             LET after == Written(b, o).elements
             IN  \/ Alike(after[id], b.elements[id])
                 \/ o.patch.elements[id] # Absent /\ Alike(after[id], o.patch.elements[id])
      BY <1>3, <2>1, WriteFacts
    <2>3. QED
      BY <1>4, <2>2 DEF b
  <1>6. /\ peerWrites' \in Nat /\ peerWrites' > 0 /\ InFlight' = InFlight
        /\ Saved' = Saved
    BY <1>2 DEF LInv, Numbers, InFlight, Saved
  <1>7. \A id \in Ids :
           /\ board.elements[id] \in Entry /\ board'.elements[id] \in Entry
           /\ tracker.known[id] \in Entry
           /\ InFlight => sending.elements[id] \in Entry
    BY DEF IInv, Types, Trackers, Diffs, Scene, InFlight
  <1>8. Numbers' /\ Plain' /\ LikeSent' /\ Remembered'
    <2>1. ~Undisturbed'
      BY <1>6 DEF Undisturbed
    <2>2. Numbers' /\ Plain' /\ LikeSent'
      BY <1>2, <1>6 DEF LInv, Numbers, Plain, LikeSent
    <2>3. QED
      BY <2>1, <2>2 DEF Remembered
  <1>9. LifeNoted' /\ LifeLookedAt' /\ LifeIdle' /\ Flips'
    <2>1. \A id \in Ids : SameLife(id)' = SameLife(id) /\ LifeBrought(id)' = LifeBrought(id)
      BY <1>2 DEF SameLife, LifeBrought, After, LiveOf
    <2>2. QED
      BY <1>2, <1>6, <2>1
         DEF LInv, LifeNoted, LifeLookedAt, LifeIdle, Flips, NotedId, Gone, LiveOf
  <1>10. ASSUME NEW id \in Ids, board'.elements[id] # Absent,
                Alike(board'.elements[id], o.patch.elements[id])
         PROVE  FromPeer(id)' /\ (Gone(board'.elements, id) => ErasedByPeer(id)')
    <2>1. o.patch.elements[id] # Absent
          /\ o.patch.elements[id].isDeleted = board'.elements[id].isDeleted
      BY <1>10 DEF Alike
    <2>2. FromPeer(id)'
      BY <1>6, <2>1 DEF FromPeer
    <2>3. Gone(board'.elements, id) => o.patch.elements[id].isDeleted
      BY <2>1 DEF Gone
    <2>4. Gone(board'.elements, id) => ErasedByPeer(id)'
      BY <1>6, <2>1, <2>3 DEF ErasedByPeer
    <2>5. QED
      BY <2>2, <2>4
  <1>11. CountedUp'
    <2> SUFFICES ASSUME "restored" \notin undone, NEW id \in Ids
                 PROVE  Counts(board'.elements[id], scene[id]) \/ FromPeer(id)'
      BY <1>2, <1>6 DEF LInv, CountedUp
    <2>1. CASE board'.elements[id] = Absent
      BY <2>1 DEF Counts
    <2>2. CASE board'.elements[id] # Absent /\ Alike(board'.elements[id], o.patch.elements[id])
      BY <1>10, <2>2
    <2>3. CASE board'.elements[id] # Absent /\ Alike(board'.elements[id], board.elements[id])
      <3>1. Counts(board.elements[id], scene[id]) \/ FromPeer(id)
        BY DEF LInv, CountedUp
      <3>2. CASE Counts(board.elements[id], scene[id])
        BY <2>3, <3>2, AlikeCounts
      <3>3. CASE FromPeer(id)
        <4>1. PICK p \in PeerOperations :
                 /\ p.patch.elements[id] # Absent
                 /\ p.patch.elements[id].isDeleted = board.elements[id].isDeleted
          BY <3>3 DEF FromPeer
        <4>2. board'.elements[id].isDeleted = board.elements[id].isDeleted
          BY <2>3 DEF Alike
        <4>3. p.patch.elements[id].isDeleted = board'.elements[id].isDeleted
          BY <4>1, <4>2
        <4>4. QED
          BY <1>6, <4>1, <4>3 DEF FromPeer
      <3>4. QED
        BY <3>1, <3>2, <3>3
    <2>4. QED
      BY <1>5, <2>1, <2>2, <2>3
  <1>12. OwnTombs'
    <2> SUFFICES ASSUME failures = 0, NEW id \in Ids, Gone(board'.elements, id),
                        ~ErasedByPeer(id)'
                 PROVE  \/ /\ Gone(tracker.known, id)
                           /\ Older(board'.elements[id], tracker.known[id])
                        \/ /\ InFlight /\ Gone(sending.elements, id)
                           /\ Older(board'.elements[id], sending.elements[id])
      BY <1>2, <1>6 DEF OwnTombs
    <2>1. Alike(board'.elements[id], board.elements[id])
      BY <1>5, <1>10 DEF Gone
    <2>2. Gone(board.elements, id)
      BY <2>1 DEF Gone, Alike
    <2>3. ~ErasedByPeer(id)
      BY <1>6 DEF ErasedByPeer
    <2>4. \/ Gone(tracker.known, id) /\ Older(board.elements[id], tracker.known[id])
          \/ /\ InFlight /\ Gone(sending.elements, id)
             /\ Older(board.elements[id], sending.elements[id])
      BY <2>2, <2>3 DEF LInv, OwnTombs
    <2>5. \A z \in Entry : Older(board'.elements[id], z) <=> Older(board.elements[id], z)
      BY <1>7, <2>1, AlikeInOrder
    <2>6. QED
      BY <1>7, <2>4, <2>5
  <1>13. QED
    BY <1>8, <1>9, <1>11, <1>12 DEF LInv
-----------------------------------------------------------------------------
(* A page opened on a board knows what the board has. *)
LEMMA InitLives == Init => LInv
  <1> SUFFICES ASSUME Init PROVE LInv
    OBVIOUS
  <1>1. IInv
    BY InitHolds
  <1>2. PICK ids \in SUBSET Ids : \E nonce \in Nonces, order \in [1..Cardinality(ids) -> ids] :
            /\ {order[i] : i \in DOMAIN order} = ids
            /\ scene = [id \in Ids |-> IF id \in ids THEN Drawn(id, nonce) ELSE Absent]
            /\ stack = order
            /\ board = [NewBoard EXCEPT !.elements = scene, !.place = PlaceOf(order)]
            /\ tracker = Adopted(scene, order)
            /\ held = ids \cap Images
    BY Zenon DEF Init
  <1>3. PICK nonce \in Nonces :
            /\ scene = [id \in Ids |-> IF id \in ids THEN Drawn(id, nonce) ELSE Absent]
            /\ board.elements = scene /\ tracker.known = scene
    BY <1>2 DEF NewBoard, Adopted
  <1>4. /\ failures = 0 /\ peerWrites = 0 /\ ~InFlight
    BY DEF Init, InFlight
  <1>5. \A id \in Ids : scene[id] # Absent => scene[id] = Drawn(id, nonce)
    BY <1>3
  <1>6. \A id \in Ids : scene[id] \in Entry /\ ~Gone(scene, id)
    <2>1. \A id \in Ids : scene[id] \in Entry
      BY <1>1 DEF IInv, Types, Scene
    <2>2. \A id \in Ids : scene[id] # Absent => ~scene[id].isDeleted
      BY <1>5, DrawnType
    <2>3. QED
      BY <2>1, <2>2 DEF Gone
  <1>7. \A id \in Ids : Older(scene[id], scene[id]) /\ Counts(scene[id], scene[id])
    BY <1>6, OlderIsReflexive DEF Counts
  <1>8. Numbers /\ LikeSent /\ LifeLookedAt /\ Flips
    BY <1>4 DEF Numbers, LikeSent, LifeLookedAt, Flips
  <1>9. Plain
    <2>1. Images = {} => \A id \in Ids : Drawn(id, nonce).picture = NoPicture
      BY DEF Drawn, Picture
    <2>2. QED
      BY <1>4, <1>5, <2>1 DEF Plain
  <1>10. LifeNoted /\ LifeIdle
    BY <1>3 DEF LifeNoted, LifeIdle, SameLife, LiveOf
  <1>11. CountedUp /\ OwnTombs /\ Remembered
    BY <1>3, <1>4, <1>6, <1>7 DEF CountedUp, OwnTombs, Remembered, LiveOf, Gone
  <1>12. QED
    BY <1>8, <1>9, <1>10, <1>11 DEF LInv

LEMMA StepLives == IInv /\ IInv' /\ LInv /\ [Next]_vars => LInv'
  <1> SUFFICES ASSUME IInv, IInv', LInv, [Next]_vars PROVE LInv'
    OBVIOUS
  <1>1. CASE UNCHANGED vars
    BY <1>1, QuietLives DEF vars, saver, Saved
  <1>2. CASE UserActs
    BY <1>2, DrawLives, EditLives, EraseLives, UndeleteLives, RestackLives DEF UserActs
  <1>3. CASE ResumeFlush \/ TimerFires \/ Flush \/ Dispose
    BY <1>3, SaverLives
  <1>4. CASE Accepted \/ Failed \/ Refused \/ PeerWrite
    BY <1>4, NextPartLives, LandedLives, FailedLives, PeerLives
  <1>5. QED
    BY <1>1, <1>2, <1>3, <1>4 DEF Next

(* What the tracker knows to be alive is what the page shows, or the        *)
(* difference is noted or on its way, in every state that can be reached.   *)
THEOREM LifeIsAccountedFor == Spec => []LInv
  <1>1. Init => IInv /\ LInv
    BY InitHolds, InitLives
  <1>2. (IInv /\ LInv) /\ [Next]_vars => (IInv /\ LInv)'
    BY StepKeeps, StepLives
  <1>3. QED
    BY <1>1, <1>2, PTL DEF Spec

(* Whenever a page says "saved", every element it shows is alive on the     *)
(* board, unless another tab erased it, or an engine that restores a delete *)
(* as it was met one whose answer was lost (+page.svelte, autosaver.ts).    *)
THEOREM NothingIsMissing == Spec => []NothingGoesMissing
  <1>1. IInv /\ LInv => NothingGoesMissing
    <2> SUFFICES ASSUME IInv, LInv, Saved, NEW id \in LiveIds(scene),
                        ~LiveOf(board.elements, id), ~ErasedByPeer(id), ~RestoredUnseen
                 PROVE  FALSE
      BY DEF NothingGoesMissing
    <2>1. id \in Ids /\ LiveOf(scene, id)
      BY DEF LiveIds, LiveOf
    <2>2. Older(scene[id], board.elements[id]) /\ SameLife(id)
      BY <2>1 DEF IInv, LInv, Idle, OnBoard, LifeIdle
    <2>3. Gone(board.elements, id)
      BY <2>1, <2>2 DEF Older, Gone, LiveOf, IsLive
    <2>4. CASE "restored" \notin undone
      <3>1. Counts(board.elements[id], scene[id]) \/ FromPeer(id)
        BY <2>1, <2>4 DEF LInv, CountedUp
      <3>2. ~FromPeer(id)
        BY <2>3 DEF FromPeer, ErasedByPeer, Gone
      <3>3. board.elements[id].version < scene[id].version
        BY <2>1, <2>3, <3>1, <3>2 DEF Counts, Gone, LiveOf, IsLive
      <3>4. ~IsNewer(scene[id], board.elements[id])
        BY <2>1, <2>2 DEF Older, LiveOf, IsLive
      <3>5. /\ scene[id].version \in Nat /\ board.elements[id].version \in Nat
        BY <2>1, <2>3 DEF IInv, Types, Scene, Entry, Element, Gone, LiveOf, IsLive
      <3>6. QED
        BY <3>3, <3>4, <3>5 DEF IsNewer
    <2>5. CASE "restored" \in undone
      <3>1. failures = 0
        BY <2>5 DEF RestoredUnseen, LInv, Numbers
      <3>2. ~InFlight
        BY DEF IInv, OnItsWay, Saved
      <3>3. Gone(tracker.known, id)
        BY <2>1, <2>3, <3>1, <3>2 DEF LInv, OwnTombs
      <3>4. QED
        BY <2>1, <2>2, <3>3 DEF SameLife, Gone, LiveOf, IsLive
    <2>6. QED
      BY <2>4, <2>5
  <1>2. QED
    BY <1>1, EverythingIsAccountedFor, LifeIsAccountedFor, PTL

(* Whenever a page says "saved" that no other tab, no lost answer and no    *)
(* older engine disturbed, what it erased is gone from the board: nothing   *)
(* comes back when it is opened again (sceneDiff.ts acknowledge).           *)
THEOREM ErasedStaysErased == Spec => [](Undisturbed => NothingComesBack)
  <1>1. IInv /\ LInv => (Undisturbed => NothingComesBack)
    <2> SUFFICES ASSUME IInv, LInv, Undisturbed, Saved, NEW id \in LiveIds(board.elements)
                 PROVE  id \in LiveIds(scene)
      BY DEF NothingComesBack
    <2>1. id \in Ids /\ LiveOf(board.elements, id)
      BY DEF LiveIds, LiveOf
    <2>2. ~InFlight
      BY DEF IInv, OnItsWay, Saved
    <2>3. LiveOf(tracker.known, id) /\ SameLife(id)
      BY <2>1, <2>2 DEF LInv, Remembered, LifeIdle
    <2>4. QED
      BY <2>1, <2>3 DEF SameLife, LiveIds, LiveOf
  <1>2. QED
    BY <1>1, EverythingIsAccountedFor, LifeIsAccountedFor, PTL
-----------------------------------------------------------------------------
(* Pictures.  A picture is sent once: the ledger says which images' the     *)
(* server has.  That is right as long as the tombstone that drops a stored  *)
(* picture is one the page knows of, so it rests on OwnTombs, or on nothing *)
(* being brought back at all.  What other tabs do to images is left out:    *)
(* a ledger does not hear of it.                                            *)
PeersLeaveImages ==
    \A o \in PeerOperations, id \in Images : o.patch.elements[id] = Absent

(* The page has the picture of every image it has, also of an erased one.   *)
ScenePictured == \A id \in Images : scene[id] # Absent => scene[id].picture # NoPicture

(* What is in flight alive comes with its picture, unless the ledger says   *)
(* that the server has it.                                                  *)
SendingPictured ==
    InFlight => \A id \in Images : LiveOf(sending.elements, id) =>
        /\ sending.elements[id].picture # NoPicture
        /\ \A i \in DOMAIN parts : id \in held \/ HasPicture(parts[i].elements[id])

(* The ledger is about the images the tracker knows to be alive.            *)
HeldIsKnown == \A id \in Images : id \in held <=> LiveOf(tracker.known, id)

(* As long as no delete is undone, what a tombstone was sent of stays gone. *)
TombsStay ==
    undone = {} => \A id \in Images :
        /\ InFlight /\ Gone(sending.elements, id) => Gone(scene, id)
        /\ Gone(board.elements, id) =>
              Gone(scene, id) /\ (InFlight => ~LiveOf(sending.elements, id))

BoardPictured ==
    undone = {} \/ failures = 0 =>
        \A id \in Images : LiveOf(board.elements, id) => HasPicture(board.elements[id])

PInv == ScenePictured /\ SendingPictured /\ HeldIsKnown /\ TombsStay /\ BoardPictured

LEMMA QuietPictures ==
    ASSUME PInv, UNCHANGED <<scene, undone, board, tracker, held, sending, parts, failures>>
    PROVE  PInv'
  <1>1. InFlight' = InFlight
    BY DEF InFlight
  <1>2. ScenePictured' /\ SendingPictured' /\ HeldIsKnown'
    BY <1>1 DEF PInv, ScenePictured, SendingPictured, HeldIsKnown, LiveOf
  <1>3. TombsStay' /\ BoardPictured'
    BY <1>1 DEF PInv, TombsStay, BoardPictured, Gone, LiveOf
  <1>4. QED
    BY <1>2, <1>3 DEF PInv

LEMMA ReportPictures ==
    ASSUME PInv, NEW noted, noted.known = tracker.known, Report(noted),
           ScenePictured',
           undone \subseteq undone',
           undone' = {} => \A id \in Images : Gone(scene, id) => Gone(scene', id)
    PROVE  PInv'
  <1>1. /\ tracker'.known = tracker.known
        /\ UNCHANGED <<board, held, sending, parts, failures>>
    BY DEF Report, Notify
  <1>2. InFlight' = InFlight
    BY <1>1 DEF InFlight
  <1>3. SendingPictured' /\ HeldIsKnown'
    BY <1>1, <1>2 DEF PInv, SendingPictured, HeldIsKnown, LiveOf
  <1>4. TombsStay'
    <2>1. undone' = {} => undone = {}
      OBVIOUS
    <2>2. QED
      BY <1>1, <1>2, <2>1 DEF PInv, TombsStay, LiveOf, Gone
  <1>5. BoardPictured'
    <2>1. undone' = {} => undone = {}
      OBVIOUS
    <2>2. QED
      BY <1>1, <2>1 DEF PInv, BoardPictured, LiveOf
  <1>6. QED
    BY <1>3, <1>4, <1>5 DEF PInv

LEMMA UserPictures ==
    ASSUME IInv, PInv, NEW id \in Ids,
           Draw(id) \/ DrawBelow(id) \/ Edit(id) \/ Erase(id) \/ Undelete(id) \/ Restack(id)
    PROVE  PInv'
  <1>1. /\ scene \in Scene /\ tracker \in Trackers
    BY DEF IInv, Types
  <1>2. PICK noted : noted.known = tracker.known /\ Report(noted)
    BY <1>1, ChangedIsNoted, EverythingIsNoted
       DEF Looks, Draw, DrawBelow, Edit, Erase, Undelete, Restack
  <1>3. /\ undone \subseteq undone'
        /\ Undelete(id) => undone' # {}
    BY DEF Draw, DrawBelow, Edit, Erase, Undelete, Restack
  <1>4. CASE Draw(id) \/ DrawBelow(id)
    <2>1. scene[id] = Absent /\ \E nonce \in Nonces : scene' = [scene EXCEPT ![id] = Drawn(id, nonce)]
      BY <1>4 DEF Draw, DrawBelow
    <2>2. /\ \A some \in Ids : some # id => scene'[some] = scene[some]
          /\ id \in Images => scene'[id].picture # NoPicture
      <3>1. PICK nonce \in Nonces : scene' = [scene EXCEPT ![id] = Drawn(id, nonce)]
        BY <2>1
      <3> DEFINE e == Drawn(id, nonce)
      <3>2. id \in Images => e.picture # NoPicture
        BY AutosaveAssumption, ReconcileAssumption DEF Drawn, Picture
      <3>3. scene' = [scene EXCEPT ![id] = e]
        BY <3>1
      <3> HIDE DEF e
      <3>4. QED
        BY <1>1, <3>2, <3>3 DEF Scene
    <2>3. ScenePictured' /\ \A some \in Images : Gone(scene, some) => Gone(scene', some)
      BY <2>1, <2>2, ReconcileAssumption DEF PInv, ScenePictured, Gone
    <2>4. QED
      BY <1>2, <1>3, <2>3, ReportPictures
  <1>5. CASE Edit(id)
    <2>1. LiveOf(scene, id) /\ \E nonce \in Nonces :
             scene' = [scene EXCEPT ![id].version = @ + 1, ![id].versionNonce = nonce]
      BY <1>5 DEF Edit
    <2>2. scene[id] \in Element /\ ~Gone(scene, id)
      BY <1>1, <2>1 DEF LiveOf, IsLive, Scene, Entry, Gone
    <2>3. /\ \A some \in Ids : some # id => scene'[some] = scene[some]
          /\ scene'[id].picture = scene[id].picture
      BY <1>1, <2>1, <2>2 DEF Scene, Element
    <2>4. ScenePictured' /\ \A some \in Images : Gone(scene, some) => Gone(scene', some)
      BY <2>1, <2>2, <2>3, ReconcileAssumption DEF PInv, ScenePictured, Gone, LiveOf, IsLive
    <2>5. QED
      BY <1>2, <1>3, <2>4, ReportPictures
  <1>6. CASE Erase(id)
    <2>1. /\ LiveOf(scene, id)
          /\ scene' = [scene EXCEPT ![id].version = @ + 1, ![id].isDeleted = TRUE]
      BY <1>6 DEF Erase
    <2>2. scene[id] \in Element /\ ~Gone(scene, id)
      BY <1>1, <2>1 DEF LiveOf, IsLive, Scene, Entry, Gone
    <2>3. /\ \A some \in Ids : some # id => scene'[some] = scene[some]
          /\ scene'[id].picture = scene[id].picture
      BY <1>1, <2>1, <2>2 DEF Scene, Element
    <2>4. ScenePictured' /\ \A some \in Images : Gone(scene, some) => Gone(scene', some)
      BY <2>1, <2>2, <2>3, ReconcileAssumption DEF PInv, ScenePictured, Gone, LiveOf, IsLive
    <2>5. QED
      BY <1>2, <1>3, <2>4, ReportPictures
  <1>7. CASE Undelete(id)
    <2>1. PICK nonce \in Nonces, restamps \in EngineRestamps :
              scene' = [scene EXCEPT ![id].isDeleted = FALSE,
                                     ![id].version = IF restamps THEN @ + 1 ELSE @ - 1,
                                     ![id].versionNonce = nonce]
      BY <1>7 DEF Undelete
    <2>2. scene[id] # Absent
      <3>1. /\ undo \in Seq(Ids) /\ undo # <<>> /\ id = Last(undo) /\ Drawable
        BY <1>7 DEF IInv, Types, Undelete
      <3>2. /\ Len(undo) \in Nat /\ Len(undo) > 0
            /\ DOMAIN undo = 1..Len(undo) /\ id = undo[Len(undo)]
        BY <3>1, LenProperties, EmptySeq DEF Last
      <3>3. QED
        BY <3>1, <3>2 DEF Drawable
    <2>3. scene[id] \in Element
      BY <1>1, <2>2 DEF Scene, Entry
    <2>4. /\ \A some \in Ids : some # id => scene'[some] = scene[some]
          /\ scene'[id].picture = scene[id].picture
      BY <1>1, <2>1, <2>3 DEF Scene, Element
    <2>5. ScenePictured'
      BY <2>2, <2>4, ReconcileAssumption DEF PInv, ScenePictured
    <2>6. QED
      BY <1>2, <1>3, <1>7, <2>5, ReportPictures
  <1>8. CASE Restack(id)
    <2>1. scene' = scene
      BY <1>8 DEF Restack
    <2>2. ScenePictured' /\ \A some \in Images : Gone(scene, some) => Gone(scene', some)
      BY <2>1 DEF PInv, ScenePictured
    <2>3. QED
      BY <1>2, <1>3, <2>2, ReportPictures
  <1>9. QED
    BY <1>4, <1>5, <1>6, <1>7, <1>8

LEMMA PatchPictures ==
    ASSUME IInv, PInv, NEW patch \in Patches, NEW id \in Images, LiveOf(patch.elements, id)
    PROVE  patch.elements[id].picture # NoPicture
  <1>1. PICK nonces \in [Ids -> Nonces] : patch = Diff(tracker, scene, Shown, nonces)
    BY DEF Patches
  <1>2. Types /\ id \in Ids
    BY ReconcileAssumption DEF IInv
  <1>3. nonces \in [Ids -> Nat] /\ nonces[id] \in Nat
    BY <1>2, AutosaveAssumption
  <1> DEFINE live == LiveIds(scene)
             shown == Only[live][stack]
             before == tracker.known
             nonce == nonces[id]
             change == Change([known |-> before], scene, id, nonce)
  <1>4. stack \in Seq(Ids) /\ live \in SUBSET Ids
    BY <1>2 DEF Types, LiveIds
  <1> HIDE DEF live
  <1>5. shown \in Seq(Ids)
    BY <1>4, OnlyFacts
  <1> HIDE DEF shown
  <1>6. patch = Diff(tracker, scene, shown, nonces)
    BY <1>1 DEF Shown, shown, live
  <1>7. /\ tracker \in Trackers /\ scene \in Scene /\ Timeless(tracker.known)
        /\ Timeless(scene) /\ before \in Scene
    BY <1>2 DEF Types, Trackers
  <1>8. patch.elements[id] \in {Absent, change}
    BY <1>2, <1>3, <1>5, <1>6, <1>7, DiffFacts
  <1> HIDE DEF before, nonce
  <1>9. IsLive(change) => scene[id] # Absent /\ change.picture = scene[id].picture
    BY <1>2, <1>3, <1>7, ChangePictures DEF nonce
  <1>10. patch.elements[id] = change /\ IsLive(change)
    BY <1>8 DEF LiveOf, IsLive
  <1> HIDE DEF change
  <1>11. QED
    BY <1>9, <1>10 DEF PInv, ScenePictured

LEMMA RunPictures ==
    ASSUME IInv, LInv, PInv, ~InFlight, Run,
           UNCHANGED <<scene, undone, board, held, failures>>
    PROVE  PInv'
  <1>1. PICK patch \in Patches :
            /\ tracker' = Diffed(tracker, patch)
            /\ IF IsEmpty(patch)
               THEN status' = "idle" /\ UNCHANGED <<sending, parts>>
               ELSE /\ status' = "saving" /\ sending' = patch
                    /\ parts' = Split([patch EXCEPT !.elements = Strip(held, @)])
    BY DEF Run
  <1>2. patch \in Diffs /\ tracker \in Trackers /\ Images \subseteq Ids
    BY PatchBrings, ReconcileAssumption DEF IInv, Types
  <1>3. tracker'.known = tracker.known
    BY <1>1, <1>2, DiffedFacts
  <1>4. ScenePictured' /\ HeldIsKnown' /\ BoardPictured'
    BY <1>3 DEF PInv, ScenePictured, HeldIsKnown, BoardPictured, LiveOf
  <1>5. CASE IsEmpty(patch)
    <2>1. ~InFlight'
      BY <1>1, <1>5 DEF InFlight
    <2>2. SendingPictured' /\ TombsStay'
      BY <2>1 DEF PInv, SendingPictured, TombsStay, Gone
    <2>3. QED
      BY <1>4, <2>2 DEF PInv
  <1>6. CASE ~IsEmpty(patch)
    <2> DEFINE stripped == Strip(held, patch.elements)
               sent == [patch EXCEPT !.elements = stripped]
    <2>1. sending' = patch /\ parts' = Split(sent)
      BY <1>1, <1>2, <1>6 DEF Diffs
    <2>2. stripped \in Scene /\ patch.elements \in Scene
      BY <1>2, StripFacts DEF Diffs
    <2>3. \A id \in Ids : id \notin held => stripped[id] = patch.elements[id]
      BY <2>2, StripPictures
    <2> HIDE DEF stripped
    <2>4. sent \in Diffs /\ sent.elements = stripped
      BY <1>2, <2>2 DEF Diffs
    <2> HIDE DEF sent
    <2>5. \A i \in DOMAIN parts' : parts'[i].elements = stripped
      BY <2>1, <2>4, SplitFacts
    <2>6. SendingPictured'
      <3> SUFFICES ASSUME NEW id \in Images, LiveOf(patch.elements, id)
                   PROVE  /\ patch.elements[id].picture # NoPicture
                          /\ \A i \in DOMAIN parts' : id \in held \/ HasPicture(parts'[i].elements[id])
        BY <2>1 DEF SendingPictured
      <3>1. patch.elements[id].picture # NoPicture
        BY PatchPictures
      <3>2. HasPicture(patch.elements[id])
        BY <3>1 DEF HasPicture, LiveOf
      <3>3. id \in Ids
        BY <1>2
      <3>4. QED
        BY <2>3, <2>5, <3>1, <3>2, <3>3
    <2>7. TombsStay'
      <3> SUFFICES ASSUME undone = {}, NEW id \in Images
                   PROVE  /\ Gone(patch.elements, id) => Gone(scene, id)
                          /\ Gone(board.elements, id) =>
                                Gone(scene, id) /\ ~LiveOf(patch.elements, id)
        BY <2>1 DEF TombsStay
      <3>1. id \in Ids
        BY <1>2
      <3>2. /\ patch.elements[id] # Absent =>
                  (IsLive(patch.elements[id]) <=> LiveOf(scene, id))
            /\ Gone(patch.elements, id) => LiveOf(tracker.known, id)
        BY <3>1, PatchFlips
      <3>3. Counts(tracker.known[id], scene[id])
        BY <3>1 DEF LInv, CountedUp
      <3>4. Gone(patch.elements, id) => Gone(scene, id)
        BY <3>2, <3>3 DEF Gone, LiveOf, IsLive, Counts
      <3>5. Gone(board.elements, id) => Gone(scene, id)
        BY DEF PInv, TombsStay
      <3>6. Gone(scene, id) => ~LiveOf(patch.elements, id)
        BY <3>2 DEF Gone, LiveOf, IsLive
      <3>7. QED
        BY <3>4, <3>5, <3>6
    <2>8. QED
      BY <1>4, <2>6, <2>7 DEF PInv
  <1>7. QED
    BY <1>5, <1>6

LEMMA SaverPictures ==
    ASSUME IInv, LInv, PInv, TimerFires \/ Flush \/ ResumeFlush \/ Dispose
    PROVE  PInv'
  <1>1. UNCHANGED <<scene, undone, board, held, failures>>
    BY DEF TimerFires, Flush, ResumeFlush, Dispose
  <1>2. CASE ~InFlight /\ Run
    BY <1>1, <1>2, RunPictures
  <1>3. CASE UNCHANGED <<tracker, sending, parts>>
    BY <1>1, <1>3, QuietPictures
  <1>4. QED
    BY <1>2, <1>3 DEF TimerFires, Flush, ResumeFlush, FlushResumes, Dispose

(* A request leaves a picture with every live image, if there was one.      *)
LEMMA HeadServedPictured ==
    ASSUME PeersLeaveImages, IInv, LInv, PInv, InFlight, undone = {} \/ failures = 0,
           NEW id \in Images, LiveOf(Served(board, Head(parts)).elements, id)
    PROVE  HasPicture(Served(board, Head(parts)).elements[id])
  <1> DEFINE first == Head(parts)
             o == Request(first)
             b == board
             after == Written(b, o).elements[id]
  <1>1. /\ parts \in Seq(Diffs) /\ parts # <<>> /\ board.elements \in Scene
        /\ id \in Ids /\ sending.elements \in Scene
    BY ReconcileAssumption DEF IInv, Types, OnItsWay, InFlight, Diffs
  <1>2. first \in Diffs /\ first = parts[1] /\ 1 \in DOMAIN parts
    BY <1>1, HeadTailProperties, LenProperties, EmptySeq
  <1>3. /\ Alike(first.elements[id], sending.elements[id])
        /\ LiveOf(sending.elements, id) => id \in held \/ HasPicture(first.elements[id])
    BY <1>1, <1>2 DEF LInv, LikeSent, PInv, SendingPictured
  <1>4. /\ Served(board, first).elements[id] = after
        /\ IsLive(after)
    <2>1. o.kind = "patch"
      BY DEF Request
    <2>2. Served(board, first).elements = Written(b, o).elements
      BY <2>1 DEF Served, Written, NextDocument
    <2>3. QED
      BY <2>2 DEF LiveOf
  <1>5. /\ \/ Alike(after, b.elements[id])
           \/ sending.elements[id] # Absent /\ Alike(after, sending.elements[id])
    BY <1>1, <1>4, HeadServedAlike
  <1> HIDE DEF first
  <1>6. /\ o.kind = "patch" /\ o.patch.elements \in Scene
        /\ o.patch.elements[id] = IF id \in Range(first.list) THEN first.elements[id] ELSE Absent
    BY <1>1, <1>2, RequestFacts
  <1>7. b.elements \in Scene /\ b = board
    BY <1>1
  <1> HIDE DEF o, b
  <1>8. HasPicture(b.elements[id]) \/ HasPicture(o.patch.elements[id]) => HasPicture(after)
    BY <1>4, <1>6, <1>7, PictureKept
  <1>9. LiveOf(board.elements, id) => HasPicture(board.elements[id])
    BY DEF PInv, BoardPictured
  <1> HIDE DEF after
  <1>10. CASE LiveOf(board.elements, id)
    BY <1>4, <1>7, <1>8, <1>9, <1>10 DEF first
  <1>11. CASE Gone(board.elements, id)
    <2>1. LiveOf(sending.elements, id)
      BY <1>4, <1>5, <1>7, <1>11 DEF Alike, Gone, LiveOf, IsLive
    <2>2. failures = 0 /\ ~ErasedByPeer(id)
      BY <1>11, <2>1 DEF PInv, TombsStay, PeersLeaveImages, ErasedByPeer
    <2>3. Gone(tracker.known, id)
      BY <1>1, <1>11, <2>1, <2>2 DEF LInv, OwnTombs, Gone, LiveOf, IsLive
    <2>4. id \notin held
      BY <2>3 DEF PInv, HeldIsKnown, Gone, LiveOf, IsLive
    <2>5. HasPicture(first.elements[id])
      BY <1>3, <2>1, <2>4
    <2>6. /\ first.elements[id] \in Entry /\ sending.elements[id] \in Entry
          /\ after \in Entry /\ b.elements[id] \in Entry
      <3>1. Written(b, o).elements \in Scene
        BY <1>6, <1>7, WriteFacts
      <3>2. QED
        BY <1>1, <1>2, <1>7, <3>1 DEF Diffs, Scene, after
    <2>7. id \in Range(first.list)
      <3>1. ASSUME id \notin Range(first.list)
            PROVE  FALSE
        <4>1. o.patch.elements[id] = Absent
          BY <1>6, <3>1
        <4>2. Alike(after, b.elements[id])
          BY <1>1, <1>6, <1>7, <4>1, WriteFacts DEF after
        <4>3. QED
          BY <1>4, <1>7, <1>11, <4>2 DEF Alike, Gone, IsLive
      <3>2. QED
        BY <3>1
    <2>8. QED
      BY <1>4, <1>6, <1>8, <2>5, <2>7 DEF first
  <1>12. CASE board.elements[id] = Absent
    <2>1. LiveOf(sending.elements, id)
      BY <1>4, <1>5, <1>7, <1>12 DEF Alike, LiveOf, IsLive
    <2>2. tracker.known[id] = Absent
      BY <1>1, <1>12 DEF IInv, Known, Older
    <2>3. id \notin held
      BY <2>2 DEF PInv, HeldIsKnown, LiveOf, IsLive
    <2>4. HasPicture(first.elements[id])
      BY <1>3, <2>1, <2>3
    <2>5. id \in Range(first.list)
      <3>1. ASSUME id \notin Range(first.list)
            PROVE  FALSE
        <4>1. o.patch.elements[id] = Absent
          BY <1>6, <3>1
        <4>2. Alike(after, b.elements[id])
          BY <1>1, <1>6, <1>7, <4>1, WriteFacts DEF after
        <4>3. QED
          BY <1>4, <1>7, <1>12, <4>2 DEF Alike, IsLive
      <3>2. QED
        BY <3>1
    <2>6. QED
      BY <1>4, <1>6, <1>8, <2>4, <2>5 DEF first
  <1>13. QED
    BY <1>10, <1>11, <1>12 DEF Gone, LiveOf, IsLive

LEMMA HeadServedTombs ==
    ASSUME IInv, LInv, PInv, InFlight, undone = {}, NEW id \in Images,
           Gone(Served(board, Head(parts)).elements, id)
    PROVE  Gone(scene, id) /\ ~LiveOf(sending.elements, id)
  <1> DEFINE after == Served(board, Head(parts)).elements[id]
  <1>1. id \in Ids
    BY ReconcileAssumption
  <1>2. \/ Alike(after, board.elements[id])
        \/ sending.elements[id] # Absent /\ Alike(after, sending.elements[id])
    BY <1>1, HeadServedAlike
  <1>3. after # Absent /\ after.isDeleted
    BY DEF Gone
  <1> HIDE DEF after
  <1>4. Gone(board.elements, id) \/ Gone(sending.elements, id)
    BY <1>2, <1>3 DEF Alike, Gone
  <1>5. QED
    BY <1>4 DEF PInv, TombsStay, Gone, LiveOf, IsLive

LEMMA AcceptedPictures ==
    ASSUME PeersLeaveImages, IInv, LInv, PInv, Accepted
    PROVE  PInv'
  <1>1. /\ InFlight /\ board' = Served(board, Head(parts))
        /\ UNCHANGED <<scene, undone, failures>>
    BY DEF Accepted
  <1>2. ScenePictured'
    BY <1>1 DEF PInv, ScenePictured
  <1>3. BoardPictured'
    BY <1>1, HeadServedPictured DEF BoardPictured
  <1>4. CASE Len(parts) > 1
    <2>1. /\ parts' = Tail(parts) /\ UNCHANGED <<tracker, held, sending>>
      BY <1>4 DEF Accepted
    <2>2. InFlight' = InFlight
      BY <2>1 DEF InFlight
    <2>3. HeldIsKnown'
      BY <2>1 DEF PInv, HeldIsKnown
    <2>4. TombsStay'
      BY <1>1, <2>1, <2>2, HeadServedTombs DEF PInv, TombsStay
    <2>5. SendingPictured'
      <3> DEFINE rest == Tail(parts)
      <3>1. parts \in Seq(Diffs) /\ parts # <<>>
        BY <1>1 DEF IInv, Types, OnItsWay
      <3>2. /\ rest \in Seq(Diffs) /\ Len(rest) = Len(parts) - 1 /\ Len(parts) \in Nat
            /\ \A i \in 1..Len(rest) : rest[i] = parts[i + 1]
            /\ DOMAIN parts = 1..Len(parts)
        BY <3>1, HeadTailProperties, LenProperties
      <3>3. DOMAIN rest = 1..Len(rest)
        BY <3>2, LenProperties
      <3>4. \A i \in DOMAIN rest : i + 1 \in DOMAIN parts
        BY <3>2, <3>3
      <3> HIDE DEF rest
      <3>5. \A id \in Images : LiveOf(sending.elements, id) =>
               /\ sending.elements[id].picture # NoPicture
               /\ \A i \in DOMAIN parts : id \in held \/ HasPicture(parts[i].elements[id])
        BY <1>1 DEF PInv, SendingPictured
      <3>6. \A i \in DOMAIN rest : rest[i] = parts[i + 1]
        BY <3>2, <3>3
      <3>7. \A id \in Images : LiveOf(sending.elements, id) =>
               \A i \in DOMAIN rest : id \in held \/ HasPicture(rest[i].elements[id])
        BY <3>4, <3>5, <3>6
      <3>8. QED
        BY <2>1, <3>5, <3>7 DEF SendingPictured, rest
    <2>6. QED
      BY <1>2, <1>3, <2>3, <2>4, <2>5 DEF PInv
  <1>5. CASE ~(Len(parts) > 1)
    <2>1. /\ sending' = Absent /\ tracker' = Acknowledged(tracker, sending)
          /\ held' = Noted(held, sending.elements)
      BY <1>5 DEF Accepted, Landed
    <2>2. ~InFlight'
      BY <2>1 DEF InFlight
    <2>3. SendingPictured'
      BY <2>2 DEF SendingPictured
    <2>4. TombsStay'
      BY <1>1, <2>2, HeadServedTombs DEF TombsStay
    <2>5. \A id \in Ids : tracker'.known[id] = After(id)
      <3> DEFINE t == tracker
                 patch == sending
                 known == [id \in Ids |-> IF patch.elements[id] = Absent THEN t.known[id]
                                          ELSE patch.elements[id]]
                 after == Acknowledged(t, patch)
      <3>1. t \in Trackers /\ patch \in Diffs /\ tracker' = after
        BY <1>1, <2>1 DEF IInv, Types, InFlight
      <3>2. \A id \in Ids : known[id] = After(id)
        BY DEF After
      <3> HIDE DEF t, patch
      <3>3. after.known = known
        BY <3>1, AcknowledgedFacts
      <3> HIDE DEF after, known
      <3>4. QED
        BY <3>1, <3>2, <3>3
    <2>6. HeldIsKnown'
      <3> SUFFICES ASSUME NEW id \in Images
                   PROVE  id \in held' <=> LiveOf(tracker'.known, id)
        BY DEF HeldIsKnown
      <3>1. id \in Ids /\ tracker'.known[id] = After(id)
        BY <2>5, ReconcileAssumption
      <3>2. id \in held <=> LiveOf(tracker.known, id)
        BY DEF PInv, HeldIsKnown
      <3>3. LiveOf(sending.elements, id) => HasPicture(sending.elements[id])
        BY <1>1 DEF PInv, SendingPictured, HasPicture, LiveOf
      <3>4. id \in held' <=> \/ id \in held /\ ~Gone(sending.elements, id)
                             \/ HasPicture(sending.elements[id])
        BY <2>1, <3>1 DEF Noted, WithPicture, Gone
      <3>5. CASE sending.elements[id] = Absent
        BY <3>1, <3>2, <3>4, <3>5 DEF After, Gone, HasPicture, IsLive, LiveOf
      <3>6. CASE Gone(sending.elements, id)
        BY <3>1, <3>4, <3>6 DEF After, Gone, HasPicture, IsLive, LiveOf
      <3>7. CASE LiveOf(sending.elements, id)
        BY <3>1, <3>3, <3>4, <3>7 DEF After, HasPicture, IsLive, LiveOf
      <3>8. QED
        BY <3>5, <3>6, <3>7 DEF Gone, LiveOf, IsLive
    <2>7. QED
      BY <1>2, <1>3, <2>3, <2>4, <2>6 DEF PInv
  <1>6. QED
    BY <1>4, <1>5

LEMMA FailedPictures ==
    ASSUME PeersLeaveImages, IInv, LInv, PInv, Failed \/ Refused
    PROVE  PInv'
  <1>1. /\ InFlight
        /\ board' = board \/ board' = Served(board, Head(parts))
        /\ sending' = Absent /\ failures' = failures + 1
        /\ UNCHANGED <<scene, undone, tracker, held>>
    BY DEF Failed, FailedThen, Refused, Landed
  <1>2. ~InFlight' /\ failures' # 0
    BY <1>1 DEF InFlight, LInv, Numbers
  <1>3. ScenePictured' /\ SendingPictured' /\ HeldIsKnown'
    BY <1>1, <1>2 DEF PInv, ScenePictured, SendingPictured, HeldIsKnown
  <1>4. TombsStay'
    <2>1. CASE board' = board
      BY <1>1, <1>2, <2>1 DEF PInv, TombsStay
    <2>2. CASE board' = Served(board, Head(parts))
      BY <1>1, <1>2, <2>2, HeadServedTombs DEF TombsStay
    <2>3. QED
      BY <1>1, <2>1, <2>2
  <1>5. BoardPictured'
    <2> SUFFICES ASSUME undone = {}, NEW id \in Images, LiveOf(board'.elements, id)
                 PROVE  HasPicture(board'.elements[id])
      BY <1>1, <1>2 DEF BoardPictured
    <2>1. CASE board' = board
      BY <2>1 DEF PInv, BoardPictured
    <2>2. CASE board' = Served(board, Head(parts))
      BY <1>1, <2>2, HeadServedPictured
    <2>3. QED
      BY <1>1, <2>1, <2>2
  <1>6. QED
    BY <1>3, <1>4, <1>5 DEF PInv

LEMMA PeerPictures ==
    ASSUME PeersLeaveImages, IInv, PInv, PeerWrite
    PROVE  PInv'
  <1>1. PICK o \in PeerOperations : board' = [Written(board, o) EXCEPT !.rev = board.rev]
    BY DEF PeerWrite
  <1>2. UNCHANGED <<scene, undone, tracker, held, sending, parts, failures>>
    BY DEF PeerWrite, saver
  <1>3. o.kind = "patch" /\ o.patch.elements \in Scene
    BY AutosaveAssumption DEF Operation, Patch, Scene
  <1>4. board'.elements = Written(board, o).elements
    BY <1>1, <1>3 DEF Written, NextDocument
  <1>5. \A id \in Images : o.patch.elements[id] = Absent
    BY DEF PeersLeaveImages
  <1> DEFINE b == board
  <1>6. b.elements \in Scene /\ b = board
    BY DEF IInv, Types
  <1> HIDE DEF b
  <1>7. \A id \in Ids : \/ Alike(Written(b, o).elements[id], b.elements[id])
                        \/ /\ o.patch.elements[id] # Absent
                           /\ Alike(Written(b, o).elements[id], o.patch.elements[id])
    BY <1>3, <1>6, WriteFacts
  <1>8. \A id \in Images : IsLive(Written(b, o).elements[id]) /\ HasPicture(b.elements[id])
                              => HasPicture(Written(b, o).elements[id])
    BY <1>3, <1>6, PictureKept
  <1>9. \A id \in Images :
           /\ Alike(board'.elements[id], board.elements[id])
           /\ IsLive(board'.elements[id]) /\ HasPicture(board.elements[id])
                 => HasPicture(board'.elements[id])
    BY <1>4, <1>5, <1>6, <1>7, <1>8, ReconcileAssumption
  <1>10. InFlight' = InFlight
    BY <1>2 DEF InFlight
  <1>11. ScenePictured' /\ SendingPictured' /\ HeldIsKnown'
    BY <1>2, <1>10 DEF PInv, ScenePictured, SendingPictured, HeldIsKnown
  <1>12. \A id \in Images : /\ Gone(board'.elements, id) => Gone(board.elements, id)
                            /\ LiveOf(board'.elements, id) => LiveOf(board.elements, id)
    BY <1>9 DEF Gone, LiveOf, IsLive, Alike
  <1>13. TombsStay'
    BY <1>2, <1>10, <1>12 DEF PInv, TombsStay
  <1>14. BoardPictured'
    BY <1>2, <1>9, <1>12 DEF PInv, BoardPictured, LiveOf
  <1>15. QED
    BY <1>11, <1>13, <1>14 DEF PInv

LEMMA InitPictures == Init => PInv
  <1> SUFFICES ASSUME Init PROVE PInv
    OBVIOUS
  <1>1. PICK ids \in SUBSET Ids : \E nonce \in Nonces, order \in [1..Cardinality(ids) -> ids] :
            /\ {order[i] : i \in DOMAIN order} = ids
            /\ scene = [id \in Ids |-> IF id \in ids THEN Drawn(id, nonce) ELSE Absent]
            /\ stack = order
            /\ board = [NewBoard EXCEPT !.elements = scene, !.place = PlaceOf(order)]
            /\ tracker = Adopted(scene, order)
            /\ held = ids \cap Images
    BY Zenon DEF Init
  <1>2. PICK nonce \in Nonces :
            /\ scene = [id \in Ids |-> IF id \in ids THEN Drawn(id, nonce) ELSE Absent]
            /\ board.elements = scene /\ tracker.known = scene
            /\ held = ids \cap Images
    BY <1>1 DEF NewBoard, Adopted
  <1>3. undone = {} /\ ~InFlight
    BY DEF Init, InFlight
  <1>4. \A id \in Images : Drawn(id, nonce).picture # NoPicture
    BY AutosaveAssumption, ReconcileAssumption DEF Drawn, Picture
  <1>5. \A id \in Ids : Drawn(id, nonce) # Absent /\ ~Drawn(id, nonce).isDeleted
    BY DrawnType, ReconcileAssumption
  <1>6. \A id \in Ids : /\ scene[id] # Absent <=> id \in ids
                        /\ scene[id] # Absent => scene[id] = Drawn(id, nonce)
    BY <1>2, <1>5
  <1>7. Images \subseteq Ids
    BY ReconcileAssumption
  <1>8. ScenePictured /\ SendingPictured
    BY <1>3, <1>4, <1>6, <1>7 DEF ScenePictured, SendingPictured
  <1>9. \A id \in Ids : ~Gone(scene, id) /\ (IsLive(scene[id]) <=> id \in ids)
    BY <1>5, <1>6 DEF Gone, IsLive
  <1>10. HeldIsKnown
    BY <1>2, <1>7, <1>9 DEF HeldIsKnown, LiveOf
  <1>11. TombsStay
    BY <1>2, <1>3, <1>7, <1>9 DEF TombsStay, Gone
  <1>12. BoardPictured
    BY <1>2, <1>8 DEF BoardPictured, ScenePictured, HasPicture, LiveOf, IsLive
  <1>13. QED
    BY <1>8, <1>10, <1>11, <1>12 DEF PInv

(* Whenever a page says "saved", every image on the board has its picture   *)
(* there, unless a delete was undone after a failure, and as long as other  *)
(* tabs leave the images alone (pictures.ts, autosaver.ts).                 *)
THEOREM PicturesAreThere ==
    ASSUME PeersLeaveImages
    PROVE  Spec => []PicturesAreSavedUntilUndo
  <1>1. Init => PInv
    BY InitPictures
  <1>2. IInv /\ LInv /\ PInv /\ [Next]_vars => PInv'
    <2> SUFFICES ASSUME IInv, LInv, PInv, [Next]_vars PROVE PInv'
      OBVIOUS
    <2>1. CASE UNCHANGED vars
      BY <2>1, QuietPictures DEF vars, saver
    <2>2. CASE UserActs
      BY <2>2, UserPictures DEF UserActs
    <2>3. CASE ResumeFlush \/ TimerFires \/ Flush \/ Dispose
      BY <2>3, SaverPictures
    <2>4. CASE Accepted \/ Failed \/ Refused \/ PeerWrite
      BY <2>4, AcceptedPictures, FailedPictures, PeerPictures
    <2>5. QED
      BY <2>1, <2>2, <2>3, <2>4 DEF Next
  <1>3. LInv /\ PInv => PicturesAreSavedUntilUndo
    <2> SUFFICES ASSUME LInv, PInv, undone = {} \/ ~(failures > 0),
                        NEW id \in Images \cap LiveIds(board.elements)
                 PROVE  HasPicture(board.elements[id])
      BY DEF PicturesAreSavedUntilUndo, PicturesAreSaved
    <2>1. undone = {} \/ failures = 0
      BY DEF LInv, Numbers
    <2>2. LiveOf(board.elements, id)
      BY DEF LiveIds, LiveOf
    <2>3. QED
      BY <2>1, <2>2 DEF PInv, BoardPictured
  <1>4. Spec => [](IInv /\ LInv)
    BY EverythingIsAccountedFor, LifeIsAccountedFor, PTL
  <1>5. QED
    BY <1>1, <1>2, <1>3, <1>4, PTL DEF Spec

-----------------------------------------------------------------------------
(* Order.  A diff of what was noted carries no order, so its place on the   *)
(* board is what the server makes of it; and it is said to find all that    *)
(* comparing everything would.  The invariant is that the order of what is  *)
(* acknowledged, with what is noted and new to it on top, is the order of   *)
(* the page.  It holds where a delete that was undone is stamped anew: an   *)
(* older engine's copy is never in step with what was sent of it.           *)
StampedAnew == "restored" \notin undone

Here == {id \in Ids : scene[id] # Absent}

(* Nothing is in the stack or noted that was never drawn. *)
OnlyDrawn ==
    /\ Range(stack) \subseteq Here
    /\ tracker.touched # Everything => Range(tracker.touched) \subseteq Here

(* The order acknowledged is one of what is known to be alive. *)
OrderIsLive ==
    /\ Range(tracker.order) = LiveIds(tracker.known)
    /\ InFlight =>
          /\ Range(sending.list) = Named(sending)
          /\ sending.order # Absent =>
                Range(sending.order) = {id \in Ids : IsLive(After(id))}

OthersInStep ==
    tracker.touched # Everything =>
        \A id \in Ids \ Range(tracker.touched) : InStep(tracker.known[id], scene[id])

(* A list has of a set what an order has, and what was noted on top of it.  *)
OnTop(list, order, noted, ids) ==
    Only[ids][list] = Only[ids][order] \o Only[ids \ Range(order)][noted]

Stacked ==
    tracker.touched # Everything =>
        OnTop(stack, tracker.order, tracker.touched, LiveIds(scene))

(* The notes a patch in flight was made of, and those made since. *)
Looked(old, new) ==
    /\ tracker.touched = old \o new
    /\ Range(old) \cap Range(new) = {} /\ Range(new) \subseteq tracker.since
    /\ sending.list = Only[Named(sending)][old]
    /\ \A id \in Range(old) : LiveOf(scene, id) =>
          LiveOf(sending.elements, id) \/ id \in Range(tracker.order)

NotesAreInOrder == \E old, new \in Seq(Ids) : Looked(old, new)

(* The order acknowledged once the patch in flight has landed. *)
Ahead ==
    IF sending.order # Absent THEN sending.order
    ELSE PredictOrder(tracker.order, sending.elements, sending.list)

SentInStep ==
    InFlight =>
        /\ tracker.touched # Everything =>
              /\ sending.order = Absent
              /\ \A id \in Range(tracker.touched) \ tracker.since : InStep(After(id), scene[id])
              /\ \A id \in Ids : Gone(sending.elements, id) => ~LiveOf(scene, id)
              /\ NotesAreInOrder
        /\ tracker.touched = Everything /\ tracker.full /\ tracker.quiet =>
              /\ \A id \in Ids : InStep(After(id), scene[id])
              /\ Ahead = Shown

(* A saver that has nothing to do has nothing noted. *)
Rested == ~disposed /\ ~timer /\ ~InFlight /\ status # "too-large" => tracker.touched = <<>>

SInv ==
    /\ OnlyDrawn /\ OrderIsLive /\ Rested
    /\ StampedAnew => OthersInStep /\ Stacked /\ SentInStep

-----------------------------------------------------------------------------
LEMMA QuietOrders ==
    ASSUME SInv, UNCHANGED <<scene, stack, undone, tracker, sending>>, Rested'
    PROVE  SInv'
  <1>1. /\ InFlight' = InFlight /\ StampedAnew' = StampedAnew /\ Here' = Here /\ Shown' = Shown
        /\ \A id : After(id)' = After(id)
    BY DEF InFlight, StampedAnew, Here, Shown, After
  <1>2. OnlyDrawn' /\ OrderIsLive'
    BY <1>1 DEF SInv, OnlyDrawn, OrderIsLive
  <1>3. StampedAnew' => OthersInStep' /\ Stacked'
    BY <1>1 DEF SInv, OthersInStep, Stacked
  <1>4. StampedAnew' => SentInStep'
    <2>1. Ahead' = Ahead /\ \A old, new \in Seq(Ids) : Looked(old, new) => Looked(old, new)'
      BY DEF Ahead, Looked
    <2>2. NotesAreInOrder => NotesAreInOrder'
      BY <2>1 DEF NotesAreInOrder
    <2> SUFFICES ASSUME StampedAnew', InFlight PROVE SentInStep'
      BY <1>1 DEF SentInStep
    <2>3. SentInStep
      BY <1>1 DEF SInv
    <2>4. ASSUME tracker.touched # Everything
          PROVE  /\ sending.order = Absent
                 /\ \A id \in Range(tracker.touched) \ tracker.since :
                        InStep(After(id)', scene[id])
                 /\ \A id \in Ids : Gone(sending.elements, id) => ~LiveOf(scene, id)
                 /\ NotesAreInOrder'
      BY <1>1, <2>2, <2>3, <2>4 DEF SentInStep, LiveOf, Gone
    <2>5. ASSUME tracker.touched = Everything, tracker.full, tracker.quiet
          PROVE  /\ \A id \in Ids : InStep(After(id)', scene[id])
                 /\ Ahead' = Shown'
      BY <1>1, <2>1, <2>3, <2>5 DEF SentInStep
    <2>6. QED
      BY <1>1, <2>4, <2>5 DEF SentInStep, LiveOf, Gone
  <1>5. QED
    BY <1>2, <1>3, <1>4 DEF SInv

(* A report wakes a saver that is at rest. *)
LEMMA ReportRested ==
    ASSUME NEW noted, Report(noted)
    PROVE  Rested' /\ tracker' = noted /\ UNCHANGED sending /\ InFlight' = InFlight
  <1>1. UNCHANGED <<sending, disposed>> /\ tracker' = noted
    BY DEF Report, Notify
  <1>2. InFlight' = InFlight
    BY <1>1 DEF InFlight
  <1>3. ~disposed /\ ~InFlight => timer'
    BY DEF Report, Notify
  <1>4. QED
    BY <1>1, <1>2, <1>3 DEF Rested

(* Once everything is noted, only the next comparison of everything counts. *)
LEMMA NoteAllOrders ==
    ASSUME SInv, NEW noted \in Trackers, Report(noted), noted.touched = Everything, ~noted.quiet,
           noted.known = tracker.known, noted.order = tracker.order, Range(stack') \subseteq Here'
    PROVE  SInv'
  <1>1. Rested' /\ tracker' = noted /\ UNCHANGED sending /\ InFlight' = InFlight
    BY ReportRested
  <1>2. \A id \in Ids : After(id)' = After(id)
    BY <1>1 DEF After
  <1>3. OnlyDrawn' /\ OrderIsLive'
    BY <1>1, <1>2 DEF SInv, OnlyDrawn, OrderIsLive
  <1>4. OthersInStep' /\ Stacked' /\ SentInStep'
    BY <1>1 DEF OthersInStep, Stacked, SentInStep
  <1>5. QED
    BY <1>1, <1>3, <1>4 DEF SInv

LEMMA NotedList ==
    ASSUME NEW t \in Trackers, NEW id \in Ids
    PROVE  LET noted == NoteChanged(t, id)
           IN  /\ noted \in Trackers /\ ~noted.quiet
               /\ noted.known = t.known /\ noted.order = t.order
               /\ noted.since = t.since \cup {id}
               /\ t.touched = Everything => noted.touched = Everything
               /\ t.touched # Everything =>
                     /\ noted.touched # Everything /\ t.touched \in Seq(Ids)
                     /\ noted.touched = IF id \in Range(t.touched) THEN t.touched
                                        ELSE Append(t.touched, id)
  <1> DEFINE list == IF t.touched = Everything \/ id \in Range(t.touched) THEN t.touched
                     ELSE Append(t.touched, id)
             ids == t.since \cup {id}
             noted == [t EXCEPT !.quiet = FALSE, !.since = ids, !.touched = list]
  <1>1. NoteChanged(t, id) = noted
    BY DEF NoteChanged, Trackers
  <1>2. t.touched \in Seq(Ids) \cup {Everything} /\ ids \in SUBSET Ids
    BY DEF Trackers
  <1>3. t.touched # Everything => Append(t.touched, id) \in Seq(Ids)
    BY <1>2, AppendProperties
  <1>4. /\ list \in Seq(Ids) \cup {Everything}
        /\ t.touched = Everything => list = Everything
        /\ t.touched # Everything =>
              /\ list # Everything /\ t.touched \in Seq(Ids)
              /\ list = IF id \in Range(t.touched) THEN t.touched ELSE Append(t.touched, id)
    BY <1>2, <1>3, SceneDiffAssumption
  <1> HIDE DEF list, ids
  <1>5. /\ noted \in Trackers /\ ~noted.quiet /\ noted.known = t.known /\ noted.order = t.order
        /\ noted.since = ids /\ noted.touched = list
    BY <1>2, <1>4 DEF Trackers
  <1> HIDE DEF noted
  <1>6. QED
    BY <1>1, <1>4, <1>5 DEF ids

LEMMA NoteAllList ==
    ASSUME NEW t \in Trackers
    PROVE  LET noted == NoteEverything(t)
           IN  /\ noted \in Trackers /\ ~noted.quiet /\ noted.touched = Everything
               /\ noted.known = t.known /\ noted.order = t.order
  BY DEF NoteEverything, Trackers

LEMMA UndeleteOrders ==
    ASSUME IInv, IInv', SInv, NEW id \in Ids, Undelete(id)
    PROVE  SInv'
  <1>1. Report(NoteEverything(tracker)) /\ stack' = stack /\ tracker \in Trackers
    BY DEF Undelete, IInv, Types
  <1>2. PICK nonce \in Nonces, restamps \in EngineRestamps :
            scene' = [scene EXCEPT ![id].isDeleted = FALSE,
                                   ![id].version = IF restamps THEN @ + 1 ELSE @ - 1,
                                   ![id].versionNonce = nonce]
    BY DEF Undelete
  <1>3. Types /\ Drawable
    BY DEF IInv
  <1> DEFINE old == scene[id]
             v == IF restamps THEN old.version + 1 ELSE old.version - 1
             e == [old EXCEPT !.isDeleted = FALSE, !.version = v, !.versionNonce = nonce]
  <1>4. old \in Element /\ old.updated = 0 /\ old.version > 1
    <2>1. undo # <<>> /\ id = Last(undo) /\ undo \in Seq(Ids)
      BY <1>3 DEF Undelete, Types
    <2>2. Len(undo) \in DOMAIN undo /\ id = undo[Len(undo)]
      BY <2>1, LenProperties, EmptySeq DEF Last
    <2>3. old # Absent /\ old.version > 1
      BY <1>3, <2>2 DEF Drawable
    <2>4. QED
      BY <1>3, <2>3 DEF Types, Scene, Entry, Timeless
  <1>5. v \in Nat /\ nonce \in Nat
    BY <1>4, AutosaveAssumption DEF Element
  <1>6. scene' = [scene EXCEPT ![id] = e]
    BY <1>2, <1>3 DEF Types, Scene
  <1> HIDE DEF v, old
  <1>7. e \in Element /\ e.updated = 0
    BY <1>4, <1>5 DEF Element
  <1> HIDE DEF e
  <1>8. scene'[id] # Absent /\ \A other \in Ids \ {id} : scene'[other] = scene[other]
    BY <1>3, <1>6, <1>7, OneChanges
  <1>9. Range(stack') \subseteq Here'
    BY <1>1, <1>8 DEF SInv, OnlyDrawn, Here
  <1>10. QED
    BY <1>1, <1>9, NoteAllList, NoteAllOrders

LEMMA RestackOrders ==
    ASSUME IInv, SInv, NEW id \in Ids, Restack(id)
    PROVE  SInv'
  <1>1. /\ LiveOf(scene, id) /\ scene' = scene
        /\ stack' = Append(Only[Ids \ {id}][stack], id)
        /\ Report(NoteEverything(tracker)) /\ tracker \in Trackers /\ stack \in Seq(Ids)
    BY DEF Restack, IInv, Types
  <1> DEFINE rest == Ids \ {id}
             others == Only[rest][stack]
  <1>2. others \in Seq(Ids) /\ Range(others) = Range(stack) \cap rest
    BY <1>1, OnlyFacts
  <1> HIDE DEF others
  <1>3. Range(Append(others, id)) = Range(others) \cup {id}
    BY <1>2, AppendRange
  <1>4. Range(stack') = Range(others) \cup {id}
    BY <1>1, <1>3 DEF others, rest
  <1>5. id \in Here /\ Here' = Here
    BY <1>1 DEF Here, LiveOf, IsLive
  <1>6. Range(stack') \subseteq Here'
    BY <1>2, <1>4, <1>5 DEF SInv, OnlyDrawn
  <1>7. QED
    BY <1>1, <1>6, NoteAllList, NoteAllOrders

LEMMA DrawBelowOrders ==
    ASSUME IInv, IInv', SInv, NEW id \in Ids, DrawBelow(id)
    PROVE  SInv'
  <1>1. PICK nonce \in Nonces : scene' = [scene EXCEPT ![id] = Drawn(id, nonce)]
    BY DEF DrawBelow
  <1>2. /\ stack' = <<id>> \o stack /\ stack \in Seq(Ids) /\ tracker \in Trackers /\ Types
        /\ Report(NoteEverything(NoteChanged(tracker, id)))
    BY DEF DrawBelow, IInv, Types
  <1> DEFINE e == Drawn(id, nonce)
             one == <<id>>
  <1>3. e \in Element /\ e.updated = 0
    BY DrawnType
  <1>4. scene' = [scene EXCEPT ![id] = e]
    BY <1>1
  <1> HIDE DEF e
  <1>5. scene'[id] # Absent /\ \A other \in Ids \ {id} : scene'[other] = scene[other]
    BY <1>2, <1>3, <1>4, OneChanges
  <1>6. one \in Seq(Ids) /\ Range(one) = {id}
    BY DEF Range
  <1> HIDE DEF one
  <1>7. Range(one \o stack) = {id} \cup Range(stack)
    BY <1>2, <1>6, RangeConcatenation
  <1>8. Range(stack') \subseteq Here'
    BY <1>2, <1>5, <1>7 DEF SInv, OnlyDrawn, Here, one
  <1> DEFINE t == NoteChanged(tracker, id)
  <1>9. t \in Trackers /\ t.known = tracker.known /\ t.order = tracker.order
    BY <1>2, NotedList
  <1>10. Report(NoteEverything(t))
    BY <1>2
  <1> HIDE DEF t
  <1>11. QED
    BY <1>8, <1>9, <1>10, NoteAllList, NoteAllOrders

LEMMA AppendToBoth ==
    ASSUME NEW l \in Seq(Ids), NEW m \in Seq(Ids), NEW id \in Ids
    PROVE  Append(l \o m, id) = l \o Append(m, id)
  <1> DEFINE one == <<id>>
  <1>1. one \in Seq(Ids) /\ l \o m \in Seq(Ids)
    BY ConcatProperties
  <1>2. Append(l \o m, id) = (l \o m) \o one /\ Append(m, id) = m \o one
    BY <1>1, AppendIsConcat
  <1> HIDE DEF one
  <1>3. QED
    BY <1>1, <1>2, ConcatAssociative

(* The order of fewer elements is that of the same lists. *)
LEMMA StackedLess ==
    ASSUME NEW list \in Seq(Ids), NEW order \in Seq(Ids), NEW noted \in Seq(Ids),
           NEW live \in SUBSET Ids, NEW less \in SUBSET live, OnTop(list, order, noted, live)
    PROVE  OnTop(list, order, noted, less)
  <1> DEFINE R == Range(order)
             new == live \ R
             a == Only[live][order]
             b == Only[new][noted]
             l == Only[live][list]
  <1>1. less \in SUBSET Ids /\ new \in SUBSET Ids /\ less \cap live = less
        /\ less \cap new = less \ R
    BY RangeOfSeq
  <1>2. a \in Seq(Ids) /\ b \in Seq(Ids) /\ l = a \o b
    <2>0. l = a \o b
      BY DEF OnTop
    <2> HIDE DEF new
    <2>1. QED
      BY <1>1, <2>0, OnlyFacts DEF new, R, OnTop
  <1>3. Only[less][l] = Only[less][list] /\ Only[less][a] = Only[less][order]
    <2>1. Only[less][l] = Only[less \cap live][list]
      BY <1>1, OnlyOfOnly
    <2>2. Only[less][a] = Only[less \cap live][order]
      BY <1>1, OnlyOfOnly
    <2>3. QED
      BY <1>1, <2>1, <2>2
  <1>4. Only[less][b] = Only[less \ R][noted]
    <2>1. Only[less][b] = Only[less \cap new][noted]
      <3> HIDE DEF new
      <3>1. QED
        BY <1>1, OnlyOfOnly
    <2>2. QED
      BY <1>1, <2>1
  <1> HIDE DEF a, b, l, new, R
  <1>5. Only[less][a \o b] = Only[less][a] \o Only[less][b]
    BY <1>1, <1>2, OnlyOfBoth
  <1>6. QED
    BY <1>2, <1>3, <1>4, <1>5 DEF R, OnTop

(* An element drawn on top of the stack is noted last. *)
LEMMA StackedMore ==
    ASSUME NEW list \in Seq(Ids), NEW order \in Seq(Ids), NEW noted \in Seq(Ids),
           NEW live \in SUBSET Ids, NEW id \in Ids,
           id \notin Range(order), id \notin Range(list), id \notin Range(noted),
           OnTop(list, order, noted, live)
    PROVE  OnTop(Append(list, id), order, Append(noted, id), live \cup {id})
  <1> DEFINE more == live \cup {id}
             R == Range(order)
             new == live \ R
             newer == more \ R
             a == Only[live][order]
             b == Only[new][noted]
  <1>1. /\ more \in SUBSET Ids /\ new \in SUBSET Ids /\ newer \in SUBSET Ids
        /\ id \in more /\ id \in newer
    OBVIOUS
  <1>2. /\ Range(list) \cap more = Range(list) \cap live
        /\ Range(order) \cap more = Range(order) \cap live
        /\ Range(noted) \cap newer = Range(noted) \cap new
    OBVIOUS
  <1>3. Only[live][list] = a \o b
    BY DEF OnTop
  <1> HIDE DEF more, new, newer, R
  <1>4. Only[more][list] = Only[live][list]
    BY <1>1, <1>2, OnlyDepends
  <1>5. Only[more][order] = a
    BY <1>1, <1>2, OnlyDepends
  <1>6. Only[newer][noted] = b
    BY <1>1, <1>2, OnlyDepends
  <1>7. a \in Seq(Ids) /\ b \in Seq(Ids)
    BY <1>1, OnlyFacts
  <1>8. Only[more][Append(list, id)] = Append(Only[more][list], id)
    BY <1>1, OnlyOfLonger
  <1>9. Only[newer][Append(noted, id)] = Append(Only[newer][noted], id)
    BY <1>1, OnlyOfLonger
  <1> HIDE DEF a, b
  <1>10. Append(a \o b, id) = a \o Append(b, id)
    BY <1>7, AppendToBoth
  <1>11. Only[more][Append(list, id)] = Only[more][order] \o Only[newer][Append(noted, id)]
    BY <1>3, <1>4, <1>5, <1>6, <1>8, <1>9, <1>10
  <1>12. QED
    BY <1>11 DEF more, newer, R, OnTop

(* The place of what is drawn, edited or erased: on top if it is drawn, and *)
(* noted after the others unless it is noted already.                       *)
LEMMA NoteOneStacks ==
    ASSUME NEW id \in Ids, NEW noted, tracker' = noted,
           stack \in Seq(Ids), tracker.order \in Seq(Ids), tracker.touched \in Seq(Ids),
           tracker.touched # Everything, noted.order = tracker.order,
           noted.touched = IF id \in Range(tracker.touched) THEN tracker.touched
                           ELSE Append(tracker.touched, id),
           Range(stack) \subseteq Here, Range(tracker.touched) \subseteq Here,
           scene[id] = Absent => id \notin Range(tracker.order),
           scene[id] # Absent /\ id \notin Range(tracker.touched) =>
               id \in Range(tracker.order),
           Stacked, \A other \in Ids \ {id} : scene'[other] = scene[other],
           \/ scene[id] = Absent /\ stack' = Append(stack, id) /\ LiveOf(scene', id)
           \/ LiveOf(scene, id) /\ stack' = stack
    PROVE  Stacked'
  <1> DEFINE live == LiveIds(scene)
             more == LiveIds(scene')
             R == Range(tracker.order)
             list == tracker.touched
             longer == noted.touched
             order == tracker.order
  <1>1. live \in SUBSET Ids /\ more \in SUBSET Ids /\ R \in SUBSET Ids
    BY RangeOfSeq DEF LiveIds
  <1>2. OnTop(stack, order, list, live)
    BY DEF Stacked
  <1>3. \A other \in Ids : other \in live <=> LiveOf(scene, other)
    BY DEF LiveIds, LiveOf
  <1>4. \A other \in Ids : other \in more <=> LiveOf(scene', other)
    BY DEF LiveIds, LiveOf
  <1>5. \A other \in Ids \ {id} : other \in more <=> other \in live
    BY <1>3, <1>4 DEF LiveOf
  <1>6. stack' \in Seq(Ids) /\ list \in Seq(Ids) /\ order \in Seq(Ids) /\ Append(stack, id) \in Seq(Ids)
    BY AppendProperties
  <1> HIDE DEF live, more
  <1>7. CASE scene[id] = Absent
    <2>1. id \notin Range(list) /\ id \notin Range(stack) /\ id \notin Range(order)
      BY <1>7 DEF Here
    <2>2. stack' = Append(stack, id) /\ longer = Append(list, id)
      BY <1>7, <2>1 DEF LiveOf, IsLive
    <2>3. more = live \cup {id}
      BY <1>1, <1>4, <1>5, <1>7 DEF LiveOf, IsLive
    <2> HIDE DEF list, order, longer
    <2>4. OnTop(Append(stack, id), order, Append(list, id), live \cup {id})
      BY <1>1, <1>2, <1>6, <2>1, StackedMore
    <2>5. OnTop(stack', order, longer, more)
      BY <2>2, <2>3, <2>4
    <2>6. QED
      BY <2>5 DEF order, longer, more, Stacked
  <1>8. CASE scene[id] # Absent
    <2>1. stack' = stack /\ more \subseteq live
      BY <1>1, <1>3, <1>5, <1>8
    <2>2. id \notin Range(list) => id \in R
      BY <1>8
    <2> HIDE DEF R, list, order
    <2>3. OnTop(stack, order, list, more)
      BY <1>1, <1>2, <1>6, <2>1, StackedLess
    <2> DEFINE new == more \ R
    <2>4. new \in SUBSET Ids /\ (id \notin Range(list) => id \notin new)
      BY <1>1, <2>2
    <2> HIDE DEF new
    <2>5. id \notin Range(list) => Only[new][Append(list, id)] = Only[new][list]
      BY <1>6, <2>4, OnlyOfLonger
    <2>6. longer = IF id \in Range(list) THEN list ELSE Append(list, id)
      BY DEF list
    <2> HIDE DEF longer
    <2>7. Only[new][longer] = Only[new][list]
      BY <2>5, <2>6
    <2>8. OnTop(stack', order, longer, more)
      BY <2>1, <2>3, <2>7 DEF new, R, order, OnTop
    <2>9. QED
      BY <2>8 DEF order, longer, more, Stacked
  <1>9. QED
    BY <1>7, <1>8

(* What is noted while a patch is in flight was not there to be looked at,  *)
(* or is noted again.                                                       *)
LEMMA NoteOneSent ==
    ASSUME NEW id \in Ids, NEW noted, tracker' = noted, UNCHANGED sending,
           tracker.touched \in Seq(Ids), noted.touched # Everything,
           noted.known = tracker.known, noted.order = tracker.order,
           noted.since = tracker.since \cup {id},
           noted.touched = IF id \in Range(tracker.touched) THEN tracker.touched
                           ELSE Append(tracker.touched, id),
           InFlight, SentInStep, tracker.touched # Everything,
           Range(tracker.touched) \subseteq Here,
           scene[id] = Absent => sending.elements[id] = Absent,
           \A other \in Ids \ {id} : scene'[other] = scene[other],
           scene[id] = Absent \/ LiveOf(scene, id)
    PROVE  SentInStep'
  <1> DEFINE list == tracker.touched
             R == Range(tracker.order)
  <1>1. /\ sending.order = Absent
        /\ \A other \in Range(list) \ tracker.since : InStep(After(other), scene[other])
        /\ \A other \in Ids : Gone(sending.elements, other) => ~LiveOf(scene, other)
        /\ NotesAreInOrder
    BY DEF SentInStep
  <1>2. Range(list) \subseteq Ids /\ list \in Seq(Ids)
    BY RangeOfSeq
  <1>3. \A other : After(other)' = After(other)
    BY DEF After
  <1>4. \A other \in Range(noted.touched) \ noted.since : InStep(After(other)', scene'[other])
    <2>1. Range(noted.touched) \subseteq Range(list) \cup {id}
      BY <1>2, AppendRange
    <2>2. \A other \in Range(noted.touched) \ noted.since :
              other \in Range(list) \ tracker.since /\ other \in Ids \ {id}
      BY <1>2, <2>1
    <2>3. QED
      BY <1>1, <1>3, <2>2
  <1>5. \A other \in Ids : Gone(sending.elements, other) => ~LiveOf(scene', other)
    <2>1. ~Gone(sending.elements, id)
      BY <1>1 DEF Gone, LiveOf, IsLive
    <2>2. ASSUME NEW other \in Ids, Gone(sending.elements, other)
          PROVE  ~LiveOf(scene', other)
      <3>1. other # id /\ ~LiveOf(scene, other)
        BY <1>1, <2>1, <2>2
      <3>2. QED
        BY <3>1 DEF LiveOf
    <2>3. QED
      BY <2>2
  <1>6. PICK old \in Seq(Ids), new \in Seq(Ids) : Looked(old, new)
    BY <1>1 DEF NotesAreInOrder
  <1>7. /\ list = old \o new
        /\ Range(old) \cap Range(new) = {} /\ Range(new) \subseteq tracker.since
        /\ sending.list = Only[Named(sending)][old]
    BY <1>6 DEF Looked
  <1>8. \A other \in Range(old) : LiveOf(scene, other) =>
            LiveOf(sending.elements, other) \/ other \in R
    BY <1>6 DEF Looked
  <1> HIDE DEF list, R
  <1>9. Range(list) = Range(old) \cup Range(new) /\ Range(old) \subseteq Ids
    <2>1. Range(old \o new) = Range(old) \cup Range(new)
      BY RangeConcatenation
    <2>2. Range(old) \subseteq Ids
      BY RangeOfSeq
    <2>3. QED
      BY <1>7, <2>1, <2>2
  <1>10. \A other \in Range(old) : LiveOf(scene', other) =>
             LiveOf(sending.elements, other) \/ other \in R
    <2>1. ASSUME NEW other \in Range(old), LiveOf(scene', other)
          PROVE  LiveOf(scene, other)
      <3>1. other \in Ids /\ other \in Here
        BY <1>9 DEF list
      <3>2. CASE other = id
        BY <3>1, <3>2 DEF Here
      <3>3. CASE other # id
        BY <2>1, <3>1, <3>3 DEF LiveOf
      <3>4. QED
        BY <3>2, <3>3
    <2>2. QED
      BY <1>8, <2>1
  <1>11. \E newer \in Seq(Ids) :
             /\ noted.touched = old \o newer
             /\ Range(old) \cap Range(newer) = {} /\ Range(newer) \subseteq noted.since
    <2>1. CASE id \in Range(list)
      <3>1. noted.touched = old \o new
        BY <1>7, <2>1 DEF list
      <3>2. QED
        BY <1>7, <3>1
    <2>2. CASE id \notin Range(list)
      <3> DEFINE newer == Append(new, id)
      <3>1. newer \in Seq(Ids) /\ Range(newer) = Range(new) \cup {id}
        BY AppendRange
      <3>2. Append(old \o new, id) = old \o newer
        BY AppendToBoth
      <3>3. noted.touched = Append(list, id)
        BY <2>2 DEF list
      <3>4. id \notin Range(old)
        BY <1>9, <2>2
      <3> HIDE DEF newer
      <3>5. noted.touched = old \o newer
        BY <1>7, <3>2, <3>3
      <3>6. QED
        BY <1>7, <3>1, <3>4, <3>5
    <2>3. QED
      BY <2>1, <2>2
  <1>12. PICK newer \in Seq(Ids) :
             /\ noted.touched = old \o newer
             /\ Range(old) \cap Range(newer) = {} /\ Range(newer) \subseteq noted.since
    BY <1>11
  <1>13. Looked(old, newer)'
    BY <1>7, <1>10, <1>12 DEF Looked, R
  <1>14. NotesAreInOrder'
    BY <1>13 DEF NotesAreInOrder
  <1>15. QED
    BY <1>1, <1>4, <1>5, <1>14 DEF SentInStep

LEMMA NoteOneOrders ==
    ASSUME IInv, LInv, SInv, NEW id \in Ids, Report(NoteChanged(tracker, id)), UNCHANGED undone,
           scene'[id] # Absent, \A other \in Ids \ {id} : scene'[other] = scene[other],
           \/ scene[id] = Absent /\ stack' = Append(stack, id) /\ LiveOf(scene', id)
           \/ LiveOf(scene, id) /\ stack' = stack
    PROVE  SInv'
  <1> DEFINE noted == NoteChanged(tracker, id)
  <1>1. tracker \in Trackers /\ stack \in Seq(Ids) /\ tracker.order \in Seq(Ids)
    BY DEF IInv, Types, Trackers
  <1>2. /\ Rested' /\ tracker' = noted /\ UNCHANGED sending /\ InFlight' = InFlight
    BY ReportRested
  <1>3. /\ noted \in Trackers /\ ~noted.quiet
        /\ noted.known = tracker.known /\ noted.order = tracker.order
        /\ noted.since = tracker.since \cup {id}
        /\ tracker.touched = Everything => noted.touched = Everything
        /\ tracker.touched # Everything =>
              /\ noted.touched # Everything /\ tracker.touched \in Seq(Ids)
              /\ noted.touched = IF id \in Range(tracker.touched) THEN tracker.touched
                                 ELSE Append(tracker.touched, id)
    BY <1>1, NotedList
  <1> HIDE DEF noted
  <1>4. Here' = Here \cup {id} /\ Range(stack') \subseteq Range(stack) \cup {id}
    <2>1. Range(Append(stack, id)) = Range(stack) \cup {id}
      BY <1>1, AppendRange
    <2>2. Here' = Here \cup {id}
      BY DEF Here
    <2>3. QED
      BY <2>1, <2>2
  <1>5. \A other : After(other)' = After(other)
    BY <1>2, <1>3 DEF After
  <1>6. tracker.touched # Everything =>
            Range(noted.touched) \subseteq Range(tracker.touched) \cup {id}
    BY <1>3, AppendRange
  <1>7. OnlyDrawn' /\ OrderIsLive'
    <2>1. OnlyDrawn'
      BY <1>2, <1>3, <1>4, <1>6 DEF SInv, OnlyDrawn
    <2>2. OrderIsLive'
      BY <1>2, <1>3, <1>5 DEF SInv, OrderIsLive
    <2>3. QED
      BY <2>1, <2>2
  <1>8. CASE tracker.touched = Everything
    <2>1. tracker'.touched = Everything /\ ~tracker'.quiet
      BY <1>2, <1>3, <1>8
    <2>2. OthersInStep' /\ Stacked' /\ SentInStep'
      BY <2>1 DEF OthersInStep, Stacked, SentInStep
    <2>3. QED
      BY <1>2, <1>7, <2>2 DEF SInv
  <1>9. CASE tracker.touched # Everything /\ StampedAnew
    <2>1. /\ OthersInStep /\ Stacked /\ SentInStep /\ tracker.touched \in Seq(Ids)
          /\ Range(stack) \subseteq Here /\ Range(tracker.touched) \subseteq Here
      BY <1>3, <1>9 DEF SInv, OnlyDrawn
    <2>2. /\ \A other \in Ids : Counts(tracker.known[other], scene[other])
          /\ InFlight => \A other \in Ids : Counts(sending.elements[other], scene[other])
      BY <1>9 DEF LInv, CountedUp, StampedAnew
    <2>3. \A other \in Ids : other \in Range(tracker.order) <=> IsLive(tracker.known[other])
      BY DEF SInv, OrderIsLive, LiveIds
    <2>4. scene[id] = Absent => id \notin Range(tracker.order)
      BY <2>2, <2>3 DEF Counts, IsLive
    <2>5. scene[id] = Absent /\ InFlight => sending.elements[id] = Absent
      BY <2>2 DEF Counts
    <2>6. scene[id] # Absent /\ id \notin Range(tracker.touched) => id \in Range(tracker.order)
      <3>1. scene[id] # Absent => IsLive(scene[id])
        BY DEF LiveOf
      <3>2. QED
        BY <1>9, <2>1, <2>3, <3>1 DEF OthersInStep, InStep
    <2>7. OthersInStep'
      <3>1. \A other \in Ids \ Range(noted.touched) :
                other \in Ids \ Range(tracker.touched) /\ scene'[other] = scene[other]
        <4>1. id \in Range(noted.touched) /\ Range(tracker.touched) \subseteq Range(noted.touched)
          BY <1>3, <1>9, AppendRange
        <4>2. QED
          BY <4>1
      <3>2. QED
        BY <1>2, <1>3, <1>9, <2>1, <3>1 DEF OthersInStep
    <2>8. Stacked'
      BY <1>1, <1>2, <1>3, <1>9, <2>1, <2>4, <2>6, NoteOneStacks
    <2>9. SentInStep'
      <3>1. CASE InFlight
        BY <1>2, <1>3, <1>9, <2>1, <2>5, <3>1, NoteOneSent
      <3>2. CASE ~InFlight
        BY <1>2, <3>2 DEF SentInStep
      <3>3. QED
        BY <3>1, <3>2
    <2>10. QED
      BY <1>2, <1>7, <2>7, <2>8, <2>9 DEF SInv
  <1>10. CASE ~StampedAnew
    BY <1>2, <1>7, <1>10 DEF SInv, StampedAnew
  <1>11. QED
    BY <1>8, <1>9, <1>10

LEMMA DrawOrders ==
    ASSUME IInv, LInv, SInv, NEW id \in Ids, Draw(id)
    PROVE  SInv'
  <1>1. PICK nonce \in Nonces : scene' = [scene EXCEPT ![id] = Drawn(id, nonce)]
    BY DEF Draw
  <1>2. /\ scene[id] = Absent /\ stack' = Append(stack, id) /\ UNCHANGED undone /\ Types
        /\ Report(NoteChanged(tracker, id))
    BY DEF Draw, IInv
  <1> DEFINE e == Drawn(id, nonce)
  <1>3. e \in Element /\ e.updated = 0 /\ ~e.isDeleted
    BY DrawnType DEF Drawn
  <1>4. scene' = [scene EXCEPT ![id] = e]
    BY <1>1
  <1> HIDE DEF e
  <1>5. scene'[id] = e /\ scene'[id] # Absent /\ \A other \in Ids \ {id} : scene'[other] = scene[other]
    BY <1>2, <1>3, <1>4, OneChanges
  <1>6. LiveOf(scene', id)
    BY <1>3, <1>5 DEF LiveOf, IsLive
  <1>7. QED
    BY <1>2, <1>5, <1>6, NoteOneOrders

LEMMA EditOrders ==
    ASSUME IInv, IInv', LInv, SInv, NEW id \in Ids, Edit(id)
    PROVE  SInv'
  <1>1. /\ LiveOf(scene, id) /\ stack' = stack /\ UNCHANGED undone /\ Types
        /\ Report(NoteChanged(tracker, id))
    BY DEF Edit, IInv
  <1>2. PICK nonce \in Nonces : scene' = [scene EXCEPT ![id].version = @ + 1,
                                                       ![id].versionNonce = nonce]
    BY DEF Edit
  <1> DEFINE old == scene[id]
             v == old.version + 1
             e == [old EXCEPT !.version = v, !.versionNonce = nonce]
  <1>3. old \in Element /\ old.updated = 0
    BY <1>1 DEF Types, Scene, Entry, Timeless, LiveOf, IsLive
  <1>4. v \in Nat /\ nonce \in Nat
    BY <1>3, AutosaveAssumption DEF Element
  <1>5. scene' = [scene EXCEPT ![id] = e]
    BY <1>1, <1>2 DEF Types, Scene
  <1> HIDE DEF v, old
  <1>6. e \in Element /\ e.updated = 0
    BY <1>3, <1>4 DEF Element
  <1> HIDE DEF e
  <1>7. scene'[id] # Absent /\ \A other \in Ids \ {id} : scene'[other] = scene[other]
    BY <1>1, <1>5, <1>6, OneChanges
  <1>8. QED
    BY <1>1, <1>7, NoteOneOrders

LEMMA EraseOrders ==
    ASSUME IInv, IInv', LInv, SInv, NEW id \in Ids, Erase(id)
    PROVE  SInv'
  <1>1. /\ LiveOf(scene, id) /\ stack' = stack /\ UNCHANGED undone /\ Types
        /\ Report(NoteChanged(tracker, id))
        /\ scene' = [scene EXCEPT ![id].version = @ + 1, ![id].isDeleted = TRUE]
    BY DEF Erase, IInv
  <1> DEFINE old == scene[id]
             v == old.version + 1
             e == [old EXCEPT !.version = v, !.isDeleted = TRUE]
  <1>2. old \in Element /\ old.updated = 0
    BY <1>1 DEF Types, Scene, Entry, Timeless, LiveOf, IsLive
  <1>3. v \in Nat
    BY <1>2 DEF Element
  <1>4. scene' = [scene EXCEPT ![id] = e]
    BY <1>1 DEF Types, Scene
  <1> HIDE DEF v, old
  <1>5. e \in Element /\ e.updated = 0
    BY <1>2, <1>3 DEF Element
  <1> HIDE DEF e
  <1>6. scene'[id] # Absent /\ \A other \in Ids \ {id} : scene'[other] = scene[other]
    BY <1>1, <1>4, <1>5, OneChanges
  <1>7. QED
    BY <1>1, <1>6, NoteOneOrders

-----------------------------------------------------------------------------
(* A diff, and the order it comes with. *)

LEMMA ShownFacts ==
    ASSUME IInv
    PROVE  Shown \in Seq(Ids) /\ Range(Shown) = LiveIds(scene)
  <1> DEFINE live == LiveIds(scene)
  <1>1. stack \in Seq(Ids) /\ live \in SUBSET Ids
    BY DEF IInv, Types, LiveIds
  <1>2. live \subseteq Range(stack)
    BY DEF IInv, Drawable, LiveIds, IsLive
  <1> HIDE DEF live
  <1>3. Only[live][stack] \in Seq(Ids) /\ Range(Only[live][stack]) = Range(stack) \cap live
    BY <1>1, OnlyFacts
  <1>4. QED
    BY <1>2, <1>3 DEF Shown, live

LEMMA PatchOrders ==
    ASSUME IInv, LInv, NEW patch \in Patches
    PROVE  /\ patch \in Diffs /\ Range(patch.list) = Named(patch)
           /\ tracker.touched # Everything =>
                 patch.order = Absent /\ patch.list = Only[Named(patch)][tracker.touched]
           /\ tracker.touched = Everything =>
                 (IF patch.order # Absent THEN patch.order
                  ELSE PredictOrder(tracker.order, patch.elements, patch.list)) = Shown
           /\ \A id \in Ids :
                 /\ patch.elements[id] # Absent => NotedId(id)
                 /\ NotedId(id) /\ patch.elements[id] = Absent =>
                       InStep(tracker.known[id], scene[id])
                 /\ NotedId(id) /\ patch.elements[id] # Absent =>
                       /\ LiveOf(patch.elements, id) <=> LiveOf(scene, id)
                       /\ StampedAnew => InStep(patch.elements[id], scene[id])
  <1>1. PICK nonces \in [Ids -> Nonces] : patch = Diff(tracker, scene, Shown, nonces)
    BY DEF Patches
  <1>2. nonces \in [Ids -> Nat] /\ \A id \in Ids : nonces[id] \in Nat
    BY AutosaveAssumption
  <1>3. /\ tracker \in Trackers /\ scene \in Scene /\ Timeless(tracker.known)
        /\ Timeless(scene) /\ tracker.known \in Scene
    BY DEF IInv, Types, Trackers
  <1> DEFINE shown == Shown
  <1>4. shown \in Seq(Ids) /\ Range(shown) = LiveIds(scene)
    BY ShownFacts
  <1>5. patch = Diff(tracker, scene, shown, nonces)
    BY <1>1
  <1> HIDE DEF shown
  <1>6. /\ patch \in Diffs /\ Range(patch.list) = Named(patch)
        /\ \A id \in Ids :
              /\ \/ tracker.touched = Everything /\ (id \in Range(shown) \/ ~LiveOf(scene, id))
                 \/ tracker.touched # Everything /\ id \in Range(tracker.touched)
                 => patch.elements[id]
                        = Change([known |-> tracker.known], scene, id, nonces[id])
              /\ tracker.touched # Everything /\ id \notin Range(tracker.touched) =>
                    patch.elements[id] = Absent
    BY <1>2, <1>3, <1>4, <1>5, DiffFacts
  <1>7. /\ tracker.touched # Everything =>
              patch.order = Absent /\ patch.list = Only[Named(patch)][tracker.touched]
        /\ tracker.touched = Everything =>
              (IF patch.order # Absent THEN patch.order
               ELSE PredictOrder(tracker.order, patch.elements, patch.list)) = shown
    BY <1>2, <1>3, <1>4, <1>5, DiffOrders
  <1>8. \A id \in Ids :
           /\ patch.elements[id] # Absent => NotedId(id)
           /\ NotedId(id) => patch.elements[id]
                                 = Change([known |-> tracker.known], scene, id, nonces[id])
    BY <1>4, <1>6 DEF NotedId, LiveIds, LiveOf
  <1>9. \A id \in Ids : StampedAnew => Counts(tracker.known[id], scene[id])
    BY DEF LInv, CountedUp, StampedAnew
  <1>10. ASSUME NEW id \in Ids, NotedId(id)
         PROVE  /\ patch.elements[id] = Absent => InStep(tracker.known[id], scene[id])
                /\ patch.elements[id] # Absent =>
                      /\ LiveOf(patch.elements, id) <=> LiveOf(scene, id)
                      /\ StampedAnew => InStep(patch.elements[id], scene[id])
    <2> DEFINE before == tracker.known
               nonce == nonces[id]
               this == patch.elements[id]
    <2>1. before \in Scene /\ nonce \in Nat /\ this = Change([known |-> before], scene, id, nonce)
      BY <1>2, <1>3, <1>8, <1>10
    <2>2. StampedAnew => Counts(before[id], scene[id])
      BY <1>9
    <2> HIDE DEF before, nonce, this
    <2>3. /\ this = Absent <=> InStep(before[id], scene[id])
          /\ this # Absent => (IsLive(this) <=> LiveOf(scene, id))
          /\ this # Absent /\ Counts(before[id], scene[id]) => InStep(this, scene[id])
      BY <1>3, <2>1, ChangeInStep
    <2>4. QED
      BY <2>2, <2>3 DEF before, this, LiveOf
  <1>11. QED
    BY <1>6, <1>7, <1>8, <1>10 DEF shown

(* Notes that are not new to the order acknowledged add nothing to it. *)
LEMMA NothingOnTop ==
    ASSUME NEW list \in Seq(Ids), NEW order \in Seq(Ids), NEW noted \in Seq(Ids),
           NEW ids \in SUBSET Ids, Range(noted) \cap ids \subseteq Range(order)
    PROVE  OnTop(list, order, noted, ids) <=> Only[ids][list] = Only[ids][order]
  <1> DEFINE new == ids \ Range(order)
             a == Only[ids][order]
  <1>1. new \in SUBSET Ids /\ Range(noted) \cap new = {}
    OBVIOUS
  <1> HIDE DEF new
  <1>2. Only[new][noted] = <<>>
    BY <1>1, OnlyOfNone
  <1>3. a \in Seq(Ids)
    BY OnlyFacts
  <1> HIDE DEF a
  <1>4. a \o <<>> = a
    BY <1>3, ConcatEmptySeq
  <1>5. QED
    BY <1>2, <1>4 DEF a, new, OnTop

(* Nothing is what the other side makes of nothing. *)
LEMMA PredictNothing ==
    ASSUME NEW order \in Seq(Ids), NEW elements, \A id \in Ids : elements[id] = Absent
    PROVE  PredictOrder(order, elements, <<>>) = order
  <1> DEFINE stay == {id \in Ids : elements[id] = Absent \/ ~elements[id].isDeleted}
             new == LiveIds(elements) \ Range(order)
  <1>1. stay \in SUBSET Ids /\ new \in SUBSET Ids /\ Range(order) \subseteq stay
    BY RangeOfSeq DEF LiveIds
  <1>2. PredictOrder(order, elements, <<>>) = Only[stay][order] \o Only[new][<<>>]
    BY DEF PredictOrder
  <1> HIDE DEF stay, new
  <1>3. Only[stay][order] = order
    BY <1>1, OnlyOfAll
  <1>4. <<>> \in Seq(Ids) /\ Range(<<>>) \cap new = {}
    BY EmptyRange
  <1>5. Only[new][<<>>] = <<>>
    BY <1>1, <1>4, OnlyOfNone
  <1>6. QED
    BY <1>2, <1>3, <1>5, ConcatEmptySeq

LEMMA EmptyRunOrders ==
    ASSUME IInv, LInv, SInv, ~InFlight, NEW patch \in Patches, IsEmpty(patch),
           tracker' = Diffed(tracker, patch), UNCHANGED <<scene, stack, undone, sending>>
    PROVE  SInv'
  <1>1. /\ patch \in Diffs /\ Range(patch.list) = Named(patch)
        /\ tracker.touched = Everything =>
              (IF patch.order # Absent THEN patch.order
               ELSE PredictOrder(tracker.order, patch.elements, patch.list)) = Shown
        /\ \A id \in Ids : NotedId(id) /\ patch.elements[id] = Absent =>
              InStep(tracker.known[id], scene[id])
    BY PatchOrders
  <1>2. patch.list = <<>> /\ patch.order = Absent
    BY DEF IsEmpty
  <1>3. \A id \in Ids : patch.elements[id] = Absent
    BY <1>1, <1>2, EmptyRange DEF Named
  <1>4. tracker \in Trackers /\ stack \in Seq(Ids) /\ tracker.order \in Seq(Ids)
    BY DEF IInv, Types, Trackers
  <1>5. /\ tracker' \in Trackers /\ tracker'.known = tracker.known
        /\ tracker'.touched # Everything /\ Range(tracker'.touched) = {}
    BY <1>4, DiffedFacts
  <1>6. tracker'.touched = <<>> /\ tracker'.order = tracker.order
    <2>1. tracker'.touched \in Seq(Ids)
      BY <1>5 DEF Trackers
    <2>2. tracker'.touched = <<>>
      BY <1>5, <2>1, EmptyIfRange
    <2>3. QED
      BY <1>4, <2>2, DiffedOrder
  <1>7. ~InFlight' /\ Rested' /\ Here' = Here
    BY <1>6 DEF InFlight, Rested, Here
  <1>8. OnlyDrawn' /\ OrderIsLive'
    BY <1>5, <1>6, <1>7 DEF SInv, OnlyDrawn, OrderIsLive
  <1>9. ASSUME StampedAnew
        PROVE  OthersInStep' /\ Stacked' /\ SentInStep'
    <2>1. \A id \in Ids : InStep(tracker.known[id], scene[id])
      BY <1>1, <1>3, <1>9 DEF SInv, OthersInStep, NotedId
    <2>2. OthersInStep' /\ SentInStep'
      BY <1>5, <1>7, <2>1 DEF OthersInStep, SentInStep
    <2> DEFINE live == LiveIds(scene)
               order == tracker.order
               noted == tracker.touched
    <2>3. live \in SUBSET Ids /\ Range(order) = live
      BY <2>1 DEF SInv, OrderIsLive, LiveIds, InStep
    <2>4. Shown = Only[live][stack]
      BY DEF Shown
    <2> HIDE DEF live
    <2>5. Only[live][stack] = Only[live][order]
      <3>1. CASE noted # Everything
        <4>1. noted \in Seq(Ids) /\ OnTop(stack, order, noted, live)
          BY <1>4, <1>9, <3>1 DEF Trackers, SInv, Stacked, live
        <4> HIDE DEF noted, order
        <4>2. QED
          BY <1>4, <2>3, <4>1, NothingOnTop DEF order
      <3>2. CASE noted = Everything
        <4>1. PredictOrder(order, patch.elements, <<>>) = order
          BY <1>3, <1>4, PredictNothing
        <4>2. Shown = order
          BY <1>1, <1>2, <3>2, <4>1
        <4> HIDE DEF order
        <4>3. Only[live][order] = order
          BY <1>4, <2>3, OnlyOfAll DEF order
        <4>4. QED
          BY <2>4, <4>2, <4>3
      <3>3. QED
        BY <3>1, <3>2
    <2> HIDE DEF order
    <2>6. OnTop(stack, order, <<>>, live)
      <3>1. <<>> \in Seq(Ids) /\ Range(<<>>) \cap live \subseteq Range(order) /\ order \in Seq(Ids)
        BY <1>4, EmptyRange DEF order
      <3>2. QED
        BY <1>4, <2>3, <2>5, <3>1, NothingOnTop
    <2>7. Stacked'
      BY <1>6, <2>6 DEF Stacked, live, order
    <2>8. QED
      BY <2>2, <2>7
  <1>10. QED
    BY <1>7, <1>8, <1>9 DEF SInv, StampedAnew

LEMMA PatchRunOrders ==
    ASSUME IInv, LInv, SInv, ~InFlight, NEW patch \in Patches, ~IsEmpty(patch),
           tracker' = Diffed(tracker, patch), sending' = patch, InFlight',
           UNCHANGED <<scene, stack, undone>>
    PROVE  SInv'
  <1>1. /\ patch \in Diffs /\ Range(patch.list) = Named(patch)
        /\ tracker.touched # Everything =>
              patch.order = Absent /\ patch.list = Only[Named(patch)][tracker.touched]
        /\ tracker.touched = Everything =>
              (IF patch.order # Absent THEN patch.order
               ELSE PredictOrder(tracker.order, patch.elements, patch.list)) = Shown
    BY PatchOrders
  <1>2. \A id \in Ids :
           /\ NotedId(id) /\ patch.elements[id] = Absent =>
                 InStep(tracker.known[id], scene[id])
           /\ NotedId(id) /\ patch.elements[id] # Absent =>
                 /\ LiveOf(patch.elements, id) <=> LiveOf(scene, id)
                 /\ StampedAnew => InStep(patch.elements[id], scene[id])
    BY PatchOrders
  <1>3. tracker \in Trackers
    BY DEF IInv, Types
  <1>4. /\ tracker'.known = tracker.known /\ tracker'.since = {}
        /\ tracker'.touched = tracker.touched /\ tracker'.order = tracker.order
    BY <1>3, DiffedFacts, DiffedOrder
  <1>5. Rested' /\ Here' = Here /\ Shown' = Shown
    BY DEF Rested, Here, Shown
  <1>6. \A id \in Ids : After(id)' = IF patch.elements[id] = Absent THEN tracker.known[id]
                                     ELSE patch.elements[id]
    BY <1>4 DEF After
  <1>7. \A id \in Ids : NotedId(id) => (IsLive(After(id)') <=> LiveOf(scene, id))
    BY <1>2, <1>6 DEF InStep, LiveOf
  <1>8. \A id \in Ids : NotedId(id) /\ StampedAnew => InStep(After(id)', scene[id])
    BY <1>2, <1>6
  <1>9. OnlyDrawn'
    BY <1>4, <1>5 DEF SInv, OnlyDrawn
  <1>10. OrderIsLive'
    <2>1. Range(tracker.order) = LiveIds(tracker.known)
      BY DEF SInv, OrderIsLive
    <2>2. ASSUME patch.order # Absent
          PROVE  Range(patch.order) = {id \in Ids : IsLive(After(id)')}
      <3>1. patch.order = Shown /\ \A id \in Ids : NotedId(id)
        BY <1>1, <2>2 DEF NotedId
      <3>2. Range(Shown) = LiveIds(scene)
        BY ShownFacts
      <3>3. LiveIds(scene) = {id \in Ids : IsLive(After(id)')}
        BY <1>7, <3>1 DEF LiveIds, LiveOf
      <3>4. QED
        BY <3>1, <3>2, <3>3
    <2>3. QED
      BY <1>1, <1>4, <2>1, <2>2 DEF OrderIsLive
  <1>11. ASSUME StampedAnew
         PROVE  OthersInStep' /\ Stacked' /\ SentInStep'
    <2>1. OthersInStep' /\ Stacked'
      BY <1>4, <1>11 DEF SInv, OthersInStep, Stacked
    <2>2. ASSUME tracker.touched # Everything
          PROVE  /\ patch.order = Absent
                 /\ \A id \in Range(tracker.touched) : InStep(After(id)', scene[id])
                 /\ \A id \in Ids : Gone(patch.elements, id) => ~LiveOf(scene, id)
                 /\ NotesAreInOrder'
      <3>1. tracker.touched \in Seq(Ids) /\ <<>> \in Seq(Ids)
        BY <1>3, <2>2, EmptyRange DEF Trackers
      <3>2. PICK old \in Seq(Ids), new \in Seq(Ids) : old = tracker.touched /\ new = <<>>
        BY <3>1
      <3>3. old \in Seq(Ids) /\ new \in Seq(Ids) /\ Range(old) \subseteq Ids /\ Range(new) = {}
        BY <3>2, EmptyRange, RangeOfSeq
      <3>4. \A id \in Range(old) : NotedId(id) /\ id \in Ids
        BY <3>3, <3>2 DEF NotedId
      <3>5. patch.order = Absent /\ patch.list = Only[Named(patch)][old]
        BY <1>1, <2>2, <3>2
      <3>6. old \o new = old
        BY <3>2, ConcatEmptySeq
      <3>7. \A id \in Range(old) : LiveOf(scene, id) =>
                LiveOf(patch.elements, id) \/ id \in Range(tracker.order)
        BY <1>2, <3>4 DEF SInv, OrderIsLive, LiveIds, LiveOf, InStep
      <3>8. \A id \in Ids : Gone(patch.elements, id) => ~LiveOf(scene, id)
        <4>1. \A id \in Ids : patch.elements[id] # Absent => NotedId(id)
          BY PatchOrders
        <4>2. QED
          BY <1>2, <4>1 DEF Gone, LiveOf, IsLive
      <3>9. \A id \in Range(old) : InStep(After(id)', scene[id])
        BY <1>8, <1>11, <3>4
      <3>10. Looked(old, new)'
        BY <1>4, <3>2, <3>3, <3>5, <3>6, <3>7 DEF Looked
      <3>11. NotesAreInOrder'
        BY <3>10 DEF NotesAreInOrder
      <3>12. QED
        BY <3>2, <3>5, <3>8, <3>9, <3>11
    <2>3. ASSUME tracker.touched = Everything
          PROVE  Ahead' = Shown /\ \A id \in Ids : InStep(After(id)', scene[id])
      <3>1. Ahead' = Shown
        BY <1>1, <1>4, <2>3 DEF Ahead
      <3>2. QED
        BY <1>8, <1>11, <2>3, <3>1 DEF NotedId
    <2>4. SentInStep'
      BY <1>4, <1>5, <2>2, <2>3 DEF SentInStep
    <2>5. QED
      BY <2>1, <2>4
  <1>12. QED
    BY <1>5, <1>9, <1>10, <1>11 DEF SInv, StampedAnew

LEMMA RunOrders ==
    ASSUME IInv, LInv, SInv, ~InFlight, Run, UNCHANGED <<scene, stack, undone>>
    PROVE  SInv'
  <1>1. PICK patch \in Patches :
            /\ tracker' = Diffed(tracker, patch)
            /\ IF IsEmpty(patch)
               THEN status' = "idle" /\ UNCHANGED <<sending, parts>>
               ELSE /\ status' = "saving" /\ sending' = patch
                    /\ parts' = Split([patch EXCEPT !.elements = Strip(held, @)])
    BY DEF Run
  <1>2. CASE IsEmpty(patch)
    BY <1>1, <1>2, EmptyRunOrders
  <1>3. CASE ~IsEmpty(patch)
    <2>1. patch \in Diffs
      BY PatchOrders
    <2>2. InFlight'
      BY <1>1, <1>3, <2>1, SceneDiffAssumption DEF InFlight
    <2>3. QED
      BY <1>1, <1>3, <2>2, PatchRunOrders
  <1>4. QED
    BY <1>2, <1>3

LEMMA SaverOrders ==
    ASSUME IInv, LInv, SInv, TimerFires \/ Flush \/ ResumeFlush \/ Dispose
    PROVE  SInv'
  <1>1. UNCHANGED <<scene, stack, undone>>
    BY DEF TimerFires, Flush, ResumeFlush, Dispose
  <1>2. CASE ~InFlight /\ Run
    BY <1>1, <1>2, RunOrders
  <1>3. CASE UNCHANGED <<tracker, sending>> /\ (InFlight \/ disposed')
    <2>1. Rested'
      BY <1>3 DEF Rested, InFlight
    <2>2. QED
      BY <1>1, <1>3, <2>1, QuietOrders
  <1>4. QED
    BY <1>2, <1>3 DEF TimerFires, Flush, ResumeFlush, FlushResumes, Dispose

-----------------------------------------------------------------------------
(* What the answers leave of the notes. *)

(* What the patch in flight looked at is in the order predicted.            *)
BringsWhatIsShown(order, old, elements, named, live) ==
    /\ order \in Seq(Ids) /\ old \in Seq(Ids) /\ elements \in Scene
    /\ named \in SUBSET Ids /\ live \in SUBSET Ids
    /\ \A id \in Ids : id \in named <=> elements[id] # Absent
    /\ \A id \in live : ~Gone(elements, id)
    /\ \A id \in Range(old) \cap live : LiveOf(elements, id) \/ id \in Range(order)

LEMMA LookedOnTop ==
    ASSUME NEW order, NEW old, NEW elements, NEW named, NEW live,
           BringsWhatIsShown(order, old, elements, named, live)
    PROVE  OnTop(PredictOrder(order, elements, Only[named][old]), order, old, live)
  <1>1. /\ order \in Seq(Ids) /\ old \in Seq(Ids) /\ elements \in Scene
        /\ named \in SUBSET Ids /\ live \in SUBSET Ids
    BY DEF BringsWhatIsShown
  <1> DEFINE R == Range(order)
             stay == {id \in Ids : elements[id] = Absent \/ ~elements[id].isDeleted}
             fresh == LiveIds(elements) \ R
             rest == live \ R
             sent == Only[named][old]
             kept == Only[stay][order]
             added == Only[fresh][sent]
  <1>2. /\ stay \in SUBSET Ids /\ fresh \in SUBSET Ids /\ rest \in SUBSET Ids
        /\ R \subseteq Ids /\ Range(old) \subseteq Ids
    BY <1>1, RangeOfSeq DEF LiveIds
  <1>3. \A id \in R : id \in live /\ id \in stay <=> id \in live
    BY <1>1 DEF Gone, BringsWhatIsShown
  <1>4. \A id \in Ids : id \in named /\ id \in fresh <=> LiveOf(elements, id) /\ id \notin R
    BY <1>1 DEF LiveIds, LiveOf, IsLive, BringsWhatIsShown
  <1>5. \A id \in Range(old) : id \in live /\ LiveOf(elements, id) /\ id \notin R <=> id \in rest
    BY DEF BringsWhatIsShown
  <1>6. PredictOrder(order, elements, sent) = kept \o added
    BY <1>1 DEF PredictOrder
  <1> HIDE DEF stay, fresh, rest
  <1>7. sent \in Seq(Ids) /\ kept \in Seq(Ids)
    BY <1>1, <1>2, OnlyFacts
  <1> HIDE DEF sent
  <1>8. added \in Seq(Ids)
    BY <1>1, <1>2, <1>7, OnlyFacts
  <1>9. Only[live][kept] = Only[live][order]
    BY <1>1, <1>2, <1>3, OnlyOfTwo
  <1>10. Only[live][added] = Only[rest][old]
    <2> DEFINE both == live \cap fresh
    <2>1. both \in SUBSET Ids
      BY <1>1
    <2>2. \A id \in Range(sent) : id \in live /\ id \in fresh <=> id \in both
      BY <1>1
    <2>3. \A id \in Range(old) : id \in both /\ id \in named <=> id \in rest
      BY <1>1, <1>2, <1>4, <1>5
    <2> HIDE DEF both
    <2>4. Only[live][added] = Only[both][sent]
      <3>1. sent \in Seq(Ids) /\ live \in SUBSET Ids /\ fresh \in SUBSET Ids
        BY <1>1, <1>2, <1>7
      <3>2. QED
        BY <1>1, <2>1, <2>2, <3>1, OnlyOfTwo
    <2>5. Only[both][sent] = Only[rest][old]
      BY <1>1, <1>2, <2>1, <2>3, OnlyOfTwo DEF sent
    <2>6. QED
      BY <1>1, <2>4, <2>5
  <1> HIDE DEF kept, added
  <1>11. Only[live][kept \o added] = Only[live][kept] \o Only[live][added]
    BY <1>1, <1>7, <1>8, OnlyOfBoth
  <1>12. QED
    BY <1>6, <1>9, <1>10, <1>11 DEF sent, rest, R, OnTop

(* ... and what was noted since is left to go on top of it. *)
LeavesWhatIsNew(old, new, R, R2, live, since) ==
    /\ old \in Seq(Ids) /\ new \in Seq(Ids) /\ R \in SUBSET Ids /\ R2 \in SUBSET Ids
    /\ live \in SUBSET Ids /\ since \in SUBSET Ids
    /\ Range(new) \subseteq since
    /\ \A id \in Range(old) : id \in live => id \in R2
    /\ \A id \in Range(new) : id \in R2 <=> id \in R

LeavesOnlyNew(old, new, R, R2, live, since) ==
    Only[live \ R2][Only[since][old \o new]] = Only[live \ R][new]

LEMMA LeftOnTop ==
    ASSUME NEW old, NEW new, NEW R, NEW R2, NEW live, NEW since,
           LeavesWhatIsNew(old, new, R, R2, live, since)
    PROVE  LeavesOnlyNew(old, new, R, R2, live, since)
  <1>1. /\ old \in Seq(Ids) /\ new \in Seq(Ids) /\ R \in SUBSET Ids /\ R2 \in SUBSET Ids
        /\ live \in SUBSET Ids /\ since \in SUBSET Ids
    BY DEF LeavesWhatIsNew
  <1> DEFINE rest == live \ R
             rest2 == live \ R2
             left == rest2 \cap since
             noted == old \o new
             c == Only[rest][new]
  <1>2. /\ rest \in SUBSET Ids /\ rest2 \in SUBSET Ids /\ left \in SUBSET Ids
        /\ Range(old) \cap left = {} /\ Range(new) \cap left = Range(new) \cap rest
    BY <1>1 DEF LeavesWhatIsNew
  <1>3. \A id \in Range(noted) : id \in rest2 /\ id \in since <=> id \in left
    BY <1>1
  <1>4. noted \in Seq(Ids)
    BY <1>1, ConcatProperties
  <1> HIDE DEF rest, rest2, left
  <1>5. Only[left][noted] = Only[left][old] \o Only[left][new]
    BY <1>1, <1>2, OnlyOfBoth
  <1>6. Only[left][old] = <<>>
    BY <1>1, <1>2, OnlyOfNone
  <1>7. Only[left][new] = c
    BY <1>1, <1>2, OnlyDepends
  <1>8. c \in Seq(Ids)
    BY <1>1, <1>2, OnlyFacts
  <1> HIDE DEF noted, c
  <1>9. Only[rest2][Only[since][noted]] = Only[left][noted]
    BY <1>1, <1>2, <1>3, <1>4, OnlyOfTwo
  <1>10. <<>> \o c = c
    BY <1>1, <1>8, ConcatEmptySeq
  <1>11. QED
    BY <1>1, <1>5, <1>6, <1>7, <1>9, <1>10 DEF noted, c, rest, rest2, LeavesOnlyNew

Landing(list, order, old, new, elements, named, live, since) ==
    /\ BringsWhatIsShown(order, old, elements, named, live)
    /\ list \in Seq(Ids) /\ new \in Seq(Ids) /\ since \in SUBSET Ids
    /\ named \subseteq Range(old)
    /\ Range(old) \cap Range(new) = {} /\ Range(new) \subseteq since
    /\ OnTop(list, order, old \o new, live)

LEMMA LandedOnTop ==
    ASSUME NEW list, NEW order, NEW old, NEW new, NEW elements, NEW named, NEW live, NEW since,
           Landing(list, order, old, new, elements, named, live, since)
    PROVE  OnTop(list, PredictOrder(order, elements, Only[named][old]),
                 Only[since][old \o new], live)
  <1>1. /\ order \in Seq(Ids) /\ old \in Seq(Ids) /\ elements \in Scene
        /\ named \in SUBSET Ids /\ live \in SUBSET Ids
        /\ list \in Seq(Ids) /\ new \in Seq(Ids) /\ since \in SUBSET Ids
        /\ \A id \in Ids : id \in named <=> elements[id] # Absent
        /\ named \subseteq Range(old)
        /\ Range(old) \cap Range(new) = {} /\ Range(new) \subseteq since
        /\ \A id \in Range(old) \cap live : LiveOf(elements, id) \/ id \in Range(order)
        /\ \A id \in live : ~Gone(elements, id)
    BY DEF Landing, BringsWhatIsShown
  <1> DEFINE R == Range(order)
             sent == Only[named][old]
             ahead == PredictOrder(order, elements, sent)
             R2 == Range(ahead)
             rest == live \ R
             a == Only[live][order]
             b == Only[rest][old]
             c == Only[rest][new]
  <1>2. sent \in Seq(Ids) /\ Range(sent) = named
    <2>1. old \in Seq(Ids) /\ named \in SUBSET Ids /\ Range(old) \cap named = named
      BY <1>1
    <2>2. sent \in Seq(Ids) /\ Range(sent) = Range(old) \cap named
      BY <2>1, OnlyFacts
    <2> HIDE DEF sent
    <2>3. QED
      BY <2>1, <2>2
  <1>3. /\ rest \in SUBSET Ids /\ R \in SUBSET Ids /\ R2 \in SUBSET Ids
        /\ Range(old) \subseteq Ids /\ Range(new) \subseteq Ids
    <2> HIDE DEF sent
    <2>1. ahead \in Seq(Ids)
      BY <1>1, <1>2, PredictOrderType
    <2> HIDE DEF ahead
    <2>2. QED
      BY <1>1, <2>1, RangeOfSeq
  <1>4. \A id \in Ids : id \in R2 <=> (id \in R /\ ~Gone(elements, id)) \/ LiveOf(elements, id)
    <2> HIDE DEF sent
    <2>1. LiveIds(elements) \subseteq Range(sent)
      BY <1>1, <1>2 DEF LiveIds, IsLive
    <2>2. R2 = {id \in R : ~Gone(elements, id)} \cup LiveIds(elements)
      BY <1>1, <1>2, <2>1, PredictedRange
    <2> HIDE DEF R2
    <2>3. QED
      BY <1>3, <2>2 DEF LiveIds, LiveOf
  <1>5. Only[live][ahead] = a \o b
    <2>1. BringsWhatIsShown(order, old, elements, named, live)
      BY DEF Landing
    <2>2. OnTop(ahead, order, old, live)
      BY <2>1, LookedOnTop
    <2>3. QED
      BY <2>2, Zenon DEF OnTop
  <1>6. Only[live][list] = a \o Only[rest][old \o new]
    BY DEF OnTop, Landing
  <1> HIDE DEF sent, ahead, R2
  <1>7. \A id \in Range(old) : id \in live => id \in R2
    BY <1>1, <1>3, <1>4
  <1>8. \A id \in Range(new) : id \in R2 <=> id \in R
    BY <1>1, <1>3, <1>4 DEF Gone, LiveOf, IsLive
  <1>9. c = Only[live \ R][new]
    OBVIOUS
  <1> HIDE DEF R, rest
  <1>10. Range(new) \subseteq since
    BY <1>1
  <1>11. Only[live \ R2][Only[since][old \o new]] = Only[live \ R][new]
    <2>1. LeavesWhatIsNew(old, new, R, R2, live, since)
      BY <1>1, <1>3, <1>7, <1>8, <1>10 DEF LeavesWhatIsNew
    <2>2. LeavesOnlyNew(old, new, R, R2, live, since)
      BY <2>1, LeftOnTop
    <2>3. QED
      BY <2>2, Zenon DEF LeavesOnlyNew
  <1>12. Only[rest][old \o new] = b \o c
    BY <1>1, <1>3, OnlyOfBoth
  <1>13. a \in Seq(Ids) /\ b \in Seq(Ids) /\ c \in Seq(Ids)
    BY <1>1, <1>3, OnlyFacts
  <1> HIDE DEF a, b, c
  <1>14. (a \o b) \o c = a \o (b \o c)
    BY <1>13, ConcatThree, SMTT(60)
  <1>15. Only[live][list] = Only[live][ahead] \o Only[live \ R2][Only[since][old \o new]]
    BY <1>5, <1>6, <1>9, <1>11, <1>12, <1>14
  <1>16. QED
    BY <1>15 DEF R2, ahead, sent, OnTop

LEMMA LandedRested ==
    ASSUME IInv, Accepted, ~(Len(parts) > 1)
    PROVE  /\ Rested' /\ ~InFlight'
           /\ tracker.touched # Everything => tracker'.touched # Everything
           /\ tracker'.touched # Everything => tracker'.touched \in Seq(Ids)
  <1>1. /\ InFlight /\ sending' = Absent /\ tracker' = Acknowledged(tracker, sending)
        /\ dirty => FollowUp
        /\ ~dirty => status' = "idle"
        /\ UNCHANGED disposed
    BY DEF Accepted, Landed
  <1>2. tracker \in Trackers /\ sending \in Diffs /\ Marked
    BY <1>1 DEF IInv, Types, InFlight
  <1> DEFINE t == tracker
             patch == sending
             after == Acknowledged(t, patch)
  <1>3. t \in Trackers /\ patch \in Diffs /\ tracker' = after
    BY <1>1, <1>2
  <1> HIDE DEF t, patch
  <1>4. /\ after \in Trackers
        /\ t.touched # Everything =>
              /\ after.touched # Everything
              /\ Range(after.touched) = Range(t.touched) \cap t.since
        /\ t.touched = Everything =>
              after.touched = IF t.full /\ t.quiet THEN <<>> ELSE Everything
    BY <1>3, AcknowledgedFacts
  <1> HIDE DEF after
  <1>5. after.touched # Everything => after.touched \in Seq(Ids)
    BY <1>4 DEF Trackers
  <1>6. ~InFlight'
    BY <1>1 DEF InFlight
  <1>7. Rested'
    <2> SUFFICES ASSUME ~disposed', ~timer' PROVE tracker'.touched = <<>>
      BY DEF Rested
    <2>1. ~disposed /\ ~dirty
      BY <1>1 DEF FollowUp
    <2>2. tracker.quiet /\ tracker.since = {} /\ (tracker.touched = Everything => tracker.full)
      BY <1>1, <1>2, <2>1 DEF Marked
    <2>3. CASE t.touched = Everything
      BY <1>3, <1>4, <2>2, <2>3 DEF t
    <2>4. CASE t.touched # Everything
      <3>1. after.touched \in Seq(Ids) /\ Range(after.touched) = {}
        BY <1>4, <1>5, <2>2, <2>4 DEF t
      <3>2. QED
        BY <1>3, <3>1, EmptyIfRange
    <2>5. QED
      BY <2>3, <2>4
  <1>8. QED
    BY <1>3, <1>4, <1>5, <1>6, <1>7 DEF t

(* The order acknowledged is one of what is alive there, as predicted. *)
LEMMA LandedOrder ==
    ASSUME IInv, SInv, Accepted, ~(Len(parts) > 1)
    PROVE  /\ tracker'.order = Ahead
           /\ \A id \in Ids : tracker'.known[id] = After(id)
           /\ Range(tracker'.order) = LiveIds(tracker'.known)
           /\ tracker.touched # Everything =>
                 tracker'.touched = Only[tracker.since][tracker.touched]
           /\ tracker.touched = Everything =>
                 tracker'.touched = IF tracker.full /\ tracker.quiet THEN <<>> ELSE Everything
  <1>1. /\ InFlight /\ tracker' = Acknowledged(tracker, sending)
        /\ tracker \in Trackers /\ sending \in Diffs
    BY DEF Accepted, IInv, Types, InFlight
  <1> DEFINE t == tracker
             patch == sending
             known == [id \in Ids |-> IF patch.elements[id] = Absent THEN t.known[id]
                                      ELSE patch.elements[id]]
             after == Acknowledged(t, patch)
  <1>2. t \in Trackers /\ patch \in Diffs /\ tracker' = after
    BY <1>1
  <1>3. \A id \in Ids : known[id] = After(id)
    BY DEF After
  <1> HIDE DEF t, patch
  <1>4. /\ after.known = known
        /\ t.touched = Everything =>
              after.touched = IF t.full /\ t.quiet THEN <<>> ELSE Everything
    BY <1>2, AcknowledgedFacts
  <1>5. /\ after.order = IF patch.order # Absent THEN patch.order
                         ELSE PredictOrder(t.order, patch.elements, patch.list)
        /\ t.touched # Everything => after.touched = Only[t.since][t.touched]
    BY <1>2, AcknowledgedOrder
  <1> HIDE DEF known, after
  <1>6. tracker'.order = Ahead
    BY <1>2, <1>5 DEF Ahead, t, patch
  <1>7. \A id \in Ids : tracker'.known[id] = After(id)
    BY <1>2, <1>3, <1>4
  <1>8. LiveIds(tracker'.known) = {id \in Ids : IsLive(After(id))}
    BY <1>7 DEF LiveIds
  <1>9. Range(Ahead) = {id \in Ids : IsLive(After(id))}
    <2>1. CASE sending.order # Absent
      BY <1>1, <2>1 DEF SInv, OrderIsLive, Ahead
    <2>2. CASE sending.order = Absent
      <3> DEFINE order == tracker.order
                 elements == sending.elements
                 list == sending.list
      <3>1. order \in Seq(Ids) /\ elements \in Scene /\ list \in Seq(Ids)
        BY <1>1 DEF Trackers, Diffs
      <3>2. Range(list) = Named(sending) /\ Range(order) = LiveIds(tracker.known)
        BY <1>1 DEF SInv, OrderIsLive
      <3>3. LiveIds(elements) \subseteq Range(list)
        BY <3>2 DEF Named, LiveIds, IsLive
      <3>4. \A id \in Ids : IsLive(After(id)) <=>
                LiveOf(elements, id) \/ (id \in Range(order) /\ ~Gone(elements, id))
        BY <3>2 DEF After, LiveOf, LiveIds, Gone, IsLive
      <3>5. Ahead = PredictOrder(order, elements, list)
        BY <2>2 DEF Ahead
      <3> HIDE DEF order, elements, list
      <3>6. Range(PredictOrder(order, elements, list))
                = {id \in Range(order) : ~Gone(elements, id)} \cup LiveIds(elements)
        BY <3>1, <3>3, PredictedRange
      <3>7. Range(order) \subseteq Ids
        BY <3>1, RangeOfSeq
      <3>8. QED
        BY <3>4, <3>5, <3>6, <3>7 DEF LiveIds, LiveOf
    <2>3. QED
      BY <2>1, <2>2
  <1>10. QED
    BY <1>2, <1>4, <1>5, <1>6, <1>7, <1>8, <1>9 DEF t

LEMMA LandedStacks ==
    ASSUME IInv, SInv, StampedAnew, Accepted, ~(Len(parts) > 1), UNCHANGED <<scene, stack>>,
           tracker.touched # Everything
    PROVE  OnTop(stack, tracker'.order, tracker'.touched, LiveIds(scene))
  <1> DEFINE live == LiveIds(scene)
             elements == sending.elements
             named == Named(sending)
             order == tracker.order
             since == tracker.since
             list == tracker.touched
  <1>1. /\ InFlight /\ tracker \in Trackers /\ sending \in Diffs /\ stack \in Seq(Ids)
        /\ Stacked /\ SentInStep /\ Range(sending.list) = Named(sending)
    BY DEF Accepted, IInv, Types, InFlight, SInv, OrderIsLive
  <1>2. /\ sending.order = Absent
        /\ \A id \in Ids : Gone(sending.elements, id) => ~LiveOf(scene, id)
        /\ NotesAreInOrder
    BY <1>1 DEF SentInStep
  <1>3. PICK old \in Seq(Ids), new \in Seq(Ids) : Looked(old, new)
    BY <1>2 DEF NotesAreInOrder
  <1>4. /\ list = old \o new
        /\ Range(old) \cap Range(new) = {} /\ Range(new) \subseteq since
        /\ sending.list = Only[named][old]
        /\ \A id \in Range(old) : LiveOf(scene, id) => LiveOf(elements, id) \/ id \in Range(order)
    BY <1>3 DEF Looked
  <1>5. /\ live \in SUBSET Ids /\ named \in SUBSET Ids /\ order \in Seq(Ids)
        /\ elements \in Scene /\ since \in SUBSET Ids
    BY <1>1 DEF LiveIds, Named, Diffs, Trackers
  <1>6. named \subseteq Range(old)
    <2> HIDE DEF named
    <2>1. Range(Only[named][old]) = Range(old) \cap named
      BY <1>5, OnlyFacts
    <2>2. QED
      BY <1>1, <1>4, <2>1 DEF named
  <1>7. OnTop(stack, order, list, live)
    BY <1>1 DEF Stacked
  <1>8. tracker'.order = PredictOrder(order, elements, sending.list) /\ tracker'.touched = Only[since][list]
    BY <1>2, LandedOrder DEF Ahead
  <1>9. \A id \in live : id \in Ids /\ LiveOf(scene, id)
    BY DEF LiveIds, LiveOf
  <1>10. \A id \in Ids : id \in named <=> elements[id] # Absent
    BY DEF Named
  <1>11. \A id \in live : ~Gone(elements, id)
    BY <1>2, <1>9
  <1>12. \A id \in Range(old) \cap live : LiveOf(elements, id) \/ id \in Range(order)
    BY <1>4, <1>9
  <1> HIDE DEF live, elements, named, order, since, list
  <1>13. Landing(stack, order, old, new, elements, named, live, since)
    BY <1>1, <1>4, <1>5, <1>6, <1>7, <1>10, <1>11, <1>12 DEF Landing, BringsWhatIsShown
  <1>14. OnTop(stack, PredictOrder(order, elements, Only[named][old]), Only[since][old \o new], live)
    BY <1>13, LandedOnTop
  <1>15. OnTop(stack, tracker'.order, tracker'.touched, live)
    BY <1>4, <1>8, <1>14
  <1>16. QED
    BY <1>15 DEF live

LEMMA LandedOrders ==
    ASSUME IInv, LInv, SInv, Accepted, ~(Len(parts) > 1)
    PROVE  SInv'
  <1>1. /\ InFlight /\ tracker \in Trackers /\ stack \in Seq(Ids)
        /\ UNCHANGED <<scene, stack, undone>>
    BY DEF Accepted, IInv, Types
  <1>2. /\ Rested' /\ ~InFlight'
        /\ tracker.touched # Everything => tracker'.touched # Everything
    BY LandedRested
  <1>3. /\ tracker'.order = Ahead
        /\ \A id \in Ids : tracker'.known[id] = After(id)
        /\ Range(tracker'.order) = LiveIds(tracker'.known)
        /\ tracker.touched # Everything => tracker'.touched = Only[tracker.since][tracker.touched]
        /\ tracker.touched = Everything =>
              tracker'.touched = IF tracker.full /\ tracker.quiet THEN <<>> ELSE Everything
    BY LandedOrder
  <1>4. tracker.touched # Everything =>
            Range(tracker'.touched) = Range(tracker.touched) \cap tracker.since
    <2> DEFINE list == tracker.touched
               since == tracker.since
    <2>1. since \in SUBSET Ids /\ (list # Everything => list \in Seq(Ids))
      BY <1>1 DEF Trackers
    <2> HIDE DEF list, since
    <2>2. list # Everything => Range(Only[since][list]) = Range(list) \cap since
      BY <2>1, OnlyFacts
    <2>3. QED
      BY <1>3, <2>2 DEF list, since
  <1>5. OnlyDrawn' /\ OrderIsLive'
    <2>1. Here' = Here
      BY <1>1 DEF Here
    <2>2. OnlyDrawn'
      BY <1>1, <1>3, <1>4, <2>1, EmptyRange DEF SInv, OnlyDrawn
    <2>3. OrderIsLive'
      BY <1>2, <1>3 DEF OrderIsLive
    <2>4. QED
      BY <2>2, <2>3
  <1>6. ASSUME StampedAnew
        PROVE  OthersInStep' /\ Stacked' /\ SentInStep'
    <2>1. SentInStep'
      BY <1>2 DEF SentInStep
    <2>2. SentInStep /\ OthersInStep
      BY <1>6 DEF SInv
    <2>3. OthersInStep'
      <3> SUFFICES ASSUME tracker'.touched # Everything,
                          NEW id \in Ids \ Range(tracker'.touched)
                   PROVE  InStep(After(id), scene[id])
        BY <1>1, <1>3 DEF OthersInStep
      <3>1. CASE tracker.touched = Everything
        BY <1>1, <1>3, <2>2, <3>1 DEF SentInStep
      <3>2. CASE tracker.touched # Everything /\ id \in Range(tracker.touched)
        BY <1>1, <1>4, <2>2, <3>2 DEF SentInStep
      <3>3. CASE tracker.touched # Everything /\ id \notin Range(tracker.touched)
        <4>1. sending.elements[id] = Absent
          BY <1>1, <3>3 DEF LInv, LifeLookedAt
        <4>2. QED
          BY <2>2, <3>3, <4>1 DEF OthersInStep, After
      <3>4. QED
        BY <3>1, <3>2, <3>3
    <2>4. Stacked'
      <3> SUFFICES ASSUME tracker'.touched # Everything
                   PROVE  OnTop(stack, tracker'.order, tracker'.touched, LiveIds(scene))
        BY <1>1 DEF Stacked
      <3>1. CASE tracker.touched # Everything
        BY <1>1, <1>6, <3>1, LandedStacks
      <3>2. CASE tracker.touched = Everything
        <4>1. tracker'.touched = <<>> /\ tracker'.order = Shown
          BY <1>1, <1>3, <2>2, <3>2 DEF SentInStep
        <4> DEFINE live == LiveIds(scene)
                   shown == Shown
        <4>2. live \in SUBSET Ids /\ <<>> \in Seq(Ids) /\ Range(<<>>) \cap live \subseteq Range(shown)
          BY EmptyRange DEF LiveIds
        <4>3. shown \in Seq(Ids) /\ Range(shown) \subseteq live
          BY ShownFacts
        <4>4. shown = Only[live][stack]
          BY DEF Shown
        <4> HIDE DEF live, shown
        <4>5. Only[live][shown] = shown
          BY <4>2, <4>3, OnlyOfAll
        <4>6. OnTop(stack, shown, <<>>, live)
          BY <1>1, <4>2, <4>3, <4>4, <4>5, NothingOnTop
        <4>7. QED
          BY <4>1, <4>6 DEF live, shown
      <3>3. QED
        BY <3>1, <3>2
    <2>5. QED
      BY <2>1, <2>3, <2>4
  <1>7. QED
    BY <1>1, <1>2, <1>5, <1>6 DEF SInv, StampedAnew

LEMMA NextPartOrders ==
    ASSUME SInv, Accepted, Len(parts) > 1
    PROVE  SInv'
  <1>1. InFlight /\ UNCHANGED <<scene, stack, undone, tracker, sending>>
    BY DEF Accepted
  <1>2. Rested'
    BY <1>1 DEF Rested, InFlight
  <1>3. QED
    BY <1>1, <1>2, QuietOrders

(* A request that failed is tried again, or waits for the next change. *)
LEMMA FailedOrders ==
    ASSUME SInv, Failed \/ Refused
    PROVE  SInv'
  <1>1. ~InFlight' /\ UNCHANGED <<scene, stack, undone, tracker, disposed>>
    BY DEF Failed, FailedThen, Refused, Landed, InFlight
  <1>2. Rested'
    <2>1. timer' \/ disposed \/ status' = "too-large"
      BY DEF Failed, FailedThen, Refused, FollowUp
    <2>2. disposed' = disposed
      BY <1>1
    <2>3. QED
      BY <2>1, <2>2 DEF Rested
  <1>3. Here' = Here /\ LiveIds(scene)' = LiveIds(scene)
    BY <1>1 DEF Here
  <1>4. OnlyDrawn' /\ OrderIsLive'
    BY <1>1, <1>3 DEF SInv, OnlyDrawn, OrderIsLive
  <1>5. StampedAnew => OthersInStep' /\ Stacked' /\ SentInStep'
    <2>1. SentInStep'
      BY <1>1 DEF SentInStep
    <2>2. StampedAnew => OthersInStep' /\ Stacked'
      BY <1>1, <1>3 DEF SInv, OthersInStep, Stacked
    <2>3. QED
      BY <2>1, <2>2
  <1>6. QED
    BY <1>1, <1>2, <1>4, <1>5 DEF SInv, StampedAnew

LEMMA PeerOrders ==
    ASSUME SInv, PeerWrite
    PROVE  SInv'
  <1>1. UNCHANGED <<scene, stack, undone, tracker, sending, timer, status, disposed>>
    BY DEF PeerWrite, saver
  <1>2. Rested'
    BY <1>1 DEF SInv, Rested, InFlight
  <1>3. QED
    BY <1>1, <1>2, QuietOrders

-----------------------------------------------------------------------------
LEMMA InitOrders == Init => SInv
  <1> SUFFICES ASSUME Init PROVE SInv
    OBVIOUS
  <1>1. PICK ids \in SUBSET Ids : \E nonce \in Nonces, order \in [1..Cardinality(ids) -> ids] :
            /\ {order[i] : i \in DOMAIN order} = ids
            /\ scene = [id \in Ids |-> IF id \in ids THEN Drawn(id, nonce) ELSE Absent]
            /\ stack = order
            /\ board = [NewBoard EXCEPT !.elements = scene, !.place = PlaceOf(order)]
            /\ tracker = Adopted(scene, order)
            /\ held = ids \cap Images
    BY Zenon DEF Init
  <1>2. PICK nonce \in Nonces, order \in [1..Cardinality(ids) -> ids] :
            /\ {order[i] : i \in DOMAIN order} = ids
            /\ scene = [id \in Ids |-> IF id \in ids THEN Drawn(id, nonce) ELSE Absent]
            /\ stack = order
            /\ tracker = Adopted(scene, order)
    BY <1>1, Zenon
  <1>3. tracker.known = scene /\ tracker.order = stack /\ tracker.touched = <<>>
    BY <1>2 DEF Adopted
  <1>4. ~InFlight /\ IInv
    BY InitHolds DEF Init, InFlight
  <1>5. stack \in Seq(Ids) /\ Range(stack) = ids
    BY <1>2, <1>4 DEF IInv, Types, Range
  <1>6. \A id \in Ids : Drawn(id, nonce) # Absent /\ ~Drawn(id, nonce).isDeleted
    BY DrawnType, ReconcileAssumption
  <1>7. Here = ids /\ LiveIds(scene) = ids
    BY <1>2, <1>6 DEF Here, LiveIds, IsLive
  <1>8. Rested
    BY <1>3 DEF Rested
  <1>9. OnlyDrawn /\ OrderIsLive
    BY <1>3, <1>4, <1>5, <1>7, EmptyRange DEF OnlyDrawn, OrderIsLive
  <1>10. OthersInStep /\ SentInStep
    BY <1>3, <1>4 DEF OthersInStep, SentInStep, InStep, SameStamp
  <1>11. OnTop(stack, stack, <<>>, ids)
    <2>1. <<>> \in Seq(Ids) /\ Range(<<>>) \cap ids \subseteq Range(stack)
      BY EmptyRange
    <2>2. QED
      BY <1>5, <2>1, NothingOnTop
  <1>12. Stacked
    BY <1>3, <1>7, <1>11 DEF Stacked
  <1>13. QED
    BY <1>8, <1>9, <1>10, <1>12 DEF SInv

LEMMA StepOrders == IInv /\ IInv' /\ LInv /\ SInv /\ [Next]_vars => SInv'
  <1> SUFFICES ASSUME IInv, IInv', LInv, SInv, [Next]_vars PROVE SInv'
    OBVIOUS
  <1>1. CASE UNCHANGED vars
    <2>1. UNCHANGED <<scene, stack, undone, tracker, sending, timer, status, disposed>>
      BY <1>1 DEF vars, saver
    <2>2. Rested'
      BY <2>1 DEF SInv, Rested, InFlight
    <2>3. QED
      BY <2>1, <2>2, QuietOrders
  <1>2. CASE UserActs
    BY <1>2, DrawOrders, DrawBelowOrders, EditOrders, EraseOrders, UndeleteOrders, RestackOrders
       DEF UserActs
  <1>3. CASE ResumeFlush \/ TimerFires \/ Flush \/ Dispose
    BY <1>3, SaverOrders
  <1>4. CASE Accepted \/ Failed \/ Refused \/ PeerWrite
    BY <1>4, NextPartOrders, LandedOrders, FailedOrders, PeerOrders
  <1>5. QED
    BY <1>1, <1>2, <1>3, <1>4 DEF Next

(* The order acknowledged, with what is noted and new on top of it, is the  *)
(* order of the page, in every state it can reach while deletes that are    *)
(* undone are stamped anew.                                                 *)
THEOREM OrderIsAccountedFor == Spec => []SInv
  <1>1. Init => IInv /\ LInv /\ SInv
    BY InitHolds, InitLives, InitOrders
  <1>2. (IInv /\ LInv /\ SInv) /\ [Next]_vars => (IInv /\ LInv /\ SInv)'
    BY StepKeeps, StepLives, StepOrders
  <1>3. QED
    BY <1>1, <1>2, PTL DEF Spec

-----------------------------------------------------------------------------
(* An order the other side arrives at by itself need not be declared.       *)
Guessed(whole, order, noted, live, elements, named, gone) ==
    /\ whole \in Seq(Ids) /\ order \in Seq(Ids) /\ noted \in Seq(Ids) /\ gone \in Seq(Ids)
    /\ live \in SUBSET Ids /\ named \in SUBSET Ids
    /\ OnTop(whole, order, noted, live)
    /\ \A id \in Range(order) : id \in live <=> elements[id] = Absent \/ ~elements[id].isDeleted
    /\ LiveIds(elements) \ Range(order) = live \ Range(order)
    /\ LiveIds(elements) \subseteq named
    /\ Range(gone) \subseteq Range(order)

LEMMA OrderIsGuessed ==
    ASSUME NEW whole, NEW order, NEW noted, NEW live, NEW elements, NEW named, NEW gone,
           Guessed(whole, order, noted, live, elements, named, gone)
    PROVE  PredictOrder(order, elements, Only[named][Only[live][whole] \o gone])
               = Only[live][whole]
  <1> DEFINE stay == {id \in Ids : elements[id] = Absent \/ ~elements[id].isDeleted}
             new == LiveIds(elements) \ Range(order)
             shown == Only[live][whole]
             a == Only[live][order]
             b == Only[new][noted]
             l == shown \o gone
  <1>1. /\ whole \in Seq(Ids) /\ order \in Seq(Ids) /\ noted \in Seq(Ids) /\ gone \in Seq(Ids)
        /\ live \in SUBSET Ids /\ named \in SUBSET Ids
        /\ new = live \ Range(order) /\ Range(gone) \cap new = {}
        /\ new \subseteq named
        /\ OnTop(whole, order, noted, live)
    BY Zenon DEF Guessed
  <1>2. stay \in SUBSET Ids /\ new \in SUBSET Ids
    BY <1>1
  <1>3. Range(order) \cap stay = Range(order) \cap live
    <2>1. Range(order) \subseteq Ids
      BY <1>1, RangeOfSeq
    <2>2. QED
      BY <2>1 DEF Guessed
  <1>4. PredictOrder(order, elements, Only[named][l]) = Only[stay][order] \o Only[new][Only[named][l]]
    BY Zenon DEF PredictOrder
  <1> HIDE DEF stay, new
  <1>5. Only[stay][order] = a
    BY <1>1, <1>2, <1>3, OnlyDepends
  <1>6. shown = a \o b
    BY <1>1, Zenon DEF OnTop
  <1>7. shown \in Seq(Ids) /\ a \in Seq(Ids) /\ b \in Seq(Ids) /\ Range(a) = Range(order) \cap live
    BY <1>1, <1>2, OnlyFacts
  <1> HIDE DEF shown, a
  <1>8. l \in Seq(Ids)
    BY <1>1, <1>7, ConcatProperties
  <1>9. Only[new][l] = Only[new][shown] \o Only[new][gone]
    <2>1. new \in SUBSET Ids /\ shown \in Seq(Ids) /\ gone \in Seq(Ids)
      BY <1>1, <1>2, <1>7
    <2>2. Only[new][shown \o gone] = Only[new][shown] \o Only[new][gone]
      BY <2>1, OnlyOfBoth
    <2>3. QED
      BY <2>2
  <1>10. Only[new][gone] = <<>>
    BY <1>1, <1>2, OnlyOfNone
  <1>11. Only[new][a] = <<>>
    <2>1. Range(a) \cap new = {}
      BY <1>1, <1>7
    <2>2. QED
      BY <1>2, <1>7, <2>1, OnlyOfNone
  <1>12. Only[new][b] = b
    <2>1. new \in SUBSET Ids /\ noted \in Seq(Ids)
      BY <1>1, <1>2
    <2>2. QED
      BY <2>1, OnlyOfTwo
  <1> HIDE DEF l, b
  <1>13. Only[new][Only[named][l]] = Only[new][l]
    <2>1. new \in SUBSET Ids /\ named \in SUBSET Ids /\ l \in Seq(Ids)
      BY <1>1, <1>2, <1>8
    <2>2. \A id \in Range(l) : id \in new /\ id \in named <=> id \in new
      BY <1>1
    <2> HIDE DEF l
    <2>3. QED
      BY <2>1, <2>2, OnlyOfTwo
  <1>14. Only[new][shown] = b
    <2>1. Only[new][a \o b] = Only[new][a] \o Only[new][b]
      BY <1>2, <1>7, OnlyOfBoth
    <2>2. <<>> \o b = b
      BY <1>7, ConcatEmptySeq
    <2>3. QED
      BY <1>6, <1>11, <1>12, <2>1, <2>2
  <1>15. b \o <<>> = b
    BY <1>7, ConcatEmptySeq
  <1>16. PredictOrder(order, elements, Only[named][l]) = a \o b
    BY <1>4, <1>5, <1>9, <1>10, <1>13, <1>14, <1>15
  <1>17. QED
    BY <1>6, <1>16 DEF shown, l

(* Comparing everything finds what was noted, and no order to declare.      *)
LEMMA NotesFindAll ==
    ASSUME IInv, SInv, StampedAnew, tracker.touched # Everything, NEW nonces \in [Ids -> Nonces]
    PROVE  LET all == DiffAll(tracker, scene, Shown, nonces)
           IN  /\ all.elements = DiffTouched(tracker, scene, nonces).elements
               /\ all.order = Absent /\ all.list \in Seq(Ids)
               /\ Range(all.list) = {id \in Ids : all.elements[id] # Absent}
  <1> DEFINE known == tracker.known
             live == LiveIds(scene)
             order == tracker.order
             noted == tracker.touched
             gone == {id \in Ids : LiveOf(known, id) /\ ~LiveOf(scene, id)}
             away == SetToSeq(gone)
             shown == Shown
             list == shown \o away
             plain == PatchOver(tracker, scene, list, nonces, Absent)
             some == DiffTouched(tracker, scene, nonces)
             all == DiffAll(tracker, scene, shown, nonces)
  <1>1. /\ nonces \in [Ids -> Nat] /\ \A id \in Ids : nonces[id] \in Nat
    BY AutosaveAssumption
  <1>2. /\ tracker \in Trackers /\ known \in Scene /\ scene \in Scene /\ Timeless(known)
        /\ Timeless(scene) /\ order \in Seq(Ids) /\ noted \in Seq(Ids) /\ stack \in Seq(Ids)
    BY DEF IInv, Types, Trackers
  <1>3. shown \in Seq(Ids) /\ Range(shown) = live /\ live \in SUBSET Ids /\ shown = Only[live][stack]
    BY ShownFacts DEF LiveIds, Shown
  <1>4. \A id \in Ids : id \in live <=> LiveOf(scene, id)
    BY DEF LiveIds, LiveOf
  <1>5. Range(order) = {id \in Ids : LiveOf(known, id)}
    BY DEF SInv, OrderIsLive, LiveIds, LiveOf
  <1>6. \A id \in Ids \ Range(noted) : InStep(known[id], scene[id])
    BY DEF SInv, OthersInStep
  <1>7. OnTop(stack, order, noted, live)
    BY DEF SInv, Stacked
  <1>8. all = IF PredictOrder(order, plain.elements, plain.list) = shown THEN plain
              ELSE [plain EXCEPT !.order = shown]
    BY DEF DiffAll
  <1>9. some = PatchOver(tracker, scene, noted, nonces, Absent)
    BY DEF DiffTouched
  <1>10. gone \in SUBSET Ids
    OBVIOUS
  <1>11. \A id \in Ids : id \in gone <=> LiveOf(known, id) /\ ~LiveOf(scene, id)
    OBVIOUS
  <1>12. away \in Seq(Ids) /\ Range(away) = gone
    <2> HIDE DEF gone
    <2>1. QED
      BY <1>10, SetToSeqType
  <1>13. plain.order = Absent /\ plain.list = Only[Named(plain)][list]
    <2> DEFINE changes == [id \in Ids |-> IF id \in Range(list)
                                          THEN Change(tracker, scene, id, nonces[id]) ELSE Absent]
               changed == {id \in Ids : changes[id] # Absent}
               shorter == Only[changed][list]
    <2>1. plain = [elements |-> changes, list |-> shorter, order |-> Absent]
      BY DEF PatchOver
    <2> HIDE DEF changes, shorter, plain
    <2>2. plain.elements = changes /\ plain.list = shorter /\ plain.order = Absent
      BY <2>1
    <2>3. Named(plain) = changed
      BY <2>2 DEF Named
    <2> HIDE DEF changed
    <2>4. QED
      BY <2>2, <2>3 DEF shorter
  <1> HIDE DEF gone, away, shown, live
  <1>14. list \in Seq(Ids) /\ Range(list) = live \cup gone
    BY <1>3, <1>12, ConcatProperties, RangeConcatenation
  <1> HIDE DEF list
  <1> DEFINE New(id) == Change([known |-> known], scene, id, nonces[id])
  <1>15. /\ plain \in Diffs /\ Range(plain.list) = Named(plain)
         /\ \A id \in Ids : plain.elements[id] = IF id \in Range(list) THEN New(id) ELSE Absent
    BY <1>1, <1>2, <1>14, PatchOverFacts
  <1>16. /\ some \in Diffs
         /\ \A id \in Ids : some.elements[id] = IF id \in Range(noted) THEN New(id) ELSE Absent
    <2> HIDE DEF some, noted
    <2>1. QED
      BY <1>1, <1>2, <1>9, PatchOverFacts
  <1>17. \A id \in Ids : /\ New(id) = Absent <=> InStep(known[id], scene[id])
                         /\ New(id) # Absent => (IsLive(New(id)) <=> LiveOf(scene, id))
    BY <1>1, <1>2, ChangeInStep
  <1> HIDE DEF New, plain, some, noted, known, order
  <1>18. \A id \in Ids \ Range(list) : New(id) = Absent
    BY <1>4, <1>11, <1>14, <1>17 DEF InStep, LiveOf
  <1>19. \A id \in Ids : plain.elements[id] = New(id) /\ some.elements[id] = New(id)
    BY <1>6, <1>15, <1>16, <1>17, <1>18
  <1>20. plain.elements = some.elements
    <2> DEFINE x == plain.elements
               y == some.elements
    <2>1. x \in Scene /\ y \in Scene /\ \A id \in Ids : x[id] = y[id]
      BY <1>15, <1>16, <1>19 DEF Diffs
    <2> HIDE DEF x, y
    <2>2. x = y
      BY <2>1 DEF Scene
    <2>3. QED
      BY <2>2 DEF x, y
  <1> DEFINE elements == plain.elements
             named == Named(plain)
  <1>21. Guessed(stack, order, noted, live, elements, named, away)
    <2>1. \A id \in Ids : elements[id] # Absent => (IsLive(elements[id]) <=> id \in live)
      BY <1>4, <1>17, <1>19
    <2>2. \A id \in Ids : elements[id] = Absent => (LiveOf(known, id) <=> id \in live)
      BY <1>4, <1>17, <1>19 DEF InStep, LiveOf
    <2>3. \A id \in Ids : id \in LiveIds(elements) <=> IsLive(elements[id])
      BY DEF LiveIds
    <2>4. \A id \in Ids : id \in named <=> elements[id] # Absent
      BY DEF Named
    <2>5. \A id \in Range(order) : id \in Ids /\ LiveOf(known, id)
      BY <1>5
    <2>6. \A id \in Ids \ Range(order) : ~LiveOf(known, id)
      BY <1>5
    <2>7. named \in SUBSET Ids /\ LiveIds(elements) \in SUBSET Ids
      BY DEF Named, LiveIds
    <2> HIDE DEF elements, named
    <2>8. \A id \in Range(order) : id \in live <=> elements[id] = Absent \/ ~elements[id].isDeleted
      BY <2>1, <2>2, <2>5 DEF IsLive
    <2>9. LiveIds(elements) \ Range(order) = live \ Range(order)
      <3>1. \A id \in Ids \ Range(order) : id \in LiveIds(elements) <=> id \in live
        BY <2>1, <2>2, <2>3, <2>6 DEF IsLive
      <3>2. QED
        BY <1>3, <2>7, <3>1
    <2>10. LiveIds(elements) \subseteq named
      BY <2>3, <2>4, <2>7 DEF IsLive
    <2>11. Range(away) \subseteq Range(order)
      BY <1>5, <1>10, <1>11, <1>12
    <2>12. QED
      BY <1>2, <1>3, <1>7, <1>12, <2>7, <2>8, <2>9, <2>10, <2>11 DEF Guessed
  <1> HIDE DEF elements, named
  <1>22. PredictOrder(order, elements, Only[named][Only[live][stack] \o away]) = Only[live][stack]
    BY <1>21, OrderIsGuessed
  <1>23. PredictOrder(order, plain.elements, plain.list) = shown
    BY <1>3, <1>13, <1>22, Zenon DEF elements, named, list
  <1>24. all = plain
    BY <1>8, <1>23
  <1>25. plain.list \in Seq(Ids)
    BY <1>15 DEF Diffs
  <1>26. QED
    BY <1>13, <1>15, <1>20, <1>24, <1>25 DEF some, shown, Named

(* Looking only at what was noted finds all that comparing everything would *)
(* (sceneDiff.ts:100-111), as long as deletes that are undone are stamped   *)
(* anew.                                                                    *)
THEOREM NotesFindEverything == Spec => [](StampedAnew => NotesAreEnough)
  <1>1. IInv /\ SInv => (StampedAnew => NotesAreEnough)
    BY NotesFindAll DEF NotesAreEnough
  <1>2. Spec => []IInv
    BY EverythingIsAccountedFor
  <1>3. QED
    BY <1>1, <1>2, OrderIsAccountedFor, PTL

(* A flush that gets its turn sends all that comparing everything finds.    *)
LEMMA FlushCompares ==
    ASSUME IInv, SInv, StampedAnew, ResumeFlush
    PROVE  \E nonces \in [Ids -> Nonces] :
              LET rest == DiffAll(tracker, scene, Shown, nonces)
              IN  IF InFlight'
                  THEN sending'.elements = rest.elements /\ sending'.order = rest.order
                  ELSE IsEmpty(rest)
  <1>1. ~InFlight /\ sending = Absent /\ Run
    BY DEF ResumeFlush, FlushResumes, InFlight
  <1>2. PICK patch \in Patches :
            /\ tracker' = Diffed(tracker, patch)
            /\ IF IsEmpty(patch)
               THEN status' = "idle" /\ UNCHANGED <<sending, parts>>
               ELSE /\ status' = "saving"
                    /\ sending' = patch
                    /\ parts' = Split([patch EXCEPT !.elements = Strip(held, @)])
    BY <1>1 DEF Run
  <1>3. PICK nonces \in [Ids -> Nonces] : patch = Diff(tracker, scene, Shown, nonces)
    BY <1>2 DEF Patches
  <1> DEFINE rest == DiffAll(tracker, scene, Shown, nonces)
  <1>4. patch \in Diffs /\ Range(patch.list) = {id \in Ids : patch.elements[id] # Absent}
    BY <1>1, <1>2, PatchBrings DEF Named
  <1>5. /\ rest.elements = patch.elements /\ rest.order = patch.order
        /\ patch.list = <<>> => rest.list = <<>>
    <2>1. CASE tracker.touched = Everything
      BY <1>3, <2>1 DEF Diff
    <2>2. CASE tracker.touched # Everything
      <3>1. patch = DiffTouched(tracker, scene, nonces)
        BY <1>3, <2>2 DEF Diff
      <3>2. patch.order = Absent
        BY <3>1 DEF DiffTouched, PatchOver
      <3>3. /\ rest.elements = patch.elements /\ rest.order = Absent /\ rest.list \in Seq(Ids)
            /\ Range(rest.list) = {id \in Ids : rest.elements[id] # Absent}
        BY <2>2, <3>1, NotesFindAll
      <3> HIDE DEF rest
      <3>4. Range(rest.list) = Range(patch.list)
        BY <1>4, <3>3
      <3>5. ASSUME patch.list = <<>> PROVE rest.list = <<>>
        BY <3>3, <3>4, <3>5, EmptyRange, EmptyIfRange
      <3> QED BY <3>2, <3>3, <3>5
    <2> QED BY <2>1, <2>2
  <1> HIDE DEF rest
  <1>6. IF InFlight'
        THEN sending'.elements = rest.elements /\ sending'.order = rest.order
        ELSE IsEmpty(rest)
    <2>1. CASE IsEmpty(patch)
      <3>1. sending' = Absent /\ ~InFlight'
        BY <1>1, <1>2, <2>1 DEF InFlight
      <3> QED BY <1>5, <2>1, <3>1 DEF IsEmpty
    <2>2. CASE ~IsEmpty(patch)
      <3>1. sending' = patch
        BY <1>2, <2>2
      <3>2. patch # Absent
        BY <1>4, SceneDiffAssumption
      <3> QED BY <1>5, <3>1, <3>2 DEF InFlight
    <2> QED BY <2>1, <2>2
  <1> QED BY <1>6 DEF rest

(* It does so also of a page that was left meanwhile, which sends nothing   *)
(* else any more (autosaver.ts flush, dispose), as long as deletes that are *)
(* undone are stamped anew.                                                 *)
THEOREM FlushesSendTheRest == Spec /\ []StampedAnew => FlushSendsTheRest
  <1> DEFINE Sent == \E nonces \in [Ids -> Nonces] :
                        LET rest == DiffAll(tracker, scene, Shown, nonces)
                        IN  IF InFlight'
                            THEN sending'.elements = rest.elements /\ sending'.order = rest.order
                            ELSE IsEmpty(rest)
  <1>1. ASSUME IInv, SInv, StampedAnew, Next, flushes' < flushes
        PROVE  Sent
    <2>1. flushes \in Nat /\ flushes' # flushes
      BY <1>1 DEF IInv, Types
    <2>2. CASE ResumeFlush
      BY <1>1, <2>2, FlushCompares
    <2>3. CASE UserActs
      BY <2>1, <2>3 DEF UserActs, Draw, DrawBelow, Edit, Erase, Undelete, Restack, Report, Notify
    <2>4. CASE TimerFires \/ Dispose
      BY <2>1, <2>4 DEF TimerFires, Dispose
    <2>5. CASE Flush
      BY <1>1, <2>1, <2>5 DEF Flush
    <2>6. CASE Accepted \/ Failed \/ Refused \/ PeerWrite
      BY <2>1, <2>6 DEF Accepted, Failed, FailedThen, Refused, PeerWrite, saver
    <2> QED BY <1>1, <2>2, <2>3, <2>4, <2>5, <2>6 DEF Next
  <1>2. IInv /\ SInv /\ StampedAnew /\ [Next]_vars => [flushes' < flushes => Sent]_vars
    BY <1>1
  <1>3. Spec => []IInv
    BY EverythingIsAccountedFor
  <1>4. Spec /\ []StampedAnew => [][flushes' < flushes => Sent]_vars
    BY <1>2, <1>3, OrderIsAccountedFor, PTL DEF Spec
  <1> QED
    BY <1>4, NothingAfterDispose, PTL DEF FlushSendsTheRest

(* No change is stranded: what the other side does not have is on its way,  *)
(* armed, or refused (autosaver.ts notify, run), as long as deletes that    *)
(* are undone are stamped anew.                                             *)
THEOREM NoChangeIsStranded == Spec => [](StampedAnew => NothingIsStranded)
  <1>1. IInv /\ SInv => (StampedAnew => NothingIsStranded)
    <2> DEFINE anyNonce == [id \in Ids |-> CHOOSE n \in Nonces : TRUE]
               all == DiffAll(tracker, scene, Shown, anyNonce)
               some == DiffTouched(tracker, scene, anyNonce)
    <2> SUFFICES ASSUME IInv, SInv, StampedAnew, ~disposed, ~timer, ~InFlight,
                        status # "too-large"
                 PROVE  IsEmpty(all)
      BY DEF NothingIsStranded
    <2>1. anyNonce \in [Ids -> Nonces]
      BY AutosaveAssumption
    <2>2. tracker.touched = <<>>
      BY DEF SInv, Rested
    <2>3. tracker.touched # Everything /\ Range(tracker.touched) = {}
      BY <2>2, EmptyRange, SceneDiffAssumption
    <2>4. \A id \in Ids : some.elements[id] = Absent
      <3> DEFINE changes == [id \in Ids |-> IF id \in Range(tracker.touched)
                                            THEN Change(tracker, scene, id, anyNonce[id])
                                            ELSE Absent]
      <3>1. some.elements = changes
        BY DEF DiffTouched, PatchOver
      <3>2. \A id \in Ids : changes[id] = Absent
        BY <2>3
      <3>3. QED
        BY <3>1, <3>2
    <2> HIDE DEF anyNonce
    <2>5. /\ all.elements = some.elements /\ all.order = Absent /\ all.list \in Seq(Ids)
          /\ Range(all.list) = {id \in Ids : all.elements[id] # Absent}
      BY <2>1, <2>3, NotesFindAll
    <2> HIDE DEF all, some
    <2>6. all.list = <<>>
      BY <2>4, <2>5, EmptyIfRange
    <2>7. QED
      BY <2>5, <2>6 DEF IsEmpty
  <1>2. Spec => []IInv
    BY EverythingIsAccountedFor
  <1>3. QED
    BY <1>1, <1>2, OrderIsAccountedFor, PTL

-----------------------------------------------------------------------------
(* The stack on the board.  The order acknowledged is a guess of what the   *)
(* server makes of each request.  It guesses right on a board without       *)
(* images, that nothing disturbs and where no delete is undone: the board   *)
(* has what the tracker knows, tombstones included, and its places go up    *)
(* along the order acknowledged.                                            *)
Orderly == undone = {} /\ Images = {} /\ Undisturbed

NoTwins ==
    /\ IsInjective(stack)
    /\ tracker.touched # Everything => IsInjective(tracker.touched)
    /\ InFlight => /\ IsInjective(sending.list)
                   /\ sending.order # Absent => IsInjective(sending.order)

(* A save is armed only while there is something to do. *)
Timed == timer => ~InFlight /\ status \in {"pending", "error"}

(* The one request of a patch in flight has its list and its order. *)
OnePart == InFlight => parts[1].list = sending.list /\ parts[1].order = sending.order

(* What is known to be gone, or will be, stays gone. *)
DeadStay ==
    /\ \A id \in Ids : Gone(tracker.known, id) => ~LiveOf(scene, id)
    /\ InFlight => \A id \in Ids : /\ Gone(sending.elements, id) => ~LiveOf(scene, id)
                                   /\ LiveOf(sending.elements, id) => ~Gone(tracker.known, id)

(* Every element of the board has a place, none above their number. *)
Slots ==
    /\ board.place \in Places
    /\ \A id \in Ids : /\ board.place[id] # 0 <=> board.elements[id] # Absent
                       /\ board.place[id] <= Cardinality(Present(board.place))

Mirrors == \A id \in Ids : Alike(board.elements[id], tracker.known[id])

Climbs(place, list) == \A x, y \in Ids : Precedes(x, y, list) => place[x] < place[y]

OInv ==
    /\ NoTwins /\ Timed
    /\ Orderly => OnePart /\ DeadStay /\ Slots /\ Mirrors /\ Climbs(board.place, tracker.order)

LEMMA QuietPlaces ==
    ASSUME OInv, Timed', UNCHANGED <<scene, stack, board, tracker, sending, parts>>,
           Orderly' => Orderly
    PROVE  OInv'
  <1>1. InFlight' = InFlight
    BY DEF InFlight
  <1>2. NoTwins'
    BY <1>1 DEF OInv, NoTwins
  <1>3. ASSUME Orderly
        PROVE  OnePart' /\ DeadStay' /\ Slots' /\ Mirrors' /\ Climbs(board.place, tracker.order)'
    <2>1. OnePart /\ DeadStay /\ Slots /\ Mirrors /\ Climbs(board.place, tracker.order)
      BY <1>3 DEF OInv
    <2>2. OnePart' /\ DeadStay'
      BY <1>1, <2>1 DEF OnePart, DeadStay, LiveOf, Gone
    <2>3. Slots' /\ Mirrors' /\ Climbs(board.place, tracker.order)'
      BY <2>1 DEF Slots, Mirrors, Climbs
    <2>4. QED
      BY <2>2, <2>3
  <1>4. QED
    BY <1>2, <1>3 DEF OInv

(* A change of the page's that is noted. *)
LEMMA ReportPlaces ==
    ASSUME LInv, OInv, NEW noted, Report(noted), IsInjective(stack'),
           noted.known = tracker.known, noted.order = tracker.order,
           noted.touched # Everything => IsInjective(noted.touched),
           Orderly' => /\ Orderly
                       /\ \A id \in Ids : LiveOf(scene', id) =>
                                              LiveOf(scene, id) \/ scene[id] = Absent
    PROVE  OInv'
  <1>1. UNCHANGED <<board, sending, parts>> /\ tracker' = noted /\ InFlight' = InFlight
    BY DEF Report, Notify, InFlight
  <1>2. NoTwins'
    BY <1>1 DEF OInv, NoTwins
  <1>3. Timed'
    BY <1>1 DEF OInv, Timed, Report, Notify
  <1>4. ASSUME Orderly, \A id \in Ids : LiveOf(scene', id) => LiveOf(scene, id) \/ scene[id] = Absent
        PROVE  OnePart' /\ DeadStay' /\ Slots' /\ Mirrors' /\ Climbs(board.place, tracker.order)'
    <2>1. OnePart /\ DeadStay /\ Slots /\ Mirrors /\ Climbs(board.place, tracker.order)
      BY <1>4 DEF OInv
    <2>2. OnePart' /\ Slots' /\ Mirrors' /\ Climbs(board.place, tracker.order)'
      BY <1>1, <2>1 DEF OnePart, Slots, Mirrors, Climbs
    <2>3. \A id \in Ids : /\ Counts(tracker.known[id], scene[id])
                          /\ InFlight => Counts(sending.elements[id], scene[id])
      BY <1>4 DEF LInv, CountedUp, Orderly, Undisturbed
    <2>4. \A id \in Ids : /\ Gone(tracker.known, id) => scene[id] # Absent
                          /\ InFlight /\ Gone(sending.elements, id) => scene[id] # Absent
      BY <2>3 DEF Gone, Counts
    <2>5. DeadStay'
      BY <1>1, <1>4, <2>1, <2>4 DEF DeadStay, Gone, LiveOf
    <2>6. QED
      BY <2>2, <2>5
  <1>5. QED
    BY <1>2, <1>3, <1>4 DEF OInv

(* One note more names nothing twice. *)
LEMMA NotedInjective ==
    ASSUME NEW t \in Trackers, NEW id \in Ids, t.touched # Everything => IsInjective(t.touched)
    PROVE  LET noted == NoteChanged(t, id)
           IN  /\ noted \in Trackers /\ noted.known = t.known /\ noted.order = t.order
               /\ noted.touched # Everything => IsInjective(noted.touched)
  <1> DEFINE noted == NoteChanged(t, id)
  <1>1. /\ noted \in Trackers /\ noted.known = t.known /\ noted.order = t.order
        /\ t.touched = Everything => noted.touched = Everything
        /\ t.touched # Everything =>
              /\ noted.touched # Everything /\ t.touched \in Seq(Ids)
              /\ noted.touched = IF id \in Range(t.touched) THEN t.touched
                                 ELSE Append(t.touched, id)
    BY NotedList
  <1>2. t.touched # Everything /\ id \notin Range(t.touched) => IsInjective(Append(t.touched, id))
    BY <1>1, LongerInjective
  <1>3. QED
    BY <1>1, <1>2

LEMMA UserPlaces ==
    ASSUME IInv, LInv, SInv, OInv, UserActs
    PROVE  OInv'
  <1>1. PICK id \in Ids :
            Draw(id) \/ DrawBelow(id) \/ Edit(id) \/ Erase(id) \/ Undelete(id) \/ Restack(id)
    BY DEF UserActs
  <1>2. /\ stack \in Seq(Ids) /\ tracker \in Trackers /\ scene \in Scene
        /\ Range(stack) \subseteq Here /\ IsInjective(stack)
        /\ tracker.touched # Everything => IsInjective(tracker.touched)
    BY DEF IInv, Types, SInv, OnlyDrawn, OInv, NoTwins
  <1> DEFINE t == NoteChanged(tracker, id)
  <1>3. /\ t \in Trackers /\ t.known = tracker.known /\ t.order = tracker.order
        /\ t.touched # Everything => IsInjective(t.touched)
    BY <1>2, NotedInjective
  <1>4. \A u \in Trackers : LET noted == NoteEverything(u)
                            IN  /\ noted.touched = Everything
                                /\ noted.known = u.known /\ noted.order = u.order
    BY NoteAllList
  <1>5. ASSUME UNCHANGED undone
        PROVE  Orderly' => Orderly
    <2>1. Draw(id) \/ DrawBelow(id) \/ Edit(id) \/ Erase(id) \/ Undelete(id) \/ Restack(id)
              => UNCHANGED <<failures, peerWrites>>
      BY DEF Draw, DrawBelow, Edit, Erase, Undelete, Restack, Report
    <2>2. QED
      BY <1>1, <1>5, <2>1 DEF Orderly, Undisturbed
  <1>6. scene[id] = Absent => id \notin Range(stack)
    BY <1>2 DEF Here
  <1>7. CASE Draw(id)
    <2>1. /\ scene[id] = Absent /\ stack' = Append(stack, id) /\ UNCHANGED undone /\ Report(t)
          /\ \E nonce \in Nonces : scene' = [scene EXCEPT ![id] = Drawn(id, nonce)]
      BY <1>7 DEF Draw
    <2>2. IsInjective(stack')
      BY <1>2, <1>6, <2>1, LongerInjective
    <2>3. \A other \in Ids : LiveOf(scene', other) => LiveOf(scene, other) \/ scene[other] = Absent
      BY <1>2, <2>1 DEF LiveOf, Scene
    <2> HIDE DEF t
    <2>4. QED
      BY <1>3, <1>5, <2>1, <2>2, <2>3, ReportPlaces
  <1>8. CASE DrawBelow(id)
    <2>1. /\ scene[id] = Absent /\ stack' = <<id>> \o stack /\ UNCHANGED undone
          /\ Report(NoteEverything(t))
          /\ \E nonce \in Nonces : scene' = [scene EXCEPT ![id] = Drawn(id, nonce)]
      BY <1>8 DEF DrawBelow
    <2>2. <<id>> \in Seq(Ids) /\ IsInjective(<<id>>) /\ Range(<<id>>) = {id}
      BY OneInjective
    <2>3. IsInjective(<<id>> \o stack)
      BY <1>2, <1>6, <2>1, <2>2, ConcatInjective
    <2>4. \A other \in Ids : LiveOf(scene', other) => LiveOf(scene, other) \/ scene[other] = Absent
      BY <1>2, <2>1 DEF LiveOf, Scene
    <2> HIDE DEF t
    <2>5. IsInjective(stack')
      BY <2>1, <2>3, Zenon
    <2> DEFINE noted == NoteEverything(t)
    <2>6. noted.touched = Everything /\ noted.known = tracker.known /\ noted.order = tracker.order
      BY <1>3, <1>4
    <2>7. Report(noted) /\ UNCHANGED undone
      BY <2>1
    <2> HIDE DEF noted
    <2>8. QED
      BY <1>5, <2>4, <2>5, <2>6, <2>7, ReportPlaces
  <1>9. CASE Edit(id) \/ Erase(id)
    <2>1. /\ LiveOf(scene, id) /\ stack' = stack /\ UNCHANGED undone /\ Report(t)
      BY <1>9 DEF Edit, Erase
    <2>2. \A other \in Ids \ {id} : scene'[other] = scene[other]
      BY <1>2, <1>9 DEF Edit, Erase, Scene
    <2>3. \A other \in Ids : LiveOf(scene', other) => LiveOf(scene, other) \/ scene[other] = Absent
      BY <2>1, <2>2 DEF LiveOf
    <2> HIDE DEF t
    <2>4. QED
      BY <1>2, <1>3, <1>5, <2>1, <2>3, ReportPlaces
  <1>10. CASE Undelete(id)
    <2>1. Report(NoteEverything(tracker)) /\ stack' = stack
      BY <1>10 DEF Undelete
    <2>2. undone' # {}
      BY <1>10 DEF Undelete
    <2> DEFINE noted == NoteEverything(tracker)
    <2>3. noted.touched = Everything /\ noted.known = tracker.known /\ noted.order = tracker.order
      BY <1>2, <1>4
    <2>4. Report(noted)
      BY <2>1
    <2> HIDE DEF noted
    <2>5. ~Orderly'
      BY <2>2 DEF Orderly
    <2>6. QED
      BY <1>2, <2>1, <2>3, <2>4, <2>5, ReportPlaces
  <1>11. CASE Restack(id)
    <2>1. /\ scene' = scene /\ UNCHANGED undone /\ Report(NoteEverything(tracker))
          /\ stack' = Append(Only[Ids \ {id}][stack], id)
      BY <1>11 DEF Restack
    <2> DEFINE rest == Ids \ {id}
               others == Only[rest][stack]
               noted == NoteEverything(tracker)
    <2>2. others \in Seq(Ids) /\ Range(others) = Range(stack) \cap rest /\ IsInjective(others)
      BY <1>2, OnlyFacts, OnlyInjective
    <2>3. id \notin Range(others)
      BY <2>2
    <2>4. stack' = Append(others, id)
      BY <2>1
    <2> HIDE DEF others
    <2>5. IsInjective(stack')
      BY <2>2, <2>3, <2>4, LongerInjective
    <2>6. noted.touched = Everything /\ noted.known = tracker.known /\ noted.order = tracker.order
      BY <1>2, <1>4
    <2>7. Report(noted)
      BY <2>1
    <2> HIDE DEF noted
    <2>8. \A other \in Ids : LiveOf(scene', other) => LiveOf(scene, other) \/ scene[other] = Absent
      BY <2>1
    <2>9. QED
      BY <1>5, <2>1, <2>5, <2>6, <2>7, <2>8, ReportPlaces
  <1>12. QED
    BY <1>1, <1>7, <1>8, <1>9, <1>10, <1>11

(* A diff names nothing twice, declares the order shown or none, and brings *)
(* nothing back from the dead.                                              *)
LEMMA PatchPlaces ==
    ASSUME IInv, LInv, OInv, NEW patch \in Patches
    PROVE  /\ IsInjective(patch.list)
           /\ patch.order # Absent => IsInjective(patch.order)
           /\ Orderly => \A id \in Ids : /\ Gone(patch.elements, id) => ~LiveOf(scene, id)
                                         /\ LiveOf(patch.elements, id) => ~Gone(tracker.known, id)
  <1>1. PICK nonces \in [Ids -> Nonces] : patch = Diff(tracker, scene, Shown, nonces)
    BY DEF Patches
  <1>2. /\ tracker \in Trackers /\ scene \in Scene /\ stack \in Seq(Ids) /\ IsInjective(stack)
        /\ tracker.touched # Everything => IsInjective(tracker.touched)
    BY DEF IInv, Types, OInv, NoTwins
  <1> DEFINE shown == Shown
  <1>3. shown \in Seq(Ids) /\ Range(shown) = LiveIds(scene)
    BY ShownFacts
  <1>4. IsInjective(shown)
    <2> DEFINE live == LiveIds(scene)
    <2>1. live \in SUBSET Ids
      BY DEF LiveIds
    <2> HIDE DEF live
    <2>2. IsInjective(Only[live][stack])
      BY <1>2, <2>1, OnlyInjective
    <2>3. QED
      BY <2>2 DEF Shown, live
  <1>5. patch = Diff(tracker, scene, shown, nonces)
    BY <1>1
  <1> HIDE DEF shown
  <1>6. IsInjective(patch.list) /\ patch.order \in {Absent, shown}
    BY <1>2, <1>3, <1>4, <1>5, DiffInjective
  <1>7. \A id \in Ids : /\ patch.elements[id] # Absent => NotedId(id)
                        /\ NotedId(id) /\ patch.elements[id] # Absent =>
                              (LiveOf(patch.elements, id) <=> LiveOf(scene, id))
    BY PatchOrders
  <1>8. ASSUME Orderly, NEW id \in Ids
        PROVE  /\ Gone(patch.elements, id) => ~LiveOf(scene, id)
               /\ LiveOf(patch.elements, id) => ~Gone(tracker.known, id)
    <2>1. Gone(tracker.known, id) => ~LiveOf(scene, id)
      BY <1>8 DEF OInv, DeadStay
    <2>2. QED
      BY <1>7, <2>1 DEF Gone, LiveOf, IsLive
  <1>9. QED
    BY <1>4, <1>6, <1>8

LEMMA RunPlaces ==
    ASSUME IInv, LInv, OInv, ~InFlight, Run, ~timer',
           UNCHANGED <<scene, stack, undone, board, failures, peerWrites>>
    PROVE  OInv'
  <1>1. PICK patch \in Patches :
            /\ tracker' = Diffed(tracker, patch)
            /\ IF IsEmpty(patch)
               THEN status' = "idle" /\ UNCHANGED <<sending, parts>>
               ELSE /\ status' = "saving" /\ sending' = patch
                    /\ parts' = Split([patch EXCEPT !.elements = Strip(held, @)])
    BY DEF Run
  <1>2. tracker \in Trackers /\ patch \in Diffs
    BY PatchOrders DEF IInv, Types
  <1>3. /\ tracker' \in Trackers /\ tracker'.known = tracker.known /\ tracker'.order = tracker.order
        /\ ~IsEmpty(patch) => tracker'.touched = tracker.touched
        /\ IsEmpty(patch) => tracker'.touched # Everything /\ Range(tracker'.touched) = {}
    BY <1>1, <1>2, DiffedFacts, DiffedOrder
  <1>4. /\ IsInjective(patch.list)
        /\ patch.order # Absent => IsInjective(patch.order)
        /\ Orderly => \A id \in Ids : /\ Gone(patch.elements, id) => ~LiveOf(scene, id)
                                      /\ LiveOf(patch.elements, id) => ~Gone(tracker.known, id)
    BY PatchPlaces
  <1>5. InFlight' => sending' = patch /\ ~IsEmpty(patch)
    BY <1>1 DEF InFlight
  <1>6. NoTwins'
    <2>1. tracker'.touched # Everything => IsInjective(tracker'.touched)
      <3>1. CASE IsEmpty(patch)
        <4>1. tracker'.touched = <<>>
          BY <1>3, <3>1, EmptyIfRange DEF Trackers
        <4>2. IsInjective(<<>>)
          BY EmptySeq DEF IsInjective
        <4>3. QED
          BY <4>1, <4>2
      <3>2. CASE ~IsEmpty(patch)
        BY <1>3, <3>2 DEF OInv, NoTwins
      <3>3. QED
        BY <3>1, <3>2
    <2>2. QED
      BY <1>4, <1>5, <2>1 DEF OInv, NoTwins
  <1>7. Timed' /\ Orderly' = Orderly
    BY DEF Timed, Orderly, Undisturbed
  <1>8. ASSUME Orderly
        PROVE  OnePart' /\ DeadStay' /\ Slots' /\ Mirrors' /\ Climbs(board.place, tracker.order)'
    <2>1. OnePart /\ DeadStay /\ Slots /\ Mirrors /\ Climbs(board.place, tracker.order)
      BY <1>8 DEF OInv
    <2>2. Slots' /\ Mirrors' /\ Climbs(board.place, tracker.order)'
      BY <1>3, <2>1 DEF Slots, Mirrors, Climbs
    <2>3. DeadStay'
      BY <1>3, <1>4, <1>5, <1>8, <2>1 DEF DeadStay, LiveOf, Gone
    <2>4. OnePart'
      <3> SUFFICES ASSUME InFlight'
                   PROVE  parts'[1].list = sending'.list /\ parts'[1].order = sending'.order
        BY DEF OnePart
      <3> DEFINE stripped == Strip(held, patch.elements)
                 sent == [patch EXCEPT !.elements = stripped]
      <3>1. sending' = patch /\ parts' = Split(sent)
        BY <1>1, <1>2, <1>5 DEF Diffs
      <3>2. /\ stripped \in Scene
            /\ \A id \in Ids : HasPicture(stripped[id]) => HasPicture(patch.elements[id])
        BY <1>2, StripFacts DEF Diffs
      <3> HIDE DEF stripped
      <3>3. sent \in Diffs /\ sent.elements = stripped /\ sent.list = patch.list /\ sent.order = patch.order
        BY <1>2, <3>2 DEF Diffs
      <3> HIDE DEF sent
      <3>4. WithPicture(stripped) = {}
        <4>1. \A id \in Ids : scene[id] # Absent => scene[id].picture = NoPicture
          BY <1>8 DEF LInv, Plain, Orderly
        <4>2. \A id \in Ids : HasPicture(patch.elements[id]) => HasPicture(scene[id])
          BY PatchFlips
        <4>3. \A id \in Ids : ~HasPicture(stripped[id])
          BY <3>2, <4>1, <4>2 DEF HasPicture, IsLive
        <4>4. QED
          BY <4>3 DEF WithPicture
      <3>5. parts' = <<sent>>
        BY <3>1, <3>3, <3>4, SplitPlain
      <3>6. QED
        BY <3>1, <3>3, <3>5
    <2>5. QED
      BY <2>2, <2>3, <2>4
  <1>9. QED
    BY <1>6, <1>7, <1>8 DEF OInv

LEMMA SaverPlaces ==
    ASSUME IInv, LInv, OInv, TimerFires \/ Flush \/ ResumeFlush \/ Dispose
    PROVE  OInv'
  <1>1. UNCHANGED <<scene, stack, undone, board, failures, peerWrites>> /\ ~timer'
    BY DEF TimerFires, Flush, ResumeFlush, Dispose
  <1>2. CASE ~InFlight /\ Run
    BY <1>1, <1>2, RunPlaces
  <1>3. CASE UNCHANGED <<tracker, sending, parts>>
    <2>1. Timed' /\ Orderly' = Orderly
      BY <1>1 DEF Timed, Orderly, Undisturbed
    <2>2. QED
      BY <1>1, <1>3, <2>1, QuietPlaces
  <1>4. QED
    BY <1>2, <1>3 DEF TimerFires, Flush, ResumeFlush, FlushResumes, Dispose

(* A request that fails leaves the board as it was, where answers that get  *)
(* lost are no disturbance.                                                 *)
LEMMA FailedPlaces ==
    ASSUME LInv, OInv, Failed \/ Refused
    PROVE  OInv'
  <1>1. /\ ~InFlight' /\ UNCHANGED <<scene, stack, undone, tracker, peerWrites>>
        /\ failures' = failures + 1 /\ InFlight
    BY DEF Failed, FailedThen, Refused, Landed, InFlight
  <1>2. NoTwins'
    BY <1>1 DEF OInv, NoTwins
  <1>3. ~timer
    BY <1>1 DEF OInv, Timed
  <1>4. Timed'
    BY <1>1, <1>3 DEF Timed, Failed, FailedThen, Refused, FollowUp
  <1>5. ASSUME Orderly'
        PROVE  Orderly /\ board' = board
    <2>1. failures \in Nat
      BY DEF LInv, Numbers
    <2>2. failures' # 0
      BY <1>1, <2>1
    <2>3. ~AnswersGetLost /\ Images = {}
      BY <1>5, <2>2 DEF Orderly, Undisturbed
    <2>4. QED
      BY <1>1, <1>5, <2>3 DEF Orderly, Undisturbed, Failed, FailedThen, Refused
  <1>6. ASSUME Orderly'
        PROVE  OnePart' /\ DeadStay' /\ Slots' /\ Mirrors' /\ Climbs(board.place, tracker.order)'
    <2>1. Orderly /\ board' = board
      BY <1>5, <1>6
    <2>2. OnePart' /\ DeadStay' /\ Slots' /\ Mirrors' /\ Climbs(board.place, tracker.order)'
      BY <1>1, <2>1 DEF OInv, OnePart, DeadStay, Slots, Mirrors, Climbs, Gone, LiveOf
    <2>3. QED
      BY <2>2
  <1>7. QED
    BY <1>2, <1>4, <1>6 DEF OInv

LEMMA PeerPlaces ==
    ASSUME LInv, OInv, PeerWrite
    PROVE  OInv'
  <1>1. /\ UNCHANGED <<scene, stack, tracker, sending, parts, timer, status>>
        /\ peerWrites' = peerWrites + 1 /\ peerWrites \in Nat
    BY DEF PeerWrite, saver, LInv, Numbers
  <1>2. ~Orderly'
    BY <1>1 DEF Orderly, Undisturbed
  <1>3. InFlight' = InFlight
    BY <1>1 DEF InFlight
  <1>4. NoTwins' /\ Timed'
    BY <1>1, <1>3 DEF OInv, NoTwins, Timed
  <1>5. QED
    BY <1>2, <1>4 DEF OInv

(* The request of a patch that is one request. *)
LEMMA TheRequest ==
    ASSUME IInv, LInv, SInv, OInv, Accepted, Orderly
    PROVE  \E part \in Diffs :
              /\ board'.elements = Written(board, Request(part)).elements
              /\ board'.place = Written(board, Request(part)).place
              /\ part.list = sending.list /\ part.order = sending.order
              /\ \A id \in Ids : Alike(part.elements[id], sending.elements[id])
              /\ Range(part.list) = Named(part) /\ Named(part) = Named(sending)
  <1>1. InFlight /\ board' = Served(board, Head(parts)) /\ board.elements \in Scene
    BY DEF Accepted, IInv, Types
  <1>2. parts \in Seq(Diffs) /\ parts # <<>>
    BY <1>1 DEF IInv, Types, OnItsWay
  <1>3. Head(parts) \in Diffs /\ Head(parts) = parts[1] /\ 1 \in DOMAIN parts
    BY <1>2, HeadTailProperties, LenProperties, EmptySeq
  <1>4. PICK part \in Diffs : part = parts[1] /\ board' = Served(board, part)
    BY <1>1, <1>3
  <1>5. part.list = sending.list /\ part.order = sending.order
    BY <1>1, <1>4 DEF OInv, OnePart
  <1>6. \A id \in Ids : Alike(part.elements[id], sending.elements[id])
    BY <1>1, <1>3, <1>4 DEF LInv, LikeSent
  <1>7. Named(part) = Named(sending)
    BY <1>6 DEF Named, Alike
  <1>8. Range(part.list) = Named(part)
    BY <1>1, <1>5, <1>7 DEF SInv, OrderIsLive
  <1>9. /\ board'.elements = Written(board, Request(part)).elements
        /\ board'.place = Written(board, Request(part)).place
    BY <1>4, RequestFacts DEF Served, Written, NextDocument
  <1>10. QED
    BY <1>5, <1>6, <1>7, <1>8, <1>9

(* What the server makes of it is what the tracker takes it for. *)
LEMMA BoardMirrors ==
    ASSUME IInv, LInv, SInv, OInv, Accepted, Orderly
    PROVE  /\ \A id \in Ids : Alike(board'.elements[id], After(id))
           /\ \A id \in Ids : board'.elements[id] # Absent <=>
                                  board.elements[id] # Absent \/ id \in Named(sending)
  <1>1. PICK part \in Diffs :
            /\ board'.elements = Written(board, Request(part)).elements
            /\ \A id \in Ids : Alike(part.elements[id], sending.elements[id])
            /\ Range(part.list) = Named(part) /\ Named(part) = Named(sending)
    BY TheRequest
  <1>2. PICK o : o = Request(part)
    OBVIOUS
  <1>3. /\ o.kind = "patch" /\ o.patch.elements \in Scene
        /\ \A id \in Ids : o.patch.elements[id] = IF id \in Range(part.list)
                                                  THEN part.elements[id] ELSE Absent
    BY <1>2, RequestFacts
  <1>4. InFlight /\ board.elements \in Scene /\ sending \in Diffs /\ tracker.known \in Scene
    BY DEF Accepted, IInv, Types, InFlight, Trackers
  <1>5. PICK after : after = Written(board, o).elements
    OBVIOUS
  <1>6. /\ after \in Scene
        /\ \A id \in Ids :
              /\ Older(board.elements[id], after[id])
              /\ Older(o.patch.elements[id], after[id])
              /\ \/ Alike(after[id], board.elements[id])
                 \/ o.patch.elements[id] # Absent /\ Alike(after[id], o.patch.elements[id])
    BY <1>3, <1>4, <1>5, WriteFacts
  <1>7. board'.elements = after
    BY <1>1, <1>2, <1>5
  <1>8. ASSUME NEW id \in Ids
        PROVE  /\ Alike(after[id], After(id))
               /\ after[id] # Absent <=> board.elements[id] # Absent \/ id \in Named(sending)
    <2>1. PICK x, y, z, k, s :
              /\ x = after[id] /\ y = board.elements[id] /\ z = o.patch.elements[id]
              /\ k = tracker.known[id] /\ s = sending.elements[id]
      OBVIOUS
    <2>2. x \in Entry /\ y \in Entry /\ z \in Entry /\ k \in Entry /\ s \in Entry
      BY <1>3, <1>4, <1>6, <2>1 DEF Scene, Diffs
    <2>3. Older(y, x) /\ Older(z, x) /\ (Alike(x, y) \/ (z # Absent /\ Alike(x, z)))
      BY <1>6, <2>1
    <2>4. Alike(z, s)
      <3>1. CASE id \in Range(part.list)
        BY <1>1, <1>3, <2>1, <3>1
      <3>2. CASE id \notin Range(part.list)
        <4>1. s = Absent
          BY <1>1, <2>1, <3>2 DEF Named
        <4>2. QED
          BY <1>3, <2>1, <3>2, <4>1 DEF Alike
      <3>3. QED
        BY <3>1, <3>2
    <2>5. Alike(y, k)
      BY <2>1 DEF OInv, Mirrors
    <2>6. s # Absent /\ k # Absent => s.version > k.version
      BY <1>4, <2>1 DEF LInv, CountedUp, Orderly
    <2>7. After(id) = IF s = Absent THEN k ELSE s
      BY <2>1 DEF After
    <2>8. id \in Named(sending) <=> s # Absent
      BY <2>1 DEF Named
    <2>9. CASE s = Absent
      <3>1. z = Absent
        BY <2>4, <2>9 DEF Alike
      <3>2. Alike(x, y)
        BY <2>3, <3>1
      <3>3. Alike(x, k) /\ (x # Absent <=> y # Absent)
        BY <2>5, <3>2 DEF Alike
      <3>4. QED
        BY <2>1, <2>7, <2>8, <2>9, <3>3
    <2>10. CASE s # Absent
      <3>1. z # Absent /\ z.version = s.version
        BY <2>4, <2>10 DEF Alike
      <3>2. x # Absent
        BY <2>3, <3>1 DEF Older
      <3>3. Alike(x, z)
        <4> SUFFICES ASSUME Alike(x, y) PROVE FALSE
          BY <2>3
        <4>1. k # Absent /\ x.version = k.version
          BY <2>5, <3>2 DEF Alike
        <4>2. z.version > x.version
          BY <2>6, <2>10, <3>1, <4>1
        <4>3. ~IsNewer(z, x)
          BY <2>3, <3>1 DEF Older
        <4>4. QED
          BY <4>2, <4>3 DEF IsNewer
      <3>4. Alike(x, s)
        BY <2>4, <3>3 DEF Alike
      <3>5. QED
        BY <2>1, <2>7, <2>8, <2>10, <3>2, <3>4
    <2>11. QED
      BY <2>9, <2>10
  <1>9. QED
    BY <1>7, <1>8

(* ... and the order it is expected to arrive at, the one it arrives at.    *)
LEMMA BoardClimbs ==
    ASSUME IInv, LInv, SInv, OInv, Accepted, Orderly
    PROVE  /\ board'.place \in Places
           /\ \A id \in Ids : board'.place[id] # 0 <=>
                                  board.place[id] # 0 \/ id \in Named(sending)
           /\ \A id \in Ids : board'.place[id] <= Cardinality(Present(board'.place))
           /\ Climbs(board'.place, Ahead)
  <1>1. PICK part \in Diffs :
            /\ board'.place = Written(board, Request(part)).place
            /\ part.list = sending.list /\ part.order = sending.order
            /\ \A id \in Ids : Alike(part.elements[id], sending.elements[id])
            /\ Range(part.list) = Named(part) /\ Named(part) = Named(sending)
    BY TheRequest
  <1>2. /\ InFlight /\ tracker \in Trackers /\ sending \in Diffs
        /\ IsInjective(sending.list) /\ (sending.order # Absent => IsInjective(sending.order))
        /\ Slots /\ Mirrors /\ DeadStay /\ Climbs(board.place, tracker.order)
        /\ OrderIsLive
    BY DEF Accepted, IInv, Types, InFlight, OInv, NoTwins, SInv
  <1>3. PICK m : m = Written(board, Request(part)).place
    OBVIOUS
  <1>4. /\ board.place \in Places
        /\ \A id \in Ids : /\ board.place[id] # 0 <=> board.elements[id] # Absent
                           /\ board.place[id] <= Cardinality(Present(board.place))
    BY <1>2 DEF Slots
  <1>5. IsInjective(part.list) /\ (part.order # Absent => IsInjective(part.order))
    BY <1>1, <1>2
  <1>6. /\ m \in Places
        /\ \A id \in Ids : m[id] # 0 <=> board.place[id] # 0 \/ id \in Range(part.list)
        /\ \A id \in Ids : m[id] <= Cardinality(Present(m))
    BY <1>3, <1>4, <1>5, ServedPlaces
  <1>7. PICK order \in Seq(Ids) : order = tracker.order
    BY <1>2 DEF Trackers
  <1>8. \A id \in Ids : board.place[id] # 0 <=> tracker.known[id] # Absent
    BY <1>2, <1>4 DEF Mirrors, Alike
  <1>9. \A id \in Ids : id \in Range(order) <=> LiveOf(tracker.known, id)
    BY <1>2, <1>7 DEF OrderIsLive, LiveIds, LiveOf
  <1>10. \A id \in Range(order) : id \in Ids /\ board.place[id] # 0
    BY <1>7, <1>8, <1>9, RangeOfSeq DEF LiveOf, IsLive
  <1>11. \A id \in Ids : LiveOf(part.elements, id) /\ board.place[id] # 0 => id \in Range(order)
    <2>1. \A id \in Ids : LiveOf(part.elements, id) <=> LiveOf(sending.elements, id)
      BY <1>1 DEF Alike, LiveOf, IsLive
    <2>2. \A id \in Ids : LiveOf(sending.elements, id) => ~Gone(tracker.known, id)
      BY <1>2 DEF DeadStay
    <2>3. QED
      BY <1>8, <1>9, <2>1, <2>2 DEF Gone, LiveOf, IsLive
  <1>12. \A x, y \in Ids : Precedes(x, y, order) => board.place[x] < board.place[y]
    BY <1>2, <1>7 DEF Climbs
  <1>13. part.order # Absent => \A id \in Range(part.order) : board.place[id] # 0 \/ id \in Named(part)
    <2>1. part.order # Absent => Range(part.order) = {id \in Ids : IsLive(After(id))}
      BY <1>1, <1>2 DEF OrderIsLive
    <2>2. \A id \in Ids : IsLive(After(id)) => board.place[id] # 0 \/ id \in Named(sending)
      BY <1>8 DEF After, Named, IsLive
    <2>3. QED
      BY <1>1, <2>1, <2>2
  <1> DEFINE ahead == IF part.order # Absent THEN part.order
                      ELSE PredictOrder(order, part.elements, part.list)
  <1>14. \A x, y \in Ids : Precedes(x, y, ahead) => m[x] < m[y]
    BY <1>1, <1>3, <1>4, <1>5, <1>10, <1>11, <1>12, <1>13, OrderIsPredicted
  <1>15. ahead = Ahead
    <2>1. PredictOrder(order, part.elements, part.list) = PredictOrder(order, sending.elements, part.list)
      <3>1. LiveIds(part.elements) = LiveIds(sending.elements)
        BY <1>1 DEF LiveIds, IsLive, Alike
      <3>2. {id \in Ids : part.elements[id] = Absent \/ ~part.elements[id].isDeleted}
                = {id \in Ids : sending.elements[id] = Absent \/ ~sending.elements[id].isDeleted}
        BY <1>1 DEF Alike
      <3>3. QED
        BY <3>1, <3>2, Zenon DEF PredictOrder
    <2>2. QED
      BY <1>1, <1>7, <2>1 DEF Ahead
  <1> HIDE DEF ahead
  <1>16. QED
    BY <1>1, <1>3, <1>6, <1>14, <1>15 DEF Climbs

LEMMA AcceptedPlaces ==
    ASSUME IInv, LInv, SInv, OInv, Accepted
    PROVE  OInv'
  <1>1. /\ InFlight /\ UNCHANGED <<scene, stack, undone, disposed, failures, peerWrites>>
        /\ tracker \in Trackers
    BY DEF Accepted, IInv, Types
  <1>2. ~timer
    BY <1>1 DEF OInv, Timed
  <1>3. CASE Len(parts) > 1
    <2>1. UNCHANGED <<tracker, timer, sending, status>>
      BY <1>3 DEF Accepted
    <2>2. InFlight' = InFlight
      BY <2>1 DEF InFlight
    <2>3. NoTwins' /\ Timed'
      BY <1>1, <2>1, <2>2 DEF OInv, NoTwins, Timed
    <2>4. ~Orderly'
      <3>1. Images = {} => Len(parts) = 1
        BY <1>1 DEF LInv, Plain
      <3> DEFINE n == Len(parts)
      <3>2. n \in Nat /\ n > 1
        BY <1>3, LenProperties DEF IInv, Types
      <3> HIDE DEF n
      <3>3. n # 1
        BY <3>2
      <3>4. QED
        BY <3>1, <3>3 DEF Orderly, n
    <2>5. QED
      BY <2>3, <2>4 DEF OInv
  <1>4. CASE ~(Len(parts) > 1)
    <2>1. /\ tracker'.order = Ahead
          /\ \A id \in Ids : tracker'.known[id] = After(id)
          /\ tracker.touched # Everything => tracker'.touched = Only[tracker.since][tracker.touched]
          /\ tracker.touched = Everything =>
                tracker'.touched = IF tracker.full /\ tracker.quiet THEN <<>> ELSE Everything
      BY <1>4, LandedOrder
    <2>2. ~InFlight'
      BY <1>4 DEF Accepted, Landed, InFlight
    <2>3. tracker'.touched # Everything => IsInjective(tracker'.touched)
      <3>1. CASE tracker.touched # Everything
        <4>1. tracker.touched \in Seq(Ids) /\ tracker.since \in SUBSET Ids /\ IsInjective(tracker.touched)
          BY <1>1, <3>1 DEF Trackers, OInv, NoTwins
        <4>2. IsInjective(Only[tracker.since][tracker.touched])
          BY <4>1, OnlyInjective
        <4>3. QED
          BY <2>1, <3>1, <4>2
      <3>2. CASE tracker.touched = Everything
        <4>1. IsInjective(<<>>)
          BY EmptySeq DEF IsInjective
        <4>2. QED
          BY <2>1, <3>2, <4>1
      <3>3. QED
        BY <3>1, <3>2
    <2>4. NoTwins'
      BY <1>1, <2>2, <2>3 DEF OInv, NoTwins
    <2>5. Timed'
      BY <1>2, <1>4, <2>2 DEF Timed, Accepted, FollowUp
    <2>6. Orderly' = Orderly
      BY <1>1 DEF Orderly, Undisturbed
    <2>7. ASSUME Orderly
          PROVE  OnePart' /\ DeadStay' /\ Slots' /\ Mirrors' /\ Climbs(board.place, tracker.order)'
      <3>1. OnePart'
        BY <2>2 DEF OnePart
      <3>2. DeadStay'
        <4>1. DeadStay
          BY <2>7 DEF OInv
        <4>2. \A id \in Ids : IsLive(After(id)) \/ After(id) = Absent \/ ~LiveOf(scene, id)
          BY <1>1, <4>1 DEF DeadStay, After, Gone, IsLive
        <4>3. QED
          BY <1>1, <2>1, <2>2, <4>2 DEF DeadStay, Gone, IsLive, LiveOf
      <3>3. Mirrors'
        BY <2>1, <2>7, BoardMirrors DEF Mirrors
      <3>4. Slots'
        <4>1. \A id \in Ids : board.place[id] # 0 <=> board.elements[id] # Absent
          BY <2>7 DEF OInv, Slots
        <4>2. QED
          BY <2>7, <4>1, BoardMirrors, BoardClimbs DEF Slots
      <3>5. Climbs(board.place, tracker.order)'
        BY <2>1, <2>7, BoardClimbs DEF Climbs
      <3>6. QED
        BY <3>1, <3>2, <3>3, <3>4, <3>5
    <2>8. QED
      BY <2>4, <2>5, <2>6, <2>7 DEF OInv
  <1>5. QED
    BY <1>3, <1>4

(* A list as long as the set it goes through names nothing twice. *)
LEMMA OnceEach ==
    ASSUME NEW ids \in SUBSET Ids, NEW order \in [1..Cardinality(ids) -> ids],
           {order[i] : i \in DOMAIN order} = ids
    PROVE  IsInjective(order)
  <1> DEFINE n == Cardinality(ids)
             S == 1..n
  <1>1. n \in Nat
    BY ReconcileAssumption, FS_Subset, FS_CardinalityType
  <1>2. IsFiniteSet(S) /\ Cardinality(S) = n
    BY <1>1, FS_Interval
  <1>3. order \in [S -> ids] /\ DOMAIN order = S /\ \A x \in ids : \E i \in S : order[i] = x
    OBVIOUS
  <1> HIDE DEF S
  <1>4. order \in Surjection(S, ids)
    BY <1>3 DEF Surjection
  <1>5. order \in Injection(S, ids)
    BY <1>2, <1>4, FS_SurjSameCardinalityImpliesInj
  <1>6. QED
    BY <1>3, <1>5 DEF Injection, IsInjective

LEMMA InitPlaces == Init => OInv
  <1> SUFFICES ASSUME Init PROVE OInv
    OBVIOUS
  <1>1. PICK ids \in SUBSET Ids : \E nonce \in Nonces, order \in [1..Cardinality(ids) -> ids] :
            /\ {order[i] : i \in DOMAIN order} = ids
            /\ scene = [id \in Ids |-> IF id \in ids THEN Drawn(id, nonce) ELSE Absent]
            /\ stack = order
            /\ board = [NewBoard EXCEPT !.elements = scene, !.place = PlaceOf(order)]
            /\ tracker = Adopted(scene, order)
            /\ held = ids \cap Images
    BY Zenon DEF Init
  <1>2. PICK nonce \in Nonces, order \in [1..Cardinality(ids) -> ids] :
            /\ {order[i] : i \in DOMAIN order} = ids
            /\ scene = [id \in Ids |-> IF id \in ids THEN Drawn(id, nonce) ELSE Absent]
            /\ stack = order
            /\ board = [NewBoard EXCEPT !.elements = scene, !.place = PlaceOf(order)]
            /\ tracker = Adopted(scene, order)
    BY <1>1, Zenon
  <1>3. /\ tracker.known = scene /\ tracker.order = stack /\ tracker.touched = <<>>
        /\ board.elements = scene /\ board.place = PlaceOf(stack)
    BY <1>2 DEF Adopted, NewBoard
  <1>4. ~InFlight /\ ~timer /\ IInv
    BY InitHolds DEF Init, InFlight
  <1>5. stack \in Seq(Ids) /\ Range(stack) = ids /\ IsInjective(stack)
    BY <1>2, <1>4, OnceEach DEF IInv, Types, Range
  <1>6. \A id \in Ids : Drawn(id, nonce) # Absent /\ ~Drawn(id, nonce).isDeleted
    BY DrawnType, ReconcileAssumption
  <1>7. \A id \in Ids : /\ scene[id] # Absent <=> id \in ids
                        /\ ~Gone(scene, id)
    BY <1>2, <1>6 DEF Gone
  <1>8. NoTwins /\ Timed
    <2>1. IsInjective(<<>>)
      BY DEF IsInjective
    <2>2. QED
      BY <1>3, <1>4, <1>5, <2>1 DEF NoTwins, Timed
  <1>9. OnePart /\ DeadStay
    BY <1>3, <1>4, <1>7 DEF OnePart, DeadStay
  <1>10. Mirrors
    <2>1. \A id \in Ids : Alike(scene[id], scene[id])
      BY DEF Alike
    <2>2. QED
      BY <1>3, <2>1 DEF Mirrors
  <1>11. PICK place : place = PlaceOf(stack)
    OBVIOUS
  <1>12. /\ place \in Places /\ \A id \in Ids : place[id] # 0 <=> id \in ids
         /\ \A x, y \in Ids : Precedes(x, y, stack) => place[x] < place[y]
    BY <1>5, <1>11, PlaceOfFacts
  <1>13. Len(stack) = Cardinality(ids) /\ Len(stack) \in Nat
    <2>1. DOMAIN stack = 1..Cardinality(ids) /\ DOMAIN stack = 1..Len(stack) /\ Len(stack) \in Nat
      BY <1>2, <1>5, LenProperties
    <2>2. Cardinality(ids) \in Nat
      BY ReconcileAssumption, FS_Subset, FS_CardinalityType
    <2>3. QED
      BY <2>1, <2>2
  <1>14. Present(place) = ids
    BY <1>12 DEF Present
  <1>15. \A id \in Ids : place[id] <= Cardinality(Present(place))
    <2>1. SUFFICES ASSUME NEW id \in Ids, id \in ids
                   PROVE  place[id] \in 1..Len(stack)
      BY <1>12, <1>13, <1>14
    <2>2. place[id] = CHOOSE i \in DOMAIN stack : stack[i] = id
      BY <1>5, <1>11, <2>1 DEF PlaceOf
    <2>3. \E i \in DOMAIN stack : stack[i] = id
      BY <1>5, <2>1 DEF Range
    <2>4. DOMAIN stack = 1..Len(stack)
      BY <1>5, LenProperties
    <2>5. QED
      BY <2>2, <2>3, <2>4
  <1>16. Slots /\ Climbs(board.place, tracker.order)
    BY <1>3, <1>7, <1>11, <1>12, <1>15 DEF Slots, Climbs
  <1>17. QED
    BY <1>8, <1>9, <1>10, <1>16 DEF OInv

LEMMA StepPlaces == IInv /\ LInv /\ SInv /\ OInv /\ [Next]_vars => OInv'
  <1> SUFFICES ASSUME IInv, LInv, SInv, OInv, [Next]_vars PROVE OInv'
    OBVIOUS
  <1>1. CASE UNCHANGED vars
    <2>1. UNCHANGED <<scene, stack, undone, board, tracker, sending, parts, timer, status,
                      failures, peerWrites>>
      BY <1>1 DEF vars, saver
    <2>2. Timed' /\ Orderly' = Orderly
      BY <2>1 DEF OInv, Timed, InFlight, Orderly, Undisturbed
    <2>3. QED
      BY <2>1, <2>2, QuietPlaces
  <1>2. CASE UserActs
    BY <1>2, UserPlaces
  <1>3. CASE ResumeFlush \/ TimerFires \/ Flush \/ Dispose
    BY <1>3, SaverPlaces
  <1>4. CASE Accepted \/ Failed \/ Refused \/ PeerWrite
    BY <1>4, AcceptedPlaces, FailedPlaces, PeerPlaces
  <1>5. QED
    BY <1>1, <1>2, <1>3, <1>4 DEF Next

(* The board of a page that nothing disturbs has what its tracker knows,    *)
(* its places along the order acknowledged, in every state it can reach.    *)
THEOREM BoardIsPredicted == Spec => []OInv
  <1>1. Init => IInv /\ LInv /\ SInv /\ OInv
    BY InitHolds, InitLives, InitOrders, InitPlaces
  <1>2. (IInv /\ LInv /\ SInv /\ OInv) /\ [Next]_vars => (IInv /\ LInv /\ SInv /\ OInv)'
    BY StepKeeps, StepLives, StepOrders, StepPlaces
  <1>3. QED
    BY <1>1, <1>2, PTL DEF Spec

(* Whenever a page says "saved", the live stack of its board is the one it  *)
(* shows, as long as no delete was undone: on a board without images, that  *)
(* no other tab has written, unless a request may have failed once merged  *)
(* (sceneDiff.ts:17-21).                                                   *)
THEOREM StackIsThere ==
    Spec => [](Images = {} /\ Undisturbed => StackIsSavedUntilUndo)
  <1>1. ASSUME IInv, LInv, SInv, OInv, Images = {}, Undisturbed
        PROVE  StackIsSavedUntilUndo
    <2> SUFFICES ASSUME undone = {}, Saved
                 PROVE  LiveStack(board) = Shown
      BY DEF StackIsSavedUntilUndo, StackIsSaved
    <2>1. Orderly /\ StampedAnew
      BY <1>1 DEF Orderly, StampedAnew
    <2>2. ~InFlight /\ ~timer /\ ~disposed /\ status = "idle"
      BY <1>1 DEF Saved, IInv, OnItsWay, OInv, Timed
    <2>3. tracker.touched = <<>>
      BY <1>1, <2>2 DEF SInv, Rested
    <2>4. tracker.touched # Everything /\ Range(tracker.touched) = {} /\ <<>> \in Seq(Ids)
      BY <2>3, EmptyRange, SceneDiffAssumption
    <2>5. tracker.order \in Seq(Ids) /\ stack \in Seq(Ids) /\ LiveIds(scene) \in SUBSET Ids
      BY <1>1 DEF IInv, Types, Trackers, LiveIds
    <2>6. Range(tracker.order) = LiveIds(tracker.known) /\ LiveIds(tracker.known) = LiveIds(scene)
      <3>1. \A id \in Ids : SameLife(id)
        BY <1>1 DEF LInv, LifeIdle
      <3>2. QED
        BY <1>1, <3>1 DEF SInv, OrderIsLive, SameLife, LiveIds, LiveOf
    <2>7. Shown = Only[LiveIds(scene)][tracker.order]
      <3>1. OnTop(stack, tracker.order, tracker.touched, LiveIds(scene))
        BY <1>1, <2>1, <2>4 DEF SInv, Stacked
      <3>2. tracker.touched \in Seq(Ids) /\ Range(tracker.touched) \cap LiveIds(scene) \subseteq Range(tracker.order)
        BY <2>3, <2>4
      <3>3. QED
        BY <2>5, <3>1, <3>2, NothingOnTop DEF Shown
    <2>8. Shown = tracker.order
      BY <2>5, <2>6, <2>7, OnlyOfAll
    <2>9. board.place \in Places /\ Mirrors /\ Climbs(board.place, tracker.order)
      BY <1>1, <2>1 DEF OInv, Slots
    <2>10. Range(tracker.order) = LiveIds(board.elements)
      BY <2>6, <2>9 DEF Mirrors, Alike, LiveIds, IsLive
    <2>11. LiveStack(board) = tracker.order
      BY <2>5, <2>9, <2>10, LiveStackIs DEF Climbs
    <2>12. QED
      BY <2>8, <2>11
  <1>2. IInv /\ LInv /\ SInv /\ OInv => (Images = {} /\ Undisturbed => StackIsSavedUntilUndo)
    BY <1>1
  <1>3. QED
    BY <1>2, EverythingIsAccountedFor, LifeIsAccountedFor, OrderIsAccountedFor, BoardIsPredicted, PTL
=============================================================================
