-------------------------------- MODULE Drafts --------------------------------
(***************************************************************************)
(* One browser's visits to one board of the server build: a page is opened *)
(* from the server or, when that cannot be reached, from this browser's    *)
(* draft (boards/openBoard.ts), drawn on, left or killed.  The draft is    *)
(* written a change at a time, in batches, behind the page                 *)
(* (autosave/draftStore.ts); the tracker is SceneDiff's.                   *)
(*                                                                         *)
(* A save is one step here: how one is sent is Autosave's subject.  The    *)
(* writes of a page that was left are taken to come before those of the    *)
(* next page.  The drafts of other boards, the repair of elements an older *)
(* server stripped and the migration of legacy notes are left out.         *)
(***************************************************************************)
EXTENDS SceneDiff

CONSTANTS
    Nonces,       \* what a random nonce can be
    Boards,       \* the sets of elements the board may begin with
    MaxEdits,     \* bound: changes the user makes
    MaxVisits,    \* bound: pages opened
    MaxFailures,  \* bound: writes of the draft, saves and answers lost
    MaxOthers     \* bound: writes by another browser

ASSUME DraftsAssumption ==
    /\ Nonces \subseteq Nat /\ Nonces # {}
    /\ Boards \subseteq SUBSET Ids
    /\ {MaxEdits, MaxVisits, MaxFailures, MaxOthers} \subseteq Nat

VARIABLES
    page,      \* "away" or "open"
    scene,     \* the engine's elements, its own tombstones included
    stack,     \* its ids, bottom first; an erased one keeps its place for undo
    undo,      \* the erasures at the end of its history, last one last
    tracker,   \* SceneAutosaver.tracker
    armed,     \* something is to be saved: the header does not say "Saved"
    board,     \* the stored elements
    late,      \* a patch of a page that is gone, still on its way, or Absent
    pending,   \* DraftStore: puts, deletes, order, appended
    queue,     \* batches issued and not written
    db,        \* what IndexedDB holds of the board: elements, and an order
    told,      \* history: the ids this visit reported a change of,
    placed,    \* those whose place in the stack it reported,
    failed,    \* and whether a write of the draft failed in it
    used,      \* history: the ids ever drawn, and
    erased,    \* those that somebody erased
    edits, visits, failures, others

browser == <<page, scene, stack, undo, tracker, armed>>
draft == <<pending, queue, db>>
history == <<told, placed, failed, used, erased>>
bounds == <<edits, visits, failures, others>>
vars == <<browser, board, late, draft, history, bounds>>

Drawn(id, nonce) ==
    [version |-> 1, versionNonce |-> nonce, updated |-> 0, isDeleted |-> FALSE,
     picture |-> NoPicture]

Live(elements) == [id \in Ids |-> IF LiveOf(elements, id) THEN elements[id] ELSE Absent]

Shown == Only[LiveIds(scene)][stack]

NoBatch == [puts |-> Nobody, deletes |-> {}, order |-> Absent, appended |-> <<>>]

Init ==
    /\ page = "away" /\ scene = Nobody /\ stack = <<>> /\ undo = <<>>
    /\ tracker = Adopted(Nobody, <<>>) /\ armed = FALSE
    /\ \E ids \in Boards, nonce \in Nonces :
          /\ board = [id \in Ids |-> IF id \in ids THEN Drawn(id, nonce) ELSE Absent]
          /\ used = ids
    /\ late = Absent
    /\ pending = NoBatch /\ queue = <<>> /\ db = [elements |-> Nobody, order |-> <<>>]
    /\ told = {} /\ placed = {} /\ failed = FALSE /\ erased = {}
    /\ edits = 0 /\ visits = 0 /\ failures = 0 /\ others = 0

-----------------------------------------------------------------------------
(* DraftStore.record: "stacked" is the whole order, or what went on top.    *)
RecordedWith(deletes, updated, removed, stacked) ==
    [puts |-> [id \in Ids |-> IF id \in updated THEN scene'[id]
                              ELSE IF id \in removed THEN Absent ELSE pending.puts[id]],
     deletes |-> deletes,
     order |-> IF stacked.whole THEN stacked.ids
               ELSE IF pending.order # Absent THEN pending.order \o stacked.ids ELSE Absent,
     appended |-> IF stacked.whole \/ pending.order # Absent THEN <<>>
                  ELSE pending.appended \o stacked.ids]

RecordedKeeping(updated, removed, stacked) ==   \* fault: what is back stays deleted
    RecordedWith(pending.deletes \cup removed, updated, removed, stacked)

Recorded(updated, removed, stacked) ==
    RecordedWith((pending.deletes \ updated) \cup removed, updated, removed, stacked)

Whole(ids) == [whole |-> TRUE, ids |-> ids]
OnTop(ids) == [whole |-> FALSE, ids |-> ids]

(* onSceneChange: the tracker, the draft and the saver are told.            *)
Report(updated, removed, stacked, noted) ==
    /\ page = "open" /\ edits < MaxEdits
    /\ edits' = edits + 1
    /\ pending' = Recorded(updated, removed, stacked)
    /\ tracker' = noted
    /\ armed' = TRUE
    /\ told' = told \cup updated \cup removed
    /\ placed' = IF stacked.whole THEN Ids ELSE placed \cup Range(stacked.ids)
    /\ UNCHANGED <<page, board, late, queue, db, failed, visits, failures, others>>

Draw(id) ==
    /\ id \notin used /\ used' = used \cup {id}
    /\ \E nonce \in Nonces : scene' = [scene EXCEPT ![id] = Drawn(id, nonce)]
    /\ stack' = Append(stack, id) /\ undo' = <<>> /\ UNCHANGED erased
    /\ Report({id}, {}, OnTop(<<id>>), NoteChanged(tracker, id))

(* A shape drawn into a frame goes below it: a delta that carries the order. *)
DrawBelow(id) ==
    /\ id \notin used /\ used' = used \cup {id}
    /\ Shown # <<>>
    /\ \E nonce \in Nonces : scene' = [scene EXCEPT ![id] = Drawn(id, nonce)]
    /\ stack' = <<id>> \o stack /\ undo' = <<>> /\ UNCHANGED erased
    /\ Report({id}, {}, Whole(<<id>> \o Shown), NoteEverything(NoteChanged(tracker, id)))

Edit(id) ==
    /\ LiveOf(scene, id)
    /\ \E nonce \in Nonces :
          scene' = [scene EXCEPT ![id].version = @ + 1, ![id].versionNonce = nonce]
    /\ undo' = <<>> /\ UNCHANGED <<stack, used, erased>>
    /\ Report({id}, {}, OnTop(<<>>), NoteChanged(tracker, id))

Erase(id) ==
    /\ LiveOf(scene, id)
    /\ scene' = [scene EXCEPT ![id].version = @ + 1, ![id].isDeleted = TRUE]
    /\ undo' = Append(undo, id) /\ erased' = erased \cup {id} /\ UNCHANGED <<stack, used>>
    /\ Report({}, {id}, OnTop(<<>>), NoteChanged(tracker, id))

(* Undo of a delete: a whole scene, of which the draft takes what differs.  *)
Undelete(id) ==
    /\ undo # <<>> /\ id = Last(undo)
    /\ undo' = Front(undo)
    /\ \E nonce \in Nonces :
          scene' = [scene EXCEPT ![id].isDeleted = FALSE, ![id].version = @ + 1,
                                 ![id].versionNonce = nonce]
    /\ UNCHANGED <<stack, used, erased>>
    /\ Report({id}, {}, Whole(Shown'), NoteEverything(tracker))

(* A z-order command: a whole scene in which no stamp changed. *)
Restack(id) ==
    /\ LiveOf(scene, id) /\ Shown[Len(Shown)] # id
    /\ LET rest == Ids \ {id}
       IN  /\ stack' = Append(Only[rest][stack], id)
           /\ Report({}, {}, Whole(Append(Only[rest][Shown], id)), NoteEverything(tracker))
    /\ undo' = <<>> /\ UNCHANGED <<scene, used, erased>>

-----------------------------------------------------------------------------
Issued == IF pending = NoBatch THEN queue ELSE Append(queue, pending)

(* DraftStore.flush: the idle callback, or the page is hidden. *)
FlushDraft ==
    /\ page = "open" /\ pending # NoBatch
    /\ queue' = Issued /\ pending' = NoBatch
    /\ UNCHANGED <<browser, board, late, db, history, bounds>>

(* applyStack *)
Stacked(order, batch) ==
    IF batch.order # Absent THEN batch.order
    ELSE order \o Only[Ids \ Range(order)][batch.appended]

(* One transaction of the backend: puts, then deletes, then the order.      *)
Wrote(stored, batch) ==
    [elements |-> [id \in Ids |-> IF id \in batch.deletes THEN Absent
                                  ELSE IF batch.puts[id] # Absent THEN batch.puts[id]
                                  ELSE stored.elements[id]],
     order |-> Stacked(stored.order, batch)]

BatchLands ==
    /\ queue # <<>>
    /\ queue' = Tail(queue) /\ db' = Wrote(db, Head(queue))
    /\ UNCHANGED <<browser, board, late, pending, history, bounds>>

(* Its failure is swallowed, and what it held is not written again.         *)
BatchFails ==
    /\ queue # <<>> /\ failures < MaxFailures
    /\ failures' = failures + 1
    /\ queue' = Tail(queue) /\ failed' = TRUE
    /\ UNCHANGED <<browser, board, late, pending, db, told, placed, used, erased>>
    /\ UNCHANGED <<edits, visits, others>>

(* DraftStore.load: in the stored order, what it does not name on top.      *)
Loaded(stored) ==
    LET kept == {id \in Ids : stored.elements[id] # Absent}
    IN  Only[kept][stored.order] \o SetToSeq(kept \ Range(stored.order))

-----------------------------------------------------------------------------
Patches == {Diff(tracker, scene, Shown, [id \in Ids |-> nonce]) : nonce \in Nonces}

(* The saver's patch reaches the server, and its answer the page ...        *)
Save ==
    /\ page = "open" /\ armed
    /\ \E patch \in Patches :
          /\ board' = Merge(board, patch.elements)
          /\ tracker' = IF IsEmpty(patch) THEN Diffed(tracker, patch)
                        ELSE Acknowledged(Diffed(tracker, patch), patch)
    /\ armed' = FALSE
    /\ UNCHANGED <<page, scene, stack, undo, late, draft, history, bounds>>

(* ... or only one of the two: it is tried again.                           *)
SaveFails ==
    /\ page = "open" /\ armed /\ failures < MaxFailures
    /\ failures' = failures + 1
    /\ \E patch \in Patches :
          /\ ~IsEmpty(patch)
          /\ board' = Merge(board, patch.elements)
          /\ tracker' = Diffed(tracker, patch)
    /\ UNCHANGED <<page, scene, stack, undo, armed, late, draft, history>>
    /\ UNCHANGED <<edits, visits, others>>

(* What a page that goes has on its way to the server, or tries to send.    *)
LastWords ==
    late' \in {late} \cup (IF armed THEN {patch.elements : patch \in Patches} ELSE {})

Goes == page' = "away" /\ armed' = FALSE /\ LastWords

(* Left inside the app: beforeNavigate flushes, and the writes go on.       *)
Leave ==
    /\ page = "open"
    /\ Goes
    /\ queue' = Issued /\ pending' = NoBatch
    /\ UNCHANGED <<scene, stack, undo, tracker, board, db, history, bounds>>

(* The tab is killed: of the writes issued at most the first one, begun     *)
(* already, still lands.                                                    *)
Crash ==
    /\ page = "open"
    /\ Goes
    /\ db' \in {db} \cup (IF queue = <<>> THEN {} ELSE {Wrote(db, Head(queue))})
    /\ queue' = <<>> /\ pending' = NoBatch
    /\ UNCHANGED <<scene, stack, undo, tracker, board, history, bounds>>

LateLands ==
    /\ late # Absent
    /\ late' = Absent /\ board' = Merge(board, late)
    /\ UNCHANGED <<browser, draft, history, bounds>>

-----------------------------------------------------------------------------
OpenedWith(loaded, known, ids) ==
    /\ page = "away" /\ visits < MaxVisits
    /\ visits' = visits + 1
    /\ page' = "open"
    /\ scene' = loaded /\ stack' = ids /\ undo' = <<>>
    /\ tracker' = Adopted(known, ids)
    /\ armed' = FALSE
    /\ told' = {} /\ placed' = {} /\ failed' = FALSE
    /\ UNCHANGED <<board, late, draft, used, erased, edits, failures, others>>

OpenOnlineOverDraft ==   \* fault: the tracker starts from the draft
    OpenedWith(Live(board), db.elements, SetToSeq(LiveIds(board)))

(* The server answers: the board is what it has. *)
OpenOnline == OpenedWith(Live(board), Live(board), SetToSeq(LiveIds(board)))

(* It cannot be reached: the board is what the draft has. *)
OpenOffline == OpenedWith(db.elements, db.elements, Loaded(db))

(* Another browser edits or erases what is on the board. *)
OtherWrites ==
    /\ others < MaxOthers /\ others' = others + 1
    /\ \E id \in LiveIds(board), gone \in BOOLEAN, nonce \in Nonces :
          /\ board' = [board EXCEPT ![id].version = @ + 1, ![id].versionNonce = nonce,
                                    ![id].isDeleted = gone]
          /\ erased' = IF gone THEN erased \cup {id} ELSE erased
    /\ UNCHANGED <<browser, late, draft, told, placed, failed, used, edits, visits, failures>>

Next ==
    \/ \E id \in Ids :
          Draw(id) \/ DrawBelow(id) \/ Edit(id) \/ Erase(id) \/ Undelete(id) \/ Restack(id)
    \/ FlushDraft \/ BatchLands \/ BatchFails
    \/ Save \/ SaveFails \/ LateLands
    \/ Leave \/ Crash \/ OpenOnline \/ OpenOffline
    \/ OtherWrites

Spec == Init /\ [][Next]_vars

-----------------------------------------------------------------------------
(* The draft once everything issued and pending is written. *)
Settling ==
    LET Then[n \in 0..Len(queue)] == IF n = 0 THEN db ELSE Wrote(Then[n - 1], queue[n])
    IN  Wrote(Then[Len(queue)], pending)

(* Whatever a visit changed, and however the changes were batched, the      *)
(* draft is about to hold it as it is on the page, in the page's stacking   *)
(* order as far as the visit moved it (draftStore.ts:1-10, 68-76), unless a *)
(* write failed.                                                            *)
DraftKeepsUp ==
    page = "open" /\ ~failed =>
        LET final == Settling IN
        /\ \A id \in told : final.elements[id] = Live(scene)[id]
        /\ \A x, y \in placed :
              Precedes(x, y, Shown) /\ final.elements[x] # Absent /\ final.elements[y] # Absent
                  => Precedes(x, y, Loaded(final))

(* Nothing is deleted from the board that nobody erased, however old or     *)
(* partial the draft a page was opened from.                                *)
OnlyTheErasedGo ==
    \A id \in Ids : board[id] # Absent /\ board[id].isDeleted => id \in erased

(* "Saved" in the header: what the page shows is on the board               *)
(* (+page.svelte:112-116).                                                  *)
SavedIsOnServer ==
    page = "open" /\ ~armed =>
        \A id \in LiveIds(scene) : board[id] # Absent /\ ~IsNewer(scene[id], board[id])
=============================================================================
