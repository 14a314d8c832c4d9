------------------------------- MODULE Autosave -------------------------------
(***************************************************************************)
(* One board page: the engine's scene, the tracker, the autosaver that     *)
(* sends what changed (apps/web/src/lib/autosave/autosaver.ts, wired in    *)
(* routes/boards/[slug]/+page.svelte), and the API server, one PATCH at a  *)
(* time as Board promises it.  The network loses requests and answers, the *)
(* server refuses, the page flushes and leaves, another tab writes.        *)
(*                                                                         *)
(* Delays are left out: a debounce, a throttle and a backoff are all a     *)
(* timer that is armed and then fires.                                     *)
(***************************************************************************)
EXTENDS SceneDiff

CONSTANTS
    Nonces,          \* what a random nonce can be
    EngineRestamps,  \* whether the engine stamps an undo above what it restores
                     \* over, as an older one does not: the choices there are
    AnswersGetLost,  \* a request may be merged and its answer lost
    MayRefuse,       \* the server may answer 413 or 400
    PeerOperations,  \* what another tab of the board may write
    MaxEdits,        \* bound: changes the user makes
    MaxFailures,     \* bound: requests that fail
    MaxPeerWrites    \* bound: writes of another tab

ASSUME AutosaveAssumption ==
    /\ Nonces \subseteq Nat /\ Nonces # {}
    /\ {AnswersGetLost, MayRefuse} \cup EngineRestamps \subseteq BOOLEAN
    /\ Images # {} => Pictures # {}
    /\ PeerOperations \subseteq Operation
    /\ \A o \in PeerOperations : o.kind = "patch"   \* a saver sends nothing else
    /\ {MaxEdits, MaxFailures, MaxPeerWrites} \subseteq Nat

VARIABLES
    scene,     \* the engine's elements, its own tombstones included
    stack,     \* its ids, bottom first; an erased one keeps its place for undo
    undo,      \* the erasures at the end of its history, last one last
    undone,    \* history: how deletes were undone, "restamped" or "restored"
    board,     \* the stored board; its rev plays no part here
    tracker,   \* SceneAutosaver.tracker
    held,      \* the PictureLedger "saved"
    timer,     \* a save is armed
    sending,   \* the patch in flight, or Absent
    parts,     \* its requests not yet answered, the first one on the wire
    dirty,     \* a change arrived while a patch was in flight
    status,    \* what onStatus was last told
    disposed,
    flushes,   \* flush() calls waiting for the patch in flight to land
    edits, failures, peerWrites

saver == <<timer, sending, parts, dirty, status, disposed, flushes>>
vars == <<scene, stack, undo, undone, board, tracker, held, saver, edits, failures, peerWrites>>

Statuses == {"idle", "pending", "saving", "error", "too-large"}

(* What the page sees of it: tombstones are not exported (sceneDiff.ts:10-13). *)
Shown == Only[LiveIds(scene)][stack]

Picture(id) == IF id \in Images THEN CHOOSE p \in Pictures : TRUE ELSE NoPicture

Drawn(id, nonce) ==
    [version |-> 1, versionNonce |-> nonce, updated |-> 0,
     isDeleted |-> FALSE, picture |-> Picture(id)]

(* A page opened on a board that has some of the elements. *)
Init ==
    /\ \E ids \in SUBSET Ids : \E nonce \in Nonces, order \in [1..Cardinality(ids) -> ids] :
          /\ {order[i] : i \in DOMAIN order} = ids
          /\ scene = [id \in Ids |-> IF id \in ids THEN Drawn(id, nonce) ELSE Absent]
          /\ stack = order
          /\ board = [NewBoard EXCEPT !.elements = scene, !.place = PlaceOf(order)]
          /\ tracker = Adopted(scene, order)
          /\ held = ids \cap Images
    /\ timer = FALSE /\ sending = Absent /\ parts = <<>> /\ dirty = FALSE
    /\ status = "idle" /\ disposed = FALSE /\ flushes = 0
    /\ undo = <<>> /\ undone = {} /\ edits = 0 /\ failures = 0 /\ peerWrites = 0

InFlight == sending # Absent

(* A flush resumes in the microtask after the patch it waited for landed:   *)
(* nothing else of the page runs in between.                                *)
FlushResumes == flushes > 0 /\ ~InFlight

-----------------------------------------------------------------------------
(* SceneAutosaver.notify *)
Notify ==
    /\ IF disposed THEN UNCHANGED <<timer, dirty, status>>
       ELSE IF InFlight THEN dirty' = TRUE /\ UNCHANGED <<timer, status>>
       ELSE timer' = TRUE /\ status' = "pending" /\ UNCHANGED dirty
    /\ UNCHANGED <<sending, parts, disposed, flushes>>

(* onSceneChange: the tracker notes what the engine says changed, then the  *)
(* saver is told.                                                           *)
Report(noted) ==
    /\ edits < MaxEdits
    /\ edits' = edits + 1
    /\ tracker' = noted
    /\ Notify
    /\ UNCHANGED <<board, held, failures, peerWrites>>

Draw(id) ==
    /\ scene[id] = Absent
    /\ \E nonce \in Nonces : scene' = [scene EXCEPT ![id] = Drawn(id, nonce)]
    /\ stack' = Append(stack, id) /\ undo' = <<>> /\ UNCHANGED undone
    /\ Report(NoteChanged(tracker, id))

(* A shape drawn into a frame goes below it: a delta that carries the order. *)
DrawBelow(id) ==
    /\ scene[id] = Absent /\ Shown # <<>>
    /\ \E nonce \in Nonces : scene' = [scene EXCEPT ![id] = Drawn(id, nonce)]
    /\ stack' = <<id>> \o stack /\ undo' = <<>> /\ UNCHANGED undone
    /\ Report(NoteEverything(NoteChanged(tracker, id)))

Edit(id) ==
    /\ LiveOf(scene, id)
    /\ \E nonce \in Nonces :
          scene' = [scene EXCEPT ![id].version = @ + 1, ![id].versionNonce = nonce]
    /\ UNCHANGED stack /\ undo' = <<>> /\ UNCHANGED undone
    /\ Report(NoteChanged(tracker, id))

Erase(id) ==
    /\ LiveOf(scene, id)
    /\ scene' = [scene EXCEPT ![id].version = @ + 1, ![id].isDeleted = TRUE]
    /\ UNCHANGED <<stack, undone>> /\ undo' = Append(undo, id)
    /\ Report(NoteChanged(tracker, id))

(* Undo of a delete: a whole scene, the element back where it was.  Undo    *)
(* goes back through the history, so nothing was restacked in between.      *)
Undelete(id) ==
    /\ undo # <<>> /\ id = Last(undo)
    /\ undo' = Front(undo)
    /\ \E nonce \in Nonces, restamps \in EngineRestamps :
          /\ undone' = undone \cup {IF restamps THEN "restamped" ELSE "restored"}
          /\ scene' = [scene EXCEPT ![id].isDeleted = FALSE,
                                    ![id].version = IF restamps THEN @ + 1 ELSE @ - 1,
                                    ![id].versionNonce = nonce]
    /\ UNCHANGED stack
    /\ Report(NoteEverything(tracker))

(* A z-order command: a whole scene in which no stamp changed. *)
Restack(id) ==
    /\ LiveOf(scene, id) /\ Shown[Len(Shown)] # id
    /\ stack' = Append(Only[Ids \ {id}][stack], id)
    /\ UNCHANGED scene /\ undo' = <<>> /\ UNCHANGED undone
    /\ Report(NoteEverything(tracker))

-----------------------------------------------------------------------------
(* What the saver's diff may come to.  Random nonces are drawn as needed.   *)
Patches == {Diff(tracker, scene, Shown, nonces) : nonces \in [Ids -> Nonces]}

(* SceneAutosaver.run, past its guard.                                      *)
Run ==
    \E patch \in Patches :
        /\ tracker' = Diffed(tracker, patch)
        /\ IF IsEmpty(patch)
           THEN status' = "idle" /\ UNCHANGED <<sending, parts>>
           ELSE /\ status' = "saving"
                /\ sending' = patch
                /\ parts' = Split([patch EXCEPT !.elements = Strip(held, @)])

TimerFires ==
    /\ timer
    /\ timer' = FALSE
    /\ IF disposed \/ InFlight THEN UNCHANGED <<tracker, status, sending, parts>> ELSE Run
    /\ UNCHANGED <<scene, stack, undo, undone, board, held, dirty, disposed, flushes,
                   edits, failures, peerWrites>>

(* flush(): at once when nothing is in flight, else when that has landed.   *)
Flush ==
    /\ ~disposed
    /\ flushes = 0
    /\ timer' = FALSE
    /\ IF InFlight
       THEN flushes' = 1 /\ UNCHANGED <<tracker, status, sending, parts, dirty>>
       ELSE dirty' = FALSE /\ Run /\ UNCHANGED flushes
    /\ UNCHANGED <<scene, stack, undo, undone, board, held, disposed, edits, failures, peerWrites>>

ResumeUnlessDisposed ==   \* fault: run() does not know it for a flush
    /\ FlushResumes
    /\ flushes' = flushes - 1
    /\ timer' = FALSE
    /\ dirty' = FALSE
    /\ IF disposed THEN UNCHANGED <<tracker, status, sending, parts>> ELSE Run
    /\ UNCHANGED <<scene, stack, undo, undone, board, held, disposed, edits, failures, peerWrites>>

ResumeFlush ==
    /\ FlushResumes
    /\ flushes' = flushes - 1
    /\ timer' = FALSE
    /\ dirty' = FALSE
    /\ Run
    /\ UNCHANGED <<scene, stack, undo, undone, board, held, disposed, edits, failures, peerWrites>>

(* The page is left: beforeNavigate flushes, onDestroy disposes. *)
Dispose ==
    /\ ~disposed
    /\ disposed' = TRUE
    /\ timer' = FALSE
    /\ UNCHANGED <<scene, stack, undo, undone, board, tracker, held, sending, parts, dirty,
                   status, flushes, edits, failures, peerWrites>>

-----------------------------------------------------------------------------
Served(b, part) == [Written(b, Request(part)) EXCEPT !.rev = b.rev]

Landed == sending' = Absent /\ parts' = <<>>

FollowUpLost == dirty' = FALSE /\ UNCHANGED <<timer, status>>   \* fault: nothing is armed

(* notify(), from the end of a send: nothing is in flight any more. *)
FollowUp ==
    /\ dirty' = FALSE
    /\ IF disposed THEN UNCHANGED <<timer, status>> ELSE timer' = TRUE /\ status' = "pending"

AcceptedEarly ==   \* fault: the first answer is taken for all of them
    /\ InFlight
    /\ board' = Served(board, Head(parts))
    /\ Landed
    /\ held' = Noted(held, sending.elements)
    /\ tracker' = Acknowledged(tracker, sending)
    /\ IF dirty THEN FollowUp ELSE status' = "idle" /\ UNCHANGED <<timer, dirty>>
    /\ UNCHANGED <<scene, stack, undo, undone, disposed, flushes, edits, failures, peerWrites>>

(* A request is merged and answered; after the last one the patch is known. *)
Accepted ==
    /\ InFlight
    /\ board' = Served(board, Head(parts))
    /\ IF Len(parts) > 1
       THEN /\ parts' = Tail(parts)
            /\ UNCHANGED <<tracker, held, timer, sending, dirty, status>>
       ELSE /\ Landed
            /\ held' = Noted(held, sending.elements)
            /\ tracker' = Acknowledged(tracker, sending)
            /\ IF dirty THEN FollowUp ELSE status' = "idle" /\ UNCHANGED <<timer, dirty>>
    /\ UNCHANGED <<scene, stack, undo, undone, disposed, flushes, edits, failures, peerWrites>>

FailedThen(learnt, retry) ==
    /\ InFlight
    /\ failures < MaxFailures
    /\ failures' = failures + 1
    /\ \/ UNCHANGED board
       \/ AnswersGetLost /\ board' = Served(board, Head(parts))
    /\ Landed
    /\ status' = "error"
    /\ tracker' = learnt
    /\ timer' = retry
    /\ UNCHANGED <<scene, stack, undo, undone, held, dirty, disposed, flushes, edits, peerWrites>>

FailedUnnoticed == FailedThen(Acknowledged(tracker, sending), ~disposed)   \* fault: swallowed
FailedForGood == FailedThen(tracker, FALSE)                                \* fault: no retry

(* A request fails in a way worth retrying, before or after it was merged.  *)
Failed == FailedThen(tracker, ~disposed)

(* The server will not take a request: not retried until something changes. *)
Refused ==
    /\ InFlight /\ MayRefuse
    /\ failures < MaxFailures
    /\ failures' = failures + 1
    /\ Landed
    /\ IF dirty /\ ~disposed
       THEN FollowUp
       ELSE status' = "too-large" /\ dirty' = FALSE /\ UNCHANGED timer
    /\ UNCHANGED <<scene, stack, undo, undone, board, tracker, held, disposed, flushes,
                   edits, peerWrites>>

(* Another tab of the board, with no live link to this one. *)
PeerWrite ==
    /\ peerWrites < MaxPeerWrites
    /\ peerWrites' = peerWrites + 1
    /\ \E o \in PeerOperations : board' = [Written(board, o) EXCEPT !.rev = board.rev]
    /\ UNCHANGED <<scene, stack, undo, undone, tracker, held, saver, edits, failures>>

UserActs ==
    \E id \in Ids :
        Draw(id) \/ DrawBelow(id) \/ Edit(id) \/ Erase(id) \/ Undelete(id) \/ Restack(id)

Next ==
    \/ ResumeFlush
    \/ /\ ~FlushResumes
       /\ UserActs \/ TimerFires \/ Flush \/ Dispose \/ Accepted \/ Failed \/ Refused \/ PeerWrite

Spec == Init /\ [][Next]_vars

(* A timer fires, a request is answered (failures run out), a microtask runs. *)
FairSpec ==
    Spec /\ WF_vars(TimerFires) /\ WF_vars(~FlushResumes /\ Accepted) /\ WF_vars(ResumeFlush)

-----------------------------------------------------------------------------
Saved == status = "idle" /\ ~disposed

(* "Saved" in the header: every element of the scene is on the board as it  *)
(* is here, unless another tab outranks it (+page.svelte:112-116).          *)
SavedIsSaved ==
    Saved => \A id \in LiveIds(scene) :
                /\ board.elements[id] # Absent
                /\ ~IsNewer(scene[id], board.elements[id])

(* ... and nothing is missing there but what another tab erased (and what   *)
(* an older engine restored as it was after a delete whose answer was lost: *)
(* the scene is then what the tracker knows), ...                           *)
ErasedByPeer(id) ==
    peerWrites > 0
    /\ \E o \in PeerOperations : o.patch.elements[id] # Absent /\ o.patch.elements[id].isDeleted

RestoredUnseen == "restored" \in undone /\ failures > 0

NothingGoesMissing ==
    Saved => \A id \in LiveIds(scene) :
                LiveOf(board.elements, id) \/ ErasedByPeer(id) \/ RestoredUnseen

(* ... and what is gone from the scene is gone from the board, ...          *)
NothingComesBack == Saved => LiveIds(board.elements) \subseteq LiveIds(scene)

(* ... and the board's stack is the scene's (sceneDiff.ts:17-21).           *)
StackIsSaved == Saved => LiveStack(board) = Shown

(* So it is as long as no delete is undone.                                 *)
StackIsSavedUntilUndo == undone # {} \/ StackIsSaved

(* ... and every image that is on the board has its picture there.          *)
PicturesAreSaved ==
    Saved => \A id \in Images \cap LiveIds(board.elements) :
                LiveOf(scene, id) => HasPicture(board.elements[id])

(* So it is unless a delete is undone after a failure, which may have left  *)
(* a tombstone on the board that the ledger knows nothing of.               *)
PicturesAreSavedUntilUndo == (undone # {} /\ failures > 0) \/ PicturesAreSaved

(* What the tracker takes for acknowledged the board holds, or newer: the   *)
(* tracker may know too little, never too much (sceneDiff.ts acknowledge).  *)
KnownIsServed ==
    \A id \in Ids :
        tracker.known[id] # Absent =>
            /\ board.elements[id] # Absent
            /\ ~IsNewer(tracker.known[id], board.elements[id])

(* Looking only at what was noted finds all that comparing everything would *)
(* (sceneDiff.ts:100-111).                                                  *)
NotesAreEnough ==
    tracker.touched # Everything =>
        \A nonces \in [Ids -> Nonces] :
            LET all == DiffAll(tracker, scene, Shown, nonces)
                some == DiffTouched(tracker, scene, nonces)
            IN  all.elements = some.elements /\ (all.order = Absent \/ all.order = LiveStack(board))

(* A change the other side does not have is on its way, armed, or waits for *)
(* the next change after a refusal: none is stranded.                       *)
NothingIsStranded ==
    LET anyNonce == [id \in Ids |-> CHOOSE n \in Nonces : TRUE]
    IN  ~disposed /\ ~IsEmpty(DiffAll(tracker, scene, Shown, anyNonce))
            => timer \/ InFlight \/ status = "too-large"

(* A flush that waited for the patch in flight sends what remains, all that *)
(* the other side is not known to have by then, what that patch carried if  *)
(* it failed included, also of a page that was left meanwhile; and once it  *)
(* is left nothing else starts a patch (autosaver.ts:90-112).               *)
FlushSendsTheRest ==
    [][/\ flushes' < flushes =>
             \E nonces \in [Ids -> Nonces] :
                LET rest == DiffAll(tracker, scene, Shown, nonces)
                IN  IF InFlight'
                    THEN sending'.elements = rest.elements /\ sending'.order = rest.order
                    ELSE IsEmpty(rest)
       /\ disposed /\ ~InFlight /\ InFlight' => flushes > 0]_vars

(* Once the user stops and failures stop, everything is saved.              *)
EverythingIsSaved ==
    <>[](disposed \/ status = "too-large" \/ (Saved /\ LiveIds(board.elements) = LiveIds(scene)))
=============================================================================
