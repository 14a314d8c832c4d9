------------------------------ MODULE OnlineCopy ------------------------------
(***************************************************************************)
(* A shared drawing of the public build: the pages that draw on it, the    *)
(* saver each keeps its online copy with (draw-chrome/onlineCopy.ts), and  *)
(* the client that merges a patch into the copy (sharing/storedCopy.ts).   *)
(* The store is what Drawing promises of it: a scene written whole, and    *)
(* only on the rev its writer names; pictures written once.                *)
(*                                                                         *)
(* One page shares the drawing, the others open its link.  A page writes   *)
(* its own edits and nobody else's; those it gets by reading the copy (the *)
(* live link is LiveScene's).  A drawing's own browser is taken to hold    *)
(* what its page shows.  Sealing, parts and the stack are left out, and    *)
(* what takes a request of several is one step when nobody can tell.       *)
(***************************************************************************)
EXTENDS SceneDiff

CONSTANTS
    Tabs,         \* pages, each in a browser of its own
    Sharer,       \* the one that has the drawing, not shared yet
    Nonces,       \* [tab -> the nonces that may be drawn]
    Attempts,     \* the rounds of a save beaten by others
    Nothing,      \* no save, no read, no copy known
    Boards,       \* the sets of elements the drawing may begin with
    MaxEdits,     \* bound: changes the users make
    MaxFailures,  \* bound: requests or answers lost
    MaxReads,     \* bound: times the copy is read to catch up
    MaxCloses     \* bound: pages closed

Copies == [rev: Nat, elements: [Ids -> Entry]]

Saves == [patch: [Ids -> Entry], settles: SUBSET Ids, unsent: SUBSET Ids,
          base: Copies \cup {Nothing}, tries: Nat, landed: Copies \cup {Nothing}]

ASSUME OnlineCopyAssumption ==
    /\ Sharer \in Tabs
    /\ Images # {} => Pictures # {}
    /\ Nothing \notin Copies \cup Saves
    /\ Nonces \in [Tabs -> SUBSET Nat]
    /\ Boards \subseteq SUBSET Ids
    /\ Attempts \in Nat \ {0}
    /\ {MaxEdits, MaxFailures, MaxReads, MaxCloses} \subseteq Nat

VARIABLES
    rev,        \* of the stored scene, 0 when nothing is stored
    copy,       \* its elements; "picture" is the id the copy names
    pictures,   \* the pictures stored
    state,      \* [tab -> "alone", "sharing", "shared", "away" or "closed"]
    scene,      \* [tab -> the engine's elements]
    mirror,     \* [tab -> the live elements as the page has them]
    known,      \* [tab -> what the saver's tracker takes the copy to hold]
    noted,      \* [tab -> the ids its notes name]
    saving,     \* [tab -> the save under way]
    current,    \* [tab -> the copy as last read or written]
    held,       \* [tab -> the images whose picture the copy is known to hold]
    pictureOf,  \* [tab -> the picture id of each element it sent or read]
    reading,    \* [tab -> the copy as a catch-up read it]
    missed,     \* history: [tab -> the ids whose notes were dropped unsent]
    edits, failures, reads, closes

store == <<rev, copy, pictures>>
page == <<scene, mirror, known, noted>>
client == <<saving, current, held, pictureOf, reading>>
bounds == <<edits, failures, reads, closes>>
vars == <<store, state, page, client, missed, bounds>>

None == [id \in Ids |-> Absent]
NoRefs == [id \in Ids |-> NoPicture]
Everyone(f) == [t \in Tabs |-> f]

Drawn(id, nonce) ==
    [version |-> 1, versionNonce |-> nonce, updated |-> 0, isDeleted |-> FALSE,
     picture |-> IF id \in Images THEN CHOOSE p \in Pictures : TRUE ELSE NoPicture]

Live(elements) == [id \in Ids |-> IF LiveOf(elements, id) THEN elements[id] ELSE Absent]

Over(elements, patch) ==
    [id \in Ids |-> IF patch[id] = Absent THEN elements[id] ELSE patch[id]]

Init ==
    /\ rev = 0 /\ copy = None /\ pictures = {}
    /\ state = [t \in Tabs |-> IF t = Sharer THEN "alone" ELSE "away"]
    /\ \E ids \in Boards, nonce \in Nonces[Sharer] :
          scene = [t \in Tabs |->
                     [id \in Ids |-> IF t = Sharer /\ id \in ids THEN Drawn(id, nonce) ELSE Absent]]
    /\ mirror = scene /\ known = Everyone(None) /\ noted = Everyone({})
    /\ saving = Everyone(Nothing) /\ current = Everyone(Nothing) /\ reading = Everyone(Nothing)
    /\ held = Everyone({}) /\ pictureOf = Everyone(NoRefs) /\ missed = Everyone({})
    /\ edits = 0 /\ failures = 0 /\ reads = 0 /\ closes = 0

-----------------------------------------------------------------------------
(* What is noted again stays noted when the save under way has landed.      *)
Unsettled(save, id) == IF save = Nothing THEN save ELSE [save EXCEPT !.settles = @ \ {id}]

(* onSceneChange, of a change made here: "online" is there from the moment  *)
(* sharing began.                                                           *)
Changed(t, id, element) ==
    /\ state[t] \in {"alone", "sharing", "shared"}
    /\ edits < MaxEdits
    /\ edits' = edits + 1
    /\ scene' = [scene EXCEPT ![t][id] = element]
    /\ mirror' = [mirror EXCEPT ![t][id] = IF element.isDeleted THEN Absent ELSE element]
    /\ noted' = [noted EXCEPT ![t] = IF state[t] = "alone" THEN @ ELSE @ \cup {id}]
    /\ saving' = [saving EXCEPT ![t] = Unsettled(@, id)]
    /\ UNCHANGED <<store, state, known, current, held, pictureOf, reading, missed>>
    /\ UNCHANGED <<failures, reads, closes>>

Draw(t, id) ==
    /\ scene[t][id] = Absent
    /\ \E nonce \in Nonces[t] : Changed(t, id, Drawn(id, nonce))

Edit(t, id) ==
    /\ LiveOf(scene[t], id)
    /\ \E nonce \in Nonces[t] :
          Changed(t, id, [scene[t][id] EXCEPT !.version = @ + 1, !.versionNonce = nonce])

Erase(t, id) ==
    /\ LiveOf(scene[t], id)
    /\ \E nonce \in Nonces[t] :
          Changed(t, id, [scene[t][id] EXCEPT !.version = @ + 1, !.versionNonce = nonce,
                                              !.isDeleted = TRUE])

-----------------------------------------------------------------------------
(* StoredCopy.save of a patch: "unsent" are the images whose picture is     *)
(* still to be sent, "sent" the elements whose picture id it learnt;        *)
(* "settles" the notes that it settles once it landed, unless noted again.  *)
Save(t, patch, settles) ==
    [patch |-> patch, settles |-> settles,
     unsent |-> {id \in Ids : HasPicture(patch[id]) /\ id \notin held[t]},
     base |-> Nothing, tries |-> 0, landed |-> Nothing]

(* shareLive: the page's copy and saver are new, and the whole scene goes   *)
(* out as the first copy.                                                   *)
Share(t) ==
    /\ state[t] = "alone"
    /\ state' = [state EXCEPT ![t] = "sharing"]
    /\ saving' = [saving EXCEPT ![t] = [Save(t, mirror[t], {}) EXCEPT
                      !.unsent = {id \in Ids : HasPicture(mirror[t][id])}]]
    /\ noted' = [noted EXCEPT ![t] = {}]
    /\ current' = [current EXCEPT ![t] = Nothing]
    /\ held' = [held EXCEPT ![t] = {}]
    /\ pictureOf' = [pictureOf EXCEPT ![t] = NoRefs]
    /\ UNCHANGED <<store, scene, mirror, known, reading, missed, bounds>>

(* The timer fires, or the page flushes: what was noted is compared with    *)
(* what the copy is known to hold.                                          *)
StartSave(t) ==
    /\ state[t] = "shared" /\ saving[t] = Nothing /\ noted[t] # {}
    /\ \E nonce \in Nonces[t] :
          LET patch == [id \in Ids |-> IF id \in noted[t]
                                       THEN Change([known |-> known[t]], mirror[t], id, nonce)
                                       ELSE Absent]
          IN  IF patch = None THEN noted' = [noted EXCEPT ![t] = {}] /\ UNCHANGED saving
              ELSE saving' = [saving EXCEPT ![t] = Save(t, patch, noted[t])] /\ UNCHANGED noted
    /\ UNCHANGED <<store, state, scene, mirror, known, current, held, pictureOf, reading>>
    /\ UNCHANGED <<missed, bounds>>

(* sendPicture.  One the store has already is as good as sent. *)
SendPicture(t) ==
    /\ saving[t] # Nothing
    /\ \E id \in saving[t].unsent :
          /\ pictures' = pictures \cup {saving[t].patch[id].picture}
          /\ pictureOf' = [pictureOf EXCEPT ![t][id] = saving[t].patch[id].picture]
          /\ saving' = [saving EXCEPT ![t].unsent = @ \ {id}]
    /\ UNCHANGED <<rev, copy, state, page, current, held, reading, missed, bounds>>

Stored == [rev |-> rev, elements |-> copy]

(* What the patch is merged into: the copy as last known, or read now. *)
TakeBase(t) ==
    /\ saving[t] # Nothing
    /\ saving[t].unsent = {} /\ saving[t].base = Nothing /\ saving[t].landed = Nothing
    /\ LET base == IF current[t] = Nothing THEN Stored ELSE current[t]
       IN  /\ saving' = [saving EXCEPT ![t].base = base]
           /\ current' = [current EXCEPT ![t] = IF rev = 0 THEN @ ELSE base]
    /\ UNCHANGED <<store, state, page, held, pictureOf, reading, missed, bounds>>

RefsOfBase(elements, t, base) ==   \* fault: a picture sent is not named
    [id \in Ids |->
        IF ~LiveOf(elements, id) THEN elements[id]
        ELSE [elements[id] EXCEPT !.picture = IF base[id] = Absent THEN NoPicture
                                              ELSE base[id].picture]]

(* refsFor: each live element's picture id, as this page sent or read it,   *)
(* or as the copy had it.                                                   *)
Refs(elements, t, base) ==
    [id \in Ids |->
        IF ~LiveOf(elements, id) THEN elements[id]
        ELSE [elements[id] EXCEPT !.picture =
                 IF pictureOf[t][id] # NoPicture THEN pictureOf[t][id]
                 ELSE IF base[id] = Absent THEN NoPicture ELSE base[id].picture]]

Merged(t) ==
    LET base == saving[t].base.elements
    IN  Refs(Merge(base, saving[t].patch), t, base)

PutOnNamed(t) ==   \* fault: beaten, the same merge goes out on the rev named
    /\ saving[t] # Nothing /\ saving[t].base # Nothing
    /\ IF saving[t].base.rev = rev
       THEN /\ rev' = rev + 1
            /\ copy' = Merged(t)
            /\ saving' = [saving EXCEPT ![t] =
                  [@ EXCEPT !.base = Nothing, !.landed = [rev |-> rev', elements |-> copy']]]
       ELSE saving' = [saving EXCEPT ![t].base.rev = rev] /\ UNCHANGED <<rev, copy>>
    /\ UNCHANGED <<pictures, state, page, current, held, pictureOf, reading, missed, bounds>>

PutOnKnown(t) ==   \* fault: beaten, it merges into the same copy again
    /\ saving[t] # Nothing /\ saving[t].base # Nothing
    /\ IF saving[t].base.rev = rev
       THEN /\ rev' = rev + 1
            /\ copy' = Merged(t)
            /\ saving' = [saving EXCEPT ![t] =
                  [@ EXCEPT !.base = Nothing, !.landed = [rev |-> rev', elements |-> copy']]]
       ELSE saving' = [saving EXCEPT ![t] = Nothing] /\ UNCHANGED <<rev, copy>>
    /\ UNCHANGED <<pictures, state, page, current, held, pictureOf, reading, missed, bounds>>

(* Merged into what beat it, until the rounds are up. *)
Beaten(save) ==
    IF save.tries + 1 = Attempts THEN Nothing
    ELSE [save EXCEPT !.tries = @ + 1, !.base = Nothing]

(* writeScene, answered later when it landed.  Beaten, the copy is read and *)
(* merged into again, until the rounds are up.                              *)
Put(t) ==
    /\ saving[t] # Nothing /\ saving[t].base # Nothing
    /\ IF saving[t].base.rev = rev
       THEN /\ rev' = rev + 1
            /\ copy' = Merged(t)
            /\ saving' = [saving EXCEPT ![t] =
                  [@ EXCEPT !.base = Nothing, !.landed = [rev |-> rev', elements |-> copy']]]
            /\ UNCHANGED current
       ELSE /\ current' = [current EXCEPT ![t] = Nothing]
            /\ saving' = [saving EXCEPT ![t] = Beaten(@)]
            /\ UNCHANGED <<rev, copy>>
    /\ UNCHANGED <<pictures, state, page, held, pictureOf, reading, missed, bounds>>

LandedForAll(t) ==   \* fault: what was noted since it was made is taken to be saved
    /\ saving[t] # Nothing /\ saving[t].landed # Nothing
    /\ current' = [current EXCEPT ![t] = saving[t].landed]
    /\ held' = [held EXCEPT ![t] = Noted(@, saving[t].patch)]
    /\ saving' = [saving EXCEPT ![t] = Nothing]
    /\ state' = [state EXCEPT ![t] = "shared"]
    /\ known' = [known EXCEPT ![t] = Over(@, saving[t].patch)]
    /\ noted' = [noted EXCEPT ![t] = {}]
    /\ missed' = [missed EXCEPT ![t] = @ \cup IF state[t] = "sharing" THEN noted[t] ELSE {}]
    /\ UNCHANGED <<store, scene, mirror, pictureOf, reading, bounds>>

(* The answer: the save landed.  The first copy's resets the tracker to the *)
(* scene it was made of, and what was noted meanwhile is noted no more.     *)
Landed(t) ==
    /\ saving[t] # Nothing /\ saving[t].landed # Nothing
    /\ current' = [current EXCEPT ![t] = saving[t].landed]
    /\ held' = [held EXCEPT ![t] = Noted(@, saving[t].patch)]
    /\ saving' = [saving EXCEPT ![t] = Nothing]
    /\ IF state[t] = "sharing"
       THEN /\ state' = [state EXCEPT ![t] = "shared"]
            /\ known' = [known EXCEPT ![t] = saving[t].patch]
            /\ noted' = [noted EXCEPT ![t] = {}]
            /\ missed' = [missed EXCEPT ![t] = @ \cup noted[t]]
       ELSE /\ known' = [known EXCEPT ![t] = Over(@, saving[t].patch)]
            /\ noted' = [noted EXCEPT ![t] = @ \ saving[t].settles]
            /\ UNCHANGED <<state, missed>>
    /\ UNCHANGED <<store, scene, mirror, pictureOf, reading, bounds>>

(* A request or its answer is lost: the patch stays unacknowledged and the  *)
(* next save makes it anew; the first copy waits for the user to try again. *)
Fail(t) ==
    /\ saving[t] # Nothing
    /\ failures < MaxFailures
    /\ failures' = failures + 1
    /\ saving' = [saving EXCEPT ![t] = Nothing]
    /\ state' = [state EXCEPT ![t] = IF @ = "sharing" THEN "alone" ELSE @]
    /\ UNCHANGED <<store, page, current, held, pictureOf, reading, missed>>
    /\ UNCHANGED <<edits, reads, closes>>

-----------------------------------------------------------------------------
(* What read() brings: the copy's elements with their pictures in.  It does *)
(* not take back the copy a later save made known.                          *)
ReadCopy(t, found) ==
    /\ current' = [current EXCEPT ![t] = IF @ = Nothing \/ found.rev >= @.rev THEN found ELSE @]
    /\ pictureOf' = [pictureOf EXCEPT ![t] = [id \in Ids |->
                        IF found.elements[id] # Absent /\ HasPicture(found.elements[id])
                        THEN found.elements[id].picture ELSE @[id]]]
    /\ held' = [held EXCEPT ![t] = Noted(@, found.elements)]

(* A catch-up: the copy as the store has it now, on its way to the page. *)
Read(t) ==
    /\ state[t] = "shared" /\ reading[t] = Nothing
    /\ reads < MaxReads
    /\ reads' = reads + 1
    /\ reading' = [reading EXCEPT ![t] = Stored]
    /\ UNCHANGED <<store, state, page, saving, current, held, pictureOf, missed>>
    /\ UNCHANGED <<edits, failures, closes>>

(* It arrives, and is adopted as a peer's patch is (LiveScene's Applied).   *)
(* No edit of this page's, so the copy's saver is not told.                 *)
CaughtUp(t) ==
    /\ reading[t] # Nothing
    /\ reading' = [reading EXCEPT ![t] = Nothing]
    /\ ReadCopy(t, reading[t])
    /\ LET found == reading[t].elements
       IN  IF \E id \in Ids : Takes(found[id], scene[t][id])
           THEN /\ scene' = [scene EXCEPT ![t] = Merge(@, found)]
                /\ mirror' = [mirror EXCEPT ![t] = Live(Over(@, found))]
           ELSE UNCHANGED <<scene, mirror>>
    /\ UNCHANGED <<store, state, known, noted, saving, missed, bounds>>

(* The link is opened in a browser that has none of the drawing. *)
OpenLink(t) ==
    /\ state[t] = "away" /\ state[Sharer] \in {"shared", "closed"}
    /\ state' = [state EXCEPT ![t] = "shared"]
    /\ scene' = [scene EXCEPT ![t] = copy]
    /\ mirror' = [mirror EXCEPT ![t] = Live(copy)]
    /\ known' = [known EXCEPT ![t] = copy]
    /\ ReadCopy(t, Stored)
    /\ UNCHANGED <<store, noted, saving, reading, missed, bounds>>

(* The page is gone, and what it had not saved with it. *)
Close(t) ==
    /\ state[t] = "shared"
    /\ closes < MaxCloses
    /\ closes' = closes + 1
    /\ state' = [state EXCEPT ![t] = "closed"]
    /\ missed' = [missed EXCEPT ![t] = @ \cup noted[t]]
    /\ noted' = [noted EXCEPT ![t] = {}]
    /\ saving' = [saving EXCEPT ![t] = Nothing]
    /\ reading' = [reading EXCEPT ![t] = Nothing]
    /\ UNCHANGED <<store, scene, mirror, known, current, held, pictureOf>>
    /\ UNCHANGED <<edits, failures, reads>>

(* Opened again from this browser's own copy, which wins over the online    *)
(* one; the saver takes the online one to hold it.                          *)
Reopen(t) ==
    /\ state[t] = "closed"
    /\ state' = [state EXCEPT ![t] = "shared"]
    /\ scene' = [scene EXCEPT ![t] = mirror[t]]
    /\ known' = [known EXCEPT ![t] = mirror[t]]
    /\ current' = [current EXCEPT ![t] = Nothing]
    /\ held' = [held EXCEPT ![t] = {}]
    /\ pictureOf' = [pictureOf EXCEPT ![t] = NoRefs]
    /\ UNCHANGED <<store, mirror, noted, saving, reading, missed, bounds>>

-----------------------------------------------------------------------------
Proceeds(t) ==
    \/ StartSave(t) \/ SendPicture(t) \/ TakeBase(t) \/ Put(t) \/ Landed(t) \/ CaughtUp(t)

Next ==
    \E t \in Tabs :
        \/ \E id \in Ids : Draw(t, id) \/ Edit(t, id) \/ Erase(t, id)
        \/ Share(t) \/ Proceeds(t) \/ Fail(t) \/ Read(t)
        \/ OpenLink(t) \/ Close(t) \/ Reopen(t)

Spec == Init /\ [][Next]_vars

(* Timers fire and requests are answered, in time, while the page is open.  *)
FairSpec == Spec /\ \A t \in Tabs : WF_vars(Proceeds(t))

-----------------------------------------------------------------------------
Quiet(t) == saving[t] = Nothing /\ noted[t] = {}

Shadowed(t) == {id \in Ids : mirror[t][id] # Live(scene[t])[id]}

(* What a page saves never puts an older copy of an element over a newer    *)
(* one, whoever else saves meanwhile and whatever answers are lost: a save  *)
(* beaten by another is merged again into what beat it (StoredCopy.save).   *)
CopyNeverGoesBack ==
    [][\A id \in Ids : copy[id] # Absent =>
          /\ copy'[id] # Absent
          /\ ~IsNewer(copy[id], copy'[id])]_vars

(* Every image in the copy names a picture that is stored: pictures go      *)
(* first, and are named by all who know them (refsFor).                     *)
ImagesAreStored ==
    \A id \in Images : LiveOf(copy, id) => copy[id].picture \in pictures

HasOwn(t, id) ==
    LiveOf(scene[t], id) => copy[id] # Absent /\ ~IsNewer(scene[t][id], copy[id])

(* A saver with nothing left to do has brought every element of its page    *)
(* into the copy, in that version or a newer one, through conflicts, lost   *)
(* answers and edits made while a save was under way.  Left out, and real:  *)
(* edits noted while the first copy was written or when the page was        *)
(* closed, and what a catch-up shadows.                                     *)
EditsReachCopy ==
    \A t \in Tabs : state[t] = "shared" /\ Quiet(t) =>
        \A id \in Ids \ (missed[t] \cup Shadowed(t)) : HasOwn(t, id)

(* Savers that beat each other still come to an end.                        *)
SavesEnd == \A t \in Tabs : <>[](state[t] = "shared" => Quiet(t))

=============================================================================
