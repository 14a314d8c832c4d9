------------------------------ MODULE LiveScene ------------------------------
(***************************************************************************)
(* Pages of one board that edit it together: what each one's engine shows, *)
(* the copy of it the page keeps (autosave/sceneMirror.ts), the live link  *)
(* (realtime/liveBroadcast.ts, realtimeClient.ts, wired in                 *)
(* DrawSurface.svelte), the saver, and the board on the API server.        *)
(*                                                                         *)
(* The link is the relay's topic: a frame goes to everyone subscribed when *)
(* it is relayed.  It leaves in the order it was sent, and is opened in    *)
(* any order: opening a sealed frame takes its time, and nobody waits for  *)
(* the frame before.  A link that breaks loses what is on its way, both     *)
(* ways.  A save is one step here; Autosave shows its steps.  Pictures and *)
(* the stack are left out, as is the relay's 64 KiB limit.                 *)
(***************************************************************************)
EXTENDS SceneDiff

CONSTANTS
    Pages,
    Nonces,       \* [page -> the nonces its engine may draw]
    HostNonces,   \* [page -> those its trackers may, for a stamp of their own]
    Nothing,      \* no read of the board is under way
    Asked,        \* one is, and not served yet
    Boards,       \* the sets of elements the board may begin with
    MaxEdits,     \* bound: changes the users make
    MaxBreaks     \* bound: links lost, and pages opened late

ASSUME LiveSceneAssumption ==
    /\ {Nonces, HostNonces} \subseteq [Pages -> SUBSET Nat]
    /\ Boards \subseteq SUBSET Ids
    /\ {MaxEdits, MaxBreaks} \subseteq Nat
    /\ Nothing # Asked

VARIABLES
    scene,    \* [page -> the engine's elements, tombstones included]
    mirror,   \* [page -> the live elements as the page's own copies have them]
    told,     \* [page -> what the link's tracker takes the room to know]
    untold,   \* [page -> the ids its notes name]
    saved,    \* [page -> what the saver's tracker takes the server to know]
    unsaved,  \* [page -> the ids its notes name]
    link,     \* [page -> "closed", "down" or "ready"]
    before,   \* [page -> it was connected once already]
    out,      \* [page -> frames being sealed and written, first one first]
    inbox,    \* [page -> frames that reached it, being opened]
    reading,  \* [page -> the board as a catch-up read it]
    board,    \* the elements the server holds
    edits, breaks,
    fallen,   \* history: the ids of which some page's copy fell behind its engine
    erased,   \* history: the ids a user erased
    changers  \* history: [id -> the pages whose users changed it]

page == <<scene, mirror, told, untold, saved, unsaved, fallen>>
wire == <<link, before, out, inbox, reading>>
bounds == <<edits, breaks, erased, changers>>
vars == <<page, wire, board, bounds>>

None == [id \in Ids |-> Absent]

Everyone(f) == [p \in Pages |-> f]

Drawn(nonce) == [version |-> 1, versionNonce |-> nonce, updated |-> 0,
                 isDeleted |-> FALSE, picture |-> NoPicture]

Live(elements) == [id \in Ids |-> IF LiveOf(elements, id) THEN elements[id] ELSE Absent]

(* A board with some of the elements; some pages are open on it and linked, *)
(* the others are still to be opened.                                       *)
Init ==
    /\ \E ids \in Boards : board = [id \in Ids |-> IF id \in ids THEN Drawn(0) ELSE Absent]
    /\ \E open \in (SUBSET Pages) \ {{}} :
          /\ link = [p \in Pages |-> IF p \in open THEN "ready" ELSE "closed"]
          /\ before = [p \in Pages |-> p \in open]
          /\ scene = [p \in Pages |-> IF p \in open THEN board ELSE None]
    /\ mirror = scene /\ told = scene /\ saved = scene
    /\ untold = Everyone({}) /\ unsaved = Everyone({})
    /\ out = Everyone(<<>>) /\ inbox = Everyone({}) /\ reading = Everyone(Nothing)
    /\ edits = 0 /\ breaks = 0 /\ fallen = {} /\ erased = {} /\ changers = [id \in Ids |-> {}]

-----------------------------------------------------------------------------
(* What a tracker that knows "known" sends of the noted ids (SceneDiff). *)
Changes(known, noted, elements, nonce) ==
    [id \in Ids |-> IF id \in noted THEN Change([known |-> known], elements, id, nonce)
                    ELSE Absent]

Over(elements, patch) ==
    [id \in Ids |-> IF patch[id] = Absent THEN elements[id] ELSE patch[id]]

PatchFrame(p, elements) == [type |-> "patch", from |-> p, elements |-> elements]
PatchOf(p, elements) == IF elements = None THEN <<>> ELSE <<PatchFrame(p, elements)>>

(* inventory(): a stamp for each element the room is taken to know. *)
Inventory(known) ==
    [id \in Ids |-> IF known[id] = Absent THEN Absent
                    ELSE <<known[id].version, known[id].versionNonce>>]

Behind(stamp, e) ==
    \/ stamp[1] < e.version
    \/ stamp[1] = e.version /\ stamp[2] < e.versionNonce

(* missing(have): what a page with that inventory lacks.  A deletion only   *)
(* of what it has.                                                          *)
Missing(known, have) ==
    [id \in Ids |->
        IF known[id] = Absent THEN Absent
        ELSE IF have[id] = Absent THEN (IF known[id].isDeleted THEN Absent ELSE known[id])
        ELSE IF Behind(have[id], known[id]) THEN known[id] ELSE Absent]

(* flushLive: takePatch marks what it takes as the room's. *)
Taken(p, noted, elements, nonce) == Changes(told[p], noted, elements, nonce)

Took(p, patch) ==
    /\ told' = [told EXCEPT ![p] = Over(@, patch)]
    /\ untold' = [untold EXCEPT ![p] = {}]

Ready(p) == link[p] = "ready"

-----------------------------------------------------------------------------
(* onSceneChange: the page's copies follow the engine, both trackers note   *)
(* it, and the patch goes out at once if the link is up.                    *)
Changed(p, now, noted) ==
    /\ link[p] # "closed" /\ edits < MaxEdits
    /\ edits' = edits + 1
    /\ erased' = erased \cup {id \in noted : now[id].isDeleted}
    /\ changers' = [id \in Ids |-> IF id \in noted THEN changers[id] \cup {p} ELSE changers[id]]
    /\ scene' = [scene EXCEPT ![p] = now]
    /\ mirror' = [mirror EXCEPT ![p] = [id \in Ids |-> IF id \in noted THEN Live(now)[id]
                                                     ELSE mirror[p][id]]]
    /\ unsaved' = [unsaved EXCEPT ![p] = @ \cup noted]
    /\ IF Ready(p)
       THEN \E nonce \in HostNonces[p] :
               LET patch == Taken(p, untold[p] \cup noted, mirror'[p], nonce)
               IN  Took(p, patch) /\ out' = [out EXCEPT ![p] = @ \o PatchOf(p, patch)]
       ELSE untold' = [untold EXCEPT ![p] = @ \cup noted] /\ UNCHANGED <<told, out>>
    /\ UNCHANGED <<saved, fallen, link, before, inbox, reading, board, breaks>>

Draw(p, id) ==
    /\ scene[p][id] = Absent
    /\ \E nonce \in Nonces[p] : Changed(p, [scene[p] EXCEPT ![id] = Drawn(nonce)], {id})

Edit(p, id) ==
    /\ LiveOf(scene[p], id)
    /\ \E nonce \in Nonces[p] :
          Changed(p, [scene[p] EXCEPT ![id].version = @ + 1, ![id].versionNonce = nonce], {id})

Erase(p, id) ==
    /\ LiveOf(scene[p], id)
    /\ \E nonce \in Nonces[p] :
          Changed(p, [scene[p] EXCEPT ![id].version = @ + 1, ![id].versionNonce = nonce,
                                      ![id].isDeleted = TRUE], {id})

(* A save that the server took, and its answer. *)
Save(p) ==
    /\ unsaved[p] # {}
    /\ \E nonce \in HostNonces[p] :
          LET patch == Changes(saved[p], unsaved[p], mirror[p], nonce)
          IN  /\ board' = Merge(board, patch)
              /\ saved' = [saved EXCEPT ![p] = Over(@, patch)]
    /\ unsaved' = [unsaved EXCEPT ![p] = {}]
    /\ UNCHANGED <<scene, mirror, told, untold, fallen, wire, bounds>>

-----------------------------------------------------------------------------
(* SUBSCRIBED arrives: what was drawn meanwhile goes out, a page that was   *)
(* connected before asks the server what it missed, and the room is told    *)
(* what this page has.                                                      *)
Join(p) ==
    /\ link[p] = "down"
    /\ link' = [link EXCEPT ![p] = "ready"]
    /\ before' = [before EXCEPT ![p] = TRUE]
    /\ reading' = [reading EXCEPT ![p] = IF before[p] THEN Asked ELSE @]
    /\ \E nonce \in HostNonces[p] :
          LET patch == Taken(p, untold[p], mirror[p], nonce)
              join == [type |-> "join", from |-> p, have |-> Inventory(told'[p])]
          IN  Took(p, patch) /\ out' = [out EXCEPT ![p] = @ \o PatchOf(p, patch) \o <<join>>]
    /\ UNCHANGED <<scene, mirror, saved, unsaved, fallen, inbox, board, bounds>>

(* The first frame of a page is written, and relayed to who is subscribed. *)
Relayed(p) ==
    /\ Ready(p) /\ out[p] # <<>>
    /\ out' = [out EXCEPT ![p] = Tail(@)]
    /\ inbox' = [q \in Pages |-> IF q # p /\ Ready(q)
                                 THEN inbox[q] \cup {Head(out[p])} ELSE inbox[q]]
    /\ UNCHANGED <<page, link, before, reading, board, bounds>>

(* The socket closes, or is given up after a ping went unanswered. *)
Drop(p) ==
    /\ Ready(p)
    /\ breaks < MaxBreaks
    /\ breaks' = breaks + 1
    /\ link' = [link EXCEPT ![p] = "down"]
    /\ out' = [out EXCEPT ![p] = <<>>]
    /\ inbox' = [inbox EXCEPT ![p] = {}]
    /\ UNCHANGED <<page, before, reading, board, edits, erased, changers>>

-----------------------------------------------------------------------------
(* applyRemote: the engine takes what is newer (external).  If it took any  *)
(* of it, the page's copies and the link's tracker take all of it, and the  *)
(* saver notes all of it.                                                   *)
AppliesTo(p, patch) == \E id \in Ids : Takes(patch[id], scene[p][id])

Applied(p, patch) ==
    IF ~AppliesTo(p, patch) THEN UNCHANGED <<scene, mirror, told, unsaved, fallen>>
    ELSE LET named == {id \in Ids : patch[id] # Absent}
         IN  /\ scene' = [scene EXCEPT ![p] = Merge(@, patch)]
             /\ mirror' = [mirror EXCEPT ![p] = Live(Over(@, patch))]
             /\ told' = [told EXCEPT ![p] = Over(@, patch)]
             /\ unsaved' = [unsaved EXCEPT ![p] = @ \cup named]
             /\ fallen' = fallen \cup {id \in Ids : mirror'[p][id] # Live(scene'[p])[id]}

Opens(p, frame) ==
    /\ Ready(p) /\ frame \in inbox[p]
    /\ inbox' = [inbox EXCEPT ![p] = @ \ {frame}]
    /\ UNCHANGED <<saved, link, before, reading, board, bounds>>

(* Someone joined: they are sent what they lack, and what this page has.    *)
(* Pending edits are taken first; while ready there are none.               *)
HearJoin(p) ==
    \E frame \in inbox[p] :
        /\ frame.type = "join" /\ Opens(p, frame)
        /\ out' = [out EXCEPT ![p] = Append(@,
                [type |-> "sync", from |-> p, to |-> frame.from,
                 elements |-> Missing(told[p], frame.have), have |-> Inventory(told[p])])]
        /\ UNCHANGED page

HearSyncOnly(p) ==   \* fault: the answer is not answered
    \E frame \in inbox[p] :
        /\ frame.type = "sync" /\ Opens(p, frame)
        /\ IF frame.to # p THEN UNCHANGED <<page, out>>
           ELSE Applied(p, frame.elements) /\ UNCHANGED <<untold, saved, out>>

HearSyncEchoed(p) ==   \* fault: answered with an answer
    \E frame \in inbox[p] :
        /\ frame.type = "sync" /\ Opens(p, frame)
        /\ IF frame.to # p THEN UNCHANGED <<page, out>>
           ELSE /\ Applied(p, frame.elements)
                /\ out' = [out EXCEPT ![p] = Append(@, [frame EXCEPT !.from = p, !.to = frame.from,
                         !.elements = Missing(told'[p], frame.have), !.have = Inventory(told'[p])])]
                /\ UNCHANGED <<untold, saved>>

(* The answer to this page's join: taken, and answered with what is lacking *)
(* over there.                                                              *)
HearSync(p) ==
    \E frame \in inbox[p] :
        /\ frame.type = "sync" /\ Opens(p, frame)
        /\ IF frame.to # p THEN UNCHANGED <<page, out>>
           ELSE /\ Applied(p, frame.elements)
                /\ out' = [out EXCEPT ![p] = @ \o PatchOf(p, Missing(told'[p], frame.have))]
                /\ UNCHANGED <<untold, saved>>

HearPatch(p) ==
    \E frame \in inbox[p] :
        /\ frame.type = "patch" /\ Opens(p, frame)
        /\ Applied(p, frame.elements)
        /\ UNCHANGED <<out, untold, saved>>

-----------------------------------------------------------------------------
(* catchUp: the board as the server has it, tombstones included. *)
Served(p) ==
    /\ reading[p] = Asked
    /\ reading' = [reading EXCEPT ![p] = board]
    /\ UNCHANGED <<page, link, before, out, inbox, board, bounds>>

CaughtUpAsReset(p) ==   \* fault: what the server has is taken to be all there is to save
    /\ reading[p] \notin {Nothing, Asked}
    /\ reading' = [reading EXCEPT ![p] = Nothing]
    /\ scene' = [scene EXCEPT ![p] = Merge(@, reading[p])]
    /\ mirror' = [mirror EXCEPT ![p] = Live(Over(@, reading[p]))]
    /\ told' = [told EXCEPT ![p] = Over(@, reading[p])]
    /\ saved' = [saved EXCEPT ![p] = reading[p]]
    /\ unsaved' = [unsaved EXCEPT ![p] = {}]
    /\ UNCHANGED <<untold, fallen, link, before, out, inbox, board, bounds>>

CaughtUp(p) ==
    /\ reading[p] \notin {Nothing, Asked}
    /\ reading' = [reading EXCEPT ![p] = Nothing]
    /\ Applied(p, reading[p])
    /\ UNCHANGED <<untold, saved, link, before, out, inbox, board, bounds>>

(* A page opens on the board, which comes without tombstones. *)
Open(p) ==
    /\ link[p] = "closed" /\ breaks < MaxBreaks
    /\ breaks' = breaks + 1
    /\ link' = [link EXCEPT ![p] = "down"]
    /\ LET opened == Live(board) IN
          /\ scene' = [scene EXCEPT ![p] = opened]
          /\ mirror' = [mirror EXCEPT ![p] = opened]
          /\ told' = [told EXCEPT ![p] = opened]
          /\ saved' = [saved EXCEPT ![p] = opened]
    /\ UNCHANGED <<untold, unsaved, fallen, before, out, inbox, reading, board, edits, erased, changers>>

UserActs(p) == \E id \in Ids : Draw(p, id) \/ Edit(p, id) \/ Erase(p, id)
Hears(p) == HearJoin(p) \/ HearSync(p) \/ HearPatch(p)

Next ==
    \E p \in Pages :
        \/ UserActs(p) \/ Save(p) \/ Open(p)
        \/ Join(p) \/ Relayed(p) \/ Drop(p)
        \/ Hears(p) \/ Served(p) \/ CaughtUp(p)

Spec == Init /\ [][Next]_vars

Proceeds == \E p \in Pages :
    Join(p) \/ Relayed(p) \/ Hears(p) \/ Served(p) \/ CaughtUp(p) \/ Save(p)

(* The browser's event loop, the relay and the server get to what is due:   *)
(* while anything but a user's act is, something of it happens.             *)
FairSpec == Spec /\ WF_vars(Proceeds)

-----------------------------------------------------------------------------
IsOpen(p) == link[p] # "closed"

AtRest ==
    \A p \in Pages :
        IsOpen(p) => Ready(p) /\ out[p] = <<>> /\ inbox[p] = {} /\ reading[p] = Nothing

AllSaved == \A p \in Pages : unsaved[p] = {} /\ reading[p] = Nothing

(* The elements of which the page holds, over what its engine shows, a copy *)
(* the engine refused: it came in a patch the engine took something else of.*)
Shadowed(p) == {id \in Ids : mirror[p][id] # Live(scene[p])[id]}

(* Once everyone is linked and no frame is on its way, the pages show the   *)
(* same drawing, whoever drew, lost the link or joined while the others     *)
(* drew (joins, LiveSceneBroadcaster.missing).  Three cases are left out,   *)
(* all of them real: an element of which some page ever held an older copy  *)
(* than its engine, as a page that gets over that by reading the board does *)
(* not tell the others; one erased here and edited there, since the engine  *)
(* and the link stamp the same deletion differently; and one erased around  *)
(* a lost link or a join, since a page is not told the deletion of what it  *)
(* did not say it had.                                                      *)
RoomAgrees ==
    AtRest => \A p, q \in Pages, id \in Ids :
        \/ ~IsOpen(p) \/ ~IsOpen(q)
        \/ id \in fallen
        \/ id \in erased /\ (breaks > 0 \/ changers[id] \notin {{p}, {q}})
        \/ Live(scene[p])[id] = Live(scene[q])[id]

(* Once every save landed, the server has each element a page shows, in     *)
(* that copy or a newer one, through lost links and catch-ups: the page     *)
(* says "Saved".  Left out is what catchUp shadows, see OfflineEditsStand.  *)
EditsReachBoard ==
    AllSaved => \A p \in Pages : \A id \in Ids \ Shadowed(p) :
        LiveOf(scene[p], id) => board[id] # Absent /\ ~IsNewer(scene[p][id], board[id])

(* DrawSurface.svelte's words on catching up: "the merge keeps whichever    *)
(* copy of each element is newer, so what we did offline stands".           *)
OfflineEditsStand ==
    AllSaved => \A p \in Pages, id \in Ids :
        LiveOf(scene[p], id) => board[id] # Absent /\ ~IsNewer(scene[p][id], board[id])

(* Joins, their answers and the answers to those come to an end, and so do  *)
(* the saves: two pages that keep telling each other the same would not.    *)
RoomSettles == <>[](AtRest /\ AllSaved)
=============================================================================
