# Drawnosaurus: a TLA+ model of how a drawing is kept

Drawnosaurus keeps a drawing in several places at once: the engine in the page,
the page's autosaver, the API server's MongoDB document, an online copy for the
public build, and the pages of everyone in the live room. Nothing locks. One
rule, "the newer stamp wins per element" (`packages/contract/src/reconcile.ts`),
is what makes them agree, and around it stand the parts that decide what to
send, when, and what to believe afterwards. These modules model those parts,
TLC checks them on small instances, and TLAPS proves what matters most for
instances of any size.

Run everything from this directory: `tlc -workers 2 -config <cfg> <module>` and
`tlapm <module>_proofs.tla`.

## 1. The system

| Component (source) | State | Operations | How it meets the others |
|---|---|---|---|
| Merge rule (`packages/contract/src/reconcile.ts`) | none | `isNewer`, `reconcileElements`, `applyOrder` | called by the API, the browser store, the online copy's client and the live link |
| API board store (`apps/api/src/boards/{repository,pictures,routes}.ts`) | one document per board (elements with z-order, `rev`, `deletedAt`); picture documents by content hash | create, PUT (If-Match), PATCH elements, DELETE, GET, list | MongoDB calls, each an await where other requests run |
| Autosave (`apps/web/src/lib/autosave/`, `routes/boards/[slug]/+page.svelte`) | tracker (what the server is known to have, what was noted), timer, patch in flight, dirty flag, picture ledger | notify, flush, dispose, run, answer, failure, refusal | engine events in, PATCHes out, status to the header |
| Local drafts (`autosave/{draftStore,draftDb,recover}.ts`) | records in IndexedDB | record, flush, load | fed by the page, read when a board opens |
| Online store (`packages/store/src/`) | a drawing's head (rev, byte and picture counters, proof, nonce), its parts, staged scenes, pending uploads | PUT scene, staged parts, commit, picture, picture upload, GET, sweep | compare-and-set of the head, two attempts |
| Online copy client (`lib/sharing/storedCopy.ts`, `draw-chrome/onlineCopy.ts`) | rev and elements last read, pictures sent, unsent mark | read, save, saveNow, leave | HTTP to the online store; an autosaver with a throttle |
| Relay (`packages/relay/src/`) | sockets, their topics, presence | open, subscribe, publish, close; hibernate and wake | WebSocket messages between pages |
| Live link (`lib/realtime/{realtimeClient,liveBroadcast}.ts`) | socket, pending queue, a tracker per room, peers | open, join, sync, patch, drop, reconnect, sweep of stale peers | relay; the engine adopts a peer's patch |
| Selection claims (`lib/realtime/peerClaims.ts`) | who claims which elements | claim, resolve | carried by presence |
| Sharing tunnel (`apps/api/src/tunnel.ts`) | child process, state, address | start, awaitPublished, stop, fail | HTTP routes of the API |
| Thumbnails (`lib/thumbnail/thumbnailUploader.ts`, `boards/thumbnails.ts`) | change counter, upload in flight | noteChanged, onStatus, flushNow, backfill | driven by the autosaver's status |
| Browser store (`lib/store/browser.ts`) | boards in IndexedDB | the API's operations, in transactions | stands in for the API in the public build |
| Drawing UI, engine, tests, tooling | – | – | not modelled: rendering, input, and a separate repository |

What is hard, and so what the properties are about:

- *Concurrent writers.* The API reads a board, awaits the picture writes, and
  updates on the rev it read; any other write may fall in between. A delete
  between them must win although the update's filter does not name `deletedAt`.
- *Pictures apart from elements.* They are written before the board that names
  them, left off later edits, dropped from tombstones.
- *Believing what was sent.* The tracker must never take for known what the
  server lacks; it may know too little when an answer is lost.
- *Deletions by absence.* The engine exports no tombstones; a deletion is an id
  that vanished, and only the tracker can make it a tombstone.
- *Z-order by prediction.* A reorder leaves no stamp; the tracker predicts the
  order the server arrives at and sends one only on a mismatch.
- *Changes in flight, retries, refusals, flush, dispose.* All share one timer,
  one in-flight flag and one dirty flag.
- *The online copy.* Counters kept incrementally under a compare-and-set; a
  client that reads, merges and writes, is beaten, and whose answers get lost.
- *The live room.* Frames lost with a link or opened out of order; a page that
  joins, one that reconnects and reads the board to catch up, all while its own
  edits are unsent, unsaved, or both.
- *Who is here and who holds what.* Claims stamped by clocks that differ; pages
  that die without a word; a relay the runtime puts to sleep between any two
  events.
- *Drafts.* Written in batches behind the page, read when the server cannot be.
- *Callbacks of the past.* The tunnel's process prints, exits, times out and is
  looked up after somebody stopped it and started another.

`PROJECT.json` lists every hazard with its line and the properties about it.

## 2. Modules

| Module | Models |
|---|---|
| `Reconcile` | the merge rule and the API's picture rule, as operators |
| `MergeLoop` | the code's loops over arrays, proved to compute `Reconcile`'s operators |
| `Scene_proofs` | about the operators: the merge commutes, absorbs repetition and never loses what is newer; what the tracker, a diff and its parts contain |
| `BoardOps` | a stored board and what each write makes of it |
| `Board` | what the API promises of one board: the abstract specification |
| `BoardStore`, `MCBoardStore` | routes and repository at the grain of their database calls; implements `Board` |
| `BoardStore_proofs` | its inductive invariant, its safety properties, the refinement; and that the loops of `MergeLoop` compute the operators |
| `SceneDiff` | tracker, picture ledger, splitting of a patch, as operators on a tracker record |
| `Autosave`, `MCAutosave` | one page: engine's scene, tracker, autosaver, server, network, another tab |
| `Autosave_proofs` | its inductive invariants: what a page shows is on the board, in flight or noted; so is what it erased, and each picture; saved is saved |
| `Drawing` | what the online store promises of one drawing: the abstract specification |
| `OnlineStore`, `MCOnlineStore` | the store's write handlers at the grain of their database calls; implements `Drawing` |
| `OnlineCopy`, `MCOnlineCopy` | the pages that share a drawing and the client that merges each one's patches into the copy |
| `OnlineStore_proofs` | its inductive invariants: an unchanged head guards what was found after it, sweeps included; what a request may write; the counters are sums. The refinement |
| `OnlineCopy_proofs` | its inductive invariant: what pages believe of the copy is so, its images are stored, edits reach it, it never goes back |
| `LiveScene`, `MCLiveScene` | pages that edit one board over the live link: engine, the page's copies, both trackers, frames, board |
| `LiveScene_proofs` | its inductive invariants: what a page has is on the board or noted, and told or to be told; what a page lacks is on its way to it |
| `Room`, `MCRoom` | presence and claims of the pages, the relay, and the object it sleeps in |
| `Drafts`, `MCDrafts` | one browser's visits to a board, and the draft written behind them |
| `Drafts_proofs` | its inductive invariant: the draft keeps up with the page, nothing goes that nobody erased |
| `Tunnel`, `MCTunnel` | the internet link's process, states, timeout and publication |
| `Sharing_proofs` | the inductive invariants of `Room` (a ready page is heard, a closing told once) and of `Tunnel` (the link offered is up, nothing is left running) |

How they compose: `SceneDiff` and `Reconcile` are the two libraries. `Autosave`,
`Drafts`, `LiveScene` and `OnlineCopy` each run the tracker of `SceneDiff` against
a server taken as its abstract specification (a PATCH is one `Merge`, a store
write one step on the rev named); `BoardStore` implements `Board` and
`OnlineStore` implements `Drawing`, which is what entitles them to. In turn
`LiveScene`, `Drafts` and `OnlineCopy` take a save as `Autosave` shows it ends:
acknowledged, or to be made anew. Conflicts of the online copy are the exception,
and `OnlineCopy` has their steps.

A scene is an array in the code. Here it is two functions of the element id:
*elements* (the copy the array holds) and *place* (its position, 0 for none).
`MergeLoop` is what justifies this: it runs `Map.set`, the merge loop (`MergeOne`)
and the loop that splits what an order names from the rest (`RankOne`) over real
sequences, for requests that name an id twice and orders that are partial, repeated
or unknown. It has no run: `LoopsAreTheOperators` in `BoardStore_proofs` proves for
arrays of every length that the outcome is what the functions say. `Array.sort` is there by
its contract: any arrangement of the ranked elements by rank (`Sortings`).
An element keeps what the rules look at: its stamp, whether it is deleted, its
picture. Whether it is an image is a property of its id.

**BoardStore.** One board, `Requests` handlers. A request arrives (`Arrive`,
with the If-Match rev it insists on), reads (`ReadRev` for `If-Match: *`,
`Read`), writes its pictures and checks the size (`Stow`), and updates on the
rev it read (`Commit`) or misses (`LoseRace`, which re-reads up to
`MAX_WRITE_ATTEMPTS` for a patch). `Delete` is one update. `Break` is a database
call that rejects, or the server stopping, at any await. An update may take
effect and its answer be lost. `arrivedAt` is a history variable: the rev when
the request arrived. `commit` builds its document from the copy that was read
but sets no `deletedAt`; so does `Commit`.

**Autosave.** `scene` and `stack` are the engine's: they contain the elements it
erased, in place, because undo puts them back there; `Shown` is what the page
sees. `undo` holds the trailing erasures of the history, which are undone last
first; `undone` is a history variable, how deletes were undone so far: with a
stamp above the erasure, or as an older engine does under the stamp the element
had. A change is an engine event (`Draw`, `DrawBelow`, `Edit`, `Erase`,
`Undelete`, `Restack`) with everything `onSceneChange` does about it: the note
on the tracker and `notify()`. `Run` is the body of `SceneAutosaver.run` up to
the await; `Accepted`, `Failed`, `Refused` are its ends. A patch goes out in
`parts`, one request at a time. The tracker's note counters are represented by
what the code asks of them: the ids noted since the last diff, whether nothing
was, and whether that diff compared everything. The server is `Written` of
`BoardOps`: that the repository takes a PATCH in one step, or not at all, is
what `BoardStore` is checked and proved to do.

**OnlineStore.** A request slot holds what `write` holds between its awaits: the
head it read (`seen`), the item it read after that (`found`), the round it is at,
and the time the request came in. `ReadHead`, `ReadItem`, `ReadPending` and
`ReadPart` are the four reads; what is decided on them are operators with the
code's names (`Settled`, `Place`, `Verdict`, `Room`, `Planned`). `Land` is the
batch of `StoreDb.write`, head and parts in one step, as D1 runs a batch as one
transaction; `LoseRace` is the batch that finds another nonce. The handlers run
several at once over one database, so any two steps interleave. A drawing nobody
wrote has the head `NoHead`, the code's `null`. `Sweep` is what the write of
another drawing does to this one once it expired. `Drawing` has none of this: a
scene that changes whole and on the rev its writer names, pictures that appear
whole and once, an owner. Its `Repeat` is a part sent again: what is stored is
compared with it and nothing changes. `Lasting` bounds how long a request takes, at most half
of what a drawing takes to expire: a request that had read "no such drawing" and
landed after the drawing was made, a year passed and it was swept would find the
same "none" and land on parts that are gone.

**OnlineCopy.** `Sharer` has the drawing; `Share` is `shareLive`, which writes the
first copy; the other tabs open the link (`OpenLink`). A save is a record: the
patch, the pictures still to be sent, the copy it is merged into, the rounds lost.
`SendPicture`, `TakeBase`, `Put` and `Landed` are its awaits, `Fail` any of them
that rejects, also after the store took it. `current`, `held` and `pictureOf` are
the fields of `StoredCopy`. A read that brings others' elements is adopted as in
`LiveScene`; the page's own edits alone are noted. `missed` is a history
variable: notes the code drops unsent (section 4).

**LiveScene.** Each page has the engine's elements (`scene`), the page's copy of
the live ones (`mirror`), what the link takes the room to know (`told`) and what
the saver takes the server to know (`saved`), each with its notes. `Changed` is
all of `onSceneChange` and `flushLive`. Frames leave in order (`out`), reach who is
subscribed when relayed, and are opened in any order (`inbox`, a set): decryption
is awaited per frame. `Join` is what SUBSCRIBED sets off; `HearJoin`, `HearSync` and
`HearPatch` are the three messages; `Served` and `CaughtUp` the read after a
reconnect. `Applied` is `applyRemote`: the engine's merge, then the *whole* patch
to the page's copies and trackers. Engine and trackers draw nonces of their own.

**Room.** A page has its link's state, its sockets by number, its claims, and what
it knows of each other page. The relay has a connection per socket in `memory`;
the same is carried by the socket's `attachment`; every event of the relay may find
it evicted and rebuilt (`Connections` is the choice). `alive` is whether a socket
carries frames at all, which neither end can see: `Die` ends that, `Lost` is the
page noticing, `Forget` the runtime's report, which may come twice and may be what
wakes the object. `Take` and `Release` are the selection; `Sees` is `syncPeers`.
`Kept` is `resolvePeers`, each page by itself.

**Drafts.** `pending`, `queue` and `db` are a change set being collected, those
issued, and IndexedDB; `Recorded`, `Issued`, `Wrote` and `Loaded` are the four
steps of one's way. `Leave` flushes, `Crash` loses all but a write already begun;
either may leave a patch on its way to the server (`late`). `OpenOnline` and
`OpenOffline` are the two ends of `fromServer`. `told`, `placed`, `failed`, `used`
and `erased` are history.

**Tunnel.** Every process ever started keeps its own state, output and
`awaitPublished`; `child` says which is the tunnel's now. That start and stop are
for the host only is `Manages`. A process's output, error, exit, timeout and DNS
answer are actions of that process, whatever the tunnel has become. It prints
its name and that it connected in either order, and the second may have left the tail
of the log that is kept before the first is found. `heard` is a history variable: what
DNS last said of the name of the tunnel's own process.

## 3. Runs

| Run | Bounds | Shows |
|---|---|---|
| `board_store` | 2 requests, 3 ids (one an image), 7 operations, 2 attempts, rev up to 4, room for 2 elements | every property of `BoardStore`, that it implements `Board`, and that every request is answered |
| `autosave` | 2 shapes, 3 changes, 1 failure or refusal, answers arrive | Saved means saved for deletions and the stack; noted ids suffice; nothing stranded; a flush that waited sends the rest, and nothing else is sent after dispose; in the end all is saved |
| `autosave_faults` | an image and a shape, 3 changes, 1 failure, answers may be lost, 1 write of another tab, both kinds of undo | Saved means saved for every live element and its picture; the tracker believes nothing false |
| `online_store` | 2 slots, 4 requests of 9 operations by an owner and a stranger, parts of 2 bytes and a cap of 4, 1 picture, 3 ticks (idle after 1, expired after 2), 6 requests and ticks together | the head's counters are what is stored; the caps hold; a head unchanged means its parts are too; a commit fits; the store implements `Drawing` |
| `live_scene` | 2 pages, 2 shapes, 2 changes, 1 link lost or page opened late | pages at rest show one drawing; what they show is on the board; the exchange ends |
| `online_copy` | 2 tabs, an image and a shape, 2 changes, 2 attempts, 1 failure, 1 catch-up, 1 page closed | the copy never goes back; its images are stored; own edits reach it; saves end |
| `room` | 2 pages with clocks that differ, 1 element, 2 selections, 2 sockets a page, 1 link that dies or page that leaves, 2 frames waiting when a user acts | told gone once; ready is heard; holds agree; the room is known |
| `drafts` | 2 shapes, 3 changes, 2 visits, 1 failure, 1 write of another browser | the draft keeps up; nothing is deleted that nobody erased |
| `tunnel` | 3 processes, 3 unknown answers | the link offered is up; nothing left running; a start ends |
| `offline_edits`, `offline_visit`, `early_link` | as `live_scene`; as `drafts` with 2 changes, no failure, no other browser; as `tunnel` with 1 process | expected violations, see section 4 |

Why the bounds are enough. In `board_store` two requests already give every
overlap of read, stow and commit with another write; rev 4 leaves room for three
writes, one more than the two attempts, so a patch can lose every attempt; two
ids fill the document and the third overflows it. The operations were picked so
that each rule has a case where it decides: a picture left off, a tombstone that
ties a move by version, a restack that names a part of the stack, a replace at a
rev that may be gone. In the autosave runs two ids suffice for an order to be
wrong and for one change to fall into another's flight; three changes are a
draw, an erase and an undo, and the violations found take three or fewer. Random
nonces are all equal there: the merge rule's tie-breaks are the question of
`board_store` and of the proofs.

In `online_store` two requests overlap at every read and write; four are a scene
staged in two parts, its commit and one write that interferes. A full part and
one that is not exceed the cap beside an upload that is half sent, so every cap
is met and the room left by an idle upload is used. Three ticks let an upload
idle away and a drawing expire. `CommitFits` needs its condition, that nothing
landed since the commit read the head: the compare-and-set guards what a request
writes, not what it is refused for. A commit sent while the last part of its
scene is still on its way can read the head before that part and the item after
it, and be told `too_large` for pictures that part's write had dropped as idle.
The client sends a commit after its parts were answered, so the next try finds
what it should.

In `live_scene` two changes are one on each page of the same element, or an edit
on one and a second one that crosses the answer; the pages' nonces differ so that
a tie has a winner, and the link's nonce may be above the engine's on one page and
equal to it on the other. In `online_copy` two savers and two attempts let each
beat the other and one give up; a failure may be an answer lost after the store
took the write. In `room` clocks that agree at one tick and differ at the other
give a tie, a claim ahead and one behind; a second socket per page is what a
reconnect needs. In `drafts` two visits are one that leaves a draft and one opened
from it. In `tunnel` a third process makes the tunnel's own neither the first nor
the last of the stale ones; the code waits for 3 unknown answers as well.

`online_store`, which checks safety only, takes its two slots for interchangeable; no
other run uses symmetry. Named bounds: `MaxRev`, `MaxEdits`, `MaxFailures`,
`MaxPeerWrites`, `Lasting`, `MaxRequests`, `MaxClock`, `MaxEvents`, `MaxBreaks`,
`MaxReads`, `MaxCloses`, `MaxActs`, `MaxLinks`, `MaxBacklog`, `MaxVisits`,
`MaxOthers`, `MaxStarts`, `MaxUnknown`. `CHECK_DEADLOCK FALSE` everywhere: a server
without requests and a page without edits really stop.

Fairness. `BoardStore` assumes that a handler under way takes its next database
step (weak fairness per request): Node runs every promise to its end. `Autosave`
assumes that an armed timer fires, that a request is answered, and that the
microtask after an await runs. `LiveScene`, `OnlineCopy` and `Room` assume that
among what is due (a frame to relay or open, a save, a heartbeat, a reconnect)
something happens: browsers and the relay run their queues, and the bounds make
every other choice run out. `Tunnel` assumes only that a timeout fires; neither DNS
nor the process is assumed to do anything. The user's acts, failures, refusals,
links that die, reports of the runtime and leaving are never fair, and they are
finite in number; that is the premise of each liveness property.

## 4. Findings

Each of these is a run that TLC must find violated.

1. `offline_edits`. The page edits an element while its link is down and, once
   back, reads the board to catch up. The board has the old copy of that element
   and something new of a peer's. The engine keeps its own newer copy, as the
   comment on `catchUp` says; but since it took *something*, the page adopts the
   whole of what was read, and its own record of the edited element goes back to
   the old copy. The saver compares that with the server, finds no difference, and
   the header says "Saved" with the edit on the canvas only. `EditsReachBoard` is
   stated for the elements this is not so of (`Shadowed`).
2. `offline_visit`. An edit is in the draft and not on the server when the page is
   reopened while the server cannot be reached. The draft is what the board is
   opened from, and the tracker is reset to it as if it were the server's. The
   header says "Saved", the edit is never sent, and the next online visit shows
   the board without it.
3. `early_link`. The link is offered although the latest answer of DNS was that there is
   no such name. The header of `tunnel.ts` (lines 14-23) says what an early link costs:
   the first look-up is answered in the negative, and cached for half an hour. The one
   exception, "DNS cannot be asked at all" (lines 71 and 186), is decided at line 187
   by a count of the answers that told nothing, which a "no" does not set back, and by
   the time since the tunnel connected: three such answers and then a "no" past ten seconds
   put the link on. `LinkIsUp` says what the code does keep to, and has the count in
   it; what the comments say is `NeverAgainstDns`.

Other disagreements met while modelling, each reproduced by TLC on these modules
and kept out of the runs' properties by the premise named:

- *Ghost element.* A patch that creates an element is merged and its answer lost;
  the element is erased before the retry. The tracker never knew it, so no
  tombstone is made, and it is back on the next load. (`NothingComesBack` is
  checked where no answer is lost. Violated with `AnswersGetLost = TRUE`,
  `MayRefuse = FALSE` in `MCAutosave.cfg`.)
- *Lost picture.* An image is erased, the erasure merged and its answer lost, and
  it is undone before the retry: the ledger still takes the picture for sent, the
  stored tombstone has dropped it. (`PicturesAreSaved`, in `MCAutosaveFaults.cfg`.)
- *Erased elsewhere.* Another tab erases an image, and the stored tombstone drops its
  picture. This page's ledger is not told: the next edit of the image goes out
  without the picture, outranks the tombstone, and the image is back without one.
  (`PicturesAreSavedUntilUndo` with `Images = {b}`, `AnswersGetLost = FALSE` and
  `MaxFailures = 0` in `MCAutosaveFaults.cfg`; its premise in the proof is
  `PeersLeaveImages`, and the run's other tab writes the element that is no image.)
- *Order of the resurrected.* `predictOrder`'s comment (`sceneDiff.ts:64-66`) says
  that its wrong prediction is always caught by the comparison with the live
  scene. It is not when the scene is changed to what it predicts.
  (`StackIsSaved`, in `MCAutosave.cfg`.)
- *Image below.* An image and a shape drawn over it in one patch reach the server
  in the opposite order, as pictures travel last, and a patch of noted ids carries
  no order. (`StackIsSavedUntilUndo` with `Images = {a}`, `Pictures = {pic}`.)
- *Old undo.* An engine that restores a deleted element under its old stamp, after
  a delete merged unseen, leaves a scene equal to what the tracker knows
  (`RestoredUnseen` in `NothingGoesMissing`).
- *Never in step.* What such an engine restores is sent with a stamp above the
  tombstone's, and the scene keeps its own. The page and what is acknowledged then
  differ for good: nothing is noted or armed, and whenever everything is compared the
  lower stamp is sent, which the server ignores. (`NotesAreEnough`, `NothingIsStranded`
  with `EngineRestamps = {TRUE, FALSE}` in `MCAutosave.cfg`; their premise in the proofs
  is `StampedAnew`.)
- *Share race.* What is edited while the first online copy is being written is
  noted, and `writeFirstCopy` ends with `resetKnown(scene)`, which forgets it.
  (`missed` in `EditsReachCopy`.)
- *The last seconds.* A shared drawing closed with notes unsent is reopened with
  the tracker reset to this browser's copy, so they are never sent; the mark that
  would warn of it (`status.ts:7-9`) is left only after the flush was awaited
  (`onlineCopy.ts:140-146`), which a closing tab does not reach. (`missed`.)
- *Erase race.* One deletion is stamped by the engine, by the link's tracker and by
  the saver's, with three nonces: against an edit of the same version the pages
  may decide differently. A page is not told of a deletion it did not say it had,
  so one around a lost link may be missed. (The last case of `RoomAgrees`.)
- *Behind and back.* A page whose record of an element fell behind its engine, as in
  `offline_edits`, tells the others of nothing newer. When a later read of the board
  brings its record up again, nothing is noted and nobody is told: pages that were never
  behind show the older copy until someone joins. (`RoomAgrees` leaves out `fallen`, the
  elements of which some page's record *ever* fell behind; leaving out those of which
  one is behind now is violated with three changes, two breaks and `MCLiveScene.cfg`.)
- *Leave unsent.* `disconnect` seals its "leave" and closes the link before it is
  sealed: it is never sent, and only the socket's closing tells the room. `Room`
  has it so, and `RoomIsKnown` holds by the closing and the sweep.

## 5. Proofs

`BoardStore_proofs` proves `Spec => []IndInv` and from it, for any number of
requests, any operations, any scenes and any bounds: `OptimisticLock`,
`NamedPicturesStored`, `ConflictMeansContention`, `PatchNeverRegresses`,
`PatchIsServed`, `PictureSurvivesEdits`, `ReplaceIsGuarded` (a PUT lands on the rev that
its If-Match named, or for `*` on the one its route read), and `KeepsPromise`, that
the repository implements `Board`. Also `TypeOK` and `DeletedIsFinal`, which no run
checks: they are conjuncts or short consequences of the invariant. `KeepsPromise` does
not have `ReplaceIsGuarded` in it: `Board` lets a replace land on any rev.

The properties are not inductive. That a commit writes onto the board as it is
needs `OptimisticLock` (a copy whose rev is still the board's *is* the board,
which every writer preserves only because it bumps rev). That pictures named are
stored needs `PicturesFirst`: a request at its update has already written the
pictures its document names. That a conflict is earned needs
`AttemptsArePaidFor`: every attempt lost is a write the board took after the
request arrived. `Bookkeeping` ties phase, operation and expected rev together.
`IndInv` is their conjunction; there is a lemma per action. The refinement maps
the three shared variables to themselves: `Commit` and `Delete` are
`TakeEffect`, every refusal and failure is `Refuse`, all else stutters.

There too is the proof of `ResultIsReference` of `MergeLoop`, for scenes, requests and
orders of any length, which is why no run checks it. What the array holds after some
turns of the merge's loop is in `SlotsStay` (what the scene had keeps its slot),
`NewOnTop` (what it lacked stands in the order of its first mention) and `NewestSoFar`
(under each id, the newest of the copies the loop has come by). For an order,
`Ranking` and `RankedApart` say that the two arrays share out what was gone through,
the unnamed in the order they had, and `Ordered` that the array in the end goes up by
`Below`. Then an element's slot is counted, as the operators do it: so many ids stand
at or before it (`CountOfSlots`). The first mention of an id, which the code finds by
going through the array, is the least of a set of places and comes from
well-foundedness (`FirstPlace`), without induction.

`Scene_proofs` proves, for scenes of any size, that merging two patches
commutes unless two different copies tie on all three stamps
(`MergeCommutes`), and that a patch merged again changes nothing, also with
another in between (`MergeAbsorbs`): the ground for every retry in the system.
It also has the lemmas on the tracker that the next proofs share: that a diff brings
every noted element which the tracker does not know (`DiffFacts`), that the parts
a patch is split into are the patch (`SplitFacts`), that settling and
acknowledging keep what is known below what was sent (`SettledFacts`,
`AcknowledgedFacts`), and that a write takes no older copy (`WriteFacts`).
`Older(x, y)`, that `y` is there and `x` is not newer, is transitive on the scenes
of a program (`Timeless`: no element is stamped with a clock of its own).

`Autosave_proofs` proves, first, `SavedIsSaved`, `KnownIsServed` and that after
dispose only a flush asked for before starts a patch (`NothingAfterDispose`), for any
scene, any number of changes, failures and flushes, and other tabs that patch the
board. "Saved" is told at the moment a patch has landed, about all that came before;
so the invariant says at every moment where each shown element is. `Accounted`: noted,
or on the board. `OnItsWay`: what a patch in flight has is on the board, or in a
request not yet answered. `LookedAt`: of what was noted, the patch in flight brings
all that was looked at and not noted again, and `Marked`: a change since the diff
leaves `dirty`, so that landing does not say "idle". `Known`: what the tracker takes
for acknowledged the board has. `Drawable` says what an undo restores. Each change to
the tracker's notes (a landing that settles some, a failure that settles none) moves
elements between these places.

All this is about what the page shows; it says nothing of what it has erased. The
second invariant, `LInv`, gives `NothingGoesMissing` and, as long as no other tab
wrote, no answer was lost and no older engine restored a delete (`Undisturbed`: the
premise that the constants of the run `autosave` give), `NothingComesBack`. Its pivot
is what the tracker knows to be alive: at every element the page agrees, or that
element is noted (`LifeNoted`), or the patch in flight makes them agree
(`LifeLookedAt`), and a page that says "saved" agrees everywhere (`LifeIdle`). The
board is compared with the tracker by versions. `Flips`: what brings an element back,
or takes it away, is stamped above what is known. `CountedUp`: an engine that stamps
an undo counts one version up per change, so of two copies that tie both are alive or
both are not, but for other tabs' writes. `OwnTombs`: until something fails, a
tombstone on the board is known, in flight, or another tab's. `Remembered`: what is
alive on the board of an undisturbed page is known, or on its way.

The third, `PInv`, is about pictures and gives `PicturesAreSavedUntilUndo`. The
ledger holds the images which the tracker knows to be alive (`HeldIsKnown`), and an
image in flight has its picture unless the ledger holds it (`SendingPictured`). A
request leaves a live image without a picture only where the board had a tombstone:
without an undo none is followed by a live copy (`TombsStay`), and without a
failure it is one the tracker knows of, by `OwnTombs`. This needs
`PeersLeaveImages`: a tombstone of another tab's is one the ledger never hears of
(*Erased elsewhere* above).

The fourth, `SInv`, is about order and what was noted, and gives `NotesAreEnough`,
`NothingIsStranded` and `FlushSendsTheRest` while every undone delete is stamped anew
(`StampedAnew`; without it the first two are false, *Never in step* above). What was not
noted is in step with what is acknowledged (`OthersInStep`). For the order this is not
enough, as a diff of notes declares none: the page's stack must be what the tracker will
predict from the notes. `Stacked` says so: of what is alive, the stack lists first what
the acknowledged order does, in that order, and then the rest as it was noted. A landing
moves the ids of the patch from the second part to the first, while more may have been
noted; so `SentInStep` splits the notes into those the patch was made of and those made
since (`NotesAreInOrder`), or says, of a patch that compared everything, that the order
it leads to is the page's (`Ahead`). `Rested`: a saver that has nothing to do has
nothing noted. The proof rests on how filters of lists commute, nest and split over a
concatenation (`OnlyOfOnly`, `OnlyOfBoth`, `OnlyDepends` in `Scene_proofs`), which are
proved from where a filter puts each element, as it is no recursive definition.

The fifth, `OInv`, is about the places of the board, and gives `StackIsSavedUntilUndo` on
a board without images (with them it is false, *Image below* above) that is
`Undisturbed`: the constants of the run `autosave`. The order acknowledged is a guess: the
tracker computes what the server will make of a request, and the server computes it
again, from places where tombstones keep theirs. `Climbs` says that the guess is right:
the board's places go up along the order acknowledged. A landing keeps it
(`BoardClimbs`) because the server puts what is new after all it has, as the tracker does
(`MergePlaceFacts`), and takes a declared order as it is told (`ApplyOrderFacts`). That needs,
at every moment before: the board has what the tracker knows, tombstones included
(`Mirrors`); no place is above their number (`Slots`), else a declared order would meet
one it has not counted; nothing known to be gone comes back (`DeadStay`), as one that did would
return to the place of its tombstone; and no list names anything twice (`NoTwins`). A
page that says "saved" then has nothing noted, by `Timed` and `Rested`, so by `Stacked`
it shows the order acknowledged, and the live ones of the board by their places are that
list (`LiveStackIs`).

`LiveScene_proofs` proves `EditsReachBoard`, that "Saved" is so on every page,
for any number of pages and elements, lost links, joins and catch-ups. The
invariant is `MirrorIsLive`, `SavedIsServed` (the saver's tracker takes nothing for
saved that the board lacks), `SavedOrNoted` and `ToldOrNoted`: what a page has is on
the board or noted for the next save, and told to the room, by it, or noted for the
next patch; a page whose link is up has nothing waiting there
(`LinkedPagesTellAll`). `Shadowed`, the elements of finding 1, are exactly those
at which the page's copy has fallen behind its own engine; the invariant is about
the page's copy, and without that premise TLC finds the property violated.

It also proves `RoomAgrees`, for any pages, elements, edits, lost links, joins and
catch-ups, with two more invariants, as the reason that pages agree is another for an
element that was erased. `SoundKept` is about the elements nobody erased and of which
no page's copy fell behind. `Honest`: nobody says more of one than it has (a frame's
copy is not above its sender's, an inventory's stamp is not above what its page shows,
and what the server sends some page shows). `NothingStuck`: a copy that some page
shows and a linked page lacks is on its way, in one of five ways (`OnItsWay`):
somebody who has it has yet to join; a frame brings it, sent or being opened; the
page's own join, or its answer to somebody who has it, is still to be sent, or is
being opened by somebody who has it. Each action moves such a copy from one of these
to another: a link that breaks to the first, a join heard to the second, by
`MissingFacts` (whoever has what is newer than an inventory sends it). Once no frame
is on its way none of the five is possible, so the pages have the same copies. For an
erased element this is false, as a deletion is not told to who did not say that it had
the element. `Unbroken` covers it as far as the property goes: while no link broke and
nobody came late, nobody has to ask. Then what its only user did to an element is
known to that page's tracker, nobody has said or shown a copy of that version or above
but the tracker's own (`OnlyBy`), and each linked page shows that one or has it in a
frame. The engine and the tracker stamp a deletion differently but at one version
(`Tells`), so that the others show what the user sees.

`Sharing_proofs` proves `ReadyIsHeard` and `GoneOnce` for any number of pages,
elements and sockets, and any clocks. The invariant is `RelayTypes`,
`CarriesWhatItSays` (the socket of a ready page that is alive is subscribed both in
the relay's memory and in what the socket itself carries) and `ClosedOnce` (a socket
that was subscribed still carries it until it is reported, and carries nothing
afterwards). Both properties fail to be inductive for one reason: they speak of
memory, and the relay may wake with only what the sockets carry.

Of `Tunnel` it proves `LinkIsUp` and `NoneLeftRunning` for any number of
processes. The invariant adds `OneProcess` (every process but the tunnel's own was
told to stop or is gone), `TimedWhileStarting` (a tunnel that is starting has a
timeout of its own) and `OfferedWasAwaited` (an offered process had printed its name and
that it connected, and the name was found or given up on while it was the tunnel's).
`NeverAgainstDns` is false (finding 3).

`Drafts_proofs` proves `DraftKeepsUp` and `OnlyTheErasedGo` for any elements, any number
of visits, changes and failures, however the changes are batched and however old the
draft a page begins from. The first is about the draft as it will be, after a list of
writes of any length (`Settling`): that a batch collected is one more write, and a
batch landing one less, are lemmas on that fold (`OneMoreWritten`, `FirstWritten`),
proved by induction over the places of a list without an operator parameter
(`CountInduction`). `Tells` says of the draft to be what was told of each element.
`Ranks` is stronger than the property, which is not inductive: the order to be has
every pair of placed and shown ids in the page's order, and every such id is in it,
also where the draft has no element yet; else the next one appended would
come before those it is on top of. The second needs `GoneIsErased`: what a page takes
the server to have alive and does not show, somebody erased. It holds on opening
because the tracker starts from what the page shows, and across a save because an
acknowledged patch adds only what the page has.

`OnlineStore_proofs` proves `HeadGuardsParts` for any number of requests, items
and sweeps. Nonces are new (`NoncesAreNew`) but for the 0 of a drawing that is not
stored, which a drawing written and swept away has twice. A request that saw it the
first time would take the second for it, with items read in between. `WrittenSince`
and `InTime` exclude that: such a request came in before the writes since then were
answered, none lasts longer than `Lasting`, and a drawing expires no sooner than
twice that after its last write (in the code, a year against the seconds of a
request). `HeadIsSeen` is the property itself, with the head.

On it rests the refinement of `Drawing` (`KeepsPromise`). Its invariant `RInv` says
what the first one entitles a request to: stored parts are parts that some request
sent (`PartsAreSent`), staged ones show in the head's count of bytes (`StagedShow`), a drawing
that has parts has an owner (`OwnedParts`), and a request that decided on a head may
write what it found if the head is the same (`RequestsAreEntitled`,
`PictureIsNew`). Then `Land` is a step of `Drawing` (`Publish`, `AddPicture`,
`TakePart`), an answer without a write is `Repeat` or `Refuse`, a sweep is
`Vanish`, and every other step stutters.

Third, the sums: `CountersMatch`, `CapsHold` and `CommitFits`. The head's counters
are folds over the parts stored, and a write updates them by differences. `Sum` is
characterised by what it is on the empty set and with one element more (`IsSum`), as
a function on the subsets of a finite set; that the folds are such sums, and that a
sum splits over disjoint sets and changes by what one item changed, goes by
induction over subsets, which the library's well-founded minimum gives without an
operator parameter. `Matches` then says of each write that its head's
arithmetic is that of the parts it leaves. The invariant `CInv` adds
`WritesHaveRoom` (a request about to write has been found to fit the head it read,
which by the first part is the head it lands on) and `AnswersStand`.

`OnlineCopy_proofs` proves `ImagesAreStored` and `CopyNeverGoesBack` for any number
of pages, elements and pictures, and however many edits, lost requests, catch-ups
and closed pages. Neither is inductive: a page writes what it merged into a copy it
read some time ago, and leaves off pictures it takes to be there. The invariant is
about what pages believe. `ReadsAreFaithful`: a copy a page holds whose rev is
the stored one *is* the stored one, and names only stored pictures.
`KnownAreStored`: each image whose picture a page takes to be held has a picture id
that it knows, of a stored picture. `SavesAreReady`: a save that has its base has no picture
left to send, and the page knows the id of every picture in its patch.
`PagesAreWhole`: no page has a live image without its picture. A write that lands on
its base's rev is then a merge into the stored copy, and `refsFor` names a stored
picture for every image. `EditsReachCopy` has a second invariant, `EInv`, on top:
each element a page has is in the copy, in the patch of the save under way, or noted
(or one of `missed`), through conflicts, lost answers and catch-ups
(`EditsAreAccountedFor`).

Assumptions: `ReconcileAssumption` (ids are finite, "absent" and "no picture" are not
values), `DocumentLimitAssumption`, `BoardStoreAssumption` (operations are operations,
at least one attempt), `RoomAssumption` (pages compared as numbers, as their ids are
as strings), `TunnelAssumption`, `OnlineStoreAssumption` (a request lasts at most half
the time a drawing is kept; sessions, pictures and uploads are finitely many),
`DraftsAssumption` (nonces are numbers), `LiveSceneAssumption` (the same; the two
marks of a read, none and not yet served, differ), `OnlineCopyAssumption` (where there
are images there are pictures), `AutosaveAssumption` (the same; another tab sends
patches only, as every page does; the failures a run allows are switches),
`SceneDiffAssumption` (neither the mark "everything" nor null is a list of ids, nor is
null a patch). TLC evaluates them in every run.

Only model-checked: liveness, which is out of this prover's reach
(`EveryRequestAnswered`, `EverythingIsSaved`, `RoomSettles`, `SavesEnd`, `HoldsAgree`,
`RoomIsKnown`, `StartEnds`).

## 6. Not modelled

Of the API: list, cursor, titles, thumbnails, authentication, restoring pictures
on read. Of autosave: the delays, batches by size, repair and migration of a board
on load. Of the live link: encryption (only that frames open in any order),
pictures and the stack on it, the relay's 64 KiB frame, previews, cursors, laser,
slides shown, rooms of the public build kept by their link's key. Of `Room`: a
heartbeat while the link is down, a kept presence that overtakes a newer one
(`realtimeClient.ts:346-354`), a socket lost before it was ready (the check returns
early, `realtimeClient.ts:385`). Of the online copy: sealing and staging, the
stack, refusals (413, 4xx), expiry, the timer firing during the first copy, a
write landing after its page closed. Of drafts: other boards' drafts and their
eviction, `recover.ts`, the one second a page waits for its draft. The engine is a
separate repository: of it the modules have what the page observes.

The browser store, thumbnails and sticky notes are sequential and small; the API's
shell has no state. Most of the repository's lines, some nine tenths, are the
drawing UI's panels, dialogs, gestures and importers, the conformance check list
and stylistic tables: no protocol, nothing concurrent, nothing that a state
machine would tell apart. `PROJECT.json` gives the reason per component.

## 7. Plan

1. The stack and pictures on the live link, and the relay's frame limit, in
   `LiveScene`.
2. Recovery of stripped pictures (`recover.ts`) in `Drafts`.
