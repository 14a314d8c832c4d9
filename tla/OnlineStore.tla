----------------------------- MODULE OnlineStore ------------------------------
(***************************************************************************)
(* The online store's handlers over its database                           *)
(* (packages/store/src/handlers.ts, storeDb.ts, memory.ts, d1.ts): the     *)
(* writes of one drawing, at the grain of their database calls.  A write   *)
(* is decided on the head it read, and on an item it read after that; it   *)
(* lands, head and parts in one batch, only while the head is still the    *)
(* one read.                                                               *)
(*                                                                         *)
(* A drawing that is not stored has the head NoHead, of nonce 0.  Parts    *)
(* are sealed bytes: a body and what it weighs.  Time goes in ticks; a     *)
(* request keeps the time it came in.                                      *)
(***************************************************************************)
EXTENDS Integers, SequencesExt

CONSTANTS
    Requests,         \* requests that can be under way at once
    Operations,       \* what they may ask for
    Nothing,          \* a request slot with no request in it
    Nobody,           \* no write token
    Tokens,           \* write tokens, by their proof
    Bodies,           \* what a request can carry
    Weight,           \* bytes of a body
    Sids, Pids, Uids, \* ids of staged scenes, pictures and picture uploads
    PartBytes,        \* PART_BYTES
    MaxParts,         \* MAX_PARTS
    MaxDrawingBytes,  \* MAX_DRAWING_BYTES
    MaxPictures,      \* MAX_PICTURES
    Attempts,         \* ATTEMPTS
    IdleTicks,        \* STAGED_IDLE_MS
    ExpiryTicks,      \* EXPIRY_MS
    Lasting,          \* bound: ticks a request takes at most
    MaxRequests,      \* bound: requests that ever arrive
    MaxClock,         \* bound: the last tick
    MaxEvents         \* bound: requests and ticks together

Scene == <<"scene">>
Staged(sid) == <<"staged", sid>>
Picture(pid) == <<"picture", pid>>
Pending(pid, uid) == <<"pending", pid, uid>>

Items ==
    {Scene} \cup {Staged(sid) : sid \in Sids} \cup {Picture(pid) : pid \in Pids}
            \cup {Pending(pid, uid) : pid \in Pids, uid \in Uids}

IsStaged(item) == item[1] = "staged"
IsPending(item) == item[1] = "pending"

(* A request past the checks of its form: its item, and the part it carries. *)
ItemsFor ==
    [scene |-> {Scene},
     staged |-> {Staged(sid) : sid \in Sids},
     commit |-> {Staged(sid) : sid \in Sids},
     picture |-> {Picture(pid) : pid \in Pids},
     upload |-> {Pending(pid, uid) : pid \in Pids, uid \in Uids}]

Operation ==
    {o \in [kind : DOMAIN ItemsFor, item : Items, n : 0..(MaxParts - 1), total : 1..MaxParts,
            body : Bodies, expected : Nat, token : Tokens] :
        /\ o.item \in ItemsFor[o.kind]
        /\ IF o.kind \in {"staged", "upload"}
           THEN o.n < o.total /\ o.total > 1 /\ (o.n < o.total - 1 => Weight[o.body] = PartBytes)
           ELSE o.n = 0 /\ o.total = 1}

ASSUME OnlineStoreAssumption ==
    /\ \A ids \in {Sids, Pids, Uids} : IsFiniteSet(ids)
    /\ Weight \in [Bodies -> 1..PartBytes]
    /\ Operations \subseteq Operation /\ Nothing \notin Operations
    /\ Nobody \notin Tokens
    /\ {MaxParts, MaxPictures, Attempts, PartBytes} \subseteq Nat \ {0}
    /\ {MaxDrawingBytes, IdleTicks, ExpiryTicks, Lasting, MaxRequests, MaxClock, MaxEvents}
          \subseteq Nat
    /\ ExpiryTicks >= 2 * Lasting

VARIABLES
    head,       \* the drawing's row
    parts,      \* the parts of each item, in order
    lastNonce,  \* nonces are random: each is one that was never used before
    clock,
    req,        \* the request in each slot:
                \*   op         what it asks for
                \*   phase      the database call it is about to make
                \*   now        the time it came in
                \*   seen       the head it read last
                \*   found      the item it read last, and what it was
                \*   attempt    which round of the write loop it is at
    answer,     \* what each slot's last request was told, until the next comes
    arrived     \* requests so far

database == <<head, parts, lastNonce>>
vars == <<database, clock, req, answer, arrived>>

Answers == {"ok", "conflict", "forbidden", "partExists", "outOfOrder", "stagedIncomplete",
            "tooLarge", "tooManyPictures", "busy", "unavailable"}
Phases == {"head", "item", "pending", "part", "write"}

NoHead ==
    [rev |-> 0, proof |-> Nobody, nonce |-> 0, bytes |-> 0, sceneBytes |-> 0, pictures |-> 0,
     stagedBytes |-> 0, stagedAt |-> 0, pendingBytes |-> 0, pendingAt |-> 0, writtenAt |-> 0]

NoParts == [item \in Items |-> <<>>]

Absent == [parts |-> 0, total |-> 0, bytes |-> 0]   \* an item of which no part is stored

NotLooked == [item |-> Scene, has |-> Absent]

Idle ==
    [op |-> Nothing, phase |-> "idle", now |-> 0, seen |-> NoHead, found |-> NotLooked,
     attempt |-> 0]

UnderWay(r) == req[r] # Idle

Unanswered == [r \in Requests |-> "none"]

Init ==
    /\ head = NoHead /\ parts = NoParts /\ lastNonce = 0 /\ clock = 0
    /\ req = [r \in Requests |-> Idle]
    /\ answer = Unanswered
    /\ arrived = 0

-----------------------------------------------------------------------------
Heavier(sum, part) == sum + Weight[part.body]
BytesOf(list) == FoldLeft(Heavier, 0, list)

(* StoreDb.item *)
Summary(list) ==
    IF list = <<>> THEN Absent
    ELSE [parts |-> Len(list), total |-> list[1].total, bytes |-> BytesOf(list)]

(* settle: idle uploads no longer count, each kind on its own clock. *)
StagedIdle(h, t) == h.stagedBytes > 0 /\ h.stagedAt < t - IdleTicks
PendingIdle(h, t) == h.pendingBytes > 0 /\ h.pendingAt < t - IdleTicks

\* fault: what an idle upload held goes on counting against the cap
FaultSettled(h, t) ==
    [h EXCEPT !.stagedBytes = IF StagedIdle(h, t) THEN 0 ELSE @,
              !.pendingBytes = IF PendingIdle(h, t) THEN 0 ELSE @]

Settled(h, t) ==
    LET staged == IF StagedIdle(h, t) THEN 0 ELSE h.stagedBytes
        pending == IF PendingIdle(h, t) THEN 0 ELSE h.pendingBytes
    IN  [h EXCEPT !.bytes = @ - (h.stagedBytes - staged) - (h.pendingBytes - pending),
                  !.stagedBytes = staged, !.pendingBytes = pending]

PicturesIn(was) == was.bytes - was.sceneBytes - was.stagedBytes

Larger(x, y) == IF x > y THEN x ELSE y

\* fault: a picture is weighed beside the scene alone
FaultBesideScene(o, was) ==
    CASE o.kind \in {"scene", "commit"} -> 0
      [] o.kind = "staged" -> was.stagedBytes
      [] OTHER -> was.sceneBytes

\* fault: a staged part is weighed without those staged before it
FaultBesideNone(o, was) ==
    IF o.kind \in {"picture", "upload"} THEN Larger(was.sceneBytes, was.stagedBytes) ELSE 0

(* What a write is weighed beside, the pictures apart. *)
Beside(o, was) ==
    CASE o.kind \in {"scene", "commit"} -> 0
      [] o.kind = "staged" -> was.stagedBytes
      [] OTHER -> Larger(was.sceneBytes, was.stagedBytes)

Size(o, item) == IF o.kind = "commit" THEN item.bytes ELSE Weight[o.body]

(* What the caps say of a write: "write" when it fits. *)
Room(o, was, item) ==
    IF o.kind \in {"picture", "upload"} /\ was.pictures + 1 > MaxPictures
    THEN "tooManyPictures"
    ELSE IF PicturesIn(was) + Size(o, item) + Beside(o, was) <= MaxDrawingBytes
    THEN "write" ELSE "tooLarge"

(* place: a part goes in order, and one that is there is compared. *)
Place(o, was, upload) ==
    IF upload # Absent /\ upload.total # o.total THEN "partExists"
    ELSE IF o.n < upload.parts THEN "part"
    ELSE IF o.n > upload.parts THEN "outOfOrder"
    ELSE Room(o, was, upload)

Incomplete(item) == item.parts # item.total

(* decideTarget, on the item it reads first: "write", the next read, or an  *)
(* answer.                                                                  *)
Verdict(o, was, item) ==
    CASE o.kind = "scene" -> Room(o, was, item)
      [] o.kind = "staged" -> Place(o, was, item)
      [] o.kind = "commit" /\ item = Absent -> "stagedIncomplete"
      [] o.kind = "commit" /\ item # Absent ->
            IF Incomplete(item) THEN "stagedIncomplete" ELSE Room(o, was, item)
      [] o.kind = "picture" /\ item = Absent -> Room(o, was, item)
      [] o.kind = "picture" /\ item # Absent ->
            IF item.total = 1 THEN "part" ELSE "partExists"
      [] o.kind = "upload" /\ item = Absent -> "pending"
      [] o.kind = "upload" /\ item # Absent ->
            IF item.total = o.total /\ o.n < item.parts THEN "part" ELSE "partExists"

(* What a write leaves the totals at. *)
Planned(o, was, item, t) ==
    LET size == Size(o, item)
        last == o.n = o.total - 1
    IN  CASE o.kind \in {"scene", "commit"} ->
                [was EXCEPT !.rev = @ + 1, !.bytes = PicturesIn(was) + size,
                            !.sceneBytes = size,
                            !.stagedBytes = 0, !.stagedAt = 0]
          [] o.kind = "staged" ->
                [was EXCEPT !.bytes = @ + size, !.stagedBytes = @ + size, !.stagedAt = t]
          [] o.kind = "picture" ->
                [was EXCEPT !.bytes = @ + size, !.pictures = @ + 1]
          [] o.kind = "upload" /\ ~last ->
                [was EXCEPT !.bytes = @ + size, !.pendingBytes = @ + size, !.pendingAt = t]
          [] o.kind = "upload" /\ last ->
                [was EXCEPT !.bytes = @ + size, !.pictures = @ + 1,
                            !.pendingBytes = @ - item.bytes,
                            !.pendingAt = t]

(* ... and does to the parts: put, trim, rename, dropStaged, dropPending. *)
PutAt(list, n, part) ==
    IF n < Len(list) THEN [list EXCEPT ![n + 1] = part] ELSE Append(list, part)

PictureOf(o) == Picture(o.item[2])

Rearranged(o, ps) ==
    LET put == PutAt(ps[o.item], o.n, [total |-> o.total, body |-> o.body])
    IN  CASE o.kind = "commit" -> [ps EXCEPT ![Scene] = ps[o.item], ![o.item] = <<>>]
          [] o.kind = "scene" -> [ps EXCEPT ![Scene] = SubSeq(put, 1, 1)]
          [] o.kind = "upload" /\ o.n = o.total - 1 ->
                [ps EXCEPT ![PictureOf(o)] = put, ![o.item] = <<>>]
          [] OTHER -> [ps EXCEPT ![o.item] = put]

Without(Drop(_), ps) == [item \in Items |-> IF Drop(item) THEN <<>> ELSE ps[item]]

Changed(o, ps, h, t) ==
    LET Idled(item) == \/ IsStaged(item) /\ StagedIdle(h, t)
                       \/ IsPending(item) /\ PendingIdle(h, t)
        Outdated(item) ==
            /\ IsStaged(item) /\ o.kind \in {"scene", "commit"}
            /\ Settled(h, t).stagedBytes > 0
    IN  Without(Outdated, Rearranged(o, Without(Idled, ps)))

-----------------------------------------------------------------------------
Answer(r, told) ==
    /\ answer' = [answer EXCEPT ![r] = told]
    /\ req' = [req EXCEPT ![r] = Idle]

Go(r, next) ==
    /\ req' = [req EXCEPT ![r] = next]
    /\ UNCHANGED answer

Proceed(r, verdict, next) ==
    IF verdict \in Phases THEN Go(r, [next EXCEPT !.phase = verdict]) ELSE Answer(r, verdict)

Arrive(r) ==
    /\ ~UnderWay(r)
    /\ arrived < MaxRequests /\ arrived + clock < MaxEvents
    /\ arrived' = arrived + 1
    /\ \E o \in Operations :
          req' = [req EXCEPT ![r] = [Idle EXCEPT !.op = o, !.phase = "head", !.now = clock,
                                                 !.attempt = 1]]
    /\ answer' = Unanswered
    /\ UNCHANGED <<database, clock>>

(* Each round begins with the head: whose drawing it is, and on what rev.   *)
(* The body is read after it, the first time.                               *)
ReadHead(r) ==
    /\ req[r].phase = "head"
    /\ LET o == req[r].op
       IN  IF head.proof \notin {Nobody, o.token} THEN Answer(r, "forbidden")
           ELSE IF o.kind \in {"scene", "staged", "commit"} /\ head.rev # o.expected
           THEN Answer(r, "conflict")
           ELSE Go(r, [req[r] EXCEPT !.phase = "item", !.seen = head])
    /\ UNCHANGED <<database, clock, arrived>>

(* An item that idled away is not looked up: the write would delete it.     *)
Look(q, item) ==
    LET gone == \/ IsStaged(item) /\ StagedIdle(q.seen, q.now)
                \/ IsPending(item) /\ PendingIdle(q.seen, q.now)
    IN  [item |-> item, has |-> IF gone THEN Absent ELSE Summary(parts[item])]

Was(q) == Settled(q.seen, q.now)

ReadItem(r) ==
    /\ req[r].phase = "item"
    /\ LET q == req[r]
           first == CASE q.op.kind = "scene" -> NotLooked
                      [] q.op.kind = "upload" -> Look(q, PictureOf(q.op))
                      [] OTHER -> Look(q, q.op.item)
       IN  Proceed(r, Verdict(q.op, Was(q), first.has), [q EXCEPT !.found = first])
    /\ UNCHANGED <<database, clock, arrived>>

(* A picture that is not there: how far this upload of it has come. *)
ReadPending(r) ==
    /\ req[r].phase = "pending"
    /\ LET q == req[r]
           upload == Look(q, q.op.item)
       IN  Proceed(r, Place(q.op, Was(q), upload.has), [q EXCEPT !.found = upload])
    /\ UNCHANGED <<database, clock, arrived>>

(* again: a part that is there is sent again. *)
ReadPart(r) ==
    /\ req[r].phase = "part"
    /\ LET o == req[r].op
           list == parts[req[r].found.item]
       IN  IF o.n < Len(list) /\ list[o.n + 1].body = o.body
           THEN Answer(r, "ok") ELSE Answer(r, "partExists")
    /\ UNCHANGED <<database, clock, arrived>>

\* fault: only a write of the scene renews the nonce
FaultWritten(q) ==
    [Planned(q.op, Was(q), q.found.has, q.now) EXCEPT
        !.proof = IF @ = Nobody THEN q.op.token ELSE @,
        !.nonce = IF q.op.kind = "scene" THEN lastNonce + 1 ELSE @, !.writtenAt = q.now]

(* The head it writes: the first write claims the drawing. *)
Written(q) ==
    [Planned(q.op, Was(q), q.found.has, q.now) EXCEPT
        !.proof = IF @ = Nobody THEN q.op.token ELSE @,
        !.nonce = lastNonce + 1, !.writtenAt = q.now]

FaultUnmoved(q) == TRUE   \* fault: the batch lands whatever the head is by now

(* StoreDb.write lands on the nonce that was read. *)
Unmoved(q) == head.nonce = q.seen.nonce

(* The batch lands, head and parts; its answer may be lost. *)
Land(r) ==
    /\ req[r].phase = "write"
    /\ Unmoved(req[r])
    /\ head' = Written(req[r])
    /\ parts' = Changed(req[r].op, parts, req[r].seen, req[r].now)
    /\ lastNonce' = lastNonce + 1
    /\ \E told \in {"ok", "unavailable"} : Answer(r, told)
    /\ UNCHANGED <<clock, arrived>>

LoseRace(r) ==
    /\ req[r].phase = "write"
    /\ ~Unmoved(req[r])
    /\ IF req[r].attempt < Attempts
       THEN Go(r, [req[r] EXCEPT !.phase = "head", !.attempt = @ + 1])
       ELSE Answer(r, "busy")
    /\ UNCHANGED <<database, clock, arrived>>

(* A database call fails, before it did anything. *)
Break(r) ==
    /\ UnderWay(r)
    /\ Answer(r, "unavailable")
    /\ UNCHANGED <<database, clock, arrived>>

(* A write of another drawing sweeps this one away. *)
Sweep ==
    /\ head.nonce # 0
    /\ head.writtenAt < clock - ExpiryTicks
    /\ head' = NoHead /\ parts' = NoParts
    /\ UNCHANGED <<lastNonce, clock, req, answer, arrived>>

Tick ==
    /\ clock < MaxClock /\ arrived + clock < MaxEvents
    /\ \A r \in Requests : UnderWay(r) => clock < req[r].now + Lasting
    /\ clock' = clock + 1
    /\ UNCHANGED <<database, req, answer, arrived>>

Serve(r) ==
    ReadHead(r) \/ ReadItem(r) \/ ReadPending(r) \/ ReadPart(r) \/ Land(r) \/ LoseRace(r)

Next == (\E r \in Requests : Arrive(r) \/ Serve(r) \/ Break(r)) \/ Sweep \/ Tick

Spec == Init /\ [][Next]_vars

-----------------------------------------------------------------------------
Total(Chosen(_)) == MapThenSumSet(LAMBDA item : BytesOf(parts[item]), {i \in Items : Chosen(i)})

(* The head's counters are what is stored (storeDb.ts Head): were one wrong *)
(* the caps would refuse what fits, or take what does not.                  *)
CountersMatch ==
    /\ head.bytes = Total(LAMBDA item : TRUE)
    /\ head.sceneBytes = BytesOf(parts[Scene])
    /\ head.stagedBytes = Total(IsStaged)
    /\ head.pendingBytes = Total(IsPending)
    /\ head.pictures = Cardinality({pid \in Pids : parts[Picture(pid)] # <<>>})

(* The pictures fit beside the scene and beside what would replace it, so   *)
(* the cap holds whichever is current (handlers.ts:263-268).                *)
CapsHold ==
    /\ PicturesIn(head) + Larger(head.sceneBytes, head.stagedBytes) <= MaxDrawingBytes
    /\ head.pictures <= MaxPictures

(* "A head unchanged means its parts are unchanged too" (storeDb.ts:5-6):   *)
(* what a request found after its head is still there if the head is.       *)
HeadGuardsParts ==
    \A r \in Requests :
        req[r].phase \in {"pending", "part", "write"} /\ req[r].seen.nonce = head.nonce =>
            /\ req[r].seen = head
            /\ req[r].found = NotLooked \/ req[r].found = Look(req[r], req[r].found.item)

(* A commit is not refused for its size: each of its parts had room, and    *)
(* no picture took it since (handlers.ts:262-268, 366-368).  Only one that  *)
(* races the upload of its own parts can be, on a head older than they are. *)
CommitFits ==
    [][\A r \in Requests :
          UnderWay(r) /\ req[r].op.kind = "commit" /\ answer'[r] = "tooLarge"
          => ~Unmoved(req[r])]_vars

(* What the drawing looks like from outside.                                *)
WholeOf == [o \in Operations |->
    IF o.kind \in {"scene", "picture"} THEN {<<[total |-> 1, body |-> o.body]>>}
    ELSE {list \in UNION {[1..n -> [total : {n}, body : Bodies]] : n \in 2..MaxParts} :
             \A i \in DOMAIN list :
                 \E sent \in Operations :
                     /\ sent.item = o.item /\ sent.kind # "commit"
                     /\ sent.n = i - 1 /\ sent.total = Len(list) /\ sent.body = list[i].body
                     /\ o.kind = "commit" => sent.expected = o.expected}]

Whole(o) == WholeOf[o]

Outside == INSTANCE Drawing WITH
    rev <- head.rev,
    scene <- parts[Scene],
    pictures <- [pid \in Pids |-> parts[Picture(pid)]],
    owner <- head.proof,
    op <- [r \in Requests |-> req[r].op],
    PidOf <- LAMBDA o : o.item[2]

KeepsPromise == Outside!Spec
=============================================================================
