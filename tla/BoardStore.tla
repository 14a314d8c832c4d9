------------------------------ MODULE BoardStore ------------------------------
(***************************************************************************)
(* The API server's board repository (apps/api/src/boards/repository.ts)   *)
(* with the routes in front of it, at the grain of its database calls.     *)
(* Requests interleave at every await: the read of the board, the write of *)
(* its pictures, and the rev-guarded update.                               *)
(***************************************************************************)
EXTENDS BoardOps

CONSTANTS
    Requests,     \* requests that can be under way at once
    Operations,   \* what they may ask for
    Nothing,      \* a request slot with no request in it
    MaxAttempts,  \* MAX_WRITE_ATTEMPTS
    MaxRev        \* bound: no request arrives that could take the board past it

ASSUME BoardStoreAssumption ==
    /\ Operations \subseteq Operation
    /\ Nothing \notin Operations
    /\ MaxAttempts \in Nat \ {0}
    /\ MaxRev \in Nat

VARIABLES
    board,     \* the board's document
    pictures,  \* the keys of the picture documents
    op,        \* what each request asks for
    answer,    \* what each was told: "none" while it is under way
    phase,     \* the database call each is about to make
    seen,      \* the document each read last
    expected,  \* the rev a full replace insists on
    attempt,   \* which attempt of the write loop each is at
    arrivedAt  \* history: the board's rev when each arrived

vars == <<board, pictures, op, answer, phase, seen, expected, attempt, arrivedAt>>

Answers == {"ok", "notFound", "conflict", "tooLarge", "error"}
Phases == {"idle", "readRev", "read", "stow", "commit"}

UnderWay(r) == op[r] # Nothing /\ answer[r] = "none"

Init ==
    /\ board = NewBoard
    /\ pictures = {}
    /\ op = [r \in Requests |-> Nothing]
    /\ answer = [r \in Requests |-> "none"]
    /\ phase = [r \in Requests |-> "idle"]
    /\ seen = [r \in Requests |-> NewBoard]
    /\ expected = [r \in Requests |-> 0]
    /\ attempt = [r \in Requests |-> 0]
    /\ arrivedAt = [r \in Requests |-> 0]

-----------------------------------------------------------------------------
Answer(r, told) ==
    /\ answer' = [answer EXCEPT ![r] = told]
    /\ phase' = [phase EXCEPT ![r] = "idle"]

Go(r, next) ==
    /\ phase' = [phase EXCEPT ![r] = next]
    /\ UNCHANGED answer

(* routes.ts: the request is parsed; "If-Match: *" has a rev to look up. *)
Arrive(r) ==
    /\ op[r] = Nothing
    /\ board.rev + Cardinality({q \in Requests : UnderWay(q)}) < MaxRev
    /\ \E o \in Operations :
          /\ op' = [op EXCEPT ![r] = o]
          /\ expected' = [expected EXCEPT ![r] = o.rev]
          /\ Go(r, IF o.kind = "put" /\ o.rev = AnyRev THEN "readRev" ELSE "read")
    /\ attempt' = [attempt EXCEPT ![r] = 1]
    /\ arrivedAt' = [arrivedAt EXCEPT ![r] = board.rev]
    /\ UNCHANGED <<board, pictures, seen>>

ReadRev(r) ==
    /\ phase[r] = "readRev"
    /\ IF board.deleted
       THEN Answer(r, "notFound") /\ UNCHANGED expected
       ELSE Go(r, "read") /\ expected' = [expected EXCEPT ![r] = board.rev]
    /\ UNCHANGED <<board, pictures, op, seen, attempt, arrivedAt>>

ReadOfLatest(r) ==   \* fault: a replace takes whatever it finds for what it was to replace
    /\ phase[r] = "read"
    /\ op[r].kind # "delete"
    /\ IF board.deleted
       THEN Answer(r, "notFound") /\ UNCHANGED seen
       ELSE Go(r, "stow") /\ seen' = [seen EXCEPT ![r] = board]
    /\ UNCHANGED <<board, pictures, op, expected, attempt, arrivedAt>>

(* findBySlug, which opens every attempt; a replace also checks the rev. *)
Read(r) ==
    /\ phase[r] = "read"
    /\ op[r].kind # "delete"
    /\ IF board.deleted
       THEN Answer(r, "notFound") /\ UNCHANGED seen
       ELSE IF op[r].kind = "put" /\ board.rev # expected[r]
       THEN Answer(r, "conflict") /\ UNCHANGED seen
       ELSE Go(r, "stow") /\ seen' = [seen EXCEPT ![r] = board]
    /\ UNCHANGED <<board, pictures, op, expected, attempt, arrivedAt>>

StowOfRead(r) ==   \* fault: stows the pictures of what was read
    /\ phase[r] = "stow"
    /\ pictures' = pictures \cup PicturesOf(seen[r].elements)
    /\ IF TooLarge(Written(seen[r], op[r])) THEN Answer(r, "tooLarge") ELSE Go(r, "commit")
    /\ UNCHANGED <<board, op, seen, expected, attempt, arrivedAt>>

(* commit, up to the update: the pictures go first, then the size is looked at. *)
Stow(r) ==
    /\ phase[r] = "stow"
    /\ pictures' = pictures \cup PicturesOf(Written(seen[r], op[r]).elements)
    /\ IF TooLarge(Written(seen[r], op[r])) THEN Answer(r, "tooLarge") ELSE Go(r, "commit")
    /\ UNCHANGED <<board, op, seen, expected, attempt, arrivedAt>>

CommitBlindly(r) ==   \* fault: no rev in the filter
    /\ phase[r] = "commit"
    /\ board' = [Written(seen[r], op[r]) EXCEPT !.deleted = board.deleted]
    /\ \E told \in {"ok", "error"} : Answer(r, told)
    /\ UNCHANGED <<pictures, op, seen, expected, attempt, arrivedAt>>

(* The update matches only the rev that was read.  It sets the elements and *)
(* leaves deletedAt as it is.  Its answer may be lost.                      *)
Commit(r) ==
    /\ phase[r] = "commit"
    /\ board.rev = seen[r].rev
    /\ board' = [Written(seen[r], op[r]) EXCEPT !.deleted = board.deleted]
    /\ \E told \in {"ok", "error"} : Answer(r, told)
    /\ UNCHANGED <<pictures, op, seen, expected, attempt, arrivedAt>>

LoseRaceUpTo(r, last) ==
    /\ phase[r] = "commit"
    /\ board.rev # seen[r].rev
    /\ IF op[r].kind = "patch" /\ attempt[r] < last
       THEN Go(r, "read") /\ attempt' = [attempt EXCEPT ![r] = @ + 1]
       ELSE Answer(r, "conflict") /\ UNCHANGED attempt
    /\ UNCHANGED <<board, pictures, op, seen, expected, arrivedAt>>

LoseRaceAtOnce(r) == LoseRaceUpTo(r, 1)   \* fault: no retry

LoseRaceSpinning(r) ==   \* fault: tries the same update again, without a read
    phase[r] = "commit" /\ board.rev # seen[r].rev /\ op[r].kind = "patch" /\ UNCHANGED vars

LoseRace(r) == LoseRaceUpTo(r, MaxAttempts)

(* softDelete: one update. *)
Delete(r) ==
    /\ phase[r] = "read"
    /\ op[r].kind = "delete"
    /\ IF board.deleted
       THEN Answer(r, "notFound") /\ UNCHANGED board
       ELSE /\ board' = SoftDeleted(board)
            /\ \E told \in {"ok", "error"} : Answer(r, told)
    /\ UNCHANGED <<pictures, op, seen, expected, attempt, arrivedAt>>

(* A database call fails, or the server stops with the request under way. *)
Break(r) ==
    /\ phase[r] # "idle"
    /\ Answer(r, "error")
    /\ UNCHANGED <<board, pictures, op, seen, expected, attempt, arrivedAt>>

(* The handler's locals go with it. *)
Leave(r) ==
    /\ answer[r] # "none"
    /\ op' = [op EXCEPT ![r] = Nothing]
    /\ answer' = [answer EXCEPT ![r] = "none"]
    /\ seen' = [seen EXCEPT ![r] = NewBoard]
    /\ expected' = [expected EXCEPT ![r] = 0]
    /\ attempt' = [attempt EXCEPT ![r] = 0]
    /\ arrivedAt' = [arrivedAt EXCEPT ![r] = 0]
    /\ UNCHANGED <<board, pictures, phase>>

Serve(r) == ReadRev(r) \/ Read(r) \/ Stow(r) \/ Commit(r) \/ LoseRace(r) \/ Delete(r)

Next == \E r \in Requests : Arrive(r) \/ Serve(r) \/ Break(r) \/ Leave(r)

Spec == Init /\ [][Next]_vars

(* The server runs every handler to its end; requests need not arrive.  *)
FairSpec == Spec /\ \A r \in Requests : WF_vars(Serve(r))

-----------------------------------------------------------------------------
(* The types of the state, which every proof starts from. *)
TypeOK ==
    /\ board \in BoardDoc
    /\ pictures \subseteq Pictures
    /\ op \in [Requests -> Operations \cup {Nothing}]
    /\ answer \in [Requests -> Answers \cup {"none"}]
    /\ phase \in [Requests -> Phases]
    /\ seen \in [Requests -> BoardDoc]
    /\ expected \in [Requests -> Nat]
    /\ attempt \in [Requests -> 0..MaxAttempts]
    /\ arrivedAt \in [Requests -> Nat]

(* repository.ts:186-211, the optimistic lock: between its read and its     *)
(* update a request works from a copy that is either the board as it still  *)
(* is, or one whose rev the board has left for good.  The lock is only as   *)
(* good as every writer's bumping rev, softDelete included.                 *)
OptimisticLock ==
    \A r \in Requests :
        phase[r] \in {"stow", "commit"} =>
            /\ seen[r].rev <= board.rev
            /\ seen[r].rev = board.rev => seen[r] = board
            /\ ~seen[r].deleted

(* pictures.ts:74-81: a board never names a picture that is not there, at   *)
(* any point of any write, also one that dies half-way or loses its race.   *)
NamedPicturesStored == PicturesOf(board.elements) \subseteq pictures

(* repository.ts:29-33: "too often" is said only of a board that took at    *)
(* least MaxAttempts writes while the patch was under way.                  *)
ConflictMeansContention ==
    \A r \in Requests :
        op[r] # Nothing /\ op[r].kind = "patch" /\ answer[r] = "conflict"
            => board.rev >= arrivedAt[r] + MaxAttempts

(* Whatever was stored under an id, a patch leaves there the same stamp or  *)
(* a newer one: no late, repeated or stale patch takes an edit back, and    *)
(* none empties a slot (reconcile.ts:53-75).                                *)
Kept(before, after) ==
    \A id \in Ids :
        before[id] # Absent =>
            /\ after[id] # Absent
            /\ ~IsNewer(before[id], after[id])

PatchStep(r) == op[r] # Nothing /\ op[r].kind = "patch" /\ Commit(r)

PatchNeverRegresses ==
    [][\A r \in Requests : PatchStep(r) => Kept(board.elements, board'.elements)]_vars

(* A patch that took effect is in the board, each element of it or one with *)
(* a stamp at least as new.                                                 *)
PatchIsServed ==
    [][\A r \in Requests : PatchStep(r) => Kept(op[r].patch.elements, board'.elements)]_vars

(* pictures.ts:36-61: an image that had its picture and is still live after *)
(* a patch still has one, also when the winning edit came without it.       *)
PictureSurvivesEdits ==
    [][\A r \in Requests : PatchStep(r) =>
          \A id \in Images :
              HasPicture(board.elements[id]) /\ IsLive(board'.elements[id])
                  => HasPicture(board'.elements[id])]_vars

(* A deleted board is never written again, by no request that read it when  *)
(* it was there (the update's filter does not name deletedAt).              *)
DeletedIsFinal == [][board.deleted => UNCHANGED board]_vars

(* A full replace discards only the version it was made for: the one its    *)
(* caller named or, with "If-Match: *", the one the route looked up, two    *)
(* calls before the replace reads the board itself (routes.ts:69).  A patch *)
(* that is merged anywhere in between makes it a conflict, and is not lost. *)
ReplaceIsGuarded ==
    [][\A r \in Requests :
          op[r] # Nothing /\ op[r].kind = "put" /\ Commit(r)
              => /\ board.rev = expected[r]
                 /\ op[r].rev \in {AnyRev, expected[r]}]_vars

(* Every request is answered: the write loop is bounded.                    *)
EveryRequestAnswered == \A r \in Requests : UnderWay(r) ~> answer[r] # "none"

-----------------------------------------------------------------------------
(* The invariants below are what the proofs need to make the ones above     *)
(* inductive.                                                               *)

(* A request is in a handler exactly while it is under way, and a replace   *)
(* that got past the read read the rev it insists on.                       *)
Bookkeeping ==
    \A r \in Requests :
        /\ phase[r] # "idle" <=> UnderWay(r)
        /\ op[r] = Nothing => answer[r] = "none"
        /\ phase[r] = "readRev" => op[r].kind = "put" /\ op[r].rev = AnyRev
        /\ phase[r] \in {"stow", "commit"} => op[r].kind # "delete"
        /\ UnderWay(r) /\ op[r].kind = "put" =>
              /\ op[r].rev \in {AnyRev, expected[r]}
              /\ phase[r] \in {"stow", "commit"} => seen[r].rev = expected[r]

(* No update is issued before the pictures it names are written. *)
PicturesFirst ==
    \A r \in Requests :
        phase[r] = "commit" => PicturesOf(Written(seen[r], op[r]).elements) \subseteq pictures

(* Every attempt a patch has lost is a write the board has taken since. *)
AttemptsArePaidFor ==
    \A r \in Requests :
        UnderWay(r) /\ op[r].kind = "patch" =>
            /\ attempt[r] \in 1..MaxAttempts
            /\ arrivedAt[r] + attempt[r] <=
                  1 + (IF phase[r] = "read" THEN board.rev ELSE seen[r].rev)

IndInv ==
    /\ TypeOK
    /\ OptimisticLock
    /\ Bookkeeping
    /\ PicturesFirst
    /\ NamedPicturesStored
    /\ AttemptsArePaidFor
    /\ ConflictMeansContention

Promise == INSTANCE Board

(* The server keeps the promise Board makes. *)
KeepsPromise == Promise!Spec
=============================================================================
