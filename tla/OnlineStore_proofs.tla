-------------------------- MODULE OnlineStore_proofs --------------------------
(***************************************************************************)
(* First part: the head guards the parts.  What a request found after the  *)
(* head it read is still there while the head has the nonce it read, for   *)
(* any number of requests, any items, and whatever the bounds.             *)
(*                                                                         *)
(* A nonce is new, except the 0 of a drawing that is not stored: a drawing *)
(* written and swept away again has it twice.  That no request sees it     *)
(* both times is a matter of time: one that read "not stored" came in      *)
(* before the writes since were answered, so that the drawing cannot       *)
(* expire while it lasts (OnlineStoreAssumption).                          *)
(*                                                                         *)
(* Second part: so the store does what Drawing promises.  Each write that  *)
(* lands puts what its request was entitled to write when it read, and the *)
(* first part says that it still is; every other step is one of Drawing's  *)
(* refusals or is not seen.                                                *)
(*                                                                         *)
(* Third part: the head's counters are the sums of what is stored, so that *)
(* the caps hold and a commit is not refused for its size.  A sum is a     *)
(* function on the subsets of a finite set (IsSum); that the folds of the  *)
(* model are such sums goes by induction over those subsets.               *)
(***************************************************************************)
EXTENDS OnlineStore, SequenceTheorems, FiniteSetTheorems, TLAPS

IsHead(h) == DOMAIN h = DOMAIN NoHead /\ h.nonce \in Nat /\ h.writtenAt \in Nat

IsRequest(q) ==
    /\ DOMAIN q = DOMAIN Idle
    /\ q.now \in Nat /\ IsHead(q.seen)
    /\ q.phase \in Phases => q.op \in Operations

Types ==
    /\ IsHead(head) /\ lastNonce \in Nat /\ clock \in Nat
    /\ req = [r \in Requests |-> req[r]]
    /\ \A r \in Requests : IsRequest(req[r])

(* It has read the head, and decides on it. *)
Decides(q) == q.phase \in {"item", "pending", "part", "write"}

NoncesAreNew ==
    /\ head.nonce <= lastNonce
    /\ \A r \in Requests : req[r].seen.nonce <= lastNonce

StillThere(q) ==
    /\ q.seen = head
    /\ q.phase = "item" \/ q.found = NotLooked \/ q.found = Look(q, q.found.item)

HeadIsSeen ==
    \A r \in Requests :
        Decides(req[r]) /\ req[r].seen.nonce = head.nonce => StillThere(req[r])

InTime ==
    \A r \in Requests : UnderWay(r) => req[r].now <= clock /\ clock <= req[r].now + Lasting

WrittenSince ==
    \A r \in Requests :
        Decides(req[r]) /\ req[r].seen.nonce # head.nonce /\ head.nonce # 0
            => req[r].now <= head.writtenAt + Lasting

IInv == Types /\ NoncesAreNew /\ HeadIsSeen /\ InTime /\ WrittenSince

-----------------------------------------------------------------------------
LEMMA Columns ==
    /\ DOMAIN NoHead = {"rev", "proof", "nonce", "bytes", "sceneBytes", "pictures", "stagedBytes",
                        "stagedAt", "pendingBytes", "pendingAt", "writtenAt"}
    /\ DOMAIN Idle = {"op", "phase", "now", "seen", "found", "attempt"}
  BY DEF NoHead, Idle

LEMMA IdleFacts == IsRequest(Idle) /\ ~Decides(Idle) /\ Idle.phase = "idle" /\ Idle.seen.nonce = 0
  BY DEF IsRequest, IsHead, Idle, NoHead, Decides, Phases

LEMMA PlannedColumns ==
    ASSUME NEW o \in Operations, NEW was, NEW item, NEW t
    PROVE  DOMAIN Planned(o, was, item, t) = DOMAIN was
  <1> DEFINE size == Size(o, item)
  <1> HIDE DEF size
  <1>1. o.kind \in {"scene", "staged", "commit", "picture", "upload"}
    <2>1. o \in Operation
      BY OnlineStoreAssumption
    <2>2. o.kind \in DOMAIN ItemsFor
      BY <2>1 DEF Operation
    <2>3. QED
      BY <2>2 DEF ItemsFor
  <1>2. CASE o.kind \in {"scene", "commit"}
    BY <1>2 DEF Planned, size
  <1>3. CASE o.kind = "staged"
    BY <1>3 DEF Planned, size
  <1>4. CASE o.kind = "picture"
    BY <1>4 DEF Planned, size
  <1>5. CASE o.kind = "upload" /\ o.n # o.total - 1
    BY <1>5 DEF Planned, size
  <1>6. CASE o.kind = "upload" /\ o.n = o.total - 1
    BY <1>6 DEF Planned, size
  <1>7. QED
    BY <1>1, <1>2, <1>3, <1>4, <1>5, <1>6

LEMMA WrittenFacts ==
    ASSUME NEW q, IsRequest(q), q.phase \in Phases, lastNonce \in Nat
    PROVE  IsHead(Written(q)) /\ Written(q).nonce = lastNonce + 1 /\ Written(q).writtenAt = q.now
  <1> DEFINE plan == Planned(q.op, Was(q), q.found.has, q.now)
             p == IF plan.proof = Nobody THEN q.op.token ELSE plan.proof
             n == lastNonce + 1
             v == q.now
  <1>1. DOMAIN q.seen = DOMAIN NoHead
    BY DEF IsRequest, IsHead
  <1>2. DOMAIN Was(q) = DOMAIN q.seen
    BY DEF Was, Settled
  <1>3. DOMAIN plan = DOMAIN Was(q)
    BY PlannedColumns DEF IsRequest
  <1>4. Written(q) = [plan EXCEPT !.proof = p, !.nonce = n, !.writtenAt = v]
    BY DEF Written
  <1>5. {"proof", "nonce", "writtenAt"} \subseteq DOMAIN plan
    BY <1>1, <1>2, <1>3, Columns
  <1>6. n \in Nat /\ v \in Nat
    BY DEF IsRequest
  <1> HIDE DEF plan, p, n, v
  <1>7. Written(q).nonce = n /\ Written(q).writtenAt = v /\ DOMAIN Written(q) = DOMAIN plan
    BY <1>4, <1>5
  <1>8. QED
    BY <1>1, <1>2, <1>3, <1>6, <1>7 DEF IsHead, n, v

LEMMA InitHolds == Init => IInv
  BY IdleFacts DEF Init, IInv, Types, NoncesAreNew, HeadIsSeen, InTime, WrittenSince, UnderWay,
                   IsHead, NoHead

(* A request that goes idle leaves nothing to show; the rest is as it was. *)
LEMMA AnswerKeeps ==
    ASSUME IInv, NEW r \in Requests, NEW told, Answer(r, told),
           UNCHANGED <<head, parts, lastNonce, clock>>
    PROVE  IInv'
  <1>1. req' = [req EXCEPT ![r] = Idle]
    BY DEF Answer
  <1>2. ASSUME NEW u \in Requests
        PROVE  req'[u] = IF u = r THEN Idle ELSE req[u]
    BY <1>1 DEF IInv, Types
  <1>3. Types'
    BY <1>1, <1>2, IdleFacts DEF IInv, Types
  <1>4. NoncesAreNew'
    BY <1>2, IdleFacts DEF IInv, Types, NoncesAreNew
  <1>5. HeadIsSeen'
    BY <1>2, IdleFacts DEF IInv, HeadIsSeen, StillThere, Look
  <1>6. InTime' /\ WrittenSince'
    BY <1>2, IdleFacts DEF IInv, InTime, WrittenSince, UnderWay
  <1>7. QED
    BY <1>3, <1>4, <1>5, <1>6 DEF IInv

(* One that goes on, on a head it may use. *)
LEMMA GoKeeps ==
    ASSUME IInv, NEW r \in Requests, NEW next, Go(r, next), UnderWay(r),
           UNCHANGED <<head, parts, lastNonce, clock>>,
           IsRequest(next), next.now = req[r].now, next.seen.nonce <= lastNonce,
           Decides(next) /\ next.seen.nonce = head.nonce => StillThere(next),
           Decides(next) /\ next.seen.nonce # head.nonce =>
                Decides(req[r]) /\ next.seen = req[r].seen
    PROVE  IInv'
  <1>1. req' = [req EXCEPT ![r] = next]
    BY DEF Go
  <1>2. ASSUME NEW u \in Requests
        PROVE  req'[u] = IF u = r THEN next ELSE req[u]
    BY <1>1 DEF IInv, Types
  <1>3. Types'
    BY <1>1, <1>2 DEF IInv, Types
  <1>4. NoncesAreNew'
    BY <1>2 DEF IInv, Types, NoncesAreNew
  <1>5. HeadIsSeen'
    BY <1>2 DEF IInv, HeadIsSeen, StillThere, Look
  <1>6. InTime' /\ WrittenSince'
    BY <1>2 DEF IInv, InTime, WrittenSince, UnderWay
  <1>7. QED
    BY <1>3, <1>4, <1>5, <1>6 DEF IInv

LEMMA ArriveKeeps ==
    ASSUME IInv, NEW r \in Requests, Arrive(r)
    PROVE  IInv'
  <1> DEFINE New(o) == [Idle EXCEPT !.op = o, !.phase = "head", !.now = clock, !.attempt = 1]
  <1>1. PICK o \in Operations : req' = [req EXCEPT ![r] = New(o)]
    BY DEF Arrive
  <1>2. UNCHANGED <<head, parts, lastNonce, clock>>
    BY DEF Arrive, database
  <1> DEFINE next == New(o)
  <1>3. /\ DOMAIN next = DOMAIN Idle /\ next.op = o /\ next.phase = "head"
        /\ next.now = clock /\ next.seen = Idle.seen
    BY Columns
  <1>4. clock \in Nat /\ lastNonce \in Nat /\ Lasting \in Nat
    BY OnlineStoreAssumption DEF IInv, Types
  <1> HIDE DEF New
  <1> HIDE DEF next
  <1>5. /\ IsRequest(next) /\ ~Decides(next)
        /\ next.now <= clock /\ clock <= next.now + Lasting
        /\ next.seen.nonce <= lastNonce
    BY <1>3, <1>4, IdleFacts DEF IsRequest, Decides
  <1>6. ASSUME NEW u \in Requests
        PROVE  req'[u] = IF u = r THEN next ELSE req[u]
    BY <1>1 DEF IInv, Types, next
  <1>7. Types'
    BY <1>1, <1>2, <1>5, <1>6 DEF IInv, Types
  <1>8. NoncesAreNew'
    BY <1>2, <1>5, <1>6 DEF IInv, NoncesAreNew
  <1>9. HeadIsSeen'
    BY <1>2, <1>5, <1>6 DEF IInv, HeadIsSeen, StillThere, Look
  <1>10. InTime' /\ WrittenSince'
    BY <1>2, <1>5, <1>6 DEF IInv, InTime, WrittenSince, UnderWay
  <1>11. QED
    BY <1>7, <1>8, <1>9, <1>10 DEF IInv

(* What a step may change of a request that goes on. *)
LEMMA Phased ==
    ASSUME NEW q, IsRequest(q), q.phase \in Phases, NEW phase, NEW seen, IsHead(seen)
    PROVE  LET next == [q EXCEPT !.phase = phase, !.seen = seen]
           IN  IsRequest(next) /\ next.phase = phase /\ next.seen = seen /\ next.now = q.now
  <1> DEFINE next == [q EXCEPT !.phase = phase, !.seen = seen]
  <1>1. /\ DOMAIN next = DOMAIN q /\ next.phase = phase /\ next.seen = seen
        /\ next.now = q.now /\ next.op = q.op
    BY Columns DEF IsRequest
  <1>2. QED
    BY <1>1 DEF IsRequest

Finding(q, found, phase) == [q EXCEPT !.found = found, !.phase = phase]

LEMMA FindingFacts ==
    ASSUME NEW q, IsRequest(q), q.phase \in Phases, NEW phase, NEW found
    PROVE  LET next == Finding(q, found, phase)
           IN  /\ IsRequest(next) /\ next.phase = phase /\ next.found = found
               /\ next.now = q.now /\ next.seen = q.seen /\ next.op = q.op
  <1> DEFINE next == Finding(q, found, phase)
  <1>1. /\ DOMAIN next = DOMAIN q /\ next.phase = phase /\ next.found = found
        /\ next.now = q.now /\ next.op = q.op /\ next.seen = q.seen
    BY Columns DEF IsRequest, Finding
  <1>2. QED
    BY <1>1 DEF IsRequest

Retried(q, attempt) == [q EXCEPT !.phase = "head", !.attempt = attempt]

LEMMA RetriedFacts ==
    ASSUME NEW q, IsRequest(q), q.phase \in Phases, NEW attempt
    PROVE  LET next == Retried(q, attempt)
           IN  /\ IsRequest(next) /\ next.phase = "head" /\ next.seen = q.seen
               /\ next.now = q.now /\ next.op = q.op
  <1> DEFINE next == Retried(q, attempt)
  <1>1. /\ DOMAIN next = DOMAIN q /\ next.phase = "head"
        /\ next.now = q.now /\ next.op = q.op /\ next.seen = q.seen
    BY Columns DEF IsRequest, Retried
  <1>2. QED
    BY <1>1 DEF IsRequest, Phases

LEMMA ReadHeadKeeps ==
    ASSUME IInv, NEW r \in Requests, ReadHead(r)
    PROVE  IInv'
  <1> DEFINE next == [req[r] EXCEPT !.phase = "item", !.seen = head]
  <1>1. UNCHANGED <<head, parts, lastNonce, clock>>
    BY DEF ReadHead, database
  <1>2. (\E told : Answer(r, told)) \/ Go(r, next)
    BY DEF ReadHead
  <1>3. CASE \E told : Answer(r, told)
    BY <1>1, <1>3, AnswerKeeps
  <1>4. CASE Go(r, next)
    <2>1. req[r].phase = "head" /\ IsRequest(req[r]) /\ IsHead(head) /\ head.nonce <= lastNonce
      BY DEF ReadHead, IInv, Types, NoncesAreNew
    <2>2. /\ IsRequest(next) /\ next.phase = "item" /\ next.seen = head
          /\ next.now = req[r].now
      BY <2>1, Phased DEF Phases
    <2>3. UnderWay(r)
      BY <2>1, IdleFacts DEF UnderWay
    <2> HIDE DEF next
    <2>4. QED
      BY <1>1, <1>4, <2>1, <2>2, <2>3, GoKeeps DEF StillThere
  <1>5. QED
    BY <1>2, <1>3, <1>4

(* What a request finds now is still there. *)
LEMMA FindingKeeps ==
    ASSUME IInv, NEW r \in Requests, req[r].phase \in {"item", "pending"},
           NEW item, NEW found, found = NotLooked \/ found = Look(req[r], item),
           NEW phase \in Phases, Go(r, Finding(req[r], found, phase)),
           UNCHANGED <<head, parts, lastNonce, clock>>
    PROVE  IInv'
  <1> DEFINE next == Finding(req[r], found, phase)
  <1>1. IsRequest(req[r]) /\ req[r].phase \in Phases /\ req[r].seen.nonce <= lastNonce
    BY DEF IInv, Types, NoncesAreNew, Phases
  <1>2. /\ IsRequest(next) /\ next.phase = phase /\ next.found = found
        /\ next.now = req[r].now /\ next.seen = req[r].seen
    BY <1>1, FindingFacts
  <1>3. UnderWay(r) /\ Decides(req[r])
    BY IdleFacts DEF UnderWay, Decides
  <1>4. req[r].seen.nonce = head.nonce => req[r].seen = head
    BY <1>3 DEF IInv, HeadIsSeen, StillThere
  <1>5. Go(r, next)
    OBVIOUS
  <1> HIDE DEF next
  <1>6. next.found = NotLooked \/ next.found = Look(next, next.found.item)
    BY <1>2 DEF Look
  <1>7. QED
    BY <1>1, <1>2, <1>3, <1>4, <1>5, <1>6, GoKeeps DEF StillThere

LEMMA ProceedsFinding ==
    ASSUME NEW r \in Requests, NEW found, NEW verdict,
           Proceed(r, verdict, [req[r] EXCEPT !.found = found])
    PROVE  \/ Answer(r, verdict)
           \/ verdict \in Phases /\ Go(r, Finding(req[r], found, verdict))
  BY Zenon DEF Proceed, Finding

LEMMA FindKeeps ==
    ASSUME IInv, NEW r \in Requests, ReadItem(r) \/ ReadPending(r)
    PROVE  IInv'
  <1>1. UNCHANGED <<head, parts, lastNonce, clock>>
    BY DEF ReadItem, ReadPending, database
  <1>2. CASE ReadItem(r)
    <2> DEFINE first == CASE req[r].op.kind = "scene" -> NotLooked
                          [] req[r].op.kind = "upload" -> Look(req[r], PictureOf(req[r].op))
                          [] OTHER -> Look(req[r], req[r].op.item)
               verdict == Verdict(req[r].op, Was(req[r]), first.has)
    <2>1. Proceed(r, verdict, [req[r] EXCEPT !.found = first]) /\ req[r].phase = "item"
      BY <1>2 DEF ReadItem
    <2>2. PICK item : first = NotLooked \/ first = Look(req[r], item)
      OBVIOUS
    <2> HIDE DEF first, verdict
    <2>3. \/ Answer(r, verdict)
          \/ verdict \in Phases /\ Go(r, Finding(req[r], first, verdict))
      BY <2>1, ProceedsFinding
    <2>4. QED
      BY <1>1, <2>1, <2>2, <2>3, FindingKeeps, AnswerKeeps
  <1>3. CASE ReadPending(r)
    <2> DEFINE upload == Look(req[r], req[r].op.item)
               verdict == Place(req[r].op, Was(req[r]), upload.has)
    <2>1. Proceed(r, verdict, [req[r] EXCEPT !.found = upload]) /\ req[r].phase = "pending"
      BY <1>3 DEF ReadPending
    <2> HIDE DEF verdict
    <2>2. \/ Answer(r, verdict)
          \/ verdict \in Phases /\ Go(r, Finding(req[r], upload, verdict))
      BY <2>1, ProceedsFinding
    <2>3. QED
      BY <1>1, <2>1, <2>2, FindingKeeps, AnswerKeeps
  <1>4. QED
    BY <1>2, <1>3

LEMMA QuietKeeps ==
    ASSUME IInv, NEW r \in Requests, ReadPart(r) \/ LoseRace(r) \/ Break(r)
    PROVE  IInv'
  <1>1. UNCHANGED <<head, parts, lastNonce, clock>>
    BY DEF ReadPart, LoseRace, Break, database
  <1>2. \/ \E told : Answer(r, told)
        \/ /\ req[r].phase = "write"
           /\ \E attempt : Go(r, Retried(req[r], attempt))
    BY DEF ReadPart, LoseRace, Break, Retried
  <1>3. CASE \E told : Answer(r, told)
    BY <1>1, <1>3, AnswerKeeps
  <1>4. ASSUME NEW attempt, req[r].phase = "write", Go(r, Retried(req[r], attempt))
        PROVE  IInv'
    <2> DEFINE next == Retried(req[r], attempt)
    <2>1. IsRequest(req[r]) /\ req[r].phase \in Phases /\ req[r].seen.nonce <= lastNonce
      BY <1>4 DEF IInv, Types, NoncesAreNew, Phases
    <2>2. /\ IsRequest(next) /\ next.phase = "head" /\ next.seen = req[r].seen
          /\ next.now = req[r].now
      BY <2>1, RetriedFacts
    <2>3. UnderWay(r)
      BY <1>4, IdleFacts DEF UnderWay
    <2>4. Go(r, next)
      BY <1>4
    <2> HIDE DEF next
    <2>5. QED
      BY <1>1, <2>1, <2>2, <2>3, <2>4, GoKeeps DEF Decides
  <1>5. QED
    BY <1>2, <1>3, <1>4

(* A nonce nobody has seen; who is under way came in before this answer.    *)
LEMMA LandKeeps ==
    ASSUME IInv, NEW r \in Requests, Land(r)
    PROVE  IInv'
  <1> DEFINE written == Written(req[r])
  <1>1. /\ req[r].phase = "write"
        /\ head' = written /\ lastNonce' = lastNonce + 1 /\ clock' = clock
        /\ req' = [req EXCEPT ![r] = Idle]
    BY DEF Land, Answer
  <1>2. IsRequest(req[r]) /\ lastNonce \in Nat /\ clock \in Nat /\ Lasting \in Nat
    BY OnlineStoreAssumption DEF IInv, Types
  <1>3. /\ IsHead(written) /\ written.nonce = lastNonce + 1
        /\ written.writtenAt = req[r].now
    BY <1>1, <1>2, WrittenFacts DEF Phases
  <1> HIDE DEF written
  <1>4. ASSUME NEW u \in Requests
        PROVE  req'[u] = IF u = r THEN Idle ELSE req[u]
    BY <1>1 DEF IInv, Types
  <1>5. clock <= req[r].now + Lasting
    BY <1>1, IdleFacts DEF IInv, InTime, UnderWay
  <1>6. Types'
    BY <1>1, <1>2, <1>3, <1>4, IdleFacts DEF IInv, Types
  <1>7. \A u \in Requests : req[u].seen.nonce \in Nat /\ req[u].seen.nonce <= lastNonce
    BY DEF IInv, Types, NoncesAreNew, IsRequest, IsHead
  <1>8. NoncesAreNew'
    BY <1>1, <1>2, <1>3, <1>4, <1>7, IdleFacts DEF NoncesAreNew
  <1>9. HeadIsSeen'
    BY <1>1, <1>2, <1>3, <1>4, <1>7, IdleFacts DEF HeadIsSeen
  <1>10. InTime'
    BY <1>1, <1>4 DEF IInv, InTime, UnderWay
  <1>11. WrittenSince'
    <2>1. ASSUME NEW u \in Requests, Decides(req'[u])
          PROVE  req'[u].now <= head'.writtenAt + Lasting
      <3>1. req'[u] = req[u] /\ UnderWay(u)
        BY <1>4, <2>1, IdleFacts DEF UnderWay
      <3>2. req[u].now <= clock /\ req[u].now \in Nat /\ req[r].now \in Nat
        BY <1>2, <3>1 DEF IInv, Types, IsRequest, InTime
      <3>3. QED
        BY <1>1, <1>2, <1>3, <1>5, <3>1, <3>2
    <2>2. QED
      BY <2>1 DEF WrittenSince
  <1>12. QED
    BY <1>6, <1>8, <1>9, <1>10, <1>11 DEF IInv

(* Nobody is under way who read that there was no drawing. *)
LEMMA SweepKeeps == IInv /\ Sweep => IInv'
  <1> SUFFICES ASSUME IInv, Sweep PROVE IInv'
    OBVIOUS
  <1>1. /\ head.nonce # 0 /\ head.writtenAt < clock - ExpiryTicks
        /\ head' = NoHead /\ UNCHANGED <<lastNonce, clock, req>>
    BY DEF Sweep
  <1>2. IsHead(NoHead) /\ NoHead.nonce = 0
    BY DEF IsHead, NoHead
  <1>3. /\ clock \in Nat /\ head.writtenAt \in Nat /\ Lasting \in Nat
        /\ ExpiryTicks \in Nat /\ ExpiryTicks >= 2 * Lasting
    BY OnlineStoreAssumption DEF IInv, Types, IsHead
  <1>4. ASSUME NEW u \in Requests, Decides(req[u])
        PROVE  req[u].seen.nonce = head.nonce
    <2>1. UnderWay(u)
      BY <1>4, IdleFacts DEF UnderWay
    <2>2. req[u].now \in Nat /\ clock <= req[u].now + Lasting
      BY <2>1 DEF IInv, Types, IsRequest, InTime
    <2>3. ~(req[u].now <= head.writtenAt + Lasting)
      BY <1>1, <1>3, <2>2
    <2>4. QED
      BY <1>1, <1>4, <2>3 DEF IInv, WrittenSince
  <1>5. Types' /\ InTime'
    BY <1>1, <1>2 DEF IInv, Types, InTime, UnderWay
  <1>6. NoncesAreNew'
    BY <1>1, <1>2 DEF IInv, Types, NoncesAreNew
  <1>7. HeadIsSeen' /\ WrittenSince'
    BY <1>1, <1>2, <1>4 DEF HeadIsSeen, WrittenSince
  <1>8. QED
    BY <1>5, <1>6, <1>7 DEF IInv

LEMMA TickKeeps == IInv /\ Tick => IInv'
  <1> SUFFICES ASSUME IInv, Tick PROVE IInv'
    OBVIOUS
  <1>1. /\ \A r \in Requests : UnderWay(r) => clock < req[r].now + Lasting
        /\ clock' = clock + 1
        /\ UNCHANGED <<head, parts, lastNonce, req>>
    BY DEF Tick, database
  <1>2. clock \in Nat /\ clock' \in Nat /\ Lasting \in Nat
    BY <1>1, OnlineStoreAssumption DEF IInv, Types
  <1>3. Types' /\ NoncesAreNew' /\ WrittenSince'
    BY <1>1, <1>2 DEF IInv, Types, NoncesAreNew, WrittenSince
  <1>4. HeadIsSeen'
    BY <1>1 DEF IInv, HeadIsSeen, StillThere, Look
  <1>5. InTime'
    <2>1. \A r \in Requests : req[r].now \in Nat
      BY DEF IInv, Types, IsRequest
    <2>2. QED
      BY <1>1, <1>2, <2>1 DEF IInv, InTime, UnderWay
  <1>6. QED
    BY <1>3, <1>4, <1>5 DEF IInv

LEMMA StepKeeps == IInv /\ [Next]_vars => IInv'
  <1>1. ASSUME IInv, UNCHANGED vars PROVE IInv'
    BY <1>1 DEF vars, database, IInv, Types, NoncesAreNew, HeadIsSeen, StillThere, Look, InTime,
                WrittenSince, UnderWay
  <1>2. ASSUME IInv, NEW r \in Requests, Arrive(r) \/ Serve(r) \/ Break(r) PROVE IInv'
    BY <1>2, ArriveKeeps, ReadHeadKeeps, FindKeeps, QuietKeeps, LandKeeps DEF Serve
  <1>3. QED
    BY <1>1, <1>2, SweepKeeps, TickKeeps DEF Next

(* The inductive invariant holds of every execution. *)
THEOREM Inductive == Spec => []IInv
  BY InitHolds, StepKeeps, PTL DEF Spec

(* "A head unchanged means its parts are unchanged too" (storeDb.ts:5-6),   *)
(* for any number of requests, items and sweeps.                            *)
THEOREM HeadAlwaysGuardsParts == Spec => []HeadGuardsParts
  <1>1. IInv => HeadGuardsParts
    BY DEF IInv, HeadIsSeen, HeadGuardsParts, StillThere, Decides
  <1>2. QED
    BY <1>1, Inductive, PTL

-----------------------------------------------------------------------------
(* What the store does from outside rests on three more facts: an upload's  *)
(* parts are parts that were sent for it, in order and, staged, on the rev  *)
(* there is; a request that decides may write what it found; and a drawing  *)
(* nobody owns has no parts.                                                *)
Part == [total : Nat, body : Bodies]

SentFor(item, list, rev) ==
    \A i \in 1..Len(list) :
        /\ list[i].total = list[1].total
        /\ \E o \in Operations :
              /\ o.item = item /\ o.kind \in {"staged", "upload"} /\ o.n = i - 1
              /\ o.total = list[i].total /\ o.body = list[i].body
              /\ o.kind = "staged" => o.expected = rev

PartsAreSent ==
    /\ parts \in [Items -> Seq(Part)]
    /\ \A item \in Items :
          /\ IsStaged(item) \/ IsPending(item) => SentFor(item, parts[item], head.rev)
          /\ IsPending(item) /\ parts[item] # <<>> => Len(parts[item]) < parts[item][1].total

(* As long as a staged part is stored, the head says so: it is what makes a *)
(* write of the scene drop it.                                              *)
StagedShow ==
    /\ head.stagedBytes \in Nat
    /\ \A item \in Items : IsStaged(item) /\ parts[item] # <<>> => head.stagedBytes > 0

OwnedParts ==
    /\ head.proof \in Tokens \cup {Nobody}
    /\ head.proof = Nobody => parts = NoParts

NextPart(o, has) == o.n = has.parts /\ (has = Absent \/ has.total = o.total)

MayWrite(o, found) ==
    CASE o.kind = "scene" -> TRUE
      [] o.kind = "commit" ->
            found.item = o.item /\ found.has # Absent /\ found.has.parts = found.has.total
      [] o.kind = "picture" -> found.item = o.item /\ found.has = Absent
      [] OTHER -> found.item = o.item /\ NextPart(o, found.has)

MayRepeat(o, found) ==
    /\ found.item \in Items
    /\ \/ o.kind = "staged"
       \/ o.kind = "picture" /\ found.item = o.item
       \/ o.kind = "upload" /\ found.item = PictureOf(o)
       \/ o.kind = "upload" /\ o.n < o.total - 1

Entitled(q) ==
    /\ Decides(q) =>
          /\ q.seen.proof \in {Nobody, q.op.token}
          /\ q.op.kind \in {"scene", "staged", "commit"} => q.seen.rev = q.op.expected
    /\ q.phase = "pending" =>
          q.op.kind = "upload" /\ q.found.item = PictureOf(q.op) /\ q.found.has = Absent
    /\ q.phase = "write" => MayWrite(q.op, q.found)
    /\ q.phase = "part" => MayRepeat(q.op, q.found)
    /\ q = Idle \/ q.phase \in Phases

RequestsAreEntitled == \A r \in Requests : Entitled(req[r])

(* The last part of an upload makes it a picture that was not there. *)
PictureIsNew ==
    \A r \in Requests :
        /\ req[r].phase = "write" /\ req[r].op.kind = "upload"
        /\ req[r].seen.nonce = head.nonce
        => parts[PictureOf(req[r].op)] = <<>>

RInv == PartsAreSent /\ StagedShow /\ OwnedParts /\ RequestsAreEntitled /\ PictureIsNew

-----------------------------------------------------------------------------
LEMMA ItemFacts ==
    /\ Scene \in Items /\ ~IsStaged(Scene) /\ ~IsPending(Scene)
    /\ \A sid \in Sids : Staged(sid) \in Items /\ IsStaged(Staged(sid)) /\ ~IsPending(Staged(sid))
    /\ \A pid \in Pids : /\ Picture(pid) \in Items /\ Picture(pid) # Scene
                         /\ ~IsStaged(Picture(pid)) /\ ~IsPending(Picture(pid))
    /\ \A pid, other \in Pids : Picture(pid) = Picture(other) => pid = other
    /\ \A pid \in Pids, uid \in Uids :
          /\ Pending(pid, uid) \in Items /\ Pending(pid, uid)[2] = pid
          /\ ~IsStaged(Pending(pid, uid)) /\ IsPending(Pending(pid, uid))
    /\ \A pid \in Pids : Picture(pid)[2] = pid
  BY DEF Items, Scene, Staged, Picture, Pending, IsStaged, IsPending

(* What an operation is about. *)
LEMMA OperationFacts ==
    ASSUME NEW o \in Operations
    PROVE  /\ o.kind \in {"scene", "staged", "commit", "picture", "upload"}
           /\ o.item \in Items
           /\ o.kind = "scene" => o.item = Scene
           /\ o.kind \in {"staged", "commit"} => IsStaged(o.item)
           /\ o.kind = "picture" => o.item[2] \in Pids /\ o.item = PictureOf(o)
           /\ o.kind = "upload" => o.item[2] \in Pids /\ IsPending(o.item)
           /\ o.kind \in {"picture", "upload"} =>
                  PictureOf(o) \in Items /\ ~IsStaged(PictureOf(o)) /\ ~IsPending(PictureOf(o))
           /\ o.n \in Nat /\ o.total \in 1..MaxParts /\ o.total \in Nat /\ o.n < o.total
           /\ o.body \in Bodies /\ o.token \in Tokens
           /\ o.kind \in {"staged", "upload"} => o.total > 1
           /\ o.kind \notin {"staged", "upload"} => o.n = 0 /\ o.total = 1
  <1>1. o \in Operation /\ MaxParts \in Nat
    BY OnlineStoreAssumption
  <1>2. /\ o.kind \in DOMAIN ItemsFor /\ o.item \in Items /\ o.item \in ItemsFor[o.kind]
        /\ o.n \in 0..(MaxParts - 1) /\ o.total \in 1..MaxParts /\ o.body \in Bodies
        /\ o.token \in Tokens
        /\ o.kind \in {"staged", "upload"} => o.n < o.total /\ o.total > 1
        /\ o.kind \notin {"staged", "upload"} => o.n = 0 /\ o.total = 1
    BY <1>1 DEF Operation
  <1>3. o.kind \in {"scene", "staged", "commit", "picture", "upload"}
    BY <1>2 DEF ItemsFor
  <1>4. o.kind = "scene" => o.item = Scene
    BY <1>2 DEF ItemsFor
  <1>5. o.kind \in {"staged", "commit"} => IsStaged(o.item)
    BY <1>2, ItemFacts DEF ItemsFor
  <1>6. o.kind = "picture" => o.item[2] \in Pids /\ o.item = PictureOf(o)
    BY <1>2, ItemFacts DEF ItemsFor, PictureOf
  <1>7. o.kind = "upload" => o.item[2] \in Pids /\ IsPending(o.item)
    BY <1>2, ItemFacts DEF ItemsFor
  <1>8. o.kind \in {"picture", "upload"} =>
            PictureOf(o) \in Items /\ ~IsStaged(PictureOf(o)) /\ ~IsPending(PictureOf(o))
    BY <1>6, <1>7, ItemFacts DEF PictureOf
  <1>9. o.n \in Nat /\ o.total \in Nat /\ o.n < o.total
    BY <1>1, <1>2, <1>3
  <1>10. QED
    BY <1>2, <1>3, <1>4, <1>5, <1>6, <1>7, <1>8, <1>9

(* What a write makes of the rev, the owner and the staged bytes. *)
LEMMA PlannedFacts ==
    ASSUME NEW o \in Operations, NEW was, DOMAIN was = DOMAIN NoHead, NEW item, NEW t
    PROVE  LET plan == Planned(o, was, item, t)
           IN  /\ plan.proof = was.proof
               /\ plan.rev = IF o.kind \in {"scene", "commit"} THEN was.rev + 1 ELSE was.rev
               /\ plan.stagedBytes = CASE o.kind \in {"scene", "commit"} -> 0
                                       [] o.kind = "staged" -> was.stagedBytes + Size(o, item)
                                       [] OTHER -> was.stagedBytes
  <1> DEFINE size == Size(o, item)
  <1>a. size = Size(o, item)
    OBVIOUS
  <1> HIDE DEF size
  <1>1. o.kind \in {"scene", "staged", "commit", "picture", "upload"}
    BY OperationFacts
  <1>2. CASE o.kind \in {"scene", "commit"}
    BY <1>2, Columns DEF Planned, size
  <1>3. CASE o.kind = "staged"
    BY <1>3, <1>a, Columns DEF Planned, size
  <1>4. CASE o.kind = "picture"
    BY <1>4, Columns DEF Planned, size
  <1>5. CASE o.kind = "upload" /\ o.n # o.total - 1
    BY <1>5, Columns DEF Planned, size
  <1>6. CASE o.kind = "upload" /\ o.n = o.total - 1
    BY <1>6, Columns DEF Planned, size
  <1>7. QED
    BY <1>1, <1>2, <1>3, <1>4, <1>5, <1>6

LEMMA WasFacts ==
    ASSUME NEW q, IsHead(q.seen)
    PROVE  /\ DOMAIN Was(q) = DOMAIN NoHead
           /\ Was(q).rev = q.seen.rev /\ Was(q).proof = q.seen.proof
           /\ Was(q).stagedBytes = IF StagedIdle(q.seen, q.now) THEN 0 ELSE q.seen.stagedBytes
  <1> DEFINE h == q.seen
             staged == IF StagedIdle(h, q.now) THEN 0 ELSE h.stagedBytes
             pending == IF PendingIdle(h, q.now) THEN 0 ELSE h.pendingBytes
             bytes == h.bytes - (h.stagedBytes - staged) - (h.pendingBytes - pending)
  <1>1. Was(q) = [h EXCEPT !.bytes = bytes, !.stagedBytes = staged, !.pendingBytes = pending]
    BY DEF Was, Settled
  <1>2. DOMAIN h = DOMAIN NoHead
    BY DEF IsHead
  <1> HIDE DEF bytes, pending, staged, h
  <1>3. /\ DOMAIN Was(q) = DOMAIN h /\ Was(q).rev = h.rev /\ Was(q).proof = h.proof
        /\ Was(q).stagedBytes = staged
    BY <1>1, <1>2, Columns
  <1>4. QED
    BY <1>2, <1>3 DEF h, staged

(* The head a write leaves. *)
LEMMA WrittenHead ==
    ASSUME NEW q, IsRequest(q), q.phase \in Phases
    PROVE  /\ Written(q).proof = IF q.seen.proof = Nobody THEN q.op.token ELSE q.seen.proof
           /\ Written(q).rev = IF q.op.kind \in {"scene", "commit"} THEN q.seen.rev + 1
                               ELSE q.seen.rev
           /\ Written(q).stagedBytes =
                  CASE q.op.kind \in {"scene", "commit"} -> 0
                    [] q.op.kind = "staged" -> Was(q).stagedBytes + Size(q.op, q.found.has)
                    [] OTHER -> Was(q).stagedBytes
  <1> DEFINE plan == Planned(q.op, Was(q), q.found.has, q.now)
             p == IF plan.proof = Nobody THEN q.op.token ELSE plan.proof
             n == lastNonce + 1
             v == q.now
  <1>1. IsHead(q.seen) /\ q.op \in Operations
    BY DEF IsRequest
  <1>2. /\ plan.proof = Was(q).proof
        /\ plan.rev = IF q.op.kind \in {"scene", "commit"} THEN Was(q).rev + 1 ELSE Was(q).rev
        /\ plan.stagedBytes = CASE q.op.kind \in {"scene", "commit"} -> 0
                 [] q.op.kind = "staged" -> Was(q).stagedBytes + Size(q.op, q.found.has)
                 [] OTHER -> Was(q).stagedBytes
        /\ DOMAIN plan = DOMAIN NoHead
    BY <1>1, WasFacts, PlannedFacts, PlannedColumns
  <1>3. Written(q) = [plan EXCEPT !.proof = p, !.nonce = n, !.writtenAt = v]
    BY DEF Written
  <1>4. p = IF plan.proof = Nobody THEN q.op.token ELSE plan.proof
    OBVIOUS
  <1> HIDE DEF plan, p, n, v
  <1>5. /\ Written(q).proof = p /\ Written(q).rev = plan.rev
        /\ Written(q).stagedBytes = plan.stagedBytes
    BY <1>2, <1>3, Columns
  <1>6. QED
    BY <1>1, <1>2, <1>4, <1>5, WasFacts

-----------------------------------------------------------------------------
(* The parts that are left when those that idled away are gone. *)
Gone(item, h, t) ==
    \/ IsStaged(item) /\ StagedIdle(h, t)
    \/ IsPending(item) /\ PendingIdle(h, t)

Kept(ps, h, t) == [item \in Items |-> IF Gone(item, h, t) THEN <<>> ELSE ps[item]]

LEMMA LookFacts ==
    ASSUME NEW q, NEW item
    PROVE  /\ Look(q, item).item = item
           /\ Look(q, item).has = IF Gone(item, q.seen, q.now) THEN Absent ELSE Summary(parts[item])
  BY DEF Look, Gone

LEMMA SummaryFacts ==
    ASSUME NEW list \in Seq(Part)
    PROVE  /\ Summary(list).parts = Len(list)
           /\ Summary(list) = Absent <=> list = <<>>
           /\ list # <<>> => Summary(list).total = list[1].total
  <1> DEFINE bytes == BytesOf(list)
  <1>1. list # <<>> => Summary(list) = [parts |-> Len(list), total |-> list[1].total, bytes |-> bytes]
    BY DEF Summary
  <1>2. list = <<>> => Summary(list) = Absent /\ Len(list) = 0
    BY DEF Summary
  <1> HIDE DEF bytes
  <1>3. list # <<>> => Len(list) > 0
    OBVIOUS
  <1>4. QED
    BY <1>1, <1>2, <1>3 DEF Absent

LEMMA ChangedIs ==
    ASSUME NEW o, NEW ps, NEW h, NEW t, NEW item \in Items
    PROVE  Changed(o, ps, h, t)[item] =
               IF IsStaged(item) /\ o.kind \in {"scene", "commit"} /\ Settled(h, t).stagedBytes > 0
               THEN <<>> ELSE Rearranged(o, Kept(ps, h, t))[item]
  <1> DEFINE Idled(i) == \/ IsStaged(i) /\ StagedIdle(h, t)
                         \/ IsPending(i) /\ PendingIdle(h, t)
             Outdated(i) ==
                 /\ IsStaged(i) /\ o.kind \in {"scene", "commit"}
                 /\ Settled(h, t).stagedBytes > 0
  <1>1. Changed(o, ps, h, t) = Without(Outdated, Rearranged(o, Without(Idled, ps)))
    BY DEF Changed
  <1>2. Without(Idled, ps) = Kept(ps, h, t)
    BY DEF Without, Kept, Gone
  <1>3. Changed(o, ps, h, t)[item] =
            IF Outdated(item) THEN <<>> ELSE Rearranged(o, Kept(ps, h, t))[item]
    BY <1>1, <1>2 DEF Without
  <1>4. QED
    BY <1>3

LEMMA PutFacts ==
    ASSUME NEW list \in Seq(Part), NEW part \in Part
    PROVE  /\ PutAt(list, Len(list), part) = Append(list, part)
           /\ SubSeq(PutAt(list, 0, part), 1, 1) = <<part>>
  <1> DEFINE put == PutAt(list, 0, part)
             first == SubSeq(put, 1, 1)
  <1>1. PutAt(list, Len(list), part) = Append(list, part)
    BY DEF PutAt
  <1>2. put \in Seq(Part) /\ Len(put) >= 1 /\ put[1] = part
    <2>1. CASE list = <<>>
      BY <2>1 DEF PutAt
    <2>2. CASE list # <<>>
      <3>1. put = [list EXCEPT ![1] = part] /\ 1 \in 1..Len(list)
        BY <2>2 DEF PutAt
      <3>2. QED
        BY <3>1, ExceptSeq
    <2>3. QED
      BY <2>1, <2>2
  <1> HIDE DEF put
  <1>3. first \in Seq(Part) /\ Len(first) = 1 /\ first[1] = put[1]
    BY <1>2
  <1> HIDE DEF first
  <1>4. first = <<part>>
    BY <1>2, <1>3
  <1>5. QED
    BY <1>1, <1>4 DEF put, first

LEMMA RoomFacts ==
    ASSUME NEW o, NEW was, NEW item
    PROVE  Room(o, was, item) \in {"tooManyPictures", "write", "tooLarge"}
  BY DEF Room

LEMMA PlaceFacts ==
    ASSUME NEW o \in Operations, NEW was, NEW upload, upload.parts \in Nat
    PROVE  /\ Place(o, was, upload) \in {"partExists", "part", "outOfOrder", "tooManyPictures",
                                         "write", "tooLarge"}
           /\ Place(o, was, upload) = "write" => NextPart(o, upload)
           /\ Place(o, was, upload) = "part" =>
                  upload # Absent /\ o.n < upload.parts /\ upload.total = o.total
  <1> DEFINE room == Room(o, was, upload)
  <1>1. room \in {"tooManyPictures", "write", "tooLarge"}
    BY RoomFacts
  <1>2. o.n \in Nat
    BY OperationFacts
  <1>3. Place(o, was, upload) =
            IF upload # Absent /\ upload.total # o.total THEN "partExists"
            ELSE IF o.n < upload.parts THEN "part"
            ELSE IF o.n > upload.parts THEN "outOfOrder"
            ELSE room
    BY DEF Place
  <1>4. Absent.parts = 0
    BY DEF Absent
  <1> HIDE DEF room
  <1>5. Place(o, was, upload) \in {"partExists", "part", "outOfOrder", "tooManyPictures",
                                   "write", "tooLarge"}
    BY <1>1, <1>3
  <1>6. Place(o, was, upload) = "write" => NextPart(o, upload)
    BY <1>1, <1>2, <1>3 DEF NextPart
  <1>7. Place(o, was, upload) = "part" =>
            upload # Absent /\ o.n < upload.parts /\ upload.total = o.total
    BY <1>1, <1>2, <1>3, <1>4
  <1>8. QED
    BY <1>5, <1>6, <1>7

LEMMA IdleEntitled == Entitled(Idle)
  BY IdleFacts DEF Entitled

(* Where the store stays as it is, what matters is the one request. *)
LEMMA AnswerEntitled ==
    ASSUME IInv, RInv, NEW r \in Requests, NEW told, Answer(r, told), UNCHANGED <<head, parts>>
    PROVE  RInv'
  <1>1. ASSUME NEW u \in Requests
        PROVE  req'[u] = IF u = r THEN Idle ELSE req[u]
    BY DEF IInv, Types, Answer
  <1>2. RequestsAreEntitled'
    BY <1>1, IdleEntitled DEF RInv, RequestsAreEntitled
  <1>3. PictureIsNew'
    BY <1>1, IdleFacts DEF RInv, PictureIsNew
  <1>4. QED
    BY <1>2, <1>3 DEF RInv, PartsAreSent, StagedShow, OwnedParts

LEMMA GoEntitled ==
    ASSUME IInv, RInv, NEW r \in Requests, NEW next, Go(r, next), UNCHANGED <<head, parts>>,
           Entitled(next),
           next.phase = "write" /\ next.op.kind = "upload" /\ next.seen.nonce = head.nonce
               => parts[PictureOf(next.op)] = <<>>
    PROVE  RInv'
  <1>1. ASSUME NEW u \in Requests
        PROVE  req'[u] = IF u = r THEN next ELSE req[u]
    BY DEF IInv, Types, Go
  <1>2. RequestsAreEntitled'
    BY <1>1 DEF RInv, RequestsAreEntitled
  <1>3. PictureIsNew'
    BY <1>1 DEF RInv, PictureIsNew
  <1>4. QED
    BY <1>2, <1>3 DEF RInv, PartsAreSent, StagedShow, OwnedParts

LEMMA ArriveEntitled ==
    ASSUME IInv, RInv, NEW r \in Requests, Arrive(r)
    PROVE  RInv'
  <1> DEFINE New(o) == [Idle EXCEPT !.op = o, !.phase = "head", !.now = clock, !.attempt = 1]
  <1>1. PICK o \in Operations : req' = [req EXCEPT ![r] = New(o)]
    BY DEF Arrive
  <1> DEFINE next == New(o)
  <1>2. next.phase = "head"
    BY Columns
  <1>3. UNCHANGED <<head, parts>>
    BY DEF Arrive, database
  <1> HIDE DEF New
  <1> HIDE DEF next
  <1>4. Entitled(next)
    BY <1>2 DEF Entitled, Decides, Phases
  <1>5. ASSUME NEW u \in Requests
        PROVE  req'[u] = IF u = r THEN next ELSE req[u]
    BY <1>1 DEF IInv, Types, next
  <1>6. RequestsAreEntitled' /\ PictureIsNew'
    BY <1>2, <1>3, <1>4, <1>5 DEF RInv, RequestsAreEntitled, PictureIsNew
  <1>7. QED
    BY <1>3, <1>6 DEF RInv, PartsAreSent, StagedShow, OwnedParts

LEMMA ReadHeadEntitled ==
    ASSUME IInv, RInv, NEW r \in Requests, ReadHead(r)
    PROVE  RInv'
  <1> DEFINE next == [req[r] EXCEPT !.phase = "item", !.seen = head]
             o == req[r].op
  <1>1. UNCHANGED <<head, parts>>
    BY DEF ReadHead, database
  <1>2. \/ \E told : Answer(r, told)
        \/ /\ Go(r, next)
           /\ head.proof \in {Nobody, o.token}
           /\ o.kind \in {"scene", "staged", "commit"} => head.rev = o.expected
    BY DEF ReadHead
  <1>3. CASE \E told : Answer(r, told)
    BY <1>1, <1>3, AnswerEntitled
  <1>4. CASE /\ Go(r, next)
             /\ head.proof \in {Nobody, o.token}
             /\ o.kind \in {"scene", "staged", "commit"} => head.rev = o.expected
    <2>1. req[r].phase = "head" /\ IsRequest(req[r]) /\ IsHead(head)
      BY DEF ReadHead, IInv, Types
    <2>2. next.phase = "item" /\ next.seen = head /\ next.op = req[r].op
      BY <2>1, Columns DEF IsRequest
    <2> HIDE DEF next
    <2>3. Entitled(next)
      BY <1>4, <2>2 DEF Entitled, Decides, Phases
    <2>4. QED
      BY <1>1, <1>4, <2>2, <2>3, GoEntitled
  <1>5. QED
    BY <1>2, <1>3, <1>4

(* What a look at an item tells. *)
LEMMA Looked ==
    ASSUME RInv, NEW q, NEW item \in Items
    PROVE  LET look == Look(q, item)
           IN  /\ look.item = item /\ look.has.parts \in Nat
               /\ ~Gone(item, q.seen, q.now) => look.has = Summary(parts[item])
               /\ look.has = Absent <=> Gone(item, q.seen, q.now) \/ parts[item] = <<>>
               /\ look.has # Absent => /\ look.has.parts = Len(parts[item])
                                       /\ look.has.total = parts[item][1].total
  <1>1. parts[item] \in Seq(Part)
    BY DEF RInv, PartsAreSent
  <1>2. Len(parts[item]) \in Nat /\ Absent.parts = 0
    BY <1>1 DEF Absent
  <1>3. QED
    BY <1>1, <1>2, LookFacts, SummaryFacts

Verdicts == {"pending", "part", "write", "partExists", "outOfOrder", "stagedIncomplete",
             "tooLarge", "tooManyPictures"}

Entitles(o, found, verdict) ==
    /\ verdict \in Verdicts
    /\ verdict = "write" => MayWrite(o, found)
    /\ verdict = "part" => MayRepeat(o, found)

LEMMA VerdictEntitles ==
    ASSUME IInv, RInv, NEW q, IsRequest(q), q.phase = "item", Entitled(q), NEW first,
           first = CASE q.op.kind = "scene" -> NotLooked
                     [] q.op.kind = "upload" -> Look(q, PictureOf(q.op))
                     [] OTHER -> Look(q, q.op.item)
    PROVE  LET verdict == Verdict(q.op, Was(q), first.has)
           IN  /\ Entitles(q.op, first, verdict)
               /\ verdict = "write" => q.op.kind # "upload"
               /\ verdict = "pending" => q.op.kind = "upload" /\ first.item = PictureOf(q.op)
                                         /\ first.has = Absent
  <1> DEFINE o == q.op
             was == Was(q)
             has == first.has
             said == Verdict(o, was, has)
             room == Room(o, was, has)
             place == Place(o, was, has)
  <1>1. o \in Operations
    BY DEF IsRequest, Phases
  <1>2. room \in {"tooManyPictures", "write", "tooLarge"}
    BY RoomFacts
  <1> DEFINE Goal == /\ Entitles(o, first, said)
                     /\ said = "write" => o.kind # "upload"
                     /\ said = "pending" => o.kind = "upload" /\ first.item = PictureOf(o)
                                            /\ first.has = Absent
  <1>3. ASSUME o.kind = "scene" PROVE Goal
    <2>1. said = room
      BY <1>3 DEF Verdict
    <2> HIDE DEF room, said
    <2>2. QED
      BY <1>2, <1>3, <2>1 DEF Entitles, Verdicts, MayWrite
  <1>4. ASSUME o.kind = "staged" PROVE Goal
    <2>1. first = Look(q, o.item) /\ o.item \in Items
      BY <1>1, <1>4, OperationFacts
    <2>2. first.item = o.item /\ has.parts \in Nat
      BY <2>1, Looked
    <2>3. said = place
      BY <1>4 DEF Verdict
    <2>4. /\ place \in {"partExists", "part", "outOfOrder", "tooManyPictures", "write", "tooLarge"}
          /\ place = "write" => NextPart(o, has)
      BY <1>1, <2>2, PlaceFacts
    <2> HIDE DEF place, said
    <2>5. QED
      BY <1>4, <2>1, <2>2, <2>3, <2>4 DEF Entitles, Verdicts, MayWrite, MayRepeat
  <1>5. ASSUME o.kind = "commit" PROVE Goal
    <2>1. first = Look(q, o.item) /\ o.item \in Items
      BY <1>1, <1>5, OperationFacts
    <2>2. first.item = o.item
      BY <2>1, Looked
    <2>3. said = IF has = Absent THEN "stagedIncomplete"
                    ELSE IF Incomplete(has) THEN "stagedIncomplete" ELSE room
      BY <1>5 DEF Verdict
    <2> HIDE DEF room, said
    <2>4. QED
      BY <1>2, <1>5, <2>2, <2>3 DEF Entitles, Verdicts, MayWrite, Incomplete
  <1>6. ASSUME o.kind = "picture" PROVE Goal
    <2>1. first = Look(q, o.item) /\ o.item \in Items
      BY <1>1, <1>6, OperationFacts
    <2>2. first.item = o.item
      BY <2>1, Looked
    <2>3. said = IF has = Absent THEN room
                    ELSE IF has.total = 1 THEN "part" ELSE "partExists"
      BY <1>6 DEF Verdict
    <2> HIDE DEF room, said
    <2>4. QED
      BY <1>2, <1>6, <2>1, <2>2, <2>3 DEF Entitles, Verdicts, MayWrite, MayRepeat
  <1>7. ASSUME o.kind = "upload" PROVE Goal
    <2>1. first = Look(q, PictureOf(o)) /\ PictureOf(o) \in Items
      BY <1>1, <1>7, OperationFacts
    <2>2. first.item = PictureOf(o)
      BY <2>1, Looked
    <2>3. said = IF has = Absent THEN "pending"
                    ELSE IF has.total = o.total /\ o.n < has.parts THEN "part" ELSE "partExists"
      BY <1>7 DEF Verdict
    <2> HIDE DEF said
    <2>4. QED
      BY <1>7, <2>1, <2>2, <2>3 DEF Entitles, Verdicts, MayRepeat
  <1>8. QED
    BY <1>1, <1>3, <1>4, <1>5, <1>6, <1>7, OperationFacts

(* A verdict that is not an answer entitles the request to what comes next. *)
LEMMA FindingEntitled ==
    ASSUME IInv, RInv, NEW r \in Requests, NEW found, NEW phase,
           req[r].phase \in {"item", "pending"}, Entitles(req[r].op, found, phase),
           phase \in Phases, Go(r, Finding(req[r], found, phase)), UNCHANGED <<head, parts>>,
           phase = "pending" => /\ req[r].op.kind = "upload"
                                /\ found.item = PictureOf(req[r].op) /\ found.has = Absent,
           phase = "write" => req[r].op.kind # "upload" \/ req[r].phase = "pending"
    PROVE  RInv'
  <1> DEFINE next == Finding(req[r], found, phase)
             o == req[r].op
  <1>1. IsRequest(req[r]) /\ req[r].phase \in Phases /\ Entitled(req[r]) /\ Decides(req[r])
    BY DEF IInv, Types, Phases, RInv, RequestsAreEntitled, Decides
  <1>2. /\ next.phase = phase /\ next.found = found /\ next.seen = req[r].seen
        /\ next.op = req[r].op
    BY <1>1, FindingFacts
  <1>3. Go(r, next)
    OBVIOUS
  <1> HIDE DEF next
  <1>4. Entitled(next)
    BY <1>1, <1>2 DEF Entitled, Entitles
  <1>5. ASSUME next.phase = "write", o.kind = "upload", next.seen.nonce = head.nonce
        PROVE  parts[PictureOf(o)] = <<>>
    <2>1. req[r].phase = "pending" /\ req[r].seen.nonce = head.nonce
      BY <1>2, <1>5
    <2>2. /\ req[r].found.item = PictureOf(o) /\ req[r].found.has = Absent
          /\ o \in Operations
      BY <1>1, <2>1 DEF Entitled, IsRequest
    <2>3. req[r].found = NotLooked \/ req[r].found = Look(req[r], PictureOf(o))
      BY <1>1, <2>1, <2>2 DEF IInv, HeadIsSeen, StillThere
    <2>4. /\ PictureOf(o) \in Items /\ PictureOf(o) # Scene
          /\ ~IsStaged(PictureOf(o)) /\ ~IsPending(PictureOf(o))
      BY <1>5, <2>2, OperationFacts, ItemFacts DEF PictureOf
    <2>5. req[r].found # NotLooked
      BY <2>2, <2>4 DEF NotLooked
    <2>6. QED
      BY <2>2, <2>3, <2>4, <2>5, Looked DEF Gone
  <1>6. QED
    BY <1>2, <1>3, <1>4, <1>5, GoEntitled

LEMMA ReadItemEntitled ==
    ASSUME IInv, RInv, NEW r \in Requests, ReadItem(r)
    PROVE  RInv'
  <1> DEFINE first == CASE req[r].op.kind = "scene" -> NotLooked
                        [] req[r].op.kind = "upload" -> Look(req[r], PictureOf(req[r].op))
                        [] OTHER -> Look(req[r], req[r].op.item)
             verdict == Verdict(req[r].op, Was(req[r]), first.has)
  <1>1. /\ req[r].phase = "item" /\ UNCHANGED <<head, parts>>
        /\ Proceed(r, verdict, [req[r] EXCEPT !.found = first])
    BY DEF ReadItem, database
  <1>2. IsRequest(req[r]) /\ Entitled(req[r])
    BY DEF IInv, Types, RInv, RequestsAreEntitled
  <1>3. first = CASE req[r].op.kind = "scene" -> NotLooked
                  [] req[r].op.kind = "upload" -> Look(req[r], PictureOf(req[r].op))
                  [] OTHER -> Look(req[r], req[r].op.item)
    OBVIOUS
  <1> HIDE DEF first
  <1>4. /\ Entitles(req[r].op, first, verdict)
        /\ verdict = "write" => req[r].op.kind # "upload"
        /\ verdict = "pending" => req[r].op.kind = "upload" /\ first.item = PictureOf(req[r].op)
                                  /\ first.has = Absent
    BY <1>1, <1>2, <1>3, VerdictEntitles
  <1> HIDE DEF verdict
  <1>5. \/ Answer(r, verdict)
        \/ verdict \in Phases /\ Go(r, Finding(req[r], first, verdict))
    BY <1>1, ProceedsFinding
  <1>6. QED
    BY <1>1, <1>4, <1>5, AnswerEntitled, FindingEntitled

(* An upload that has come so far: its next part, or one it had. *)
LEMMA ReadPendingVerdict ==
    ASSUME IInv, RInv, NEW q, IsRequest(q), q.phase = "pending", Entitled(q)
    PROVE  LET upload == Look(q, q.op.item)
               verdict == Place(q.op, Was(q), upload.has)
           IN  Entitles(q.op, upload, verdict) /\ verdict # "pending"
  <1> DEFINE o == q.op
             upload == Look(q, o.item)
             said == Place(o, Was(q), upload.has)
  <1>1. o \in Operations /\ o.kind = "upload"
    BY DEF IsRequest, Phases, Entitled
  <1>2. o.item \in Items /\ IsPending(o.item) /\ o.n \in Nat /\ o.total \in Nat
    BY <1>1, OperationFacts
  <1>3. /\ upload.item = o.item /\ upload.has.parts \in Nat
        /\ upload.has # Absent => /\ parts[o.item] # <<>>
                                  /\ upload.has.parts = Len(parts[o.item])
                                  /\ upload.has.total = parts[o.item][1].total
    BY <1>2, Looked
  <1>4. /\ said \in {"partExists", "part", "outOfOrder", "tooManyPictures", "write", "tooLarge"}
        /\ said = "write" => NextPart(o, upload.has)
        /\ said = "part" =>
               upload.has # Absent /\ o.n < upload.has.parts /\ upload.has.total = o.total
    BY <1>1, <1>3, PlaceFacts
  <1>5. parts[o.item] # <<>> => Len(parts[o.item]) < parts[o.item][1].total
    BY <1>2 DEF RInv, PartsAreSent
  <1> HIDE DEF said, upload, o
  <1>6. said = "part" => o.n < o.total - 1
    BY <1>2, <1>3, <1>4, <1>5
  <1>7. Entitles(o, upload, said) /\ said # "pending"
    BY <1>1, <1>2, <1>3, <1>4, <1>6 DEF Entitles, Verdicts, MayWrite, MayRepeat
  <1>8. QED
    BY <1>7 DEF said, upload, o

LEMMA ReadPendingEntitled ==
    ASSUME IInv, RInv, NEW r \in Requests, ReadPending(r)
    PROVE  RInv'
  <1> DEFINE upload == Look(req[r], req[r].op.item)
             verdict == Place(req[r].op, Was(req[r]), upload.has)
  <1>1. /\ req[r].phase = "pending" /\ UNCHANGED <<head, parts>>
        /\ Proceed(r, verdict, [req[r] EXCEPT !.found = upload])
    BY DEF ReadPending, database
  <1>2. IsRequest(req[r]) /\ Entitled(req[r])
    BY DEF IInv, Types, RInv, RequestsAreEntitled
  <1>3. Entitles(req[r].op, upload, verdict) /\ verdict # "pending"
    BY <1>1, <1>2, ReadPendingVerdict
  <1> HIDE DEF upload, verdict
  <1>4. \/ Answer(r, verdict)
        \/ verdict \in Phases /\ Go(r, Finding(req[r], upload, verdict))
    BY <1>1, ProceedsFinding
  <1>5. QED
    BY <1>1, <1>3, <1>4, AnswerEntitled, FindingEntitled

LEMMA QuietEntitled ==
    ASSUME IInv, RInv, NEW r \in Requests, ReadPart(r) \/ LoseRace(r) \/ Break(r)
    PROVE  RInv'
  <1>1. UNCHANGED <<head, parts>>
    BY DEF ReadPart, LoseRace, Break, database
  <1>2. \/ \E told : Answer(r, told)
        \/ /\ req[r].phase = "write"
           /\ \E attempt : Go(r, Retried(req[r], attempt))
    BY DEF ReadPart, LoseRace, Break, Retried
  <1>3. CASE \E told : Answer(r, told)
    BY <1>1, <1>3, AnswerEntitled
  <1>4. ASSUME NEW attempt, req[r].phase = "write", Go(r, Retried(req[r], attempt))
        PROVE  RInv'
    <2> DEFINE next == Retried(req[r], attempt)
    <2>1. IsRequest(req[r]) /\ req[r].phase \in Phases
      BY <1>4 DEF IInv, Types, Phases
    <2>2. next.phase = "head"
      BY <2>1, RetriedFacts
    <2>3. Go(r, next)
      BY <1>4
    <2> HIDE DEF next
    <2>4. QED
      BY <1>1, <2>2, <2>3, GoEntitled DEF Entitled, Decides, Phases
  <1>5. QED
    BY <1>2, <1>3, <1>4

LEMMA SweepEntitled == IInv /\ RInv /\ Sweep => RInv'
  <1> SUFFICES ASSUME IInv, RInv, Sweep PROVE RInv'
    OBVIOUS
  <1>1. head' = NoHead /\ parts' = NoParts /\ req' = req
    BY DEF Sweep
  <1>2. \A item \in Items : NoParts[item] = <<>>
    BY DEF NoParts
  <1>3. NoHead.proof = Nobody /\ NoHead.stagedBytes = 0
    BY DEF NoHead
  <1>4. PartsAreSent'
    <2>1. NoParts \in [Items -> Seq(Part)]
      BY DEF NoParts
    <2>2. QED
      BY <1>1, <1>2, <2>1 DEF PartsAreSent, SentFor
  <1>5. StagedShow' /\ OwnedParts'
    BY <1>1, <1>2, <1>3 DEF StagedShow, OwnedParts
  <1>6. RequestsAreEntitled'
    BY <1>1 DEF RInv, RequestsAreEntitled
  <1>7. PictureIsNew'
    <2>1. ASSUME NEW r \in Requests, req[r].phase = "write", req[r].op.kind = "upload"
          PROVE  PictureOf(req[r].op) \in Items
      <3>1. req[r].op \in Operations
        BY <2>1 DEF IInv, Types, IsRequest, Phases
      <3>2. QED
        BY <2>1, <3>1, OperationFacts
    <2>2. QED
      BY <1>1, <1>2, <2>1 DEF PictureIsNew
  <1>8. QED
    BY <1>4, <1>5, <1>6, <1>7 DEF RInv

(* ------------------------------ a landing ------------------------------- *)
Publishes(o) == o.kind \in {"scene", "commit"}
Completes(o) == o.kind = "upload" /\ o.n = o.total - 1
PartOf(o) == [total |-> o.total, body |-> o.body]

(* What a landing leaves of an item, "kept" being what had not idled away. *)
LandsAs(o, kept, item) ==
    CASE o.kind = "scene" /\ item = Scene -> <<PartOf(o)>>
      [] o.kind = "commit" /\ item = Scene -> kept[o.item]
      [] Publishes(o) /\ IsStaged(item) -> <<>>
      [] o.kind = "picture" /\ item = o.item -> <<PartOf(o)>>
      [] Completes(o) /\ item = PictureOf(o) -> Append(kept[o.item], PartOf(o))
      [] Completes(o) /\ item = o.item -> <<>>
      [] o.kind \in {"staged", "upload"} /\ ~Completes(o) /\ item = o.item ->
             Append(kept[o.item], PartOf(o))
      [] OTHER -> kept[item]

(* What a request that lands had found is what there is. *)
LEMMA LandFinds ==
    ASSUME IInv, RInv, NEW r \in Requests, Land(r)
    PROVE  LET q == req[r]
               o == q.op
               kept == Kept(parts, head, q.now)
           IN  /\ IsRequest(q) /\ q.phase = "write" /\ o \in Operations /\ q.seen = head
               /\ head.proof \in {Nobody, o.token}
               /\ o.kind \in {"scene", "staged", "commit"} => head.rev = o.expected
               /\ kept \in [Items -> Seq(Part)]
               /\ o.kind = "picture" => parts[o.item] = <<>> /\ kept[o.item] = <<>>
               /\ o.kind = "commit" => /\ kept[o.item] = parts[o.item] /\ parts[o.item] # <<>>
                                       /\ Len(parts[o.item]) = parts[o.item][1].total
               /\ o.kind \in {"staged", "upload"} =>
                      /\ Len(kept[o.item]) = o.n
                      /\ kept[o.item] # <<>> => kept[o.item][1].total = o.total
               /\ o.kind = "upload" => parts[PictureOf(o)] = <<>> /\ kept[PictureOf(o)] = <<>>
  <1> DEFINE q == req[r]
             o == q.op
             kept == Kept(parts, head, q.now)
  <1>1. q.phase = "write" /\ head.nonce = q.seen.nonce
    BY DEF Land, Unmoved
  <1>2. IsRequest(q) /\ o \in Operations
    BY <1>1 DEF IInv, Types, IsRequest, Phases
  <1>3. q.seen = head /\ (q.found = NotLooked \/ q.found = Look(q, q.found.item))
    BY <1>1 DEF IInv, HeadIsSeen, StillThere, Decides
  <1>4. /\ head.proof \in {Nobody, o.token} /\ MayWrite(o, q.found)
        /\ o.kind \in {"scene", "staged", "commit"} => head.rev = o.expected
    BY <1>1, <1>3 DEF RInv, RequestsAreEntitled, Entitled, Decides
  <1>5. \A item \in Items : kept[item] = IF Gone(item, q.seen, q.now) THEN <<>> ELSE parts[item]
    BY <1>3 DEF Kept
  <1>6. kept \in [Items -> Seq(Part)]
    <2>1. parts \in [Items -> Seq(Part)]
      BY DEF RInv, PartsAreSent
    <2>2. \A item \in Items : kept[item] \in Seq(Part)
      <3>1. <<>> \in Seq(Part)
        OBVIOUS
      <3> HIDE DEF kept
      <3>2. QED
        BY <1>5, <2>1, <3>1
    <2>3. kept = [item \in Items |-> kept[item]]
      BY DEF Kept
    <2> HIDE DEF kept
    <2>4. QED
      BY <2>2, <2>3
  <1>7. \A item \in Items : /\ kept[item] \in Seq(Part)
                            /\ kept[item] # <<>> => kept[item] = parts[item]
    BY <1>5, <1>6
  <1>8. ASSUME o.kind # "scene", q.found.item = o.item
        PROVE  /\ q.found.has.parts = Len(kept[o.item])
               /\ q.found.has = Absent <=> kept[o.item] = <<>>
               /\ kept[o.item] # <<>> => q.found.has.total = kept[o.item][1].total
    <2>1. o.item \in Items /\ o.item # Scene
      BY <1>2, <1>8, OperationFacts, ItemFacts DEF PictureOf
    <2>2. q.found = Look(q, o.item)
      BY <1>3, <1>8, <2>1 DEF NotLooked
    <2>3. /\ q.found.has = Absent <=> Gone(o.item, q.seen, q.now) \/ parts[o.item] = <<>>
          /\ q.found.has # Absent => /\ q.found.has.parts = Len(parts[o.item])
                                     /\ q.found.has.total = parts[o.item][1].total
      BY <2>1, <2>2, Looked
    <2>4. q.found.has = Absent <=> kept[o.item] = <<>>
      BY <1>5, <2>1, <2>3
    <2>5. Absent.parts = 0 /\ Len(<<>>) = 0
      BY DEF Absent
    <2>6. kept[o.item] # <<>> => kept[o.item] = parts[o.item]
      BY <1>7, <2>1
    <2> HIDE DEF kept, o, q
    <2>7. QED
      BY <2>3, <2>4, <2>5, <2>6
  <1>9. /\ o.kind = "scene" => o.item = Scene
        /\ o.item \in Items
        /\ o.kind = "picture" => ~IsStaged(o.item) /\ ~IsPending(o.item)
        /\ o.kind = "upload" => /\ PictureOf(o) \in Items
                                /\ ~IsStaged(PictureOf(o)) /\ ~IsPending(PictureOf(o))
    BY <1>2, OperationFacts
  <1>10. o.kind = "picture" => parts[o.item] = <<>> /\ kept[o.item] = <<>>
    BY <1>4, <1>5, <1>8, <1>9 DEF MayWrite, Gone
  <1>11. o.kind = "commit" => /\ kept[o.item] = parts[o.item] /\ parts[o.item] # <<>>
                              /\ Len(parts[o.item]) = parts[o.item][1].total
    <2>1. o.kind = "commit" => /\ q.found.item = o.item /\ q.found.has # Absent
                               /\ q.found.has.parts = q.found.has.total
      BY <1>4 DEF MayWrite
    <2> HIDE DEF kept
    <2>2. QED
      BY <1>7, <1>8, <1>9, <2>1
  <1>12. o.kind \in {"staged", "upload"} =>
            /\ Len(kept[o.item]) = o.n
            /\ kept[o.item] # <<>> => kept[o.item][1].total = o.total
    <2>1. o.kind \in {"staged", "upload"} => q.found.item = o.item /\ NextPart(o, q.found.has)
      BY <1>4 DEF MayWrite
    <2> HIDE DEF kept
    <2>2. QED
      BY <1>8, <2>1 DEF NextPart
  <1>13. o.kind = "upload" => parts[PictureOf(o)] = <<>> /\ kept[PictureOf(o)] = <<>>
    BY <1>1, <1>5, <1>9 DEF RInv, PictureIsNew, Gone
  <1>14. QED
    BY <1>1, <1>2, <1>3, <1>4, <1>6, <1>10, <1>11, <1>12, <1>13

(* The parts a landing leaves, item by item. *)
LEMMA LandPuts ==
    ASSUME IInv, RInv, NEW r \in Requests, Land(r)
    PROVE  LET kept == Kept(parts, head, req[r].now)
           IN  /\ parts' = [item \in Items |-> parts'[item]]
               /\ \A item \in Items : parts'[item] = LandsAs(req[r].op, kept, item)
  <1> DEFINE q == req[r]
             o == q.op
             kept == Kept(parts, head, q.now)
             moved == Rearranged(o, kept)
             put == PutAt(kept[o.item], o.n, PartOf(o))
  <1>1. /\ IsRequest(q) /\ q.phase = "write" /\ o \in Operations /\ q.seen = head
        /\ kept \in [Items -> Seq(Part)]
        /\ o.kind = "picture" => kept[o.item] = <<>>
        /\ o.kind \in {"staged", "upload"} => Len(kept[o.item]) = o.n
    BY LandFinds
  <1>2. /\ parts' = Changed(o, parts, head, q.now)
    BY <1>1 DEF Land
  <1>3. parts' = [item \in Items |-> parts'[item]]
    BY <1>2 DEF Changed, Without
  <1>4. \A item \in Items : parts'[item] =
            IF IsStaged(item) /\ Publishes(o) /\ Settled(head, q.now).stagedBytes > 0
            THEN <<>> ELSE moved[item]
    BY <1>2, ChangedIs DEF Publishes
  <1>5. /\ o.kind \in {"scene", "staged", "commit", "picture", "upload"}
        /\ o.item \in Items
        /\ o.kind = "scene" => o.item = Scene
        /\ o.kind \in {"staged", "commit"} => IsStaged(o.item)
        /\ o.kind = "upload" => IsPending(o.item)
        /\ o.kind \in {"picture", "upload"} =>
               PictureOf(o) \in Items /\ ~IsStaged(PictureOf(o)) /\ ~IsPending(PictureOf(o))
        /\ o.kind = "picture" => o.item = PictureOf(o)
        /\ o.kind \notin {"staged", "upload"} => o.n = 0
        /\ PartOf(o) \in Part
    BY <1>1, OperationFacts DEF Part, PartOf
  <1>6. ASSUME NEW item \in Items, IsStaged(item), ~(Settled(head, q.now).stagedBytes > 0)
        PROVE  kept[item] = <<>>
    <2>1. head.stagedBytes \in Nat /\ (parts[item] # <<>> => head.stagedBytes > 0)
      BY <1>6 DEF RInv, StagedShow
    <2>2. Settled(head, q.now).stagedBytes =
              IF StagedIdle(head, q.now) THEN 0 ELSE head.stagedBytes
      BY <1>1, WasFacts DEF Was, IsRequest
    <2>3. StagedIdle(head, q.now) \/ parts[item] = <<>>
      BY <1>6, <2>1, <2>2
    <2>4. QED
      BY <1>6, <2>3 DEF Kept, Gone
  <1> HIDE DEF kept
  <1>7. moved = CASE o.kind = "commit" -> [kept EXCEPT ![Scene] = kept[o.item], ![o.item] = <<>>]
                  [] o.kind = "scene" -> [kept EXCEPT ![Scene] = SubSeq(put, 1, 1)]
                  [] Completes(o) -> [kept EXCEPT ![PictureOf(o)] = put, ![o.item] = <<>>]
                  [] OTHER -> [kept EXCEPT ![o.item] = put]
    BY DEF Rearranged, PartOf, Completes
  <1>8. o.kind \in {"staged", "upload"} => put = Append(kept[o.item], PartOf(o))
    BY <1>1, <1>5, PutFacts
  <1>9. o.kind \in {"picture", "scene"} => SubSeq(put, 1, 1) = <<PartOf(o)>>
    BY <1>1, <1>5, PutFacts
  <1>10. o.kind = "picture" => put = <<PartOf(o)>>
    <2>1. o.kind = "picture" => kept[o.item] = <<>> /\ o.n = 0 /\ Len(<<>>) = 0
      BY <1>1, <1>5
    <2>2. o.kind = "picture" => put = Append(<<>>, PartOf(o))
      BY <1>1, <1>5, <2>1, PutFacts
    <2> HIDE DEF put, o
    <2>3. QED
      BY <2>2
  <1> HIDE DEF moved, put, o
  <1>11. Scene \in Items /\ ~IsStaged(Scene) /\ ~IsPending(Scene)
    BY ItemFacts
  <1>12. ASSUME NEW item \in Items
         PROVE  parts'[item] = LandsAs(o, kept, item)
    <2>1. parts'[item] = IF IsStaged(item) /\ Publishes(o) /\ Settled(head, q.now).stagedBytes > 0
                         THEN <<>> ELSE moved[item]
      BY <1>4
    <2>2. CASE o.kind = "scene"
      <3>1. moved[item] = IF item = Scene THEN <<PartOf(o)>> ELSE kept[item]
        BY <1>1, <1>7, <1>9, <1>11, <2>2 DEF Completes
      <3>2. QED
        BY <1>6, <1>11, <2>1, <2>2, <3>1 DEF LandsAs, Publishes, Completes
    <2>3. CASE o.kind = "commit"
      <3>1. moved[item] = IF item = o.item THEN <<>>
                          ELSE IF item = Scene THEN kept[o.item] ELSE kept[item]
        BY <1>1, <1>5, <1>7, <1>11, <2>3 DEF Completes
      <3>2. QED
        BY <1>5, <1>6, <1>11, <2>1, <2>3, <3>1 DEF LandsAs, Publishes, Completes
    <2>4. CASE o.kind \in {"picture", "staged"} \/ (o.kind = "upload" /\ ~Completes(o))
      <3>1. moved[item] = IF item = o.item THEN put ELSE kept[item]
        BY <1>1, <1>5, <1>7, <2>4 DEF Completes
      <3>2. QED
        BY <1>8, <1>10, <2>1, <2>4, <3>1 DEF LandsAs, Publishes, Completes
    <2>5. CASE o.kind = "upload" /\ Completes(o)
      <3>1. moved[item] = IF item = o.item THEN <<>>
                          ELSE IF item = PictureOf(o) THEN put ELSE kept[item]
        BY <1>1, <1>5, <1>7, <2>5
      <3>2. QED
        BY <1>5, <1>8, <2>1, <2>5, <3>1 DEF LandsAs, Publishes
    <2>6. \/ o.kind = "scene" \/ o.kind = "commit"
          \/ o.kind = "picture" \/ o.kind = "staged" \/ o.kind = "upload"
      BY <1>5
    <2>7. QED
      BY <2>2, <2>3, <2>4, <2>5, <2>6
  <1>13. QED
    BY <1>3, <1>12 DEF kept, o

LEMMA LandHead ==
    ASSUME IInv, RInv, NEW r \in Requests, Land(r)
    PROVE  LET o == req[r].op
           IN  /\ head'.proof = o.token /\ o.token \in Tokens /\ o.token # Nobody
               /\ head'.rev = IF Publishes(o) THEN head.rev + 1 ELSE head.rev
               /\ head'.stagedBytes \in Nat
               /\ o.kind = "staged" => head'.stagedBytes > 0
               /\ ~Publishes(o) /\ head'.stagedBytes = 0 =>
                      \A item \in Items : IsStaged(item) =>
                          Kept(parts, head, req[r].now)[item] = <<>>
               /\ head'.nonce = lastNonce + 1
  <1> DEFINE q == req[r]
             o == q.op
             kept == Kept(parts, head, q.now)
             size == Size(o, q.found.has)
             staged == Was(q).stagedBytes
  <1>1. /\ IsRequest(q) /\ q.phase = "write" /\ o \in Operations /\ q.seen = head
        /\ head.proof \in {Nobody, o.token}
    BY LandFinds
  <1>2. head' = Written(q) /\ q.phase \in Phases /\ lastNonce \in Nat
    BY <1>1 DEF Land, Phases, IInv, Types
  <1>3. /\ head'.proof = IF head.proof = Nobody THEN o.token ELSE head.proof
        /\ head'.rev = IF Publishes(o) THEN head.rev + 1 ELSE head.rev
        /\ head'.stagedBytes = IF Publishes(o) THEN 0
                               ELSE IF o.kind = "staged" THEN staged + size ELSE staged
        /\ head'.nonce = lastNonce + 1
    BY <1>1, <1>2, WrittenHead, WrittenFacts DEF Publishes
  <1>4. o.token \in Tokens /\ o.token # Nobody
    BY <1>1, OperationFacts, OnlineStoreAssumption
  <1>5. /\ head.stagedBytes \in Nat
        /\ \A item \in Items : IsStaged(item) /\ parts[item] # <<>> => head.stagedBytes > 0
    BY DEF RInv, StagedShow
  <1>6. staged = IF StagedIdle(head, q.now) THEN 0 ELSE head.stagedBytes
    BY <1>1, WasFacts DEF IsRequest
  <1>7. staged \in Nat
    BY <1>5, <1>6
  <1>8. o.kind = "staged" => size \in Nat /\ size > 0
    <2>1. o.kind = "staged" => size = Weight[o.body] /\ o.body \in Bodies
      BY <1>1, OperationFacts DEF Size
    <2>2. PartBytes \in Nat /\ Weight \in [Bodies -> 1..PartBytes]
      BY OnlineStoreAssumption
    <2>3. QED
      BY <2>1, <2>2
  <1>9. ASSUME staged = 0, NEW item \in Items, IsStaged(item)
        PROVE  kept[item] = <<>>
    BY <1>5, <1>6, <1>9 DEF Kept, Gone
  <1> HIDE DEF kept, size, staged, o
  <1>10. /\ head'.stagedBytes \in Nat
         /\ o.kind = "staged" => head'.stagedBytes > 0
    <2>1. o.kind = "staged" => ~Publishes(o)
      BY DEF Publishes
    <2>2. QED
      BY <1>3, <1>7, <1>8, <2>1
  <1>11. ASSUME ~Publishes(o), head'.stagedBytes = 0, NEW item \in Items, IsStaged(item)
         PROVE  kept[item] = <<>>
    <2>1. staged = 0
      BY <1>3, <1>7, <1>8, <1>10, <1>11
    <2>2. QED
      BY <1>9, <1>11, <2>1
  <1>12. head'.proof = o.token
    BY <1>1, <1>3, <1>4 DEF o
  <1>13. QED
    BY <1>3, <1>4, <1>10, <1>11, <1>12 DEF o, kept

(* An upload's next part goes after those that were sent before it. *)
LEMMA SentMore ==
    ASSUME NEW o \in Operations, o.kind \in {"staged", "upload"}, NEW old \in Seq(Part), NEW rev,
           Len(old) = o.n, old # <<>> => old[1].total = o.total, SentFor(o.item, old, rev),
           o.kind = "staged" => o.expected = rev
    PROVE  LET list == Append(old, PartOf(o))
           IN  /\ list \in Seq(Part) /\ Len(list) = o.n + 1 /\ list[1].total = o.total
               /\ SentFor(o.item, list, rev)
  <1> DEFINE list == Append(old, PartOf(o))
  <1>1. PartOf(o) \in Part /\ PartOf(o).total = o.total /\ PartOf(o).body = o.body /\ o.n \in Nat
    BY OperationFacts DEF Part, PartOf
  <1>2. /\ list \in Seq(Part) /\ Len(list) = o.n + 1
        /\ list[o.n + 1] = PartOf(o)
        /\ \A i \in 1..o.n : list[i] = old[i]
    BY <1>1
  <1> HIDE DEF list
  <1>3. list[1].total = o.total
    <2>1. CASE o.n = 0
      BY <1>1, <1>2, <2>1
    <2>2. CASE o.n # 0
      <3>1. 1 \in 1..o.n /\ old # <<>>
        BY <1>1, <2>2
      <3>2. QED
        BY <1>2, <3>1
    <2>3. QED
      BY <2>1, <2>2
  <1>4. ASSUME NEW i \in 1..Len(list)
        PROVE  /\ list[i].total = list[1].total
               /\ \E sent \in Operations :
                     /\ sent.item = o.item /\ sent.kind \in {"staged", "upload"}
                     /\ sent.n = i - 1
                     /\ sent.total = list[i].total /\ sent.body = list[i].body
                     /\ sent.kind = "staged" => sent.expected = rev
    <2>1. CASE i = o.n + 1
      <3>1. list[i].total = o.total /\ list[i].body = o.body /\ o.n = i - 1
        BY <1>1, <1>2, <2>1
      <3>2. QED
        BY <1>3, <3>1
    <2>2. CASE i # o.n + 1
      <3>1. i \in 1..Len(old) /\ list[i] = old[i] /\ old # <<>>
        BY <1>1, <1>2, <2>2
      <3>2. /\ old[i].total = old[1].total
            /\ \E sent \in Operations :
                  /\ sent.item = o.item /\ sent.kind \in {"staged", "upload"}
                  /\ sent.n = i - 1
                  /\ sent.total = old[i].total /\ sent.body = old[i].body
                  /\ sent.kind = "staged" => sent.expected = rev
        BY <3>1 DEF SentFor
      <3>3. QED
        BY <1>3, <3>1, <3>2
    <2>3. QED
      BY <2>1, <2>2
  <1>5. SentFor(o.item, list, rev)
    BY <1>4 DEF SentFor
  <1>6. QED
    BY <1>2, <1>3, <1>5 DEF list

LEMMA LandEntitled ==
    ASSUME IInv, RInv, NEW r \in Requests, Land(r)
    PROVE  RInv'
  <1> DEFINE q == req[r]
             o == q.op
             kept == Kept(parts, head, q.now)
  <1>1. /\ o \in Operations /\ kept \in [Items -> Seq(Part)]
        /\ o.kind \in {"scene", "staged", "commit"} => head.rev = o.expected
        /\ o.kind \in {"staged", "upload"} =>
               /\ Len(kept[o.item]) = o.n
               /\ kept[o.item] # <<>> => kept[o.item][1].total = o.total
    BY LandFinds
  <1>2. /\ parts' = [item \in Items |-> parts'[item]]
        /\ \A item \in Items : parts'[item] = LandsAs(o, kept, item)
    BY LandPuts
  <1>3. /\ head'.proof = o.token /\ o.token \in Tokens /\ o.token # Nobody
        /\ head'.rev = IF Publishes(o) THEN head.rev + 1 ELSE head.rev
        /\ head'.stagedBytes \in Nat
        /\ o.kind = "staged" => head'.stagedBytes > 0
        /\ ~Publishes(o) /\ head'.stagedBytes = 0 =>
               \A item \in Items : IsStaged(item) => kept[item] = <<>>
        /\ head'.nonce = lastNonce + 1
    BY LandHead
  <1>4. ASSUME NEW u \in Requests
        PROVE  req'[u] = IF u = r THEN Idle ELSE req[u]
    BY DEF IInv, Types, Land, Answer
  <1>5. /\ o.item \in Items /\ PartOf(o) \in Part /\ o.n \in Nat /\ o.total \in Nat
        /\ o.n < o.total
        /\ o.kind \in {"scene", "staged", "commit", "picture", "upload"}
        /\ o.kind = "staged" => IsStaged(o.item)
        /\ o.kind \in {"picture", "upload"} =>
               PictureOf(o) \in Items /\ ~IsStaged(PictureOf(o)) /\ ~IsPending(PictureOf(o))
        /\ o.kind = "picture" => o.item = PictureOf(o)
    BY <1>1, OperationFacts DEF Part, PartOf
  <1>6. \A item \in Items : kept[item] \in {<<>>, parts[item]}
    BY DEF Kept
  <1>7. Scene \in Items /\ ~IsStaged(Scene) /\ ~IsPending(Scene)
    BY ItemFacts
  <1> HIDE DEF kept
  <1>8. ASSUME NEW item \in Items
        PROVE  parts'[item] \in Seq(Part)
    <2>1. kept[item] \in Seq(Part) /\ kept[o.item] \in Seq(Part) /\ <<>> \in Seq(Part)
      BY <1>1, <1>5
    <2>2. <<PartOf(o)>> \in Seq(Part) /\ Append(kept[o.item], PartOf(o)) \in Seq(Part)
      BY <1>5, <2>1
    <2> HIDE DEF o
    <2>3. QED
      BY <1>2, <2>1, <2>2 DEF LandsAs
  <1>9. ASSUME NEW item \in Items, IsStaged(item) \/ IsPending(item)
        PROVE  \/ parts'[item] = <<>>
               \/ parts'[item] = parts[item] /\ (IsPending(item) \/ ~Publishes(o))
               \/ /\ item = o.item /\ o.kind \in {"staged", "upload"} /\ ~Completes(o)
                  /\ parts'[item] = Append(kept[item], PartOf(o))
    <2>1. item # Scene /\ (o.kind \in {"picture", "upload"} => item # PictureOf(o))
      BY <1>5, <1>7, <1>9
    <2>2. kept[item] = <<>> \/ kept[item] = parts[item]
      BY <1>6
    <2>3. parts'[item] = LandsAs(o, kept, item)
      BY <1>2
    <2>4. o.kind = "picture" => item # o.item
      BY <1>5, <2>1
    <2> HIDE DEF o
    <2>5. \/ parts'[item] = <<>>
          \/ /\ item = o.item /\ o.kind \in {"staged", "upload"} /\ ~Completes(o)
             /\ parts'[item] = Append(kept[item], PartOf(o))
          \/ parts'[item] = kept[item] /\ (~IsStaged(item) \/ ~Publishes(o))
      BY <2>1, <2>3, <2>4 DEF LandsAs, Completes
    <2>6. QED
      BY <1>9, <2>2, <2>5
  <1>10. ASSUME NEW item \in Items, IsStaged(item) \/ IsPending(item)
         PROVE  /\ SentFor(item, parts'[item], head'.rev)
                /\ IsPending(item) /\ parts'[item] # <<>> =>
                       Len(parts'[item]) < parts'[item][1].total
    <2>1. /\ SentFor(item, parts[item], head.rev)
          /\ IsPending(item) /\ parts[item] # <<>> => Len(parts[item]) < parts[item][1].total
      BY <1>10 DEF RInv, PartsAreSent
    <2>2. CASE parts'[item] = <<>>
      BY <2>2 DEF SentFor
    <2>3. CASE parts'[item] = parts[item] /\ (IsPending(item) \/ ~Publishes(o))
      <3>1. CASE ~Publishes(o)
        BY <1>3, <2>1, <2>3, <3>1
      <3>2. CASE IsPending(item)
        <4>1. \A sent \in Operations : sent.item = item => sent.kind # "staged"
          BY <3>2, OperationFacts DEF IsStaged, IsPending
        <4>2. QED
          BY <2>1, <2>3, <4>1 DEF SentFor
      <3>3. QED
        BY <2>3, <3>1, <3>2
    <2>4. CASE /\ item = o.item /\ o.kind \in {"staged", "upload"} /\ ~Completes(o)
               /\ parts'[item] = Append(kept[item], PartOf(o))
      <3>1. /\ kept[item] \in Seq(Part) /\ Len(kept[item]) = o.n
            /\ kept[item] # <<>> => kept[item][1].total = o.total
        BY <1>1, <2>4
      <3>2. SentFor(item, kept[item], head.rev)
        BY <1>6, <2>1 DEF SentFor
      <3>3. ~Publishes(o) /\ head'.rev = head.rev
        BY <1>3, <2>4 DEF Publishes
      <3>4. o.kind = "staged" => o.expected = head.rev
        BY <1>1
      <3>5. /\ Len(parts'[item]) = o.n + 1
            /\ parts'[item][1].total = o.total
            /\ SentFor(item, parts'[item], head.rev)
        <4> DEFINE old == kept[item]
                   list == Append(old, PartOf(o))
        <4>1. /\ o \in Operations /\ o.kind \in {"staged", "upload"} /\ old \in Seq(Part)
              /\ Len(old) = o.n /\ (old # <<>> => old[1].total = o.total)
              /\ SentFor(o.item, old, head.rev)
          BY <1>1, <2>4, <3>1, <3>2
        <4>2. parts'[item] = list /\ item = o.item
          BY <2>4
        <4> HIDE DEF old, o
        <4>3. Len(list) = o.n + 1 /\ list[1].total = o.total /\ SentFor(o.item, list, head.rev)
          BY <3>4, <4>1, SentMore
        <4> HIDE DEF list
        <4>4. QED
          BY <4>2, <4>3
      <3>6. IsPending(item) => o.n # o.total - 1
        BY <1>5, <2>4 DEF Completes, IsPending, IsStaged
      <3> HIDE DEF o
      <3>7. QED
        BY <1>5, <3>3, <3>5, <3>6
    <2>5. QED
      BY <1>9, <1>10, <2>2, <2>3, <2>4
  <1>11. PartsAreSent'
    <2>1. parts' \in [Items -> Seq(Part)]
      BY <1>2, <1>8
    <2>2. QED
      BY <1>10, <2>1 DEF PartsAreSent
  <1>12. StagedShow'
    <2>1. ASSUME NEW item \in Items, IsStaged(item), parts'[item] # <<>>
          PROVE  head'.stagedBytes > 0
      <3>1. CASE parts'[item] = kept[item] /\ ~Publishes(o)
        BY <1>3, <2>1, <3>1
      <3>2. CASE /\ item = o.item /\ o.kind \in {"staged", "upload"}
                 /\ parts'[item] = Append(kept[item], PartOf(o))
        <4>1. o.kind = "staged"
          BY <1>1, <2>1, <3>2, OperationFacts DEF IsStaged, IsPending
        <4>2. QED
          BY <1>3, <4>1
      <3>3. parts'[item] = LandsAs(o, kept, item)
        BY <1>2
      <3>4. item # Scene /\ (o.kind \in {"picture", "upload"} => item # PictureOf(o))
        BY <1>5, <1>7, <2>1
      <3>5. o.kind = "picture" => item # o.item
        BY <1>5, <3>4
      <3> HIDE DEF o
      <3>6. \/ parts'[item] = <<>>
            \/ parts'[item] = kept[item] /\ ~Publishes(o)
            \/ /\ item = o.item /\ o.kind \in {"staged", "upload"}
               /\ parts'[item] = Append(kept[item], PartOf(o))
        BY <2>1, <3>3, <3>4, <3>5 DEF LandsAs, Completes
      <3>7. QED
        BY <2>1, <3>1, <3>2, <3>6
    <2>2. QED
      BY <1>3, <2>1 DEF StagedShow
  <1>13. OwnedParts'
    BY <1>3 DEF OwnedParts
  <1>14. RequestsAreEntitled'
    BY <1>4, IdleEntitled DEF RInv, RequestsAreEntitled
  <1>15. PictureIsNew'
    <2>1. \A u \in Requests : req[u].seen.nonce \in Nat /\ req[u].seen.nonce <= lastNonce
      BY DEF IInv, Types, NoncesAreNew, IsRequest, IsHead
    <2>2. lastNonce \in Nat
      BY DEF IInv, Types
    <2>3. QED
      BY <1>3, <1>4, <2>1, <2>2, IdleFacts DEF PictureIsNew
  <1>16. QED
    BY <1>11, <1>12, <1>13, <1>14, <1>15 DEF RInv

LEMMA EntitledInit == Init => RInv
  <1> SUFFICES ASSUME Init PROVE RInv
    OBVIOUS
  <1>1. \A item \in Items : parts[item] = <<>>
    BY DEF Init, NoParts
  <1>2. PartsAreSent
    <2>1. parts \in [Items -> Seq(Part)]
      BY DEF Init, NoParts
    <2>2. QED
      BY <1>1, <2>1 DEF PartsAreSent, SentFor
  <1>3. StagedShow /\ OwnedParts
    BY <1>1 DEF Init, NoHead, StagedShow, OwnedParts
  <1>4. RequestsAreEntitled /\ PictureIsNew
    BY IdleEntitled, IdleFacts DEF Init, RequestsAreEntitled, PictureIsNew
  <1>5. QED
    BY <1>2, <1>3, <1>4 DEF RInv

LEMMA StepEntitled == IInv /\ RInv /\ [Next]_vars => RInv'
  <1>1. ASSUME IInv, RInv, UNCHANGED vars PROVE RInv'
    BY <1>1 DEF vars, database, RInv, PartsAreSent, StagedShow, OwnedParts, RequestsAreEntitled,
                PictureIsNew
  <1>2. ASSUME IInv, RInv, NEW r \in Requests, Arrive(r) \/ Serve(r) \/ Break(r) PROVE RInv'
    BY <1>2, ArriveEntitled, ReadHeadEntitled, ReadItemEntitled, ReadPendingEntitled,
       QuietEntitled, LandEntitled DEF Serve
  <1>3. ASSUME IInv, RInv, Tick PROVE RInv'
    BY <1>3 DEF Tick, database, RInv, PartsAreSent, StagedShow, OwnedParts,
                RequestsAreEntitled, PictureIsNew
  <1>4. QED
    BY <1>1, <1>2, <1>3, SweepEntitled DEF Next

THEOREM Entitlement == Spec => []RInv
  BY Inductive, EntitledInit, StepEntitled, PTL DEF Spec

-----------------------------------------------------------------------------
(* ------------------------- what shows outside --------------------------- *)
Outward(r, told) == Answer(r, told) /\ UNCHANGED <<head, parts>>

LEMMA AskedIs ==
    ASSUME IInv, NEW r \in Requests
    PROVE  [u \in Requests |-> req[u].op][r] = req[r].op
  OBVIOUS

(* An answered slot asks for nothing any more. *)
LEMMA AnsweredOutside ==
    ASSUME IInv, RInv, NEW r \in Requests, UnderWay(r), NEW told, Answer(r, told)
    PROVE  Outside!Done(r) /\ Outside!Tell(r, told)
  <1>1. req[r].phase \in Phases /\ req[r].op \in Operations
    BY DEF IInv, Types, IsRequest, RInv, RequestsAreEntitled, Entitled, UnderWay
  <1>2. req[r].op # Nothing
    BY <1>1, OnlineStoreAssumption
  <1>3. \A u \in Requests : req'[u] = IF u = r THEN Idle ELSE req[u]
    BY DEF IInv, Types, Answer
  <1>4. Idle.op = Nothing
    BY DEF Idle
  <1>5. [u \in Requests |-> req'[u].op] = [[u \in Requests |-> req[u].op] EXCEPT ![r] = Nothing]
    BY <1>3, <1>4
  <1>6. Outside!Done(r)
    BY <1>2, <1>5 DEF Outside!Done
  <1>7. Outside!Tell(r, told)
    BY DEF Answer, Outside!Tell
  <1>8. QED
    BY <1>6, <1>7

(* One that goes on asks for the same. *)
LEMMA GoesOnOutside ==
    ASSUME IInv, NEW r \in Requests, NEW next, Go(r, next), next.op = req[r].op,
           UNCHANGED <<head, parts>>
    PROVE  UNCHANGED Outside!vars
  <1>1. \A u \in Requests : req'[u].op = req[u].op
    BY DEF IInv, Types, Go
  <1>2. [u \in Requests |-> req'[u].op] = [u \in Requests |-> req[u].op]
    BY <1>1
  <1>3. answer' = answer
    BY DEF Go
  <1>4. QED
    BY <1>2, <1>3 DEF Outside!vars

LEMMA RefusedOutside ==
    ASSUME IInv, RInv, NEW r \in Requests, UnderWay(r), NEW told \in Outside!Refusals,
           Answer(r, told), UNCHANGED <<head, parts>>,
           told = "conflict" => req[r].op.expected # head.rev,
           told = "forbidden" => head.proof \notin {Nobody, req[r].op.token}
    PROVE  Outside!Refuse(r)
  <1>1. Outside!Done(r) /\ Outside!Tell(r, told)
    BY AnsweredOutside
  <1>2. QED
    BY <1>1 DEF Outside!Refuse

LEMMA ArriveOutside ==
    ASSUME IInv, RInv, NEW r \in Requests, Arrive(r)
    PROVE  Outside!Ask(r)
  <1> DEFINE New(o) == [Idle EXCEPT !.op = o, !.phase = "head", !.now = clock, !.attempt = 1]
  <1>1. PICK o \in Operations : req' = [req EXCEPT ![r] = New(o)]
    BY DEF Arrive
  <1>2. New(o).op = o
    BY Columns
  <1>3. /\ req[r] = Idle /\ answer' = Unanswered /\ UNCHANGED <<head, parts>>
    BY DEF Arrive, UnderWay, database
  <1> HIDE DEF New
  <1>4. \A u \in Requests : req'[u].op = IF u = r THEN o ELSE req[u].op
    BY <1>1, <1>2 DEF IInv, Types
  <1>5. req[r].op = Nothing
    BY <1>3 DEF Idle
  <1>6. [u \in Requests |-> req'[u].op] = [[u \in Requests |-> req[u].op] EXCEPT ![r] = o]
    BY <1>4
  <1>7. answer' = Outside!Unanswered
    BY <1>3 DEF Unanswered, Outside!Unanswered
  <1>8. QED
    BY <1>3, <1>4, <1>5, <1>6, <1>7 DEF Outside!Ask

LEMMA UnderWayFacts ==
    ASSUME NEW r \in Requests, req[r].phase \in Phases
    PROVE  UnderWay(r)
  BY IdleFacts DEF UnderWay, Phases

LEMMA VerdictsAreRefusals == Verdicts \ Phases \subseteq Outside!Refusals \ {"conflict", "forbidden"}
  BY DEF Verdicts, Phases, Outside!Refusals

LEMMA ReadHeadOutside ==
    ASSUME IInv, RInv, NEW r \in Requests, ReadHead(r)
    PROVE  Outside!Refuse(r) \/ UNCHANGED Outside!vars
  <1> DEFINE next == [req[r] EXCEPT !.phase = "item", !.seen = head]
             o == req[r].op
  <1>1. UNCHANGED <<head, parts>> /\ req[r].phase = "head" /\ IsRequest(req[r])
    BY DEF ReadHead, database, IInv, Types
  <1>2. UnderWay(r)
    BY <1>1, UnderWayFacts DEF Phases
  <1>3. \/ Answer(r, "forbidden") /\ head.proof \notin {Nobody, o.token}
        \/ Answer(r, "conflict") /\ head.rev # o.expected
        \/ Go(r, next)
    BY DEF ReadHead
  <1>4. next.op = o
    BY <1>1, Columns DEF IsRequest
  <1>5. "forbidden" \in Outside!Refusals /\ "conflict" \in Outside!Refusals
    BY DEF Outside!Refusals
  <1> HIDE DEF next
  <1>6. QED
    BY <1>1, <1>2, <1>3, <1>4, <1>5, RefusedOutside, GoesOnOutside

(* A verdict is an answer that refuses, or nobody sees it. *)
LEMMA FindingOutside ==
    ASSUME IInv, RInv, NEW r \in Requests, req[r].phase \in {"item", "pending"},
           UNCHANGED <<head, parts>>, NEW found, NEW verdict \in Verdicts,
           Proceed(r, verdict, [req[r] EXCEPT !.found = found])
    PROVE  Outside!Refuse(r) \/ UNCHANGED Outside!vars
  <1>1. IsRequest(req[r]) /\ req[r].phase \in Phases /\ UnderWay(r)
    BY UnderWayFacts DEF IInv, Types, Phases
  <1>2. \/ Answer(r, verdict) /\ verdict \notin Phases
        \/ verdict \in Phases /\ Go(r, Finding(req[r], found, verdict))
    BY Zenon DEF Proceed, Finding
  <1>3. CASE Answer(r, verdict) /\ verdict \notin Phases
    <2>1. verdict \in Outside!Refusals /\ verdict # "conflict" /\ verdict # "forbidden"
      BY <1>3, VerdictsAreRefusals
    <2>2. QED
      BY <1>1, <1>3, <2>1, RefusedOutside
  <1>4. CASE Go(r, Finding(req[r], found, verdict))
    <2>1. Finding(req[r], found, verdict).op = req[r].op
      BY <1>1, FindingFacts
    <2>2. QED
      BY <1>4, <2>1, GoesOnOutside
  <1>5. QED
    BY <1>2, <1>3, <1>4

LEMMA ReadItemOutside ==
    ASSUME IInv, RInv, NEW r \in Requests, ReadItem(r)
    PROVE  Outside!Refuse(r) \/ UNCHANGED Outside!vars
  <1> DEFINE first == CASE req[r].op.kind = "scene" -> NotLooked
                        [] req[r].op.kind = "upload" -> Look(req[r], PictureOf(req[r].op))
                        [] OTHER -> Look(req[r], req[r].op.item)
             verdict == Verdict(req[r].op, Was(req[r]), first.has)
  <1>1. /\ req[r].phase = "item" /\ UNCHANGED <<head, parts>>
        /\ Proceed(r, verdict, [req[r] EXCEPT !.found = first])
    BY DEF ReadItem, database
  <1>2. IsRequest(req[r]) /\ Entitled(req[r])
    BY DEF IInv, Types, RInv, RequestsAreEntitled
  <1>3. first = CASE req[r].op.kind = "scene" -> NotLooked
                  [] req[r].op.kind = "upload" -> Look(req[r], PictureOf(req[r].op))
                  [] OTHER -> Look(req[r], req[r].op.item)
    OBVIOUS
  <1> HIDE DEF first
  <1>4. Entitles(req[r].op, first, verdict)
    BY <1>1, <1>2, <1>3, VerdictEntitles
  <1>5. verdict \in Verdicts
    BY <1>4 DEF Entitles
  <1> HIDE DEF verdict
  <1>6. QED
    BY <1>1, <1>5, FindingOutside

LEMMA ReadPendingOutside ==
    ASSUME IInv, RInv, NEW r \in Requests, ReadPending(r)
    PROVE  Outside!Refuse(r) \/ UNCHANGED Outside!vars
  <1> DEFINE upload == Look(req[r], req[r].op.item)
             verdict == Place(req[r].op, Was(req[r]), upload.has)
  <1>1. /\ req[r].phase = "pending" /\ UNCHANGED <<head, parts>>
        /\ Proceed(r, verdict, [req[r] EXCEPT !.found = upload])
    BY DEF ReadPending, database
  <1>2. IsRequest(req[r]) /\ Entitled(req[r])
    BY DEF IInv, Types, RInv, RequestsAreEntitled
  <1>3. verdict \in Verdicts
    BY <1>1, <1>2, ReadPendingVerdict DEF Entitles
  <1> HIDE DEF upload, verdict
  <1>4. QED
    BY <1>1, <1>3, FindingOutside

LEMMA ReadPartOutside ==
    ASSUME IInv, RInv, NEW r \in Requests, ReadPart(r)
    PROVE  Outside!Repeat(r) \/ Outside!Refuse(r)
  <1> DEFINE o == req[r].op
             item == req[r].found.item
             list == parts[item]
  <1>1. /\ req[r].phase = "part" /\ UNCHANGED <<head, parts>>
        /\ \/ o.n < Len(list) /\ Answer(r, "ok")
           \/ Answer(r, "partExists")
    BY DEF ReadPart, database
  <1>2. UnderWay(r) /\ o \in Operations /\ MayRepeat(o, req[r].found)
    BY <1>1, UnderWayFacts DEF IInv, Types, IsRequest, Phases, RInv, RequestsAreEntitled, Entitled
  <1>3. CASE Answer(r, "partExists")
    <2>1. "partExists" \in Outside!Refusals
      BY DEF Outside!Refusals
    <2>2. QED
      BY <1>1, <1>2, <1>3, <2>1, RefusedOutside
  <1>4. CASE o.n < Len(list) /\ Answer(r, "ok")
    <2>1. item \in Items /\ o.n \in Nat /\ list \in Seq(Part)
      BY <1>2, OperationFacts DEF MayRepeat, RInv, PartsAreSent
    <2>2. list # <<>>
      BY <1>4, <2>1
    <2>3. head.proof # Nobody
      <3>1. parts # NoParts
        BY <2>1, <2>2 DEF NoParts
      <3>2. QED
        BY <3>1 DEF RInv, OwnedParts
    <2>4. Outside!Done(r) /\ Outside!Tell(r, "ok")
      BY <1>2, <1>4, AnsweredOutside
    <2>5. o.kind \in {"picture", "upload"} => o.item[2] \in Pids
      BY <1>2, OperationFacts
    <2>6. o.kind = "picture" => o.item = PictureOf(o)
      BY <1>2, OperationFacts
    <2>7. \/ o.kind = "staged"
          \/ o.kind = "upload" /\ o.n < o.total - 1
          \/ o.kind \in {"picture", "upload"} /\ parts[Picture(o.item[2])] # <<>>
      BY <1>2, <2>2, <2>6 DEF MayRepeat, PictureOf
    <2>8. \/ o.kind = "staged"
          \/ o.kind = "upload" /\ o.n < o.total - 1
          \/ /\ o.kind \in {"picture", "upload"}
             /\ [pid \in Pids |-> parts[Picture(pid)]][o.item[2]] # <<>>
      BY <2>5, <2>7
    <2>9. UNCHANGED <<head.rev, parts[Scene], [pid \in Pids |-> parts[Picture(pid)]], head.proof>>
      BY <1>1
    <2>10. [u \in Requests |-> req[u].op][r] = o
      OBVIOUS
    <2> HIDE DEF o
    <2>11. QED
      BY <2>3, <2>4, <2>8, <2>9, <2>10 DEF Outside!Repeat
  <1>5. QED
    BY <1>1, <1>3, <1>4

LEMMA LoseRaceOutside ==
    ASSUME IInv, RInv, NEW r \in Requests, LoseRace(r) \/ Break(r)
    PROVE  Outside!Refuse(r) \/ UNCHANGED Outside!vars
  <1>1. UNCHANGED <<head, parts>> /\ UnderWay(r)
    BY UnderWayFacts DEF LoseRace, Break, database, Phases
  <1>2. \/ Answer(r, "busy") \/ Answer(r, "unavailable")
        \/ /\ req[r].phase = "write"
           /\ \E attempt : Go(r, Retried(req[r], attempt))
    BY DEF LoseRace, Break, Retried
  <1>3. CASE Answer(r, "busy") \/ Answer(r, "unavailable")
    <2>1. "busy" \in Outside!Refusals /\ "unavailable" \in Outside!Refusals
      BY DEF Outside!Refusals
    <2>2. QED
      BY <1>1, <1>3, <2>1, RefusedOutside
  <1>4. ASSUME NEW attempt, req[r].phase = "write", Go(r, Retried(req[r], attempt))
        PROVE  UNCHANGED Outside!vars
    <2>1. IsRequest(req[r]) /\ req[r].phase \in Phases
      BY <1>4 DEF IInv, Types, Phases
    <2>2. Retried(req[r], attempt).op = req[r].op
      BY <2>1, RetriedFacts
    <2>3. QED
      BY <1>1, <1>4, <2>2, GoesOnOutside
  <1>5. QED
    BY <1>2, <1>3, <1>4

LEMMA WholePart ==
    ASSUME NEW o \in Operations, o.kind \in {"scene", "picture"}
    PROVE  <<PartOf(o)>> \in Whole(o)
  <1>1. o.total = 1
    BY OperationFacts
  <1>2. PartOf(o) = [total |-> 1, body |-> o.body]
    BY <1>1 DEF PartOf
  <1>3. Whole(o) = {<<[total |-> 1, body |-> o.body]>>}
    BY DEF Whole, WholeOf
  <1>4. QED
    BY <1>2, <1>3

(* All the parts of an upload, each as it was sent, are a whole.            *)
LEMMA WholeList ==
    ASSUME NEW o \in Operations, o.kind \in {"commit", "upload"}, NEW list \in Seq(Part),
           list # <<>>, Len(list) = list[1].total, NEW rev, SentFor(o.item, list, rev),
           o.kind = "commit" => o.expected = rev
    PROVE  list \in Whole(o)
  <1> DEFINE n == Len(list)
             Lists == UNION {[1..k -> [total : {k}, body : Bodies]] : k \in 2..MaxParts}
             Sent(l) == \A i \in DOMAIN l :
                           \E sent \in Operations :
                              /\ sent.item = o.item /\ sent.kind # "commit"
                              /\ sent.n = i - 1 /\ sent.total = Len(l) /\ sent.body = l[i].body
                              /\ o.kind = "commit" => sent.expected = o.expected
  <1>1. n \in Nat /\ DOMAIN list = 1..n /\ list = [i \in 1..n |-> list[i]] /\ 1 \in 1..n
        /\ \A i \in 1..n : list[i] \in Part
    OBVIOUS
  <1>2. ASSUME NEW i \in 1..n
        PROVE  /\ list[i].total = n
               /\ \E sent \in Operations :
                     /\ sent.item = o.item /\ sent.kind \in {"staged", "upload"}
                     /\ sent.n = i - 1 /\ sent.total = n /\ sent.body = list[i].body
                     /\ sent.kind = "staged" => sent.expected = rev
    BY <1>1 DEF SentFor
  <1>3. n \in 2..MaxParts
    <2>1. PICK sent \in Operations : sent.kind \in {"staged", "upload"} /\ sent.total = n
      BY <1>1, <1>2
    <2>2. sent.total > 1 /\ sent.total \in 1..MaxParts
      BY <2>1, OperationFacts
    <2>3. QED
      BY <1>1, <2>1, <2>2
  <1>4. \A i \in 1..n : list[i] \in [total : {n}, body : Bodies]
    BY <1>1, <1>2 DEF Part
  <1>5. list \in Lists
    <2> HIDE DEF n
    <2>1. list \in [1..n -> [total : {n}, body : Bodies]]
      BY <1>1, <1>4
    <2>2. QED
      BY <1>3, <2>1
  <1>6. Sent(list)
    <2>1. ASSUME NEW sent \in Operations, sent.item = o.item, o.kind = "commit"
          PROVE  sent.kind # "upload"
      BY <2>1, OperationFacts DEF IsStaged, IsPending
    <2>2. QED
      BY <1>1, <1>2, <2>1
  <1>7. Whole(o) = {list_1 \in Lists : Sent(list_1)}
    BY DEF Whole, WholeOf
  <1> HIDE DEF Lists, Sent
  <1>8. QED
    BY <1>5, <1>6, <1>7

(* A landing, as an owner's write that was answered or whose answer is lost. *)
LEMMA LandByOwner ==
    ASSUME IInv, RInv, NEW r \in Requests, Land(r)
    PROVE  Outside!ByOwner(r)
  <1>1. req[r].phase = "write" /\ \E told \in {"ok", "unavailable"} : Answer(r, told)
    BY DEF Land
  <1>2. UnderWay(r)
    BY <1>1, UnderWayFacts DEF Phases
  <1>3. Outside!Done(r) /\ \E told \in {"ok", "unavailable"} : Outside!Tell(r, told)
    BY <1>1, <1>2, AnsweredOutside
  <1>4. head.proof \in {Nobody, req[r].op.token}
    BY LandFinds
  <1>5. head'.proof = req[r].op.token
    BY LandHead
  <1>6. QED
    BY <1>3, <1>4, <1>5 DEF Outside!ByOwner

(* What shows of the parts a landing leaves. *)
LEMMA LandShows ==
    ASSUME IInv, RInv, NEW r \in Requests, Land(r)
    PROVE  LET o == req[r].op
               kept == Kept(parts, head, req[r].now)
           IN  /\ o.kind = "scene" => parts'[Scene] = <<PartOf(o)>>
               /\ o.kind = "commit" => parts'[Scene] = parts[o.item]
               /\ ~Publishes(o) => parts'[Scene] = parts[Scene]
               /\ \A pid \in Pids :
                     parts'[Picture(pid)] =
                         IF o.kind \notin {"picture", "upload"} \/ pid # o.item[2]
                         THEN parts[Picture(pid)]
                         ELSE IF o.kind = "picture" THEN <<PartOf(o)>>
                         ELSE IF Completes(o) THEN Append(kept[o.item], PartOf(o))
                         ELSE parts[Picture(pid)]
  <1> DEFINE q == req[r]
             o == q.op
             kept == Kept(parts, head, q.now)
  <1>1. o \in Operations /\ (o.kind = "commit" => kept[o.item] = parts[o.item])
    BY LandFinds
  <1>2. \A item \in Items : parts'[item] = LandsAs(o, kept, item)
    BY LandPuts
  <1>3. /\ Scene \in Items /\ ~IsStaged(Scene) /\ ~IsPending(Scene)
        /\ kept[Scene] = parts[Scene]
    BY ItemFacts DEF Kept, Gone
  <1>4. ASSUME NEW pid \in Pids
        PROVE  /\ Picture(pid) \in Items /\ Picture(pid) # Scene
               /\ ~IsStaged(Picture(pid)) /\ ~IsPending(Picture(pid))
               /\ kept[Picture(pid)] = parts[Picture(pid)]
    BY ItemFacts DEF Kept, Gone
  <1>5. /\ o.item \in Items
        /\ o.kind \in {"scene", "staged", "commit", "picture", "upload"}
        /\ o.kind = "scene" => o.item = Scene
        /\ o.kind \in {"staged", "commit"} => IsStaged(o.item)
        /\ o.kind = "picture" => o.item = PictureOf(o)
        /\ o.kind = "upload" => IsPending(o.item)
        /\ o.kind \in {"picture", "upload"} => o.item[2] \in Pids
    BY <1>1, OperationFacts
  <1>6. o.kind \in {"picture", "upload"} =>
            PictureOf(o) # Scene /\ \A pid \in Pids : Picture(pid) = PictureOf(o) <=> pid = o.item[2]
    BY <1>5, ItemFacts DEF PictureOf
  <1> HIDE DEF kept, o
  <1>a. parts'[Scene] = LandsAs(o, kept, Scene)
    BY <1>2, <1>3
  <1>7. ASSUME o.kind = "scene" PROVE parts'[Scene] = <<PartOf(o)>>
    <2>1. LandsAs(o, kept, Scene) = <<PartOf(o)>>
      BY <1>3, <1>7 DEF LandsAs, Completes, Publishes
    <2>2. QED
      BY <1>a, <2>1
  <1>8. ASSUME o.kind = "commit" PROVE parts'[Scene] = parts[o.item]
    <2>1. LandsAs(o, kept, Scene) = kept[o.item]
      BY <1>3, <1>8 DEF LandsAs, Completes, Publishes
    <2>2. QED
      BY <1>1, <1>8, <1>a, <2>1
  <1>9. ~Publishes(o) => parts'[Scene] = parts[Scene]
    BY <1>2, <1>3, <1>5, <1>6 DEF LandsAs, Publishes, Completes
  <1>10. ASSUME NEW pid \in Pids
         PROVE  parts'[Picture(pid)] =
                    IF o.kind \notin {"picture", "upload"} \/ pid # o.item[2]
                    THEN parts[Picture(pid)]
                    ELSE IF o.kind = "picture" THEN <<PartOf(o)>>
                    ELSE IF Completes(o) THEN Append(kept[o.item], PartOf(o))
                    ELSE parts[Picture(pid)]
    <2>1. parts'[Picture(pid)] = LandsAs(o, kept, Picture(pid))
      BY <1>2, <1>4
    <2>2. CASE o.kind \notin {"picture", "upload"}
      BY <1>4, <1>5, <2>1, <2>2 DEF LandsAs, Completes
    <2>3. CASE o.kind = "picture"
      BY <1>4, <1>5, <1>6, <2>1, <2>3 DEF LandsAs, Completes, Publishes
    <2>4. CASE o.kind = "upload"
      <3>1. Picture(pid) # o.item
        BY <1>4, <1>5, <2>4
      <3>2. QED
        BY <1>4, <1>6, <2>1, <2>4, <3>1 DEF LandsAs, Publishes
    <2>5. QED
      BY <2>2, <2>3, <2>4
  <1>11. QED
    BY <1>7, <1>8, <1>9, <1>10 DEF o, kept

LEMMA PublishOutside ==
    ASSUME IInv, RInv, NEW r \in Requests, Land(r), Publishes(req[r].op)
    PROVE  Outside!Publish(r)
  <1> DEFINE o == req[r].op
  <1>1. /\ o \in Operations /\ o.expected = head.rev
        /\ o.kind = "commit" => /\ parts[o.item] # <<>>
                                /\ Len(parts[o.item]) = parts[o.item][1].total
    BY LandFinds DEF Publishes
  <1>2. head'.rev = head.rev + 1
    BY LandHead
  <1>3. parts'[Scene] \in Whole(o)
    <2>1. CASE o.kind = "scene"
      BY <1>1, <2>1, LandShows, WholePart
    <2>2. CASE o.kind = "commit"
      <3>1. parts'[Scene] = parts[o.item]
        BY <2>2, LandShows
      <3>2. o.item \in Items /\ IsStaged(o.item)
        BY <1>1, <2>2, OperationFacts
      <3>3. parts[o.item] \in Seq(Part) /\ SentFor(o.item, parts[o.item], head.rev)
        BY <3>2 DEF RInv, PartsAreSent
      <3>4. QED
        BY <1>1, <2>2, <3>1, <3>3, WholeList
    <2>3. QED
      BY <2>1, <2>2 DEF Publishes
  <1>4. \A pid \in Pids : parts'[Picture(pid)] = parts[Picture(pid)]
    BY LandShows DEF Publishes
  <1>5. [pid \in Pids |-> parts'[Picture(pid)]] = [pid \in Pids |-> parts[Picture(pid)]]
    BY <1>4
  <1>6. [u \in Requests |-> req[u].op][r] = o
    OBVIOUS
  <1> HIDE DEF o
  <1>7. o.kind \in {"scene", "commit"}
    BY DEF Publishes, o
  <1>8. QED
    BY <1>1, <1>2, <1>3, <1>5, <1>6, <1>7, LandByOwner DEF Outside!Publish

LEMMA AddPictureOutside ==
    ASSUME IInv, RInv, NEW r \in Requests, Land(r),
           req[r].op.kind = "picture" \/ Completes(req[r].op)
    PROVE  Outside!AddPicture(r)
  <1> DEFINE o == req[r].op
             kept == Kept(parts, head, req[r].now)
             whole == IF o.kind = "picture" THEN <<PartOf(o)>> ELSE Append(kept[o.item], PartOf(o))
             seen == [pid \in Pids |-> parts[Picture(pid)]]
  <1>1. o.kind \in {"picture", "upload"} /\ ~Publishes(o)
    BY DEF Completes, Publishes
  <1>2. /\ o \in Operations /\ kept \in [Items -> Seq(Part)]
        /\ o.kind = "picture" => parts[o.item] = <<>>
        /\ o.kind = "upload" => /\ parts[PictureOf(o)] = <<>>
                                /\ Len(kept[o.item]) = o.n
                                /\ kept[o.item] # <<>> => kept[o.item][1].total = o.total
    BY LandFinds
  <1>3. /\ o.item \in Items /\ o.item[2] \in Pids
        /\ o.kind = "picture" => o.item = PictureOf(o)
        /\ o.kind = "upload" => IsPending(o.item)
        /\ o.n \in Nat /\ o.total \in Nat
    BY <1>1, <1>2, OperationFacts
  <1>4. seen[o.item[2]] = <<>>
    BY <1>1, <1>2, <1>3 DEF PictureOf
  <1>5. whole \in Whole(o)
    <2>1. CASE o.kind = "picture"
      BY <1>2, <2>1, WholePart
    <2>2. CASE o.kind = "upload" /\ o.n = o.total - 1
      <3> DEFINE old == kept[o.item]
                 list == Append(old, PartOf(o))
      <3>1. old = <<>> \/ old = parts[o.item]
        BY <1>3 DEF Kept
      <3>2. SentFor(o.item, parts[o.item], head.rev)
        BY <1>3, <2>2 DEF RInv, PartsAreSent
      <3>3. SentFor(o.item, old, head.rev)
        <4>1. SentFor(o.item, <<>>, head.rev)
          BY Len(<<>>) = 0 DEF SentFor
        <4> HIDE DEF old, o
        <4>2. QED
          BY <3>1, <3>2, <4>1
      <3>4. old \in Seq(Part) /\ Len(old) = o.n /\ (old # <<>> => old[1].total = o.total)
        BY <1>2, <1>3, <2>2
      <3>5. whole = list
        BY <2>2
      <3> HIDE DEF old, o, whole
      <3>6. /\ list \in Seq(Part) /\ Len(list) = o.n + 1 /\ list[1].total = o.total
            /\ SentFor(o.item, list, head.rev)
        BY <1>2, <2>2, <3>3, <3>4, SentMore
      <3> HIDE DEF list
      <3>7. list # <<>> /\ Len(list) = list[1].total
        BY <1>3, <2>2, <3>6
      <3>8. QED
        BY <1>2, <2>2, <3>5, <3>6, <3>7, WholeList
    <2>3. QED
      BY <2>1, <2>2 DEF Completes
  <1>6. \A pid \in Pids : parts'[Picture(pid)] = IF pid = o.item[2] THEN whole ELSE seen[pid]
    BY <1>1, LandShows
  <1>7. [pid \in Pids |-> parts'[Picture(pid)]] = [seen EXCEPT ![o.item[2]] = whole]
    BY <1>6
  <1>8. head'.rev = head.rev /\ parts'[Scene] = parts[Scene]
    BY <1>1, LandHead, LandShows
  <1>9. [u \in Requests |-> req[u].op][r] = o
    OBVIOUS
  <1>10. seen = [pid \in Pids |-> parts[Picture(pid)]]
    OBVIOUS
  <1> HIDE DEF o, whole, seen
  <1>11. QED
    BY <1>1, <1>4, <1>5, <1>7, <1>8, <1>9, <1>10, LandByOwner DEF Outside!AddPicture

LEMMA TakePartOutside ==
    ASSUME IInv, RInv, NEW r \in Requests, Land(r),
           req[r].op.kind \in {"staged", "upload"}, ~Completes(req[r].op)
    PROVE  Outside!TakePart(r)
  <1> DEFINE o == req[r].op
  <1>1. o \in Operations /\ (o.kind = "staged" => o.expected = head.rev) /\ ~Publishes(o)
    BY LandFinds DEF Publishes
  <1>2. o.kind = "upload" => o.n < o.total - 1
    BY <1>1, OperationFacts DEF Completes
  <1>3. head'.rev = head.rev /\ parts'[Scene] = parts[Scene]
    BY <1>1, LandHead, LandShows
  <1>4. \A pid \in Pids : parts'[Picture(pid)] = parts[Picture(pid)]
    BY LandShows
  <1>5. [pid \in Pids |-> parts'[Picture(pid)]] = [pid \in Pids |-> parts[Picture(pid)]]
    BY <1>4
  <1>6. [u \in Requests |-> req[u].op][r] = o
    OBVIOUS
  <1>7. o.kind \in {"staged", "upload"}
    OBVIOUS
  <1> HIDE DEF o
  <1>8. QED
    BY <1>1, <1>2, <1>3, <1>5, <1>6, <1>7, LandByOwner DEF Outside!TakePart

LEMMA LandOutside ==
    ASSUME IInv, RInv, NEW r \in Requests, Land(r)
    PROVE  Outside!Publish(r) \/ Outside!AddPicture(r) \/ Outside!TakePart(r)
  <1>1. req[r].op \in Operations
    BY LandFinds
  <1>2. req[r].op.kind \in {"scene", "staged", "commit", "picture", "upload"}
    BY <1>1, OperationFacts
  <1>3. CASE Publishes(req[r].op)
    BY <1>3, PublishOutside
  <1>4. CASE req[r].op.kind = "picture" \/ Completes(req[r].op)
    BY <1>4, AddPictureOutside
  <1>5. CASE req[r].op.kind \in {"staged", "upload"} /\ ~Completes(req[r].op)
    BY <1>5, TakePartOutside
  <1>6. QED
    BY <1>2, <1>3, <1>4, <1>5 DEF Publishes

LEMMA InitOutside == Init => Outside!Init
  BY DEF Init, Outside!Init, Unanswered, Outside!Unanswered, NoHead, NoParts, Idle, Items

LEMMA SweepOutside == Sweep => Outside!Vanish
  BY DEF Sweep, Outside!Vanish, NoHead, NoParts, Items

(* What the store does is what Drawing promises, or nobody sees it. *)
LEMMA StepOutside == IInv /\ RInv /\ [Next]_vars => [Outside!Next]_(Outside!vars)
  <1>1. ASSUME IInv, RInv, NEW r \in Requests, Arrive(r) \/ Serve(r) \/ Break(r)
        PROVE  \/ Outside!Ask(r) \/ Outside!Publish(r) \/ Outside!AddPicture(r)
               \/ Outside!TakePart(r) \/ Outside!Repeat(r) \/ Outside!Refuse(r)
               \/ UNCHANGED Outside!vars
    BY <1>1, ArriveOutside, ReadHeadOutside, ReadItemOutside, ReadPendingOutside,
       ReadPartOutside, LoseRaceOutside, LandOutside DEF Serve
  <1>2. ASSUME Tick \/ UNCHANGED vars PROVE UNCHANGED Outside!vars
    BY <1>2 DEF Tick, vars, database, Outside!vars
  <1>3. QED
    BY <1>1, <1>2, SweepOutside DEF Next, Outside!Next

(* The store implements Drawing: for any requests at once, any bodies and   *)
(* caps, whatever is retried, idles away, expires or fails, a scene changes *)
(* whole and on the rev its writer names, a picture appears whole and once, *)
(* and no refusal is told that is not so.                                   *)
THEOREM PromiseIsKept == Spec => KeepsPromise
  BY Inductive, Entitlement, InitOutside, StepOutside, PTL DEF Spec, KeepsPromise, Outside!Spec

-----------------------------------------------------------------------------
(* ------------------------------ sums ------------------------------------ *)
(* Induction over the subsets of a finite set, told by a set of them.       *)
LEMMA SubsetInduction ==
    ASSUME NEW S, IsFiniteSet(S), NEW T, {} \in T,
           \A s \in SUBSET S : s # {} /\ (\A x \in s : s \ {x} \in T) => s \in T
    PROVE  \A s \in SUBSET S : s \in T
  <1> DEFINE rest == {s \in SUBSET S : s \notin T}
             R == StrictSubsetOrdering(S)
             all == FiniteSubsetsOf(S)
  <1>1. all = SUBSET S
    BY FS_FiniteSubsetsOfFinite
  <1>2. IsWellFoundedOn(R, all)
    BY FS_StrictSubsetOrderingWellFounded
  <1>3. SUFFICES ASSUME rest # {} PROVE FALSE
    OBVIOUS
  <1>4. PICK s \in rest : \A t \in rest : <<t, s>> \notin R
    <2>1. rest \subseteq all
      BY <1>1
    <2> HIDE DEF rest, R, all
    <2>2. QED
      BY <1>2, <1>3, <2>1, WFMin
  <1>5. \A x \in s : <<s \ {x}, s>> \in R
    BY DEF StrictSubsetOrdering
  <1>6. \A x \in s : s \ {x} \in T
    BY <1>4, <1>5
  <1>7. QED
    BY <1>6

-----------------------------------------------------------------------------
(* A sum over the subsets of S of what each of their members weighs. *)
IsSum(f, w, S) ==
    /\ f \in [SUBSET S -> Nat]
    /\ f[{}] = 0
    /\ \A s \in SUBSET S : \A x \in s : f[s] = f[s \ {x}] + w[x]

(* One that is worked out by taking the members out in some order. *)
Adds(f, w, c, S) ==
    f = [s \in SUBSET S |-> IF s = {} THEN 0 ELSE w[c[s]] + f[s \ {c[s]}]]

AddsLast(f, w, c, S) ==
    f = [s \in SUBSET S |-> IF s = {} THEN 0 ELSE f[s \ {c[s]}] + w[c[s]]]

AddsUp(f, w, c, S) ==
    /\ f = [s \in SUBSET S |-> f[s]] /\ f[{}] = 0
    /\ \A s \in SUBSET S : s # {} => \/ f[s] = w[c[s]] + f[s \ {c[s]}]
                                     \/ f[s] = f[s \ {c[s]}] + w[c[s]]

LEMMA AddsUpIsSum ==
    ASSUME NEW S, IsFiniteSet(S), NEW w, \A x \in S : w[x] \in Nat,
           NEW c, \A s \in SUBSET S : s # {} => c[s] \in s,
           NEW f, AddsUp(f, w, c, S)
    PROVE  IsSum(f, w, S)
  <1>1. /\ f[{}] = 0
        /\ \A s \in SUBSET S : s # {} => \/ f[s] = w[c[s]] + f[s \ {c[s]}]
                                         \/ f[s] = f[s \ {c[s]}] + w[c[s]]
    BY DEF AddsUp
  <1>2. \A s \in SUBSET S : f[s] \in Nat
    <2> DEFINE T == {s \in SUBSET S : f[s] \in Nat}
    <2>1. {} \in T
      BY <1>1
    <2>2. ASSUME NEW s \in SUBSET S, s # {}, \A x \in s : s \ {x} \in T
          PROVE  s \in T
      <3>1. c[s] \in s /\ c[s] \in S /\ w[c[s]] \in Nat
        BY <2>2
      <3>2. /\ f[s] = w[c[s]] + f[s \ {c[s]}] \/ f[s] = f[s \ {c[s]}] + w[c[s]]
            /\ f[s \ {c[s]}] \in Nat
        BY <1>1, <2>2, <3>1
      <3>3. QED
        BY <3>1, <3>2
    <2> HIDE DEF T
    <2>3. \A s \in SUBSET S : s \in T
      BY <2>1, <2>2, SubsetInduction
    <2>4. QED
      BY <2>3 DEF T
  <1>3. \A s \in SUBSET S : \A x \in s : f[s] = f[s \ {x}] + w[x]
    <2> DEFINE T == {s \in SUBSET S : \A x \in s : f[s] = f[s \ {x}] + w[x]}
    <2>1. {} \in T
      OBVIOUS
    <2>2. ASSUME NEW s \in SUBSET S, s # {}, \A x \in s : s \ {x} \in T
          PROVE  s \in T
      <3>1. ASSUME NEW x \in s
            PROVE  f[s] = f[s \ {x}] + w[x]
        <4> DEFINE y == c[s]
                   both == (s \ {x}) \ {y}
        <4>1. /\ y \in s /\ w[y] \in Nat /\ w[x] \in Nat
              /\ f[s] = w[y] + f[s \ {y}] \/ f[s] = f[s \ {y}] + w[y]
          BY <1>1, <2>2
        <4>0. f[s \ {y}] \in Nat
          BY <1>2
        <4> HIDE DEF y
        <4>2. CASE x = y
          <5>1. QED
            BY <4>0, <4>1, <4>2
        <4>3. CASE x # y
          <5>1. y \in s \ {x} /\ x \in s \ {y} /\ (s \ {y}) \ {x} = both
            BY <4>1, <4>3
          <5>2. f[s \ {y}] = f[both] + w[x]
            BY <2>2, <4>1, <5>1
          <5>3. f[s \ {x}] = f[both] + w[y]
            BY <2>2, <5>1
          <5>4. f[both] \in Nat
            BY <1>2
          <5>5. QED
            BY <4>0, <4>1, <5>2, <5>3, <5>4
        <4>4. QED
          BY <4>2, <4>3
      <3>2. QED
        BY <3>1
    <2> HIDE DEF T
    <2>3. \A s \in SUBSET S : s \in T
      BY <2>1, <2>2, SubsetInduction
    <2>4. QED
      BY <2>3 DEF T
  <1>4. f \in [SUBSET S -> Nat]
    <2>1. f = [s \in SUBSET S |-> f[s]]
      BY DEF AddsUp
    <2>2. QED
      BY <1>2, <2>1
  <1>5. f[{}] = 0
    BY <1>1
  <1>6. QED
    BY <1>3, <1>4, <1>5 DEF IsSum

(* However the members are taken out, two sums agree where their members    *)
(* weigh the same.                                                          *)
LEMMA AddsAgree ==
    ASSUME NEW a, NEW b, IsFiniteSet(a), NEW w, NEW c, NEW f, NEW g,
           \A s \in SUBSET a : s # {} => c[s] \in s,
           Adds(f, w, c, a), Adds(g, w, c, b)
    PROVE  \A s \in SUBSET a : s \in SUBSET b => f[s] = g[s]
  <1> DEFINE T == {s \in SUBSET a : s \in SUBSET b => f[s] = g[s]}
  <1>1. /\ \A s \in SUBSET a : f[s] = IF s = {} THEN 0 ELSE w[c[s]] + f[s \ {c[s]}]
        /\ \A s \in SUBSET b : g[s] = IF s = {} THEN 0 ELSE w[c[s]] + g[s \ {c[s]}]
    BY DEF Adds
  <1>2. {} \in T
    BY <1>1
  <1>3. ASSUME NEW s \in SUBSET a, s # {}, \A x \in s : s \ {x} \in T
        PROVE  s \in T
    BY <1>1, <1>3
  <1> HIDE DEF T
  <1>4. \A s \in SUBSET a : s \in T
    BY <1>2, <1>3, SubsetInduction
  <1>5. QED
    BY <1>4 DEF T

LEMMA AddsExists ==
    ASSUME NEW S, IsFiniteSet(S), NEW w, NEW c, \A s \in SUBSET S : s # {} => c[s] \in s
    PROVE  \E f : Adds(f, w, c, S)
  <1> DEFINE T == {t \in SUBSET S : \E g : Adds(g, w, c, t)}
             best(u) == CHOOSE g : Adds(g, w, c, u)
  <1>1. {} \in T
    <2> DEFINE g == [s \in SUBSET {} |-> 0]
    <2>1. Adds(g, w, c, {})
      BY DEF Adds
    <2> HIDE DEF g
    <2>2. QED
      BY <2>1
  <1>2. \A u \in T : Adds(best(u), w, c, u)
    OBVIOUS
  <1>3. ASSUME NEW t \in SUBSET S, t # {}, \A x \in t : t \ {x} \in T
        PROVE  t \in T
    <2>1. ASSUME NEW u \in SUBSET t, u # t
          PROVE  u \in T
      <3>1. PICK x \in t : x \notin u
        BY <2>1
      <3>2. PICK g : Adds(g, w, c, t \ {x})
        BY <1>3
      <3> DEFINE h == [s \in SUBSET u |-> g[s]]
      <3>3. u \in SUBSET (t \ {x})
        BY <3>1
      <3>4. \A s \in SUBSET u : g[s] = IF s = {} THEN 0 ELSE w[c[s]] + g[s \ {c[s]}]
        BY <3>2, <3>3 DEF Adds
      <3>5. \A s \in SUBSET u : h[s] = IF s = {} THEN 0 ELSE w[c[s]] + h[s \ {c[s]}]
        BY <3>4
      <3>6. h = [s \in SUBSET u |-> h[s]]
        OBVIOUS
      <3> HIDE DEF h
      <3>7. Adds(h, w, c, u)
        BY <3>5, <3>6 DEF Adds
      <3>8. QED
        BY <3>7
    <2> DEFINE v(u) == best(u)[u]
               last == t \ {c[t]}
               h == [u \in SUBSET t |-> IF u = t THEN w[c[t]] + v(last) ELSE v(u)]
    <2>2. ASSUME NEW u \in SUBSET t, u # t, u # {}
          PROVE  v(u) = w[c[u]] + v(u \ {c[u]})
      <3> DEFINE less == u \ {c[u]}
      <3>1. u \in T /\ less \in T /\ less \in SUBSET u
        BY <2>1, <2>2
      <3>2. Adds(best(u), w, c, u) /\ Adds(best(less), w, c, less)
        BY <1>2, <3>1
      <3>3. v(u) = w[c[u]] + best(u)[less]
        BY <2>2, <3>2 DEF Adds
      <3>4. IsFiniteSet(less) /\ \A s \in SUBSET less : s # {} => c[s] \in s
        BY <2>2, FS_Subset
      <3> DEFINE f == best(less)
                 g == best(u)
      <3> HIDE DEF less, best
      <3>5. f[less] = g[less]
        <4> HIDE DEF f, g
        <4>1. Adds(f, w, c, less) /\ Adds(g, w, c, u)
          BY <3>2 DEF f, g
        <4>2. \A s \in SUBSET less : s \in SUBSET u => f[s] = g[s]
          BY <3>4, <4>1, AddsAgree
        <4>3. QED
          BY <3>1, <4>2
      <3>6. QED
        BY <3>3, <3>5 DEF less
    <2>3. v({}) = 0
      <3>1. Adds(best({}), w, c, {})
        BY <1>1, <1>2
      <3> HIDE DEF best
      <3>2. QED
        BY <3>1 DEF Adds
    <2> HIDE DEF v, best
    <2>4. c[t] \in t
      BY <1>3
    <2>5. \A u \in SUBSET t : h[u] = IF u = {} THEN 0 ELSE w[c[u]] + h[u \ {c[u]}]
      <3>1. ASSUME NEW u \in SUBSET t
            PROVE  h[u] = IF u = {} THEN 0 ELSE w[c[u]] + h[u \ {c[u]}]
        <4>1. CASE u = {}
          BY <1>3, <2>3, <4>1
        <4>2. CASE u = t
          <5>1. h[u] = w[c[t]] + v(last) /\ last # t /\ last \in SUBSET t
            BY <2>4, <4>2
          <5>2. h[last] = v(last)
            BY <5>1
          <5>3. QED
            BY <1>3, <4>2, <5>1, <5>2
        <4>3. CASE u # {} /\ u # t
          <5> DEFINE less == u \ {c[u]}
          <5>1. less \in SUBSET t /\ less # t
            BY <4>3
          <5>2. h[u] = v(u) /\ h[less] = v(less)
            BY <4>3, <5>1
          <5>3. QED
            BY <2>2, <4>3, <5>2
        <4>4. QED
          BY <4>1, <4>2, <4>3
      <3>2. QED
        BY <3>1
    <2>6. h = [u \in SUBSET t |-> h[u]]
      OBVIOUS
    <2> HIDE DEF h
    <2>7. Adds(h, w, c, t)
      BY <2>5, <2>6 DEF Adds
    <2>8. QED
      BY <2>7
  <1> HIDE DEF T
  <1>4. \A s \in SUBSET S : s \in T
    BY <1>1, <1>3, SubsetInduction
  <1>5. QED
    BY <1>4 DEF T

LEMMA SumExists ==
    ASSUME NEW S, IsFiniteSet(S), NEW w, \A x \in S : w[x] \in Nat,
           NEW c, \A s \in SUBSET S : s # {} => c[s] \in s
    PROVE  \E f : Adds(f, w, c, S) /\ AddsLast(f, w, c, S)
  <1>1. PICK f : Adds(f, w, c, S)
    BY AddsExists
  <1>2. f = [s \in SUBSET S |-> IF s = {} THEN 0 ELSE w[c[s]] + f[s \ {c[s]}]]
    BY <1>1 DEF Adds
  <1>3. \A s \in SUBSET S : f[s] = IF s = {} THEN 0 ELSE w[c[s]] + f[s \ {c[s]}]
    BY <1>2
  <1>4. AddsUp(f, w, c, S)
    <2>1. f = [s \in SUBSET S |-> f[s]]
      BY <1>2
    <2>2. QED
      BY <1>3, <2>1 DEF AddsUp
  <1>5. IsSum(f, w, S)
    BY <1>4, AddsUpIsSum
  <1>6. ASSUME NEW s \in SUBSET S
        PROVE  f[s] = IF s = {} THEN 0 ELSE f[s \ {c[s]}] + w[c[s]]
    <2>1. CASE s = {}
      BY <1>3, <2>1
    <2>2. CASE s # {}
      <3>1. c[s] \in S /\ w[c[s]] \in Nat /\ s \ {c[s]} \in SUBSET S
        BY <2>2
      <3>2. f[s \ {c[s]}] \in Nat
        BY <1>5, <3>1 DEF IsSum
      <3>3. QED
        BY <1>3, <2>2, <3>1, <3>2
    <2>3. QED
      BY <2>1, <2>2
  <1>7. f = [s \in SUBSET S |-> IF s = {} THEN 0 ELSE f[s \ {c[s]}] + w[c[s]]]
    BY <1>4, <1>6 DEF AddsUp
  <1>8. AddsLast(f, w, c, S)
    BY <1>7 DEF AddsLast
  <1>9. QED
    BY <1>1, <1>8

-----------------------------------------------------------------------------
(* Sums of the same weights are the same. *)
LEMMA SumsAgree ==
    ASSUME NEW a, NEW b, NEW s, IsFiniteSet(s), s \in SUBSET a, s \in SUBSET b,
           NEW v, NEW w, \A x \in s : v[x] = w[x],
           NEW f, NEW g, IsSum(f, v, a), IsSum(g, w, b)
    PROVE  f[s] = g[s]
  <1> DEFINE T == {t \in SUBSET s : f[t] = g[t]}
  <1>1. {} \in T
    BY DEF IsSum
  <1>2. ASSUME NEW t \in SUBSET s, t # {}, \A x \in t : t \ {x} \in T
        PROVE  t \in T
    <2>1. PICK x \in t : TRUE
      BY <1>2
    <2>2. f[t \ {x}] = g[t \ {x}] /\ v[x] = w[x]
      BY <1>2
    <2>3. f[t] = f[t \ {x}] + v[x] /\ g[t] = g[t \ {x}] + w[x]
      BY DEF IsSum
    <2>4. QED
      BY <2>2, <2>3
  <1> HIDE DEF T
  <1>3. \A t \in SUBSET s : t \in T
    BY <1>1, <1>2, SubsetInduction
  <1>4. QED
    BY <1>3 DEF T

(* Nothing weighs nothing. *)
LEMMA SumOfNothing ==
    ASSUME NEW a, NEW s \in SUBSET a, IsFiniteSet(s), NEW w, \A x \in s : w[x] = 0,
           NEW f, IsSum(f, w, a)
    PROVE  f[s] = 0
  <1> DEFINE T == {t \in SUBSET s : f[t] = 0}
  <1>1. {} \in T
    BY DEF IsSum
  <1>2. ASSUME NEW t \in SUBSET s, t # {}, \A x \in t : t \ {x} \in T
        PROVE  t \in T
    <2>1. PICK x \in t : TRUE
      BY <1>2
    <2>2. f[t \ {x}] = 0 /\ w[x] = 0
      BY <1>2
    <2>3. f[t] = f[t \ {x}] + w[x]
      BY DEF IsSum
    <2>4. QED
      BY <2>2, <2>3
  <1> HIDE DEF T
  <1>3. \A t \in SUBSET s : t \in T
    BY <1>1, <1>2, SubsetInduction
  <1>4. QED
    BY <1>3 DEF T

(* Two sets that have no member in common. *)
LEMMA SumsJoin ==
    ASSUME NEW a, NEW s \in SUBSET a, NEW t \in SUBSET a, IsFiniteSet(s), s \cap t = {},
           NEW w, \A x \in a : w[x] \in Nat, NEW f, IsSum(f, w, a)
    PROVE  f[s \cup t] = f[s] + f[t]
  <1> DEFINE T == {y \in SUBSET s : f[y \cup t] = f[y] + f[t]}
  <1>0. \A u \in SUBSET a : f[u] \in Nat
    BY DEF IsSum
  <1>1. {} \in T
    <2>1. {} \cup t = t /\ f[{}] = 0 /\ f[t] \in Nat
      BY <1>0 DEF IsSum
    <2>2. QED
      BY <2>1
  <1>2. ASSUME NEW u \in SUBSET s, u # {}, \A x \in u : u \ {x} \in T
        PROVE  u \in T
    <2>1. PICK x \in u : TRUE
      BY <1>2
    <2> DEFINE less == u \ {x}
               all == u \cup t
    <2>2. less \in T /\ w[x] \in Nat
      BY <1>2
    <2>3. f[less \cup t] = f[less] + f[t]
      BY <2>2
    <2>4. /\ less \cup t = all \ {x} /\ x \in all
          /\ all \in SUBSET a /\ less \in SUBSET a /\ u \in SUBSET a
      BY <2>1
    <2>5. f[u] = f[less] + w[x]
      BY DEF IsSum
    <2> HIDE DEF T, less, all
    <2>6. f[all] = f[all \ {x}] + w[x]
      BY <2>4 DEF IsSum
    <2>7. f[t] \in Nat /\ f[less] \in Nat
      BY <1>0, <2>4
    <2>8. f[all] = f[u] + f[t]
      <3>1. f[all \ {x}] = f[less] + f[t]
        BY <2>3, <2>4, Zenon
      <3>2. QED
        BY <2>2, <2>5, <2>6, <2>7, <3>1
    <2>9. f[u \cup t] = f[u] + f[t]
      BY <2>8 DEF all
    <2>10. QED
      BY <2>9 DEF T
  <1> HIDE DEF T
  <1>3. \A u \in SUBSET s : u \in T
    BY <1>1, <1>2, SubsetInduction
  <1>4. QED
    BY <1>3 DEF T
-----------------------------------------------------------------------------
(* What a list of parts weighs. *)

LEMMA MaxFacts ==
    ASSUME NEW n \in Nat, NEW s \in SUBSET (1..n), s # {}
    PROVE  Max(s) \in s
  <1> DEFINE T == {t \in SUBSET (1..n) : t = {} \/ \E m \in t : \A k \in t : m >= k}
  <1>1. IsFiniteSet(1..n)
    BY FS_Interval
  <1>2. {} \in T
    OBVIOUS
  <1>3. ASSUME NEW t \in SUBSET (1..n), t # {}, \A x \in t : t \ {x} \in T
        PROVE  t \in T
    <2>1. PICK x \in t : TRUE
      BY <1>3
    <2>2. x \in Nat /\ \A k \in t : k \in Nat
      OBVIOUS
    <2>3. t \ {x} = {} \/ \E m \in t \ {x} : \A k \in t \ {x} : m >= k
      BY <1>3
    <2>4. CASE t \ {x} = {}
      BY <2>2, <2>4
    <2>5. ASSUME NEW m \in t \ {x}, \A k \in t \ {x} : m >= k
          PROVE  t \in T
      <3>1. CASE m >= x
        BY <2>2, <2>5, <3>1
      <3>2. CASE x > m
        <4>1. \A k \in t : x >= k
          BY <2>2, <2>5, <3>2
        <4>2. QED
          BY <4>1
      <3>3. QED
        BY <2>2, <3>1, <3>2
    <2>6. QED
      BY <2>3, <2>4, <2>5
  <1>4. \E m \in s : \A k \in s : m >= k
    <2> HIDE DEF T
    <2>1. \A t \in SUBSET (1..n) : t \in T
      BY <1>1, <1>2, <1>3, SubsetInduction
    <2>2. QED
      BY <2>1 DEF T
  <1>5. QED
    BY <1>4 DEF Max

Weights(list) == [i \in DOMAIN list |-> Weight[list[i].body]]

LEMMA WeightsType ==
    ASSUME NEW list \in Seq(Part)
    PROVE  /\ DOMAIN list = 1..Len(list) /\ Len(list) \in Nat /\ IsFiniteSet(DOMAIN list)
           /\ \A i \in DOMAIN list : Weights(list)[i] \in Nat
  <1>1. DOMAIN list = 1..Len(list) /\ Len(list) \in Nat
    OBVIOUS
  <1>2. IsFiniteSet(DOMAIN list)
    BY <1>1, FS_Interval
  <1>3. \A i \in DOMAIN list : list[i].body \in Bodies
    <2>1. \A i \in DOMAIN list : list[i] \in Part
      BY <1>1, ElementOfSeq
    <2>2. QED
      BY <2>1 DEF Part
  <1>4. \A body \in Bodies : Weight[body] \in Nat
    BY OnlineStoreAssumption
  <1>5. QED
    BY <1>1, <1>2, <1>3, <1>4 DEF Weights

LEMMA BytesFold ==
    ASSUME NEW list, NEW f,
           f = [s \in SUBSET DOMAIN list |->
                   IF s = {} THEN 0 ELSE f[s \ {Max(s)}] + Weight[list[Max(s)].body]]
    PROVE  \E g : /\ g = [s \in SUBSET DOMAIN list |->
                              IF s = {} THEN 0 ELSE g[s \ {Max(s)}] + Weight[list[Max(s)].body]]
                  /\ BytesOf(list) = g[DOMAIN list]
  BY DEF BytesOf, FoldLeft, MapThenFoldSet, Heavier

LEMMA BytesIsSum ==
    ASSUME NEW list \in Seq(Part)
    PROVE  \E f : IsSum(f, Weights(list), DOMAIN list) /\ BytesOf(list) = f[DOMAIN list]
  <1> DEFINE S == DOMAIN list
             w == Weights(list)
             c == [s \in SUBSET S |-> Max(s)]
  <1>1. IsFiniteSet(S) /\ \A i \in S : w[i] \in Nat
    BY WeightsType
  <1>2. \A s \in SUBSET S : s # {} => c[s] \in s /\ c[s] = Max(s)
    BY WeightsType, MaxFacts
  <1>3. \A s \in SUBSET S : s # {} => w[c[s]] = Weight[list[Max(s)].body]
    BY <1>2 DEF Weights
  <1> HIDE DEF S, w, c
  <1>4. PICK f : Adds(f, w, c, S) /\ AddsLast(f, w, c, S)
    <2>1. \A s \in SUBSET S : s # {} => c[s] \in s
      BY <1>2
    <2>2. IsFiniteSet(S) /\ \A x \in S : w[x] \in Nat
      BY <1>1
    <2>3. QED
      BY <2>1, <2>2, SumExists
  <1>5. f = [s \in SUBSET S |->
                IF s = {} THEN 0 ELSE f[s \ {Max(s)}] + Weight[list[Max(s)].body]]
    BY <1>2, <1>3, <1>4 DEF AddsLast
  <1>6. PICK g : /\ g = [s \in SUBSET S |->
                             IF s = {} THEN 0 ELSE g[s \ {Max(s)}] + Weight[list[Max(s)].body]]
                 /\ BytesOf(list) = g[S]
    BY <1>5, BytesFold DEF S
  <1>7. /\ g = [s \in SUBSET S |-> g[s]] /\ g[{}] = 0
        /\ \A s \in SUBSET S : s # {} => g[s] = g[s \ {c[s]}] + w[c[s]]
    BY <1>2, <1>3, <1>6
  <1>8. AddsUp(g, w, c, S)
    BY <1>7 DEF AddsUp
  <1>9. IsSum(g, w, S)
    BY <1>1, <1>2, <1>8, AddsUpIsSum
  <1>10. QED
    BY <1>6, <1>9 DEF S, w

LEMMA NoBytes == BytesOf(<<>>) = 0
  <1> DEFINE none == <<>>
             s == DOMAIN none
  <1>1. none \in Seq(Part) /\ s = {}
    OBVIOUS
  <1> HIDE DEF none
  <1>2. PICK f : IsSum(f, Weights(none), s) /\ BytesOf(none) = f[s]
    BY <1>1, BytesIsSum
  <1> HIDE DEF s
  <1>3. BytesOf(none) = 0
    BY <1>1, <1>2 DEF IsSum
  <1>4. QED
    BY <1>3 DEF none

LEMMA BytesFacts ==
    ASSUME NEW list \in Seq(Part), NEW part \in Part
    PROVE  /\ BytesOf(<<>>) = 0 /\ BytesOf(list) \in Nat
           /\ Weight[part.body] \in Nat
           /\ BytesOf(<<part>>) = Weight[part.body]
           /\ BytesOf(Append(list, part)) = BytesOf(list) + Weight[part.body]
  <1>1. ASSUME NEW l \in Seq(Part) PROVE BytesOf(l) \in Nat
    <2>1. PICK f : IsSum(f, Weights(l), DOMAIN l) /\ BytesOf(l) = f[DOMAIN l]
      BY BytesIsSum
    <2> DEFINE s == DOMAIN l
    <2>2. f \in [SUBSET s -> Nat] /\ s \in SUBSET s /\ BytesOf(l) = f[s]
      BY <2>1 DEF IsSum
    <2> HIDE DEF s
    <2>3. QED
      BY <2>2
  <1>2. BytesOf(<<>>) = 0
    BY NoBytes
  <1>3. Weight[part.body] \in Nat
    BY OnlineStoreAssumption DEF Part
  <1>4. ASSUME NEW l \in Seq(Part)
        PROVE  BytesOf(Append(l, part)) = BytesOf(l) + Weight[part.body]
    <2> DEFINE more == Append(l, part)
               n == Len(l)
               s == DOMAIN l
    <2>1. /\ more \in Seq(Part) /\ n \in Nat /\ s = 1..n /\ DOMAIN more = 1..(n + 1)
          /\ more[n + 1] = part /\ \A i \in s : more[i] = l[i]
      BY AppendProperties
    <2>2. IsFiniteSet(s) /\ s \in SUBSET DOMAIN more /\ DOMAIN more \ {n + 1} = s
      BY <2>1, WeightsType
    <2>3. PICK f : IsSum(f, Weights(l), s) /\ BytesOf(l) = f[s]
      BY BytesIsSum
    <2>4. PICK g : IsSum(g, Weights(more), DOMAIN more) /\ BytesOf(more) = g[DOMAIN more]
      BY <2>1, BytesIsSum
    <2>5. /\ \A i \in s : Weights(l)[i] = Weights(more)[i]
          /\ n + 1 \in DOMAIN more /\ Weights(more)[n + 1] = Weight[part.body]
      BY <2>1 DEF Weights
    <2> DEFINE v == Weights(l)
               w == Weights(more)
               b == DOMAIN more
    <2> HIDE DEF v, w, b, more, n, s
    <2>6. f[s] = g[s]
      <3>1. IsSum(f, v, s) /\ IsSum(g, w, b) /\ s \in SUBSET b /\ s \in SUBSET s
        BY <2>2, <2>3, <2>4 DEF v, w, b
      <3>2. \A i \in s : v[i] = w[i]
        BY <2>5 DEF v, w
      <3>3. QED
        BY <2>2, <3>1, <3>2, SumsAgree
    <2>7. g[b] = g[b \ {n + 1}] + w[n + 1]
      BY <2>4, <2>5 DEF IsSum, b, w
    <2>8. b \ {n + 1} = s
      BY <2>2 DEF b
    <2>9. g[b] = g[s] + w[n + 1]
      BY <2>7, <2>8, Zenon
    <2>10. QED
      BY <2>3, <2>4, <2>5, <2>6, <2>9 DEF more, b, w
  <1>5. BytesOf(<<part>>) = Weight[part.body]
    <2> DEFINE none == <<>>
    <2>1. <<part>> = Append(none, part) /\ none \in Seq(Part)
      OBVIOUS
    <2>2. BytesOf(none) = 0
      BY <1>2
    <2> HIDE DEF none
    <2>3. BytesOf(Append(none, part)) = BytesOf(none) + Weight[part.body]
      BY <1>4, <2>1
    <2>4. BytesOf(Append(none, part)) = Weight[part.body]
      BY <1>3, <2>2, <2>3
    <2>5. QED
      BY <2>1, <2>4, Zenon
  <1>6. QED
    BY <1>1, <1>2, <1>3, <1>4, <1>5

-----------------------------------------------------------------------------
(* What the members of a finite set weigh together. *)
Sum(w, s) == (CHOOSE f : IsSum(f, w, s))[s]

LEMMA SumIsOne ==
    ASSUME NEW s, IsFiniteSet(s), NEW w, \A x \in s : w[x] \in Nat
    PROVE  \E f : IsSum(f, w, s) /\ Sum(w, s) = f[s]
  <1> DEFINE c == [t \in SUBSET s |-> CHOOSE x \in t : TRUE]
  <1>1. \A t \in SUBSET s : t # {} => c[t] \in t
    OBVIOUS
  <1> HIDE DEF c
  <1>2. PICK f : Adds(f, w, c, s) /\ AddsLast(f, w, c, s)
    BY <1>1, SumExists
  <1>3. AddsUp(f, w, c, s)
    <2>1. f = [t \in SUBSET s |-> IF t = {} THEN 0 ELSE w[c[t]] + f[t \ {c[t]}]]
      BY <1>2 DEF Adds
    <2>2. f = [t \in SUBSET s |-> f[t]]
      BY <2>1
    <2>3. \A t \in SUBSET s : f[t] = IF t = {} THEN 0 ELSE w[c[t]] + f[t \ {c[t]}]
      BY <2>1
    <2>4. QED
      BY <2>2, <2>3 DEF AddsUp
  <1>4. IsSum(f, w, s)
    BY <1>1, <1>3, AddsUpIsSum
  <1>5. IsSum(CHOOSE g : IsSum(g, w, s), w, s)
    BY <1>4
  <1>6. QED
    BY <1>5 DEF Sum

(* A sum of part of a set is the sum of that part. *)
LEMMA SumOfPart ==
    ASSUME NEW s, IsFiniteSet(s), NEW w, \A x \in s : w[x] \in Nat, NEW f, IsSum(f, w, s),
           NEW t \in SUBSET s
    PROVE  f[t] = Sum(w, t)
  <1>1. IsFiniteSet(t) /\ \A x \in t : w[x] \in Nat
    BY FS_Subset
  <1>2. PICK g : IsSum(g, w, t) /\ Sum(w, t) = g[t]
    BY <1>1, SumIsOne
  <1>3. f[t] = g[t]
    BY <1>1, <1>2, SumsAgree
  <1>4. QED
    BY <1>2, <1>3

LEMMA SumOfTwo ==
    ASSUME NEW t, NEW u, IsFiniteSet(t), IsFiniteSet(u), t \cap u = {},
           NEW w, \A x \in t \cup u : w[x] \in Nat
    PROVE  Sum(w, t \cup u) = Sum(w, t) + Sum(w, u)
  <1> DEFINE s == t \cup u
  <1>1. IsFiniteSet(s) /\ t \in SUBSET s /\ u \in SUBSET s /\ \A x \in s : w[x] \in Nat
    BY FS_Union
  <1>2. s = t \cup u
    OBVIOUS
  <1> HIDE DEF s
  <1>3. PICK f : IsSum(f, w, s) /\ Sum(w, s) = f[s]
    BY <1>1, SumIsOne
  <1>4. f[t \cup u] = f[t] + f[u]
    BY <1>1, <1>3, SumsJoin
  <1>5. f[s] = f[t] + f[u]
    BY <1>2, <1>4, Zenon
  <1>6. f[t] = Sum(w, t) /\ f[u] = Sum(w, u)
    BY <1>1, <1>3, SumOfPart
  <1>7. QED
    BY <1>3, <1>5, <1>6 DEF s

LEMMA SumFacts ==
    ASSUME NEW s, IsFiniteSet(s), NEW w, \A x \in s : w[x] \in Nat
    PROVE  /\ Sum(w, s) \in Nat
           /\ \A x \in s : Sum(w, s) = Sum(w, s \ {x}) + w[x]
           /\ \A x \in s : w[x] <= Sum(w, s)
           /\ (\A x \in s : w[x] = 0) => Sum(w, s) = 0
           /\ \A t \in SUBSET s : Sum(w, t) \in Nat
  <1>1. PICK f : IsSum(f, w, s) /\ Sum(w, s) = f[s]
    BY SumIsOne
  <1>2. \A t \in SUBSET s : f[t] = Sum(w, t) /\ f[t] \in Nat
    <2>1. \A t \in SUBSET s : f[t] = Sum(w, t)
      BY <1>1, SumOfPart
    <2>2. QED
      BY <1>1, <2>1 DEF IsSum
  <1>3. Sum(w, s) \in Nat /\ \A t \in SUBSET s : Sum(w, t) \in Nat
    BY <1>1, <1>2
  <1>4. ASSUME NEW x \in s
        PROVE  Sum(w, s) = Sum(w, s \ {x}) + w[x] /\ w[x] <= Sum(w, s)
    <2>1. f[s] = f[s \ {x}] + w[x] /\ s \ {x} \in SUBSET s
      BY <1>1 DEF IsSum
    <2>2. f[s \ {x}] = Sum(w, s \ {x}) /\ f[s \ {x}] \in Nat
      BY <1>2, <2>1
    <2>3. w[x] \in Nat
      OBVIOUS
    <2>4. QED
      BY <1>1, <2>1, <2>2, <2>3
  <1>5. (\A x \in s : w[x] = 0) => Sum(w, s) = 0
    BY <1>1, SumOfNothing
  <1>6. QED
    BY <1>3, <1>4, <1>5

LEMMA SameSum ==
    ASSUME NEW s, IsFiniteSet(s), NEW v, NEW w, \A x \in s : v[x] = w[x] /\ w[x] \in Nat
    PROVE  Sum(v, s) = Sum(w, s)
  <1>1. PICK f : IsSum(f, v, s) /\ Sum(v, s) = f[s]
    BY SumIsOne
  <1>2. PICK g : IsSum(g, w, s) /\ Sum(w, s) = g[s]
    BY SumIsOne
  <1>3. f[s] = g[s]
    BY <1>1, <1>2, SumsAgree
  <1>4. QED
    BY <1>1, <1>2, <1>3

(* One member that comes to weigh something else. *)
LEMMA SumChanges ==
    ASSUME NEW s, IsFiniteSet(s), NEW v, NEW w, \A y \in s : v[y] \in Nat /\ w[y] \in Nat,
           NEW x \in s, \A y \in s : y # x => v[y] = w[y]
    PROVE  Sum(v, s) = Sum(w, s) - w[x] + v[x]
  <1> DEFINE rest == s \ {x}
  <1>1. Sum(v, s) = Sum(v, rest) + v[x] /\ Sum(w, s) = Sum(w, rest) + w[x]
    BY SumFacts
  <1>2. IsFiniteSet(rest) /\ \A y \in rest : v[y] = w[y] /\ w[y] \in Nat
    BY FS_Subset
  <1>3. Sum(v, rest) = Sum(w, rest) /\ Sum(w, rest) \in Nat
    <2> HIDE DEF rest
    <2>1. Sum(v, rest) = Sum(w, rest)
      BY <1>2, SameSum
    <2>2. Sum(w, rest) \in Nat
      BY <1>2, SumFacts
    <2>3. QED
      BY <2>1, <2>2
  <1> HIDE DEF rest
  <1>4. v[x] \in Nat /\ w[x] \in Nat
    OBVIOUS
  <1>5. QED
    BY <1>1, <1>3, <1>4

-----------------------------------------------------------------------------
(* What the parts of each item weigh, and what a drawing's do together.     *)
Held(ps) == [item \in Items |-> BytesOf(ps[item])]

Totals(ps, s) == MapThenSumSet(LAMBDA item : BytesOf(ps[item]), s)

StagedItems == {item \in Items : IsStaged(item)}
PendingItems == {item \in Items : IsPending(item)}
PictureItems == {Picture(pid) : pid \in Pids}

LEMMA ItemsAreFinite ==
    /\ IsFiniteSet(Items) /\ IsFiniteSet(StagedItems) /\ IsFiniteSet(PendingItems)
    /\ IsFiniteSet(PictureItems) /\ IsFiniteSet(Pids)
  <1>1. IsFiniteSet(Sids) /\ IsFiniteSet(Pids) /\ IsFiniteSet(Uids)
    BY OnlineStoreAssumption
  <1>2. IsFiniteSet({Staged(sid) : sid \in Sids})
    <2> DEFINE img == {Staged(sid) : sid \in Sids}
               f == [sid \in Sids |-> Staged(sid)]
    <2>1. f \in Surjection(Sids, img)
      BY DEF Surjection
    <2> HIDE DEF f, img
    <2>2. IsFiniteSet(img)
      BY <1>1, <2>1, FS_Surjection
    <2>3. QED
      BY <2>2 DEF img
  <1>3. IsFiniteSet(PictureItems)
    <2> DEFINE f == [pid \in Pids |-> Picture(pid)]
    <2>1. f \in Surjection(Pids, PictureItems)
      BY DEF Surjection, PictureItems
    <2> HIDE DEF f
    <2>2. QED
      BY <1>1, <2>1, FS_Surjection
  <1>4. IsFiniteSet({Pending(pid, uid) : pid \in Pids, uid \in Uids})
    <2> DEFINE img == {Pending(pid, uid) : pid \in Pids, uid \in Uids}
               both == Pids \X Uids
               f == [b \in both |-> Pending(b[1], b[2])]
    <2>1. f \in Surjection(both, img)
      <3>1. f \in [both -> img]
        OBVIOUS
      <3>2. ASSUME NEW item \in img PROVE \E b \in both : f[b] = item
        <4>1. PICK pid \in Pids, uid \in Uids : item = Pending(pid, uid)
          OBVIOUS
        <4>2. <<pid, uid>> \in both /\ f[<<pid, uid>>] = item
          BY <4>1
        <4>3. QED
          BY <4>2
      <3>3. QED
        BY <3>1, <3>2 DEF Surjection
    <2>2. IsFiniteSet(both)
      BY <1>1, FS_Product
    <2> HIDE DEF f, img, both
    <2>3. IsFiniteSet(img)
      BY <2>1, <2>2, FS_Surjection
    <2>4. QED
      BY <2>3 DEF img
  <1>5. IsFiniteSet({Scene})
    BY FS_Singleton
  <1>6. IsFiniteSet(Items)
    <2> DEFINE a == {Staged(sid) : sid \in Sids}
               b == {Pending(pid, uid) : pid \in Pids, uid \in Uids}
    <2>1. Items = (({Scene} \cup a) \cup PictureItems) \cup b
      BY DEF Items, PictureItems
    <2> HIDE DEF a, b
    <2>2. IsFiniteSet(a) /\ IsFiniteSet(b)
      BY <1>2, <1>4 DEF a, b
    <2>3. IsFiniteSet({Scene} \cup a)
      BY <1>5, <2>2, FS_Union
    <2>4. IsFiniteSet(({Scene} \cup a) \cup PictureItems)
      BY <1>3, <2>3, FS_Union
    <2>5. IsFiniteSet((({Scene} \cup a) \cup PictureItems) \cup b)
      BY <2>2, <2>4, FS_Union
    <2>6. QED
      BY <2>1, <2>5
  <1>7. IsFiniteSet(StagedItems) /\ IsFiniteSet(PendingItems)
    BY <1>6, FS_Subset DEF StagedItems, PendingItems
  <1>8. QED
    BY <1>1, <1>3, <1>6, <1>7

LEMMA HeldType ==
    ASSUME NEW ps \in [Items -> Seq(Part)]
    PROVE  \A item \in Items : Held(ps)[item] \in Nat /\ Held(ps)[item] = BytesOf(ps[item])
  <1>1. ASSUME NEW item \in Items PROVE BytesOf(ps[item]) \in Nat
    <2> DEFINE list == ps[item]
    <2>1. list \in Seq(Part)
      OBVIOUS
    <2> HIDE DEF list
    <2>2. PICK f : IsSum(f, Weights(list), DOMAIN list) /\ BytesOf(list) = f[DOMAIN list]
      BY <2>1, BytesIsSum
    <2> DEFINE s == DOMAIN list
    <2>3. f \in [SUBSET s -> Nat] /\ s \in SUBSET s /\ BytesOf(list) = f[s]
      BY <2>2 DEF IsSum
    <2> HIDE DEF s
    <2>4. BytesOf(list) \in Nat
      BY <2>3
    <2>5. QED
      BY <2>4 DEF list
  <1>2. QED
    BY <1>1 DEF Held

Some(s) == CHOOSE x \in s : TRUE

LEMMA TotalsFold ==
    ASSUME NEW ps, NEW S, NEW f,
           f = [s \in SUBSET S |->
                   IF s = {} THEN 0
                   ELSE BytesOf(ps[Some(s)]) + f[s \ {Some(s)}]]
    PROVE  \E g : /\ g = [s \in SUBSET S |->
                              IF s = {} THEN 0
                              ELSE BytesOf(ps[Some(s)])
                                     + g[s \ {Some(s)}]]
                  /\ Totals(ps, S) = g[S]
  BY DEF Some, Totals, MapThenSumSet, MapThenFoldSet

LEMMA TotalsAreSums ==
    ASSUME NEW ps \in [Items -> Seq(Part)], NEW S \in SUBSET Items
    PROVE  Totals(ps, S) = Sum(Held(ps), S)
  <1> DEFINE w == Held(ps)
             c == [s \in SUBSET S |-> Some(s)]
  <1>1. IsFiniteSet(S) /\ \A x \in S : w[x] \in Nat /\ w[x] = BytesOf(ps[x])
    BY ItemsAreFinite, HeldType, FS_Subset
  <1>2. \A s \in SUBSET S : s # {} => c[s] \in s /\ c[s] = Some(s)
    BY DEF Some
  <1>3. \A s \in SUBSET S : s # {} => w[c[s]] = BytesOf(ps[Some(s)])
    BY <1>1, <1>2
  <1> HIDE DEF w, c
  <1>4. PICK f : Adds(f, w, c, S) /\ AddsLast(f, w, c, S)
    <2>1. \A s \in SUBSET S : s # {} => c[s] \in s
      BY <1>2
    <2>2. IsFiniteSet(S) /\ \A x \in S : w[x] \in Nat
      BY <1>1
    <2>3. QED
      BY <2>1, <2>2, SumExists
  <1>5. f = [s \in SUBSET S |->
                IF s = {} THEN 0
                ELSE BytesOf(ps[Some(s)]) + f[s \ {Some(s)}]]
    BY <1>2, <1>3, <1>4 DEF Adds
  <1>6. PICK g : /\ g = [s \in SUBSET S |->
                             IF s = {} THEN 0
                             ELSE BytesOf(ps[Some(s)])
                                    + g[s \ {Some(s)}]]
                 /\ Totals(ps, S) = g[S]
    BY <1>5, TotalsFold
  <1>7. /\ g = [s \in SUBSET S |-> g[s]] /\ g[{}] = 0
        /\ \A s \in SUBSET S : s # {} => g[s] = w[c[s]] + g[s \ {c[s]}]
    BY <1>2, <1>3, <1>6
  <1>8. AddsUp(g, w, c, S)
    BY <1>7 DEF AddsUp
  <1>9. IsSum(g, w, S)
    BY <1>1, <1>2, <1>8, AddsUpIsSum
  <1>10. g[S] = Sum(w, S)
    BY <1>1, <1>9, SumOfPart
  <1>11. QED
    BY <1>6, <1>10 DEF w

(* The counters, as sums. *)
Matches(h, ps) ==
    /\ h.bytes = Held(ps)[Scene] + Sum(Held(ps), StagedItems) + Sum(Held(ps), PendingItems)
                   + Sum(Held(ps), PictureItems)
    /\ h.sceneBytes = Held(ps)[Scene]
    /\ h.stagedBytes = Sum(Held(ps), StagedItems)
    /\ h.pendingBytes = Sum(Held(ps), PendingItems)
    /\ h.pictures = Cardinality({pid \in Pids : ps[Picture(pid)] # <<>>})

LEMMA ItemsApart ==
    /\ Items = ({Scene} \cup StagedItems) \cup (PendingItems \cup PictureItems)
    /\ ({Scene} \cup StagedItems) \cap (PendingItems \cup PictureItems) = {}
    /\ {Scene} \cap StagedItems = {} /\ PendingItems \cap PictureItems = {}
  BY DEF Items, StagedItems, PendingItems, PictureItems, Scene, Staged, Picture, Pending,
         IsStaged, IsPending

LEMMA WholeSum ==
    ASSUME NEW ps \in [Items -> Seq(Part)]
    PROVE  LET w == Held(ps)
           IN  /\ Sum(w, Items) = w[Scene] + Sum(w, StagedItems) + Sum(w, PendingItems)
                                    + Sum(w, PictureItems)
               /\ w[Scene] \in Nat /\ Sum(w, StagedItems) \in Nat
               /\ Sum(w, PendingItems) \in Nat /\ Sum(w, PictureItems) \in Nat
  <1> DEFINE w == Held(ps)
             left == {Scene} \cup StagedItems
             right == PendingItems \cup PictureItems
  <1>1. /\ IsFiniteSet(Items) /\ \A x \in Items : w[x] \in Nat
        /\ Scene \in Items
    BY ItemsAreFinite, HeldType, ItemFacts
  <1>2. /\ Items = left \cup right /\ left \cap right = {}
        /\ {Scene} \cap StagedItems = {} /\ PendingItems \cap PictureItems = {}
    BY ItemsApart
  <1>3. /\ left \in SUBSET Items /\ right \in SUBSET Items /\ StagedItems \in SUBSET Items
        /\ PendingItems \in SUBSET Items /\ PictureItems \in SUBSET Items
        /\ {Scene} \in SUBSET Items
    BY <1>2
  <1> HIDE DEF w
  <1>4. /\ Sum(w, left) \in Nat /\ Sum(w, right) \in Nat /\ Sum(w, {Scene}) \in Nat
        /\ Sum(w, StagedItems) \in Nat /\ Sum(w, PendingItems) \in Nat
        /\ Sum(w, PictureItems) \in Nat
    BY <1>1, <1>3, SumFacts
  <1>5. Sum(w, {Scene}) = w[Scene]
    <2>1. IsFiniteSet({Scene}) /\ IsFiniteSet({})
      BY FS_Singleton, FS_EmptySet
    <2>2. Sum(w, {Scene}) = Sum(w, {Scene} \ {Scene}) + w[Scene]
      BY <1>1, <2>1, SumFacts
    <2>3. Sum(w, {}) = 0
      BY <2>1, SumFacts
    <2>4. {Scene} \ {Scene} = {}
      OBVIOUS
    <2>5. Sum(w, {Scene} \ {Scene}) = 0
      BY <2>3, <2>4, Zenon
    <2>6. w[Scene] \in Nat
      BY <1>1
    <2>7. QED
      BY <2>2, <2>5, <2>6
  <1>6. IsFiniteSet(left) /\ IsFiniteSet(right)
    BY <1>1, <1>3, FS_Subset
  <1> HIDE DEF left, right
  <1>7. Sum(w, Items) = Sum(w, left) + Sum(w, right)
    <2>1. \A x \in left \cup right : w[x] \in Nat
      BY <1>1, <1>2
    <2>2. Sum(w, left \cup right) = Sum(w, left) + Sum(w, right)
      BY <1>2, <1>6, <2>1, SumOfTwo
    <2>3. QED
      BY <1>2, <2>2, Zenon
  <1>8. \A x \in left : w[x] \in Nat
    BY <1>1, <1>3
  <1>9. Sum(w, left) = Sum(w, {Scene}) + Sum(w, StagedItems)
    BY <1>1, <1>2, <1>3, <1>8, FS_Subset, SumOfTwo DEF left
  <1>10. \A x \in right : w[x] \in Nat
    BY <1>1, <1>3
  <1>11. Sum(w, right) = Sum(w, PendingItems) + Sum(w, PictureItems)
    BY <1>1, <1>2, <1>3, <1>10, FS_Subset, SumOfTwo DEF right
  <1>12. w[Scene] \in Nat
    BY <1>1
  <1>13. Sum(w, Items) = w[Scene] + Sum(w, StagedItems) + Sum(w, PendingItems)
                            + Sum(w, PictureItems)
    BY <1>4, <1>5, <1>7, <1>9, <1>11, <1>12
  <1>14. QED
    BY <1>4, <1>12, <1>13 DEF w

LEMMA MatchesTotals ==
    ASSUME NEW h, NEW ps \in [Items -> Seq(Part)]
    PROVE  Matches(h, ps) <=>
               /\ h.bytes = Totals(ps, {i \in Items : TRUE})
               /\ h.sceneBytes = BytesOf(ps[Scene])
               /\ h.stagedBytes = Totals(ps, {i \in Items : IsStaged(i)})
               /\ h.pendingBytes = Totals(ps, {i \in Items : IsPending(i)})
               /\ h.pictures = Cardinality({pid \in Pids : ps[Picture(pid)] # <<>>})
  <1>1. /\ {i \in Items : TRUE} = Items
        /\ {i \in Items : IsStaged(i)} = StagedItems
        /\ {i \in Items : IsPending(i)} = PendingItems
    BY DEF StagedItems, PendingItems
  <1>2. /\ StagedItems \in SUBSET Items /\ PendingItems \in SUBSET Items
    BY DEF StagedItems, PendingItems
  <1>3. /\ Totals(ps, Items) = Sum(Held(ps), Items)
        /\ Totals(ps, StagedItems) = Sum(Held(ps), StagedItems)
        /\ Totals(ps, PendingItems) = Sum(Held(ps), PendingItems)
    BY <1>2, TotalsAreSums
  <1>4. Held(ps)[Scene] = BytesOf(ps[Scene])
    BY HeldType, ItemFacts
  <1>5. QED
    BY <1>1, <1>3, <1>4, WholeSum DEF Matches

LEMMA CountersAreSums ==
    ASSUME parts \in [Items -> Seq(Part)]
    PROVE  CountersMatch <=> Matches(head, parts)
  <1>1. CountersMatch <=>
               /\ head.bytes = Totals(parts, {i \in Items : TRUE})
               /\ head.sceneBytes = BytesOf(parts[Scene])
               /\ head.stagedBytes = Totals(parts, {i \in Items : IsStaged(i)})
               /\ head.pendingBytes = Totals(parts, {i \in Items : IsPending(i)})
               /\ head.pictures = Cardinality({pid \in Pids : parts[Picture(pid)] # <<>>})
    BY Zenon DEF CountersMatch, Total, Totals
  <1>2. QED
    BY <1>1, MatchesTotals

-----------------------------------------------------------------------------
(* What matches is made of naturals, and of no more than there is. *)
LEMMA MatchesType ==
    ASSUME NEW h, NEW ps \in [Items -> Seq(Part)], Matches(h, ps)
    PROVE  /\ h.bytes \in Nat /\ h.sceneBytes \in Nat /\ h.stagedBytes \in Nat
           /\ h.pendingBytes \in Nat /\ h.pictures \in Nat
           /\ PicturesIn(h) = h.pendingBytes + Sum(Held(ps), PictureItems)
           /\ Sum(Held(ps), PictureItems) \in Nat
           /\ \A item \in Items : IsStaged(item) => BytesOf(ps[item]) <= h.stagedBytes
  <1> DEFINE w == Held(ps)
             shown == {pid \in Pids : ps[Picture(pid)] # <<>>}
  <1>1. /\ w[Scene] \in Nat /\ Sum(w, StagedItems) \in Nat /\ Sum(w, PendingItems) \in Nat
        /\ Sum(w, PictureItems) \in Nat
    BY WholeSum
  <1>2. Cardinality(shown) \in Nat
    BY ItemsAreFinite, FS_Subset, FS_CardinalityType
  <1>3. ASSUME NEW item \in Items, IsStaged(item)
        PROVE  BytesOf(ps[item]) <= h.stagedBytes
    <2>1. item \in StagedItems /\ \A i \in StagedItems : w[i] \in Nat
      BY <1>3, HeldType DEF StagedItems
    <2>2. w[item] <= Sum(w, StagedItems)
      BY <2>1, ItemsAreFinite, SumFacts
    <2>3. w[item] = BytesOf(ps[item])
      BY HeldType
    <2>4. QED
      BY <2>2, <2>3 DEF Matches
  <1>4. /\ h.bytes = w[Scene] + Sum(w, StagedItems) + Sum(w, PendingItems) + Sum(w, PictureItems)
        /\ h.sceneBytes = w[Scene] /\ h.stagedBytes = Sum(w, StagedItems)
        /\ h.pendingBytes = Sum(w, PendingItems) /\ h.pictures = Cardinality(shown)
    BY DEF Matches
  <1>5. PicturesIn(h) = h.bytes - h.sceneBytes - h.stagedBytes
    BY DEF PicturesIn
  <1> HIDE DEF w, shown
  <1>6. PicturesIn(h) = h.pendingBytes + Sum(w, PictureItems)
    BY <1>1, <1>4, <1>5
  <1>7. QED
    BY <1>1, <1>2, <1>3, <1>4, <1>6 DEF w

LEMMA NothingMatches == Matches(NoHead, NoParts) /\ NoParts \in [Items -> Seq(Part)]
  <1> DEFINE w == Held(NoParts)
  <1>1. NoParts \in [Items -> Seq(Part)] /\ \A item \in Items : NoParts[item] = <<>>
    BY DEF NoParts
  <1>3. \A item \in Items : w[item] = 0
    BY <1>1, NoBytes, HeldType
  <1> HIDE DEF w
  <1>4. Sum(w, StagedItems) = 0 /\ Sum(w, PendingItems) = 0 /\ Sum(w, PictureItems) = 0
    <2>1. /\ StagedItems \subseteq Items /\ PendingItems \subseteq Items
          /\ PictureItems \subseteq Items
      BY ItemsApart
    <2>2. /\ \A item \in StagedItems : w[item] = 0 /\ w[item] \in Nat
          /\ \A item \in PendingItems : w[item] = 0 /\ w[item] \in Nat
          /\ \A item \in PictureItems : w[item] = 0 /\ w[item] \in Nat
      BY <1>3, <2>1
    <2>3. Sum(w, StagedItems) = 0
      BY <2>2, ItemsAreFinite, SumFacts
    <2>4. Sum(w, PendingItems) = 0
      BY <2>2, ItemsAreFinite, SumFacts
    <2>5. Sum(w, PictureItems) = 0
      BY <2>2, ItemsAreFinite, SumFacts
    <2>6. QED
      BY <2>3, <2>4, <2>5
  <1>5. {pid \in Pids : NoParts[Picture(pid)] # <<>>} = {}
    BY <1>1, ItemFacts
  <1>6. w[Scene] = 0
    BY <1>3, ItemFacts
  <1>7. QED
    <2>1. Cardinality({pid \in Pids : NoParts[Picture(pid)] # <<>>}) = 0
      BY <1>5, FS_EmptySet, Zenon
    <2>2. /\ NoHead.bytes = 0 /\ NoHead.sceneBytes = 0 /\ NoHead.stagedBytes = 0
          /\ NoHead.pendingBytes = 0 /\ NoHead.pictures = 0
      BY DEF NoHead
    <2>3. Matches(NoHead, NoParts)
      BY <1>4, <1>6, <2>1, <2>2 DEF Matches, w
    <2>4. QED
      BY <1>1, <2>3

(* The head once idle uploads no longer count. *)
LEMMA SettledNumbers ==
    ASSUME NEW h, IsHead(h), NEW t
    PROVE  LET was == Settled(h, t)
           IN  /\ was.stagedBytes = IF StagedIdle(h, t) THEN 0 ELSE h.stagedBytes
               /\ was.pendingBytes = IF PendingIdle(h, t) THEN 0 ELSE h.pendingBytes
               /\ was.bytes = h.bytes - (h.stagedBytes - was.stagedBytes)
                                - (h.pendingBytes - was.pendingBytes)
               /\ was.sceneBytes = h.sceneBytes /\ was.pictures = h.pictures
               /\ DOMAIN was = DOMAIN NoHead
  <1> DEFINE staged == IF StagedIdle(h, t) THEN 0 ELSE h.stagedBytes
             pending == IF PendingIdle(h, t) THEN 0 ELSE h.pendingBytes
             bytes == h.bytes - (h.stagedBytes - staged) - (h.pendingBytes - pending)
             was == Settled(h, t)
  <1>1. was = [h EXCEPT !.bytes = bytes, !.stagedBytes = staged, !.pendingBytes = pending]
    BY DEF Settled
  <1>2. DOMAIN h = DOMAIN NoHead
    BY DEF IsHead
  <1>3. bytes = h.bytes - (h.stagedBytes - staged) - (h.pendingBytes - pending)
    OBVIOUS
  <1>4. /\ staged = IF StagedIdle(h, t) THEN 0 ELSE h.stagedBytes
        /\ pending = IF PendingIdle(h, t) THEN 0 ELSE h.pendingBytes
    OBVIOUS
  <1> HIDE DEF bytes, pending, staged, was
  <1>5. /\ DOMAIN was = DOMAIN h /\ was.sceneBytes = h.sceneBytes /\ was.pictures = h.pictures
        /\ was.stagedBytes = staged /\ was.pendingBytes = pending /\ was.bytes = bytes
    BY <1>1, <1>2, Columns
  <1>6. QED
    BY <1>2, <1>3, <1>4, <1>5 DEF was

LEMMA KeptType ==
    ASSUME NEW ps \in [Items -> Seq(Part)], NEW h, NEW t
    PROVE  /\ Kept(ps, h, t) \in [Items -> Seq(Part)]
           /\ \A item \in Items :
                 Held(Kept(ps, h, t))[item] = IF Gone(item, h, t) THEN 0 ELSE Held(ps)[item]
  <1> DEFINE kept == Kept(ps, h, t)
  <1>1. \A item \in Items : kept[item] = IF Gone(item, h, t) THEN <<>> ELSE ps[item]
    BY DEF Kept
  <1>2. <<>> \in Seq(Part)
    OBVIOUS
  <1>3. \A item \in Items : kept[item] \in Seq(Part)
    <2> HIDE DEF kept
    <2>1. QED
      BY <1>1, <1>2
  <1>4. kept = [item \in Items |-> kept[item]]
    BY DEF Kept
  <1> HIDE DEF kept
  <1>5. kept \in [Items -> Seq(Part)]
    BY <1>3, <1>4
  <1>7. ASSUME NEW item \in Items
        PROVE  Held(kept)[item] = IF Gone(item, h, t) THEN 0 ELSE Held(ps)[item]
    <2>1. Held(kept)[item] = BytesOf(kept[item]) /\ Held(ps)[item] = BytesOf(ps[item])
      BY <1>5, HeldType
    <2>2. QED
      BY <1>1, NoBytes, <2>1
  <1>8. QED
    BY <1>5, <1>7 DEF kept

(* ... matches the parts that have not idled away. *)
LEMMA SettledMatches ==
    ASSUME NEW h, IsHead(h), NEW t, NEW ps \in [Items -> Seq(Part)], Matches(h, ps)
    PROVE  Matches(Settled(h, t), Kept(ps, h, t))
  <1> DEFINE was == Settled(h, t)
             kept == Kept(ps, h, t)
             w == Held(ps)
             v == Held(kept)
             shown == {pid \in Pids : ps[Picture(pid)] # <<>>}
             left == {pid \in Pids : kept[Picture(pid)] # <<>>}
  <1>1. /\ was.stagedBytes = IF StagedIdle(h, t) THEN 0 ELSE h.stagedBytes
        /\ was.pendingBytes = IF PendingIdle(h, t) THEN 0 ELSE h.pendingBytes
        /\ was.bytes = h.bytes - (h.stagedBytes - was.stagedBytes)
                         - (h.pendingBytes - was.pendingBytes)
        /\ was.sceneBytes = h.sceneBytes /\ was.pictures = h.pictures
    BY SettledNumbers
  <1>2. /\ kept \in [Items -> Seq(Part)]
        /\ \A item \in Items : v[item] = IF Gone(item, h, t) THEN 0 ELSE w[item]
        /\ \A item \in Items : w[item] \in Nat
    BY KeptType, HeldType
  <1>3. /\ \A item \in StagedItems : Gone(item, h, t) <=> StagedIdle(h, t)
        /\ \A item \in PendingItems : Gone(item, h, t) <=> PendingIdle(h, t)
        /\ \A item \in PictureItems : ~Gone(item, h, t)
        /\ ~Gone(Scene, h, t)
    BY DEF Gone, StagedItems, PendingItems, PictureItems, IsStaged, IsPending, Picture, Scene
  <1>4. /\ StagedItems \subseteq Items /\ PendingItems \subseteq Items
        /\ PictureItems \subseteq Items /\ Scene \in Items
    BY ItemsApart
  <1>5. left = shown
    <2>1. \A pid \in Pids : kept[Picture(pid)] = ps[Picture(pid)]
      BY <1>3, ItemFacts DEF Kept, PictureItems
    <2>2. QED
      BY <2>1
  <1> HIDE DEF v, w, kept, was
  <1>6. Sum(v, StagedItems) = IF StagedIdle(h, t) THEN 0 ELSE Sum(w, StagedItems)
    <2>1. CASE StagedIdle(h, t)
      <3>1. \A item \in StagedItems : v[item] = 0
        BY <1>2, <1>3, <1>4, <2>1
      <3>2. QED
        BY <2>1, <3>1, ItemsAreFinite, SumFacts
    <2>2. CASE ~StagedIdle(h, t)
      <3>1. \A item \in StagedItems : v[item] = w[item] /\ w[item] \in Nat
        BY <1>2, <1>3, <1>4, <2>2
      <3>2. QED
        BY <2>2, <3>1, ItemsAreFinite, SameSum
    <2>3. QED
      BY <2>1, <2>2
  <1>7. Sum(v, PendingItems) = IF PendingIdle(h, t) THEN 0 ELSE Sum(w, PendingItems)
    <2>1. CASE PendingIdle(h, t)
      <3>1. \A item \in PendingItems : v[item] = 0
        BY <1>2, <1>3, <1>4, <2>1
      <3>2. QED
        BY <2>1, <3>1, ItemsAreFinite, SumFacts
    <2>2. CASE ~PendingIdle(h, t)
      <3>1. \A item \in PendingItems : v[item] = w[item] /\ w[item] \in Nat
        BY <1>2, <1>3, <1>4, <2>2
      <3>2. QED
        BY <2>2, <3>1, ItemsAreFinite, SameSum
    <2>3. QED
      BY <2>1, <2>2
  <1>8. Sum(v, PictureItems) = Sum(w, PictureItems)
    <2>1. \A item \in PictureItems : v[item] = w[item] /\ w[item] \in Nat
      BY <1>2, <1>3, <1>4
    <2>2. QED
      BY <2>1, ItemsAreFinite, SameSum
  <1>9. v[Scene] = w[Scene]
    BY <1>2, <1>3, <1>4
  <1>10. /\ h.bytes = w[Scene] + Sum(w, StagedItems) + Sum(w, PendingItems) + Sum(w, PictureItems)
         /\ h.sceneBytes = w[Scene] /\ h.stagedBytes = Sum(w, StagedItems)
         /\ h.pendingBytes = Sum(w, PendingItems) /\ h.pictures = Cardinality(shown)
    BY DEF Matches, w
  <1>11. /\ w[Scene] \in Nat /\ Sum(w, StagedItems) \in Nat /\ Sum(w, PendingItems) \in Nat
         /\ Sum(w, PictureItems) \in Nat
    BY WholeSum DEF w
  <1>12. was.stagedBytes = Sum(v, StagedItems) /\ was.pendingBytes = Sum(v, PendingItems)
    BY <1>1, <1>6, <1>7, <1>10
  <1>13. /\ Sum(v, StagedItems) \in Nat /\ Sum(v, PendingItems) \in Nat
    BY <1>6, <1>7, <1>11
  <1>14. was.bytes = v[Scene] + Sum(v, StagedItems) + Sum(v, PendingItems) + Sum(v, PictureItems)
    <2> DEFINE s == Sum(w, StagedItems)
               p == Sum(w, PendingItems)
               i == Sum(w, PictureItems)
               c == w[Scene]
               sv == Sum(v, StagedItems)
               pv == Sum(v, PendingItems)
    <2>1. /\ s \in Nat /\ p \in Nat /\ i \in Nat /\ c \in Nat /\ sv \in Nat /\ pv \in Nat
          /\ h.bytes = c + s + p + i /\ h.stagedBytes = s /\ h.pendingBytes = p
          /\ was.stagedBytes = sv /\ was.pendingBytes = pv
      BY <1>10, <1>11, <1>12, <1>13
    <2>2. was.bytes = h.bytes - (h.stagedBytes - was.stagedBytes)
                         - (h.pendingBytes - was.pendingBytes)
      BY <1>1
    <2> HIDE DEF s, p, i, c, sv, pv
    <2>3. was.bytes = (c + s + p + i) - (s - sv) - (p - pv)
      BY <2>1, <2>2, Zenon
    <2>4. was.bytes = c + sv + pv + i
      BY <2>1, <2>3
    <2>5. QED
      BY <1>8, <1>9, <2>4 DEF c, sv, pv, i
  <1>15. was.pictures = Cardinality(left)
    BY <1>1, <1>5, <1>10
  <1>16. was.sceneBytes = v[Scene]
    BY <1>1, <1>9, <1>10
  <1>17. Matches(was, kept)
    BY <1>12, <1>14, <1>15, <1>16 DEF Matches, v
  <1>18. QED
    BY <1>17 DEF was, kept

(* The numbers a write leaves. *)
LEMMA PlannedNumbers ==
    ASSUME NEW o \in Operations, NEW was, DOMAIN was = DOMAIN NoHead, NEW item, NEW t
    PROVE  LET plan == Planned(o, was, item, t)
               size == Size(o, item)
           IN  /\ plan.bytes = IF Publishes(o) THEN PicturesIn(was) + size ELSE was.bytes + size
               /\ plan.sceneBytes = IF Publishes(o) THEN size ELSE was.sceneBytes
               /\ plan.stagedBytes = IF Publishes(o) THEN 0
                                     ELSE IF o.kind = "staged" THEN was.stagedBytes + size
                                     ELSE was.stagedBytes
               /\ plan.pictures = IF o.kind = "picture" \/ Completes(o) THEN was.pictures + 1
                                  ELSE was.pictures
               /\ plan.pendingBytes = IF Completes(o) THEN was.pendingBytes - item.bytes
                                      ELSE IF o.kind = "upload" THEN was.pendingBytes + size
                                      ELSE was.pendingBytes
               /\ DOMAIN plan = DOMAIN NoHead
  <1> DEFINE size == Size(o, item)
             pics == PicturesIn(was) + size
             more == was.bytes + size
             plan == Planned(o, was, item, t)
  <1>a. size = Size(o, item) /\ pics = PicturesIn(was) + size /\ more = was.bytes + size
    OBVIOUS
  <1>1. o.kind \in {"scene", "staged", "commit", "picture", "upload"}
    BY OperationFacts
  <1>2. CASE o.kind \in {"scene", "commit"}
    <2> DEFINE rev == was.rev + 1
    <2>1. plan = [was EXCEPT !.rev = rev, !.bytes = pics, !.sceneBytes = size,
                             !.stagedBytes = 0, !.stagedAt = 0]
      BY <1>2 DEF Planned
    <2> HIDE DEF rev, pics, size, more, plan
    <2>2. /\ plan.bytes = pics /\ plan.sceneBytes = size /\ plan.stagedBytes = 0
          /\ plan.pictures = was.pictures /\ plan.pendingBytes = was.pendingBytes
          /\ DOMAIN plan = DOMAIN NoHead
      BY <2>1, Columns
    <2>3. QED
      BY <1>a, <1>2, <2>2 DEF Publishes, Completes, plan, size
  <1>3. CASE o.kind = "staged"
    <2> DEFINE staged == was.stagedBytes + size
    <2>1. plan = [was EXCEPT !.bytes = more, !.stagedBytes = staged, !.stagedAt = t]
      BY <1>3 DEF Planned
    <2>a. staged = was.stagedBytes + size
      OBVIOUS
    <2> HIDE DEF staged, pics, size, more, plan
    <2>2. /\ plan.bytes = more /\ plan.sceneBytes = was.sceneBytes /\ plan.stagedBytes = staged
          /\ plan.pictures = was.pictures /\ plan.pendingBytes = was.pendingBytes
          /\ DOMAIN plan = DOMAIN NoHead
      BY <2>1, Columns
    <2>3. QED
      BY <1>a, <1>3, <2>a, <2>2 DEF Publishes, Completes, plan, size
  <1>4. CASE o.kind = "picture"
    <2> DEFINE pictures == was.pictures + 1
    <2>1. plan = [was EXCEPT !.bytes = more, !.pictures = pictures]
      BY <1>4 DEF Planned
    <2>a. pictures = was.pictures + 1
      OBVIOUS
    <2> HIDE DEF pictures, pics, size, more, plan
    <2>2. /\ plan.bytes = more /\ plan.sceneBytes = was.sceneBytes
          /\ plan.stagedBytes = was.stagedBytes
          /\ plan.pictures = pictures /\ plan.pendingBytes = was.pendingBytes
          /\ DOMAIN plan = DOMAIN NoHead
      BY <2>1, Columns
    <2>3. QED
      BY <1>a, <1>4, <2>a, <2>2 DEF Publishes, Completes, plan, size
  <1>5. CASE o.kind = "upload" /\ o.n # o.total - 1
    <2> DEFINE pending == was.pendingBytes + size
    <2>1. plan = [was EXCEPT !.bytes = more, !.pendingBytes = pending, !.pendingAt = t]
      BY <1>5 DEF Planned
    <2>a. pending = was.pendingBytes + size
      OBVIOUS
    <2> HIDE DEF pending, pics, size, more, plan
    <2>2. /\ plan.bytes = more /\ plan.sceneBytes = was.sceneBytes
          /\ plan.stagedBytes = was.stagedBytes
          /\ plan.pictures = was.pictures /\ plan.pendingBytes = pending
          /\ DOMAIN plan = DOMAIN NoHead
      BY <2>1, Columns
    <2>3. QED
      BY <1>a, <1>5, <2>a, <2>2 DEF Publishes, Completes, plan, size
  <1>6. CASE o.kind = "upload" /\ o.n = o.total - 1
    <2> DEFINE pending == was.pendingBytes - item.bytes
               pictures == was.pictures + 1
    <2>1. plan = [was EXCEPT !.bytes = more, !.pictures = pictures, !.pendingBytes = pending,
                             !.pendingAt = t]
      BY <1>6 DEF Planned
    <2>a. pending = was.pendingBytes - item.bytes /\ pictures = was.pictures + 1
      OBVIOUS
    <2> HIDE DEF pending, pictures, pics, size, more, plan
    <2>2. /\ plan.bytes = more /\ plan.sceneBytes = was.sceneBytes
          /\ plan.stagedBytes = was.stagedBytes
          /\ plan.pictures = pictures /\ plan.pendingBytes = pending
          /\ DOMAIN plan = DOMAIN NoHead
      BY <2>1, Columns
    <2>3. QED
      BY <1>a, <1>6, <2>a, <2>2 DEF Publishes, Completes, plan, size
  <1>7. QED
    BY <1>1, <1>2, <1>3, <1>4, <1>5, <1>6

-----------------------------------------------------------------------------
(* A write "o" of a drawing whose parts are "kept" and whose counters match *)
(* them; "item" is what it had found.                                       *)
Lands(o, was, kept, item, next) ==
    /\ o \in Operations
    /\ kept \in [Items -> Seq(Part)] /\ next \in [Items -> Seq(Part)]
    /\ DOMAIN was = DOMAIN NoHead /\ Matches(was, kept)
    /\ \A i \in Items : next[i] = LandsAs(o, kept, i)
    /\ o.kind = "picture" => kept[o.item] = <<>>
    /\ o.kind = "upload" => kept[PictureOf(o)] = <<>>
    /\ o.kind = "commit" \/ Completes(o) => item.bytes = BytesOf(kept[o.item])

(* What each item weighs after it. *)
LEMMA LandsWeighs ==
    ASSUME NEW o, NEW was, NEW kept, NEW item, NEW next, Lands(o, was, kept, item, next)
    PROVE  LET w == Held(kept)
               v == Held(next)
               size == Size(o, item)
           IN  /\ size \in Nat
               /\ \A i \in Items : w[i] \in Nat /\ v[i] \in Nat
               /\ Publishes(o) => /\ v[Scene] = size
                                  /\ \A i \in Items : IsStaged(i) => v[i] = 0
                                  /\ \A i \in Items : i # Scene /\ ~IsStaged(i) => v[i] = w[i]
               /\ o.kind = "picture" => /\ v[o.item] = size /\ w[o.item] = 0
                                        /\ \A i \in Items : i # o.item => v[i] = w[i]
               /\ Completes(o) =>
                      /\ v[PictureOf(o)] = w[o.item] + size /\ w[PictureOf(o)] = 0
                      /\ v[o.item] = 0
                      /\ \A i \in Items : i # o.item /\ i # PictureOf(o) => v[i] = w[i]
               /\ o.kind \in {"staged", "upload"} /\ ~Completes(o) =>
                      /\ v[o.item] = w[o.item] + size
                      /\ \A i \in Items : i # o.item => v[i] = w[i]
  <1> DEFINE w == Held(kept)
             v == Held(next)
             size == Size(o, item)
             part == PartOf(o)
  <1>1. /\ o \in Operations /\ kept \in [Items -> Seq(Part)] /\ next \in [Items -> Seq(Part)]
        /\ \A i \in Items : next[i] = LandsAs(o, kept, i)
        /\ o.kind = "picture" => kept[o.item] = <<>>
        /\ o.kind = "upload" => kept[PictureOf(o)] = <<>>
        /\ o.kind = "commit" \/ Completes(o) => item.bytes = BytesOf(kept[o.item])
    BY DEF Lands
  <1>2. /\ o.kind \in {"scene", "staged", "commit", "picture", "upload"}
        /\ o.item \in Items
        /\ o.kind = "scene" => o.item = Scene
        /\ o.kind \in {"staged", "commit"} => IsStaged(o.item)
        /\ o.kind = "upload" => IsPending(o.item)
        /\ o.kind \in {"picture", "upload"} =>
               PictureOf(o) \in Items /\ ~IsStaged(PictureOf(o)) /\ ~IsPending(PictureOf(o))
        /\ part \in Part
    BY <1>1, OperationFacts DEF Part, PartOf
  <1>3. /\ \A i \in Items : w[i] \in Nat /\ w[i] = BytesOf(kept[i])
        /\ \A i \in Items : v[i] \in Nat /\ v[i] = BytesOf(next[i])
    BY <1>1, HeldType
  <1>4. /\ BytesOf(<<>>) = 0 /\ BytesOf(<<part>>) = Weight[o.body] /\ Weight[o.body] \in Nat
        /\ \A i \in Items : BytesOf(Append(kept[i], part)) = w[i] + Weight[o.body]
    <2>1. part.body = o.body /\ \A i \in Items : kept[i] \in Seq(Part)
      BY <1>1 DEF PartOf
    <2>2. <<>> \in Seq(Part)
      OBVIOUS
    <2> HIDE DEF part
    <2>3. QED
      BY <1>2, <1>3, <2>1, <2>2, BytesFacts
  <1>5. size = IF o.kind = "commit" THEN w[o.item] ELSE Weight[o.body]
    BY <1>1, <1>2, <1>3 DEF Size
  <1>6. /\ Scene \in Items /\ ~IsStaged(Scene) /\ ~IsPending(Scene)
    BY ItemFacts
  <1> HIDE DEF w, v, size, part
  <1>7. size \in Nat
    BY <1>2, <1>3, <1>4, <1>5
  <1>8. ASSUME o.kind = "scene"
        PROVE  /\ v[Scene] = size
               /\ \A i \in Items : IsStaged(i) => v[i] = 0
               /\ \A i \in Items : i # Scene /\ ~IsStaged(i) => v[i] = w[i]
    BY <1>1, <1>3, <1>4, <1>5, <1>6, <1>8 DEF LandsAs, Publishes, Completes, part
  <1>9. ASSUME o.kind = "commit"
        PROVE  /\ v[Scene] = size
               /\ \A i \in Items : IsStaged(i) => v[i] = 0
               /\ \A i \in Items : i # Scene /\ ~IsStaged(i) => v[i] = w[i]
    BY <1>1, <1>2, <1>3, <1>4, <1>5, <1>6, <1>9 DEF LandsAs, Publishes, Completes, part
  <1>10. ASSUME o.kind = "picture"
         PROVE  /\ v[o.item] = size /\ w[o.item] = 0
                /\ \A i \in Items : i # o.item => v[i] = w[i]
    <2>1. /\ next[o.item] = <<part>> /\ kept[o.item] = <<>>
          /\ \A i \in Items : i # o.item => next[i] = kept[i]
      BY <1>1, <1>2, <1>10 DEF LandsAs, Publishes, Completes, part
    <2>2. QED
      BY <1>2, <1>3, <1>4, <1>5, <1>10, <2>1
  <1>11. ASSUME Completes(o)
         PROVE  /\ v[PictureOf(o)] = w[o.item] + size /\ w[PictureOf(o)] = 0
                /\ v[o.item] = 0
                /\ \A i \in Items : i # o.item /\ i # PictureOf(o) => v[i] = w[i]
    <2>1. o.kind = "upload" /\ o.item # PictureOf(o)
      BY <1>2, <1>11 DEF Completes
    <2>2. \A i \in Items :
             next[i] = IF i = PictureOf(o) THEN Append(kept[o.item], part)
                       ELSE IF i = o.item THEN <<>> ELSE kept[i]
      BY <1>1, <1>2, <1>11, <2>1 DEF LandsAs, Publishes, part
    <2>3. /\ next[PictureOf(o)] = Append(kept[o.item], part) /\ next[o.item] = <<>>
          /\ \A i \in Items : i # o.item /\ i # PictureOf(o) => next[i] = kept[i]
      BY <1>2, <2>1, <2>2
    <2>4. size = Weight[o.body] /\ PictureOf(o) \in Items /\ kept[PictureOf(o)] = <<>>
      BY <1>1, <1>2, <1>5, <2>1
    <2>5. v[PictureOf(o)] = w[o.item] + size
      BY <1>2, <1>3, <1>4, <2>3, <2>4
    <2>6. v[o.item] = 0 /\ w[PictureOf(o)] = 0
      BY <1>2, <1>3, <1>4, <2>3, <2>4
    <2>7. QED
      BY <1>3, <2>3, <2>5, <2>6
  <1>12. ASSUME o.kind \in {"staged", "upload"}, ~Completes(o)
         PROVE  /\ v[o.item] = w[o.item] + size
                /\ \A i \in Items : i # o.item => v[i] = w[i]
    <2>1. /\ next[o.item] = Append(kept[o.item], part)
          /\ \A i \in Items : i # o.item => next[i] = kept[i]
      BY <1>1, <1>2, <1>12 DEF LandsAs, Publishes, part
    <2>2. QED
      BY <1>2, <1>3, <1>4, <1>5, <1>12, <2>1
  <1>13. QED
    BY <1>3, <1>7, <1>8, <1>9, <1>10, <1>11, <1>12 DEF Publishes, w, v, size

(* The pictures that show after it. *)
LEMMA LandsShow ==
    ASSUME NEW o, NEW was, NEW kept, NEW item, NEW next, Lands(o, was, kept, item, next)
    PROVE  Cardinality({pid \in Pids : next[Picture(pid)] # <<>>}) =
               IF o.kind = "picture" \/ Completes(o) THEN was.pictures + 1 ELSE was.pictures
  <1> DEFINE old == {pid \in Pids : kept[Picture(pid)] # <<>>}
             new == {pid \in Pids : next[Picture(pid)] # <<>>}
  <1>1. /\ o \in Operations /\ kept \in [Items -> Seq(Part)]
        /\ \A i \in Items : next[i] = LandsAs(o, kept, i)
        /\ o.kind = "picture" => kept[o.item] = <<>>
        /\ o.kind = "upload" => kept[PictureOf(o)] = <<>>
        /\ was.pictures = Cardinality(old)
    BY DEF Lands, Matches
  <1>2. /\ o.kind \in {"scene", "staged", "commit", "picture", "upload"}
        /\ o.item \in Items
        /\ o.kind = "scene" => o.item = Scene
        /\ o.kind \in {"staged", "commit"} => IsStaged(o.item)
        /\ o.kind = "upload" => IsPending(o.item)
        /\ o.kind = "picture" => o.item = PictureOf(o)
        /\ o.kind \in {"picture", "upload"} => o.item[2] \in Pids
    BY <1>1, OperationFacts
  <1>3. \A pid \in Pids : /\ Picture(pid) \in Items /\ Picture(pid) # Scene
                          /\ ~IsStaged(Picture(pid)) /\ ~IsPending(Picture(pid))
                          /\ \A other \in Pids : Picture(pid) = Picture(other) => pid = other
    BY ItemFacts
  <1>4. IsFiniteSet(old)
    BY ItemsAreFinite, FS_Subset
  <1>5. CASE o.kind = "picture" \/ Completes(o)
    <2> DEFINE pid == o.item[2]
    <2>1. pid \in Pids /\ kept[Picture(pid)] = <<>> /\ (o.kind \in {"picture", "upload"})
      BY <1>1, <1>2, <1>5 DEF Completes, PictureOf
    <2>2. next[Picture(pid)] = IF o.kind = "picture" THEN <<PartOf(o)>>
                               ELSE Append(kept[o.item], PartOf(o))
      <3>1. Picture(pid) = PictureOf(o) /\ Picture(pid) \in Items /\ ~IsStaged(Picture(pid))
            /\ ~IsPending(Picture(pid))
        BY <1>3, <2>1 DEF PictureOf
      <3>2. next[Picture(pid)] = LandsAs(o, kept, Picture(pid))
        BY <1>1, <3>1
      <3> HIDE DEF pid
      <3>3. QED
        BY <1>2, <1>5, <3>1, <3>2 DEF LandsAs, Publishes, Completes
    <2>3. Append(kept[o.item], PartOf(o)) # <<>> /\ <<PartOf(o)>> # <<>>
      <3> DEFINE list == kept[o.item]
      <3>1. list \in Seq(Part) /\ PartOf(o) \in Part
        BY <1>1, <1>2, OperationFacts DEF Part, PartOf
      <3> HIDE DEF list
      <3>2. Append(list, PartOf(o)) # <<>>
        BY <3>1, AppendProperties
      <3>3. QED
        BY <3>2 DEF list
    <2>4. \A other \in Pids : other # pid => next[Picture(other)] = kept[Picture(other)]
      <3>1. ASSUME NEW other \in Pids, other # pid
            PROVE  next[Picture(other)] = kept[Picture(other)]
        <4>1. /\ Picture(other) # PictureOf(o) /\ Picture(other) # o.item
              /\ Picture(other) \in Items /\ ~IsStaged(Picture(other)) /\ Picture(other) # Scene
          BY <1>2, <1>3, <2>1, <3>1 DEF PictureOf
        <4>2. next[Picture(other)] = LandsAs(o, kept, Picture(other))
          BY <1>1, <4>1
        <4>3. QED
          BY <4>1, <4>2 DEF LandsAs
      <3>2. QED
        BY <3>1
    <2>5. new = old \cup {pid} /\ pid \notin old
      <3> HIDE DEF pid
      <3>1. QED
        BY <2>1, <2>2, <2>3, <2>4
    <2> HIDE DEF pid, new, old
    <2>6. Cardinality(old \cup {pid}) = Cardinality(old) + 1
      BY <1>4, <2>5, FS_AddElement
    <2>7. Cardinality(new) = Cardinality(old) + 1
      BY <2>5, <2>6, Zenon
    <2>8. QED
      BY <1>1, <1>5, <2>7 DEF new
  <1>6. CASE ~(o.kind = "picture" \/ Completes(o))
    <2>1. ASSUME NEW pid \in Pids
          PROVE  next[Picture(pid)] = kept[Picture(pid)]
      <3>1. next[Picture(pid)] = LandsAs(o, kept, Picture(pid)) /\ Picture(pid) # Scene
            /\ ~IsStaged(Picture(pid)) /\ ~IsPending(Picture(pid))
        BY <1>1, <1>3
      <3>2. QED
        BY <1>2, <1>6, <3>1 DEF LandsAs
    <2>2. new = old
      BY <2>1
    <2> HIDE DEF new, old
    <2>3. QED
      BY <1>1, <1>6, <2>2 DEF new
  <1>7. QED
    BY <1>5, <1>6

(* The sums after it. *)
LEMMA LandsSums ==
    ASSUME NEW o, NEW was, NEW kept, NEW item, NEW next, Lands(o, was, kept, item, next)
    PROVE  LET w == Held(kept)
               v == Held(next)
               size == Size(o, item)
           IN  /\ v[Scene] = IF Publishes(o) THEN size ELSE w[Scene]
               /\ Sum(v, StagedItems) = IF Publishes(o) THEN 0
                                        ELSE IF o.kind = "staged" THEN Sum(w, StagedItems) + size
                                        ELSE Sum(w, StagedItems)
               /\ Sum(v, PendingItems) =
                      IF Completes(o) THEN Sum(w, PendingItems) - w[o.item]
                      ELSE IF o.kind = "upload" THEN Sum(w, PendingItems) + size
                      ELSE Sum(w, PendingItems)
               /\ Sum(v, PictureItems) =
                      IF Completes(o) THEN Sum(w, PictureItems) + w[o.item] + size
                      ELSE IF o.kind = "picture" THEN Sum(w, PictureItems) + size
                      ELSE Sum(w, PictureItems)
  <1> DEFINE w == Held(kept)
             v == Held(next)
             size == Size(o, item)
  <1>1. /\ size \in Nat
        /\ \A i \in Items : w[i] \in Nat /\ v[i] \in Nat
        /\ Publishes(o) => /\ v[Scene] = size
                           /\ \A i \in Items : IsStaged(i) => v[i] = 0
                           /\ \A i \in Items : i # Scene /\ ~IsStaged(i) => v[i] = w[i]
        /\ o.kind = "picture" => /\ v[o.item] = size /\ w[o.item] = 0
                                 /\ \A i \in Items : i # o.item => v[i] = w[i]
        /\ Completes(o) =>
               /\ v[PictureOf(o)] = w[o.item] + size /\ w[PictureOf(o)] = 0
               /\ v[o.item] = 0
               /\ \A i \in Items : i # o.item /\ i # PictureOf(o) => v[i] = w[i]
        /\ o.kind \in {"staged", "upload"} /\ ~Completes(o) =>
               /\ v[o.item] = w[o.item] + size
               /\ \A i \in Items : i # o.item => v[i] = w[i]
    BY LandsWeighs
  <1>2. o \in Operations
    BY DEF Lands
  <1>3. /\ o.kind \in {"scene", "staged", "commit", "picture", "upload"}
        /\ o.item \in Items
        /\ o.kind = "scene" => o.item = Scene
        /\ o.kind \in {"staged", "commit"} => IsStaged(o.item)
        /\ o.kind = "upload" => IsPending(o.item)
        /\ o.kind = "picture" => o.item = PictureOf(o)
        /\ o.kind \in {"picture", "upload"} => o.item[2] \in Pids
    BY <1>2, OperationFacts
  <1>4. /\ \A i \in StagedItems : i \in Items /\ IsStaged(i) /\ i # Scene /\ ~IsPending(i)
        /\ \A i \in PendingItems : i \in Items /\ ~IsStaged(i) /\ i # Scene /\ IsPending(i)
        /\ \A i \in PictureItems : i \in Items /\ ~IsStaged(i) /\ i # Scene /\ ~IsPending(i)
        /\ Scene \in Items
    BY ItemFacts DEF StagedItems, PendingItems, PictureItems, IsStaged, IsPending, Scene
  <1>5. /\ o.kind = "staged" => o.item \in StagedItems
        /\ o.kind = "upload" => o.item \in PendingItems
        /\ o.kind \in {"picture", "upload"} => PictureOf(o) \in PictureItems
    BY <1>3 DEF StagedItems, PendingItems, PictureItems, PictureOf
  <1>6. IsFiniteSet(StagedItems) /\ IsFiniteSet(PendingItems) /\ IsFiniteSet(PictureItems)
    BY ItemsAreFinite
  <1>7. /\ \A i \in StagedItems : w[i] \in Nat /\ v[i] \in Nat
        /\ \A i \in PendingItems : w[i] \in Nat /\ v[i] \in Nat
        /\ \A i \in PictureItems : w[i] \in Nat /\ v[i] \in Nat
    BY <1>1, <1>4
  <1> HIDE DEF w, v, size
  <1>8. /\ Sum(w, StagedItems) \in Nat /\ Sum(w, PendingItems) \in Nat
        /\ Sum(w, PictureItems) \in Nat
    <2>1. Sum(w, StagedItems) \in Nat
      BY <1>6, <1>7, SumFacts
    <2>2. Sum(w, PendingItems) \in Nat
      BY <1>6, <1>7, SumFacts
    <2>3. Sum(w, PictureItems) \in Nat
      BY <1>6, <1>7, SumFacts
    <2>4. QED
      BY <2>1, <2>2, <2>3
  <1>9. v[Scene] = IF Publishes(o) THEN size ELSE w[Scene]
    <2>1. o.kind = "picture" => o.item # Scene
      BY <1>3, <1>4, <1>5
    <2>2. o.kind = "upload" => PictureOf(o) # Scene
      BY <1>4, <1>5
    <2>3. o.kind \in {"staged", "upload"} => o.item # Scene
      BY <1>4, <1>5
    <2>4. QED
      BY <1>1, <1>3, <1>4, <2>1, <2>2, <2>3 DEF Publishes, Completes
  <1>10. Sum(v, StagedItems) = IF Publishes(o) THEN 0
                               ELSE IF o.kind = "staged" THEN Sum(w, StagedItems) + size
                               ELSE Sum(w, StagedItems)
    <2>1. CASE Publishes(o)
      <3>1. \A i \in StagedItems : v[i] = 0
        BY <1>1, <1>4, <2>1
      <3>2. Sum(v, StagedItems) = 0
        BY <1>6, <1>7, <3>1, SumFacts
      <3>3. QED
        BY <2>1, <3>2
    <2>2. CASE o.kind = "staged"
      <3>1. /\ o.item \in StagedItems /\ v[o.item] = w[o.item] + size /\ w[o.item] \in Nat
            /\ \A i \in StagedItems : i # o.item => v[i] = w[i]
        BY <1>1, <1>4, <1>5, <2>2 DEF Completes
      <3>2. Sum(v, StagedItems) = Sum(w, StagedItems) - w[o.item] + v[o.item]
        BY <1>6, <1>7, <3>1, SumChanges
      <3>3. Sum(v, StagedItems) = Sum(w, StagedItems) + size
        BY <1>1, <1>8, <3>1, <3>2
      <3>4. QED
        BY <2>2, <3>3 DEF Publishes
    <2>3. CASE o.kind \in {"picture", "upload"}
      <3>0. \A i \in StagedItems : i \in Items /\ i # o.item /\ i # PictureOf(o)
        BY <1>3, <1>4, <1>5, <2>3
      <3>1. \A i \in StagedItems : v[i] = w[i] /\ w[i] \in Nat
        BY <1>1, <1>7, <2>3, <3>0
      <3>2. Sum(v, StagedItems) = Sum(w, StagedItems)
        BY <1>6, <3>1, SameSum
      <3>3. QED
        BY <2>3, <3>2 DEF Publishes
    <2>4. QED
      BY <1>3, <2>1, <2>2, <2>3 DEF Publishes
  <1>11. Sum(v, PendingItems) =
             IF Completes(o) THEN Sum(w, PendingItems) - w[o.item]
             ELSE IF o.kind = "upload" THEN Sum(w, PendingItems) + size
             ELSE Sum(w, PendingItems)
    <2>1. CASE o.kind = "upload"
      <3>1. /\ o.item \in PendingItems /\ w[o.item] \in Nat
            /\ v[o.item] = IF Completes(o) THEN 0 ELSE w[o.item] + size
            /\ \A i \in PendingItems : i # o.item => v[i] = w[i]
        BY <1>1, <1>4, <1>5, <2>1
      <3>2. Sum(v, PendingItems) = Sum(w, PendingItems) - w[o.item] + v[o.item]
        BY <1>6, <1>7, <3>1, SumChanges
      <3>3. CASE Completes(o)
        BY <1>8, <3>1, <3>2, <3>3
      <3>4. CASE ~Completes(o)
        BY <1>1, <1>8, <2>1, <3>1, <3>2, <3>4
      <3>5. QED
        BY <3>3, <3>4
    <2>2. CASE o.kind # "upload"
      <3>0. \A i \in PendingItems : /\ i \in Items /\ i # Scene /\ ~IsStaged(i)
                                    /\ o.kind \in {"staged", "picture"} => i # o.item
        BY <1>3, <1>4, <1>5
      <3>1. \A i \in PendingItems : v[i] = w[i] /\ w[i] \in Nat
        BY <1>1, <1>3, <1>7, <2>2, <3>0 DEF Publishes, Completes
      <3>2. Sum(v, PendingItems) = Sum(w, PendingItems)
        BY <1>6, <3>1, SameSum
      <3>3. QED
        BY <2>2, <3>2 DEF Completes
    <2>3. QED
      BY <2>1, <2>2
  <1>12. Sum(v, PictureItems) =
             IF Completes(o) THEN Sum(w, PictureItems) + w[o.item] + size
             ELSE IF o.kind = "picture" THEN Sum(w, PictureItems) + size
             ELSE Sum(w, PictureItems)
    <2>1. CASE o.kind = "picture" \/ Completes(o)
      <3> DEFINE i == PictureOf(o)
      <3>1. /\ i \in PictureItems /\ w[i] = 0
            /\ v[i] = IF Completes(o) THEN w[o.item] + size ELSE size
            /\ \A j \in PictureItems : j # i => v[j] = w[j]
            /\ w[o.item] \in Nat
        BY <1>1, <1>3, <1>4, <1>5, <2>1 DEF Completes
      <3>2. v[i] \in Nat
        BY <1>7, <3>1
      <3> HIDE DEF i
      <3>3. Sum(v, PictureItems) = Sum(w, PictureItems) - w[i] + v[i]
        BY <1>6, <1>7, <3>1, SumChanges
      <3>4. CASE Completes(o)
        BY <1>1, <1>8, <3>1, <3>3, <3>4
      <3>5. CASE ~Completes(o)
        BY <1>1, <1>8, <2>1, <3>1, <3>3, <3>5
      <3>6. QED
        BY <3>4, <3>5
    <2>2. CASE ~(o.kind = "picture" \/ Completes(o))
      <3>1. \A i \in PictureItems : v[i] = w[i] /\ w[i] \in Nat
        BY <1>1, <1>3, <1>4, <1>5, <1>7, <2>2 DEF Publishes
      <3>2. Sum(v, PictureItems) = Sum(w, PictureItems)
        BY <1>6, <3>1, SameSum
      <3>3. QED
        BY <2>2, <3>2
    <2>3. QED
      BY <2>1, <2>2
  <1>13. QED
    BY <1>9, <1>10, <1>11, <1>12 DEF w, v, size

(* What is written matches. *)
LEMMA LandsMatch ==
    ASSUME NEW o, NEW was, NEW kept, NEW item, NEW next, NEW t,
           Lands(o, was, kept, item, next)
    PROVE  Matches(Planned(o, was, item, t), next)
  <1> DEFINE plan == Planned(o, was, item, t)
             size == Size(o, item)
             held == Held(kept)[o.item]
             c == Held(kept)[Scene]
             s == Sum(Held(kept), StagedItems)
             p == Sum(Held(kept), PendingItems)
             i == Sum(Held(kept), PictureItems)
             cv == Held(next)[Scene]
             sv == Sum(Held(next), StagedItems)
             pv == Sum(Held(next), PendingItems)
             iv == Sum(Held(next), PictureItems)
  <1>1. /\ o \in Operations /\ DOMAIN was = DOMAIN NoHead /\ kept \in [Items -> Seq(Part)]
        /\ Matches(was, kept)
        /\ o.kind = "commit" \/ Completes(o) => item.bytes = BytesOf(kept[o.item])
    BY DEF Lands
  <1>2. /\ plan.bytes = IF Publishes(o) THEN PicturesIn(was) + size ELSE was.bytes + size
        /\ plan.sceneBytes = IF Publishes(o) THEN size ELSE was.sceneBytes
        /\ plan.stagedBytes = IF Publishes(o) THEN 0
                              ELSE IF o.kind = "staged" THEN was.stagedBytes + size
                              ELSE was.stagedBytes
        /\ plan.pictures = IF o.kind = "picture" \/ Completes(o) THEN was.pictures + 1
                           ELSE was.pictures
        /\ plan.pendingBytes = IF Completes(o) THEN was.pendingBytes - item.bytes
                               ELSE IF o.kind = "upload" THEN was.pendingBytes + size
                               ELSE was.pendingBytes
    BY <1>1, PlannedNumbers
  <1>3. /\ cv = IF Publishes(o) THEN size ELSE c
        /\ sv = IF Publishes(o) THEN 0 ELSE IF o.kind = "staged" THEN s + size ELSE s
        /\ pv = IF Completes(o) THEN p - held ELSE IF o.kind = "upload" THEN p + size ELSE p
        /\ iv = IF Completes(o) THEN i + held + size
                ELSE IF o.kind = "picture" THEN i + size ELSE i
    BY LandsSums
  <1>4. /\ was.bytes = c + s + p + i /\ was.sceneBytes = c /\ was.stagedBytes = s
        /\ was.pendingBytes = p
    BY <1>1 DEF Matches
  <1>5. PicturesIn(was) = p + i
    <2>1. PicturesIn(was) = was.pendingBytes + i
      BY <1>1, MatchesType
    <2>2. QED
      BY <1>4, <2>1
  <1>6. c \in Nat /\ s \in Nat /\ p \in Nat /\ i \in Nat
    BY <1>1, WholeSum
  <1>7. size \in Nat
    BY LandsWeighs
  <1>8. o.item \in Items /\ o.kind \in {"scene", "staged", "commit", "picture", "upload"}
    BY <1>1, OperationFacts
  <1>9. held \in Nat /\ (Completes(o) => item.bytes = held)
    BY <1>1, <1>8, HeldType
  <1>10. Cardinality({pid \in Pids : next[Picture(pid)] # <<>>}) = plan.pictures
    BY <1>2, LandsShow
  <1> HIDE DEF plan, size, held, c, s, p, i, cv, sv, pv, iv
  <1>11. plan.sceneBytes = cv /\ plan.stagedBytes = sv
    BY <1>2, <1>3, <1>4
  <1>12. plan.pendingBytes = pv
    BY <1>2, <1>3, <1>4, <1>9
  <1>13. plan.bytes = cv + sv + pv + iv
    <2>1. CASE Publishes(o)
      <3>1. o.kind # "upload" /\ o.kind # "picture" /\ ~Completes(o)
        BY <2>1 DEF Publishes, Completes
      <3>2. plan.bytes = p + i + size /\ cv = size /\ sv = 0 /\ pv = p /\ iv = i
        BY <1>2, <1>3, <1>5, <2>1, <3>1
      <3>3. QED
        BY <1>6, <1>7, <3>2
    <2>2. CASE o.kind = "staged"
      <3>1. ~Publishes(o) /\ ~Completes(o)
        BY <2>2 DEF Publishes, Completes
      <3>2. plan.bytes = (c + s + p + i) + size /\ cv = c /\ sv = s + size /\ pv = p /\ iv = i
        BY <1>2, <1>3, <1>4, <2>2, <3>1
      <3>3. QED
        BY <1>6, <1>7, <3>2
    <2>3. CASE o.kind = "picture"
      <3>1. ~Publishes(o) /\ ~Completes(o)
        BY <2>3 DEF Publishes, Completes
      <3>2. plan.bytes = (c + s + p + i) + size /\ cv = c /\ sv = s /\ pv = p /\ iv = i + size
        BY <1>2, <1>3, <1>4, <2>3, <3>1
      <3>3. QED
        BY <1>6, <1>7, <3>2
    <2>4. CASE o.kind = "upload" /\ ~Completes(o)
      <3>1. ~Publishes(o)
        BY <2>4 DEF Publishes
      <3>2. plan.bytes = (c + s + p + i) + size /\ cv = c /\ sv = s /\ pv = p + size /\ iv = i
        BY <1>2, <1>3, <1>4, <2>4, <3>1
      <3>3. QED
        BY <1>6, <1>7, <3>2
    <2>5. CASE Completes(o)
      <3>1. ~Publishes(o) /\ o.kind = "upload"
        BY <2>5 DEF Publishes, Completes
      <3>2. /\ plan.bytes = (c + s + p + i) + size /\ cv = c /\ sv = s /\ pv = p - held
            /\ iv = i + held + size
        BY <1>2, <1>3, <1>4, <2>5, <3>1
      <3>3. QED
        BY <1>6, <1>7, <1>9, <3>2
    <2>6. QED
      BY <1>8, <2>1, <2>2, <2>3, <2>4, <2>5 DEF Publishes
  <1>14. Matches(plan, next)
    BY <1>10, <1>11, <1>12, <1>13 DEF Matches, cv, sv, pv, iv
  <1>15. QED
    BY <1>14 DEF plan

-----------------------------------------------------------------------------
(* The third part's invariant: what the caps are reckoned with is right, a  *)
(* request that is to write has room for it on the head it read, and one    *)
(* that is under way has not been answered.                                 *)
WritesHaveRoom ==
    \A r \in Requests :
        req[r].phase = "write" => Room(req[r].op, Was(req[r]), req[r].found.has) = "write"

AnswersStand == \A r \in Requests : UnderWay(r) => answer[r] = "none"

CInv ==
    /\ Matches(head, parts) /\ CapsHold /\ WritesHaveRoom
    /\ answer = [r \in Requests |-> answer[r]] /\ AnswersStand

LEMMA CInvInit == Init => CInv
  <1> SUFFICES ASSUME Init PROVE CInv
    OBVIOUS
  <1>1. /\ head = NoHead /\ parts = NoParts /\ answer = Unanswered
        /\ \A r \in Requests : req[r] = Idle
    BY DEF Init
  <1>2. Matches(head, parts)
    BY <1>1, NothingMatches
  <1>3. CapsHold
    <2>1. /\ NoHead.bytes = 0 /\ NoHead.sceneBytes = 0 /\ NoHead.stagedBytes = 0
          /\ NoHead.pictures = 0
      BY DEF NoHead
    <2>2. MaxDrawingBytes \in Nat /\ MaxPictures \in Nat
      BY OnlineStoreAssumption
    <2>3. QED
      BY <1>1, <2>1, <2>2 DEF CapsHold, PicturesIn, Larger
  <1>4. WritesHaveRoom /\ AnswersStand
    BY <1>1, IdleFacts DEF WritesHaveRoom, AnswersStand, UnderWay
  <1>5. answer = [r \in Requests |-> answer[r]]
    BY <1>1 DEF Unanswered
  <1>6. QED
    BY <1>2, <1>3, <1>4, <1>5 DEF CInv

(* Where the store stays as it is, what matters is the one request. *)
LEMMA AnswerCounts ==
    ASSUME IInv, CInv, NEW r \in Requests, NEW told, Answer(r, told), UNCHANGED <<head, parts>>
    PROVE  CInv'
  <1>1. ASSUME NEW u \in Requests
        PROVE  /\ req'[u] = IF u = r THEN Idle ELSE req[u]
               /\ answer'[u] = IF u = r THEN told ELSE answer[u]
    BY DEF IInv, Types, Answer, CInv
  <1>2. answer' = [u \in Requests |-> answer'[u]]
    BY DEF Answer, CInv
  <1>3. WritesHaveRoom' /\ AnswersStand'
    BY <1>1, IdleFacts DEF CInv, WritesHaveRoom, AnswersStand, UnderWay
  <1>4. QED
    BY <1>2, <1>3 DEF CInv, CapsHold

LEMMA GoCounts ==
    ASSUME IInv, CInv, NEW r \in Requests, NEW next, Go(r, next), UnderWay(r),
           UNCHANGED <<head, parts>>,
           next.phase = "write" => Room(next.op, Was(next), next.found.has) = "write"
    PROVE  CInv'
  <1>1. ASSUME NEW u \in Requests
        PROVE  req'[u] = IF u = r THEN next ELSE req[u]
    BY DEF IInv, Types, Go
  <1>2. answer' = answer
    BY DEF Go
  <1>3. WritesHaveRoom' /\ AnswersStand'
    BY <1>1, <1>2 DEF CInv, WritesHaveRoom, AnswersStand, UnderWay
  <1>4. QED
    BY <1>2, <1>3 DEF CInv, CapsHold

LEMMA ArriveCounts ==
    ASSUME IInv, CInv, NEW r \in Requests, Arrive(r)
    PROVE  CInv'
  <1> DEFINE New(o) == [Idle EXCEPT !.op = o, !.phase = "head", !.now = clock, !.attempt = 1]
  <1>1. PICK o \in Operations : req' = [req EXCEPT ![r] = New(o)]
    BY DEF Arrive
  <1> DEFINE next == New(o)
  <1>2. next.phase = "head"
    BY Columns
  <1>3. UNCHANGED <<head, parts>> /\ answer' = Unanswered
    BY DEF Arrive, database
  <1> HIDE DEF New
  <1> HIDE DEF next
  <1>4. ASSUME NEW u \in Requests
        PROVE  req'[u] = IF u = r THEN next ELSE req[u]
    BY <1>1 DEF IInv, Types, next
  <1>5. \A u \in Requests : answer'[u] = "none"
    BY <1>3 DEF Unanswered
  <1>6. answer' = [u \in Requests |-> answer'[u]]
    BY <1>3 DEF Unanswered
  <1>7. WritesHaveRoom' /\ AnswersStand'
    BY <1>2, <1>4, <1>5 DEF CInv, WritesHaveRoom, AnswersStand, UnderWay
  <1>8. QED
    BY <1>3, <1>6, <1>7 DEF CInv, CapsHold

LEMMA ReadHeadCounts ==
    ASSUME IInv, CInv, NEW r \in Requests, ReadHead(r)
    PROVE  CInv'
  <1> DEFINE next == [req[r] EXCEPT !.phase = "item", !.seen = head]
  <1>1. UNCHANGED <<head, parts>>
    BY DEF ReadHead, database
  <1>2. (\E told : Answer(r, told)) \/ Go(r, next)
    BY DEF ReadHead
  <1>3. CASE \E told : Answer(r, told)
    BY <1>1, <1>3, AnswerCounts
  <1>4. CASE Go(r, next)
    <2>1. req[r].phase = "head" /\ IsRequest(req[r])
      BY DEF ReadHead, IInv, Types
    <2>2. next.phase = "item"
      BY <2>1, Columns DEF IsRequest
    <2>3. UnderWay(r)
      BY <2>1, IdleFacts DEF UnderWay
    <2> HIDE DEF next
    <2>4. QED
      BY <1>1, <1>4, <2>2, <2>3, GoCounts
  <1>5. QED
    BY <1>2, <1>3, <1>4

(* Only what has room is to be written. *)
LEMMA VerdictHasRoom ==
    ASSUME NEW o \in Operations, NEW was, NEW item
    PROVE  /\ Verdict(o, was, item) = "write" => Room(o, was, item) = "write"
           /\ Place(o, was, item) = "write" => Room(o, was, item) = "write"
  <1> DEFINE room == Room(o, was, item)
             place == Place(o, was, item)
             said == Verdict(o, was, item)
  <1>1. o.kind \in {"scene", "staged", "commit", "picture", "upload"}
    BY OperationFacts
  <1>2. place = "write" => room = "write"
    <2>1. place = IF item # Absent /\ item.total # o.total THEN "partExists"
                  ELSE IF o.n < item.parts THEN "part"
                  ELSE IF o.n > item.parts THEN "outOfOrder"
                  ELSE room
      BY DEF Place
    <2> HIDE DEF place, room
    <2>2. QED
      BY <2>1
  <1>3. CASE o.kind = "scene"
    <2>1. said = room
      BY <1>3 DEF Verdict
    <2>2. QED
      BY <1>2, <2>1
  <1>4. CASE o.kind = "staged"
    <2>1. said = place
      BY <1>4 DEF Verdict
    <2>2. QED
      BY <1>2, <2>1
  <1>5. CASE o.kind = "commit"
    <2>1. said = IF item = Absent \/ Incomplete(item) THEN "stagedIncomplete" ELSE room
      BY <1>5 DEF Verdict
    <2> HIDE DEF place, room, said
    <2>2. said = "write" => room = "write"
      BY <2>1
    <2>3. QED
      BY <1>2, <2>2 DEF place, room, said
  <1>6. CASE o.kind = "picture"
    <2>1. said = IF item = Absent THEN room
                 ELSE IF item.total = 1 THEN "part" ELSE "partExists"
      BY <1>6 DEF Verdict
    <2> HIDE DEF place, room, said
    <2>2. said = "write" => room = "write"
      BY <2>1
    <2>3. QED
      BY <1>2, <2>2 DEF place, room, said
  <1>7. CASE o.kind = "upload"
    <2>1. said = IF item = Absent THEN "pending"
                 ELSE IF item.total = o.total /\ o.n < item.parts THEN "part" ELSE "partExists"
      BY <1>7 DEF Verdict
    <2> HIDE DEF place, room, said
    <2>2. said # "write"
      BY <2>1
    <2>3. QED
      BY <1>2, <2>2 DEF place, room, said
  <1>8. QED
    BY <1>1, <1>3, <1>4, <1>5, <1>6, <1>7

LEMMA FindingCounts ==
    ASSUME IInv, CInv, NEW r \in Requests, req[r].phase \in {"item", "pending"},
           NEW found, NEW verdict,
           \/ Answer(r, verdict)
           \/ verdict \in Phases /\ Go(r, Finding(req[r], found, verdict)),
           verdict = "write" => Room(req[r].op, Was(req[r]), found.has) = "write",
           UNCHANGED <<head, parts>>
    PROVE  CInv'
  <1>1. CASE Answer(r, verdict)
    BY <1>1, AnswerCounts
  <1>2. CASE Go(r, Finding(req[r], found, verdict))
    <2> DEFINE next == Finding(req[r], found, verdict)
    <2>1. IsRequest(req[r]) /\ req[r].phase \in Phases
      BY DEF IInv, Types, Phases
    <2>2. /\ next.phase = verdict /\ next.found = found /\ next.op = req[r].op
          /\ next.now = req[r].now /\ next.seen = req[r].seen
      BY <2>1, FindingFacts
    <2>3. UnderWay(r)
      BY IdleFacts DEF UnderWay
    <2>4. Go(r, next)
      BY <1>2
    <2> HIDE DEF next
    <2>5. Was(next) = Was(req[r])
      BY <2>2 DEF Was
    <2>6. next.phase = "write" => Room(next.op, Was(next), next.found.has) = "write"
      BY <2>2, <2>5
    <2>7. QED
      BY <2>3, <2>4, <2>6, GoCounts
  <1>3. QED
    BY <1>1, <1>2

LEMMA ReadItemCounts ==
    ASSUME IInv, CInv, NEW r \in Requests, ReadItem(r)
    PROVE  CInv'
  <1> DEFINE first == CASE req[r].op.kind = "scene" -> NotLooked
                        [] req[r].op.kind = "upload" -> Look(req[r], PictureOf(req[r].op))
                        [] OTHER -> Look(req[r], req[r].op.item)
             verdict == Verdict(req[r].op, Was(req[r]), first.has)
  <1>1. /\ req[r].phase = "item" /\ UNCHANGED <<head, parts>>
        /\ Proceed(r, verdict, [req[r] EXCEPT !.found = first])
    BY DEF ReadItem, database
  <1>2. verdict = "write" => Room(req[r].op, Was(req[r]), first.has) = "write"
    <2>1. req[r].op \in Operations
      BY <1>1 DEF IInv, Types, IsRequest, Phases
    <2>2. QED
      BY <2>1, VerdictHasRoom
  <1> HIDE DEF first, verdict
  <1>3. \/ Answer(r, verdict)
        \/ verdict \in Phases /\ Go(r, Finding(req[r], first, verdict))
    BY <1>1, ProceedsFinding
  <1>4. QED
    BY <1>1, <1>2, <1>3, FindingCounts

LEMMA ReadPendingCounts ==
    ASSUME IInv, CInv, NEW r \in Requests, ReadPending(r)
    PROVE  CInv'
  <1> DEFINE upload == Look(req[r], req[r].op.item)
             verdict == Place(req[r].op, Was(req[r]), upload.has)
  <1>1. /\ req[r].phase = "pending" /\ UNCHANGED <<head, parts>>
        /\ Proceed(r, verdict, [req[r] EXCEPT !.found = upload])
    BY DEF ReadPending, database
  <1>2. verdict = "write" => Room(req[r].op, Was(req[r]), upload.has) = "write"
    <2>1. req[r].op \in Operations
      BY <1>1 DEF IInv, Types, IsRequest, Phases
    <2>2. QED
      BY <2>1, VerdictHasRoom
  <1> HIDE DEF upload, verdict
  <1>3. \/ Answer(r, verdict)
        \/ verdict \in Phases /\ Go(r, Finding(req[r], upload, verdict))
    BY <1>1, ProceedsFinding
  <1>4. QED
    BY <1>1, <1>2, <1>3, FindingCounts

LEMMA QuietCounts ==
    ASSUME IInv, CInv, NEW r \in Requests, ReadPart(r) \/ LoseRace(r) \/ Break(r)
    PROVE  CInv'
  <1>1. UNCHANGED <<head, parts>>
    BY DEF ReadPart, LoseRace, Break, database
  <1>2. \/ \E told : Answer(r, told)
        \/ /\ req[r].phase = "write"
           /\ \E attempt : Go(r, Retried(req[r], attempt))
    BY DEF ReadPart, LoseRace, Break, Retried
  <1>3. CASE \E told : Answer(r, told)
    BY <1>1, <1>3, AnswerCounts
  <1>4. ASSUME NEW attempt, req[r].phase = "write", Go(r, Retried(req[r], attempt))
        PROVE  CInv'
    <2> DEFINE next == Retried(req[r], attempt)
    <2>1. IsRequest(req[r]) /\ req[r].phase \in Phases
      BY <1>4 DEF IInv, Types, Phases
    <2>2. next.phase = "head"
      BY <2>1, RetriedFacts
    <2>3. Go(r, next)
      BY <1>4
    <2>4. UnderWay(r)
      BY <1>4, IdleFacts DEF UnderWay
    <2> HIDE DEF next
    <2>5. QED
      BY <1>1, <2>2, <2>3, <2>4, GoCounts
  <1>5. QED
    BY <1>2, <1>3, <1>4

LEMMA SweepCounts == CInv /\ Sweep => CInv'
  <1> SUFFICES ASSUME CInv, Sweep PROVE CInv'
    OBVIOUS
  <1>1. head' = NoHead /\ parts' = NoParts /\ req' = req /\ answer' = answer
    BY DEF Sweep
  <1>2. Matches(head', parts')
    BY <1>1, NothingMatches
  <1>3. CapsHold'
    <2>1. /\ NoHead.bytes = 0 /\ NoHead.sceneBytes = 0 /\ NoHead.stagedBytes = 0
          /\ NoHead.pictures = 0
      BY DEF NoHead
    <2>2. MaxDrawingBytes \in Nat /\ MaxPictures \in Nat
      BY OnlineStoreAssumption
    <2>3. QED
      BY <1>1, <2>1, <2>2 DEF CapsHold, PicturesIn, Larger
  <1>4. WritesHaveRoom' /\ AnswersStand'
    BY <1>1 DEF CInv, WritesHaveRoom, AnswersStand, UnderWay
  <1>5. QED
    BY <1>1, <1>2, <1>3, <1>4 DEF CInv

-----------------------------------------------------------------------------
(* What a look tells of the bytes is what was not idle. *)
LEMMA LookBytes ==
    ASSUME RInv, NEW q, q.seen = head, NEW item \in Items
    PROVE  Look(q, item).has.bytes = BytesOf(Kept(parts, head, q.now)[item])
  <1> DEFINE list == parts[item]
  <1>1. list \in Seq(Part)
    BY DEF RInv, PartsAreSent
  <1>2. BytesOf(<<>>) = 0
    BY NoBytes
  <1>3. Absent.bytes = 0
    BY DEF Absent
  <1>4. Summary(list).bytes = BytesOf(list)
    <2> DEFINE bytes == BytesOf(list)
    <2>1. list # <<>> =>
              Summary(list) = [parts |-> Len(list), total |-> list[1].total, bytes |-> bytes]
      BY DEF Summary
    <2>2. list = <<>> => Summary(list) = Absent
      BY DEF Summary
    <2>3. list = <<>> => bytes = 0
      BY <1>2
    <2> HIDE DEF bytes, list
    <2>4. QED
      BY <1>3, <2>1, <2>2, <2>3 DEF bytes
  <1>5. Look(q, item).has = IF Gone(item, head, q.now) THEN Absent ELSE Summary(list)
    BY LookFacts
  <1>6. Kept(parts, head, q.now)[item] = IF Gone(item, head, q.now) THEN <<>> ELSE list
    BY DEF Kept
  <1> HIDE DEF list
  <1>7. QED
    BY <1>2, <1>3, <1>4, <1>5, <1>6

(* Where idle uploads are taken off, the caps hold all the more. *)
LEMMA SettledFits ==
    ASSUME IInv, RInv, Matches(head, parts), CapsHold, NEW t
    PROVE  LET was == Settled(head, t)
               kept == Kept(parts, head, t)
           IN  /\ kept \in [Items -> Seq(Part)] /\ Matches(was, kept)
               /\ DOMAIN was = DOMAIN NoHead
               /\ PicturesIn(was) + Larger(was.sceneBytes, was.stagedBytes) <= MaxDrawingBytes
               /\ was.pictures <= MaxPictures
               /\ PicturesIn(was) \in Nat
  <1> DEFINE was == Settled(head, t)
             kept == Kept(parts, head, t)
  <1>1. parts \in [Items -> Seq(Part)] /\ IsHead(head)
    BY DEF RInv, PartsAreSent, IInv, Types
  <1>2. kept \in [Items -> Seq(Part)] /\ Matches(was, kept)
    BY <1>1, KeptType, SettledMatches
  <1>3. /\ was.stagedBytes = IF StagedIdle(head, t) THEN 0 ELSE head.stagedBytes
        /\ was.pendingBytes = IF PendingIdle(head, t) THEN 0 ELSE head.pendingBytes
        /\ was.bytes = head.bytes - (head.stagedBytes - was.stagedBytes)
                         - (head.pendingBytes - was.pendingBytes)
        /\ was.sceneBytes = head.sceneBytes /\ was.pictures = head.pictures
        /\ DOMAIN was = DOMAIN NoHead
    BY <1>1, SettledNumbers
  <1>4. /\ head.bytes \in Nat /\ head.sceneBytes \in Nat /\ head.stagedBytes \in Nat
        /\ head.pendingBytes \in Nat /\ PicturesIn(head) \in Nat
    <2>1. /\ head.bytes \in Nat /\ head.sceneBytes \in Nat /\ head.stagedBytes \in Nat
          /\ head.pendingBytes \in Nat
          /\ PicturesIn(head) = head.pendingBytes + Sum(Held(parts), PictureItems)
          /\ Sum(Held(parts), PictureItems) \in Nat
      BY <1>1, MatchesType
    <2>2. QED
      BY <2>1
  <1>5. PicturesIn(was) \in Nat
    <2>1. /\ was.pendingBytes \in Nat
          /\ PicturesIn(was) = was.pendingBytes + Sum(Held(kept), PictureItems)
          /\ Sum(Held(kept), PictureItems) \in Nat
      BY <1>2, MatchesType
    <2>2. QED
      BY <2>1
  <1> HIDE DEF was, kept
  <1>6. /\ was.stagedBytes \in Nat /\ was.stagedBytes <= head.stagedBytes
        /\ was.pendingBytes \in Nat /\ was.pendingBytes <= head.pendingBytes
    BY <1>3, <1>4
  <1>7. PicturesIn(was) <= PicturesIn(head)
    <2>1. /\ PicturesIn(head) = head.bytes - head.sceneBytes - head.stagedBytes
          /\ PicturesIn(was) = was.bytes - was.sceneBytes - was.stagedBytes
      BY DEF PicturesIn
    <2> DEFINE b == head.bytes
               s == head.stagedBytes
               p == head.pendingBytes
               c == head.sceneBytes
               ws == was.stagedBytes
               wp == was.pendingBytes
    <2>2. /\ b \in Nat /\ s \in Nat /\ p \in Nat /\ c \in Nat /\ ws \in Nat /\ wp \in Nat
          /\ wp <= p
      BY <1>4, <1>6
    <2>3. was.bytes = b - (s - ws) - (p - wp) /\ was.sceneBytes = c
      BY <1>3
    <2> HIDE DEF b, s, p, c, ws, wp
    <2>4. b - (s - ws) - (p - wp) - c - ws <= b - c - s
      BY <2>2
    <2>5. PicturesIn(was) = b - (s - ws) - (p - wp) - c - ws /\ PicturesIn(head) = b - c - s
      BY <2>1, <2>3 DEF b, c, s, ws, p, wp
    <2>6. QED
      BY <2>4, <2>5
  <1>8. /\ PicturesIn(head) + Larger(head.sceneBytes, head.stagedBytes) <= MaxDrawingBytes
        /\ head.pictures <= MaxPictures
    BY DEF CapsHold
  <1>9. /\ Larger(was.sceneBytes, was.stagedBytes) <= Larger(head.sceneBytes, head.stagedBytes)
        /\ Larger(was.sceneBytes, was.stagedBytes) \in Nat
        /\ Larger(head.sceneBytes, head.stagedBytes) \in Nat
    BY <1>3, <1>4, <1>6 DEF Larger
  <1>10. MaxDrawingBytes \in Nat
    BY OnlineStoreAssumption
  <1>11. PicturesIn(was) + Larger(was.sceneBytes, was.stagedBytes) <= MaxDrawingBytes
    <2> DEFINE l == Larger(was.sceneBytes, was.stagedBytes)
               m == Larger(head.sceneBytes, head.stagedBytes)
               i == PicturesIn(was)
               j == PicturesIn(head)
    <2>1. /\ l \in Nat /\ m \in Nat /\ i \in Nat /\ j \in Nat /\ l <= m /\ i <= j
          /\ j + m <= MaxDrawingBytes
      BY <1>4, <1>5, <1>7, <1>8, <1>9
    <2> HIDE DEF l, m, i, j
    <2>2. i + l <= MaxDrawingBytes
      BY <1>10, <2>1
    <2>3. QED
      BY <2>2 DEF i, l
  <1>12. was.pictures <= MaxPictures
    BY <1>3, <1>8
  <1>13. QED
    BY <1>2, <1>3, <1>5, <1>11, <1>12 DEF was, kept

(* A write that had room keeps the caps. *)
LEMMA PlannedFits ==
    ASSUME NEW o \in Operations, NEW was, NEW kept \in [Items -> Seq(Part)], NEW item, NEW t,
           NEW next, Lands(o, was, kept, item, next),
           PicturesIn(was) \in Nat, was.pictures <= MaxPictures,
           PicturesIn(was) + Larger(was.sceneBytes, was.stagedBytes) <= MaxDrawingBytes,
           Room(o, was, item) = "write"
    PROVE  LET plan == Planned(o, was, item, t)
           IN  /\ PicturesIn(plan) + Larger(plan.sceneBytes, plan.stagedBytes) <= MaxDrawingBytes
               /\ plan.pictures <= MaxPictures
  <1> DEFINE plan == Planned(o, was, item, t)
             size == Size(o, item)
             pics == PicturesIn(was)
  <1>1. DOMAIN was = DOMAIN NoHead /\ Matches(was, kept) /\ size \in Nat
    <2>1. size \in Nat
      BY LandsWeighs
    <2>2. QED
      BY <2>1 DEF Lands
  <1>2. /\ plan.bytes = IF Publishes(o) THEN pics + size ELSE was.bytes + size
        /\ plan.sceneBytes = IF Publishes(o) THEN size ELSE was.sceneBytes
        /\ plan.stagedBytes = IF Publishes(o) THEN 0
                              ELSE IF o.kind = "staged" THEN was.stagedBytes + size
                              ELSE was.stagedBytes
        /\ plan.pictures = IF o.kind = "picture" \/ Completes(o) THEN was.pictures + 1
                           ELSE was.pictures
    BY <1>1, PlannedNumbers
  <1>3. /\ was.bytes \in Nat /\ was.sceneBytes \in Nat /\ was.stagedBytes \in Nat
        /\ was.pictures \in Nat
    BY <1>1, MatchesType
  <1>4. /\ o.kind \in {"picture", "upload"} => was.pictures + 1 <= MaxPictures
        /\ pics + size + Beside(o, was) <= MaxDrawingBytes
    <2> DEFINE beside == Beside(o, was)
    <2>1. MaxPictures \in Nat
      BY OnlineStoreAssumption
    <2>2. /\ ~(o.kind \in {"picture", "upload"} /\ was.pictures + 1 > MaxPictures)
          /\ pics + size + beside <= MaxDrawingBytes
      <3> HIDE DEF pics, size, beside
      <3>1. Room(o, was, item) =
                IF o.kind \in {"picture", "upload"} /\ was.pictures + 1 > MaxPictures
                THEN "tooManyPictures"
                ELSE IF pics + size + beside <= MaxDrawingBytes THEN "write" ELSE "tooLarge"
        BY DEF Room, pics, size, beside
      <3>2. QED
        BY <3>1
    <2>3. QED
      BY <1>3, <2>1, <2>2
  <1>5. o.kind \in {"scene", "staged", "commit", "picture", "upload"}
    BY OperationFacts
  <1>6. MaxDrawingBytes \in Nat /\ pics \in Nat
    BY OnlineStoreAssumption
  <1>7. pics + Larger(was.sceneBytes, was.stagedBytes) <= MaxDrawingBytes
    OBVIOUS
  <1>8. pics = was.bytes - was.sceneBytes - was.stagedBytes
    BY DEF PicturesIn
  <1>9. PicturesIn(plan) = plan.bytes - plan.sceneBytes - plan.stagedBytes
    BY DEF PicturesIn
  <1> HIDE DEF plan, size, pics
  <1>10. plan.pictures <= MaxPictures
    BY <1>2, <1>4 DEF Completes
  <1>11. CASE Publishes(o)
    <2>1. /\ Beside(o, was) = 0 /\ plan.bytes = pics + size /\ plan.sceneBytes = size
          /\ plan.stagedBytes = 0
      BY <1>2, <1>11 DEF Beside, Publishes
    <2>2. PicturesIn(plan) = pics /\ Larger(size, 0) = size
      BY <1>1, <1>6, <1>9, <2>1 DEF Larger
    <2>3. PicturesIn(plan) + Larger(plan.sceneBytes, plan.stagedBytes) = pics + size
      BY <2>1, <2>2
    <2>4. QED
      BY <1>1, <1>4, <1>6, <1>10, <2>1, <2>3 DEF plan
  <1>12. CASE o.kind = "staged"
    <2>1. /\ Beside(o, was) = was.stagedBytes /\ plan.bytes = was.bytes + size
          /\ plan.sceneBytes = was.sceneBytes /\ plan.stagedBytes = was.stagedBytes + size
      BY <1>2, <1>12 DEF Beside, Publishes
    <2>2. PicturesIn(plan) = pics
      BY <1>1, <1>3, <1>8, <1>9, <2>1
    <2>3. pics + (was.stagedBytes + size) <= MaxDrawingBytes
      BY <1>1, <1>3, <1>4, <1>6, <2>1
    <2>4. pics + was.sceneBytes <= MaxDrawingBytes
      BY <1>3, <1>6, <1>7 DEF Larger
    <2>5. pics + Larger(was.sceneBytes, was.stagedBytes + size) <= MaxDrawingBytes
      BY <2>3, <2>4 DEF Larger
    <2>6. QED
      BY <1>10, <2>1, <2>2, <2>5 DEF plan
  <1>13. CASE o.kind \in {"picture", "upload"}
    <2> DEFINE l == Larger(was.sceneBytes, was.stagedBytes)
    <2>1. /\ Beside(o, was) = l /\ plan.bytes = was.bytes + size
          /\ plan.sceneBytes = was.sceneBytes /\ plan.stagedBytes = was.stagedBytes
      BY <1>2, <1>13 DEF Beside, Publishes
    <2>2. PicturesIn(plan) = pics + size
      BY <1>1, <1>3, <1>8, <1>9, <2>1
    <2>3. pics + size + l <= MaxDrawingBytes
      BY <1>4, <2>1
    <2>4. Larger(plan.sceneBytes, plan.stagedBytes) = l
      BY <2>1
    <2> HIDE DEF l
    <2>5. PicturesIn(plan) + Larger(plan.sceneBytes, plan.stagedBytes) <= MaxDrawingBytes
      BY <2>2, <2>3, <2>4
    <2>6. QED
      BY <1>10, <2>5 DEF plan
  <1>14. QED
    BY <1>5, <1>11, <1>12, <1>13 DEF Publishes

(* A landing, as a write of what is there. *)
LEMMA LandLands ==
    ASSUME IInv, RInv, CInv, NEW r \in Requests, Land(r)
    PROVE  LET q == req[r]
           IN  Lands(q.op, Was(q), Kept(parts, head, q.now), q.found.has, parts')
  <1> DEFINE q == req[r]
             o == q.op
             kept == Kept(parts, head, q.now)
             has == q.found.has
  <1>1. /\ o \in Operations /\ q.seen = head /\ kept \in [Items -> Seq(Part)]
        /\ o.kind = "picture" => kept[o.item] = <<>>
        /\ o.kind = "upload" => kept[PictureOf(o)] = <<>>
        /\ q.phase = "write"
    BY LandFinds
  <1>2. \A item \in Items : parts'[item] = LandsAs(o, kept, item)
    BY LandPuts
  <1>3. parts' \in [Items -> Seq(Part)]
    BY LandEntitled DEF RInv, PartsAreSent
  <1>4. Was(q) = Settled(head, q.now)
    BY <1>1 DEF Was
  <1>5. DOMAIN Was(q) = DOMAIN NoHead /\ Matches(Was(q), kept)
    BY <1>4, SettledFits DEF CInv
  <1>6. o.kind = "commit" \/ Completes(o) => has.bytes = BytesOf(kept[o.item])
    <2>1. ASSUME o.kind = "commit" \/ Completes(o)
          PROVE  has.bytes = BytesOf(kept[o.item])
      <3>1. MayWrite(o, q.found) /\ (q.found = NotLooked \/ q.found = Look(q, q.found.item))
        BY <1>1 DEF RInv, RequestsAreEntitled, Entitled, IInv, HeadIsSeen, StillThere, Decides
      <3>2. q.found.item = o.item
        BY <2>1, <3>1 DEF MayWrite, Completes
      <3>3. o.item \in Items /\ o.item # Scene
        BY <1>1, <2>1, OperationFacts, ItemFacts DEF Completes
      <3>4. q.found = Look(q, o.item)
        BY <3>1, <3>2, <3>3 DEF NotLooked
      <3>5. Look(q, o.item).has.bytes = BytesOf(kept[o.item])
        BY <1>1, <3>3, LookBytes
      <3>6. QED
        BY <3>4, <3>5
    <2>2. QED
      BY <2>1
  <1> HIDE DEF q, o, kept, has
  <1>7. Lands(o, Was(q), kept, has, parts')
    BY <1>1, <1>2, <1>3, <1>5, <1>6 DEF Lands
  <1>8. QED
    BY <1>7 DEF q, o, kept, has

LEMMA LandCounts ==
    ASSUME IInv, RInv, CInv, NEW r \in Requests, Land(r)
    PROVE  CInv'
  <1> DEFINE q == req[r]
             o == q.op
             was == Was(q)
             kept == Kept(parts, head, q.now)
             has == q.found.has
             plan == Planned(o, was, has, q.now)
  <1>1. /\ o \in Operations /\ q.seen = head /\ kept \in [Items -> Seq(Part)]
        /\ q.phase = "write" /\ IsRequest(q)
    BY LandFinds
  <1>2. Lands(o, was, kept, has, parts')
    BY LandLands
  <1>3. was = Settled(head, q.now)
    BY <1>1 DEF Was
  <1>4. /\ DOMAIN was = DOMAIN NoHead /\ PicturesIn(was) \in Nat
        /\ PicturesIn(was) + Larger(was.sceneBytes, was.stagedBytes) <= MaxDrawingBytes
        /\ was.pictures <= MaxPictures
    BY <1>3, SettledFits DEF CInv
  <1>5. Room(o, was, has) = "write"
    BY <1>1 DEF CInv, WritesHaveRoom
  <1>6. head' = Written(q)
    BY DEF Land
  <1> HIDE DEF was, kept, has
  <1>7. Matches(plan, parts')
    BY <1>2, LandsMatch
  <1>8. /\ PicturesIn(plan) + Larger(plan.sceneBytes, plan.stagedBytes) <= MaxDrawingBytes
        /\ plan.pictures <= MaxPictures
    BY <1>1, <1>2, <1>4, <1>5, PlannedFits
  <1>9. DOMAIN plan = DOMAIN NoHead
    BY <1>1, <1>4, PlannedColumns
  <1>10. /\ head'.bytes = plan.bytes /\ head'.sceneBytes = plan.sceneBytes
         /\ head'.stagedBytes = plan.stagedBytes /\ head'.pendingBytes = plan.pendingBytes
         /\ head'.pictures = plan.pictures
    <2> DEFINE p == IF plan.proof = Nobody THEN o.token ELSE plan.proof
               n == lastNonce + 1
               v == q.now
    <2>1. head' = [plan EXCEPT !.proof = p, !.nonce = n, !.writtenAt = v]
      BY <1>6 DEF Written, was, has
    <2> HIDE DEF plan, p, n, v
    <2>2. QED
      BY <1>9, <2>1, Columns
  <1> HIDE DEF plan
  <1>11. Matches(head', parts')
    BY <1>7, <1>10 DEF Matches
  <1>12. CapsHold'
    <2>1. PicturesIn(head') = PicturesIn(plan)
      BY <1>10 DEF PicturesIn
    <2>2. QED
      BY <1>8, <1>10, <2>1 DEF CapsHold
  <1>13. PICK told \in {"ok", "unavailable"} : Answer(r, told)
    BY DEF Land
  <1>14. ASSUME NEW u \in Requests
         PROVE  /\ req'[u] = IF u = r THEN Idle ELSE req[u]
                /\ answer'[u] = IF u = r THEN told ELSE answer[u]
    BY <1>13 DEF IInv, Types, Answer, CInv
  <1>15. answer' = [u \in Requests |-> answer'[u]]
    BY <1>13 DEF Answer, CInv
  <1>16. WritesHaveRoom' /\ AnswersStand'
    BY <1>14, IdleFacts DEF CInv, WritesHaveRoom, AnswersStand, UnderWay
  <1>17. QED
    BY <1>11, <1>12, <1>15, <1>16 DEF CInv

LEMMA StepCounts == IInv /\ RInv /\ CInv /\ [Next]_vars => CInv'
  <1>1. ASSUME CInv, UNCHANGED vars PROVE CInv'
    BY <1>1 DEF vars, database, CInv, CapsHold, WritesHaveRoom, AnswersStand, UnderWay
  <1>2. ASSUME CInv, Tick PROVE CInv'
    BY <1>2 DEF Tick, database, CInv, CapsHold, WritesHaveRoom, AnswersStand, UnderWay
  <1>3. ASSUME IInv, RInv, CInv, NEW r \in Requests, Arrive(r) \/ Serve(r) \/ Break(r)
        PROVE  CInv'
    BY <1>3, ArriveCounts, ReadHeadCounts, ReadItemCounts, ReadPendingCounts, QuietCounts,
       LandCounts DEF Serve
  <1>4. QED
    BY <1>1, <1>2, <1>3, SweepCounts DEF Next

THEOREM Reckoning == Spec => []CInv
  BY Inductive, Entitlement, CInvInit, StepCounts, PTL DEF Spec

(* The head's counters are what is stored, whatever is written, staged,     *)
(* uploaded, idles away or is swept (storeDb.ts Head).                      *)
THEOREM CountersAlwaysMatch == Spec => []CountersMatch
  <1>1. RInv /\ CInv => CountersMatch
    BY CountersAreSums DEF RInv, PartsAreSent, CInv
  <1>2. QED
    BY <1>1, Entitlement, Reckoning, PTL

(* A drawing's pictures fit beside its scene and beside what would replace  *)
(* it, and are no more than may be (handlers.ts:263-268).                   *)
THEOREM CapsAlwaysHold == Spec => []CapsHold
  <1>1. CInv => CapsHold
    BY DEF CInv
  <1>2. QED
    BY <1>1, Reckoning, PTL

(* A commit whose head is unmoved has room: its parts had it when they came. *)
LEMMA CommitHasRoom ==
    ASSUME IInv, RInv, CInv, NEW r \in Requests, req[r].phase = "item",
           req[r].op.kind = "commit", Unmoved(req[r])
    PROVE  Verdict(req[r].op, Was(req[r]), Look(req[r], req[r].op.item).has)
               \in {"stagedIncomplete", "write"}
  <1> DEFINE q == req[r]
             o == q.op
             was == Was(q)
             kept == Kept(parts, head, q.now)
             has == Look(q, o.item).has
             said == Verdict(o, was, has)
  <1>1. q.seen = head /\ o \in Operations
    BY DEF IInv, HeadIsSeen, StillThere, Decides, Unmoved, Types, IsRequest, Phases
  <1>2. o.item \in Items /\ IsStaged(o.item)
    BY <1>1, OperationFacts
  <1>3. has.bytes = BytesOf(kept[o.item])
    BY <1>1, <1>2, LookBytes
  <1>4. was = Settled(head, q.now)
    BY <1>1 DEF Was
  <1>5. /\ kept \in [Items -> Seq(Part)] /\ Matches(was, kept)
        /\ PicturesIn(was) + Larger(was.sceneBytes, was.stagedBytes) <= MaxDrawingBytes
        /\ PicturesIn(was) \in Nat
    BY <1>4, SettledFits DEF CInv
  <1>6. /\ was.sceneBytes \in Nat /\ was.stagedBytes \in Nat
        /\ has.bytes <= was.stagedBytes
    BY <1>2, <1>3, <1>5, MatchesType
  <1>7. has.bytes \in Nat
    BY <1>2, <1>3, <1>5, HeldType
  <1>8. MaxDrawingBytes \in Nat
    BY OnlineStoreAssumption
  <1>9. said = IF has = Absent \/ Incomplete(has) THEN "stagedIncomplete" ELSE Room(o, was, has)
    BY DEF Verdict
  <1> HIDE DEF was, kept, has, said
  <1>10. PicturesIn(was) + has.bytes <= MaxDrawingBytes
    BY <1>5, <1>6, <1>7, <1>8 DEF Larger
  <1>11. Room(o, was, has) = "write"
    <2>1. Size(o, has) = has.bytes /\ Beside(o, was) = 0
      BY DEF Size, Beside
    <2>2. PicturesIn(was) + Size(o, has) + Beside(o, was) <= MaxDrawingBytes
      BY <1>5, <1>7, <1>10, <2>1
    <2>3. o.kind \notin {"picture", "upload"}
      OBVIOUS
    <2> HIDE DEF o
    <2>4. QED
      BY <2>2, <2>3 DEF Room
  <1>12. said \in {"stagedIncomplete", "write"}
    BY <1>9, <1>11
  <1>13. QED
    BY <1>12 DEF was, has, said

(* Nobody else answers a request, and nothing else refuses a commit so. *)
LEMMA StepFits ==
    ASSUME IInv, RInv, CInv, [Next]_vars, NEW r \in Requests, UnderWay(r),
           req[r].op.kind = "commit", answer'[r] = "tooLarge"
    PROVE  ~Unmoved(req[r])
  <1>1. answer[r] = "none"
    BY DEF CInv, AnswersStand
  <1>2. ASSUME answer' = answer PROVE FALSE
    BY <1>1, <1>2
  <1>3. ASSUME NEW u \in Requests, Arrive(u) PROVE FALSE
    BY <1>3 DEF Arrive, Unanswered
  <1>4. ASSUME NEW u \in Requests, NEW told, Answer(u, told)
        PROVE  u = r /\ told = "tooLarge"
    BY <1>1, <1>4 DEF Answer, CInv
  <1>5. PICK u \in Requests : Serve(u) \/ Break(u)
    <2>1. Sweep \/ Tick \/ UNCHANGED vars => answer' = answer
      BY DEF Sweep, Tick, vars
    <2>2. QED
      BY <1>2, <1>3, <2>1 DEF Next
  <1>6. CASE ReadHead(u)
    <2>1. \E told \in {"forbidden", "conflict"} : Answer(u, told) \/ answer' = answer
      BY <1>6 DEF ReadHead, Go
    <2>2. QED
      BY <1>2, <1>4, <2>1
  <1>7. CASE ReadItem(u)
    <2> DEFINE first == CASE req[u].op.kind = "scene" -> NotLooked
                          [] req[u].op.kind = "upload" -> Look(req[u], PictureOf(req[u].op))
                          [] OTHER -> Look(req[u], req[u].op.item)
               verdict == Verdict(req[u].op, Was(req[u]), first.has)
    <2>1. req[u].phase = "item" /\ Proceed(u, verdict, [req[u] EXCEPT !.found = first])
      BY <1>7 DEF ReadItem
    <2>2. Answer(u, verdict) \/ answer' = answer
      <3> HIDE DEF first, verdict
      <3>1. QED
        BY <2>1, ProceedsFinding DEF Go
    <2>3. u = r /\ verdict = "tooLarge"
      <3> HIDE DEF first, verdict
      <3>1. QED
        BY <1>2, <1>4, <2>2
    <2>4. first = Look(req[r], req[r].op.item)
      BY <2>3
    <2>5. Verdict(req[r].op, Was(req[r]), Look(req[r], req[r].op.item).has) = "tooLarge"
      BY <2>3, <2>4
    <2>6. QED
      BY <2>1, <2>3, <2>5, CommitHasRoom
  <1>8. CASE ReadPending(u)
    <2> DEFINE upload == Look(req[u], req[u].op.item)
               verdict == Place(req[u].op, Was(req[u]), upload.has)
    <2>1. req[u].phase = "pending" /\ Proceed(u, verdict, [req[u] EXCEPT !.found = upload])
      BY <1>8 DEF ReadPending
    <2> HIDE DEF upload, verdict
    <2>2. Answer(u, verdict) \/ answer' = answer
      BY <2>1, ProceedsFinding DEF Go
    <2>3. u = r
      BY <1>2, <1>4, <2>2
    <2>4. QED
      BY <2>1, <2>3 DEF RInv, RequestsAreEntitled, Entitled
  <1>9. CASE ReadPart(u)
    <2>1. \E told \in {"ok", "partExists"} : Answer(u, told)
      BY <1>9 DEF ReadPart
    <2>2. QED
      BY <1>4, <2>1
  <1>10. CASE Land(u)
    <2>1. \E told \in {"ok", "unavailable"} : Answer(u, told)
      BY <1>10 DEF Land
    <2>2. QED
      BY <1>4, <2>1
  <1>11. CASE LoseRace(u)
    <2>1. Answer(u, "busy") \/ answer' = answer
      BY <1>11 DEF LoseRace, Go
    <2>2. QED
      BY <1>2, <1>4, <2>1
  <1>12. CASE Break(u)
    <2>1. Answer(u, "unavailable")
      BY <1>12 DEF Break
    <2>2. QED
      BY <1>4, <2>1
  <1>13. QED
    BY <1>5, <1>6, <1>7, <1>8, <1>9, <1>10, <1>11, <1>12 DEF Serve

(* A commit is refused for its size only where another write has moved the  *)
(* head since it read it (handlers.ts:262-268, 366-368).                    *)
THEOREM CommitAlwaysFits == Spec => CommitFits
  <1>1. IInv /\ RInv /\ CInv /\ [Next]_vars =>
            [\A r \in Requests :
                UnderWay(r) /\ req[r].op.kind = "commit" /\ answer'[r] = "tooLarge"
                => ~Unmoved(req[r])]_vars
    BY StepFits
  <1>2. QED
    BY <1>1, Inductive, Entitlement, Reckoning, PTL DEF Spec, CommitFits
=============================================================================
