-------------------------- MODULE BoardStore_proofs --------------------------
(***************************************************************************)
(* Theorems about BoardStore, for every set of ids, requests and           *)
(* operations, and every number of attempts; and about MergeLoop, whose    *)
(* operators the repository's writes are made of, for every scene, request *)
(* and order.  The two share constants and no variable.                    *)
(***************************************************************************)
EXTENDS BoardStore, MergeLoop, SequenceTheorems, FiniteSetTheorems, WellFoundedInduction, TLAPS

-----------------------------------------------------------------------------
(* The operators of the merge return what they should. *)

(* Copying an element with another picture, or none, leaves an entry. *)
LEMMA KeepPictureType ==
    ASSUME NEW id \in Ids, NEW newest \in Entry, NEW stored \in Entry, NEW new \in Entry
    PROVE  KeepPicture(id, newest, stored, new) \in Entry
  <1>1. PictureOf(stored, new) \in Pictures \cup {NoPicture}
    BY DEF PictureOf, HasPicture, IsLive, Entry, Element
  <1>2. QED
    BY <1>1 DEF KeepPicture, Entry, Element

LEMMA MergeType ==
    ASSUME NEW old \in [Ids -> Entry], NEW new \in [Ids -> Entry]
    PROVE  Merge(old, new) \in [Ids -> Entry]
  BY DEF Merge

LEMMA KeepPicturesType ==
    ASSUME NEW newest \in [Ids -> Entry], NEW stored \in [Ids -> Entry],
           NEW new \in [Ids -> Entry]
    PROVE  KeepPictures(newest, stored, new) \in [Ids -> Entry]
  BY KeepPictureType DEF KeepPictures

LEMMA StowedType ==
    ASSUME NEW elements \in [Ids -> Entry]
    PROVE  Stowed(elements) \in [Ids -> Entry]
  <1>1. ASSUME NEW id \in Ids
        PROVE  (IF elements[id] = Absent \/ ~elements[id].isDeleted
                THEN elements[id]
                ELSE [elements[id] EXCEPT !.picture = NoPicture]) \in Entry
    <2>1. elements[id] \in Entry
      OBVIOUS
    <2>2. QED
      BY <2>1 DEF Entry, Element
  <1>2. QED
    BY <1>1 DEF Stowed

(* A set of ids can be counted. *)
LEMMA CountType ==
    ASSUME NEW S, S \subseteq Ids
    PROVE  Cardinality(S) \in Nat
  BY ReconcileAssumption, FS_Subset, FS_CardinalityType

LEMMA MergePlaceType ==
    ASSUME NEW place \in Places, NEW arriving \in Places
    PROVE  MergePlace(place, arriving) \in Places
  <1>1. Cardinality(Present(place)) \in Nat
    BY CountType DEF Present
  <1>2. ASSUME NEW id \in Ids
        PROVE  Cardinality({j \in Ids : place[j] = 0 /\ arriving[j] \in 1..arriving[id]}) \in Nat
    BY CountType
  <1>3. QED
    BY <1>1, <1>2 DEF MergePlace, Places

LEMMA ApplyOrderType ==
    ASSUME NEW place \in Places, NEW rank \in Places
    PROVE  ApplyOrder(place, rank) \in Places
  <1>1. ASSUME NEW id \in Ids
        PROVE  Cardinality({j \in Present(place) : j = id \/ Below(place, rank, j, id)}) \in Nat
    BY CountType DEF Present
  <1>2. QED
    BY <1>1 DEF ApplyOrder, Places

(* What commit() writes is a board document, at the next rev, and no more   *)
(* deleted than the one that was read.                                      *)
LEMMA WrittenType ==
    ASSUME NEW b \in BoardDoc, NEW o \in Operation
    PROVE  /\ Written(b, o) \in BoardDoc
           /\ Written(b, o).rev = b.rev + 1
           /\ Written(b, o).deleted = b.deleted
  <1>1. /\ b.elements \in [Ids -> Entry] /\ b.place \in Places
        /\ b.rev \in Nat /\ b.deleted \in BOOLEAN
    BY DEF BoardDoc
  <1>2. /\ o.patch.elements \in [Ids -> Entry] /\ o.patch.place \in Places
        /\ o.patch.order \in Places \cup {Absent}
    BY DEF Operation, Patch
  <1>3. MergedElements(b, o.patch) \in [Ids -> Entry]
    BY <1>1, <1>2, MergeType, KeepPicturesType DEF MergedElements
  <1>4. MergedPlace(b, o.patch) \in Places
    BY <1>1, <1>2, MergePlaceType, ApplyOrderType DEF MergedPlace
  <1>5. ASSUME NEW elements \in [Ids -> Entry], NEW place \in Places
        PROVE  /\ NextDocument(b, elements, place) \in BoardDoc
               /\ NextDocument(b, elements, place).rev = b.rev + 1
               /\ NextDocument(b, elements, place).deleted = b.deleted
    BY <1>1, StowedType DEF NextDocument, BoardDoc
  <1>6. QED
    BY <1>2, <1>3, <1>4, <1>5 DEF Written

LEMMA PicturesOfType ==
    ASSUME NEW elements \in [Ids -> Entry]
    PROVE  PicturesOf(elements) \subseteq Pictures
  <1>1. ASSUME NEW id \in Ids, HasPicture(elements[id])
        PROVE  elements[id].picture \in Pictures
    <2>1. elements[id] \in Entry
      OBVIOUS
    <2>2. QED
      BY <1>1, <2>1 DEF HasPicture, IsLive, Entry, Element
  <1>2. QED
    BY <1>1 DEF PicturesOf

LEMMA NewBoardType == NewBoard \in BoardDoc
  BY DEF NewBoard, BoardDoc, Places, Entry

-----------------------------------------------------------------------------
(* The inductive invariant. *)

LEMMA OperationType ==
    ASSUME TypeOK, NEW r \in Requests, op[r] # Nothing
    PROVE  op[r] \in Operation
  BY BoardStoreAssumption DEF TypeOK

(* The document a request is about to write, and its pictures, are typed. *)
LEMMA WorkType ==
    ASSUME TypeOK, NEW r \in Requests, op[r] # Nothing
    PROVE  /\ Written(seen[r], op[r]) \in BoardDoc
           /\ Written(seen[r], op[r]).rev = seen[r].rev + 1
           /\ Written(seen[r], op[r]).deleted = seen[r].deleted
           /\ PicturesOf(Written(seen[r], op[r]).elements) \subseteq Pictures
  <1>1. seen[r] \in BoardDoc /\ op[r] \in Operation
    BY OperationType DEF TypeOK
  <1>2. Written(seen[r], op[r]) \in BoardDoc
    BY <1>1, WrittenType
  <1>3. Written(seen[r], op[r]).elements \in [Ids -> Entry]
    BY <1>2 DEF BoardDoc
  <1>4. QED
    BY <1>1, <1>2, <1>3, WrittenType, PicturesOfType

LEMMA InitHolds == Init => IndInv
  <1> SUFFICES ASSUME Init PROVE IndInv
    OBVIOUS
  <1>1. TypeOK
    BY NewBoardType, BoardStoreAssumption DEF Init, TypeOK, Answers, Phases
  <1>2. NamedPicturesStored
    BY DEF Init, NamedPicturesStored, PicturesOf, NewBoard, HasPicture, IsLive
  <1>3. QED
    BY <1>1, <1>2 DEF Init, IndInv, OptimisticLock, Bookkeeping, PicturesFirst,
                      AttemptsArePaidFor, ConflictMeansContention, UnderWay

LEMMA ArriveKeeps ==
    ASSUME IndInv, NEW r \in Requests, Arrive(r)
    PROVE  IndInv'
  <1> USE DEF IndInv
  <1>1. PICK o \in Operations :
            /\ op' = [op EXCEPT ![r] = o]
            /\ expected' = [expected EXCEPT ![r] = o.rev]
            /\ Go(r, IF o.kind = "put" /\ o.rev = AnyRev THEN "readRev" ELSE "read")
    BY DEF Arrive
  <1>2. o \in Operation /\ o # Nothing
    BY BoardStoreAssumption
  <1>3. o.rev \in Nat /\ o.kind \in {"patch", "put", "delete"}
    BY <1>2 DEF Operation
  <1>4. board.rev \in Nat
    BY DEF TypeOK, BoardDoc
  <1>5. op[r] = Nothing /\ UNCHANGED <<board, pictures, seen, answer>>
    BY <1>1 DEF Arrive, Go
  <1>6. phase[r] = "idle" /\ answer[r] = "none"
    BY <1>5 DEF Bookkeeping, UnderWay
  <1>7. TypeOK'
    BY <1>1, <1>3, <1>4, <1>5, BoardStoreAssumption DEF Arrive, TypeOK, Go, Phases
  <1>8. OptimisticLock'
    BY <1>1, <1>5 DEF OptimisticLock, Go, TypeOK
  <1>9. Bookkeeping'
    BY <1>1, <1>2, <1>3, <1>5, <1>6 DEF Bookkeeping, UnderWay, Go, TypeOK
  <1>10. PicturesFirst' /\ NamedPicturesStored'
    BY <1>1, <1>5 DEF PicturesFirst, NamedPicturesStored, Go, TypeOK
  <1>11. AttemptsArePaidFor'
    BY <1>1, <1>2, <1>3, <1>4, <1>5, <1>6, BoardStoreAssumption
    DEF Arrive, AttemptsArePaidFor, UnderWay, Go, TypeOK
  <1>12. ConflictMeansContention'
    BY <1>1, <1>5, <1>6 DEF Arrive, ConflictMeansContention, TypeOK
  <1>13. QED
    BY <1>7, <1>8, <1>9, <1>10, <1>11, <1>12

LEMMA ReadRevKeeps ==
    ASSUME IndInv, NEW r \in Requests, ReadRev(r)
    PROVE  IndInv'
  <1> USE DEF IndInv
  <1>1. board \in BoardDoc /\ board.rev \in Nat
    BY DEF TypeOK, BoardDoc
  <1>2. phase[r] = "readRev" /\ UnderWay(r) /\ op[r].kind = "put" /\ op[r].rev = AnyRev
    BY DEF ReadRev, Bookkeeping
  <1>3. UNCHANGED <<board, pictures, op, seen, attempt, arrivedAt>>
    BY DEF ReadRev
  <1>4. TypeOK'
    BY <1>1, <1>3 DEF ReadRev, TypeOK, Answer, Go, Phases, Answers
  <1>5. OptimisticLock'
    BY <1>3 DEF ReadRev, OptimisticLock, Answer, Go, TypeOK
  <1>6. Bookkeeping'
    BY <1>2, <1>3 DEF ReadRev, Bookkeeping, UnderWay, Answer, Go, TypeOK
  <1>7. PicturesFirst' /\ NamedPicturesStored'
    BY <1>3 DEF ReadRev, PicturesFirst, NamedPicturesStored, Answer, Go, TypeOK
  <1>8. AttemptsArePaidFor' /\ ConflictMeansContention'
    BY <1>2, <1>3 DEF ReadRev, AttemptsArePaidFor, ConflictMeansContention, UnderWay,
                      Answer, Go, TypeOK
  <1>9. QED
    BY <1>4, <1>5, <1>6, <1>7, <1>8

LEMMA ReadKeeps ==
    ASSUME IndInv, NEW r \in Requests, Read(r)
    PROVE  IndInv'
  <1> USE DEF IndInv
  <1>1. board \in BoardDoc /\ board.rev \in Nat /\ expected[r] \in Nat
    BY DEF TypeOK, BoardDoc
  <1>2. phase[r] = "read" /\ UnderWay(r) /\ op[r].kind # "delete"
    BY DEF Read, Bookkeeping
  <1>3. UNCHANGED <<board, pictures, op, expected, attempt, arrivedAt>>
    BY DEF Read
  <1>4. TypeOK'
    BY <1>1, <1>3 DEF Read, TypeOK, Answer, Go, Phases, Answers
  <1>5. OptimisticLock'
    BY <1>1, <1>3 DEF Read, OptimisticLock, Answer, Go, TypeOK
  <1>6. Bookkeeping'
    BY <1>2, <1>3 DEF Read, Bookkeeping, UnderWay, Answer, Go, TypeOK
  <1>7. PicturesFirst' /\ NamedPicturesStored'
    BY <1>3 DEF Read, PicturesFirst, NamedPicturesStored, Answer, Go, TypeOK
  <1>8. AttemptsArePaidFor' /\ ConflictMeansContention'
    BY <1>2, <1>3 DEF Read, AttemptsArePaidFor, ConflictMeansContention, UnderWay,
                      Answer, Go, TypeOK
  <1>9. QED
    BY <1>4, <1>5, <1>6, <1>7, <1>8

LEMMA StowKeeps ==
    ASSUME IndInv, NEW r \in Requests, Stow(r)
    PROVE  IndInv'
  <1> USE DEF IndInv
  <1> DEFINE named == PicturesOf(Written(seen[r], op[r]).elements)
  <1>1. phase[r] = "stow" /\ UnderWay(r)
    BY DEF Stow, Bookkeeping
  <1>2. named \subseteq Pictures
    BY <1>1, WorkType DEF UnderWay
  <1>3. /\ pictures' = pictures \cup named
        /\ UNCHANGED <<board, op, seen, expected, attempt, arrivedAt>>
    BY DEF Stow
  <1>4. \/ Go(r, "commit")
        \/ Answer(r, "tooLarge")
    BY DEF Stow
  <1> HIDE DEF named
  <1>5. TypeOK'
    BY <1>2, <1>3, <1>4 DEF TypeOK, Answer, Go, Phases, Answers
  <1>6. OptimisticLock'
    BY <1>1, <1>3, <1>4 DEF OptimisticLock, Answer, Go, TypeOK
  <1>7. Bookkeeping'
    BY <1>1, <1>3, <1>4 DEF Bookkeeping, UnderWay, Answer, Go, TypeOK
  <1>8. PicturesFirst'
    BY <1>3, <1>4 DEF PicturesFirst, Answer, Go, TypeOK, named
  <1>9. NamedPicturesStored'
    BY <1>3 DEF NamedPicturesStored
  <1>10. AttemptsArePaidFor' /\ ConflictMeansContention'
    BY <1>1, <1>3, <1>4 DEF AttemptsArePaidFor, ConflictMeansContention, UnderWay,
                            Answer, Go, TypeOK
  <1>11. QED
    BY <1>5, <1>6, <1>7, <1>8, <1>9, <1>10

(* An update that bumps the rev leaves every other request's copy behind. *)
LEMMA CommitKeeps ==
    ASSUME IndInv, NEW r \in Requests, Commit(r)
    PROVE  IndInv'
  <1> USE DEF IndInv
  <1> DEFINE doc == Written(seen[r], op[r])
  <1>1. phase[r] = "commit" /\ UnderWay(r) /\ op[r].kind # "delete" /\ seen[r] = board
    BY DEF Commit, Bookkeeping, OptimisticLock
  <1>2. doc \in BoardDoc /\ doc.rev = board.rev + 1 /\ doc.deleted = board.deleted
    BY <1>1, WorkType DEF UnderWay
  <1>3. board' = doc /\ UNCHANGED <<pictures, op, seen, expected, attempt, arrivedAt>>
    BY <1>2 DEF Commit, BoardDoc
  <1>4. PICK told \in {"ok", "error"} : Answer(r, told)
    BY DEF Commit
  <1>5. PicturesOf(doc.elements) \subseteq pictures
    BY <1>1 DEF PicturesFirst
  <1>6. board.rev \in Nat /\ board'.rev = board.rev + 1
    BY <1>2, <1>3 DEF TypeOK, BoardDoc
  <1> HIDE DEF doc
  <1>7. TypeOK'
    BY <1>2, <1>3, <1>4 DEF TypeOK, Answer, Phases, Answers
  <1>8. OptimisticLock'
    <2> SUFFICES ASSUME NEW q \in Requests, phase'[q] \in {"stow", "commit"}
                 PROVE  /\ seen[q].rev <= board'.rev
                        /\ seen[q].rev # board'.rev
                        /\ ~seen[q].deleted
      BY <1>3 DEF OptimisticLock
    <2>1. phase[q] \in {"stow", "commit"} /\ seen[q].rev \in Nat
      BY <1>4 DEF Answer, TypeOK, BoardDoc
    <2>2. QED
      BY <2>1, <1>6 DEF OptimisticLock
  <1>9. Bookkeeping'
    BY <1>1, <1>3, <1>4 DEF Bookkeeping, UnderWay, Answer, TypeOK
  <1>10. PicturesFirst'
    BY <1>3, <1>4 DEF PicturesFirst, Answer, TypeOK
  <1>11. NamedPicturesStored'
    BY <1>3, <1>5 DEF NamedPicturesStored
  <1>12. AttemptsArePaidFor' /\ ConflictMeansContention'
    <2>1. ASSUME NEW q \in Requests
          PROVE  seen[q].rev \in Nat /\ arrivedAt[q] \in Nat /\ attempt[q] \in Nat
      BY DEF TypeOK, BoardDoc
    <2>2. QED
      BY <1>1, <1>3, <1>4, <1>6, <2>1, BoardStoreAssumption
      DEF AttemptsArePaidFor, ConflictMeansContention, UnderWay, Answer, TypeOK
  <1>13. QED
    BY <1>7, <1>8, <1>9, <1>10, <1>11, <1>12

LEMMA LoseRaceKeeps ==
    ASSUME IndInv, NEW r \in Requests, LoseRace(r)
    PROVE  IndInv'
  <1> USE DEF IndInv
  <1>1. phase[r] = "commit" /\ UnderWay(r) /\ op[r].kind # "delete"
    BY DEF LoseRace, LoseRaceUpTo, Bookkeeping
  <1>2. UNCHANGED <<board, pictures, op, seen, expected, arrivedAt>>
    BY DEF LoseRace, LoseRaceUpTo
  <1>3. seen[r].rev < board.rev
    <2>1. seen[r].rev \in Nat /\ board.rev \in Nat
      BY DEF TypeOK, BoardDoc
    <2>2. seen[r].rev <= board.rev /\ seen[r].rev # board.rev
      BY <1>1 DEF LoseRace, LoseRaceUpTo, OptimisticLock
    <2>3. QED
      BY <2>1, <2>2
  <1>4. TypeOK'
    BY <1>2, BoardStoreAssumption DEF LoseRace, LoseRaceUpTo, TypeOK, Answer, Go, Phases, Answers
  <1>5. OptimisticLock'
    BY <1>2 DEF LoseRace, LoseRaceUpTo, OptimisticLock, Answer, Go, TypeOK
  <1>6. Bookkeeping'
    BY <1>1, <1>2 DEF LoseRace, LoseRaceUpTo, Bookkeeping, UnderWay, Answer, Go, TypeOK
  <1>7. PicturesFirst' /\ NamedPicturesStored'
    BY <1>2 DEF LoseRace, LoseRaceUpTo, PicturesFirst, NamedPicturesStored, Answer, Go, TypeOK
  <1>8. AttemptsArePaidFor' /\ ConflictMeansContention'
    <2>1. /\ board.rev \in Nat /\ seen[r].rev \in Nat /\ arrivedAt[r] \in Nat
          /\ attempt[r] \in Nat /\ MaxAttempts \in Nat
      BY BoardStoreAssumption DEF TypeOK, BoardDoc
    <2>2. op[r].kind = "patch" => /\ attempt[r] \in 1..MaxAttempts
                                  /\ arrivedAt[r] + attempt[r] <= board.rev
      BY <1>1, <1>3, <2>1 DEF AttemptsArePaidFor
    <2>3. QED
      BY <1>1, <1>2, <2>1, <2>2
      DEF LoseRace, LoseRaceUpTo, AttemptsArePaidFor, ConflictMeansContention,
          UnderWay, Answer, Go, TypeOK
  <1>9. QED
    BY <1>4, <1>5, <1>6, <1>7, <1>8

LEMMA DeleteKeeps ==
    ASSUME IndInv, NEW r \in Requests, Delete(r)
    PROVE  IndInv'
  <1> USE DEF IndInv
  <1>1. phase[r] = "read" /\ UnderWay(r) /\ op[r].kind = "delete"
    BY DEF Delete, Bookkeeping
  <1>2. UNCHANGED <<pictures, op, seen, expected, attempt, arrivedAt>>
    BY DEF Delete
  <1>3. \/ board' = board
        \/ /\ board' \in BoardDoc
           /\ board'.rev = board.rev + 1
           /\ board'.elements = board.elements
    <2>1. board \in BoardDoc
      BY DEF TypeOK
    <2>2. /\ SoftDeleted(board) \in BoardDoc
          /\ SoftDeleted(board).rev = board.rev + 1
          /\ SoftDeleted(board).elements = board.elements
      BY <2>1 DEF SoftDeleted, BoardDoc
    <2>3. board' = board \/ board' = SoftDeleted(board)
      BY DEF Delete
    <2>4. QED
      BY <2>2, <2>3
  <1>4. PICK told \in Answers : Answer(r, told)
    BY DEF Delete, Answers
  <1>5. board.rev \in Nat
    BY DEF TypeOK, BoardDoc
  <1>6. TypeOK'
    BY <1>2, <1>3, <1>4 DEF TypeOK, Answer, Phases
  <1>7. OptimisticLock'
    <2> SUFFICES ASSUME NEW q \in Requests, phase'[q] \in {"stow", "commit"}
                 PROVE  /\ seen[q].rev <= board'.rev
                        /\ seen[q].rev = board'.rev => seen[q] = board'
                        /\ ~seen[q].deleted
      BY <1>2 DEF OptimisticLock
    <2>1. phase[q] \in {"stow", "commit"} /\ seen[q].rev \in Nat
      BY <1>4 DEF Answer, TypeOK, BoardDoc
    <2>2. QED
      BY <2>1, <1>3, <1>5 DEF OptimisticLock
  <1>8. Bookkeeping'
    BY <1>1, <1>2, <1>4 DEF Bookkeeping, UnderWay, Answer, Answers, TypeOK
  <1>9. PicturesFirst' /\ NamedPicturesStored'
    BY <1>2, <1>3, <1>4 DEF PicturesFirst, NamedPicturesStored, Answer, TypeOK
  <1>10. AttemptsArePaidFor' /\ ConflictMeansContention'
    <2>1. ASSUME NEW q \in Requests
          PROVE  seen[q].rev \in Nat /\ arrivedAt[q] \in Nat /\ attempt[q] \in Nat
      BY DEF TypeOK, BoardDoc
    <2>2. board'.rev \in Nat /\ board.rev <= board'.rev
      BY <1>3, <1>5
    <2>3. QED
      BY <1>1, <1>2, <1>4, <1>5, <2>1, <2>2, BoardStoreAssumption
      DEF AttemptsArePaidFor, ConflictMeansContention, UnderWay, Answer, TypeOK
  <1>11. QED
    BY <1>6, <1>7, <1>8, <1>9, <1>10

LEMMA BreakKeeps ==
    ASSUME IndInv, NEW r \in Requests, Break(r)
    PROVE  IndInv'
  <1> USE DEF IndInv, Break
  <1>1. UnderWay(r)
    BY DEF Bookkeeping
  <1>2. TypeOK'
    BY DEF TypeOK, Answer, Phases, Answers
  <1>3. OptimisticLock' /\ PicturesFirst' /\ NamedPicturesStored'
    BY DEF OptimisticLock, PicturesFirst, NamedPicturesStored, Answer, TypeOK
  <1>4. Bookkeeping'
    BY <1>1 DEF Bookkeeping, UnderWay, Answer, TypeOK
  <1>5. AttemptsArePaidFor' /\ ConflictMeansContention'
    BY <1>1 DEF AttemptsArePaidFor, ConflictMeansContention, UnderWay, Answer, TypeOK
  <1>6. QED
    BY <1>2, <1>3, <1>4, <1>5

LEMMA LeaveKeeps ==
    ASSUME IndInv, NEW r \in Requests, Leave(r)
    PROVE  IndInv'
  <1> USE DEF IndInv, Leave
  <1>1. phase[r] = "idle"
    BY DEF Bookkeeping, UnderWay
  <1>2. TypeOK'
    BY NewBoardType, BoardStoreAssumption DEF TypeOK
  <1>3. OptimisticLock' /\ PicturesFirst' /\ NamedPicturesStored'
    BY <1>1 DEF OptimisticLock, PicturesFirst, NamedPicturesStored, TypeOK
  <1>4. Bookkeeping'
    BY <1>1 DEF Bookkeeping, UnderWay, TypeOK
  <1>5. AttemptsArePaidFor' /\ ConflictMeansContention'
    BY <1>1 DEF AttemptsArePaidFor, ConflictMeansContention, UnderWay, TypeOK
  <1>6. QED
    BY <1>2, <1>3, <1>4, <1>5

LEMMA StepKeeps == IndInv /\ [Next]_vars => IndInv'
  <1> SUFFICES ASSUME IndInv, [Next]_vars PROVE IndInv'
    OBVIOUS
  <1>1. CASE UNCHANGED vars
    BY <1>1 DEF vars, IndInv, TypeOK, OptimisticLock, Bookkeeping, PicturesFirst,
                NamedPicturesStored, AttemptsArePaidFor, ConflictMeansContention, UnderWay
  <1>2. CASE Next
    BY <1>2, ArriveKeeps, ReadRevKeeps, ReadKeeps, StowKeeps, CommitKeeps, LoseRaceKeeps,
       DeleteKeeps, BreakKeeps, LeaveKeeps DEF Next, Serve
  <1>3. QED
    BY <1>1, <1>2

(* Every invariant of the repository holds in every state it can reach: no   *)
(* number of requests, attempts or operations breaks the optimistic lock.    *)
THEOREM Invariance == Spec => []IndInv
  <1>1. Init => IndInv
    BY InitHolds
  <1>2. IndInv /\ [Next]_vars => IndInv'
    BY StepKeeps
  <1>3. QED
    BY <1>1, <1>2, PTL DEF Spec

(* The state is always what it is declared to be. *)
THEOREM TypeCorrect == Spec => []TypeOK
  <1>1. IndInv => TypeOK
    BY DEF IndInv
  <1>2. QED
    BY <1>1, Invariance, PTL

(* Between its read and its update a request holds the board as it is, or a  *)
(* copy whose rev the board has left (repository.ts commit).                 *)
THEOREM LockIsSafe == Spec => []OptimisticLock
  <1>1. IndInv => OptimisticLock
    BY DEF IndInv
  <1>2. QED
    BY <1>1, Invariance, PTL

(* A board never names a picture that is not stored (pictures.ts stow).      *)
THEOREM PicturesAreThere == Spec => []NamedPicturesStored
  <1>1. IndInv => NamedPicturesStored
    BY DEF IndInv
  <1>2. QED
    BY <1>1, Invariance, PTL

(* A patch is told "conflict" only after MaxAttempts lost races.             *)
THEOREM ConflictIsEarned == Spec => []ConflictMeansContention
  <1>1. IndInv => ConflictMeansContention
    BY DEF IndInv
  <1>2. QED
    BY <1>1, Invariance, PTL

-----------------------------------------------------------------------------
(* What a step may never do. *)

(* The merge keeps, under every id, a stamp at least as new as both sides'.  *)
LEMMA MergeKeeps ==
    ASSUME NEW b \in BoardDoc, NEW o \in Operation, o.kind = "patch"
    PROVE  /\ Kept(b.elements, Written(b, o).elements)
           /\ Kept(o.patch.elements, Written(b, o).elements)
  <1>1. b.elements \in [Ids -> Entry] /\ o.patch.elements \in [Ids -> Entry]
    BY DEF BoardDoc, Operation, Patch
  <1>2. ASSUME NEW id \in Ids
        PROVE  LET mine == b.elements[id]
                   theirs == o.patch.elements[id]
                   left == Written(b, o).elements[id]
               IN  /\ mine # Absent => left # Absent /\ ~IsNewer(mine, left)
                   /\ theirs # Absent => left # Absent /\ ~IsNewer(theirs, left)
    <2> DEFINE mine == b.elements[id]
               theirs == o.patch.elements[id]
               newest == IF Takes(theirs, mine) THEN theirs ELSE mine
               kept == KeepPicture(id, newest, mine, theirs)
               left == IF kept = Absent \/ ~kept.isDeleted THEN kept
                         ELSE [kept EXCEPT !.picture = NoPicture]
    <2>1. Written(b, o).elements[id] = left
      BY <1>1 DEF Written, NextDocument, Stowed, MergedElements, KeepPictures, Merge
    <2>2. mine \in Entry /\ theirs \in Entry /\ newest \in Entry
      BY <1>1
    <2>3. /\ mine # Absent => newest # Absent /\ ~IsNewer(mine, newest)
          /\ theirs # Absent => newest # Absent /\ ~IsNewer(theirs, newest)
      BY <2>2 DEF Takes, IsNewer, Entry, Element
    <2> HIDE DEF mine, theirs, newest
    <2>4. ASSUME newest # Absent
          PROVE  /\ left # Absent
                 /\ left.version = newest.version
                 /\ left.versionNonce = newest.versionNonce
                 /\ left.updated = newest.updated
      <3>1. newest \in Element
        BY <2>2, <2>4 DEF Entry
      <3>2. PictureOf(mine, theirs) \in Pictures \cup {NoPicture}
        BY <2>2 DEF PictureOf, HasPicture, IsLive, Entry, Element
      <3>3. /\ kept \in Element
            /\ kept.version = newest.version
            /\ kept.versionNonce = newest.versionNonce
            /\ kept.updated = newest.updated
        BY <3>1, <3>2, <2>4 DEF KeepPicture, Element
      <3> HIDE DEF kept
      <3>4. QED
        BY <3>3, ReconcileAssumption DEF Element
    <2>5. ASSUME NEW e, newest # Absent, ~IsNewer(e, newest)
          PROVE  ~IsNewer(e, left)
      BY <2>4, <2>5 DEF IsNewer
    <2> HIDE DEF left
    <2>6. /\ mine # Absent => left # Absent /\ ~IsNewer(mine, left)
          /\ theirs # Absent => left # Absent /\ ~IsNewer(theirs, left)
      BY <2>3, <2>4, <2>5
    <2>7. QED
      BY <2>1, <2>6 DEF mine, theirs
  <1>3. QED
    BY <1>2 DEF Kept

(* At its update, a request writes onto the board as it is. *)
LEMMA CommitOnCurrent ==
    ASSUME IndInv, NEW r \in Requests, Commit(r)
    PROVE  /\ UnderWay(r) /\ op[r] \in Operation /\ op[r].kind # "delete"
           /\ board \in BoardDoc /\ ~board.deleted
           /\ seen[r] = board
           /\ board' = Written(board, op[r])
  <1>1. phase[r] = "commit" /\ UnderWay(r) /\ op[r].kind # "delete"
    BY DEF Commit, IndInv, Bookkeeping
  <1>2. seen[r] = board /\ ~board.deleted
    BY <1>1 DEF Commit, IndInv, OptimisticLock
  <1>3. op[r] \in Operation /\ board \in BoardDoc
    BY <1>1, OperationType DEF IndInv, TypeOK, UnderWay
  <1>4. Written(board, op[r]) \in BoardDoc /\ Written(board, op[r]).deleted = board.deleted
    BY <1>3, WrittenType
  <1>5. board' = Written(board, op[r])
    BY <1>2, <1>4 DEF Commit, BoardDoc
  <1>6. QED
    BY <1>1, <1>2, <1>3, <1>5

(* No patch, however late or repeated, takes a stored edit back.             *)
THEOREM NothingRegresses == Spec => PatchNeverRegresses
  <1>1. IndInv /\ [Next]_vars =>
          [\A r \in Requests : PatchStep(r) => Kept(board.elements, board'.elements)]_vars
    BY CommitOnCurrent, MergeKeeps DEF PatchStep
  <1>2. QED
    BY <1>1, Invariance, PTL DEF Spec, PatchNeverRegresses

(* A patch that took effect is on the board, or something newer is.          *)
THEOREM AcceptedIsServed == Spec => PatchIsServed
  <1>1. IndInv /\ [Next]_vars =>
          [\A r \in Requests : PatchStep(r) => Kept(op[r].patch.elements, board'.elements)]_vars
    BY CommitOnCurrent, MergeKeeps DEF PatchStep
  <1>2. QED
    BY <1>1, Invariance, PTL DEF Spec, PatchIsServed

(* An edit that comes without the picture does not lose it (pictures.ts     *)
(* keepPictures): what a patch leaves live of an image that had a picture   *)
(* has one.                                                                 *)
LEMMA MergeKeepsPictures ==
    ASSUME NEW b \in BoardDoc, NEW o \in Operation, o.kind = "patch",
           NEW id \in Images, HasPicture(b.elements[id]), IsLive(Written(b, o).elements[id])
    PROVE  HasPicture(Written(b, o).elements[id])
  <1> DEFINE mine == b.elements[id]
             theirs == o.patch.elements[id]
             newest == IF Takes(theirs, mine) THEN theirs ELSE mine
             kept == KeepPicture(id, newest, mine, theirs)
             left == IF kept = Absent \/ ~kept.isDeleted THEN kept
                       ELSE [kept EXCEPT !.picture = NoPicture]
  <1>1. id \in Ids
    BY ReconcileAssumption
  <1>2. mine \in Entry /\ theirs \in Entry /\ newest \in Entry
    BY <1>1 DEF BoardDoc, Operation, Patch
  <1>3. Written(b, o).elements[id] = left
    BY <1>1 DEF Written, NextDocument, Stowed, MergedElements, KeepPictures, Merge
  <1>4. PictureOf(mine, theirs) \in Pictures
    <2>1. mine.picture \in Pictures /\ (HasPicture(theirs) => theirs.picture \in Pictures)
      BY <1>2 DEF HasPicture, IsLive, Entry, Element
    <2>2. QED
      BY <2>1 DEF PictureOf
  <1>5. newest # Absent
    BY DEF Takes, HasPicture, IsLive
  <1>6. newest \in Element
    BY <1>2, <1>5 DEF Entry
  <1> HIDE DEF mine, theirs, newest
  <1>7. CASE newest.isDeleted
    <2>1. kept.isDeleted /\ kept \in Element
      BY <1>5, <1>6, <1>7 DEF KeepPicture, Element
    <2> HIDE DEF kept
    <2>2. left.isDeleted
      BY <2>1, ReconcileAssumption DEF Element
    <2>3. QED
      BY <1>3, <2>2 DEF IsLive
  <1>8. CASE ~newest.isDeleted
    <2>1. kept \in Element /\ ~kept.isDeleted /\ kept.picture # NoPicture
      BY <1>4, <1>5, <1>6, <1>8, ReconcileAssumption DEF KeepPicture, Element
    <2> HIDE DEF kept
    <2>2. QED
      BY <1>3, <2>1, ReconcileAssumption DEF HasPicture, IsLive
  <1>9. QED
    BY <1>7, <1>8

(* An image keeps its picture through every patch that leaves it live.      *)
THEOREM PicturesSurvive == Spec => PictureSurvivesEdits
  <1>1. ASSUME IndInv, NEW r \in Requests, PatchStep(r), NEW id \in Images,
               HasPicture(board.elements[id]), IsLive(board'.elements[id])
        PROVE  HasPicture(board'.elements[id])
    BY <1>1, CommitOnCurrent, MergeKeepsPictures DEF PatchStep
  <1>2. IndInv /\ [Next]_vars =>
          [\A r \in Requests : PatchStep(r) =>
              \A id \in Images :
                  HasPicture(board.elements[id]) /\ IsLive(board'.elements[id])
                      => HasPicture(board'.elements[id])]_vars
    BY <1>1
  <1>3. QED
    BY <1>2, Invariance, PTL DEF Spec, PictureSurvivesEdits

(* A full replace takes effect only on the rev its caller named, or that    *)
(* was looked up for it.                                                    *)
THEOREM ReplaceIsSafe == Spec => ReplaceIsGuarded
  <1>1. ASSUME IndInv, NEW r \in Requests, op[r].kind = "put", Commit(r)
        PROVE  board.rev = expected[r] /\ op[r].rev \in {AnyRev, expected[r]}
    <2>1. UnderWay(r) /\ phase[r] = "commit" /\ seen[r].rev = board.rev
      BY <1>1, CommitOnCurrent DEF Commit
    <2>2. QED
      BY <1>1, <2>1 DEF IndInv, Bookkeeping
  <1>2. IndInv /\ [Next]_vars =>
          [\A r \in Requests :
              op[r] # Nothing /\ op[r].kind = "put" /\ Commit(r)
                  => /\ board.rev = expected[r]
                     /\ op[r].rev \in {AnyRev, expected[r]}]_vars
    BY <1>1
  <1>3. QED
    BY <1>2, Invariance, PTL DEF Spec, ReplaceIsGuarded

(* Nothing is written to a deleted board, by no request that read it before. *)
THEOREM DeletionIsFinal == Spec => DeletedIsFinal
  <1>1. ASSUME IndInv, Next, board.deleted
        PROVE  UNCHANGED board
    <2>1. \A r \in Requests : ~Commit(r)
      BY <1>1, CommitOnCurrent
    <2>2. QED
      BY <1>1, <2>1 DEF Next, Serve, Arrive, ReadRev, Read, Stow, LoseRace, LoseRaceUpTo,
                        Delete, Break, Leave
  <1>2. IndInv /\ [Next]_vars => [board.deleted => UNCHANGED board]_vars
    BY <1>1
  <1>3. QED
    BY <1>2, Invariance, PTL DEF Spec, DeletedIsFinal

-----------------------------------------------------------------------------
(* The repository does what Board promises. *)

LEMMA InitRefines == Init => Promise!Init
  BY DEF Init, Promise!Init

LEMMA StepRefines ==
    ASSUME IndInv, Next
    PROVE  [Promise!Next]_<<board, op, answer>>
  <1> PICK r \in Requests : Arrive(r) \/ Serve(r) \/ Break(r) \/ Leave(r)
    BY DEF Next
  <1> SUFFICES \/ Promise!Ask(r) \/ Promise!TakeEffect(r) \/ Promise!Refuse(r) \/ Promise!Leave(r)
               \/ UNCHANGED <<board, op, answer>>
    BY DEF Promise!Next
  <1> USE DEF IndInv
  <1>1. CASE Arrive(r)
    BY <1>1 DEF Arrive, Go, Promise!Ask
  <1>2. ASSUME NEW told, UnderWay(r), Answer(r, told), UNCHANGED <<board, op>>,
               told \in Answers \ {"ok"},
               told = "notFound" => board.deleted,
               told = "conflict" => /\ op[r].kind # "delete"
                                    /\ op[r].kind = "put" =>
                                          op[r].rev = AnyRev \/ op[r].rev # board.rev
        PROVE  Promise!Refuse(r)
    BY <1>2
    DEF Answer, UnderWay, Answers, Promise!Refuse, Promise!UnderWay, Promise!Answers
  <1>3. CASE ReadRev(r)
    <2>1. UnderWay(r)
      BY <1>3 DEF ReadRev, Bookkeeping
    <2>2. QED
      BY <1>2, <1>3, <2>1 DEF ReadRev, Go, Answers
  <1>4. CASE Read(r)
    <2>1. UnderWay(r)
      BY <1>4 DEF Read, Bookkeeping
    <2>2. op[r].kind = "put" => op[r].rev \in {AnyRev, expected[r]}
      BY <2>1 DEF Bookkeeping
    <2>3. QED
      BY <1>2, <1>4, <2>1, <2>2 DEF Read, Go, Answers
  <1>5. CASE Stow(r)
    <2>1. UnderWay(r)
      BY <1>5 DEF Stow, Bookkeeping
    <2>2. QED
      BY <1>2, <1>5, <2>1 DEF Stow, Go, Answers
  <1>6. CASE Commit(r)
    <2>1. /\ UnderWay(r) /\ op[r].kind # "delete" /\ ~board.deleted
          /\ seen[r] = board /\ board' = Written(board, op[r])
      BY <1>6, CommitOnCurrent
    <2>2. op[r].kind = "put" => op[r].rev \in {AnyRev, board.rev}
      BY <1>6, <2>1 DEF Commit, Bookkeeping
    <2>3. QED
      BY <1>6, <2>1, <2>2
      DEF Commit, Answer, UnderWay, Promise!TakeEffect, Promise!UnderWay, Promise!Allowed
  <1>7. CASE LoseRace(r)
    <2>1. UnderWay(r) /\ op[r].kind # "delete"
      BY <1>7 DEF LoseRace, LoseRaceUpTo, Bookkeeping
    <2>2. op[r].kind = "put" => op[r].rev \in {AnyRev, seen[r].rev}
      BY <1>7, <2>1 DEF LoseRace, LoseRaceUpTo, Bookkeeping
    <2>3. QED
      BY <1>2, <1>7, <2>1, <2>2 DEF LoseRace, LoseRaceUpTo, Go, Answers
  <1>8. CASE Delete(r)
    <2>1. UnderWay(r) /\ op[r].kind = "delete"
      BY <1>8 DEF Delete, Bookkeeping
    <2>2. CASE board.deleted
      BY <1>2, <1>8, <2>1, <2>2 DEF Delete, Answers
    <2>3. CASE ~board.deleted
      BY <1>8, <2>1, <2>3
      DEF Delete, Answer, UnderWay, Promise!TakeEffect, Promise!UnderWay, Promise!Allowed
    <2>4. QED
      BY <2>2, <2>3
  <1>9. CASE Break(r)
    <2>1. UnderWay(r)
      BY <1>9 DEF Break, Bookkeeping
    <2>2. QED
      BY <1>2, <1>9, <2>1 DEF Break, Answers
  <1>10. CASE Leave(r)
    BY <1>10 DEF Leave, Promise!Leave
  <1>11. QED
    BY <1>1, <1>3, <1>4, <1>5, <1>6, <1>7, <1>8, <1>9, <1>10 DEF Serve

(* Every request answered "ok" took effect once, in one step; every other    *)
(* answer but "error" left the board alone.                                  *)
THEOREM Refinement == Spec => KeepsPromise
  <1>1. Init => Promise!Init
    BY InitRefines
  <1>2. IndInv /\ [Next]_vars => [Promise!Next]_<<board, op, answer>>
    BY StepRefines DEF vars
  <1>3. QED
    BY <1>1, <1>2, Invariance, PTL DEF Spec, KeepsPromise, Promise!Spec, Promise!vars

-----------------------------------------------------------------------------
(* MergeLoop: the loops of the merge compute its operators.  The invariant  *)
(* says what each of the code's arrays holds while the loops run.           *)

(* Some place of a non-empty set comes first. *)
LEMMA FirstPlace ==
    ASSUME NEW n \in Nat, NEW S \in SUBSET (1..n), S # {}
    PROVE  \E m \in S : \A k \in S : m <= k
  <1> DEFINE all == FiniteSubsetsOf(1..n)
             R == StrictSubsetOrdering(1..n)
             heads == {1..k : k \in S}
  <1>1. IsFiniteSet(1..n)
    BY FS_Interval
  <1>2. IsWellFoundedOn(R, all) /\ all = SUBSET (1..n)
    BY <1>1, FS_StrictSubsetOrderingWellFounded, FS_FiniteSubsetsOfFinite
  <1>3. heads \subseteq all /\ \E h \in heads : TRUE
    <2>1. \A k \in S : 1..k \in SUBSET (1..n)
      OBVIOUS
    <2> HIDE DEF R, all
    <2>2. \A h \in heads : h \in all
      BY <1>2, <2>1
    <2>3. QED
      BY <2>2
  <1>4. PICK h \in heads : \A t \in heads : <<t, h>> \notin R
    <2> HIDE DEF heads, R, all
    <2>1. QED
      BY <1>2, <1>3, WFMin
  <1>5. PICK m \in S : h = 1..m
    OBVIOUS
  <1>6. ASSUME NEW k \in S, ~(m <= k)
        PROVE  FALSE
    <2>1. k \in 1..n /\ m \in 1..n /\ k < m
      BY <1>6
    <2>2. 1..k \subseteq 1..m /\ 1..k # 1..m
      BY <2>1
    <2>3. 1..k \in heads /\ 1..k \in SUBSET (1..n) /\ 1..m \in SUBSET (1..n)
      BY <2>1
    <2>4. <<1..k, h>> \in R
      BY <1>5, <2>2, <2>3 DEF StrictSubsetOrdering
    <2>5. QED
      BY <1>4, <2>3, <2>4
  <1>7. QED
    BY <1>6

-----------------------------------------------------------------------------
(* An array whose elements have different ids is two functions of the id.   *)
LEMMA SlotIs ==
    ASSUME NEW array \in Seq(Item), NamesEachOnce(array), NEW i \in DOMAIN array
    PROVE  Slot(array, array[i].id) = i
  BY DEF Slot, NamesEachOnce

LEMMA ItemsAre ==
    ASSUME NEW array \in Seq(Item)
    PROVE  /\ Len(array) \in Nat /\ DOMAIN array = 1..Len(array)
           /\ \A i \in DOMAIN array : /\ array[i] \in Item /\ array[i].id \in Ids
                                      /\ array[i].copy \in Element
           /\ IdsOf(array) \in SUBSET Ids
  <1>1. Len(array) \in Nat /\ DOMAIN array = 1..Len(array) /\ \A i \in DOMAIN array : array[i] \in Item
    BY LenProperties, ElementOfSeq
  <1>2. \A i \in DOMAIN array : array[i].id \in Ids /\ array[i].copy \in Element
    BY <1>1 DEF Item
  <1>3. QED
    BY <1>1, <1>2 DEF IdsOf

LEMMA ArrayStandsFor ==
    ASSUME NEW array \in Seq(Item), NamesEachOnce(array)
    PROVE  /\ \A i \in DOMAIN array : /\ PlaceIn(array)[array[i].id] = i
                                      /\ ElementsIn(array)[array[i].id] = array[i].copy
           /\ \A id \in Ids : id \notin IdsOf(array) =>
                                  PlaceIn(array)[id] = 0 /\ ElementsIn(array)[id] = Absent
           /\ \A id \in IdsOf(array) : \E i \in DOMAIN array : array[i].id = id
           /\ Present(PlaceIn(array)) = IdsOf(array)
           /\ PlaceIn(array) \in Places
  <1>1. \A i \in DOMAIN array : Slot(array, array[i].id) = i
    BY SlotIs
  <1>2. /\ Len(array) \in Nat /\ DOMAIN array = 1..Len(array)
        /\ \A i \in DOMAIN array : array[i].id \in Ids /\ array[i].id \in IdsOf(array)
    BY ItemsAre DEF IdsOf
  <1>3. \A id \in IdsOf(array) : \E i \in DOMAIN array : array[i].id = id
    BY DEF IdsOf
  <1>4. \A i \in DOMAIN array : /\ PlaceIn(array)[array[i].id] = i
                                /\ ElementsIn(array)[array[i].id] = array[i].copy
    BY <1>1, <1>2 DEF PlaceIn, ElementsIn
  <1>5. \A id \in Ids : id \notin IdsOf(array) =>
                            PlaceIn(array)[id] = 0 /\ ElementsIn(array)[id] = Absent
    BY DEF PlaceIn, ElementsIn
  <1>6. \A id \in Ids : PlaceIn(array)[id] \in Nat /\ (PlaceIn(array)[id] # 0 <=> id \in IdsOf(array))
    BY <1>2, <1>3, <1>4, <1>5
  <1>7. IdsOf(array) \subseteq Ids
    BY <1>2, <1>3
  <1>8. Present(PlaceIn(array)) = IdsOf(array)
    BY <1>6, <1>7 DEF Present
  <1>9. PlaceIn(array) \in Places
    <2>1. PlaceIn(array) = [id \in Ids |-> PlaceIn(array)[id]]
      BY DEF PlaceIn
    <2>2. QED
      BY <1>6, <2>1 DEF Places
  <1>10. QED
    BY <1>3, <1>4, <1>5, <1>8, <1>9

(* As many ids as slots. *)
LEMMA CountOfSlots ==
    ASSUME NEW array \in Seq(Item), NamesEachOnce(array),
           NEW m \in 0..Len(array), NEW n \in 0..Len(array), m <= n
    PROVE  Cardinality({array[i].id : i \in (m + 1)..n}) = n - m
  <1> DEFINE S == {array[i].id : i \in (m + 1)..n}
             P == (m + 1)..n
             f == [i \in P |-> array[i].id]
  <1>1. DOMAIN array = 1..Len(array) /\ Len(array) \in Nat /\ m \in Nat /\ n \in Nat
    BY LenProperties
  <1>2. \A i, j \in P : array[i].id = array[j].id => i = j
    BY <1>1 DEF NamesEachOnce
  <1>3. IsFiniteSet(P) /\ Cardinality(P) = n - m
    <2>1. m + 1 \in Int /\ n \in Int /\ (m + 1 > n => n = m)
      BY <1>1
    <2>2. IsFiniteSet(P) /\ Cardinality(P) = IF m + 1 > n THEN 0 ELSE n - (m + 1) + 1
      BY <2>1, FS_Interval
    <2>3. QED
      BY <1>1, <2>1, <2>2
  <1>4. S = {array[i].id : i \in P}
    OBVIOUS
  <1> HIDE DEF S, P
  <1>5. f \in [P -> S] /\ (\A i, j \in P : f[i] = f[j] => i = j)
        /\ \A x \in S : \E i \in P : f[i] = x
    BY <1>2, <1>4
  <1>6. ExistsBijection(P, S)
    BY <1>5, Zenon DEF ExistsBijection, Bijection, Injection, Surjection, IsInjective
  <1>7. QED
    BY <1>3, <1>6, FS_Bijection DEF S

LEMMA FirstIs ==
    ASSUME NEW array \in Seq(Item), NEW id \in IdsOf(array)
    PROVE  /\ FirstIn(array, id) \in DOMAIN array /\ array[FirstIn(array, id)].id = id
           /\ \A j \in DOMAIN array : array[j].id = id => FirstIn(array, id) <= j
  <1> DEFINE S == {i \in DOMAIN array : array[i].id = id}
             n == Len(array)
  <1>1. n \in Nat /\ DOMAIN array = 1..n
    BY ItemsAre
  <1>2. S \in SUBSET (1..n) /\ S # {}
    BY <1>1 DEF IdsOf
  <1> HIDE DEF n
  <1>3. PICK m \in S : \A k \in S : m <= k
    BY <1>1, <1>2, FirstPlace
  <1>4. \A j \in 1..(m - 1) : array[j].id # id
    BY <1>1, <1>3
  <1>5. \E i \in DOMAIN array : array[i].id = id /\ \A j \in 1..(i - 1) : array[j].id # id
    BY <1>3, <1>4
  <1>6. PICK f : f = FirstIn(array, id)
    OBVIOUS
  <1>7. f \in DOMAIN array /\ array[f].id = id /\ \A j \in 1..(f - 1) : array[j].id # id
    BY <1>5, <1>6 DEF FirstIn
  <1>8. \A j \in DOMAIN array : array[j].id = id => f <= j
    BY <1>1, <1>7
  <1>9. QED
    BY <1>6, <1>7, <1>8

LEMMA RankIs ==
    ASSUME NEW ids \in Seq(Ids), NEW id \in Range(ids)
    PROVE  RankIn(ids, id) \in DOMAIN ids /\ ids[RankIn(ids, id)] = id
  <1> DEFINE S == {i \in DOMAIN ids : ids[i] = id}
             n == Len(ids)
  <1>1. n \in Nat /\ DOMAIN ids = 1..n
    BY LenProperties
  <1>2. S \in SUBSET (1..n) /\ S # {}
    BY <1>1 DEF Range
  <1> HIDE DEF n
  <1>3. PICK m \in S : \A k \in S : m <= k
    BY <1>1, <1>2, FirstPlace
  <1>4. \A j \in 1..(m - 1) : ids[j] # id
    BY <1>1, <1>3
  <1>5. \E i \in DOMAIN ids : ids[i] = id /\ \A j \in 1..(i - 1) : ids[j] # id
    BY <1>3, <1>4
  <1>6. QED
    BY <1>5 DEF RankIn

-----------------------------------------------------------------------------
LEMMA NewerIsTransitive ==
    ASSUME NEW x \in Element, NEW y \in Element, NEW z \in Element
    PROVE  /\ ~IsNewer(x, x)
           /\ IsNewer(x, y) /\ IsNewer(y, z) => IsNewer(x, z)
  BY DEF IsNewer, Element

(* The loop of reconcileElements. *)
SoFar == {base[k] : k \in DOMAIN base} \cup {incoming[k] : k \in 1..at}

Arrays ==
    /\ base \in Seq(Item) /\ incoming \in Seq(Item) /\ merged \in Seq(Item)
    /\ order \in Seq(Ids) \cup {Absent}
    /\ at \in 0..Len(incoming)
    /\ NamesEachOnce(base) /\ NamesEachOnce(merged)

SlotsStay ==
    /\ Len(base) <= Len(merged)
    /\ \A i \in DOMAIN base : merged[i].id = base[i].id

NewOnTop ==
    \A i, j \in DOMAIN merged : Len(base) < i /\ i < j =>
        FirstIn(incoming, merged[i].id) < FirstIn(incoming, merged[j].id)

NewestSoFar ==
    /\ \A item \in SoFar : item.id \in IdsOf(merged)
    /\ \A i \in DOMAIN merged :
          /\ merged[i] \in SoFar
          /\ \A item \in SoFar : item.id = merged[i].id => ~IsNewer(item.copy, merged[i].copy)
    /\ \A i \in DOMAIN base : merged[i] = base[i] \/ IsNewer(merged[i].copy, base[i].copy)

MergeInv == Arrays /\ SlotsStay /\ NewOnTop /\ NewestSoFar

LEMMA SoFarGrows ==
    ASSUME MergeInv, at < Len(incoming), at' = at + 1, UNCHANGED <<base, incoming>>
    PROVE  /\ SoFar' = SoFar \cup {Arriving} /\ Arriving \in Item
           /\ Arriving.id \in Ids /\ Arriving.copy \in Element
           /\ at' \in 0..Len(incoming)
           /\ \A item \in SoFar : item \in Item /\ item.copy \in Element /\ item.id \in Ids
  <1>1. /\ Len(incoming) \in Nat /\ DOMAIN incoming = 1..Len(incoming) /\ at \in 0..Len(incoming)
        /\ \A i \in DOMAIN incoming : /\ incoming[i] \in Item /\ incoming[i].id \in Ids
                                      /\ incoming[i].copy \in Element
        /\ \A i \in DOMAIN base : /\ base[i] \in Item /\ base[i].id \in Ids
                                  /\ base[i].copy \in Element
    BY ItemsAre DEF MergeInv, Arrays
  <1>2. at + 1 \in DOMAIN incoming /\ 1..(at + 1) = (1..at) \cup {at + 1}
        /\ 1..at \subseteq DOMAIN incoming
    BY <1>1
  <1>3. SoFar' = SoFar \cup {Arriving}
    BY <1>2 DEF SoFar, Arriving
  <1>4. QED
    BY <1>1, <1>2, <1>3 DEF SoFar, Arriving

(* What wins over its copy takes its slot. *)
LEMMA OverKeeps ==
    ASSUME MergeInv, MergeOne, Arriving.id \in IdsOf(merged), IsNewer(Arriving.copy, Current)
    PROVE  MergeInv'
  <1>1. /\ at < Len(incoming) /\ at' = at + 1 /\ UNCHANGED request
        /\ merged' = [merged EXCEPT ![Slot(merged, Arriving.id)] = Arriving]
    BY DEF MergeOne, Put
  <1>2. UNCHANGED <<base, incoming, order>>
    BY <1>1 DEF request
  <1>3. /\ SoFar' = SoFar \cup {Arriving} /\ Arriving \in Item /\ Arriving.copy \in Element
        /\ at' \in 0..Len(incoming)
        /\ \A item \in SoFar : item.copy \in Element
    BY <1>1, <1>2, SoFarGrows
  <1>4. PICK s \in DOMAIN merged : merged[s].id = Arriving.id
    BY DEF IdsOf
  <1>5. merged \in Seq(Item) /\ Slot(merged, Arriving.id) = s
    BY <1>4, SlotIs DEF MergeInv, Arrays
  <1>6. /\ merged' \in Seq(Item) /\ DOMAIN merged' = DOMAIN merged /\ Len(merged') = Len(merged)
        /\ \A i \in DOMAIN merged : merged'[i] = IF i = s THEN Arriving ELSE merged[i]
    BY <1>1, <1>3, <1>5, ExceptSeq, LenProperties
  <1>7. \A i \in DOMAIN merged : merged'[i].id = merged[i].id
    BY <1>4, <1>6
  <1>8. IdsOf(merged') = IdsOf(merged)
    BY <1>6, <1>7 DEF IdsOf
  <1>9. Arrays'
    <2>1. NamesEachOnce(merged')
      BY <1>6, <1>7 DEF MergeInv, Arrays, NamesEachOnce
    <2>2. QED
      BY <1>2, <1>3, <1>6, <2>1 DEF MergeInv, Arrays
  <1>10. DOMAIN base \subseteq DOMAIN merged
    BY ItemsAre DEF MergeInv, Arrays, SlotsStay
  <1>11. SlotsStay'
    BY <1>2, <1>6, <1>7, <1>10 DEF MergeInv, SlotsStay
  <1>12. NewOnTop'
    BY <1>2, <1>6, <1>7 DEF MergeInv, NewOnTop
  <1>13. Current = merged[s].copy /\ merged[s].copy \in Element
    BY <1>5, ItemsAre DEF Current
  <1>14. ~IsNewer(Arriving.copy, Arriving.copy)
    BY <1>3, NewerIsTransitive
  <1>15. \A item \in SoFar : item.id = Arriving.id => ~IsNewer(item.copy, Arriving.copy)
    <2>1. SUFFICES ASSUME NEW item \in SoFar, item.id = Arriving.id, IsNewer(item.copy, Arriving.copy)
                   PROVE  FALSE
      OBVIOUS
    <2>2. ~IsNewer(item.copy, merged[s].copy)
      BY <1>4, <2>1 DEF MergeInv, NewestSoFar
    <2>3. item.copy \in Element
      BY <1>3
    <2>4. QED
      BY <1>3, <1>13, <2>1, <2>2, <2>3, NewerIsTransitive
  <1>16. ASSUME NEW i \in DOMAIN base
         PROVE  merged'[i] = base[i] \/ IsNewer(merged'[i].copy, base[i].copy)
    <2>1. i \in DOMAIN merged /\ (merged[i] = base[i] \/ IsNewer(merged[i].copy, base[i].copy))
      BY <1>10 DEF MergeInv, NewestSoFar
    <2>2. CASE i # s
      BY <1>6, <2>1, <2>2
    <2>3. CASE i = s
      <3>1. IsNewer(Arriving.copy, merged[s].copy)
        BY <1>13
      <3>2. base[i].copy \in Element
        BY ItemsAre DEF MergeInv, Arrays
      <3>3. IsNewer(Arriving.copy, base[i].copy)
        BY <1>3, <1>13, <2>1, <2>3, <3>1, <3>2, NewerIsTransitive
      <3>4. QED
        BY <1>6, <2>1, <2>3, <3>3
    <2>4. QED
      BY <2>2, <2>3
  <1>17. NewestSoFar'
    <2>1. \A item \in SoFar' : item.id \in IdsOf(merged')
      BY <1>3, <1>8 DEF MergeInv, NewestSoFar
    <2>2. ASSUME NEW i \in DOMAIN merged'
          PROVE  /\ merged'[i] \in SoFar'
                 /\ \A item \in SoFar' : item.id = merged'[i].id =>
                                             ~IsNewer(item.copy, merged'[i].copy)
      <3>1. CASE i = s
        BY <1>3, <1>6, <1>14, <1>15, <3>1
      <3>2. CASE i # s
        <4>1. /\ merged'[i] = merged[i] /\ merged[i] \in SoFar
              /\ \A item \in SoFar : item.id = merged[i].id => ~IsNewer(item.copy, merged[i].copy)
          BY <1>6, <3>2 DEF MergeInv, NewestSoFar
        <4>2. Arriving.id # merged[i].id
          BY <1>4, <1>6, <3>2 DEF MergeInv, Arrays, NamesEachOnce
        <4>3. QED
          BY <1>3, <4>1, <4>2
      <3>3. QED
        BY <3>1, <3>2
    <2>3. QED
      BY <1>2, <1>16, <2>1, <2>2 DEF NewestSoFar
  <1>18. QED
    BY <1>9, <1>11, <1>12, <1>17 DEF MergeInv

(* What does not win leaves all as it was. *)
LEMMA RejectedKeeps ==
    ASSUME MergeInv, MergeOne, Arriving.id \in IdsOf(merged), ~IsNewer(Arriving.copy, Current)
    PROVE  MergeInv'
  <1>1. /\ at < Len(incoming) /\ at' = at + 1 /\ UNCHANGED <<request, merged>>
    BY DEF MergeOne
  <1>2. UNCHANGED <<base, incoming, order, merged>>
    BY <1>1 DEF request
  <1>3. SoFar' = SoFar \cup {Arriving} /\ at' \in 0..Len(incoming)
    BY <1>1, <1>2, SoFarGrows
  <1>4. PICK s \in DOMAIN merged : merged[s].id = Arriving.id
    BY DEF IdsOf
  <1>5. Slot(merged, Arriving.id) = s
    BY <1>4, SlotIs DEF MergeInv, Arrays
  <1>6. \A i \in DOMAIN merged : Arriving.id = merged[i].id => ~IsNewer(Arriving.copy, merged[i].copy)
    BY <1>4, <1>5 DEF MergeInv, Arrays, NamesEachOnce, Current
  <1>7. NewestSoFar'
    BY <1>2, <1>3, <1>6 DEF MergeInv, NewestSoFar
  <1>8. Arrays' /\ SlotsStay' /\ NewOnTop'
    BY <1>2, <1>3 DEF MergeInv, Arrays, SlotsStay, NewOnTop
  <1>9. QED
    BY <1>7, <1>8 DEF MergeInv

(* A new one goes on top. *)
LEMMA OnTopKeeps ==
    ASSUME MergeInv, MergeOne, Arriving.id \notin IdsOf(merged)
    PROVE  MergeInv'
  <1>1. /\ at < Len(incoming) /\ at' = at + 1 /\ UNCHANGED request
        /\ merged' = Append(merged, Arriving)
    BY DEF MergeOne, Put
  <1>2. UNCHANGED <<base, incoming, order>>
    BY <1>1 DEF request
  <1>3. /\ SoFar' = SoFar \cup {Arriving} /\ Arriving \in Item /\ Arriving.copy \in Element
        /\ at' \in 0..Len(incoming)
        /\ \A item \in SoFar : item.copy \in Element
    BY <1>1, <1>2, SoFarGrows
  <1> DEFINE n == Len(merged)
  <1>4. merged \in Seq(Item) /\ n \in Nat /\ DOMAIN merged = 1..n
        /\ base \in Seq(Item) /\ Len(base) \in Nat /\ DOMAIN base = 1..Len(base)
        /\ Len(base) <= n /\ incoming \in Seq(Item) /\ DOMAIN incoming = 1..Len(incoming)
        /\ Len(incoming) \in Nat /\ at \in 0..Len(incoming)
    BY ItemsAre DEF MergeInv, Arrays, SlotsStay
  <1>5. /\ merged' \in Seq(Item) /\ DOMAIN merged' = 1..(n + 1) /\ Len(merged') = n + 1
        /\ \A i \in 1..n : merged'[i] = merged[i]
        /\ merged'[n + 1] = Arriving
    BY <1>1, <1>3, <1>4, AppendProperties, LenProperties
  <1>6. \A i \in 1..n : merged[i].id \in IdsOf(merged) /\ merged[i].id # Arriving.id
    BY <1>4 DEF IdsOf
  <1>7. IdsOf(merged') = IdsOf(merged) \cup {Arriving.id}
    <2>1. \A x \in IdsOf(merged') : x \in IdsOf(merged) \cup {Arriving.id}
      BY <1>4, <1>5 DEF IdsOf
    <2>2. \A x \in IdsOf(merged) : x \in IdsOf(merged')
      BY <1>4, <1>5 DEF IdsOf
    <2>3. Arriving.id \in IdsOf(merged')
      BY <1>4, <1>5 DEF IdsOf
    <2>4. QED
      BY <2>1, <2>2, <2>3
  <1> HIDE DEF n
  <1>8. Arrays'
    <2>1. \A i, j \in 1..n : merged[i].id = merged[j].id => i = j
      BY <1>4 DEF MergeInv, Arrays, NamesEachOnce
    <2>2. NamesEachOnce(merged')
      BY <1>4, <1>5, <1>6, <2>1 DEF NamesEachOnce
    <2>3. QED
      BY <1>2, <1>3, <1>5, <2>2 DEF MergeInv, Arrays
  <1>9. SlotsStay'
    BY <1>2, <1>4, <1>5 DEF MergeInv, SlotsStay, n
  <1>10. Arriving.id \in IdsOf(incoming) /\ FirstIn(incoming, Arriving.id) > at
    <2>1. at + 1 \in DOMAIN incoming /\ Arriving.id \in IdsOf(incoming)
      <3>1. at + 1 \in DOMAIN incoming
        BY <1>1, <1>4
      <3>2. QED
        BY <3>1, Zenon DEF IdsOf, Arriving
    <2>2. PICK f : f = FirstIn(incoming, Arriving.id)
      OBVIOUS
    <2>3. f \in DOMAIN incoming /\ incoming[f].id = Arriving.id
      BY <1>4, <2>1, <2>2, FirstIs
    <2>4. f \in 1..at => incoming[f] \in SoFar
      BY DEF SoFar
    <2>5. f \notin 1..at
      BY <2>3, <2>4 DEF MergeInv, NewestSoFar
    <2>6. QED
      BY <1>4, <2>1, <2>2, <2>3, <2>5
  <1>11. ASSUME NEW i \in 1..n, Len(base) < i
         PROVE  FirstIn(incoming, merged[i].id) <= at
    <2>1. \A k \in DOMAIN base : merged[k].id # merged[i].id
      BY <1>4, <1>11 DEF MergeInv, Arrays, NamesEachOnce
    <2>2. \A k \in DOMAIN base : base[k] # merged[i]
      BY <2>1 DEF MergeInv, SlotsStay
    <2>3. merged[i] \in SoFar
      BY <1>4 DEF MergeInv, NewestSoFar
    <2>4. PICK k \in 1..at : incoming[k] = merged[i]
      BY <2>2, <2>3 DEF SoFar
    <2>5. k \in DOMAIN incoming
      BY <1>4
    <2>6. merged[i].id \in IdsOf(incoming)
      BY <2>4, <2>5 DEF IdsOf
    <2>7. FirstIn(incoming, merged[i].id) \in DOMAIN incoming /\ FirstIn(incoming, merged[i].id) <= k
      BY <1>4, <2>4, <2>5, <2>6, FirstIs
    <2>8. QED
      BY <1>4, <2>7
  <1>12. NewOnTop'
    <2>1. ASSUME NEW i \in 1..(n + 1), NEW j \in 1..(n + 1), Len(base) < i, i < j
          PROVE  FirstIn(incoming, merged'[i].id) < FirstIn(incoming, merged'[j].id)
      <3>1. i \in 1..n /\ merged'[i] = merged[i]
        BY <1>4, <1>5, <2>1
      <3>2. CASE j \in 1..n
        BY <1>4, <1>5, <2>1, <3>1, <3>2 DEF MergeInv, NewOnTop
      <3>3. CASE j = n + 1
        <4>1. merged'[j] = Arriving /\ FirstIn(incoming, merged[i].id) <= at
          BY <1>5, <1>11, <2>1, <3>1, <3>3
        <4>2. merged[i].id \in IdsOf(incoming)
          <5>1. \A k \in DOMAIN base : merged[k].id # merged[i].id
            BY <1>4, <2>1, <3>1 DEF MergeInv, Arrays, NamesEachOnce
          <5>2. \A k \in DOMAIN base : base[k] # merged[i]
            BY <5>1 DEF MergeInv, SlotsStay
          <5>3. merged[i] \in SoFar
            BY <1>4, <3>1 DEF MergeInv, NewestSoFar
          <5>4. PICK k \in 1..at : incoming[k] = merged[i]
            BY <5>2, <5>3 DEF SoFar
          <5>5. QED
            BY <1>4, <5>4 DEF IdsOf
        <4>3. FirstIn(incoming, merged[i].id) \in Nat /\ FirstIn(incoming, Arriving.id) \in Nat
          BY <1>4, <1>10, <4>2, FirstIs
        <4>4. QED
          BY <1>4, <1>10, <3>1, <4>1, <4>3
      <3>4. QED
        BY <1>4, <3>2, <3>3
    <2>2. QED
      BY <1>2, <1>5, <2>1 DEF NewOnTop
  <1>13. ~IsNewer(Arriving.copy, Arriving.copy)
    BY <1>3, NewerIsTransitive
  <1>14. \A item \in SoFar : item.id # Arriving.id
    BY DEF MergeInv, NewestSoFar
  <1>15. NewestSoFar'
    <2>1. \A item \in SoFar' : item.id \in IdsOf(merged')
      BY <1>3, <1>7 DEF MergeInv, NewestSoFar
    <2>2. ASSUME NEW i \in 1..(n + 1)
          PROVE  /\ merged'[i] \in SoFar'
                 /\ \A item \in SoFar' : item.id = merged'[i].id =>
                                             ~IsNewer(item.copy, merged'[i].copy)
      <3>1. CASE i = n + 1
        BY <1>3, <1>5, <1>13, <1>14, <3>1
      <3>2. CASE i \in 1..n
        <4>1. /\ merged'[i] = merged[i] /\ merged[i] \in SoFar
              /\ \A item \in SoFar : item.id = merged[i].id => ~IsNewer(item.copy, merged[i].copy)
          BY <1>4, <1>5, <3>2 DEF MergeInv, NewestSoFar
        <4>2. QED
          BY <1>3, <1>6, <3>2, <4>1
      <3>3. QED
        BY <1>4, <3>1, <3>2
    <2>3. \A i \in DOMAIN base : merged'[i] = base[i] \/ IsNewer(merged'[i].copy, base[i].copy)
      <3>1. \A i \in DOMAIN base : i \in 1..n
        BY <1>4
      <3>2. QED
        BY <1>5, <3>1 DEF MergeInv, NewestSoFar
    <2>4. QED
      BY <1>2, <1>5, <2>1, <2>2, <2>3 DEF NewestSoFar
  <1>16. QED
    BY <1>8, <1>9, <1>12, <1>15 DEF MergeInv

-----------------------------------------------------------------------------
(* The loop of applyOrder, and its end. *)
Ranking ==
    /\ ranked \in Seq(Item) /\ unranked \in Seq(Item)
    /\ through \in 0..Len(merged)
    /\ through # 0 => at = Len(incoming)
    /\ \A i \in DOMAIN ranked : /\ ranked[i].id \in Range(order)
                                /\ \E k \in 1..through : ranked[i] = merged[k]
    /\ \A i \in DOMAIN unranked : /\ unranked[i].id \notin Range(order)
                                  /\ \E k \in 1..through : unranked[i] = merged[k]
    /\ \A k \in 1..through : \/ \E i \in DOMAIN ranked : ranked[i] = merged[k]
                             \/ \E i \in DOMAIN unranked : unranked[i] = merged[k]

RankedApart ==
    /\ NamesEachOnce(ranked)
    /\ \A i, j \in DOMAIN unranked : i < j =>
          PlaceIn(merged)[unranked[i].id] < PlaceIn(merged)[unranked[j].id]

SameItems(array, other) ==
    /\ \A i \in DOMAIN array : \E j \in DOMAIN other : other[j] = array[i]
    /\ \A j \in DOMAIN other : \E i \in DOMAIN array : other[j] = array[i]

Before(x, y) == Below(PlaceIn(merged), RankOf(order), x, y)

Ordered ==
    result # Absent =>
        /\ at = Len(incoming)
        /\ result \in Seq(Item) /\ NamesEachOnce(result) /\ SameItems(merged, result)
        /\ order = Absent => result = merged
        /\ order # Absent =>
              \A i, j \in DOMAIN result : i < j => Before(result[i].id, result[j].id)

LoopInv == MergeInv /\ Ranking /\ RankedApart /\ Ordered

LEMMA MergeOneKeeps ==
    ASSUME LoopInv, MergeOne
    PROVE  LoopInv'
  <1>1. MergeInv'
    BY OverKeeps, RejectedKeeps, OnTopKeeps DEF LoopInv
  <1>2. /\ at < Len(incoming) /\ UNCHANGED <<incoming, ranked, unranked, through, result>>
    BY DEF MergeOne, request
  <1>3. at \in Nat /\ Len(incoming) \in Nat
    BY ItemsAre DEF LoopInv, MergeInv, Arrays
  <1>4. through = 0 /\ result = Absent
    BY <1>2, <1>3 DEF LoopInv, Ranking, Ordered
  <1>5. 1..through = {} /\ DOMAIN ranked = {} /\ DOMAIN unranked = {}
    <2>1. 1..through = {}
      BY <1>4
    <2>2. QED
      BY <2>1 DEF LoopInv, Ranking
  <1>6. 0 \in 0..Len(merged')
    BY <1>1, ItemsAre DEF MergeInv, Arrays
  <1>7. Ranking'
    BY <1>2, <1>4, <1>5, <1>6 DEF LoopInv, Ranking
  <1>8. RankedApart' /\ Ordered'
    BY <1>2, <1>4, <1>5 DEF RankedApart, Ordered, NamesEachOnce
  <1>9. QED
    BY <1>1, <1>7, <1>8 DEF LoopInv

LEMMA RankOneKeeps ==
    ASSUME LoopInv, RankOne
    PROVE  LoopInv'
  <1> DEFINE k == through + 1
             item == merged[k]
  <1>1. /\ at = Len(incoming) /\ through < Len(merged) /\ through' = k
        /\ UNCHANGED <<base, incoming, order, merged, at, applied, rejected, result>>
    BY DEF RankOne, request
  <1>2. MergeInv' /\ Ordered'
    <2>1. SoFar' = SoFar
      BY <1>1 DEF SoFar
    <2>2. MergeInv'
      BY <1>1, <2>1 DEF LoopInv, MergeInv, Arrays, SlotsStay, NewOnTop, NewestSoFar
    <2>3. Ordered'
      BY <1>1 DEF LoopInv, Ordered, Before
    <2>4. QED
      BY <2>2, <2>3
  <1>3. /\ merged \in Seq(Item) /\ NamesEachOnce(merged) /\ DOMAIN merged = 1..Len(merged)
        /\ Len(merged) \in Nat /\ ranked \in Seq(Item) /\ unranked \in Seq(Item)
        /\ through \in 0..Len(merged)
    BY ItemsAre DEF LoopInv, MergeInv, Arrays, Ranking
  <1>4. k \in DOMAIN merged /\ k \in 0..Len(merged) /\ k \in 1..k /\ k \in Nat
        /\ 1..k = (1..through) \cup {k} /\ k \notin 1..through
    BY <1>1, <1>3
  <1>5. item \in Item /\ \A i \in 1..through : merged[i].id # item.id /\ i \in DOMAIN merged /\ i < k
    BY <1>3, <1>4, ItemsAre DEF NamesEachOnce
  <1> DEFINE place == PlaceIn(merged)
  <1>6. \A i \in 1..k : place[merged[i].id] = i
    BY <1>3, <1>4, <1>5, ArrayStandsFor
  <1> HIDE DEF k, item, place
  <1>7. item = merged[k]
    BY DEF item
  <1>8. /\ \A i \in DOMAIN ranked : /\ ranked[i].id \in Range(order)
                                    /\ \E j \in 1..through : ranked[i] = merged[j]
        /\ \A i \in DOMAIN unranked : /\ unranked[i].id \notin Range(order)
                                      /\ \E j \in 1..through : unranked[i] = merged[j]
        /\ \A j \in 1..through : \/ \E i \in DOMAIN ranked : ranked[i] = merged[j]
                                 \/ \E i \in DOMAIN unranked : unranked[i] = merged[j]
        /\ NamesEachOnce(ranked)
        /\ \A i, j \in DOMAIN unranked : i < j =>
              place[unranked[i].id] < place[unranked[j].id]
    BY DEF LoopInv, Ranking, RankedApart, place
  <1>9. place' = place
    BY <1>1 DEF place
  <1>10. CASE item.id \in Range(order)
    <2> DEFINE n == Len(ranked)
    <2>1. ranked' = Append(ranked, item) /\ unranked' = unranked
      BY <1>10 DEF RankOne, item, k
    <2>2. n \in Nat /\ DOMAIN ranked = 1..n
      BY <1>3, LenProperties
    <2>3. /\ ranked' \in Seq(Item) /\ DOMAIN ranked' = 1..(n + 1)
          /\ \A i \in 1..n : ranked'[i] = ranked[i]
          /\ ranked'[n + 1] = item
      BY <1>3, <1>5, <2>1, <2>2, AppendProperties, LenProperties
    <2> HIDE DEF n
    <2>4. \A i \in 1..n : ranked[i].id # item.id
      BY <1>5, <1>8, <2>2
    <2>5. NamesEachOnce(ranked')
      BY <1>8, <2>2, <2>3, <2>4 DEF NamesEachOnce
    <2>6. RankedApart'
      BY <1>8, <1>9, <2>1, <2>5 DEF RankedApart, place
    <2>7. \A i \in DOMAIN ranked' : /\ ranked'[i].id \in Range(order)
                                    /\ \E j \in 1..k : ranked'[i] = merged[j]
      <3>1. ASSUME NEW i \in 1..(n + 1)
            PROVE  ranked'[i].id \in Range(order) /\ \E j \in 1..k : ranked'[i] = merged[j]
        <4>1. CASE i = n + 1
          BY <1>4, <1>10, <1>7, <2>3, <4>1
        <4>2. CASE i \in 1..n
          <5>1. /\ ranked'[i] = ranked[i] /\ ranked[i].id \in Range(order)
                /\ \E j \in 1..through : ranked[i] = merged[j]
            BY <1>8, <2>2, <2>3, <4>2
          <5>2. \A j \in 1..through : j \in 1..k
            BY <1>4
          <5>3. QED
            BY <5>1, <5>2
        <4>3. QED
          BY <2>2, <4>1, <4>2
      <3>2. QED
        BY <2>3, <3>1
    <2>8. \A i \in DOMAIN unranked' : /\ unranked'[i].id \notin Range(order)
                                      /\ \E j \in 1..k : unranked'[i] = merged[j]
      BY <1>4, <1>8, <2>1
    <2>9. \A j \in 1..k : \/ \E i \in DOMAIN ranked' : ranked'[i] = merged[j]
                          \/ \E i \in DOMAIN unranked' : unranked'[i] = merged[j]
      <3>1. ASSUME NEW j \in 1..through
            PROVE  \/ \E i \in DOMAIN ranked' : ranked'[i] = merged[j]
                   \/ \E i \in DOMAIN unranked' : unranked'[i] = merged[j]
        <4>1. \A i \in DOMAIN ranked : i \in DOMAIN ranked' /\ ranked'[i] = ranked[i]
          BY <2>2, <2>3
        <4>2. QED
          BY <1>8, <2>1, <3>1, <4>1
      <3>2. \E i \in DOMAIN ranked' : ranked'[i] = merged[k]
        BY <2>2, <2>3 DEF item
      <3>3. QED
        BY <1>4, <3>1, <3>2
    <2>10. Ranking'
      <3>1. /\ through' = k /\ merged' = merged /\ order' = order /\ at' = at
            /\ incoming' = incoming /\ at = Len(incoming)
        BY <1>1
      <3>2. /\ ranked' \in Seq(Item) /\ unranked' \in Seq(Item)
            /\ through' \in 0..Len(merged') /\ (through' # 0 => at' = Len(incoming'))
        BY <1>3, <1>4, <2>1, <2>3, <3>1
      <3>3. Range(order') = Range(order)
        BY <3>1
      <3>4. QED
        BY <2>7, <2>8, <2>9, <3>1, <3>2, <3>3, Zenon DEF Ranking
    <2>11. QED
      BY <1>2, <2>6, <2>10 DEF LoopInv
  <1>11. CASE item.id \notin Range(order)
    <2> DEFINE n == Len(unranked)
    <2>1. unranked' = Append(unranked, item) /\ ranked' = ranked
      BY <1>11 DEF RankOne, item, k
    <2>2. n \in Nat /\ DOMAIN unranked = 1..n
      BY <1>3, LenProperties
    <2>3. /\ unranked' \in Seq(Item) /\ DOMAIN unranked' = 1..(n + 1)
          /\ \A i \in 1..n : unranked'[i] = unranked[i]
          /\ unranked'[n + 1] = item
      BY <1>3, <1>5, <2>1, <2>2, AppendProperties, LenProperties
    <2> HIDE DEF n
    <2>4. ASSUME NEW i \in 1..n
          PROVE  place[unranked[i].id] < place[item.id]
      <3>1. PICK j \in 1..through : unranked[i] = merged[j]
        BY <1>8, <2>2
      <3>2. place[merged[j].id] = j /\ place[merged[k].id] = k /\ j < k
        BY <1>4, <1>5, <1>6
      <3>3. QED
        BY <3>1, <3>2 DEF item
    <2>5. ASSUME NEW i \in 1..(n + 1), NEW j \in 1..(n + 1), i < j
          PROVE  place[unranked'[i].id] < place[unranked'[j].id]
      <3>1. i \in 1..n /\ unranked'[i] = unranked[i]
        BY <2>2, <2>3, <2>5
      <3>2. CASE j = n + 1
        BY <2>3, <2>4, <3>1, <3>2
      <3>3. CASE j \in 1..n
        BY <1>8, <2>2, <2>3, <2>5, <3>1, <3>3
      <3>4. QED
        BY <2>2, <3>2, <3>3
    <2>6. RankedApart'
      BY <1>8, <1>9, <2>1, <2>3, <2>5 DEF RankedApart, place
    <2>7. \A i \in DOMAIN ranked' : /\ ranked'[i].id \in Range(order)
                                    /\ \E j \in 1..k : ranked'[i] = merged[j]
      BY <1>4, <1>8, <2>1
    <2>8. \A i \in DOMAIN unranked' : /\ unranked'[i].id \notin Range(order)
                                      /\ \E j \in 1..k : unranked'[i] = merged[j]
      <3>1. ASSUME NEW i \in 1..(n + 1)
            PROVE  unranked'[i].id \notin Range(order) /\ \E j \in 1..k : unranked'[i] = merged[j]
        <4>1. CASE i = n + 1
          BY <1>4, <1>11, <1>7, <2>3, <4>1
        <4>2. CASE i \in 1..n
          <5>1. /\ unranked'[i] = unranked[i] /\ unranked[i].id \notin Range(order)
                /\ \E j \in 1..through : unranked[i] = merged[j]
            BY <1>8, <2>2, <2>3, <4>2
          <5>2. \A j \in 1..through : j \in 1..k
            BY <1>4
          <5>3. QED
            BY <5>1, <5>2
        <4>3. QED
          BY <2>2, <4>1, <4>2
      <3>2. QED
        BY <2>3, <3>1
    <2>9. \A j \in 1..k : \/ \E i \in DOMAIN ranked' : ranked'[i] = merged[j]
                          \/ \E i \in DOMAIN unranked' : unranked'[i] = merged[j]
      <3>1. ASSUME NEW j \in 1..through
            PROVE  \/ \E i \in DOMAIN ranked' : ranked'[i] = merged[j]
                   \/ \E i \in DOMAIN unranked' : unranked'[i] = merged[j]
        <4>1. \A i \in DOMAIN unranked : i \in DOMAIN unranked' /\ unranked'[i] = unranked[i]
          BY <2>2, <2>3
        <4>2. QED
          BY <1>8, <2>1, <3>1, <4>1
      <3>2. \E i \in DOMAIN unranked' : unranked'[i] = merged[k]
        BY <2>2, <2>3 DEF item
      <3>3. QED
        BY <1>4, <3>1, <3>2
    <2>10. Ranking'
      <3>1. /\ through' = k /\ merged' = merged /\ order' = order /\ at' = at
            /\ incoming' = incoming /\ at = Len(incoming)
        BY <1>1
      <3>2. /\ ranked' \in Seq(Item) /\ unranked' \in Seq(Item)
            /\ through' \in 0..Len(merged') /\ (through' # 0 => at' = Len(incoming'))
        BY <1>3, <1>4, <2>1, <2>3, <3>1
      <3>3. Range(order') = Range(order)
        BY <3>1
      <3>4. QED
        BY <2>7, <2>8, <2>9, <3>1, <3>2, <3>3, Zenon DEF Ranking
    <2>11. QED
      BY <1>2, <2>6, <2>10 DEF LoopInv
  <1>12. QED
    BY <1>10, <1>11

(* The ranks of an order tell the ids it names apart, and from the rest. *)
LEMMA RankOfFacts ==
    ASSUME NEW ids \in Seq(Ids)
    PROVE  /\ \A id \in Ids : RankOf(ids)[id] \in Nat /\ (RankOf(ids)[id] # 0 <=> id \in Range(ids))
           /\ \A id \in Range(ids) : id \in Ids /\ RankOf(ids)[id] = RankIn(ids, id)
           /\ \A x, y \in Range(ids) : RankIn(ids, x) = RankIn(ids, y) => x = y
  <1>1. \A id \in Range(ids) : RankIn(ids, id) \in DOMAIN ids /\ ids[RankIn(ids, id)] = id
    BY RankIs
  <1>2. DOMAIN ids = 1..Len(ids) /\ Len(ids) \in Nat /\ \A i \in DOMAIN ids : ids[i] \in Ids
    BY LenProperties, ElementOfSeq
  <1>3. \A id \in Range(ids) : id \in Ids /\ RankIn(ids, id) \in Nat /\ RankIn(ids, id) # 0
    BY <1>1, <1>2
  <1>4. \A id \in Ids : RankOf(ids)[id] = IF id \in Range(ids) THEN RankIn(ids, id) ELSE 0
    BY DEF RankOf
  <1>5. \A x, y \in Range(ids) : RankIn(ids, x) = RankIn(ids, y) => x = y
    BY <1>1
  <1>6. QED
    BY <1>3, <1>4, <1>5

LEMMA SortedFacts ==
    ASSUME LoopInv, order # Absent, NEW sorted \in Sortings
    PROVE  /\ sorted \in Seq(Item) /\ Len(sorted) = Len(ranked)
           /\ \A i \in DOMAIN ranked : \E j \in DOMAIN sorted : sorted[j] = ranked[i]
           /\ \A i \in DOMAIN sorted : \E j \in DOMAIN ranked : sorted[i] = ranked[j]
           /\ \A i, j \in DOMAIN sorted : i < j =>
                  RankOf(order)[sorted[i].id] < RankOf(order)[sorted[j].id]
  <1> DEFINE n == Len(ranked)
             P == DOMAIN ranked
  <1>1. PICK p \in [P -> P] :
            /\ sorted = [i \in P |-> ranked[p[i]]]
            /\ IsInjective(p)
            /\ \A i, j \in DOMAIN p : i < j =>
                  RankIn(order, ranked[p[i]].id) <= RankIn(order, ranked[p[j]].id)
    BY DEF Sortings
  <1>2. ranked \in Seq(Item) /\ n \in Nat /\ P = 1..n /\ (\A i \in P : ranked[i] \in Item)
        /\ NamesEachOnce(ranked) /\ order \in Seq(Ids)
    BY ItemsAre DEF LoopInv, MergeInv, Arrays, Ranking, RankedApart
  <1>3. \A i \in P : p[i] \in P /\ sorted[i] = ranked[p[i]]
    BY <1>1
  <1>4. DOMAIN sorted = P /\ DOMAIN p = P
    BY <1>1
  <1>5. IsFiniteSet(P)
    BY <1>2, FS_Interval
  <1>6. \A j \in P : \E i \in P : p[i] = j
    <2> HIDE DEF P
    <2>1. p \in Injection(P, P)
      BY <1>1, <1>4 DEF Injection, IsInjective
    <2>2. p \in Surjection(P, P)
      BY <1>5, <2>1, FS_Injection
    <2>3. QED
      BY <2>2 DEF Surjection
  <1>7. sorted \in Seq(Item) /\ Len(sorted) = n
    <2>1. sorted = [i \in 1..n |-> sorted[i]]
      BY <1>1, <1>2
    <2>2. \A i \in 1..n : sorted[i] \in Item
      BY <1>2, <1>3
    <2> HIDE DEF n
    <2>3. sorted \in [1..n -> Item]
      BY <2>1, <2>2
    <2>4. QED
      BY <1>2, <2>3
  <1> HIDE DEF n, P
  <1>8. ASSUME NEW i \in P, NEW j \in P, i < j
        PROVE  RankOf(order)[sorted[i].id] < RankOf(order)[sorted[j].id]
    <2>1. PICK x, y : x = ranked[p[i]].id /\ y = ranked[p[j]].id
      OBVIOUS
    <2>2. x \in Range(order) /\ y \in Range(order)
      BY <1>3, <2>1 DEF LoopInv, Ranking, P
    <2>3. x # y
      <3>1. p[i] # p[j]
        BY <1>1, <1>2, <1>4, <1>8 DEF IsInjective
      <3>2. QED
        BY <1>2, <1>3, <2>1, <3>1 DEF NamesEachOnce, P
    <2>4. RankIn(order, x) <= RankIn(order, y)
      BY <1>1, <1>4, <1>8, <2>1
    <2>5. /\ RankOf(order)[x] = RankIn(order, x) /\ RankOf(order)[y] = RankIn(order, y)
          /\ RankIn(order, x) # RankIn(order, y)
          /\ RankOf(order)[x] \in Nat /\ RankOf(order)[y] \in Nat
      BY <1>2, <2>2, <2>3, RankOfFacts
    <2>6. RankOf(order)[x] < RankOf(order)[y]
      BY <2>4, <2>5
    <2>7. QED
      BY <1>3, <2>1, <2>6
  <1>9. \A i \in P : \E j \in P : sorted[j] = ranked[i]
    BY <1>3, <1>6
  <1>10. QED
    BY <1>3, <1>4, <1>7, <1>8, <1>9 DEF P, n

(* The ranked ones by rank, then the rest as they were. *)
LEMMA OrderedFacts ==
    ASSUME LoopInv, order # Absent, through = Len(merged), NEW sorted \in Sortings,
           NEW all, all = sorted \o unranked
    PROVE  /\ all \in Seq(Item) /\ NamesEachOnce(all) /\ SameItems(merged, all)
           /\ \A i, j \in DOMAIN all : i < j => Before(all[i].id, all[j].id)
  <1> DEFINE n == Len(ranked)
             m == Len(unranked)
             rank == RankOf(order)
             place == PlaceIn(merged)
  <1>1. /\ sorted \in Seq(Item) /\ Len(sorted) = n
        /\ \A i \in DOMAIN ranked : \E j \in DOMAIN sorted : sorted[j] = ranked[i]
        /\ \A i \in DOMAIN sorted : \E j \in DOMAIN ranked : sorted[i] = ranked[j]
        /\ \A i, j \in DOMAIN sorted : i < j => rank[sorted[i].id] < rank[sorted[j].id]
    BY SortedFacts
  <1>2. /\ ranked \in Seq(Item) /\ unranked \in Seq(Item) /\ order \in Seq(Ids)
        /\ n \in Nat /\ m \in Nat /\ DOMAIN ranked = 1..n /\ DOMAIN unranked = 1..m
        /\ merged \in Seq(Item) /\ DOMAIN merged = 1..through
        /\ NamesEachOnce(merged)
    BY ItemsAre DEF LoopInv, MergeInv, Arrays, Ranking
  <1>3. DOMAIN sorted = 1..n
    BY <1>1, LenProperties
  <1>4. /\ all \in Seq(Item) /\ DOMAIN all = 1..(n + m)
        /\ \A i \in 1..(n + m) : all[i] = IF i <= n THEN sorted[i] ELSE unranked[i - n]
    <2> HIDE DEF n, m
    <2>1. /\ sorted \o unranked \in Seq(Item)
          /\ Len(sorted \o unranked) = Len(sorted) + Len(unranked)
          /\ \A i \in 1..(Len(sorted) + Len(unranked)) :
                (sorted \o unranked)[i] = IF i <= Len(sorted) THEN sorted[i]
                                          ELSE unranked[i - Len(sorted)]
      BY <1>1, <1>2, ConcatProperties
    <2>2. Len(sorted) = n /\ Len(unranked) = m
      BY <1>1 DEF m
    <2>3. all \in Seq(Item) /\ Len(all) = n + m
          /\ \A i \in 1..(n + m) : all[i] = IF i <= n THEN sorted[i] ELSE unranked[i - n]
      BY <2>1, <2>2, Zenon
    <2>4. QED
      BY <2>3, LenProperties
  <1>5. \A id \in Ids : rank[id] \in Nat /\ (rank[id] # 0 <=> id \in Range(order))
    BY <1>2, RankOfFacts
  <1>6. /\ \A i \in 1..n : ranked[i].id \in Range(order) /\ ranked[i].id \in Ids
        /\ \A i \in 1..m : unranked[i].id \notin Range(order) /\ unranked[i].id \in Ids
        /\ \A i, j \in 1..m : i < j => place[unranked[i].id] < place[unranked[j].id]
    BY <1>2, ItemsAre DEF LoopInv, Ranking, RankedApart
  <1>7. /\ \A i \in 1..n : \E k \in 1..through : ranked[i] = merged[k]
        /\ \A i \in 1..m : \E k \in 1..through : unranked[i] = merged[k]
    BY <1>2 DEF LoopInv, Ranking
  <1> HIDE DEF n, m, rank, place
  <1>8. \A i \in 1..n : all[i] = sorted[i]
    BY <1>2, <1>4
  <1>9. \A i \in 1..m : n + i \in 1..(n + m) /\ all[n + i] = unranked[i]
    BY <1>2, <1>4
  <1>10. \A i \in 1..(n + m) : i \notin 1..n => i - n \in 1..m /\ all[i] = unranked[i - n]
    BY <1>2, <1>4
  <1>11. \A i \in 1..n : rank[all[i].id] # 0 /\ rank[all[i].id] \in Nat
    <2>1. SUFFICES ASSUME NEW i \in 1..n
                   PROVE  rank[sorted[i].id] # 0 /\ rank[sorted[i].id] \in Nat
      BY <1>8
    <2>2. PICK j \in 1..n : sorted[i] = ranked[j]
      BY <1>1, <1>2, <1>3
    <2>3. QED
      BY <1>5, <1>6, <2>2
  <1>12. ASSUME NEW i \in 1..(n + m), NEW j \in 1..(n + m), i < j
         PROVE  Below(place, rank, all[i].id, all[j].id)
    <2>1. CASE j \in 1..n
      <3>1. i \in 1..n
        BY <1>2, <1>12, <2>1
      <3>2. rank[all[i].id] < rank[all[j].id]
        BY <1>1, <1>3, <1>8, <1>12, <2>1, <3>1
      <3>3. QED
        BY <1>11, <3>1, <3>2 DEF Below
    <2>2. CASE j \notin 1..n
      <3>1. j - n \in 1..m /\ all[j] = unranked[j - n] /\ rank[all[j].id] = 0
        BY <1>5, <1>6, <1>10, <2>2
      <3>2. CASE i \in 1..n
        BY <1>11, <3>1, <3>2 DEF Below
      <3>3. CASE i \notin 1..n
        <4>1. i - n \in 1..m /\ all[i] = unranked[i - n] /\ rank[all[i].id] = 0
          BY <1>5, <1>6, <1>10, <3>3
        <4>2. i - n < j - n
          BY <1>2, <1>12
        <4>3. place[all[i].id] < place[all[j].id]
          BY <1>6, <3>1, <4>1, <4>2
        <4>4. QED
          BY <3>1, <4>1, <4>3 DEF Below
      <3>4. QED
        BY <3>2, <3>3
    <2>3. QED
      BY <2>1, <2>2
  <1>13. \A i \in 1..(n + m) : all[i].id \in Ids
    BY <1>4, ItemsAre
  <1>14. place \in Places
    BY <1>2, ArrayStandsFor DEF place
  <1>15. \A x \in Ids : ~Below(place, rank, x, x)
    BY <1>5, <1>14 DEF Below, Places
  <1>16. NamesEachOnce(all)
    <2>1. ASSUME NEW i \in 1..(n + m), NEW j \in 1..(n + m), all[i].id = all[j].id, i < j
          PROVE  FALSE
      BY <1>12, <1>13, <1>15, <2>1
    <2>2. ASSUME NEW i \in 1..(n + m), NEW j \in 1..(n + m), all[i].id = all[j].id, i # j
          PROVE  FALSE
      <3>1. i < j \/ j < i
        BY <1>2, <2>2
      <3>2. QED
        BY <2>1, <2>2, <3>1
    <2>3. QED
      BY <1>4, <2>2 DEF NamesEachOnce
  <1>17. SameItems(merged, all)
    <2>1. ASSUME NEW k \in 1..through
          PROVE  \E j \in 1..(n + m) : all[j] = merged[k]
      <3>1. CASE \E i \in 1..n : ranked[i] = merged[k]
        <4>1. PICK i \in 1..n : sorted[i] = merged[k]
          BY <1>1, <1>2, <1>3, <3>1
        <4>2. i \in 1..(n + m)
          BY <1>2
        <4>3. QED
          BY <1>8, <4>1, <4>2
      <3>2. CASE \E i \in 1..m : unranked[i] = merged[k]
        BY <1>9, <3>2
      <3>3. QED
        BY <1>2, <3>1, <3>2 DEF LoopInv, Ranking
    <2>2. ASSUME NEW j \in 1..(n + m)
          PROVE  \E k \in 1..through : all[j] = merged[k]
      <3>1. CASE j \in 1..n
        <4>1. PICK i \in 1..n : sorted[j] = ranked[i]
          BY <1>1, <1>2, <1>3, <3>1
        <4>2. all[j] = ranked[i]
          BY <1>8, <3>1, <4>1
        <4>3. PICK k \in 1..through : ranked[i] = merged[k]
          BY <1>7
        <4>4. QED
          BY <4>2, <4>3
      <3>2. CASE j \notin 1..n
        <4>1. PICK i \in 1..m : all[j] = unranked[i]
          BY <1>10, <3>2
        <4>2. PICK k \in 1..through : unranked[i] = merged[k]
          BY <1>7
        <4>3. QED
          BY <4>1, <4>2
      <3>3. QED
        BY <3>1, <3>2
    <2>3. QED
      BY <1>2, <1>4, <2>1, <2>2 DEF SameItems
  <1>18. \A i, j \in 1..(n + m) : i < j => Before(all[i].id, all[j].id)
    BY <1>12 DEF Before, place, rank
  <1>19. QED
    BY <1>4, <1>16, <1>17, <1>18

LEMMA FinishKeeps ==
    ASSUME LoopInv, Finish
    PROVE  LoopInv'
  <1>1. /\ at = Len(incoming)
        /\ UNCHANGED <<base, incoming, order, merged, at, ranked, unranked, through>>
    BY DEF Finish, request
  <1>2. MergeInv' /\ Ranking' /\ RankedApart'
    <2>1. SoFar' = SoFar
      BY <1>1 DEF SoFar
    <2>2. MergeInv'
      BY <1>1, <2>1 DEF LoopInv, MergeInv, Arrays, SlotsStay, NewOnTop, NewestSoFar
    <2>3. Ranking' /\ RankedApart'
      BY <1>1 DEF LoopInv, Ranking, RankedApart
    <2>4. QED
      BY <2>2, <2>3
  <1>3. merged \in Seq(Item) /\ NamesEachOnce(merged)
    BY DEF LoopInv, MergeInv, Arrays
  <1>4. CASE order = Absent
    <2>1. result' = merged
      BY <1>4 DEF Finish
    <2>2. SameItems(merged, merged)
      BY DEF SameItems
    <2>3. QED
      BY <1>1, <1>2, <1>3, <1>4, <2>1, <2>2 DEF LoopInv, Ordered
  <1>5. CASE order # Absent
    <2>1. PICK sorted \in Sortings : result' = sorted \o unranked
      BY <1>5 DEF Finish
    <2>2. through = Len(merged)
      BY <1>5 DEF Finish
    <2>3. PICK all : all = sorted \o unranked
      OBVIOUS
    <2>4. /\ all \in Seq(Item) /\ NamesEachOnce(all) /\ SameItems(merged, all)
          /\ \A i, j \in DOMAIN all : i < j => Before(all[i].id, all[j].id)
      BY <1>5, <2>2, <2>3, OrderedFacts
    <2>5. result' = all
      BY <2>1, <2>3
    <2>6. \A x, y : Before(x, y)' <=> Before(x, y)
      BY <1>1 DEF Before
    <2>7. QED
      BY <1>1, <1>2, <1>5, <2>4, <2>5, <2>6 DEF LoopInv, Ordered
  <1>6. QED
    BY <1>4, <1>5

LEMMA LoopBegins == LoopInit => LoopInv
  <1> SUFFICES ASSUME LoopInit PROVE LoopInv
    OBVIOUS
  <1>1. base \in Seq(Item) /\ incoming \in Seq(Item) /\ order \in Seq(Ids) \cup {Absent}
    BY DEF LoopInit
  <1>2. /\ merged = base /\ at = 0 /\ ranked = <<>> /\ unranked = <<>> /\ through = 0
        /\ result = Absent /\ NamesEachOnce(base)
    BY DEF LoopInit
  <1>3. Len(base) \in Nat /\ Len(incoming) \in Nat /\ DOMAIN base = 1..Len(base)
        /\ \A i \in DOMAIN base : base[i].copy \in Element
    BY <1>1, ItemsAre
  <1>4. Arrays /\ SlotsStay /\ NewOnTop
    BY <1>1, <1>2, <1>3 DEF Arrays, SlotsStay, NewOnTop
  <1>5. NewestSoFar
    <2>1. SoFar = {base[k] : k \in DOMAIN base}
      BY <1>2 DEF SoFar
    <2>2. \A i, j \in DOMAIN base : base[i].id = base[j].id => ~IsNewer(base[i].copy, base[j].copy)
      BY <1>2, <1>3, NewerIsTransitive DEF NamesEachOnce
    <2>3. QED
      BY <1>2, <2>1, <2>2 DEF NewestSoFar, IdsOf
  <1>6. Ranking /\ RankedApart /\ Ordered
    <2>1. <<>> \in Seq(Item) /\ DOMAIN <<>> = {}
      OBVIOUS
    <2>2. 1..0 = {} /\ 0 \in 0..Len(merged)
      BY <1>2, <1>3
    <2>3. QED
      BY <1>2, <2>1, <2>2 DEF Ranking, RankedApart, Ordered, NamesEachOnce
  <1>7. QED
    BY <1>4, <1>5, <1>6 DEF LoopInv, MergeInv

LEMMA StepLoops == LoopInv /\ [LoopNext]_loopVars => LoopInv'
  <1> SUFFICES ASSUME LoopInv, [LoopNext]_loopVars PROVE LoopInv'
    OBVIOUS
  <1>1. CASE UNCHANGED loopVars
    <2>1. UNCHANGED <<base, incoming, order, merged, at, ranked, unranked, through, result>>
      BY <1>1 DEF loopVars, request
    <2>2. SoFar' = SoFar
      BY <2>1 DEF SoFar
    <2>3. MergeInv'
      BY <2>1, <2>2 DEF LoopInv, MergeInv, Arrays, SlotsStay, NewOnTop, NewestSoFar
    <2>4. Ranking' /\ RankedApart'
      BY <2>1 DEF LoopInv, Ranking, RankedApart
    <2>5. Ordered'
      BY <2>1 DEF LoopInv, Ordered, Before
    <2>6. QED
      BY <2>3, <2>4, <2>5 DEF LoopInv
  <1>2. QED
    BY <1>1, MergeOneKeeps, RankOneKeeps, FinishKeeps DEF LoopNext

(* The loops' invariant, in every state they come to. *)
THEOREM LoopsKeepTrack == LoopSpec => []LoopInv
  <1>1. QED
    BY LoopBegins, StepLoops, PTL DEF LoopSpec

-----------------------------------------------------------------------------
(* The end of the loops is what the operators say. *)
LEMMA AllSoFar ==
    ASSUME LoopInv, at = Len(incoming)
    PROVE  /\ SoFar = {base[k] : k \in DOMAIN base} \cup {incoming[k] : k \in DOMAIN incoming}
           /\ IdsOf(merged) = IdsOf(base) \cup IdsOf(incoming)
  <1>1. DOMAIN incoming = 1..at
    BY ItemsAre DEF LoopInv, MergeInv, Arrays
  <1>2. SoFar = {base[k] : k \in DOMAIN base} \cup {incoming[k] : k \in DOMAIN incoming}
    BY <1>1 DEF SoFar
  <1>3. \A item \in SoFar : item.id \in IdsOf(merged)
    BY DEF LoopInv, MergeInv, NewestSoFar
  <1>4. \A k \in DOMAIN base : base[k].id \in IdsOf(merged)
    BY <1>2, <1>3
  <1>5. \A k \in DOMAIN incoming : incoming[k].id \in IdsOf(merged)
    BY <1>2, <1>3
  <1>6. \A i \in DOMAIN merged : merged[i] \in SoFar
    BY DEF LoopInv, MergeInv, NewestSoFar
  <1>7. \A i \in DOMAIN merged : merged[i].id \in IdsOf(base) \cup IdsOf(incoming)
    BY <1>2, <1>6 DEF IdsOf
  <1>8. QED
    BY <1>2, <1>4, <1>5, <1>7 DEF IdsOf

LEMMA MergedPlaces ==
    ASSUME LoopInv, at = Len(incoming)
    PROVE  PlaceIn(merged) = MergePlace(PlaceIn(base), ArrivingIn(incoming))
  <1>1. PICK p, b, a : /\ p = PlaceIn(merged) /\ b = PlaceIn(base) /\ a = ArrivingIn(incoming)
    OBVIOUS
  <1>2. PICK n, m : n = Len(base) /\ m = Len(merged)
    OBVIOUS
  <1>3. /\ base \in Seq(Item) /\ merged \in Seq(Item) /\ incoming \in Seq(Item)
        /\ NamesEachOnce(base) /\ NamesEachOnce(merged)
        /\ n \in Nat /\ m \in Nat /\ DOMAIN base = 1..n /\ DOMAIN merged = 1..m /\ n <= m
        /\ \A i \in 1..n : merged[i].id = base[i].id
        /\ \A i, j \in 1..m : n < i /\ i < j =>
              FirstIn(incoming, merged[i].id) < FirstIn(incoming, merged[j].id)
    BY <1>2, ItemsAre DEF LoopInv, MergeInv, Arrays, SlotsStay, NewOnTop
  <1>4. /\ \A i \in 1..m : p[merged[i].id] = i /\ merged[i].id \in Ids
        /\ \A id \in Ids : id \notin IdsOf(merged) => p[id] = 0
        /\ \A id \in IdsOf(merged) : \E i \in 1..m : merged[i].id = id
    BY <1>1, <1>3, ArrayStandsFor, ItemsAre
  <1>5. /\ \A i \in 1..n : b[base[i].id] = i
        /\ \A id \in Ids : id \notin IdsOf(base) => b[id] = 0
        /\ \A id \in IdsOf(base) : \E i \in 1..n : base[i].id = id
        /\ Present(b) = IdsOf(base)
    BY <1>1, <1>3, ArrayStandsFor
  <1>6. \A id \in IdsOf(incoming) : FirstIn(incoming, id) \in Nat /\ FirstIn(incoming, id) > 0
    <2>1. DOMAIN incoming = 1..Len(incoming) /\ Len(incoming) \in Nat
      BY <1>3, ItemsAre
    <2>2. QED
      BY <1>3, <2>1, FirstIs
  <1>7. /\ \A id \in IdsOf(incoming) : a[id] = FirstIn(incoming, id) /\ id \in Ids
        /\ \A id \in Ids : id \notin IdsOf(incoming) => a[id] = 0
    BY <1>1, <1>3, ItemsAre DEF ArrivingIn
  <1>8. IdsOf(merged) = IdsOf(base) \cup IdsOf(incoming)
    BY AllSoFar
  <1>9. Cardinality(Present(b)) = n
    <2>1. IdsOf(base) = {base[i].id : i \in 1..n}
      BY <1>3 DEF IdsOf
    <2>2. 0 \in 0..Len(base) /\ n \in 0..Len(base) /\ 0 <= n
      BY <1>2, <1>3
    <2>3. Cardinality({base[i].id : i \in (0 + 1)..n}) = n - 0
      BY <1>3, <2>2, CountOfSlots, Zenon
    <2>4. QED
      BY <1>3, <1>5, <2>1, <2>3
  <1>10. ASSUME NEW id \in Ids, id \notin IdsOf(base), id \in IdsOf(incoming)
         PROVE  p[id] = n + Cardinality({j \in Ids : b[j] = 0 /\ a[j] \in 1..a[id]})
    <2>1. PICK s \in 1..m : merged[s].id = id
      BY <1>4, <1>8, <1>10
    <2>2. s > n
      <3>1. SUFFICES ASSUME s \in 1..n PROVE FALSE
        BY <1>3
      <3>2. base[s].id = id
        BY <1>3, <2>1, <3>1
      <3>3. QED
        BY <1>3, <1>10, <3>1, <3>2 DEF IdsOf
    <2>3. \A k \in (n + 1)..m : k \in 1..m /\ merged[k].id \notin IdsOf(base)
      <3>1. ASSUME NEW k \in (n + 1)..m, NEW i \in 1..n, base[i].id = merged[k].id
            PROVE  FALSE
        BY <1>3, <3>1 DEF NamesEachOnce
      <3>2. \A k \in (n + 1)..m : k \in 1..m
        BY <1>3
      <3>3. QED
        BY <1>5, <3>1, <3>2
    <2>4. \A k \in (n + 1)..m : merged[k].id \in IdsOf(incoming) /\ b[merged[k].id] = 0
                                /\ a[merged[k].id] = FirstIn(incoming, merged[k].id)
                                /\ a[merged[k].id] \in Nat /\ a[merged[k].id] > 0
      <3>1. \A k \in (n + 1)..m : merged[k].id \in IdsOf(merged)
        BY <1>3, <2>3 DEF IdsOf
      <3>2. QED
        BY <1>4, <1>5, <1>6, <1>7, <1>8, <2>3, <3>1
    <2>5. \A k \in (n + 1)..m : a[merged[k].id] <= a[id] <=> k <= s
      <3>1. s \in (n + 1)..m
        BY <1>3, <2>2
      <3>2. ASSUME NEW k \in (n + 1)..m
            PROVE  a[merged[k].id] <= a[id] <=> k <= s
        <4>1. CASE k = s
          BY <2>1, <2>4, <3>2, <4>1
        <4>2. CASE k < s
          <5>1. a[merged[k].id] < a[merged[s].id]
            BY <1>3, <2>3, <2>4, <3>1, <3>2, <4>2
          <5>2. QED
            BY <2>1, <2>4, <3>1, <4>2, <5>1
        <4>3. CASE s < k
          <5>1. a[merged[s].id] < a[merged[k].id]
            BY <1>3, <2>3, <2>4, <3>1, <3>2, <4>3
          <5>2. QED
            BY <2>1, <2>4, <3>1, <4>3, <5>1
        <4>4. QED
          BY <1>3, <4>1, <4>2, <4>3
      <3>3. QED
        BY <3>2
    <2> DEFINE S == {j \in Ids : b[j] = 0 /\ a[j] \in 1..a[id]}
               T == {merged[k].id : k \in (n + 1)..s}
    <2>6. \A x \in T : x \in S
      <3>1. SUFFICES ASSUME NEW k \in (n + 1)..s
                     PROVE  merged[k].id \in S
        OBVIOUS
      <3>2. k \in (n + 1)..m /\ k <= s
        BY <1>3, <2>1
      <3>3. a[id] \in Nat /\ a[merged[k].id] <= a[id] /\ a[merged[k].id] \in Nat /\ a[merged[k].id] > 0
        BY <1>6, <1>7, <1>10, <2>4, <2>5, <3>2
      <3>4. QED
        BY <1>4, <2>3, <2>4, <3>2, <3>3
    <2>7. \A x \in S : x \in T
      <3>1. SUFFICES ASSUME NEW x \in Ids, b[x] = 0, a[x] \in 1..a[id]
                     PROVE  x \in T
        OBVIOUS
      <3>2. a[id] \in Nat /\ a[x] # 0 /\ a[x] <= a[id]
        BY <1>6, <1>7, <1>10, <3>1
      <3>3. PICK k \in 1..m : merged[k].id = x
        BY <1>4, <1>7, <1>8, <3>1, <3>2
      <3>4. k > n
        <4>1. SUFFICES ASSUME k \in 1..n PROVE FALSE
          BY <1>3
        <4>2. b[x] = k
          BY <1>3, <1>5, <3>3, <4>1
        <4>3. QED
          BY <1>3, <3>1, <4>1, <4>2
      <3>5. k \in (n + 1)..m /\ k <= s
        BY <1>3, <2>5, <3>2, <3>3, <3>4
      <3>6. k \in (n + 1)..s
        BY <1>3, <3>5
      <3>7. QED
        BY <3>3, <3>6
    <2>8. S = T
      BY <2>6, <2>7
    <2>9. Cardinality(T) = s - n
      <3>1. n \in 0..Len(merged) /\ s \in 0..Len(merged) /\ n <= s
        BY <1>2, <1>3, <2>2
      <3>2. QED
        BY <1>3, <3>1, CountOfSlots, Zenon
    <2>10. p[id] = s
      BY <1>4, <2>1
    <2> HIDE DEF S, T
    <2>11. p[id] = n + Cardinality(S)
      BY <1>3, <2>8, <2>9, <2>10
    <2>12. QED
      BY <2>11 DEF S
  <1>11. ASSUME NEW id \in IdsOf(base)
         PROVE  p[id] = b[id] /\ b[id] # 0
    <2>1. PICK i \in 1..n : base[i].id = id
      BY <1>5
    <2>2. b[id] = i /\ i \in 1..m /\ merged[i].id = id
      BY <1>3, <1>5, <2>1
    <2>3. p[id] = i
      BY <1>4, <2>2
    <2>4. i # 0
      BY <2>2
    <2>5. QED
      BY <2>2, <2>3, <2>4
  <1>12. ASSUME NEW id \in Ids
         PROVE  p[id] = IF b[id] # 0 \/ a[id] = 0 THEN b[id]
                        ELSE n + Cardinality({j \in Ids : b[j] = 0 /\ a[j] \in 1..a[id]})
    <2>1. CASE id \in IdsOf(base)
      BY <1>11, <2>1
    <2>2. CASE id \notin IdsOf(base) /\ id \notin IdsOf(incoming)
      BY <1>4, <1>5, <1>7, <1>8, <2>2
    <2>3. CASE id \notin IdsOf(base) /\ id \in IdsOf(incoming)
      <3>1. b[id] = 0 /\ a[id] # 0
        BY <1>5, <1>6, <1>7, <2>3
      <3>2. QED
        BY <1>10, <2>3, <3>1, Zenon
    <2>4. QED
      BY <2>1, <2>2, <2>3
  <1>13. p = [id \in Ids |-> p[id]]
    BY <1>1 DEF PlaceIn
  <1>14. p = MergePlace(b, a)
    BY <1>9, <1>12, <1>13, Zenon DEF MergePlace
  <1>15. QED
    BY <1>1, <1>14

(* Applying an order gives every element the place the operator says. *)
LEMMA OrderedPlaces ==
    ASSUME LoopInv, result # Absent, order # Absent
    PROVE  PlaceIn(result) = ApplyOrder(PlaceIn(merged), RankOf(order))
  <1>1. PICK p, q, r, n : p = PlaceIn(result) /\ q = PlaceIn(merged) /\ r = RankOf(order) /\ n = Len(result)
    OBVIOUS
  <1>2. /\ merged \in Seq(Item) /\ NamesEachOnce(merged) /\ order \in Seq(Ids)
        /\ result \in Seq(Item) /\ NamesEachOnce(result) /\ SameItems(merged, result)
        /\ \A i, j \in DOMAIN result : i < j => Below(q, r, result[i].id, result[j].id)
    BY <1>1 DEF LoopInv, MergeInv, Arrays, Ordered, Before
  <1>3. n \in Nat /\ DOMAIN result = 1..n /\ \A i \in 1..n : result[i].id \in Ids
    BY <1>1, <1>2, ItemsAre
  <1>4. /\ \A i \in 1..n : p[result[i].id] = i
        /\ \A id \in Ids : id \notin IdsOf(result) => p[id] = 0
        /\ \A id \in IdsOf(result) : \E i \in 1..n : result[i].id = id
    BY <1>1, <1>2, <1>3, ArrayStandsFor
  <1>5. /\ \A id \in Ids : q[id] \in Nat /\ (q[id] = 0 <=> id \notin IdsOf(merged))
        /\ Present(q) = IdsOf(merged)
    <2>1. Present(q) = IdsOf(merged) /\ q \in Places
      BY <1>1, <1>2, ArrayStandsFor
    <2>2. QED
      BY <2>1 DEF Present, Places
  <1>6. \A id \in Ids : r[id] \in Nat
    BY <1>1, <1>2, RankOfFacts
  <1>7. IdsOf(merged) = IdsOf(result)
    BY <1>2 DEF SameItems, IdsOf
  <1>8. ASSUME NEW x \in Ids, NEW y \in Ids, Below(q, r, x, y), x = y \/ Below(q, r, y, x)
        PROVE  FALSE
    BY <1>5, <1>6, <1>8 DEF Below
  <1>9. ASSUME NEW s \in 1..n, NEW k \in 1..n
        PROVE  (result[k].id = result[s].id \/ Below(q, r, result[k].id, result[s].id)) <=> k <= s
    <2>1. CASE k = s
      BY <2>1
    <2>2. CASE k < s
      BY <1>2, <1>3, <2>2
    <2>3. CASE s < k
      <3>1. Below(q, r, result[s].id, result[k].id)
        BY <1>2, <1>3, <2>3
      <3>2. ~(result[k].id = result[s].id \/ Below(q, r, result[k].id, result[s].id))
        BY <1>3, <1>8, <3>1
      <3>3. QED
        BY <1>3, <2>3, <3>2
    <2>4. QED
      BY <1>3, <2>1, <2>2, <2>3
  <1>10. ASSUME NEW id \in IdsOf(result)
         PROVE  p[id] = Cardinality({j \in Present(q) : j = id \/ Below(q, r, j, id)}) /\ q[id] # 0
    <2>1. PICK s \in 1..n : result[s].id = id
      BY <1>4
    <2> DEFINE S == {j \in Present(q) : j = id \/ Below(q, r, j, id)}
               T == {result[k].id : k \in (0 + 1)..s}
    <2>2. \A x \in T : x \in S
      <3>1. SUFFICES ASSUME NEW k \in (0 + 1)..s
                     PROVE  result[k].id \in S
        OBVIOUS
      <3>2. k \in 1..n /\ k <= s
        BY <1>3, <3>1
      <3>3. result[k].id \in IdsOf(result)
        BY <1>3, <3>2 DEF IdsOf
      <3>4. QED
        BY <1>5, <1>7, <1>9, <2>1, <3>2, <3>3
    <2>3. \A x \in S : x \in T
      <3>1. SUFFICES ASSUME NEW x \in Present(q), x = id \/ Below(q, r, x, id)
                     PROVE  x \in T
        OBVIOUS
      <3>2. PICK k \in 1..n : result[k].id = x
        BY <1>4, <1>5, <1>7
      <3>3. k <= s
        BY <1>9, <2>1, <3>1, <3>2
      <3>4. k \in (0 + 1)..s
        BY <1>3, <3>3
      <3>5. QED
        BY <3>2, <3>4
    <2>4. S = T
      BY <2>2, <2>3
    <2>5. Cardinality(T) = s - 0
      <3>1. 0 \in 0..Len(result) /\ s \in 0..Len(result) /\ 0 <= s
        BY <1>1, <1>3
      <3>2. QED
        BY <1>2, <3>1, CountOfSlots, Zenon
    <2>6. p[id] = s
      BY <1>4, <2>1
    <2>7. id \in Ids /\ q[id] # 0
      BY <1>3, <1>5, <1>7, <2>1
    <2> HIDE DEF S, T
    <2>8. p[id] = Cardinality(S)
      BY <1>3, <2>4, <2>5, <2>6
    <2>9. QED
      BY <2>7, <2>8 DEF S
  <1>11. ASSUME NEW id \in Ids
         PROVE  p[id] = IF q[id] = 0 THEN 0
                        ELSE Cardinality({j \in Present(q) : j = id \/ Below(q, r, j, id)})
    <2>1. CASE id \in IdsOf(result)
      BY <1>10, <2>1, Zenon
    <2>2. CASE id \notin IdsOf(result)
      BY <1>4, <1>5, <1>7, <2>2
    <2>3. QED
      BY <2>1, <2>2
  <1>12. p = [id \in Ids |-> p[id]]
    BY <1>1 DEF PlaceIn
  <1>13. p = ApplyOrder(q, r)
    BY <1>11, <1>12, Zenon DEF ApplyOrder
  <1>14. QED
    BY <1>1, <1>13

LEMMA SameElements ==
    ASSUME LoopInv, result # Absent
    PROVE  ElementsIn(result) = ElementsIn(merged)
  <1>1. PICK e, f : e = ElementsIn(result) /\ f = ElementsIn(merged)
    OBVIOUS
  <1>2. /\ merged \in Seq(Item) /\ NamesEachOnce(merged)
        /\ result \in Seq(Item) /\ NamesEachOnce(result) /\ SameItems(merged, result)
    BY DEF LoopInv, MergeInv, Arrays, Ordered
  <1>3. /\ \A i \in DOMAIN merged : f[merged[i].id] = merged[i].copy
        /\ \A id \in Ids : id \notin IdsOf(merged) => f[id] = Absent
        /\ \A id \in IdsOf(merged) : \E i \in DOMAIN merged : merged[i].id = id
    BY <1>1, <1>2, ArrayStandsFor
  <1>4. /\ \A i \in DOMAIN result : e[result[i].id] = result[i].copy
        /\ \A id \in Ids : id \notin IdsOf(result) => e[id] = Absent
    BY <1>1, <1>2, ArrayStandsFor
  <1>5. IdsOf(merged) = IdsOf(result)
    BY <1>2 DEF SameItems, IdsOf
  <1>6. ASSUME NEW id \in Ids
        PROVE  e[id] = f[id]
    <2>1. CASE id \in IdsOf(merged)
      <3>1. PICK i \in DOMAIN merged : merged[i].id = id
        BY <1>3, <2>1
      <3>2. PICK j \in DOMAIN result : result[j] = merged[i]
        BY <1>2 DEF SameItems
      <3>3. QED
        BY <1>3, <1>4, <3>1, <3>2
    <2>2. CASE id \notin IdsOf(merged)
      BY <1>3, <1>4, <1>5, <2>2
    <2>3. QED
      BY <2>1, <2>2
  <1>7. e = [id \in Ids |-> e[id]] /\ f = [id \in Ids |-> f[id]]
    BY <1>1 DEF ElementsIn
  <1>8. e = f
    BY <1>6, <1>7
  <1>9. QED
    BY <1>1, <1>8

(* What the loop leaves under an id is the newest of its copies. *)
LEMMA NewestOfCopies ==
    ASSUME LoopInv, at = Len(incoming), NEW id \in Ids
    PROVE  /\ CopiesOf(id) = {} => ElementsIn(merged)[id] = Absent
           /\ CopiesOf(id) # {} =>
                 /\ ElementsIn(merged)[id] \in CopiesOf(id)
                 /\ \A e \in CopiesOf(id) : ~IsNewer(e, ElementsIn(merged)[id])
  <1>1. PICK f : f = ElementsIn(merged)
    OBVIOUS
  <1>2. merged \in Seq(Item) /\ NamesEachOnce(merged)
    BY DEF LoopInv, MergeInv, Arrays
  <1>3. /\ \A i \in DOMAIN merged : f[merged[i].id] = merged[i].copy
        /\ \A x \in Ids : x \notin IdsOf(merged) => f[x] = Absent
        /\ \A x \in IdsOf(merged) : \E i \in DOMAIN merged : merged[i].id = x
    BY <1>1, <1>2, ArrayStandsFor
  <1>4. /\ SoFar = {base[k] : k \in DOMAIN base} \cup {incoming[k] : k \in DOMAIN incoming}
        /\ IdsOf(merged) = IdsOf(base) \cup IdsOf(incoming)
    BY AllSoFar
  <1>5. /\ \A i \in DOMAIN merged : merged[i] \in SoFar
        /\ \A i \in DOMAIN merged : \A item \in SoFar :
              item.id = merged[i].id => ~IsNewer(item.copy, merged[i].copy)
    BY DEF LoopInv, MergeInv, NewestSoFar
  <1>6. \A item \in SoFar : item.id = id => item.copy \in CopiesOf(id)
    BY <1>4 DEF CopiesOf
  <1>7. \A e \in CopiesOf(id) : \E item \in SoFar : item.id = id /\ item.copy = e
    BY <1>4 DEF CopiesOf
  <1>8. CASE id \in IdsOf(merged)
    <2>1. PICK i \in DOMAIN merged : merged[i].id = id
      BY <1>3, <1>8
    <2>2. f[id] = merged[i].copy /\ f[id] \in CopiesOf(id)
      BY <1>3, <1>5, <1>6, <2>1
    <2>3. \A e \in CopiesOf(id) : ~IsNewer(e, f[id])
      BY <1>5, <1>7, <2>1, <2>2
    <2>4. QED
      BY <1>1, <2>2, <2>3
  <1>9. CASE id \notin IdsOf(merged)
    <2>1. f[id] = Absent
      BY <1>3, <1>9
    <2>2. \A item \in SoFar : item.id # id
      BY <1>9 DEF LoopInv, MergeInv, NewestSoFar
    <2>3. CopiesOf(id) = {}
      BY <1>7, <2>2
    <2>4. QED
      BY <1>1, <2>1, <2>3
  <1>10. QED
    BY <1>8, <1>9

(* A request that names every id once is merged as the operator says. *)
LEMMA MergedOnce ==
    ASSUME LoopInv, at = Len(incoming), NamesEachOnce(incoming)
    PROVE  ElementsIn(merged) = Merge(ElementsIn(base), ElementsIn(incoming))
  <1>1. PICK f, b, a : f = ElementsIn(merged) /\ b = ElementsIn(base) /\ a = ElementsIn(incoming)
    OBVIOUS
  <1>2. /\ base \in Seq(Item) /\ merged \in Seq(Item) /\ incoming \in Seq(Item)
        /\ NamesEachOnce(base) /\ NamesEachOnce(merged)
        /\ \A i \in DOMAIN base : i \in DOMAIN merged /\ merged[i].id = base[i].id
    <2>1. /\ base \in Seq(Item) /\ merged \in Seq(Item) /\ incoming \in Seq(Item)
          /\ NamesEachOnce(base) /\ NamesEachOnce(merged) /\ Len(base) <= Len(merged)
          /\ \A i \in DOMAIN base : merged[i].id = base[i].id
      BY DEF LoopInv, MergeInv, Arrays, SlotsStay
    <2>2. /\ DOMAIN base = 1..Len(base) /\ DOMAIN merged = 1..Len(merged)
          /\ Len(base) \in Nat /\ Len(merged) \in Nat
      BY <2>1, ItemsAre
    <2>3. QED
      BY <2>1, <2>2
  <1>3. /\ \A i \in DOMAIN merged : f[merged[i].id] = merged[i].copy
        /\ \A id \in Ids : id \notin IdsOf(merged) => f[id] = Absent
        /\ \A id \in IdsOf(merged) : \E i \in DOMAIN merged : merged[i].id = id
    BY <1>1, <1>2, ArrayStandsFor
  <1>4. /\ \A i \in DOMAIN base : b[base[i].id] = base[i].copy
        /\ \A id \in Ids : id \notin IdsOf(base) => b[id] = Absent
        /\ \A id \in IdsOf(base) : \E i \in DOMAIN base : base[i].id = id
    BY <1>1, <1>2, ArrayStandsFor
  <1>5. /\ \A i \in DOMAIN incoming : a[incoming[i].id] = incoming[i].copy
        /\ \A id \in Ids : id \notin IdsOf(incoming) => a[id] = Absent
        /\ \A id \in IdsOf(incoming) : \E i \in DOMAIN incoming : incoming[i].id = id
    BY <1>1, <1>2, ArrayStandsFor
  <1>6. /\ SoFar = {base[k] : k \in DOMAIN base} \cup {incoming[k] : k \in DOMAIN incoming}
        /\ IdsOf(merged) = IdsOf(base) \cup IdsOf(incoming)
    BY AllSoFar
  <1>7. /\ \A i \in DOMAIN merged : merged[i] \in SoFar
        /\ \A i \in DOMAIN merged : \A item \in SoFar :
              item.id = merged[i].id => ~IsNewer(item.copy, merged[i].copy)
        /\ \A i \in DOMAIN base : merged[i] = base[i] \/ IsNewer(merged[i].copy, base[i].copy)
    BY DEF LoopInv, MergeInv, NewestSoFar
  <1>8. /\ \A i \in DOMAIN base : base[i].copy \in Element
        /\ \A i \in DOMAIN merged : merged[i].copy \in Element
        /\ \A i \in DOMAIN incoming : incoming[i].copy \in Element
        /\ Absent \notin Element
    BY <1>2, ItemsAre, ReconcileAssumption
  <1>9. ASSUME NEW i \in DOMAIN incoming, NEW item \in SoFar, item.id = incoming[i].id,
               incoming[i].id \notin IdsOf(base)
        PROVE  item = incoming[i]
    <2>1. \A k \in DOMAIN base : base[k].id # item.id
      BY <1>9 DEF IdsOf
    <2>2. PICK k \in DOMAIN incoming : item = incoming[k]
      BY <1>6, <2>1
    <2>3. k = i
      BY <1>9, <2>2 DEF NamesEachOnce
    <2>4. QED
      BY <2>2, <2>3
  <1>10. ASSUME NEW id \in Ids
         PROVE  f[id] = IF Takes(a[id], b[id]) THEN a[id] ELSE b[id]
    <2>1. CASE id \in IdsOf(base)
      <3>1. PICK i \in DOMAIN base : base[i].id = id
        BY <1>4, <2>1
      <3>2. b[id] = base[i].copy /\ f[id] = merged[i].copy /\ merged[i].id = id /\ i \in DOMAIN merged
        BY <1>2, <1>3, <1>4, <3>1
      <3>3. CASE id \in IdsOf(incoming)
        <4>1. PICK k \in DOMAIN incoming : incoming[k].id = id
          BY <1>5, <3>3
        <4>2. a[id] = incoming[k].copy /\ incoming[k] \in SoFar
          BY <1>5, <1>6, <4>1
        <4>3. ~IsNewer(a[id], f[id])
          BY <1>7, <3>2, <4>1, <4>2
        <4>4. \A item \in SoFar : item.id = id => item = base[i] \/ item = incoming[k]
          <5>1. SUFFICES ASSUME NEW item \in SoFar, item.id = id
                         PROVE  item = base[i] \/ item = incoming[k]
            OBVIOUS
          <5>2. CASE \E l \in DOMAIN base : item = base[l]
            BY <1>2, <3>1, <5>1, <5>2 DEF NamesEachOnce
          <5>3. CASE \E l \in DOMAIN incoming : item = incoming[l]
            BY <4>1, <5>1, <5>3 DEF NamesEachOnce
          <5>4. QED
            BY <1>6, <5>2, <5>3
        <4>5. CASE merged[i] = base[i]
          <5>1. ~Takes(a[id], b[id])
            BY <1>8, <3>2, <4>2, <4>3, <4>5 DEF Takes
          <5>2. QED
            BY <3>2, <4>5, <5>1
        <4>6. CASE merged[i] # base[i]
          <5>1. merged[i] = incoming[k] /\ IsNewer(merged[i].copy, base[i].copy)
            BY <1>7, <3>1, <3>2, <4>4, <4>6
          <5>2. Takes(a[id], b[id])
            BY <1>8, <3>2, <4>2, <5>1 DEF Takes
          <5>3. QED
            BY <3>2, <4>2, <5>1, <5>2
        <4>7. QED
          BY <4>5, <4>6
      <3>4. CASE id \notin IdsOf(incoming)
        <4>1. a[id] = Absent
          BY <1>5, <3>4
        <4>2. merged[i] = base[i]
          <5>1. \A k \in DOMAIN incoming : incoming[k].id # id
            BY <3>4 DEF IdsOf
          <5>2. PICK l \in DOMAIN base : merged[i] = base[l]
            BY <1>6, <1>7, <3>2, <5>1
          <5>3. l = i
            BY <1>2, <3>1, <3>2, <5>2 DEF NamesEachOnce
          <5>4. QED
            BY <5>2, <5>3
        <4>3. QED
          BY <3>2, <4>1, <4>2 DEF Takes
      <3>5. QED
        BY <3>3, <3>4
    <2>2. CASE id \notin IdsOf(base) /\ id \in IdsOf(incoming)
      <3>1. PICK k \in DOMAIN incoming : incoming[k].id = id
        BY <1>5, <2>2
      <3>2. PICK i \in DOMAIN merged : merged[i].id = id
        BY <1>3, <1>6, <2>2
      <3>3. merged[i] = incoming[k]
        BY <1>7, <1>9, <2>2, <3>1, <3>2
      <3>4. a[id] = f[id] /\ a[id] # Absent /\ b[id] = Absent
        BY <1>3, <1>4, <1>5, <1>8, <2>2, <3>1, <3>2, <3>3
      <3>5. QED
        BY <3>4 DEF Takes
    <2>3. CASE id \notin IdsOf(base) /\ id \notin IdsOf(incoming)
      BY <1>3, <1>4, <1>5, <1>6, <2>3 DEF Takes
    <2>4. QED
      BY <2>1, <2>2, <2>3
  <1>11. f = [id \in Ids |-> f[id]]
    BY <1>1 DEF ElementsIn
  <1>12. f = Merge(b, a)
    BY <1>10, <1>11, Zenon DEF Merge
  <1>13. QED
    BY <1>1, <1>12

LEMMA LoopsAgree == LoopInv => ResultIsReference
  <1> SUFFICES ASSUME LoopInv, result # Absent
               PROVE  ResultIsReference
    BY DEF ResultIsReference, ResultIsMerge, ResultIsPlaced
  <1>1. at = Len(incoming) /\ (order = Absent => result = merged)
    BY DEF LoopInv, Ordered
  <1>2. ResultIsMerge
    <2>1. CASE NamesEachOnce(incoming)
      BY <1>1, <2>1, SameElements, MergedOnce DEF ResultIsMerge
    <2>2. ASSUME NEW id \in Ids
          PROVE  IF CopiesOf(id) = {} THEN ElementsIn(result)[id] = Absent
                 ELSE /\ ElementsIn(result)[id] \in CopiesOf(id)
                      /\ \A e \in CopiesOf(id) : ~IsNewer(e, ElementsIn(result)[id])
      <3>1. ElementsIn(result) = ElementsIn(merged)
        BY SameElements
      <3>2. QED
        BY <1>1, <3>1, NewestOfCopies
    <2>3. CASE ~NamesEachOnce(incoming)
      BY <2>2, <2>3, Zenon DEF ResultIsMerge
    <2>4. QED
      BY <2>1, <2>3
  <1>3. ResultIsPlaced
    <2>1. PlaceIn(merged) = MergePlace(PlaceIn(base), ArrivingIn(incoming))
      BY <1>1, MergedPlaces
    <2>2. CASE order = Absent
      BY <1>1, <2>1, <2>2, Zenon DEF ResultIsPlaced
    <2>3. CASE order # Absent
      <3>1. PlaceIn(result) = ApplyOrder(PlaceIn(merged), RankOf(order))
        BY <2>3, OrderedPlaces
      <3>2. QED
        BY <2>1, <2>3, <3>1, Zenon DEF ResultIsPlaced
    <2>4. QED
      BY <2>2, <2>3
  <1>4. QED
    BY <1>2, <1>3 DEF ResultIsReference

(* What reconcileElements and applyOrder leave in the array they return is  *)
(* what Merge, MergePlace and ApplyOrder say, for every scene, request and  *)
(* declared order of any length.                                            *)
THEOREM LoopsAreTheOperators == LoopSpec => []ResultIsReference
  <1>1. QED
    BY LoopsKeepTrack, LoopsAgree, PTL
=============================================================================
