------------------------------ MODULE MergeLoop ------------------------------
(***************************************************************************)
(* reconcileElements and applyOrder as the code runs them, over arrays     *)
(* (packages/contract/src/reconcile.ts), on every scene, request and       *)
(* declared order.  The properties say that they compute the operators of  *)
(* Reconcile, which every other module uses in their place;                *)
(* BoardStore_proofs proves them for arrays of any length.                 *)
(***************************************************************************)
EXTENDS Reconcile, SequencesExt

VARIABLES
    base,       \* the stored array
    incoming,   \* the request's array, which may name an id twice
    order,      \* the request's order, or Absent
    merged,     \* the Map, as the array of its values
    at,         \* how many of "incoming" the loop has been through
    applied, rejected,
    ranked, unranked,   \* applyOrder's two arrays ...
    through,            \* ... and how many of "merged" it has been through
    result      \* the array that is committed, Absent until then

request == <<base, incoming, order>>
loopVars == <<request, merged, at, applied, rejected, ranked, unranked, through, result>>

Item == [id: Ids, copy: Element]

IdsOf(array) == {array[i].id : i \in DOMAIN array}

NamesEachOnce(array) == \A i, j \in DOMAIN array : array[i].id = array[j].id => i = j

Slot(array, id) == CHOOSE i \in DOMAIN array : array[i].id = id

LoopInit ==
    /\ base \in Seq(Item) /\ NamesEachOnce(base)
    /\ incoming \in Seq(Item)
    /\ order \in Seq(Ids) \cup {Absent}
    /\ merged = base
    /\ at = 0 /\ applied = 0 /\ rejected = 0
    /\ ranked = <<>> /\ unranked = <<>> /\ through = 0
    /\ result = Absent

-----------------------------------------------------------------------------
(* Map.set appends a new key and keeps the slot of one it has. *)
Put(map, item) ==
    IF item.id \in IdsOf(map) THEN [map EXCEPT ![Slot(map, item.id)] = item]
    ELSE Append(map, item)

Arriving == incoming[at + 1]

Current == merged[Slot(merged, Arriving.id)].copy

MergeOne ==
    /\ at < Len(incoming)
    /\ at' = at + 1
    /\ IF Arriving.id \notin IdsOf(merged) \/ IsNewer(Arriving.copy, Current)
       THEN merged' = Put(merged, Arriving) /\ applied' = applied + 1 /\ UNCHANGED rejected
       ELSE rejected' = rejected + 1 /\ UNCHANGED <<merged, applied>>
    /\ UNCHANGED <<request, ranked, unranked, through, result>>

-----------------------------------------------------------------------------
(* applyOrder, when an order is declared: what it names goes to one array,  *)
(* the rest to another.                                                     *)
RankOne ==
    /\ at = Len(incoming) /\ order # Absent
    /\ through < Len(merged)
    /\ through' = through + 1
    /\ LET item == merged[through + 1]
       IN  IF item.id \in Range(order)
           THEN ranked' = Append(ranked, item) /\ UNCHANGED unranked
           ELSE unranked' = Append(unranked, item) /\ UNCHANGED ranked
    /\ UNCHANGED <<request, merged, at, applied, rejected, result>>

(* An id's rank is its first position in the order. *)
RankIn(ids, id) == CHOOSE i \in DOMAIN ids : ids[i] = id /\ \A j \in 1..(i - 1) : ids[j] # id

(* What Array.sort makes of the ranked ones: they are the same, by rank. *)
Sortings ==
    LET Permutes(p) == IsInjective(p)
        Sorts(p) == \A i, j \in DOMAIN p : i < j =>
                        RankIn(order, ranked[p[i]].id) <= RankIn(order, ranked[p[j]].id)
    IN  {[i \in DOMAIN ranked |-> ranked[p[i]]] :
            p \in {p \in [DOMAIN ranked -> DOMAIN ranked] : Permutes(p) /\ Sorts(p)}}

Finish ==
    /\ at = Len(incoming)
    /\ result = Absent
    /\ \/ order = Absent /\ result' = merged
       \/ /\ order # Absent /\ through = Len(merged)
          /\ \E sorted \in Sortings : result' = sorted \o unranked
    /\ UNCHANGED <<request, merged, at, applied, rejected, ranked, unranked, through>>

LoopNext == MergeOne \/ RankOne \/ Finish

LoopSpec == LoopInit /\ [][LoopNext]_loopVars

-----------------------------------------------------------------------------
(* The two functions an array stands for. *)
ElementsIn(array) ==
    [id \in Ids |-> IF id \in IdsOf(array) THEN array[Slot(array, id)].copy ELSE Absent]

PlaceIn(array) == [id \in Ids |-> IF id \in IdsOf(array) THEN Slot(array, id) ELSE 0]

FirstIn(array, id) ==
    CHOOSE i \in DOMAIN array : array[i].id = id /\ \A j \in 1..(i - 1) : array[j].id # id

ArrivingIn(array) ==
    [id \in Ids |-> IF id \in IdsOf(array) THEN FirstIn(array, id) ELSE 0]

RankOf(ids) == [id \in Ids |-> IF id \in Range(ids) THEN RankIn(ids, id) ELSE 0]

(* The stored copy of an element and those that arrive. *)
CopiesOf(id) ==
    {base[i].copy : i \in {i \in DOMAIN base : base[i].id = id}}
    \cup {incoming[i].copy : i \in {i \in DOMAIN incoming : incoming[i].id = id}}

(* The loop's array, at the end, holds what Merge says under every id.  A   *)
(* request that names an id twice gives it the newest of the three copies,  *)
(* whichever came first.                                                    *)
ResultIsMerge ==
    result # Absent =>
        IF NamesEachOnce(incoming)
        THEN ElementsIn(result) = Merge(ElementsIn(base), ElementsIn(incoming))
        ELSE \A id \in Ids :
                LET kept == ElementsIn(result)[id]
                IN  IF CopiesOf(id) = {} THEN kept = Absent
                    ELSE kept \in CopiesOf(id) /\ \A e \in CopiesOf(id) : ~IsNewer(e, kept)

(* And every element stands where MergePlace and ApplyOrder put it.         *)
ResultIsPlaced ==
    result # Absent =>
        LET place == MergePlace(PlaceIn(base), ArrivingIn(incoming))
        IN  PlaceIn(result) = IF order = Absent THEN place ELSE ApplyOrder(place, RankOf(order))

(* So the loops compute the operators that every other module uses: no     *)
(* order, however stale, drops an id or brings one back, and no request    *)
(* loses an element to where it stands in the array.                       *)
ResultIsReference == ResultIsMerge /\ ResultIsPlaced
=============================================================================
