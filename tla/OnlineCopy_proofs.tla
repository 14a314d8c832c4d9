--------------------------- MODULE OnlineCopy_proofs ---------------------------
(***************************************************************************)
(* What holds of the online copy for any number of pages, elements and     *)
(* pictures, and however many edits, lost requests, catch-ups and closed   *)
(* pages: its images are stored, it never goes back, and what a page's     *)
(* saver is done with is in it.                                            *)
(*                                                                         *)
(* A page writes what it merged into a copy it read some time ago, and     *)
(* leaves off the pictures it takes to be there.  So the first invariant   *)
(* is about what pages believe: a copy they hold that has the stored rev   *)
(* is the stored copy, and a picture they know of is stored.  The second   *)
(* accounts for every element a page shows: the copy has it, the save      *)
(* under way brings it, or it is noted.                                    *)
(***************************************************************************)
EXTENDS OnlineCopy, Scene_proofs

(* Every live image has its picture. *)
Pictured(elements) == \A id \in Images : LiveOf(elements, id) => HasPicture(elements[id])

(* Every picture that is named is among those. *)
Names(elements, stored) ==
    \A id \in Ids : elements[id] # Absent => elements[id].picture \in stored \cup {NoPicture}

(* A tombstone names none. *)
Bare(elements) ==
    \A id \in Ids : elements[id] # Absent /\ elements[id].isDeleted
                        => elements[id].picture = NoPicture

(* What a page has read is a copy the store once had. *)
Faithful(read, now, elements, stored) ==
    read # Nothing =>
        /\ read.rev <= now
        /\ read.rev = now => read.elements = elements
        /\ Pictured(read.elements)
        /\ Names(read.elements, stored)

(* A page knows the picture of what a save leaves off. *)
Complete(patch, unsent, refs) ==
    \A id \in Ids :
        /\ id \in unsent => HasPicture(patch[id])
        /\ HasPicture(patch[id]) /\ id \notin unsent => refs[id] # NoPicture

SaveReady(save, refs, now, elements, stored) ==
    /\ Pictured(save.patch) /\ Bare(save.patch)
    /\ Complete(save.patch, save.unsent, refs)
    /\ save.base # Nothing \/ save.landed # Nothing => save.unsent = {}
    /\ Faithful(save.base, now, elements, stored)
    /\ Faithful(save.landed, now, elements, stored)

(* What it takes the copy to hold is named by an id, of a picture stored.   *)
KnownStored(refs, images, stored) ==
    \A id \in Ids : /\ refs[id] \in stored \cup {NoPicture}
                    /\ id \in images => refs[id] # NoPicture

States == {"alone", "sharing", "shared", "away", "closed"}

Types ==
    /\ rev \in Nat /\ copy \in Scene /\ pictures \subseteq Pictures
    /\ state \in [Tabs -> States]
    /\ scene \in [Tabs -> Scene] /\ mirror \in [Tabs -> Scene] /\ known \in [Tabs -> Scene]
    /\ noted \in [Tabs -> SUBSET Ids] /\ held \in [Tabs -> SUBSET Ids]
    /\ saving \in [Tabs -> Saves \cup {Nothing}]
    /\ current \in [Tabs -> Copies \cup {Nothing}]
    /\ reading \in [Tabs -> Copies \cup {Nothing}]
    /\ pictureOf \in [Tabs -> [Ids -> Pictures \cup {NoPicture}]]

StoreIsWhole == Pictured(copy) /\ Names(copy, pictures)

PagesAreWhole ==
    \A t \in Tabs : Pictured(scene[t]) /\ Pictured(mirror[t]) /\ Bare(mirror[t])

ReadsAreFaithful ==
    \A t \in Tabs : /\ Faithful(current[t], rev, copy, pictures)
                    /\ Faithful(reading[t], rev, copy, pictures)

KnownAreStored == \A t \in Tabs : KnownStored(pictureOf[t], held[t], pictures)

SavesAreReady ==
    \A t \in Tabs : saving[t] # Nothing =>
        /\ state[t] \in {"sharing", "shared"}
        /\ SaveReady(saving[t], pictureOf[t], rev, copy, pictures)

IInv ==
    /\ Types
    /\ StoreIsWhole /\ PagesAreWhole
    /\ ReadsAreFaithful /\ KnownAreStored /\ SavesAreReady

-----------------------------------------------------------------------------
(* The pieces scenes are made of. *)

LEMMA NothingElse ==
    /\ \A x \in Copies : x # Nothing
    /\ \A x \in Saves : x # Nothing
  BY OnlineCopyAssumption

LEMMA LiveFacts ==
    ASSUME NEW s \in Scene, Pictured(s)
    PROVE  Live(s) \in Scene /\ Pictured(Live(s)) /\ Bare(Live(s))
  BY ReconcileAssumption DEF Live, Scene, Entry, Pictured, Bare, LiveOf, IsLive

LEMMA OverFacts ==
    ASSUME NEW s \in Scene, NEW p \in Scene, Pictured(s), Pictured(p)
    PROVE  Over(s, p) \in Scene /\ Pictured(Over(s, p))
  BY ReconcileAssumption DEF Over, Scene, Pictured, LiveOf

LEMMA MergeFacts ==
    ASSUME NEW s \in Scene, NEW p \in Scene, Pictured(s), Pictured(p)
    PROVE  Merge(s, p) \in Scene /\ Pictured(Merge(s, p))
  BY ReconcileAssumption DEF Merge, Scene, Pictured, LiveOf

(* A change is whole if the page's own copies are. *)
LEMMA ChangeFacts ==
    ASSUME NEW before \in Scene, NEW s \in Scene, Pictured(s),
           NEW id \in Ids, NEW nonce \in Nat
    PROVE  LET change == Change([known |-> before], s, id, nonce)
           IN  /\ change \in Entry
               /\ id \in Images /\ IsLive(change) => HasPicture(change)
               /\ change # Absent /\ change.isDeleted => change.picture = NoPicture
  <1> DEFINE previous == before[id]
             change == Change([known |-> before], s, id, nonce)
  <1>1. previous \in Entry /\ s[id] \in Entry
    BY DEF Scene
  <1>2. CASE LiveOf(s, id)
    <2>1. s[id] \in Element /\ ~s[id].isDeleted /\ (id \in Images => s[id].picture # NoPicture)
      BY <1>1, <1>2 DEF LiveOf, IsLive, Entry, Pictured, HasPicture
    <2>2. change = ChangeOf([known |-> before], s[id], id, nonce)
      BY <1>2 DEF Change
    <2>3. CASE change = s[id] \/ change = Absent
      BY <1>1, <2>1, <2>3 DEF Entry, IsLive, HasPicture
    <2>4. CASE /\ previous # Absent
               /\ change = [s[id] EXCEPT !.version = previous.version + 1,
                                         !.versionNonce = nonce]
      <3> DEFINE v == previous.version + 1
                 e == s[id]
      <3>1. v \in Nat
        BY <1>1, <2>4 DEF Entry, Element
      <3>2. e \in Element /\ change = [e EXCEPT !.version = v, !.versionNonce = nonce]
        BY <2>1, <2>4
      <3>3. change \in Element /\ change.isDeleted = e.isDeleted /\ change.picture = e.picture
        <4> HIDE DEF v, e, change
        <4>1. QED
          BY <3>1, <3>2, Restamped
      <3>4. QED
        BY <2>1, <3>3, ReconcileAssumption DEF Entry, IsLive, HasPicture
    <2>5. QED
      BY <2>2, <2>3, <2>4 DEF ChangeOf
  <1>3. CASE ~LiveOf(s, id) /\ LiveOf(before, id)
    <2>1. previous \in Element
      BY <1>1, <1>3 DEF LiveOf, IsLive, Entry
    <2>2. change = TombstoneOf(previous, nonce)
      BY <1>3 DEF Change
    <2>3. change \in Element /\ change.isDeleted /\ change.picture = NoPicture
      BY <2>1, <2>2, Buried
    <2>4. QED
      BY <2>3 DEF Entry, IsLive
  <1>4. CASE ~LiveOf(s, id) /\ ~LiveOf(before, id)
    BY <1>4 DEF Change, Entry, IsLive
  <1>5. QED
    BY <1>2, <1>3, <1>4

(* A copy read stays faithful while the store moves on. *)
LEMMA FaithfulLater ==
    ASSUME NEW read \in Copies \cup {Nothing}, NEW now \in Nat, NEW elements, NEW others,
           NEW stored, Faithful(read, now, elements, stored)
    PROVE  Faithful(read, now + 1, others, stored)
  BY NothingElse DEF Faithful, Copies

LEMMA FaithfulWider ==
    ASSUME NEW read, NEW now, NEW elements, NEW stored, NEW more, stored \subseteq more,
           Faithful(read, now, elements, stored)
    PROVE  Faithful(read, now, elements, more)
  BY DEF Faithful, Names

LEMMA DrawnFacts ==
    ASSUME NEW id \in Ids, NEW nonce \in Nat
    PROVE  /\ Drawn(id, nonce) \in Element
           /\ id \in Images => HasPicture(Drawn(id, nonce))
           /\ ~Drawn(id, nonce).isDeleted
  <1>1. id \in Images => (CHOOSE p \in Pictures : TRUE) \in Pictures
    BY OnlineCopyAssumption
  <1>2. Drawn(id, nonce) \in Element /\ ~Drawn(id, nonce).isDeleted
    BY <1>1 DEF Drawn, Element
  <1>3. id \in Images => Drawn(id, nonce).picture # NoPicture
    BY <1>1, ReconcileAssumption DEF Drawn
  <1>4. QED
    BY <1>2, <1>3, ReconcileAssumption DEF HasPicture, IsLive

LEMMA NonceType ==
    ASSUME NEW t \in Tabs, NEW nonce \in Nonces[t]
    PROVE  nonce \in Nat
  BY OnlineCopyAssumption

LEMMA NoneFacts == None \in Scene /\ Pictured(None) /\ Bare(None) /\ \A ps : Names(None, ps)
  BY ReconcileAssumption DEF None, Scene, Entry, Pictured, Bare, Names, LiveOf, IsLive

-----------------------------------------------------------------------------
(* The invariant. *)

LEMMA InitHolds == Init => IInv
  <1> SUFFICES ASSUME Init PROVE IInv
    OBVIOUS
  <1>1. PICK ids \in Boards, nonce \in Nonces[Sharer] :
            scene = [t \in Tabs |->
                [id \in Ids |-> IF t = Sharer /\ id \in ids THEN Drawn(id, nonce) ELSE Absent]]
    BY DEF Init
  <1>2. nonce \in Nat
    BY NonceType, OnlineCopyAssumption
  <1>3. ASSUME NEW t \in Tabs
        PROVE  scene[t] \in Scene /\ Pictured(scene[t]) /\ Bare(scene[t])
    <2>1. \A id \in Ids : Drawn(id, nonce) \in Element
                          /\ (id \in Images => HasPicture(Drawn(id, nonce)))
                          /\ ~Drawn(id, nonce).isDeleted
      BY <1>2, DrawnFacts
    <2>2. QED
      BY <1>1, <2>1, ReconcileAssumption DEF Scene, Entry, Pictured, Bare, LiveOf, IsLive
  <1>4. scene \in [Tabs -> Scene]
    <2>1. \A t \in Tabs : scene[t] \in Scene
      BY <1>3
    <2>2. QED
      BY <1>1, <2>1
  <1>5. Types
    BY <1>4, NoneFacts DEF Init, Types, States, Everyone, NoRefs
  <1>6. StoreIsWhole /\ PagesAreWhole
    BY <1>3, NoneFacts DEF Init, StoreIsWhole, PagesAreWhole
  <1>7. ReadsAreFaithful /\ KnownAreStored /\ SavesAreReady
    BY DEF Init, ReadsAreFaithful, KnownAreStored, SavesAreReady, Faithful, KnownStored,
           Everyone, NoRefs
  <1>8. QED
    BY <1>5, <1>6, <1>7 DEF IInv

LEMMA SettlesLess ==
    ASSUME NEW s \in Saves, NEW id
    PROVE  LET new == Unsettled(s, id)
           IN  /\ new \in Saves
               /\ new.patch = s.patch /\ new.unsent = s.unsent
               /\ new.base = s.base /\ new.landed = s.landed
               /\ new.settles = s.settles \ {id}
  BY NothingElse DEF Saves, Unsettled

LEMMA ChangedKeeps ==
    ASSUME IInv, NEW t \in Tabs, NEW id \in Ids, NEW e \in Element,
           id \in Images /\ ~e.isDeleted => HasPicture(e), Changed(t, id, e)
    PROVE  IInv'
  <1>1. /\ scene' = [scene EXCEPT ![t][id] = e]
        /\ mirror' = [mirror EXCEPT ![t][id] = IF e.isDeleted THEN Absent ELSE e]
        /\ noted' \in [Tabs -> SUBSET Ids]
        /\ saving' = [saving EXCEPT ![t] = Unsettled(saving[t], id)]
        /\ UNCHANGED <<rev, copy, pictures, state, known, current, held, pictureOf, reading>>
    BY DEF IInv, Types, Changed, store
  <1>2. ASSUME NEW u \in Tabs
        PROVE  /\ scene'[u] \in Scene /\ Pictured(scene'[u])
               /\ mirror'[u] \in Scene /\ Pictured(mirror'[u]) /\ Bare(mirror'[u])
    <2>1. /\ scene[u] \in Scene /\ Pictured(scene[u])
          /\ mirror[u] \in Scene /\ Pictured(mirror[u]) /\ Bare(mirror[u])
      BY DEF IInv, Types, PagesAreWhole
    <2>2. /\ scene'[u] = IF u = t THEN [scene[u] EXCEPT ![id] = e] ELSE scene[u]
          /\ mirror'[u] = IF u = t THEN [mirror[u] EXCEPT ![id] = IF e.isDeleted THEN Absent
                                                               ELSE e] ELSE mirror[u]
      BY <1>1 DEF IInv, Types
    <2>3. QED
      BY <2>1, <2>2, ReconcileAssumption DEF Scene, Entry, Pictured, Bare, LiveOf, IsLive
  <1>3. ASSUME NEW u \in Tabs
        PROVE  /\ saving'[u] \in Saves \cup {Nothing}
               /\ saving'[u] # Nothing =>
                     /\ saving[u] # Nothing
                     /\ saving'[u].patch = saving[u].patch
                     /\ saving'[u].unsent = saving[u].unsent
                     /\ saving'[u].base = saving[u].base
                     /\ saving'[u].landed = saving[u].landed
    <2>1. saving[u] \in Saves \cup {Nothing}
      BY DEF IInv, Types
    <2>2. CASE u # t \/ saving[u] = Nothing
      BY <1>1, <2>1, <2>2 DEF IInv, Types, Unsettled
    <2>3. CASE u = t /\ saving[u] # Nothing
      <3>1. saving'[u] = Unsettled(saving[u], id)
        BY <1>1, <2>3 DEF IInv, Types
      <3>2. QED
        BY <2>1, <2>3, <3>1, SettlesLess
    <2>4. QED
      BY <2>2, <2>3
  <1>4. Types'
    <2>1. scene' \in [Tabs -> Scene] /\ mirror' \in [Tabs -> Scene]
          /\ saving' \in [Tabs -> Saves \cup {Nothing}]
      BY <1>1, <1>2, <1>3 DEF IInv, Types
    <2>2. QED
      BY <1>1, <2>1 DEF IInv, Types
  <1>5. StoreIsWhole' /\ PagesAreWhole' /\ ReadsAreFaithful' /\ KnownAreStored'
    BY <1>1, <1>2 DEF IInv, StoreIsWhole, PagesAreWhole, ReadsAreFaithful, KnownAreStored
  <1>6. SavesAreReady'
    BY <1>1, <1>3 DEF IInv, SavesAreReady, SaveReady
  <1>7. QED
    BY <1>4, <1>5, <1>6 DEF IInv

LEMMA EditKeeps ==
    ASSUME IInv, NEW t \in Tabs, NEW id \in Ids, Draw(t, id) \/ Edit(t, id) \/ Erase(t, id)
    PROVE  IInv'
  <1>1. CASE Draw(t, id)
    <2>1. PICK nonce \in Nonces[t] : Changed(t, id, Drawn(id, nonce))
      BY <1>1 DEF Draw
    <2>2. QED
      BY <2>1, NonceType, DrawnFacts, ChangedKeeps
  <1>2. CASE Edit(t, id) \/ Erase(t, id)
    <2> DEFINE old == scene[t][id]
               v == old.version + 1
    <2>1. old \in Element /\ (id \in Images => old.picture # NoPicture)
      <3>1. scene[t] \in [Ids -> Entry] /\ Pictured(scene[t])
        BY DEF IInv, Types, Scene, PagesAreWhole
      <3>2. LiveOf(scene[t], id)
        BY <1>2 DEF Edit, Erase
      <3>3. QED
        BY <3>1, <3>2 DEF LiveOf, IsLive, HasPicture, Entry, Pictured
    <2>2. v \in Nat
      BY <2>1 DEF Element
    <2>3. PICK nonce \in Nonces[t] :
              \E e \in {[old EXCEPT !.version = v, !.versionNonce = nonce],
                       [old EXCEPT !.version = v, !.versionNonce = nonce, !.isDeleted = TRUE]} :
                  Changed(t, id, e)
      BY <1>2 DEF Edit, Erase
    <2>4. nonce \in Nat
      BY NonceType
    <2> HIDE DEF old, v
    <2>5. PICK e \in {[old EXCEPT !.version = v, !.versionNonce = nonce],
                     [old EXCEPT !.version = v, !.versionNonce = nonce, !.isDeleted = TRUE]} :
              Changed(t, id, e)
      BY <2>3
    <2>6. e \in Element /\ (id \in Images => e.picture # NoPicture)
      BY <2>1, <2>2, <2>4 DEF Element
    <2>7. e # Absent
      BY <2>6, ReconcileAssumption
    <2>8. QED
      BY <2>5, <2>6, <2>7, ChangedKeeps DEF HasPicture, IsLive
  <1>3. QED
    BY <1>1, <1>2

(* A save just begun: what it does not send, the page knows the picture of. *)
LEMMA SaveFacts ==
    ASSUME IInv, NEW t \in Tabs, NEW patch \in Scene, Pictured(patch), Bare(patch),
           NEW settles \in SUBSET Ids
    PROVE  LET save == Save(t, patch, settles)
           IN  save \in Saves /\ SaveReady(save, pictureOf[t], rev, copy, pictures)
  <1>1. Save(t, patch, settles) \in Saves
    BY DEF Save, Saves, Scene
  <1>2. Complete(patch, {id \in Ids : HasPicture(patch[id]) /\ id \notin held[t]}, pictureOf[t])
    BY DEF Complete, IInv, KnownAreStored, KnownStored
  <1>3. QED
    BY <1>1, <1>2 DEF Save, SaveReady, Faithful

LEMMA Unsending ==
    ASSUME NEW s \in Saves, NEW unsent \in SUBSET Ids
    PROVE  LET new == [s EXCEPT !.unsent = unsent]
           IN  /\ new \in Saves
               /\ new.unsent = unsent /\ new.patch = s.patch
               /\ new.base = s.base /\ new.landed = s.landed
               /\ new.settles = s.settles
  BY DEF Saves

LEMMA ShareKeeps ==
    ASSUME IInv, NEW t \in Tabs, Share(t)
    PROVE  IInv'
  <1> DEFINE sent == {id \in Ids : HasPicture(mirror[t][id])}
             save == [Save(t, mirror[t], {}) EXCEPT !.unsent = sent]
  <1>1. /\ state' = [state EXCEPT ![t] = "sharing"]
        /\ saving' = [saving EXCEPT ![t] = save]
        /\ noted' = [noted EXCEPT ![t] = {}]
        /\ current' = [current EXCEPT ![t] = Nothing]
        /\ held' = [held EXCEPT ![t] = {}]
        /\ pictureOf' = [pictureOf EXCEPT ![t] = NoRefs]
        /\ UNCHANGED <<rev, copy, pictures, scene, mirror, known, reading>>
    BY DEF Share, store
  <1>2. mirror[t] \in Scene /\ Pictured(mirror[t]) /\ Bare(mirror[t])
    BY DEF IInv, Types, PagesAreWhole
  <1>3. Save(t, mirror[t], {}) \in Saves
    BY <1>2, SaveFacts
  <1>4. /\ save \in Saves
        /\ save.unsent = sent /\ save.patch = mirror[t]
        /\ save.base = Nothing /\ save.landed = Nothing
    <2>1. /\ save \in Saves
          /\ save.unsent = sent /\ save.patch = Save(t, mirror[t], {}).patch
          /\ save.base = Save(t, mirror[t], {}).base
          /\ save.landed = Save(t, mirror[t], {}).landed
      BY <1>3, Unsending
    <2>2. QED
      BY <2>1 DEF Save
  <1> HIDE DEF save
  <1>5. NoRefs \in [Ids -> Pictures \cup {NoPicture}] /\ KnownStored(NoRefs, {}, pictures)
    BY DEF NoRefs, KnownStored
  <1>6. SaveReady(save, NoRefs, rev, copy, pictures)
    BY <1>2, <1>4 DEF SaveReady, Faithful, Complete
  <1>7. Types'
    BY <1>1, <1>4, <1>5 DEF IInv, Types, States
  <1>8. StoreIsWhole' /\ PagesAreWhole' /\ ReadsAreFaithful'
    BY <1>1 DEF IInv, Types, StoreIsWhole, PagesAreWhole, ReadsAreFaithful, Faithful
  <1>9. KnownAreStored' /\ SavesAreReady'
    BY <1>1, <1>5, <1>6 DEF IInv, Types, KnownAreStored, SavesAreReady
  <1>10. QED
    BY <1>7, <1>8, <1>9 DEF IInv

(* Steps that leave the store, the pages' pictures and what they read alone. *)
LEMMA StartSaveKeeps ==
    ASSUME IInv, NEW t \in Tabs, StartSave(t)
    PROVE  IInv'
  <1> DEFINE made(nonce) == [id \in Ids |-> IF id \in noted[t]
                                THEN Change([known |-> known[t]], mirror[t], id, nonce)
                                ELSE Absent]
  <1>1. PICK nonce \in Nonces[t] :
            IF made(nonce) = None THEN noted' = [noted EXCEPT ![t] = {}] /\ UNCHANGED saving
            ELSE saving' = [saving EXCEPT ![t] = Save(t, made(nonce), noted[t])]
                 /\ UNCHANGED noted
    BY DEF StartSave
  <1> DEFINE patch == made(nonce)
  <1>2. /\ state[t] = "shared"
        /\ UNCHANGED <<rev, copy, pictures, state, scene, mirror, known, current, held>>
        /\ UNCHANGED <<pictureOf, reading>>
    BY DEF StartSave, store
  <1>3. /\ known[t] \in Scene /\ mirror[t] \in Scene /\ Pictured(mirror[t])
        /\ noted[t] \in SUBSET Ids /\ nonce \in Nat
    BY NonceType DEF IInv, Types, PagesAreWhole
  <1>4. patch \in Scene /\ Pictured(patch) /\ Bare(patch)
    <2>1. \A id \in Ids : LET change == Change([known |-> known[t]], mirror[t], id, nonce)
                          IN  /\ change \in Entry
                              /\ id \in Images /\ IsLive(change) => HasPicture(change)
                              /\ change # Absent /\ change.isDeleted
                                    => change.picture = NoPicture
      BY <1>3, ChangeFacts
    <2>2. QED
      BY <1>1, <2>1, ReconcileAssumption
         DEF Scene, Entry, Pictured, Bare, LiveOf, IsLive
  <1>5. /\ Save(t, patch, noted[t]) \in Saves
        /\ SaveReady(Save(t, patch, noted[t]), pictureOf[t], rev, copy, pictures)
    BY <1>3, <1>4, SaveFacts
  <1>6. Types'
    BY <1>1, <1>2, <1>5 DEF IInv, Types
  <1>7. StoreIsWhole' /\ PagesAreWhole' /\ ReadsAreFaithful' /\ KnownAreStored'
    BY <1>2 DEF IInv, StoreIsWhole, PagesAreWhole, ReadsAreFaithful, KnownAreStored
  <1>8. SavesAreReady'
    BY <1>1, <1>2, <1>5 DEF IInv, Types, SavesAreReady
  <1>9. QED
    BY <1>6, <1>7, <1>8 DEF IInv

LEMMA FailKeeps ==
    ASSUME IInv, NEW t \in Tabs, Fail(t)
    PROVE  IInv'
  <1>1. /\ saving' = [saving EXCEPT ![t] = Nothing]
        /\ state' = [state EXCEPT ![t] = IF @ = "sharing" THEN "alone" ELSE @]
        /\ UNCHANGED <<rev, copy, pictures, scene, mirror, known, noted, current, held>>
        /\ UNCHANGED <<pictureOf, reading>>
    BY DEF Fail, store, page
  <1>2. Types'
    BY <1>1 DEF IInv, Types, States
  <1>3. StoreIsWhole' /\ PagesAreWhole' /\ ReadsAreFaithful' /\ KnownAreStored'
    BY <1>1 DEF IInv, StoreIsWhole, PagesAreWhole, ReadsAreFaithful, KnownAreStored
  <1>4. SavesAreReady'
    BY <1>1 DEF IInv, Types, SavesAreReady
  <1>5. QED
    BY <1>2, <1>3, <1>4 DEF IInv

(* The stored copy, read now. *)
LEMMA StoredFacts ==
    ASSUME IInv
    PROVE  Stored \in Copies /\ Stored # Nothing /\ Faithful(Stored, rev, copy, pictures)
  <1>1. Stored \in Copies
    BY DEF IInv, Types, Stored, Copies, Scene
  <1>2. QED
    BY <1>1, NothingElse DEF IInv, Types, StoreIsWhole, Stored, Faithful

LEMMA ReadKeeps ==
    ASSUME IInv, NEW t \in Tabs, Read(t)
    PROVE  IInv'
  <1>1. /\ reading' = [reading EXCEPT ![t] = Stored]
        /\ UNCHANGED <<rev, copy, pictures, state, scene, mirror, known, noted, saving>>
        /\ UNCHANGED <<current, held, pictureOf>>
    BY DEF Read, store, page
  <1>2. Types'
    BY <1>1, StoredFacts DEF IInv, Types
  <1>3. StoreIsWhole' /\ PagesAreWhole' /\ KnownAreStored' /\ SavesAreReady'
    BY <1>1 DEF IInv, StoreIsWhole, PagesAreWhole, KnownAreStored, SavesAreReady
  <1>4. ReadsAreFaithful'
    BY <1>1, StoredFacts DEF IInv, Types, ReadsAreFaithful
  <1>5. QED
    BY <1>2, <1>3, <1>4 DEF IInv

LEMMA CloseKeeps ==
    ASSUME IInv, NEW t \in Tabs, Close(t)
    PROVE  IInv'
  <1>1. /\ state' = [state EXCEPT ![t] = "closed"]
        /\ noted' = [noted EXCEPT ![t] = {}]
        /\ saving' = [saving EXCEPT ![t] = Nothing]
        /\ reading' = [reading EXCEPT ![t] = Nothing]
        /\ UNCHANGED <<rev, copy, pictures, scene, mirror, known, current, held, pictureOf>>
    BY DEF Close, store
  <1>2. Types'
    BY <1>1 DEF IInv, Types, States
  <1>3. StoreIsWhole' /\ PagesAreWhole' /\ KnownAreStored'
    BY <1>1 DEF IInv, StoreIsWhole, PagesAreWhole, KnownAreStored
  <1>4. ReadsAreFaithful' /\ SavesAreReady'
    BY <1>1 DEF IInv, Types, ReadsAreFaithful, SavesAreReady, Faithful
  <1>5. QED
    BY <1>2, <1>3, <1>4 DEF IInv

LEMMA ReopenKeeps ==
    ASSUME IInv, NEW t \in Tabs, Reopen(t)
    PROVE  IInv'
  <1>1. /\ state[t] = "closed"
        /\ state' = [state EXCEPT ![t] = "shared"]
        /\ scene' = [scene EXCEPT ![t] = mirror[t]]
        /\ known' = [known EXCEPT ![t] = mirror[t]]
        /\ current' = [current EXCEPT ![t] = Nothing]
        /\ held' = [held EXCEPT ![t] = {}]
        /\ pictureOf' = [pictureOf EXCEPT ![t] = NoRefs]
        /\ UNCHANGED <<rev, copy, pictures, mirror, noted, saving, reading>>
    BY DEF Reopen, store
  <1>2. NoRefs \in [Ids -> Pictures \cup {NoPicture}] /\ KnownStored(NoRefs, {}, pictures)
    BY DEF NoRefs, KnownStored
  <1>3. saving[t] = Nothing
    BY <1>1 DEF IInv, SavesAreReady
  <1>4. Types'
    BY <1>1, <1>2 DEF IInv, Types, States
  <1>5. StoreIsWhole' /\ PagesAreWhole'
    BY <1>1 DEF IInv, Types, StoreIsWhole, PagesAreWhole
  <1>6. ReadsAreFaithful' /\ KnownAreStored'
    BY <1>1, <1>2 DEF IInv, Types, ReadsAreFaithful, KnownAreStored, Faithful
  <1>7. SavesAreReady'
    BY <1>1, <1>3 DEF IInv, Types, SavesAreReady
  <1>8. QED
    BY <1>4, <1>5, <1>6, <1>7 DEF IInv

(* Sent pictures are known of, and stored. *)
LEMMA SaveWider ==
    ASSUME NEW save, NEW refs, NEW now, NEW elements, NEW stored, NEW more,
           stored \subseteq more, SaveReady(save, refs, now, elements, stored)
    PROVE  SaveReady(save, refs, now, elements, more)
  BY FaithfulWider DEF SaveReady

LEMMA KnownWider ==
    ASSUME NEW refs, NEW images, NEW stored, NEW more, stored \subseteq more,
           KnownStored(refs, images, stored)
    PROVE  KnownStored(refs, images, more)
  BY DEF KnownStored

LEMMA SendPictureKeeps ==
    ASSUME IInv, NEW t \in Tabs, SendPicture(t)
    PROVE  IInv'
  <1>1. PICK id \in saving[t].unsent :
            /\ saving[t] # Nothing
            /\ pictures' = pictures \cup {saving[t].patch[id].picture}
            /\ pictureOf' = [pictureOf EXCEPT ![t][id] = saving[t].patch[id].picture]
            /\ saving' = [saving EXCEPT ![t].unsent = @ \ {id}]
            /\ UNCHANGED <<rev, copy, state, scene, mirror, known, noted, current, held, reading>>
    BY DEF SendPicture, page
  <1> DEFINE old == saving[t]
             left == old.unsent \ {id}
             new == [old EXCEPT !.unsent = left]
             p == old.patch[id].picture
  <1>2. old \in Saves /\ SaveReady(old, pictureOf[t], rev, copy, pictures)
    BY <1>1 DEF IInv, Types, SavesAreReady
  <1>3. old.unsent \in SUBSET Ids /\ id \in Ids /\ old.patch[id] \in Entry
    BY <1>1, <1>2 DEF Saves
  <1>4. p \in Pictures
    <2>1. HasPicture(old.patch[id])
      BY <1>1, <1>2, <1>3 DEF SaveReady, Complete
    <2>2. QED
      BY <2>1, <1>3 DEF HasPicture, IsLive, Entry, Element
  <1>5. /\ new \in Saves
        /\ new.unsent = left /\ new.patch = old.patch
        /\ new.base = old.base /\ new.landed = old.landed
    <2> HIDE DEF old
    <2>1. left \in SUBSET Ids
      BY <1>3
    <2> HIDE DEF left
    <2>2. QED
      BY <1>2, <2>1, Unsending
  <1>6. saving' = [saving EXCEPT ![t] = new]
    BY <1>1
  <1>7. pictures \subseteq pictures' /\ p \in pictures' /\ pictures' \subseteq Pictures
    BY <1>1, <1>4 DEF IInv, Types
  <1>8. pictureOf' = [pictureOf EXCEPT ![t][id] = p]
    BY <1>1
  <1> HIDE DEF new
  <1>9. ASSUME NEW u \in Tabs
        PROVE  /\ pictureOf'[u] \in [Ids -> Pictures \cup {NoPicture}]
               /\ KnownStored(pictureOf'[u], held[u], pictures')
    <2>1. /\ pictureOf[u] \in [Ids -> Pictures \cup {NoPicture}]
          /\ KnownStored(pictureOf[u], held[u], pictures)
      BY DEF IInv, Types, KnownAreStored
    <2>2. KnownStored(pictureOf[u], held[u], pictures')
      BY <1>7, <2>1, KnownWider
    <2>3. pictureOf'[u] = IF u = t THEN [pictureOf[u] EXCEPT ![id] = p] ELSE pictureOf[u]
      BY <1>8 DEF IInv, Types
    <2> HIDE DEF p
    <2>4. QED
      BY <1>3, <1>4, <1>7, <2>1, <2>2, <2>3, ReconcileAssumption DEF KnownStored
  <1>10. SaveReady(new, pictureOf'[t], rev, copy, pictures')
    <2>1. SaveReady(old, pictureOf[t], rev, copy, pictures')
      BY <1>2, <1>7, SaveWider
    <2>2. pictureOf'[t] = [pictureOf[t] EXCEPT ![id] = p]
          /\ pictureOf[t] \in [Ids -> Pictures \cup {NoPicture}]
      BY <1>8 DEF IInv, Types
    <2> HIDE DEF p
    <2>3. Complete(new.patch, new.unsent, pictureOf'[t])
      BY <1>4, <1>5, <2>1, <2>2, ReconcileAssumption DEF SaveReady, Complete
    <2>4. QED
      BY <1>1, <1>5, <2>1, <2>3 DEF SaveReady
  <1>11. Types'
    <2>1. pictureOf' \in [Tabs -> [Ids -> Pictures \cup {NoPicture}]]
      <3>1. DOMAIN pictureOf' = Tabs /\ pictureOf' = [u \in Tabs |-> pictureOf'[u]]
        BY <1>8 DEF IInv, Types
      <3>2. QED
        BY <1>9, <3>1
    <2>2. saving' \in [Tabs -> Saves \cup {Nothing}]
      BY <1>5, <1>6 DEF IInv, Types
    <2>3. QED
      BY <1>1, <1>7, <2>1, <2>2 DEF IInv, Types
  <1>12. StoreIsWhole' /\ PagesAreWhole' /\ KnownAreStored'
    BY <1>1, <1>7, <1>9 DEF IInv, StoreIsWhole, PagesAreWhole, KnownAreStored, Names
  <1>13. ReadsAreFaithful'
    BY <1>1, <1>7, FaithfulWider DEF IInv, ReadsAreFaithful
  <1>14. SavesAreReady'
    <2>1. ASSUME NEW u \in Tabs, saving'[u] # Nothing
          PROVE  /\ state'[u] \in {"sharing", "shared"}
                 /\ SaveReady(saving'[u], pictureOf'[u], rev', copy', pictures')
      <3>1. CASE u = t
        BY <1>1, <1>6, <1>10, <3>1 DEF IInv, Types, SavesAreReady
      <3>2. CASE u # t
        <4>1. saving'[u] = saving[u] /\ pictureOf'[u] = pictureOf[u]
          BY <1>6, <1>8, <3>2 DEF IInv, Types
        <4>2. QED
          BY <1>1, <1>7, <2>1, <4>1, SaveWider DEF IInv, SavesAreReady
      <3>3. QED
        BY <3>1, <3>2
    <2>2. QED
      BY <2>1 DEF SavesAreReady
  <1>15. QED
    BY <1>11, <1>12, <1>13, <1>14 DEF IInv

LEMMA Based ==
    ASSUME NEW s \in Saves, NEW base \in Copies \cup {Nothing}
    PROVE  LET new == [s EXCEPT !.base = base]
           IN  /\ new \in Saves
               /\ new.unsent = s.unsent /\ new.patch = s.patch
               /\ new.base = base /\ new.landed = s.landed
               /\ new.settles = s.settles
  BY DEF Saves

LEMMA TakeBaseKeeps ==
    ASSUME IInv, NEW t \in Tabs, TakeBase(t)
    PROVE  IInv'
  <1> DEFINE base == IF current[t] = Nothing THEN Stored ELSE current[t]
             new == [saving[t] EXCEPT !.base = base]
  <1>1. /\ saving[t] # Nothing /\ saving[t].unsent = {}
        /\ saving' = [saving EXCEPT ![t] = new]
        /\ current' = [current EXCEPT ![t] = IF rev = 0 THEN @ ELSE base]
        /\ UNCHANGED <<rev, copy, pictures, state, scene, mirror, known, noted, held>>
        /\ UNCHANGED <<pictureOf, reading>>
    BY DEF TakeBase, store, page
  <1>2. base \in Copies /\ Faithful(base, rev, copy, pictures)
    BY StoredFacts DEF IInv, Types, ReadsAreFaithful
  <1>3. saving[t] \in Saves /\ SaveReady(saving[t], pictureOf[t], rev, copy, pictures)
    BY <1>1 DEF IInv, Types, SavesAreReady
  <1> HIDE DEF base
  <1>4. /\ new \in Saves
        /\ new.unsent = saving[t].unsent /\ new.patch = saving[t].patch
        /\ new.base = base /\ new.landed = saving[t].landed
    BY <1>2, <1>3, Based
  <1> HIDE DEF new
  <1>5. SaveReady(new, pictureOf[t], rev, copy, pictures)
    BY <1>1, <1>2, <1>3, <1>4 DEF SaveReady
  <1>6. Types'
    BY <1>1, <1>2, <1>4 DEF IInv, Types
  <1>7. StoreIsWhole' /\ PagesAreWhole' /\ KnownAreStored'
    BY <1>1 DEF IInv, StoreIsWhole, PagesAreWhole, KnownAreStored
  <1>8. ReadsAreFaithful'
    BY <1>1, <1>2 DEF IInv, Types, ReadsAreFaithful
  <1>9. SavesAreReady'
    BY <1>1, <1>5 DEF IInv, Types, SavesAreReady
  <1>10. QED
    BY <1>6, <1>7, <1>8, <1>9 DEF IInv

(* What a save writes: every image is named, by a picture that is stored. *)
LEMMA RefsFacts ==
    ASSUME NEW elements \in Scene, NEW t \in Tabs,
           pictureOf[t] \in [Ids -> Pictures \cup {NoPicture}], NEW base \in Scene
    PROVE  LET refs == Refs(elements, t, base)
           IN  /\ refs \in Scene
               /\ \A id \in Ids :
                     /\ ~LiveOf(elements, id) => refs[id] = elements[id]
                     /\ LiveOf(elements, id) =>
                           /\ refs[id] \in Element /\ ~refs[id].isDeleted
                           /\ refs[id].version = elements[id].version
                           /\ refs[id].versionNonce = elements[id].versionNonce
                           /\ refs[id].updated = elements[id].updated
                           /\ refs[id].picture =
                                 IF pictureOf[t][id] # NoPicture THEN pictureOf[t][id]
                                 ELSE IF base[id] = Absent THEN NoPicture
                                 ELSE base[id].picture
  <1> DEFINE refs == Refs(elements, t, base)
             pic(id) == IF pictureOf[t][id] # NoPicture THEN pictureOf[t][id]
                        ELSE IF base[id] = Absent THEN NoPicture ELSE base[id].picture
  <1>1. ASSUME NEW id \in Ids
        PROVE  /\ ~LiveOf(elements, id) => refs[id] = elements[id]
               /\ LiveOf(elements, id) => refs[id] = [elements[id] EXCEPT !.picture = pic(id)]
    BY DEF Refs
  <1>2. ASSUME NEW id \in Ids
        PROVE  pic(id) \in Pictures \cup {NoPicture}
    BY DEF Scene, Entry, Element
  <1>3. ASSUME NEW id \in Ids, LiveOf(elements, id)
        PROVE  /\ refs[id] \in Element /\ ~refs[id].isDeleted
               /\ refs[id].version = elements[id].version
               /\ refs[id].versionNonce = elements[id].versionNonce
               /\ refs[id].updated = elements[id].updated
               /\ refs[id].picture = pic(id)
    <2>1. elements[id] \in Element /\ ~elements[id].isDeleted
      BY <1>3 DEF LiveOf, IsLive, Scene, Entry
    <2>2. refs[id] = [elements[id] EXCEPT !.picture = pic(id)]
      BY <1>1, <1>3
    <2>3. pic(id) \in Pictures \cup {NoPicture}
      BY <1>2
    <2> HIDE DEF refs, pic
    <2>4. QED
      BY <2>1, <2>2, <2>3 DEF Element
  <1>4. refs \in Scene
    <2>1. \A id \in Ids : refs[id] \in Entry
      BY <1>1, <1>3 DEF Scene, Entry
    <2>2. refs = [id \in Ids |-> refs[id]]
      BY DEF Refs
    <2> HIDE DEF refs
    <2>3. QED
      BY <2>1, <2>2 DEF Scene
  <1>5. QED
    BY <1>1, <1>3, <1>4

LEMMA MergedFacts ==
    ASSUME IInv, NEW t \in Tabs, saving[t] # Nothing, saving[t].base # Nothing
    PROVE  Merged(t) \in Scene /\ Pictured(Merged(t)) /\ Names(Merged(t), pictures)
  <1> DEFINE patch == saving[t].patch
             base == saving[t].base.elements
             merged == Merge(base, patch)
             new == Merged(t)
  <1>1. saving[t] \in Saves /\ SaveReady(saving[t], pictureOf[t], rev, copy, pictures)
    BY DEF IInv, Types, SavesAreReady
  <1>2. base \in Scene /\ patch \in Scene
    BY <1>1 DEF Saves, Copies, Scene
  <1>3. /\ Pictured(patch) /\ Bare(patch) /\ Pictured(base) /\ Names(base, pictures)
        /\ Complete(patch, {}, pictureOf[t])
    BY <1>1 DEF SaveReady, Faithful
  <1>4. /\ pictureOf[t] \in [Ids -> Pictures \cup {NoPicture}]
        /\ KnownStored(pictureOf[t], held[t], pictures)
    BY DEF IInv, Types, KnownAreStored
  <1>5. new = Refs(merged, t, base)
    BY DEF Merged
  <1> HIDE DEF patch, base
  <1>6. merged \in Scene
    BY <1>2, MergeIsScene
  <1>7. \A id \in Ids : merged[id] = IF Takes(patch[id], base[id]) THEN patch[id] ELSE base[id]
    BY DEF Merge
  <1> HIDE DEF merged, new
  <1>8. /\ new \in Scene
        /\ \A id \in Ids :
              /\ ~LiveOf(merged, id) => new[id] = merged[id]
              /\ LiveOf(merged, id) =>
                    new[id].picture = IF pictureOf[t][id] # NoPicture THEN pictureOf[t][id]
                                      ELSE IF base[id] = Absent THEN NoPicture
                                      ELSE base[id].picture
              /\ LiveOf(new, id) => LiveOf(merged, id)
    BY <1>2, <1>4, <1>5, <1>6, RefsFacts DEF LiveOf, IsLive
  <1>9. ASSUME NEW id \in Images, LiveOf(new, id)
        PROVE  HasPicture(new[id])
    <2>1. id \in Ids /\ LiveOf(merged, id)
      BY <1>8, <1>9, ReconcileAssumption
    <2>2. CASE merged[id] = patch[id]
      BY <1>3, <1>8, <1>9, <2>1, <2>2 DEF Pictured, Complete, HasPicture, LiveOf
    <2>3. CASE merged[id] = base[id]
      BY <1>3, <1>8, <1>9, <2>1, <2>3 DEF Pictured, HasPicture, LiveOf, IsLive
    <2>4. QED
      BY <1>7, <2>1, <2>2, <2>3
  <1>10. ASSUME NEW id \in Ids, new[id] # Absent
         PROVE  new[id].picture \in pictures \cup {NoPicture}
    <2>1. CASE LiveOf(merged, id)
      BY <1>3, <1>4, <1>8, <2>1 DEF Names, KnownStored
    <2>2. CASE ~LiveOf(merged, id)
      <3>1. new[id] = merged[id] /\ new[id].isDeleted
        BY <1>8, <1>10, <2>2 DEF LiveOf, IsLive
      <3>2. QED
        BY <1>3, <1>7, <1>10, <3>1 DEF Names, Bare
    <2>3. QED
      BY <2>1, <2>2
  <1>11. QED
    BY <1>8, <1>9, <1>10 DEF Pictured, Names, new

LEMMA LandedAs ==
    ASSUME NEW s \in Saves, NEW written \in Copies
    PROVE  LET new == [s EXCEPT !.base = Nothing, !.landed = written]
           IN  /\ new \in Saves
               /\ new.unsent = s.unsent /\ new.patch = s.patch
               /\ new.base = Nothing /\ new.landed = written
               /\ new.settles = s.settles
  BY DEF Saves

LEMMA TriesAgain ==
    ASSUME NEW s \in Saves
    PROVE  LET new == [s EXCEPT !.tries = @ + 1, !.base = Nothing]
           IN  /\ new \in Saves
               /\ new.unsent = s.unsent /\ new.patch = s.patch
               /\ new.base = Nothing /\ new.landed = s.landed
               /\ new.settles = s.settles
  <1> DEFINE n == s.tries + 1
  <1>1. n \in Nat
    BY DEF Saves
  <1> HIDE DEF n
  <1>2. LET new == [s EXCEPT !.tries = n, !.base = Nothing]
        IN  /\ new \in Saves
            /\ new.unsent = s.unsent /\ new.patch = s.patch
            /\ new.base = Nothing /\ new.landed = s.landed
            /\ new.settles = s.settles
    BY <1>1 DEF Saves
  <1>3. QED
    BY <1>2 DEF n

(* Everything the pages hold, read or wait for outlives a write. *)
LEMMA WrittenKeeps ==
    ASSUME IInv, NEW t \in Tabs, saving[t] # Nothing, saving[t].base # Nothing,
           UNCHANGED <<pictures, state, scene, mirror, known, noted>>,
           UNCHANGED <<current, held, pictureOf, reading>>,
           rev' = rev + 1, copy' = Merged(t),
           saving' = [saving EXCEPT ![t] =
                [@ EXCEPT !.base = Nothing, !.landed = [rev |-> rev', elements |-> copy']]]
    PROVE  IInv'
  <1> DEFINE written == [rev |-> rev', elements |-> copy']
             new == [saving[t] EXCEPT !.base = Nothing, !.landed = written]
  <1>1. copy' \in Scene /\ Pictured(copy') /\ Names(copy', pictures)
    BY MergedFacts
  <1>2. rev \in Nat /\ rev' \in Nat /\ rev' = rev + 1
    BY DEF IInv, Types
  <1>3. written \in Copies /\ Faithful(written, rev', copy', pictures)
    BY <1>1, <1>2 DEF Copies, Faithful, Scene
  <1>4. saving[t] \in Saves /\ SaveReady(saving[t], pictureOf[t], rev, copy, pictures)
    BY DEF IInv, Types, SavesAreReady
  <1>5. saving' = [saving EXCEPT ![t] = new]
    OBVIOUS
  <1> HIDE DEF written
  <1>6. /\ new \in Saves
        /\ new.unsent = saving[t].unsent /\ new.patch = saving[t].patch
        /\ new.base = Nothing /\ new.landed = written
    BY <1>3, <1>4, LandedAs
  <1> HIDE DEF new
  <1>7. SaveReady(new, pictureOf[t], rev', copy', pictures)
    BY <1>3, <1>4, <1>6 DEF SaveReady, Faithful
  <1>8. ASSUME NEW read \in Copies \cup {Nothing}, Faithful(read, rev, copy, pictures)
        PROVE  Faithful(read, rev', copy', pictures)
    BY <1>2, <1>8, FaithfulLater
  <1>9. Types'
    BY <1>1, <1>2, <1>5, <1>6 DEF IInv, Types
  <1>10. StoreIsWhole' /\ PagesAreWhole' /\ KnownAreStored'
    BY <1>1 DEF IInv, StoreIsWhole, PagesAreWhole, KnownAreStored
  <1>11. ReadsAreFaithful'
    <2>1. \A u \in Tabs : /\ current[u] \in Copies \cup {Nothing}
                          /\ reading[u] \in Copies \cup {Nothing}
      BY DEF IInv, Types
    <2>2. QED
      BY <1>8, <2>1 DEF IInv, ReadsAreFaithful
  <1>12. SavesAreReady'
    <2>1. ASSUME NEW u \in Tabs, saving'[u] # Nothing
          PROVE  /\ state[u] \in {"sharing", "shared"}
                 /\ SaveReady(saving'[u], pictureOf[u], rev', copy', pictures)
      <3>1. CASE u = t
        BY <1>5, <1>7, <3>1 DEF IInv, Types, SavesAreReady
      <3>2. CASE u # t
        <4>1. saving'[u] = saving[u] /\ saving[u] \in Saves
          BY <1>5, <2>1, <3>2 DEF IInv, Types
        <4>2. SaveReady(saving[u], pictureOf[u], rev, copy, pictures)
              /\ state[u] \in {"sharing", "shared"}
          BY <2>1, <4>1 DEF IInv, SavesAreReady
        <4>3. /\ saving[u].base \in Copies \cup {Nothing}
              /\ saving[u].landed \in Copies \cup {Nothing}
          BY <4>1 DEF Saves
        <4>4. QED
          BY <1>8, <4>1, <4>2, <4>3 DEF SaveReady
      <3>3. QED
        BY <3>1, <3>2
    <2>2. QED
      BY <2>1 DEF SavesAreReady
  <1>13. QED
    BY <1>9, <1>10, <1>11, <1>12 DEF IInv

LEMMA PutKeeps ==
    ASSUME IInv, NEW t \in Tabs, Put(t)
    PROVE  IInv'
  <1>1. CASE saving[t].base.rev = rev
    BY <1>1, WrittenKeeps DEF Put, page
  <1>2. CASE saving[t].base.rev # rev
    <2> DEFINE again == [saving[t] EXCEPT !.tries = @ + 1, !.base = Nothing]
               new == IF saving[t].tries + 1 = Attempts THEN Nothing ELSE again
    <2>1. /\ saving[t] # Nothing
          /\ current' = [current EXCEPT ![t] = Nothing]
          /\ saving' = [saving EXCEPT ![t] = new]
          /\ UNCHANGED <<rev, copy, pictures, state, scene, mirror, known, noted, held>>
          /\ UNCHANGED <<pictureOf, reading>>
      BY <1>2 DEF Put, page, Beaten
    <2>2. saving[t] \in Saves /\ SaveReady(saving[t], pictureOf[t], rev, copy, pictures)
      BY <2>1 DEF IInv, Types, SavesAreReady
    <2>3. /\ again \in Saves
          /\ again.unsent = saving[t].unsent /\ again.patch = saving[t].patch
          /\ again.base = Nothing /\ again.landed = saving[t].landed
      BY <2>2, TriesAgain
    <2> HIDE DEF again
    <2>4. SaveReady(again, pictureOf[t], rev, copy, pictures)
      BY <2>2, <2>3 DEF SaveReady, Faithful
    <2>5. new \in Saves \cup {Nothing} /\ (new # Nothing => new = again)
      BY <2>3
    <2> HIDE DEF new
    <2>6. Types'
      BY <2>1, <2>5 DEF IInv, Types
    <2>7. StoreIsWhole' /\ PagesAreWhole' /\ KnownAreStored'
      BY <2>1 DEF IInv, StoreIsWhole, PagesAreWhole, KnownAreStored
    <2>8. ReadsAreFaithful'
      BY <2>1 DEF IInv, Types, ReadsAreFaithful, Faithful
    <2>9. SavesAreReady'
      BY <2>1, <2>4, <2>5 DEF IInv, Types, SavesAreReady
    <2>10. QED
      BY <2>6, <2>7, <2>8, <2>9 DEF IInv
  <1>3. QED
    BY <1>1, <1>2

LEMMA LandedKeeps ==
    ASSUME IInv, NEW t \in Tabs, Landed(t)
    PROVE  IInv'
  <1> DEFINE patch == saving[t].patch
  <1>1. /\ saving[t] # Nothing /\ saving[t].landed # Nothing
        /\ current' = [current EXCEPT ![t] = saving[t].landed]
        /\ held' = [held EXCEPT ![t] = Noted(held[t], patch)]
        /\ saving' = [saving EXCEPT ![t] = Nothing]
        /\ state' = [state EXCEPT ![t] = "shared"] \/ state' = state
        /\ \/ known' = [known EXCEPT ![t] = patch]
           \/ known' = [known EXCEPT ![t] = Over(known[t], patch)]
        /\ noted' = [noted EXCEPT ![t] = {}]
           \/ noted' = [noted EXCEPT ![t] = noted[t] \ saving[t].settles]
        /\ UNCHANGED <<rev, copy, pictures, scene, mirror, pictureOf, reading>>
    BY DEF Landed, store, IInv, Types
  <1>2. saving[t] \in Saves /\ SaveReady(saving[t], pictureOf[t], rev, copy, pictures)
    BY <1>1 DEF IInv, Types, SavesAreReady
  <1>3. /\ patch \in Scene
        /\ saving[t].landed \in Copies
        /\ Faithful(saving[t].landed, rev, copy, pictures)
        /\ Complete(patch, {}, pictureOf[t])
    BY <1>1, <1>2 DEF Saves, SaveReady, Scene
  <1> HIDE DEF patch
  <1>4. Noted(held[t], patch) \in SUBSET Ids /\ KnownStored(pictureOf[t], Noted(held[t], patch), pictures)
    BY <1>3 DEF IInv, Types, KnownAreStored, KnownStored, Noted, WithPicture, Complete
  <1>5. Over(known[t], patch) \in Scene
    BY <1>3 DEF IInv, Types, Over, Scene
  <1>6. Types'
    <2>1. known' \in [Tabs -> Scene]
      BY <1>1, <1>3, <1>5 DEF IInv, Types
    <2>2. state' \in [Tabs -> States]
      BY <1>1 DEF IInv, Types, States
    <2>3. noted' \in [Tabs -> SUBSET Ids]
      BY <1>1 DEF IInv, Types
    <2>4. QED
      BY <1>1, <1>3, <1>4, <2>1, <2>2, <2>3 DEF IInv, Types
  <1>7. StoreIsWhole' /\ PagesAreWhole' /\ KnownAreStored'
    BY <1>1, <1>4 DEF IInv, Types, StoreIsWhole, PagesAreWhole, KnownAreStored
  <1>8. ReadsAreFaithful'
    BY <1>1, <1>3 DEF IInv, Types, ReadsAreFaithful
  <1>9. SavesAreReady'
    BY <1>1 DEF IInv, Types, SavesAreReady
  <1>10. QED
    BY <1>6, <1>7, <1>8, <1>9 DEF IInv

(* A copy read tells of pictures that are stored, and takes no knowledge of *)
(* one away.                                                                *)
LEMMA ReadCopyFacts ==
    ASSUME IInv, NEW t \in Tabs, NEW found \in Copies, Faithful(found, rev, copy, pictures),
           ReadCopy(t, found)
    PROVE  /\ current' \in [Tabs -> Copies \cup {Nothing}]
           /\ pictureOf' \in [Tabs -> [Ids -> Pictures \cup {NoPicture}]]
           /\ held' \in [Tabs -> SUBSET Ids]
           /\ \A u \in Tabs : /\ Faithful(current'[u], rev, copy, pictures)
                              /\ KnownStored(pictureOf'[u], held'[u], pictures)
                              /\ \A id \in Ids : pictureOf[u][id] # NoPicture
                                                    => pictureOf'[u][id] # NoPicture
  <1> DEFINE refs == [id \in Ids |-> IF found.elements[id] # Absent /\ HasPicture(found.elements[id])
                                     THEN found.elements[id].picture ELSE pictureOf[t][id]]
             images == Noted(held[t], found.elements)
             last == IF current[t] = Nothing \/ found.rev >= current[t].rev THEN found
                     ELSE current[t]
  <1>1. /\ current' = [current EXCEPT ![t] = last]
        /\ pictureOf' = [pictureOf EXCEPT ![t] = refs]
        /\ held' = [held EXCEPT ![t] = images]
    BY DEF ReadCopy
  <1>2. last \in Copies \cup {Nothing} /\ Faithful(last, rev, copy, pictures)
    BY DEF IInv, Types, ReadsAreFaithful
  <1>3. found # Nothing /\ Names(found.elements, pictures) /\ found.elements \in [Ids -> Entry]
    BY NothingElse DEF Faithful, Copies
  <1>4. /\ pictureOf[t] \in [Ids -> Pictures \cup {NoPicture}] /\ pictures \subseteq Pictures
        /\ held[t] \in SUBSET Ids
        /\ KnownStored(pictureOf[t], held[t], pictures)
    BY DEF IInv, Types, KnownAreStored
  <1>5. /\ refs \in [Ids -> Pictures \cup {NoPicture}]
        /\ images \in SUBSET Ids
        /\ KnownStored(refs, images, pictures)
        /\ \A id \in Ids : pictureOf[t][id] # NoPicture => refs[id] # NoPicture
    <2>1. \A id \in Ids : HasPicture(found.elements[id]) =>
              /\ refs[id] = found.elements[id].picture
              /\ refs[id] \in pictures /\ refs[id] # NoPicture
      BY <1>3 DEF HasPicture, IsLive, Names
    <2>2. \A id \in Ids : ~HasPicture(found.elements[id]) => refs[id] = pictureOf[t][id]
      OBVIOUS
    <2>3. images \in SUBSET Ids
          /\ \A id \in images : HasPicture(found.elements[id]) \/ id \in held[t]
      BY <1>4 DEF Noted, WithPicture
    <2>4. refs = [id \in Ids |-> refs[id]]
      OBVIOUS
    <2> HIDE DEF refs, images
    <2>5. \A id \in Ids : refs[id] \in Pictures \cup {NoPicture}
      BY <1>4, <2>1, <2>2
    <2>6. KnownStored(refs, images, pictures)
      BY <1>4, <2>1, <2>2, <2>3 DEF KnownStored
    <2>7. QED
      BY <2>1, <2>2, <2>3, <2>4, <2>5, <2>6
  <1> HIDE DEF refs, images, last
  <1>6. QED
    BY <1>1, <1>2, <1>5 DEF IInv, Types, ReadsAreFaithful, KnownAreStored

LEMMA ReadyLater ==
    ASSUME NEW save, NEW refs, NEW more, NEW now, NEW elements, NEW stored,
           SaveReady(save, refs, now, elements, stored),
           \A id \in Ids : refs[id] # NoPicture => more[id] # NoPicture
    PROVE  SaveReady(save, more, now, elements, stored)
  BY DEF SaveReady, Complete

LEMMA CaughtUpKeeps ==
    ASSUME IInv, NEW t \in Tabs, CaughtUp(t)
    PROVE  IInv'
  <1> DEFINE found == reading[t].elements
  <1>1. /\ reading[t] # Nothing
        /\ reading' = [reading EXCEPT ![t] = Nothing]
        /\ ReadCopy(t, reading[t])
        /\ \/ /\ scene' = [scene EXCEPT ![t] = Merge(scene[t], found)]
              /\ mirror' = [mirror EXCEPT ![t] = Live(Over(mirror[t], found))]
           \/ scene' = scene /\ mirror' = mirror
        /\ UNCHANGED <<rev, copy, pictures, state, known, noted, saving>>
    BY DEF CaughtUp, store
  <1>2. reading[t] \in Copies /\ Faithful(reading[t], rev, copy, pictures)
    BY <1>1 DEF IInv, Types, ReadsAreFaithful
  <1>3. found \in Scene /\ Pictured(found)
    BY <1>1, <1>2 DEF Copies, Faithful, Scene
  <1> HIDE DEF found
  <1>4. /\ scene[t] \in Scene /\ Pictured(scene[t])
        /\ mirror[t] \in Scene /\ Pictured(mirror[t])
    BY DEF IInv, Types, PagesAreWhole
  <1>5. Merge(scene[t], found) \in Scene /\ Pictured(Merge(scene[t], found))
    BY <1>3, <1>4, MergeFacts
  <1>6. LET seen == Live(Over(mirror[t], found))
        IN  seen \in Scene /\ Pictured(seen) /\ Bare(seen)
    BY <1>3, <1>4, OverFacts, LiveFacts
  <1>7. /\ current' \in [Tabs -> Copies \cup {Nothing}]
        /\ pictureOf' \in [Tabs -> [Ids -> Pictures \cup {NoPicture}]]
        /\ held' \in [Tabs -> SUBSET Ids]
        /\ \A u \in Tabs : /\ Faithful(current'[u], rev, copy, pictures)
                           /\ KnownStored(pictureOf'[u], held'[u], pictures)
                           /\ \A id \in Ids : pictureOf[u][id] # NoPicture
                                                 => pictureOf'[u][id] # NoPicture
    BY <1>1, <1>2, ReadCopyFacts
  <1>8. scene' \in [Tabs -> Scene] /\ mirror' \in [Tabs -> Scene]
    <2>1. scene \in [Tabs -> Scene] /\ mirror \in [Tabs -> Scene]
      BY DEF IInv, Types
    <2>2. QED
      BY <1>1, <1>5, <1>6, <2>1
  <1>9. Types'
    BY <1>1, <1>7, <1>8 DEF IInv, Types
  <1>10. PagesAreWhole'
    <2>1. CASE scene' = scene /\ mirror' = mirror
      BY <2>1 DEF IInv, PagesAreWhole
    <2>2. CASE /\ scene' = [scene EXCEPT ![t] = Merge(scene[t], found)]
               /\ mirror' = [mirror EXCEPT ![t] = Live(Over(mirror[t], found))]
      BY <1>5, <1>6, <2>2 DEF IInv, Types, PagesAreWhole
    <2>3. QED
      BY <1>1, <2>1, <2>2
  <1>11. StoreIsWhole' /\ KnownAreStored'
    BY <1>1, <1>7 DEF IInv, StoreIsWhole, KnownAreStored
  <1>12. ReadsAreFaithful'
    BY <1>1, <1>7 DEF IInv, Types, ReadsAreFaithful, Faithful
  <1>13. SavesAreReady'
    BY <1>1, <1>7, ReadyLater DEF IInv, SavesAreReady
  <1>14. QED
    BY <1>9, <1>10, <1>11, <1>12, <1>13 DEF IInv

LEMMA OpenLinkKeeps ==
    ASSUME IInv, NEW t \in Tabs, OpenLink(t)
    PROVE  IInv'
  <1>1. /\ state[t] = "away"
        /\ state' = [state EXCEPT ![t] = "shared"]
        /\ scene' = [scene EXCEPT ![t] = copy]
        /\ mirror' = [mirror EXCEPT ![t] = Live(copy)]
        /\ known' = [known EXCEPT ![t] = copy]
        /\ ReadCopy(t, Stored)
        /\ UNCHANGED <<rev, copy, pictures, noted, saving, reading>>
    BY DEF OpenLink, store
  <1>2. saving[t] = Nothing
    BY <1>1 DEF IInv, SavesAreReady
  <1>3. copy \in Scene /\ Pictured(copy)
    BY DEF IInv, Types, StoreIsWhole
  <1>4. Live(copy) \in Scene /\ Pictured(Live(copy)) /\ Bare(Live(copy))
    BY <1>3, LiveFacts
  <1>5. /\ current' \in [Tabs -> Copies \cup {Nothing}]
        /\ pictureOf' \in [Tabs -> [Ids -> Pictures \cup {NoPicture}]]
        /\ held' \in [Tabs -> SUBSET Ids]
        /\ \A u \in Tabs : /\ Faithful(current'[u], rev, copy, pictures)
                           /\ KnownStored(pictureOf'[u], held'[u], pictures)
                           /\ \A id \in Ids : pictureOf[u][id] # NoPicture
                                                 => pictureOf'[u][id] # NoPicture
    BY <1>1, StoredFacts, ReadCopyFacts
  <1>6. /\ scene' \in [Tabs -> Scene] /\ mirror' \in [Tabs -> Scene]
        /\ known' \in [Tabs -> Scene] /\ state' \in [Tabs -> States]
    BY <1>1, <1>3, <1>4 DEF IInv, Types, States
  <1>7. Types'
    BY <1>1, <1>5, <1>6 DEF IInv, Types
  <1>8. PagesAreWhole'
    BY <1>1, <1>3, <1>4 DEF IInv, Types, PagesAreWhole
  <1>9. StoreIsWhole' /\ KnownAreStored' /\ ReadsAreFaithful'
    BY <1>1, <1>5 DEF IInv, StoreIsWhole, KnownAreStored, ReadsAreFaithful
  <1>10. SavesAreReady'
    <2>1. ASSUME NEW u \in Tabs, saving'[u] # Nothing
          PROVE  /\ state'[u] \in {"sharing", "shared"}
                 /\ SaveReady(saving'[u], pictureOf'[u], rev', copy', pictures')
      <3>1. u # t /\ saving'[u] = saving[u] /\ saving[u] # Nothing
        BY <1>1, <1>2, <2>1
      <3>2. state'[u] = state[u] /\ state[u] \in {"sharing", "shared"}
        BY <1>1, <3>1 DEF IInv, Types, SavesAreReady
      <3>3. SaveReady(saving[u], pictureOf[u], rev, copy, pictures)
        BY <3>1 DEF IInv, SavesAreReady
      <3>4. QED
        BY <1>1, <1>5, <3>1, <3>2, <3>3, ReadyLater
    <2>2. QED
      BY <2>1 DEF SavesAreReady
  <1>11. QED
    BY <1>7, <1>8, <1>9, <1>10 DEF IInv

LEMMA StepKeeps == IInv /\ [Next]_vars => IInv'
  <1> SUFFICES ASSUME IInv, [Next]_vars PROVE IInv'
    OBVIOUS
  <1>1. CASE UNCHANGED vars
    BY <1>1 DEF vars, store, page, client, IInv, Types, StoreIsWhole, PagesAreWhole,
                ReadsAreFaithful, KnownAreStored, SavesAreReady
  <1>2. CASE Next
    <2>1. PICK t \in Tabs :
            \/ \E id \in Ids : Draw(t, id) \/ Edit(t, id) \/ Erase(t, id)
            \/ Share(t) \/ Proceeds(t) \/ Fail(t) \/ Read(t)
            \/ OpenLink(t) \/ Close(t) \/ Reopen(t)
      BY <1>2 DEF Next
    <2>2. CASE \E id \in Ids : Draw(t, id) \/ Edit(t, id) \/ Erase(t, id)
      BY <2>2, EditKeeps
    <2>3. CASE Share(t) \/ Fail(t) \/ Read(t)
      BY <2>3, ShareKeeps, FailKeeps, ReadKeeps
    <2>4. CASE StartSave(t) \/ SendPicture(t) \/ TakeBase(t)
      BY <2>4, StartSaveKeeps, SendPictureKeeps, TakeBaseKeeps
    <2>5. CASE Put(t) \/ Landed(t) \/ CaughtUp(t)
      BY <2>5, PutKeeps, LandedKeeps, CaughtUpKeeps
    <2>6. CASE OpenLink(t) \/ Close(t) \/ Reopen(t)
      BY <2>6, OpenLinkKeeps, CloseKeeps, ReopenKeeps
    <2>7. QED
      BY <2>1, <2>2, <2>3, <2>4, <2>5, <2>6 DEF Proceeds
  <1>3. QED
    BY <1>1, <1>2

-----------------------------------------------------------------------------
(* What pages believe of the copy is so, of every execution. *)
THEOREM BeliefsHold == Spec => []IInv
  BY InitHolds, StepKeeps, PTL DEF Spec

(* Every image in the copy names a picture that is stored, whatever pages   *)
(* saved at once, whatever was lost, and whichever page names it.           *)
THEOREM ImagesAreAlwaysStored == Spec => []ImagesAreStored
  <1>1. IInv => ImagesAreStored
    BY ReconcileAssumption
       DEF IInv, StoreIsWhole, Pictured, Names, ImagesAreStored, HasPicture, LiveOf, IsLive
  <1>2. QED
    BY <1>1, BeliefsHold, PTL

(* A write takes the copy it was merged into to be the stored one. *)
LEMMA PutIsMerged ==
    ASSUME IInv, NEW t \in Tabs, Put(t), NEW id \in Ids, copy[id] # Absent
    PROVE  copy'[id] # Absent /\ ~IsNewer(copy[id], copy'[id])
  <1> DEFINE patch == saving[t].patch
             merged == Merge(copy, patch)
  <1>1. copy \in Scene
    BY DEF IInv, Types
  <1>2. copy[id] \in Element
    BY <1>1 DEF Scene, Entry
  <1>3. CASE copy' = copy
    BY <1>2, <1>3, NewerIsAsymmetric
  <1>4. CASE copy' # copy
    <2>1. saving[t] # Nothing /\ saving[t].base # Nothing /\ saving[t].base.rev = rev
          /\ copy' = Merged(t)
      BY <1>4 DEF Put
    <2>2. saving[t] \in Saves /\ SaveReady(saving[t], pictureOf[t], rev, copy, pictures)
      BY <2>1 DEF IInv, Types, SavesAreReady
    <2>3. saving[t].base.elements = copy /\ patch \in Scene
      BY <2>1, <2>2 DEF SaveReady, Faithful, Saves, Scene
    <2>4. copy' = Refs(merged, t, copy)
      BY <2>1, <2>3 DEF Merged
    <2> HIDE DEF patch
    <2>5. merged \in Scene /\ merged[id] = IF Takes(patch[id], copy[id]) THEN patch[id] ELSE copy[id]
      BY <1>1, <2>3, MergeIsScene DEF Merge
    <2> HIDE DEF merged
    <2>6. patch[id] \in Entry
      BY <2>3 DEF Scene
    <2>7. merged[id] \in Element /\ ~IsNewer(copy[id], merged[id])
      BY <1>2, <2>5, <2>6, NewerIsAsymmetric DEF Takes, Entry
    <2>8. pictureOf[t] \in [Ids -> Pictures \cup {NoPicture}]
      BY DEF IInv, Types
    <2>9. \/ copy'[id] = merged[id]
          \/ /\ copy'[id] \in Element
             /\ copy'[id].version = merged[id].version
             /\ copy'[id].versionNonce = merged[id].versionNonce
             /\ copy'[id].updated = merged[id].updated
      BY <1>1, <2>4, <2>5, <2>8, RefsFacts
    <2>10. QED
      BY <2>7, <2>9, ReconcileAssumption DEF IsNewer
  <1>5. QED
    BY <1>3, <1>4

LEMMA CopyStep ==
    ASSUME IInv, [Next]_vars
    PROVE  \A id \in Ids : copy[id] # Absent =>
               copy'[id] # Absent /\ ~IsNewer(copy[id], copy'[id])
  <1>1. CASE copy' = copy
    <2>1. \A id \in Ids : copy[id] # Absent => copy[id] \in Element
      BY DEF IInv, Types, Scene, Entry
    <2>2. QED
      BY <1>1, <2>1, NewerIsAsymmetric
  <1>2. CASE copy' # copy
    <2>1. \E t \in Tabs : Put(t)
      <3>1. PICK t \in Tabs :
              \/ \E id \in Ids : Draw(t, id) \/ Edit(t, id) \/ Erase(t, id)
              \/ Share(t) \/ Proceeds(t) \/ Fail(t) \/ Read(t)
              \/ OpenLink(t) \/ Close(t) \/ Reopen(t)
        BY <1>2 DEF Next, vars, store
      <3>2. ~ \E id \in Ids : Draw(t, id) \/ Edit(t, id) \/ Erase(t, id)
        BY <1>2 DEF Draw, Edit, Erase, Changed, store
      <3>3. ~(Share(t) \/ Fail(t) \/ Read(t) \/ OpenLink(t) \/ Close(t) \/ Reopen(t))
        BY <1>2 DEF Share, Fail, Read, OpenLink, Close, Reopen, store
      <3>4. ~(StartSave(t) \/ SendPicture(t) \/ TakeBase(t) \/ Landed(t) \/ CaughtUp(t))
        BY <1>2 DEF StartSave, SendPicture, TakeBase, Landed, CaughtUp, store
      <3>5. QED
        BY <3>1, <3>2, <3>3, <3>4 DEF Proceeds
    <2>2. QED
      BY <2>1, PutIsMerged
  <1>3. QED
    BY <1>1, <1>2

(* No step puts an older copy of an element over a newer one, or takes one  *)
(* away: a page writes on the rev of the copy it merged into, and a copy it *)
(* takes to have the stored rev is the stored one.                          *)
THEOREM CopyOnlyGrowsNewer == Spec => CopyNeverGoesBack
  <1>1. ASSUME IInv, [Next]_vars
        PROVE  [\A id \in Ids : copy[id] # Absent =>
                    /\ copy'[id] # Absent
                    /\ ~IsNewer(copy[id], copy'[id])]_vars
    BY <1>1, CopyStep
  <1>2. QED
    BY <1>1, BeliefsHold, PTL DEF Spec, CopyNeverGoesBack

-----------------------------------------------------------------------------
(* What a page has comes into the copy because its saver knows where each   *)
(* element is: in the copy, in the save under way, or noted.  It goes by    *)
(* stamps without their clock: no clock of the model's moves.               *)
TimelessRead(read) == read # Nothing => Timeless(read.elements)

TimelessSave(save) ==
    save # Nothing => /\ Timeless(save.patch)
                      /\ TimelessRead(save.base) /\ TimelessRead(save.landed)

NoClocks(t) ==
    /\ Timeless(scene[t]) /\ Timeless(mirror[t]) /\ Timeless(known[t])
    /\ TimelessRead(current[t]) /\ TimelessRead(reading[t]) /\ TimelessSave(saving[t])

(* These elements are there, in that version or a newer one. *)
Within(elements, others, ids) == \A id \in ids : Older(elements[id], others[id])

(* The page shows live elements only. *)
MirrorIsLive(t) == \A id \in Ids : mirror[t][id] = Absent \/ LiveOf(mirror[t], id)

(* What is read only while a page is shared, and is never ahead of the copy. *)
ReadIsBehind(t) ==
    reading[t] # Nothing => state[t] = "shared" /\ Within(reading[t].elements, copy, Ids)

KnownIsThere(t) == Within(known[t], copy, Ids \ missed[t])

NotedOrThere(t) ==
    /\ state[t] \in {"shared", "closed"} =>
           Within(mirror[t], copy, Ids \ (missed[t] \cup noted[t]))
    /\ state[t] = "closed" => noted[t] = {}

(* A note a save settles is in what it brings; the first copy brings all    *)
(* that was not noted since.                                                *)
SaveBrings(save, now, elements, there, notes, gone) ==
    save # Nothing =>
        /\ save.landed # Nothing => Within(save.patch, there, Ids)
        /\ now = "shared" =>
              \A id \in save.settles \ gone : \/ Older(elements[id], there[id])
                                              \/ Older(elements[id], save.patch[id])
        /\ now = "sharing" => \A id \in Ids \ notes : save.patch[id] = elements[id]

Brings(t) == SaveBrings(saving[t], state[t], mirror[t], copy, noted[t], missed[t])

Accounted(t) ==
    /\ missed[t] \subseteq Ids
    /\ NoClocks(t) /\ MirrorIsLive(t) /\ ReadIsBehind(t)
    /\ KnownIsThere(t) /\ NotedOrThere(t) /\ Brings(t)

EInv ==
    /\ missed \in [Tabs -> SUBSET Ids]
    /\ Timeless(copy)
    /\ \A t \in Tabs : Accounted(t)

LEMMA WithinLater ==
    ASSUME NEW s \in Scene, NEW c \in Scene, NEW d \in Scene, NEW ids \in SUBSET Ids,
           Within(s, c, ids), Within(c, d, Ids)
    PROVE  Within(s, d, ids)
  BY OlderIsTransitive DEF Within, Scene

(* All the page's own state is types of what it was. *)
LEMMA PageTypes ==
    ASSUME IInv, NEW t \in Tabs
    PROVE  /\ copy \in Scene /\ scene[t] \in Scene /\ mirror[t] \in Scene /\ known[t] \in Scene
           /\ noted[t] \in SUBSET Ids
           /\ saving[t] \in Saves \cup {Nothing}
           /\ current[t] \in Copies \cup {Nothing} /\ reading[t] \in Copies \cup {Nothing}
           /\ reading[t] # Nothing => reading[t].elements \in Scene
           /\ current[t] # Nothing => current[t].elements \in Scene
           /\ saving[t] # Nothing =>
                 /\ saving[t] \in Saves /\ saving[t].patch \in Scene
                 /\ saving[t].settles \in SUBSET Ids
                 /\ saving[t].base # Nothing => saving[t].base.elements \in Scene
                 /\ saving[t].landed # Nothing => saving[t].landed.elements \in Scene
                 /\ state[t] \in {"sharing", "shared"}
  BY DEF IInv, Types, Copies, Saves, Scene, SavesAreReady

-----------------------------------------------------------------------------
(* What other pages do only moves the copy. *)
Untouched(u) ==
    /\ state'[u] = state[u] /\ scene'[u] = scene[u] /\ mirror'[u] = mirror[u]
    /\ known'[u] = known[u] /\ noted'[u] = noted[u] /\ saving'[u] = saving[u]
    /\ current'[u] = current[u] /\ reading'[u] = reading[u] /\ missed'[u] = missed[u]

LEMMA SaveBringsLater ==
    ASSUME NEW save \in Saves \cup {Nothing}, NEW now, NEW s \in Scene, NEW c \in Scene,
           NEW d \in Scene, NEW notes, NEW gone, Within(c, d, Ids),
           SaveBrings(save, now, s, c, notes, gone)
    PROVE  SaveBrings(save, now, s, d, notes, gone)
  <1> SUFFICES ASSUME save # Nothing
               PROVE  SaveBrings(save, now, s, d, notes, gone)
    BY DEF SaveBrings
  <1>1. save.patch \in Scene /\ save.settles \in SUBSET Ids
    BY DEF Saves, Scene
  <1>2. save.landed # Nothing => Within(save.patch, d, Ids)
    BY <1>1, WithinLater DEF SaveBrings
  <1>3. ASSUME now = "shared", NEW id \in save.settles \ gone, Older(s[id], c[id])
        PROVE  Older(s[id], d[id])
    BY <1>1, <1>3, OlderIsTransitive DEF Within, Scene
  <1>4. QED
    BY <1>2, <1>3 DEF SaveBrings

LEMMA UntouchedKeeps ==
    ASSUME IInv, NEW u \in Tabs, Accounted(u), Untouched(u),
           copy' \in Scene, Within(copy, copy', Ids)
    PROVE  Accounted(u)'
  <1>1. missed[u]' \subseteq Ids /\ NoClocks(u)' /\ MirrorIsLive(u)'
    BY DEF Accounted, Untouched, NoClocks, MirrorIsLive
  <1>2. ReadIsBehind(u)'
    BY PageTypes, WithinLater DEF Accounted, Untouched, ReadIsBehind
  <1>3. KnownIsThere(u)'
    <2>1. Within(known[u], copy', Ids \ missed[u])
      BY PageTypes, WithinLater DEF Accounted, KnownIsThere
    <2>2. QED
      BY <2>1 DEF KnownIsThere, Untouched
  <1>4. NotedOrThere(u)'
    <2>1. state[u] \in {"shared", "closed"} =>
              Within(mirror[u], copy', Ids \ (missed[u] \cup noted[u]))
      BY PageTypes, WithinLater DEF Accounted, NotedOrThere
    <2>2. QED
      BY <2>1 DEF NotedOrThere, Untouched, Accounted
  <1>5. Brings(u)'
    <2>1. SaveBrings(saving[u], state[u], mirror[u], copy', noted[u], missed[u])
      BY PageTypes, SaveBringsLater DEF Accounted, Brings
    <2>2. QED
      BY <2>1 DEF Brings, Untouched
  <1>6. QED
    BY <1>1, <1>2, <1>3, <1>4, <1>5 DEF Accounted

LEMMA CopyMoves ==
    ASSUME IInv, [Next]_vars
    PROVE  Within(copy, copy', Ids)
  <1>1. copy \in Scene
    BY DEF IInv, Types
  <1>2. \A id \in Ids : copy[id] # Absent => copy'[id] # Absent /\ ~IsNewer(copy[id], copy'[id])
    BY CopyStep
  <1>3. QED
    BY <1>2 DEF Within, Older

-----------------------------------------------------------------------------
(* What a page does, one action at a time. *)

LEMMA ChangedAccounted ==
    ASSUME IInv, NEW t \in Tabs, NEW id \in Ids, NEW e \in Element, e.updated = 0,
           Changed(t, id, e), Accounted(t)
    PROVE  Accounted(t)'
  <1> DEFINE shown == IF e.isDeleted THEN Absent ELSE e
  <1>1. /\ state[t] \in {"alone", "sharing", "shared"} /\ state'[t] = state[t]
        /\ scene'[t] = [scene[t] EXCEPT ![id] = e]
        /\ mirror'[t] = [mirror[t] EXCEPT ![id] = shown]
        /\ noted'[t] = (IF state[t] = "alone" THEN noted[t] ELSE noted[t] \cup {id})
        /\ saving'[t] = Unsettled(saving[t], id)
        /\ known'[t] = known[t] /\ current'[t] = current[t] /\ reading'[t] = reading[t]
        /\ missed'[t] = missed[t] /\ copy' = copy
    BY DEF Changed, IInv, Types, store
  <1>2. scene[t] \in [Ids -> Entry] /\ mirror[t] \in [Ids -> Entry]
    BY PageTypes DEF Scene
  <1>3. /\ \A other \in Ids : mirror'[t][other] = IF other = id THEN shown ELSE mirror[t][other]
        /\ \A other \in Ids : scene'[t][other] = IF other = id THEN e ELSE scene[t][other]
    BY <1>1, <1>2
  <1>4. saving'[t] # Nothing =>
            /\ saving[t] # Nothing
            /\ saving'[t].patch = saving[t].patch
            /\ saving'[t].base = saving[t].base /\ saving'[t].landed = saving[t].landed
            /\ saving'[t].settles = saving[t].settles \ {id}
    <2>1. CASE saving[t] = Nothing
      BY <1>1, <2>1 DEF Unsettled
    <2>2. CASE saving[t] # Nothing
      BY <1>1, <2>2, PageTypes, SettlesLess
    <2>3. QED
      BY <2>1, <2>2
  <1>5. shown = Absent \/ (IsLive(shown) /\ shown.updated = 0)
    BY ReconcileAssumption DEF IsLive
  <1> HIDE DEF shown
  <1>6. Timeless(scene[t])' /\ Timeless(mirror[t])'
    BY <1>3, <1>5 DEF Accounted, NoClocks, Timeless
  <1>7. NoClocks(t)'
    BY <1>1, <1>4, <1>6 DEF Accounted, NoClocks, TimelessSave
  <1>8. MirrorIsLive(t)'
    BY <1>3, <1>5 DEF Accounted, MirrorIsLive, LiveOf
  <1>9. ReadIsBehind(t)' /\ KnownIsThere(t)' /\ missed[t]' \subseteq Ids
    BY <1>1 DEF Accounted, ReadIsBehind, KnownIsThere
  <1>10. NotedOrThere(t)'
    BY <1>1, <1>3 DEF Accounted, NotedOrThere, Within
  <1>11. Brings(t)'
    <2> SUFFICES ASSUME saving'[t] # Nothing
                 PROVE  SaveBrings(saving'[t], state'[t], mirror'[t], copy', noted'[t], missed'[t])
      BY DEF Brings, SaveBrings
    <2>1. SaveBrings(saving[t], state[t], mirror[t], copy, noted[t], missed[t])
      BY DEF Accounted, Brings
    <2>2. saving[t].settles \in SUBSET Ids
      BY <1>4, PageTypes
    <2>3. QED
      BY <1>1, <1>3, <1>4, <2>1, <2>2 DEF SaveBrings
  <1>12. QED
    BY <1>7, <1>8, <1>9, <1>10, <1>11 DEF Accounted

LEMMA EditAccounted ==
    ASSUME IInv, NEW t \in Tabs, NEW id \in Ids, Draw(t, id) \/ Edit(t, id) \/ Erase(t, id),
           Accounted(t)
    PROVE  Accounted(t)'
  <1>1. CASE Draw(t, id)
    <2>1. PICK nonce \in Nonces[t] : Changed(t, id, Drawn(id, nonce))
      BY <1>1 DEF Draw
    <2>2. Drawn(id, nonce) \in Element
      BY NonceType, DrawnFacts
    <2>3. Drawn(id, nonce).updated = 0
      BY DEF Drawn
    <2>4. QED
      BY <2>1, <2>2, <2>3, ChangedAccounted
  <1>2. CASE Edit(t, id) \/ Erase(t, id)
    <2> DEFINE old == scene[t][id]
               v == old.version + 1
    <2>1. old \in Element /\ old.updated = 0
      <3>1. scene[t] \in [Ids -> Entry] /\ LiveOf(scene[t], id)
        BY <1>2, PageTypes DEF Edit, Erase, Scene
      <3>2. QED
        BY <3>1 DEF LiveOf, IsLive, Entry, Accounted, NoClocks, Timeless
    <2>2. v \in Nat
      BY <2>1 DEF Element
    <2>3. PICK nonce \in Nonces[t] :
              \E e \in {[old EXCEPT !.version = v, !.versionNonce = nonce],
                       [old EXCEPT !.version = v, !.versionNonce = nonce, !.isDeleted = TRUE]} :
                  Changed(t, id, e)
      BY <1>2 DEF Edit, Erase
    <2>4. nonce \in Nat
      BY NonceType
    <2> HIDE DEF old, v
    <2>5. PICK e \in {[old EXCEPT !.version = v, !.versionNonce = nonce],
                     [old EXCEPT !.version = v, !.versionNonce = nonce, !.isDeleted = TRUE]} :
              Changed(t, id, e)
      BY <2>3
    <2>6. e \in Element /\ e.updated = 0
      BY <2>1, <2>2, <2>4 DEF Element
    <2>7. QED
      BY <2>5, <2>6, ChangedAccounted
  <1>3. QED
    BY <1>1, <1>2

LEMMA ShareAccounted ==
    ASSUME IInv, NEW t \in Tabs, Share(t), Accounted(t)
    PROVE  Accounted(t)'
  <1> DEFINE sent == {id \in Ids : HasPicture(mirror[t][id])}
             save == [Save(t, mirror[t], {}) EXCEPT !.unsent = sent]
  <1>1. /\ state[t] = "alone" /\ state'[t] = "sharing"
        /\ saving'[t] = save /\ noted'[t] = {} /\ current'[t] = Nothing
        /\ UNCHANGED <<copy, scene, mirror, known, reading, missed>>
    BY DEF Share, store, IInv, Types
  <1>2. save.patch = mirror[t] /\ save.base = Nothing /\ save.landed = Nothing
    BY DEF Save
  <1> HIDE DEF save
  <1>3. NoClocks(t)'
    BY <1>1, <1>2 DEF Accounted, NoClocks, TimelessSave, TimelessRead
  <1>4. MirrorIsLive(t)' /\ ReadIsBehind(t)' /\ KnownIsThere(t)' /\ NotedOrThere(t)'
    BY <1>1 DEF Accounted, MirrorIsLive, ReadIsBehind, KnownIsThere, NotedOrThere
  <1>5. Brings(t)'
    BY <1>1, <1>2 DEF Brings, SaveBrings
  <1>6. QED
    BY <1>1, <1>3, <1>4, <1>5 DEF Accounted

LEMMA StartSaveAccounted ==
    ASSUME IInv, NEW t \in Tabs, StartSave(t), Accounted(t)
    PROVE  Accounted(t)'
  <1> DEFINE made(nonce) == [id \in Ids |-> IF id \in noted[t]
                                THEN Change([known |-> known[t]], mirror[t], id, nonce)
                                ELSE Absent]
  <1>1. PICK nonce \in Nonces[t] :
            IF made(nonce) = None THEN noted' = [noted EXCEPT ![t] = {}] /\ UNCHANGED saving
            ELSE saving' = [saving EXCEPT ![t] = Save(t, made(nonce), noted[t])]
                 /\ UNCHANGED noted
    BY DEF StartSave
  <1> DEFINE patch == made(nonce)
             save == Save(t, patch, noted[t])
  <1>2. /\ state[t] = "shared" /\ saving[t] = Nothing
        /\ UNCHANGED <<copy, state, scene, mirror, known, current, reading, missed>>
    BY DEF StartSave, store
  <1>3. \/ patch = None /\ noted'[t] = {} /\ saving'[t] = saving[t]
        \/ noted'[t] = noted[t] /\ saving'[t] = save
    BY <1>1 DEF IInv, Types
  <1>4. /\ known[t] \in Scene /\ mirror[t] \in Scene /\ copy \in Scene
        /\ noted[t] \in SUBSET Ids /\ nonce \in Nat
    BY NonceType, PageTypes
  <1>5. \A id \in Ids : patch[id] = IF id \in noted[t]
                            THEN Change([known |-> known[t]], mirror[t], id, nonce) ELSE Absent
    OBVIOUS
  <1>6. save.patch = patch /\ save.base = Nothing /\ save.landed = Nothing
        /\ save.settles = noted[t]
    BY DEF Save
  <1> HIDE DEF patch, save
  <1>7. ASSUME NEW id \in noted[t]
        PROVE  /\ patch[id] # Absent => patch[id].updated = 0
               /\ id \notin missed[t] =>
                      Older(mirror[t][id], copy[id]) \/ Older(mirror[t][id], patch[id])
    <2>1. /\ mirror[t][id] = Absent \/ LiveOf(mirror[t], id)
          /\ Timeless(known[t]) /\ Timeless(mirror[t])
      BY <1>4 DEF Accounted, MirrorIsLive, NoClocks
    <2> DEFINE change == Change([known |-> known[t]], mirror[t], id, nonce)
    <2>2. /\ change # Absent => change.updated = 0
          /\ Older(mirror[t][id], change) \/ Older(mirror[t][id], known[t][id])
      BY <1>4, <2>1, ChangeBrings
    <2>3. patch[id] = change
      BY <1>4, <1>5
    <2> HIDE DEF change
    <2>4. id \notin missed[t] => Older(known[t][id], copy[id])
      BY <1>4 DEF Accounted, KnownIsThere, Within
    <2>5. mirror[t][id] \in Entry /\ known[t][id] \in Entry /\ copy[id] \in Entry
      BY <1>4 DEF Scene
    <2>6. QED
      BY <2>2, <2>3, <2>4, <2>5, OlderIsTransitive
  <1>8. Timeless(patch)
    BY <1>5, <1>7 DEF Timeless
  <1>9. NoClocks(t)'
    BY <1>2, <1>3, <1>6, <1>8 DEF Accounted, NoClocks, TimelessSave, TimelessRead
  <1>10. MirrorIsLive(t)' /\ ReadIsBehind(t)' /\ KnownIsThere(t)' /\ missed[t]' \subseteq Ids
    BY <1>2 DEF Accounted, MirrorIsLive, ReadIsBehind, KnownIsThere
  <1>11. NotedOrThere(t)'
    <2>1. CASE patch = None
      <3>1. ASSUME NEW id \in noted[t], id \notin missed[t]
            PROVE  Older(mirror[t][id], copy[id])
        <4>1. patch[id] = Absent
          BY <1>4, <2>1 DEF None
        <4>2. Older(mirror[t][id], copy[id]) \/ mirror[t][id] = Absent
          BY <1>7, <3>1, <4>1 DEF Older
        <4>3. QED
          BY <4>2 DEF Older
      <3>2. Within(mirror[t], copy, Ids \ (missed[t] \cup noted[t]))
        BY <1>2 DEF Accounted, NotedOrThere
      <3>3. Within(mirror[t], copy, Ids \ missed[t])
        BY <3>1, <3>2 DEF Within
      <3>4. QED
        BY <1>2, <1>3, <3>2, <3>3 DEF NotedOrThere, Within
    <2>2. CASE noted'[t] = noted[t]
      BY <1>2, <2>2 DEF Accounted, NotedOrThere
    <2>3. QED
      BY <1>3, <2>1, <2>2
  <1>12. Brings(t)'
    <2>1. CASE saving'[t] = saving[t]
      BY <1>2, <2>1 DEF Brings, SaveBrings
    <2>2. CASE saving'[t] = save
      BY <1>2, <1>6, <1>7, <2>2 DEF Brings, SaveBrings
    <2>3. QED
      BY <1>3, <2>1, <2>2
  <1>13. QED
    BY <1>9, <1>10, <1>11, <1>12 DEF Accounted

(* Steps that only have the save go on, or give it up. *)
LEMMA GoesOnAccounted ==
    ASSUME IInv, NEW t \in Tabs, Accounted(t), Timeless(copy),
           copy' = copy, scene'[t] = scene[t], mirror'[t] = mirror[t], known'[t] = known[t],
           noted'[t] = noted[t], missed'[t] = missed[t],
           \/ state'[t] = state[t]
           \/ state[t] = "sharing" /\ state'[t] = "alone",
           TimelessRead(current'[t]),
           reading'[t] = reading[t] \/ (state[t] = "shared" /\ reading'[t] = Stored),
           \/ saving'[t] = Nothing
           \/ /\ saving[t] # Nothing /\ saving'[t].patch = saving[t].patch
              /\ saving'[t].settles = saving[t].settles
              /\ saving'[t].landed = saving[t].landed
              /\ TimelessRead(saving'[t].base)
    PROVE  Accounted(t)'
  <1>1. Stored.elements = copy /\ copy \in Scene
    BY PageTypes DEF Stored
  <1>2. NoClocks(t)'
    <2>1. TimelessRead(reading'[t])
      BY <1>1 DEF Accounted, NoClocks, TimelessRead
    <2>2. TimelessSave(saving'[t])
      BY DEF Accounted, NoClocks, TimelessSave
    <2>3. QED
      BY <2>1, <2>2 DEF Accounted, NoClocks
  <1>3. MirrorIsLive(t)' /\ KnownIsThere(t)' /\ missed[t]' \subseteq Ids
    BY DEF Accounted, MirrorIsLive, KnownIsThere
  <1>4. ReadIsBehind(t)'
    <2>1. Within(copy, copy, Ids)
      BY <1>1, OlderIsReflexive DEF Within, Scene
    <2>2. CASE reading'[t] = reading[t]
      BY <2>2 DEF Accounted, ReadIsBehind
    <2>3. CASE state[t] = "shared" /\ reading'[t] = Stored
      BY <1>1, <2>1, <2>3 DEF ReadIsBehind
    <2>4. QED
      BY <2>2, <2>3
  <1>5. NotedOrThere(t)'
    BY DEF Accounted, NotedOrThere
  <1>6. Brings(t)'
    BY DEF Accounted, Brings, SaveBrings
  <1>7. QED
    BY <1>2, <1>3, <1>4, <1>5, <1>6 DEF Accounted

LEMMA WaitAccounted ==
    ASSUME IInv, NEW t \in Tabs, Accounted(t), Timeless(copy),
           \/ SendPicture(t) \/ TakeBase(t) \/ Fail(t) \/ Read(t)
           \/ Put(t) /\ saving[t].base.rev # rev
    PROVE  Accounted(t)'
  <1>1. Stored.elements = copy
    BY DEF Stored
  <1>2. CASE SendPicture(t)
    <2>1. PICK id \in saving[t].unsent :
              /\ saving[t] # Nothing
              /\ saving' = [saving EXCEPT ![t].unsent = @ \ {id}]
      BY <1>2 DEF SendPicture
    <2> DEFINE old == saving[t]
               left == old.unsent \ {id}
               new == [old EXCEPT !.unsent = left]
    <2>2. old \in Saves /\ old.unsent \in SUBSET Ids
      BY <2>1, PageTypes DEF Saves
    <2>3. new.patch = old.patch /\ new.settles = old.settles
          /\ new.base = old.base /\ new.landed = old.landed
      <3> HIDE DEF old
      <3>1. left \in SUBSET Ids
        BY <2>2
      <3> HIDE DEF left
      <3>2. QED
        BY <2>2, <3>1, Unsending
    <2>4. saving'[t] = new
      BY <2>1 DEF IInv, Types
    <2> HIDE DEF new
    <2>5. /\ copy' = copy /\ scene' = scene /\ mirror' = mirror /\ known' = known
          /\ noted' = noted /\ missed' = missed /\ state' = state
          /\ current' = current /\ reading' = reading
      BY <1>2 DEF SendPicture, page
    <2>6. TimelessRead(current[t]) /\ TimelessRead(old.base)
      BY <2>1 DEF Accounted, NoClocks, TimelessSave
    <2>7. QED
      BY <2>1, <2>3, <2>4, <2>5, <2>6, GoesOnAccounted
  <1>3. CASE TakeBase(t)
    <2> DEFINE base == IF current[t] = Nothing THEN Stored ELSE current[t]
               new == [saving[t] EXCEPT !.base = base]
    <2>1. /\ saving[t] # Nothing /\ saving'[t] = new
          /\ current'[t] = current[t] \/ current'[t] = base
          /\ UNCHANGED <<copy, state, scene, mirror, known, noted, reading, missed>>
      BY <1>3 DEF TakeBase, store, page, IInv, Types
    <2>2. base \in Copies /\ TimelessRead(base) /\ TimelessRead(current[t])
      BY <1>1, StoredFacts, PageTypes DEF Accounted, NoClocks, TimelessRead
    <2> HIDE DEF base
    <2>3. /\ new.patch = saving[t].patch /\ new.settles = saving[t].settles
          /\ new.base = base /\ new.landed = saving[t].landed
      BY <2>1, <2>2, PageTypes, Based
    <2> HIDE DEF new
    <2>4. QED
      BY <2>1, <2>2, <2>3, GoesOnAccounted
  <1>4. CASE Fail(t)
    <2>1. /\ saving'[t] = Nothing
          /\ state'[t] = state[t] \/ (state[t] = "sharing" /\ state'[t] = "alone")
          /\ UNCHANGED <<copy, scene, mirror, known, noted, current, reading, missed>>
      BY <1>4 DEF Fail, store, page, IInv, Types
    <2>2. TimelessRead(current'[t])
      BY <2>1 DEF Accounted, NoClocks
    <2>3. QED
      BY <2>1, <2>2, GoesOnAccounted
  <1>5. CASE Read(t)
    <2>1. /\ state[t] = "shared" /\ reading'[t] = Stored
          /\ UNCHANGED <<copy, state, scene, mirror, known, noted, saving, current, missed>>
      BY <1>5 DEF Read, store, page, IInv, Types
    <2>2. TimelessRead(current'[t])
      BY <2>1 DEF Accounted, NoClocks
    <2>3. saving[t] = Nothing \/ TimelessRead(saving[t].base)
      BY DEF Accounted, NoClocks, TimelessSave
    <2>4. QED
      BY <2>1, <2>2, <2>3, GoesOnAccounted
  <1>6. CASE Put(t) /\ saving[t].base.rev # rev
    <2> DEFINE again == [saving[t] EXCEPT !.tries = @ + 1, !.base = Nothing]
    <2>1. /\ saving[t] # Nothing /\ current'[t] = Nothing
          /\ saving'[t] = Nothing \/ saving'[t] = again
          /\ UNCHANGED <<copy, state, scene, mirror, known, noted, reading, missed>>
      BY <1>6 DEF Put, page, Beaten, IInv, Types
    <2>2. /\ again.patch = saving[t].patch /\ again.settles = saving[t].settles
          /\ again.base = Nothing /\ again.landed = saving[t].landed
      BY <2>1, PageTypes, TriesAgain
    <2> HIDE DEF again
    <2>3. TimelessRead(Nothing)
      BY DEF TimelessRead
    <2>4. QED
      BY <2>1, <2>2, <2>3, GoesOnAccounted
  <1>7. QED
    BY <1>2, <1>3, <1>4, <1>5, <1>6

(* A write leaves its patch in the copy. *)
LEMMA PutBrings ==
    ASSUME IInv, NEW t \in Tabs, Put(t), saving[t].base.rev = rev,
           Timeless(copy), Accounted(t)
    PROVE  Timeless(copy') /\ Within(saving[t].patch, copy', Ids)
  <1> DEFINE patch == saving[t].patch
             merged == Merge(copy, patch)
  <1>1. saving[t] # Nothing /\ saving[t].base # Nothing /\ copy' = Merged(t)
    BY DEF Put
  <1>2. saving[t] \in Saves /\ SaveReady(saving[t], pictureOf[t], rev, copy, pictures)
    BY <1>1 DEF IInv, Types, SavesAreReady
  <1>3. /\ saving[t].base.elements = copy /\ patch \in Scene /\ copy \in Scene
        /\ Timeless(patch)
    BY <1>1, <1>2, PageTypes DEF SaveReady, Faithful, Accounted, NoClocks, TimelessSave
  <1>4. copy' = Refs(merged, t, copy)
    BY <1>1, <1>3 DEF Merged
  <1>5. pictureOf[t] \in [Ids -> Pictures \cup {NoPicture}]
    BY DEF IInv, Types
  <1> HIDE DEF patch
  <1>6. ASSUME NEW id \in Ids
        PROVE  /\ copy'[id] # Absent => copy'[id].updated = 0
               /\ Older(patch[id], copy'[id])
    <2>1. merged \in Scene /\ merged[id] = IF Takes(patch[id], copy[id]) THEN patch[id] ELSE copy[id]
      BY <1>3, MergeIsScene DEF Merge
    <2> HIDE DEF merged
    <2>2. patch[id] \in Entry /\ copy[id] \in Entry
      BY <1>3 DEF Scene
    <2>3. Older(patch[id], merged[id])
      BY <2>1, <2>2, OlderIsReflexive DEF Takes, Older
    <2>4. merged[id] # Absent => merged[id].updated = 0
      BY <1>3, <2>1 DEF Timeless
    <2>5. \/ copy'[id] = merged[id]
          \/ /\ merged[id] # Absent
             /\ copy'[id] \in Element
             /\ copy'[id].version = merged[id].version
             /\ copy'[id].versionNonce = merged[id].versionNonce
             /\ copy'[id].updated = merged[id].updated
      BY <1>3, <1>4, <1>5, <2>1, RefsFacts DEF LiveOf, IsLive
    <2>6. QED
      BY <2>3, <2>4, <2>5, ReconcileAssumption DEF Older, IsNewer
  <1>7. QED
    BY <1>6 DEF Timeless, Within, patch

LEMMA PutAccounted ==
    ASSUME IInv, NEW t \in Tabs, Put(t), saving[t].base.rev = rev, copy' \in Scene,
           Within(copy, copy', Ids), Timeless(copy), Accounted(t)
    PROVE  Accounted(t)'
  <1> DEFINE written == [rev |-> rev', elements |-> copy']
             old == saving[t]
             new == [old EXCEPT !.base = Nothing, !.landed = written]
  <1>1. /\ old # Nothing /\ saving'[t] = new /\ rev' = rev + 1
        /\ UNCHANGED <<state, scene, mirror, known, noted, current, reading, missed>>
    BY DEF Put, page, IInv, Types
  <1>2. Timeless(copy') /\ Within(old.patch, copy', Ids)
    BY PutBrings
  <1>3. written \in Copies
    <2>1. rev' \in Nat
      BY <1>1 DEF IInv, Types
    <2>2. QED
      BY <2>1 DEF Copies, Scene
  <1>4. old \in Saves /\ written.elements = copy'
    BY <1>1, PageTypes
  <1> HIDE DEF written, old
  <1>5. /\ new.patch = old.patch /\ new.settles = old.settles
        /\ new.base = Nothing /\ new.landed = written
    BY <1>3, <1>4, LandedAs
  <1> HIDE DEF new
  <1>6. NoClocks(t)'
    BY <1>1, <1>2, <1>4, <1>5
       DEF Accounted, NoClocks, TimelessSave, TimelessRead, old
  <1>7. MirrorIsLive(t)' /\ missed[t]' \subseteq Ids
    BY <1>1 DEF Accounted, MirrorIsLive
  <1>8. ReadIsBehind(t)'
    <2>1. reading[t] # Nothing => Within(reading[t].elements, copy', Ids)
      BY PageTypes, WithinLater DEF Accounted, ReadIsBehind
    <2>2. QED
      BY <1>1, <2>1 DEF Accounted, ReadIsBehind
  <1>9. KnownIsThere(t)'
    <2>1. Within(known[t], copy', Ids \ missed[t])
      BY PageTypes, WithinLater DEF Accounted, KnownIsThere
    <2>2. QED
      BY <1>1, <2>1 DEF KnownIsThere
  <1>10. NotedOrThere(t)'
    <2>1. state[t] \in {"shared", "closed"} =>
              Within(mirror[t], copy', Ids \ (missed[t] \cup noted[t]))
      BY PageTypes, WithinLater DEF Accounted, NotedOrThere
    <2>2. QED
      BY <1>1, <2>1 DEF Accounted, NotedOrThere
  <1>11. Brings(t)'
    <2>1. SaveBrings(old, state[t], mirror[t], copy', noted[t], missed[t])
      BY PageTypes, SaveBringsLater DEF Accounted, Brings, old
    <2>2. SaveBrings(new, state[t], mirror[t], copy', noted[t], missed[t])
      BY <1>1, <1>2, <1>5, <2>1 DEF SaveBrings
    <2>3. QED
      BY <1>1, <2>2 DEF Brings
  <1>12. QED
    BY <1>6, <1>7, <1>8, <1>9, <1>10, <1>11 DEF Accounted

(* What has landed is there: a note it settles, or all of the first copy.   *)
LEMMA LandedAccounted ==
    ASSUME IInv, NEW t \in Tabs, Landed(t), Accounted(t), missed \in [Tabs -> SUBSET Ids]
    PROVE  Accounted(t)'
  <1> DEFINE old == saving[t]
             patch == old.patch
  <1>1. /\ old # Nothing /\ old.landed # Nothing
        /\ saving'[t] = Nothing /\ current'[t] = old.landed
        /\ state'[t] = "shared"
        /\ UNCHANGED <<copy, scene, mirror, reading>>
    BY PageTypes DEF Landed, store, IInv, Types, SavesAreReady
  <1>2. /\ copy \in Scene /\ mirror[t] \in Scene /\ known[t] \in Scene /\ patch \in Scene
        /\ old.settles \in SUBSET Ids /\ noted[t] \in SUBSET Ids
    BY <1>1, PageTypes
  <1>3. \/ /\ state[t] = "sharing" /\ known'[t] = patch /\ noted'[t] = {}
           /\ missed'[t] = missed[t] \cup noted[t]
        \/ /\ state[t] = "shared" /\ known'[t] = Over(known[t], patch)
           /\ noted'[t] = noted[t] \ old.settles /\ missed'[t] = missed[t]
    <2>1. state[t] \in {"sharing", "shared"}
      BY <1>1, PageTypes
    <2>2. CASE state[t] = "sharing"
      BY <2>2 DEF Landed, IInv, Types
    <2>3. CASE state[t] = "shared"
      BY <2>3 DEF Landed, IInv, Types
    <2>4. QED
      BY <2>1, <2>2, <2>3
  <1>4. /\ Within(patch, copy, Ids)
        /\ state[t] = "shared" =>
              \A id \in old.settles \ missed[t] : \/ Older(mirror[t][id], copy[id])
                                                  \/ Older(mirror[t][id], patch[id])
        /\ state[t] = "sharing" => \A id \in Ids \ noted[t] : patch[id] = mirror[t][id]
    BY <1>1 DEF Accounted, Brings, SaveBrings
  <1>5. Timeless(patch) /\ TimelessRead(old.landed)
    BY <1>1 DEF Accounted, NoClocks, TimelessSave
  <1> HIDE DEF patch, old
  <1>6. NoClocks(t)'
    <2>1. Timeless(known'[t])
      BY <1>3, <1>5 DEF Accounted, NoClocks, Timeless, Over
    <2>2. QED
      BY <1>1, <1>5, <2>1 DEF Accounted, NoClocks, TimelessSave
  <1>7. MirrorIsLive(t)' /\ ReadIsBehind(t)' /\ missed[t]' \subseteq Ids
    BY <1>1, <1>2, <1>3 DEF Accounted, MirrorIsLive, ReadIsBehind
  <1>8. KnownIsThere(t)'
    <2>1. Within(Over(known[t], patch), copy, Ids \ missed[t])
      BY <1>4 DEF Accounted, KnownIsThere, Within, Over
    <2>2. QED
      BY <1>1, <1>3, <1>4, <2>1 DEF KnownIsThere, Within
  <1>9. NotedOrThere(t)'
    <2>1. ASSUME NEW id \in Ids, id \notin missed'[t], id \notin noted'[t]
          PROVE  Older(mirror[t][id], copy[id])
      <3>1. Older(patch[id], copy[id])
        BY <1>4 DEF Within
      <3>2. CASE state[t] = "sharing"
        BY <1>3, <1>4, <2>1, <3>1, <3>2
      <3>3. CASE state[t] = "shared"
        <4>1. id \notin missed[t] /\ (id \notin noted[t] \/ id \in old.settles)
          BY <1>3, <2>1, <3>3
        <4>2. CASE id \notin noted[t]
          BY <3>3, <4>1, <4>2 DEF Accounted, NotedOrThere, Within
        <4>3. CASE id \in old.settles
          <5>1. Older(mirror[t][id], copy[id]) \/ Older(mirror[t][id], patch[id])
            BY <1>4, <3>3, <4>1, <4>3
          <5>2. mirror[t][id] \in Entry /\ patch[id] \in Entry /\ copy[id] \in Entry
            BY <1>2 DEF Scene
          <5>3. QED
            BY <3>1, <5>1, <5>2, OlderIsTransitive
        <4>4. QED
          BY <4>1, <4>2, <4>3
      <3>4. QED
        BY <1>3, <3>2, <3>3
    <2>2. QED
      BY <1>1, <2>1 DEF NotedOrThere, Within
  <1>10. Brings(t)'
    BY <1>1 DEF Brings, SaveBrings
  <1>11. QED
    BY <1>6, <1>7, <1>8, <1>9, <1>10 DEF Accounted

(* What a catch-up brings is behind the copy. *)
LEMMA CaughtUpAccounted ==
    ASSUME IInv, NEW t \in Tabs, CaughtUp(t), Accounted(t)
    PROVE  Accounted(t)'
  <1> DEFINE found == reading[t].elements
             over == Over(mirror[t], found)
  <1>1. /\ reading[t] # Nothing /\ reading'[t] = Nothing
        /\ current'[t] = reading[t] \/ current'[t] = current[t]
        /\ \/ scene'[t] = Merge(scene[t], found) /\ mirror'[t] = Live(over)
           \/ scene'[t] = scene[t] /\ mirror'[t] = mirror[t]
        /\ UNCHANGED <<copy, state, known, noted, saving, missed>>
    BY DEF CaughtUp, ReadCopy, store, IInv, Types
  <1>2. /\ copy \in Scene /\ scene[t] \in Scene /\ mirror[t] \in Scene /\ found \in Scene
    BY <1>1, PageTypes
  <1>3. /\ state[t] = "shared" /\ Within(found, copy, Ids) /\ Timeless(found)
        /\ Timeless(scene[t]) /\ Timeless(mirror[t])
    BY <1>1 DEF Accounted, ReadIsBehind, NoClocks, TimelessRead
  <1> HIDE DEF found
  <1>4. ASSUME NEW id \in Ids
        PROVE  /\ mirror'[t][id] = Absent \/ LiveOf(mirror'[t], id)
               /\ mirror'[t][id] # Absent => mirror'[t][id].updated = 0
               /\ scene'[t][id] # Absent => scene'[t][id].updated = 0
               /\ mirror'[t][id] = mirror[t][id] \/ Older(mirror'[t][id], copy[id])
    <2>1. CASE scene'[t] = scene[t] /\ mirror'[t] = mirror[t]
      BY <1>3, <2>1 DEF Accounted, MirrorIsLive, Timeless
    <2>2. CASE scene'[t] = Merge(scene[t], found) /\ mirror'[t] = Live(over)
      <3>1. scene'[t][id] # Absent => scene'[t][id].updated = 0
        BY <1>3, <2>2 DEF Merge, Timeless
      <3>2. mirror'[t][id] = IF LiveOf(over, id) THEN over[id] ELSE Absent
        BY <2>2 DEF Live
      <3>3. over[id] = IF found[id] = Absent THEN mirror[t][id] ELSE found[id]
        BY DEF Over
      <3> HIDE DEF over
      <3>4. mirror'[t][id] = Absent \/ (LiveOf(mirror'[t], id) /\ mirror'[t][id] = over[id])
        BY <3>2 DEF LiveOf
      <3>5. over[id] # Absent => over[id].updated = 0
        BY <1>3, <3>3 DEF Timeless
      <3>6. Older(over[id], copy[id]) \/ over[id] = mirror[t][id]
        BY <1>3, <3>3 DEF Within
      <3>7. QED
        BY <3>1, <3>4, <3>5, <3>6 DEF Older
    <2>3. QED
      BY <1>1, <2>1, <2>2
  <1>5. NoClocks(t)'
    <2>1. TimelessRead(current'[t]) /\ TimelessRead(reading'[t])
      BY <1>1 DEF Accounted, NoClocks, TimelessRead
    <2>2. Timeless(scene'[t]) /\ Timeless(mirror'[t])
      BY <1>4 DEF Timeless
    <2>3. QED
      BY <1>1, <2>1, <2>2 DEF Accounted, NoClocks
  <1>6. MirrorIsLive(t)' /\ ReadIsBehind(t)' /\ KnownIsThere(t)' /\ missed[t]' \subseteq Ids
    BY <1>1, <1>4 DEF Accounted, MirrorIsLive, ReadIsBehind, KnownIsThere
  <1>7. NotedOrThere(t)'
    BY <1>1, <1>3, <1>4 DEF Accounted, NotedOrThere, Within
  <1>8. Brings(t)'
    <2> SUFFICES ASSUME saving[t] # Nothing
                 PROVE  SaveBrings(saving[t], state[t], mirror'[t], copy, noted[t], missed[t])
      BY <1>1 DEF Brings, SaveBrings
    <2>1. saving[t].settles \in SUBSET Ids
      BY PageTypes
    <2>2. SaveBrings(saving[t], state[t], mirror[t], copy, noted[t], missed[t])
      BY DEF Accounted, Brings
    <2>3. QED
      BY <1>3, <1>4, <2>1, <2>2 DEF SaveBrings
  <1>9. QED
    BY <1>5, <1>6, <1>7, <1>8 DEF Accounted

LEMMA OpenLinkAccounted ==
    ASSUME IInv, NEW t \in Tabs, OpenLink(t), Timeless(copy), Accounted(t)
    PROVE  Accounted(t)'
  <1>1. /\ state[t] = "away" /\ state'[t] = "shared"
        /\ scene'[t] = copy /\ mirror'[t] = Live(copy) /\ known'[t] = copy
        /\ current'[t] = Stored \/ current'[t] = current[t]
        /\ UNCHANGED <<copy, noted, saving, reading, missed>>
    BY DEF OpenLink, ReadCopy, store, IInv, Types
  <1>2. saving[t] = Nothing /\ reading[t] = Nothing
    BY <1>1, PageTypes DEF Accounted, ReadIsBehind
  <1>3. copy \in Scene /\ Stored.elements = copy
    BY PageTypes DEF Stored
  <1>4. ASSUME NEW id \in Ids
        PROVE  /\ Older(copy[id], copy[id])
               /\ \/ Live(copy)[id] = Absent
                  \/ LiveOf(Live(copy), id) /\ Live(copy)[id] = copy[id]
    BY <1>3, OlderIsReflexive DEF Scene, Live, LiveOf
  <1>5. NoClocks(t)'
    <2>1. TimelessRead(current'[t])
      BY <1>1, <1>3 DEF Accounted, NoClocks, TimelessRead
    <2>2. Timeless(Live(copy))
      BY <1>4 DEF Timeless
    <2>3. QED
      BY <1>1, <1>2, <2>1, <2>2 DEF Accounted, NoClocks
  <1>6. MirrorIsLive(t)' /\ ReadIsBehind(t)' /\ missed[t]' \subseteq Ids
    BY <1>1, <1>2, <1>4 DEF Accounted, MirrorIsLive, ReadIsBehind
  <1>7. KnownIsThere(t)' /\ NotedOrThere(t)'
    <2>1. Within(copy, copy, Ids \ missed[t])
          /\ Within(Live(copy), copy, Ids \ (missed[t] \cup noted[t]))
      BY <1>4 DEF Within, Older
    <2>2. QED
      BY <1>1, <2>1 DEF KnownIsThere, NotedOrThere
  <1>8. Brings(t)'
    BY <1>1, <1>2 DEF Brings, SaveBrings
  <1>9. QED
    BY <1>5, <1>6, <1>7, <1>8 DEF Accounted

LEMMA CloseAccounted ==
    ASSUME IInv, NEW t \in Tabs, Close(t), Accounted(t), missed \in [Tabs -> SUBSET Ids]
    PROVE  Accounted(t)'
  <1>1. /\ state[t] = "shared" /\ state'[t] = "closed"
        /\ missed'[t] = missed[t] \cup noted[t] /\ noted'[t] = {}
        /\ saving'[t] = Nothing /\ reading'[t] = Nothing
        /\ UNCHANGED <<copy, scene, mirror, known, current>>
    BY DEF Close, store, IInv, Types
  <1>2. NoClocks(t)'
    BY <1>1 DEF Accounted, NoClocks, TimelessSave, TimelessRead
  <1>3. MirrorIsLive(t)' /\ ReadIsBehind(t)' /\ missed[t]' \subseteq Ids
    BY <1>1, PageTypes DEF Accounted, MirrorIsLive, ReadIsBehind
  <1>4. KnownIsThere(t)' /\ NotedOrThere(t)'
    BY <1>1 DEF Accounted, KnownIsThere, NotedOrThere, Within
  <1>5. Brings(t)'
    BY <1>1 DEF Brings, SaveBrings
  <1>6. QED
    BY <1>2, <1>3, <1>4, <1>5 DEF Accounted

LEMMA ReopenAccounted ==
    ASSUME IInv, NEW t \in Tabs, Reopen(t), Accounted(t)
    PROVE  Accounted(t)'
  <1>1. /\ state[t] = "closed" /\ state'[t] = "shared"
        /\ scene'[t] = mirror[t] /\ known'[t] = mirror[t] /\ current'[t] = Nothing
        /\ UNCHANGED <<copy, mirror, noted, saving, reading, missed>>
    BY DEF Reopen, store, IInv, Types
  <1>2. saving[t] = Nothing /\ noted[t] = {} /\ reading[t] = Nothing
    BY <1>1, PageTypes DEF Accounted, NotedOrThere, ReadIsBehind
  <1>3. NoClocks(t)'
    BY <1>1, <1>2 DEF Accounted, NoClocks, TimelessRead
  <1>4. MirrorIsLive(t)' /\ ReadIsBehind(t)' /\ missed[t]' \subseteq Ids
    BY <1>1, <1>2 DEF Accounted, MirrorIsLive, ReadIsBehind
  <1>5. KnownIsThere(t)' /\ NotedOrThere(t)'
    BY <1>1, <1>2 DEF Accounted, KnownIsThere, NotedOrThere, Within
  <1>6. Brings(t)'
    BY <1>1, <1>2 DEF Brings, SaveBrings
  <1>7. QED
    BY <1>3, <1>4, <1>5, <1>6 DEF Accounted

-----------------------------------------------------------------------------
LEMMA InitAccounted == Init => EInv
  <1> SUFFICES ASSUME Init PROVE EInv
    OBVIOUS
  <1>1. PICK ids \in Boards, nonce \in Nonces[Sharer] :
            scene = [t \in Tabs |->
                [id \in Ids |-> IF t = Sharer /\ id \in ids THEN Drawn(id, nonce) ELSE Absent]]
    BY DEF Init
  <1>2. \A t \in Tabs, id \in Ids :
            scene[t][id] = IF t = Sharer /\ id \in ids THEN Drawn(id, nonce) ELSE Absent
    BY <1>1
  <1>3. \A id \in Ids : Drawn(id, nonce).updated = 0 /\ IsLive(Drawn(id, nonce))
    <2>1. nonce \in Nat
      BY NonceType, OnlineCopyAssumption
    <2>2. \A id \in Ids : Drawn(id, nonce) \in Element /\ ~Drawn(id, nonce).isDeleted
      BY <2>1, DrawnFacts
    <2>3. QED
      BY <2>2, ReconcileAssumption DEF IsLive, Drawn
  <1>4. /\ copy = None /\ mirror = scene
        /\ missed = [t \in Tabs |-> {}] /\ noted = [t \in Tabs |-> {}]
        /\ state = [t \in Tabs |-> IF t = Sharer THEN "alone" ELSE "away"]
        /\ known = [t \in Tabs |-> None]
        /\ saving = [t \in Tabs |-> Nothing] /\ current = [t \in Tabs |-> Nothing]
        /\ reading = [t \in Tabs |-> Nothing]
    BY DEF Init, Everyone
  <1>5. \A id \in Ids : None[id] = Absent
    BY DEF None
  <1>6. ASSUME NEW t \in Tabs
        PROVE  Accounted(t)
    <2>1. NoClocks(t)
      BY <1>2, <1>3, <1>4, <1>5 DEF NoClocks, Timeless, TimelessRead, TimelessSave
    <2>2. MirrorIsLive(t)
      BY <1>2, <1>3, <1>4 DEF MirrorIsLive, LiveOf
    <2>3. ReadIsBehind(t) /\ NotedOrThere(t) /\ Brings(t) /\ missed[t] \subseteq Ids
      BY <1>4 DEF ReadIsBehind, NotedOrThere, Brings, SaveBrings
    <2>4. KnownIsThere(t)
      BY <1>4, <1>5 DEF KnownIsThere, Within, Older
    <2>5. QED
      BY <2>1, <2>2, <2>3, <2>4 DEF Accounted
  <1>7. QED
    BY <1>4, <1>5, <1>6 DEF EInv, Timeless

LEMMA StepAccounted == IInv /\ IInv' /\ EInv /\ [Next]_vars => EInv'
  <1> SUFFICES ASSUME IInv, IInv', EInv, [Next]_vars PROVE EInv'
    OBVIOUS
  <1>1. copy' \in Scene /\ Within(copy, copy', Ids)
    BY CopyMoves DEF IInv, Types
  <1>2. Timeless(copy) /\ missed \in [Tabs -> SUBSET Ids] /\ \A u \in Tabs : Accounted(u)
    BY DEF EInv
  <1>3. CASE UNCHANGED vars
    <2>1. \A u \in Tabs : Untouched(u) /\ copy' = copy /\ missed' = missed
      BY <1>3 DEF vars, store, page, client, Untouched
    <2>2. \A u \in Tabs : Accounted(u)'
      BY <1>1, <1>2, <2>1, UntouchedKeeps
    <2>3. copy' = copy /\ missed' = missed
      BY <1>3 DEF vars, store
    <2>4. QED
      BY <1>2, <2>2, <2>3 DEF EInv
  <1>4. CASE Next
    <2>1. PICK t \in Tabs :
            \/ \E id \in Ids : Draw(t, id) \/ Edit(t, id) \/ Erase(t, id)
            \/ Share(t) \/ Proceeds(t) \/ Fail(t) \/ Read(t)
            \/ OpenLink(t) \/ Close(t) \/ Reopen(t)
      BY <1>4 DEF Next
    <2>2. CASE \E id \in Ids : Draw(t, id) \/ Edit(t, id) \/ Erase(t, id)
      <3>1. \A u \in Tabs \ {t} : Untouched(u)
        <4>1. PICK id \in Ids : \E e : Changed(t, id, e)
          BY <2>2 DEF Draw, Edit, Erase
        <4>2. QED
          BY <4>1 DEF Changed, Untouched, IInv, Types
      <3>2. copy' = copy /\ missed' = missed
        BY <2>2 DEF Draw, Edit, Erase, Changed, store
      <3>3. Accounted(t)'
        BY <1>2, <2>2, EditAccounted
      <3>4. QED
        BY <1>1, <1>2, <3>1, <3>2, <3>3, UntouchedKeeps DEF EInv
    <2>3. CASE Share(t) \/ StartSave(t)
      <3>1. \A u \in Tabs \ {t} : Untouched(u)
        BY <2>3 DEF Share, StartSave, Untouched, IInv, Types
      <3>2. copy' = copy /\ missed' = missed
        BY <2>3 DEF Share, StartSave, store
      <3>3. Accounted(t)'
        BY <1>2, <2>3, ShareAccounted, StartSaveAccounted
      <3>4. QED
        BY <1>1, <1>2, <3>1, <3>2, <3>3, UntouchedKeeps DEF EInv
    <2>4. CASE \/ SendPicture(t) \/ TakeBase(t) \/ Fail(t) \/ Read(t)
               \/ Put(t) /\ saving[t].base.rev # rev
      <3>1. \A u \in Tabs \ {t} : Untouched(u)
        BY <2>4 DEF SendPicture, TakeBase, Fail, Read, Put, page, Untouched, IInv, Types
      <3>2. copy' = copy /\ missed' = missed
        BY <2>4 DEF SendPicture, TakeBase, Fail, Read, Put, store
      <3>3. Accounted(t)'
        BY <1>2, <2>4, WaitAccounted
      <3>4. QED
        BY <1>1, <1>2, <3>1, <3>2, <3>3, UntouchedKeeps DEF EInv
    <2>5. CASE Put(t) /\ saving[t].base.rev = rev
      <3>1. \A u \in Tabs \ {t} : Untouched(u)
        BY <2>5 DEF Put, page, Untouched, IInv, Types
      <3>2. Timeless(copy') /\ missed' = missed
        BY <1>2, <2>5, PutBrings DEF Put
      <3>3. Accounted(t)'
        BY <1>1, <1>2, <2>5, PutAccounted
      <3>4. QED
        BY <1>1, <1>2, <3>1, <3>2, <3>3, UntouchedKeeps DEF EInv
    <2>6. CASE Landed(t) \/ Close(t)
      <3>1. \A u \in Tabs \ {t} : Untouched(u)
        BY <1>2, <2>6 DEF Landed, Close, store, Untouched, IInv, Types
      <3>2. copy' = copy
        BY <2>6 DEF Landed, Close, store
      <3>3. missed' \in [Tabs -> SUBSET Ids]
        BY <1>2, <2>6 DEF Landed, Close, IInv, Types
      <3>4. Accounted(t)'
        BY <1>2, <2>6, LandedAccounted, CloseAccounted
      <3>5. QED
        BY <1>1, <1>2, <3>1, <3>2, <3>3, <3>4, UntouchedKeeps DEF EInv
    <2>7. CASE CaughtUp(t) \/ OpenLink(t) \/ Reopen(t)
      <3>1. \A u \in Tabs \ {t} : Untouched(u)
        BY <2>7 DEF CaughtUp, OpenLink, ReadCopy, Reopen, store, Untouched, IInv, Types
      <3>2. copy' = copy /\ missed' = missed
        BY <2>7 DEF CaughtUp, OpenLink, Reopen, store
      <3>3. Accounted(t)'
        BY <1>2, <2>7, CaughtUpAccounted, OpenLinkAccounted, ReopenAccounted
      <3>4. QED
        BY <1>1, <1>2, <3>1, <3>2, <3>3, UntouchedKeeps DEF EInv
    <2>8. QED
      BY <2>1, <2>2, <2>3, <2>4, <2>5, <2>6, <2>7 DEF Proceeds
  <1>5. QED
    BY <1>3, <1>4

(* Of every element, its page's saver knows where it is. *)
THEOREM EditsAreAccountedFor == Spec => []EInv
  BY BeliefsHold, InitAccounted, StepAccounted, PTL DEF Spec

(* A saver with nothing left to do has brought every element of its page    *)
(* into the copy, for any number of pages, edits, conflicts and failures.   *)
THEOREM EditsAlwaysReachCopy == Spec => []EditsReachCopy
  <1>1. ASSUME IInv, EInv, NEW t \in Tabs, state[t] = "shared", Quiet(t),
               NEW id \in Ids \ (missed[t] \cup Shadowed(t))
        PROVE  HasOwn(t, id)
    <2>1. Older(mirror[t][id], copy[id])
      BY <1>1 DEF EInv, Accounted, NotedOrThere, Within, Quiet
    <2>2. LiveOf(scene[t], id) => mirror[t][id] = scene[t][id] /\ scene[t][id] # Absent
      BY <1>1 DEF Shadowed, Live, LiveOf, IsLive
    <2>3. QED
      BY <2>1, <2>2 DEF HasOwn, Older
  <1>2. IInv /\ EInv => EditsReachCopy
    BY <1>1 DEF EditsReachCopy
  <1>3. QED
    BY <1>2, BeliefsHold, EditsAreAccountedFor, PTL
=============================================================================
