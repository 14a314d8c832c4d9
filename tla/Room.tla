-------------------------------- MODULE Room --------------------------------
(***************************************************************************)
(* Who is in the room, and who holds which element: the pages' live link   *)
(* (realtime/realtimeClient.ts, peerClaims.ts, and DrawSurface.svelte,     *)
(* which hands both to the engine), the relay that passes their frames on  *)
(* (packages/relay/src/relay.ts), and the object it lives in (worker.ts),  *)
(* which the runtime puts to sleep between two messages.                   *)
(*                                                                         *)
(* A frame reaches the relay in the step that sends it: one that is lost   *)
(* before was sent on a link already dead.  Sealed frames are opened in    *)
(* any order, the relay's own at once.  One topic; what a patch carries is *)
(* LiveScene's.  Cursors, previews and slides shown are left out.          *)
(***************************************************************************)
EXTENDS Naturals, Sequences
LOCAL INSTANCE SequencesExt

CONSTANTS
    Pages,           \* the pages' client ids, compared as JavaScript compares them
    Elements,
    Clock,           \* [page -> what its clock may read]: no two need agree
    MaxActs,         \* bound: selections changed
    MaxLinks,        \* bound: sockets a page opens
    MaxBreaks,       \* bound: links that die, and pages that leave
    MaxBacklog       \* bound: frames a page may have to open when a user acts

ASSUME RoomAssumption ==
    /\ Pages \subseteq Nat /\ Clock \in [Pages -> SUBSET (Nat \ {0})]
    /\ {MaxActs, MaxBreaks, MaxBacklog} \subseteq Nat /\ MaxLinks \in Nat \ {0}

VARIABLES
    link,        \* [page -> "down", "opening", "ready" or "left"]
    socket,      \* [page -> the number of its socket]
    alive,       \* [page -> that socket still carries frames]
    name,        \* [page -> the socket the server named last, 0 if forgotten]
    claims,      \* [page -> [element -> when its user took it, 0 if not]]
    peers,       \* [page -> [page -> what it knows of that one, or Stranger]]
    pending,     \* [page -> the presence kept until the link is ready]
    inbox,       \* [page -> frames that reached it]
    memory,      \* [socket -> its connection, as the relay had it in memory]
    attachment,  \* [socket -> its connection, as the socket itself carries it]
    reported,    \* the sockets the runtime has reported closed
    acts, breaks,
    subscribed,  \* history: the sockets that were subscribed
    announced    \* history: [socket -> how often it was announced gone]

client == <<link, socket, alive, name, claims, peers, pending>>
relay == <<memory, attachment, reported>>
bounds == <<acts, breaks>>
history == <<subscribed, announced>>
vars == <<client, inbox, relay, bounds, history>>

Sockets == Pages \X (1 .. MaxLinks)
Socket(p) == <<p, socket[p]>>
NoClaims == [e \in Elements |-> 0]
Stranger == [known |-> FALSE, claims |-> NoClaims, socket |-> 0]
Nobody == [p \in Pages |-> Stranger]
Everyone(f) == [p \in Pages |-> f]

(* Some pages are in the room, and know each other; the others are still to *)
(* come.                                                                    *)
Init ==
    \E here \in (SUBSET Pages) \ {{}} :
        LET connections == [s \in Sockets |-> IF s[1] \in here /\ s[2] = 1
                                             THEN "subscribed" ELSE "none"] IN
        /\ link = [p \in Pages |-> IF p \in here THEN "ready" ELSE "down"]
        /\ socket = [p \in Pages |-> IF p \in here THEN 1 ELSE 0]
        /\ alive = [p \in Pages |-> p \in here]
        /\ name = socket /\ claims = Everyone(NoClaims)
        /\ peers = [p \in Pages |-> [q \in Pages |->
                        IF p # q /\ {p, q} \subseteq here
                        THEN [Stranger EXCEPT !.known = TRUE, !.socket = 1] ELSE Stranger]]
        /\ pending = Everyone(<<>>) /\ inbox = Everyone(<<>>)
        /\ memory = connections /\ attachment = connections
        /\ reported = {}
        /\ acts = 0 /\ breaks = 0
        /\ subscribed = here \X {1} /\ announced = [s \in Sockets |-> 0]

-----------------------------------------------------------------------------
(* The relay, and the object around it. *)

(* What the relay knows when its next event comes.  The runtime may have    *)
(* evicted the object since the last one: it is then given the sockets that *)
(* still carry frames, each with its connection, and nothing else.          *)
Carries(s) == s = Socket(s[1]) /\ alive[s[1]]
Restored == [s \in Sockets |-> IF Carries(s) THEN attachment[s] ELSE "none"]
Connections == {memory, Restored}

(* publish(), close(): to every other connection on the drawing.  What is   *)
(* sent to a socket that carries nothing is gone.                           *)
ToOthers(connections, s, frames, queues) ==
    [q \in Pages |-> IF /\ Socket(q) # s /\ alive[q]
                        /\ connections[Socket(q)] = "subscribed"
                     THEN queues[q] \o frames ELSE queues[q]]

(* serializeAttachment: the socket carries its connection through a sleep. *)
CarryingAtFirst(s, connection) ==   \* fault: what SUBSCRIBE changed is not written back
    IF connection = "subscribed" THEN attachment ELSE [attachment EXCEPT ![s] = connection]

Carrying(s, connection) == [attachment EXCEPT ![s] = connection]

(* openSocket, and fetch: a new connection, carried by its socket. *)
Accept(p) ==
    /\ link[p] = "down" /\ socket[p] < MaxLinks
    /\ LET s == <<p, socket[p] + 1>> IN
          /\ \E now \in Connections : memory' = [now EXCEPT ![s] = "opened"]
          /\ attachment' = Carrying(s, "opened")
    /\ socket' = [socket EXCEPT ![p] = @ + 1]
    /\ link' = [link EXCEPT ![p] = "opening"]
    /\ alive' = [alive EXCEPT ![p] = TRUE]
    /\ name' = [name EXCEPT ![p] = 0]
    /\ UNCHANGED <<claims, peers, pending, inbox, reported, bounds, history>>

-----------------------------------------------------------------------------
(* What a page sends. *)
Presence(p, held, named) ==
    [type |-> "presence", from |-> p, claims |-> held, socket |-> named]
Frame(type, p) == [type |-> type, from |-> p]
PresenceNow(p) == Presence(p, claims[p], name[p])

(* send() keeps the latest presence while the link is not ready.  "rest":    *)
(* the inboxes, without what the page has just opened.                      *)
Sends(p, frames, rest) ==
    IF link[p] # "ready"
    THEN /\ pending' = [pending EXCEPT ![p] =
                           IF frames = <<>> THEN @ ELSE <<frames[Len(frames)]>>]
         /\ inbox' = rest /\ UNCHANGED relay
    ELSE /\ UNCHANGED pending
         /\ IF alive[p] /\ frames # <<>>
            THEN /\ memory' \in Connections /\ UNCHANGED <<attachment, reported>>
                 /\ inbox' = IF memory'[Socket(p)] = "subscribed"
                             THEN ToOthers(memory', Socket(p), frames, rest) ELSE rest
            ELSE inbox' = rest /\ UNCHANGED relay

(* AUTH, and AUTH_OK, which names the socket; SUBSCRIBE, and SUBSCRIBED: the *)
(* presence that was kept goes out, then the join and what the page holds.  *)
Subscribe(p) ==
    /\ link[p] = "opening" /\ alive[p]
    /\ attachment' = Carrying(Socket(p), "subscribed")
    /\ \E now \in Connections :
          LET frames == Append(pending[p], Frame("join", p)) IN
          /\ now[Socket(p)] = "opened"
          /\ memory' = [now EXCEPT ![Socket(p)] = "subscribed"]
          /\ inbox' = ToOthers(memory', Socket(p),
                               Append(frames, Presence(p, claims[p], socket[p])), inbox)
    /\ name' = [name EXCEPT ![p] = socket[p]]
    /\ link' = [link EXCEPT ![p] = "ready"]
    /\ pending' = [pending EXCEPT ![p] = <<>>]
    /\ subscribed' = subscribed \cup {Socket(p)}
    /\ UNCHANGED <<socket, alive, claims, peers, reported, bounds, announced>>

-----------------------------------------------------------------------------
(* Holds. *)

(* "a" beats "b" for an element: the earlier claim, the smaller id on a tie. *)
OutranksInTime(a, at, b, bt) == at < bt   \* fault: nobody wins a tie

Outranks(a, at, b, bt) == at < bt \/ (at = bt /\ a < b)

(* resolvePeers, and the engine, which lets go of what it is told a peer    *)
(* holds.                                                                   *)
Kept(p, view, held) ==
    [e \in Elements |->
        IF \E q \in Pages : /\ view[q].claims[e] # 0
                            /\ Outranks(q, view[q].claims[e], p, held[e])
        THEN 0 ELSE held[e]]

HeldByPeer(p, e) == \E q \in Pages : peers[p][q].claims[e] # 0

(* A user does something. *)
Acts ==
    /\ \A p \in Pages : Len(inbox[p]) < MaxBacklog
    /\ acts < MaxActs /\ acts' = acts + 1

(* claimSelected with another selection. *)
Selects(p, held) ==
    /\ Acts
    /\ claims' = [claims EXCEPT ![p] = held]
    /\ Sends(p, <<Presence(p, held, name[p])>>, inbox)
    /\ UNCHANGED <<link, socket, alive, name, peers, breaks, history>>

(* The engine takes nothing a peer is known to hold. *)
Take(p, e) ==
    /\ link[p] # "left" /\ claims[p][e] = 0 /\ ~HeldByPeer(p, e)
    /\ \E now \in Clock[p] : Selects(p, [claims[p] EXCEPT ![e] = now])

Release(p, e) == claims[p][e] # 0 /\ Selects(p, [claims[p] EXCEPT ![e] = 0])

-----------------------------------------------------------------------------
(* What a page hears. *)

(* The page's peers become "view", the engine is told, and lets go of what  *)
(* another holds; then the page answers.                                    *)
Sees(p, view, answers, rest) ==
    LET held == Kept(p, view, claims[p])
        news == IF held = claims[p] THEN <<>> ELSE <<Presence(p, held, name[p])>>
        said == [k \in DOMAIN answers |-> Presence(p, held, name[p])] IN
    /\ peers' = [peers EXCEPT ![p] = view]
    /\ claims' = [claims EXCEPT ![p] = held]
    /\ Sends(p, news \o said, rest)

(* withSocket: a frame that names no socket leaves the one that is known. *)
After(known, f) ==
    CASE f.type = "join" -> [known EXCEPT !.known = TRUE]
      [] f.type = "presence" -> [known EXCEPT !.known = TRUE, !.claims = f.claims,
                                 !.socket = IF f.socket = 0 THEN @ ELSE f.socket]

(* "gone": everyone who said that was their socket is forgotten. *)
Without(view, s) ==
    [q \in Pages |-> IF q = s[1] /\ view[q].known /\ view[q].socket = s[2]
                     THEN Stranger ELSE view[q]]

(* A join is answered with presence, a stranger's or not. *)
Heard(p, f, rest) ==
    IF f.type = "gone" THEN Sees(p, Without(peers[p], f.socket), <<>>, rest)
    ELSE Sees(p, [peers[p] EXCEPT ![f.from] = After(@, f)],
              IF f.type = "join" THEN <<f>> ELSE <<>>, rest)

Hear(p) ==
    /\ link[p] # "left"
    /\ \E i \in DOMAIN inbox[p] :
          /\ \A j \in 1 .. i - 1 : inbox[p][j].type # "gone"
          /\ Heard(p, inbox[p][i], [inbox EXCEPT ![p] = RemoveAt(@, i)])
    /\ UNCHANGED <<link, socket, alive, name, bounds, history>>

(* sendPresence, every 15 seconds: time enough for the page's last frames   *)
(* to be heard.  One that tells nobody anything new is left out.            *)
Known(p, q) == peers[q][p].known /\ peers[q][p].claims = claims[p]
               /\ peers[q][p].socket = name[p]

Quiet(p, q) == \A i \in DOMAIN inbox[q] : inbox[q][i].type # "gone" /\ inbox[q][i].from # p

Together(p, q) == p # q /\ \A r \in {p, q} : link[r] = "ready" /\ alive[r]

Heartbeat(p) ==
    /\ \E q \in Pages : Together(p, q) /\ ~Known(p, q)
    /\ \A q \in Pages : Together(p, q) => Quiet(p, q)
    /\ Sends(p, <<PresenceNow(p)>>, inbox)
    /\ UNCHANGED <<link, socket, alive, name, claims, peers, bounds, history>>

(* sweepStalePeers: nothing was heard of the peer for 45 seconds. *)
SweepOfOthers(p, q) ==   \* fault: who named a socket is left to its being gone
    /\ link[p] # "left" /\ peers[p][q].socket = 0 /\ peers[p][q].known /\ ~Together(p, q)
    /\ Sees(p, [peers[p] EXCEPT ![q] = Stranger], <<>>, inbox)
    /\ UNCHANGED <<link, socket, alive, name, bounds, history>>

Sweep(p, q) ==
    /\ link[p] # "left" /\ peers[p][q].known /\ ~Together(p, q)
    /\ Sees(p, [peers[p] EXCEPT ![q] = Stranger], <<>>, inbox)
    /\ UNCHANGED <<link, socket, alive, name, bounds, history>>

-----------------------------------------------------------------------------
(* Links lost. *)

(* The link carries nothing any more; neither end knows. *)
Die(p) ==
    /\ breaks < MaxBreaks /\ breaks' = breaks + 1
    /\ alive[p] /\ alive' = [alive EXCEPT ![p] = FALSE]
    /\ UNCHANGED <<link, socket, name, claims, peers, pending, inbox, relay, acts, history>>

(* lost: what had reached the page is still being opened. *)
Lost(p) ==
    /\ link[p] \in {"opening", "ready"} /\ ~alive[p]
    /\ link' = [link EXCEPT ![p] = "down"]
    /\ peers' = [peers EXCEPT ![p] = Nobody]
    /\ \E k \in 0 .. Len(inbox[p]) :
          /\ \A j \in 1 .. k : inbox[p][j].type # "gone"
          /\ inbox' = [inbox EXCEPT ![p] = SubSeq(@, 1, k)]
    /\ UNCHANGED <<socket, alive, name, claims, pending, relay, bounds, history>>

(* disconnect: its "leave" is sealed first, and by then the link is no      *)
(* longer ready, so that it is never sent: only the socket's closing tells. *)
Leave(p) ==
    /\ link[p] # "left" /\ breaks < MaxBreaks /\ breaks' = breaks + 1
    /\ link' = [link EXCEPT ![p] = "left"]
    /\ alive' = [alive EXCEPT ![p] = FALSE]
    /\ claims' = [claims EXCEPT ![p] = NoClaims]
    /\ peers' = [peers EXCEPT ![p] = Nobody]
    /\ pending' = [pending EXCEPT ![p] = <<>>]
    /\ inbox' = [inbox EXCEPT ![p] = <<>>]
    /\ name' = [name EXCEPT ![p] = 0]
    /\ UNCHANGED <<socket, relay, acts, history>>

(* forget: the runtime reports a socket closed, perhaps more than once, its *)
(* error first.  Its connection is taken from the socket itself, as the     *)
(* relay may just have been woken without it.                               *)
ClosingKnown(now, s) == now[s]   \* fault: a woken relay does not know who closed

Closing(now, s) == attachment[s]

Forget(s) ==
    /\ s[2] <= socket[s[1]] /\ ~Carries(s)
    /\ reported' = reported \cup {s}
    /\ attachment' = Carrying(s, "none")
    /\ \E now \in Connections :
          /\ memory' = [now EXCEPT ![s] = "none"]
          /\ IF Closing(now, s) = "subscribed"
             THEN /\ inbox' = ToOthers(now, s, <<[type |-> "gone", socket |-> s]>>, inbox)
                  /\ announced' = [announced EXCEPT ![s] = @ + 1]
             ELSE UNCHANGED <<inbox, announced>>
    /\ UNCHANGED <<client, bounds, subscribed>>

-----------------------------------------------------------------------------
(* What the pages do by themselves: without the users, links that die, and  *)
(* what the runtime reports.                                                *)
Proceeds ==
    \E p \in Pages :
        \/ Accept(p) \/ Subscribe(p)
        \/ Hear(p) \/ Heartbeat(p) \/ Lost(p)
        \/ \E q \in Pages : Sweep(p, q)

Next ==
    \/ Proceeds
    \/ \E s \in Sockets : Forget(s)
    \/ \E p \in Pages :
          \/ Die(p) \/ Leave(p)
          \/ \E e \in Elements : Take(p, e) \/ Release(p, e)

Spec == Init /\ [][Next]_vars

(* Timers fire and frames arrive: sockets are reopened, a dead link is      *)
(* noticed, heartbeats and sweeps come round.                               *)
FairSpec == Spec /\ WF_vars(Proceeds)

-----------------------------------------------------------------------------
(* A connection that closes is announced gone to the drawing once, however  *)
(* often the runtime reports it and whether or not the report is what woke  *)
(* the object (relay.ts close, worker.ts forget).                           *)
GoneOnce ==
    \A s \in subscribed : announced[s] = IF s \in reported THEN 1 ELSE 0

(* A page that takes its link for ready is on the relay's list, however     *)
(* often the object slept meanwhile.  The runtime answers pings by itself,  *)
(* so that a page left off it would never find out (worker.ts).             *)
ReadyIsHeard ==
    \A p \in Pages : link[p] = "ready" /\ alive[p] =>
        \A now \in Connections : now[Socket(p)] = "subscribed"

(* Two pages that reach for one element come to agree who holds it: the     *)
(* rule is applied by each alone, to claims stamped by different clocks,    *)
(* heard late, in any order, or not at all (peerClaims.ts).                 *)
HoldsAgree ==
    <>[](\A p, q \in Pages : Together(p, q) =>
            \A e \in Elements : claims[p][e] = 0 \/ claims[q][e] = 0)

(* What a page knows of the room comes to be who is in it, what each holds  *)
(* and on which socket: nobody who left or lost the link keeps a hold       *)
(* (realtimeClient.ts, PEER_STALE_MS and PRESENCE_HEARTBEAT_MS).            *)
RoomIsKnown ==
    <>[](\A p, q \in Pages :
            /\ Together(p, q) => Known(p, q)
            /\ link[p] # "left" /\ ~Together(p, q) => ~peers[p][q].known)

=============================================================================
