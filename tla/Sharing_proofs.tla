---------------------------- MODULE Sharing_proofs ----------------------------
(***************************************************************************)
(* Theorems about the two ways a board is shared.  Room, the pages at a    *)
(* relay: for every set of pages and elements, whatever the clocks read,   *)
(* and for every number of sockets, deaths and departures.  Tunnel, the    *)
(* link to this computer: for any number of starts, whatever DNS answers.  *)
(***************************************************************************)
EXTENDS Room, Tunnel, TLAPS

Connection == {"none", "opened", "subscribed"}

(* What the theorems need of the types: what a page's socket is, and what   *)
(* the relay and the sockets themselves say of it.                          *)
RelayTypes ==
    /\ link \in [Pages -> {"down", "opening", "ready", "left"}]
    /\ socket \in [Pages -> 0 .. MaxLinks]
    /\ alive \in [Pages -> BOOLEAN]
    /\ memory \in [Sockets -> Connection]
    /\ attachment \in [Sockets -> Connection]
    /\ announced \in [Sockets -> Nat]
    /\ reported \subseteq Sockets /\ subscribed \subseteq Sockets

(* A socket that carries frames was opened, and is on the list as far as    *)
(* its page got: the object in memory and the socket itself agree.          *)
CarriesWhatItSays ==
    \A p \in Pages :
        /\ alive[p] => socket[p] # 0 /\ link[p] \in {"opening", "ready"}
        /\ link[p] = "ready" => Socket(p) \in subscribed /\ socket[p] # 0
        /\ link[p] = "opening" => Socket(p) \notin subscribed
        /\ alive[p] /\ link[p] = "ready" =>
              memory[Socket(p)] = "subscribed" /\ attachment[Socket(p)] = "subscribed"

(* A socket that was subscribed carries that until its close is reported,   *)
(* and nothing after.                                                       *)
ClosedOnce ==
    \A s \in Sockets :
        /\ s \in reported => ~Carries(s) /\ s[2] <= socket[s[1]] /\ attachment[s] = "none"
        /\ s \in subscribed => s[2] <= socket[s[1]]
        /\ s \in subscribed /\ s \notin reported => attachment[s] = "subscribed"
        /\ attachment[s] = "subscribed" => s \in subscribed
        /\ announced[s] = IF s \in subscribed /\ s \in reported THEN 1 ELSE 0

IInv == RelayTypes /\ CarriesWhatItSays /\ ClosedOnce

-----------------------------------------------------------------------------
LEMMA SocketType ==
    ASSUME RelayTypes, NEW p \in Pages, socket[p] # 0
    PROVE  Socket(p) \in Sockets
  BY RoomAssumption DEF RelayTypes, Socket, Sockets

LEMMA SocketParts ==
    ASSUME NEW s \in Sockets
    PROVE  s[1] \in Pages /\ s[2] \in 1 .. MaxLinks /\ s = <<s[1], s[2]>>
  BY DEF Sockets

(* Whichever the relay has in memory, it is what the sockets that carry     *)
(* frames say.                                                              *)
LEMMA ConnectionsFacts ==
    ASSUME IInv, NEW now \in Connections
    PROVE  /\ now \in [Sockets -> Connection]
           /\ \A p \in Pages : alive[p] /\ link[p] = "ready" => now[Socket(p)] = "subscribed"
  <1>1. Restored \in [Sockets -> Connection]
    BY DEF IInv, RelayTypes, Restored, Connection
  <1>2. ASSUME NEW p \in Pages, alive[p], link[p] = "ready"
        PROVE  /\ memory[Socket(p)] = "subscribed"
               /\ Restored[Socket(p)] = "subscribed"
    <2>1. Socket(p) \in Sockets
      BY <1>2, SocketType DEF IInv, CarriesWhatItSays
    <2>2. Carries(Socket(p))
      BY <1>2 DEF Carries, Socket
    <2>3. QED
      BY <1>2, <2>1, <2>2 DEF IInv, CarriesWhatItSays, Restored
  <1>3. QED
    BY <1>1, <1>2 DEF IInv, RelayTypes, Connections

LEMMA SendsFacts ==
    ASSUME NEW p, NEW frames, NEW rest, Sends(p, frames, rest)
    PROVE  memory' \in Connections /\ UNCHANGED <<attachment, reported>>
  BY DEF Sends, Connections, relay

(* What is only said in the room disturbs nothing of this. *)
LEMMA SayingKeepsInv ==
    ASSUME IInv, memory' \in Connections,
           UNCHANGED <<link, socket, alive, attachment, reported, subscribed, announced>>
    PROVE  IInv'
  <1>1. /\ memory' \in [Sockets -> Connection]
        /\ \A p \in Pages : alive[p] /\ link[p] = "ready" => memory'[Socket(p)] = "subscribed"
    BY ConnectionsFacts
  <1>2. RelayTypes'
    BY <1>1 DEF IInv, RelayTypes
  <1>3. CarriesWhatItSays'
    BY <1>1 DEF IInv, CarriesWhatItSays, Socket
  <1>4. ClosedOnce'
    BY DEF IInv, ClosedOnce, Carries, Socket
  <1>5. QED
    BY <1>2, <1>3, <1>4 DEF IInv

LEMMA AcceptKeepsInv ==
    ASSUME IInv, NEW p \in Pages, Accept(p)
    PROVE  IInv'
  <1> DEFINE s == <<p, socket[p] + 1>>
  <1>1. /\ s \in Sockets /\ socket[p] \in 0 .. MaxLinks /\ ~alive[p]
        /\ s \notin reported /\ s \notin subscribed /\ MaxLinks \in Nat
    <2>1. socket[p] \in 0 .. MaxLinks /\ MaxLinks \in Nat /\ socket[p] < MaxLinks
      BY RoomAssumption DEF IInv, RelayTypes, Accept
    <2>2. s \in Sockets
      BY <2>1 DEF Sockets
    <2>3. s \notin reported /\ s \notin subscribed
      BY <2>1, <2>2 DEF IInv, ClosedOnce
    <2>4. ~alive[p]
      BY DEF IInv, CarriesWhatItSays, Accept
    <2>5. QED
      BY <2>1, <2>2, <2>3, <2>4
  <1>2. PICK now \in Connections : memory' = [now EXCEPT ![s] = "opened"]
    BY DEF Accept
  <1>3. /\ attachment' = [attachment EXCEPT ![s] = "opened"]
        /\ socket' = [socket EXCEPT ![p] = socket[p] + 1]
        /\ link' = [link EXCEPT ![p] = "opening"]
        /\ alive' = [alive EXCEPT ![p] = TRUE]
        /\ UNCHANGED <<reported, subscribed, announced>>
    BY DEF Accept, Carrying, history
  <1>4. /\ now \in [Sockets -> Connection]
        /\ \A q \in Pages : alive[q] /\ link[q] = "ready" => now[Socket(q)] = "subscribed"
    BY ConnectionsFacts
  <1>5. RelayTypes'
    <2>1. socket[p] + 1 \in 0 .. MaxLinks
      BY <1>1, RoomAssumption DEF Accept
    <2>2. memory' \in [Sockets -> Connection] /\ attachment' \in [Sockets -> Connection]
      BY <1>2, <1>3, <1>4 DEF IInv, RelayTypes, Connection
    <2>3. socket' \in [Pages -> 0 .. MaxLinks]
      BY <1>3, <2>1 DEF IInv, RelayTypes
    <2>4. /\ link' \in [Pages -> {"down", "opening", "ready", "left"}]
          /\ alive' \in [Pages -> BOOLEAN]
      BY <1>3 DEF IInv, RelayTypes
    <2>5. QED
      BY <1>3, <2>2, <2>3, <2>4 DEF IInv, RelayTypes
  <1>6. CarriesWhatItSays'
    <2>1. ASSUME NEW q \in Pages, q # p
          PROVE  /\ link'[q] = link[q] /\ alive'[q] = alive[q] /\ socket'[q] = socket[q]
                 /\ Socket(q)' = Socket(q) /\ Socket(q) # s
      BY <1>3, <2>1 DEF IInv, RelayTypes, Socket
    <2>2. ASSUME NEW q \in Pages, q # p, alive[q], link[q] = "ready"
          PROVE  memory'[Socket(q)] = "subscribed" /\ attachment'[Socket(q)] = "subscribed"
      <3>1. Socket(q) \in Sockets /\ Socket(q) # s
        BY <2>2, <2>1, SocketType DEF IInv, CarriesWhatItSays
      <3>2. now[Socket(q)] = "subscribed" /\ attachment[Socket(q)] = "subscribed"
        BY <1>4, <2>2 DEF IInv, CarriesWhatItSays
      <3>3. QED
        BY <1>2, <1>3, <1>4, <3>1, <3>2 DEF IInv, RelayTypes
    <2>3. /\ link'[p] = "opening" /\ socket'[p] = socket[p] + 1
          /\ Socket(p)' = s
      BY <1>3 DEF IInv, RelayTypes, Socket
    <2>4. QED
      BY <1>1, <1>3, <2>1, <2>2, <2>3 DEF IInv, CarriesWhatItSays
  <1>7. ClosedOnce'
    <2>1. ASSUME NEW t \in Sockets
          PROVE  /\ socket[t[1]] <= socket'[t[1]]
                 /\ t # s => attachment'[t] = attachment[t]
                 /\ t # s /\ ~Carries(t) => ~Carries(t)'
                 /\ socket[t[1]] \in 0 .. MaxLinks /\ socket'[t[1]] \in 0 .. MaxLinks
                 /\ t[2] \in 1 .. MaxLinks
      <3>1. t[1] \in Pages /\ t[2] \in 1 .. MaxLinks /\ t = <<t[1], t[2]>>
        BY SocketParts
      <3>2. CASE t[1] = p
        <4>1. socket'[p] = socket[p] + 1 /\ socket[p] + 1 \in 0 .. MaxLinks
          BY <1>1, <1>3, RoomAssumption DEF IInv, RelayTypes, Sockets
        <4>2. t # s => ~Carries(t)' /\ attachment'[t] = attachment[t]
          BY <1>3, <3>1, <3>2, <4>1 DEF IInv, RelayTypes, Carries, Socket
        <4>3. QED
          BY <1>1, <3>1, <3>2, <4>1, <4>2
      <3>3. CASE t[1] # p
        BY <1>1, <1>3, <3>1, <3>3 DEF IInv, RelayTypes, Carries, Socket
      <3>4. QED
        BY <3>2, <3>3
    <2>2. attachment'[s] = "opened"
      BY <1>1, <1>3 DEF IInv, RelayTypes
    <2>3. QED
      BY <1>1, <1>3, <2>1, <2>2 DEF IInv, ClosedOnce
  <1>8. QED
    BY <1>5, <1>6, <1>7 DEF IInv

LEMMA SubscribeKeepsInv ==
    ASSUME IInv, NEW p \in Pages, Subscribe(p)
    PROVE  IInv'
  <1> DEFINE s == Socket(p)
  <1>1. s \in Sockets /\ s \notin reported /\ s \notin subscribed
    <2>1. link[p] = "opening" /\ alive[p] /\ socket[p] # 0 /\ s \notin subscribed
      BY DEF IInv, CarriesWhatItSays, Subscribe
    <2>2. s \in Sockets
      BY <2>1, SocketType DEF IInv
    <2>3. Carries(s)
      BY <2>1 DEF Carries, Socket
    <2>4. QED
      BY <2>1, <2>2, <2>3 DEF IInv, ClosedOnce
  <1>2. PICK now \in Connections : memory' = [now EXCEPT ![s] = "subscribed"]
    BY DEF Subscribe
  <1>3. /\ attachment' = [attachment EXCEPT ![s] = "subscribed"]
        /\ link' = [link EXCEPT ![p] = "ready"]
        /\ subscribed' = subscribed \cup {s}
        /\ UNCHANGED <<socket, alive, reported, announced>>
    BY DEF Subscribe, Carrying
  <1>4. /\ now \in [Sockets -> Connection]
        /\ \A q \in Pages : alive[q] /\ link[q] = "ready" => now[Socket(q)] = "subscribed"
    BY ConnectionsFacts
  <1>5. RelayTypes'
    BY <1>1, <1>2, <1>3, <1>4 DEF IInv, RelayTypes, Connection
  <1>6. CarriesWhatItSays'
    <2>1. /\ link'[p] = "ready" /\ socket[p] # 0
          /\ memory'[s] = "subscribed" /\ attachment'[s] = "subscribed"
      BY <1>1, <1>2, <1>3, <1>4 DEF IInv, RelayTypes, CarriesWhatItSays, Subscribe
    <2>2. ASSUME NEW q \in Pages, q # p
          PROVE  link'[q] = link[q] /\ Socket(q) # s
      BY <1>3, <2>2 DEF IInv, RelayTypes, Socket
    <2>3. ASSUME NEW q \in Pages, q # p, alive[q], link[q] = "ready"
          PROVE  memory'[Socket(q)] = "subscribed" /\ attachment'[Socket(q)] = "subscribed"
      <3>1. Socket(q) \in Sockets /\ Socket(q) # s
        BY <2>3, <2>2, SocketType DEF IInv, CarriesWhatItSays
      <3>2. now[Socket(q)] = "subscribed" /\ attachment[Socket(q)] = "subscribed"
        BY <1>4, <2>3 DEF IInv, CarriesWhatItSays
      <3>3. QED
        BY <1>2, <1>3, <1>4, <3>1, <3>2 DEF IInv, RelayTypes
    <2>4. \A q \in Pages : Socket(q)' = Socket(q)
      BY <1>3 DEF Socket
    <2>5. QED
      BY <1>3, <2>1, <2>2, <2>3, <2>4 DEF IInv, CarriesWhatItSays
  <1>7. ClosedOnce'
    <2>1. \A t \in Sockets : Carries(t)' = Carries(t)
      BY <1>3 DEF Carries, Socket
    <2>2. socket[p] \in 0 .. MaxLinks /\ s[1] = p /\ s[2] = socket[p] /\ MaxLinks \in Nat
      BY RoomAssumption DEF IInv, RelayTypes, Socket
    <2>3. \A t \in Sockets : attachment'[t] = IF t = s THEN "subscribed" ELSE attachment[t]
      BY <1>3 DEF IInv, RelayTypes
    <2>4. s[2] <= socket[s[1]]
      BY <2>2
    <2>5. QED
      BY <1>1, <1>3, <2>1, <2>3, <2>4 DEF IInv, ClosedOnce
  <1>8. QED
    BY <1>5, <1>6, <1>7 DEF IInv

(* A link that dies, is given up or is left carries nothing: what its       *)
(* socket says stays, for the report of its close.                          *)
LEMMA LosingKeepsInv ==
    ASSUME IInv, NEW p \in Pages, Die(p) \/ Lost(p) \/ Leave(p)
    PROVE  IInv'
  <1>1. /\ UNCHANGED <<socket, memory, attachment, reported, subscribed, announced>>
        /\ link' \in [Pages -> {"down", "opening", "ready", "left"}]
        /\ alive' \in [Pages -> BOOLEAN]
        /\ \A q \in Pages : alive'[q] => alive[q] /\ link'[q] = link[q]
        /\ \A q \in Pages : link'[q] \in {"opening", "ready"} => link'[q] = link[q]
    <2>1. CASE Die(p)
      BY <2>1 DEF Die, IInv, RelayTypes, relay, history
    <2>2. CASE Lost(p)
      BY <2>2 DEF Lost, IInv, RelayTypes, relay, history
    <2>3. CASE Leave(p)
      BY <2>3 DEF Leave, IInv, RelayTypes, relay, history
    <2>4. QED
      BY <2>1, <2>2, <2>3
  <1>2. \A q \in Pages : Socket(q)' = Socket(q)
    BY <1>1 DEF Socket
  <1>3. \A s \in Sockets : Carries(s)' => Carries(s)
    BY <1>1, SocketParts DEF Carries, Socket
  <1>4. RelayTypes' /\ CarriesWhatItSays'
    BY <1>1, <1>2 DEF IInv, RelayTypes, CarriesWhatItSays
  <1>5. ClosedOnce'
    BY <1>1, <1>3 DEF IInv, ClosedOnce
  <1>6. QED
    BY <1>4, <1>5 DEF IInv

LEMMA ForgetKeepsInv ==
    ASSUME IInv, NEW s \in Sockets, Forget(s)
    PROVE  IInv'
  <1>1. /\ s[2] <= socket[s[1]] /\ ~Carries(s)
        /\ reported' = reported \cup {s}
        /\ attachment' = [attachment EXCEPT ![s] = "none"]
        /\ UNCHANGED <<link, socket, alive, subscribed>>
        /\ announced' = IF attachment[s] = "subscribed"
                        THEN [announced EXCEPT ![s] = announced[s] + 1] ELSE announced
    BY DEF Forget, Carrying, Closing, client
  <1>2. PICK now \in Connections : memory' = [now EXCEPT ![s] = "none"]
    BY DEF Forget
  <1>3. /\ now \in [Sockets -> Connection]
        /\ \A q \in Pages : alive[q] /\ link[q] = "ready" => now[Socket(q)] = "subscribed"
    BY ConnectionsFacts
  <1>4. RelayTypes'
    BY <1>1, <1>2, <1>3 DEF IInv, RelayTypes, Connection
  <1>5. CarriesWhatItSays'
    <2>1. ASSUME NEW q \in Pages, alive[q], link[q] = "ready"
          PROVE  memory'[Socket(q)] = "subscribed" /\ attachment'[Socket(q)] = "subscribed"
      <3>1. Carries(Socket(q)) /\ Socket(q) \in Sockets
        BY <2>1, SocketType DEF Carries, Socket, IInv, CarriesWhatItSays
      <3>2. now[Socket(q)] = "subscribed" /\ attachment[Socket(q)] = "subscribed"
        BY <1>3, <2>1 DEF IInv, CarriesWhatItSays
      <3>3. Socket(q) # s
        BY <1>1, <3>1
      <3>4. QED
        BY <1>1, <1>2, <1>3, <3>1, <3>2, <3>3 DEF IInv, RelayTypes
    <2>2. \A q \in Pages : Socket(q)' = Socket(q)
      BY <1>1 DEF Socket
    <2>3. QED
      BY <1>1, <2>1, <2>2 DEF IInv, CarriesWhatItSays
  <1>6. ClosedOnce'
    <2>1. \A t \in Sockets : Carries(t)' = Carries(t)
      BY <1>1 DEF Carries, Socket
    <2>2. ASSUME NEW t \in Sockets
          PROVE  attachment'[t] = IF t = s THEN "none" ELSE attachment[t]
      BY <1>1 DEF IInv, RelayTypes
    <2>3. ASSUME NEW t \in Sockets
          PROVE  announced'[t] = IF t = s /\ attachment[s] = "subscribed"
                                 THEN announced[s] + 1 ELSE announced[t]
      BY <1>1 DEF IInv, RelayTypes
    <2>4. QED
      BY <1>1, <2>1, <2>2, <2>3 DEF IInv, ClosedOnce
  <1>7. QED
    BY <1>4, <1>5, <1>6 DEF IInv

LEMMA InitHasInv == Init => IInv
  <1> SUFFICES ASSUME Init PROVE IInv
    OBVIOUS
  <1>1. PICK here \in SUBSET Pages :
          /\ link = [p \in Pages |-> IF p \in here THEN "ready" ELSE "down"]
          /\ socket = [p \in Pages |-> IF p \in here THEN 1 ELSE 0]
          /\ alive = [p \in Pages |-> p \in here]
          /\ memory = [s \in Sockets |-> IF s[1] \in here /\ s[2] = 1
                                        THEN "subscribed" ELSE "none"]
          /\ attachment = memory /\ reported = {}
          /\ subscribed = here \X {1} /\ announced = [s \in Sockets |-> 0]
    BY DEF Init
  <1>2. RelayTypes
    <2>1. 0 \in 0 .. MaxLinks /\ 1 \in 0 .. MaxLinks /\ 1 \in 1 .. MaxLinks
      BY RoomAssumption
    <2>2. /\ link \in [Pages -> {"down", "opening", "ready", "left"}]
          /\ socket \in [Pages -> 0 .. MaxLinks]
          /\ alive \in [Pages -> BOOLEAN]
      BY <1>1, <2>1
    <2>3. /\ memory \in [Sockets -> Connection]
          /\ announced \in [Sockets -> Nat]
      BY <1>1 DEF Connection
    <2>4. subscribed \subseteq Sockets
      BY <1>1, <2>1 DEF Sockets
    <2>5. QED
      BY <1>1, <2>2, <2>3, <2>4 DEF RelayTypes
  <1>3. CarriesWhatItSays
    <2>1. ASSUME NEW p \in Pages, p \in here
          PROVE  /\ Socket(p) = <<p, 1>> /\ Socket(p) \in Sockets /\ Socket(p) \in subscribed
                 /\ memory[Socket(p)] = "subscribed" /\ socket[p] # 0
      <3>1. socket[p] = 1 /\ Socket(p) = <<p, 1>>
        BY <1>1, <2>1 DEF Socket
      <3>2. <<p, 1>> \in Sockets
        BY RoomAssumption DEF Sockets
      <3>3. QED
        BY <1>1, <2>1, <3>1, <3>2
    <2>2. \A p \in Pages : p \notin here => link[p] = "down" /\ ~alive[p]
      BY <1>1
    <2>3. \A p \in Pages : p \in here => link[p] = "ready" /\ alive[p]
      BY <1>1
    <2>4. QED
      BY <1>1, <2>1, <2>2, <2>3 DEF CarriesWhatItSays
  <1>4. ClosedOnce
    <2>1. ASSUME NEW s \in Sockets
          PROVE  /\ s \in subscribed <=> (s[1] \in here /\ s[2] = 1)
                 /\ s \in subscribed => s[2] <= socket[s[1]]
                 /\ attachment[s] = "subscribed" <=> s \in subscribed
      BY <1>1, SocketParts
    <2>2. QED
      BY <1>1, <2>1 DEF ClosedOnce
  <1>5. QED
    BY <1>2, <1>3, <1>4 DEF IInv

LEMMA NextKeepsInv == IInv /\ [Next]_vars => IInv'
  <1> SUFFICES ASSUME IInv, [Next]_vars PROVE IInv'
    OBVIOUS
  <1>1. ASSUME NEW p \in Pages, Accept(p) PROVE IInv'
    BY <1>1, AcceptKeepsInv
  <1>2. ASSUME NEW p \in Pages, Subscribe(p) PROVE IInv'
    BY <1>2, SubscribeKeepsInv
  <1>3. ASSUME NEW p \in Pages, Hear(p) PROVE IInv'
    <2>1. PICK f, rest : Heard(p, f, rest)
      BY <1>3 DEF Hear
    <2>2. memory' \in Connections /\ UNCHANGED <<attachment, reported>>
      BY <2>1, SendsFacts DEF Heard, Sees
    <2>3. QED
      BY <1>3, <2>2, SayingKeepsInv DEF Hear, history
  <1>4. ASSUME NEW p \in Pages, Heartbeat(p) PROVE IInv'
    BY <1>4, SendsFacts, SayingKeepsInv DEF Heartbeat, history
  <1>5. ASSUME NEW p \in Pages, NEW q \in Pages, Sweep(p, q) PROVE IInv'
    <2>1. memory' \in Connections /\ UNCHANGED <<attachment, reported>>
      BY <1>5, SendsFacts DEF Sweep, Sees
    <2>2. QED
      BY <1>5, <2>1, SayingKeepsInv DEF Sweep, history
  <1>6. ASSUME NEW p \in Pages, Die(p) \/ Lost(p) \/ Leave(p) PROVE IInv'
    BY <1>6, LosingKeepsInv
  <1>7. ASSUME NEW s \in Sockets, Forget(s) PROVE IInv'
    BY <1>7, ForgetKeepsInv
  <1>8. ASSUME NEW p \in Pages, NEW e \in Elements, Take(p, e) \/ Release(p, e) PROVE IInv'
    <2>1. PICK held : Selects(p, held)
      BY <1>8 DEF Take, Release
    <2>2. memory' \in Connections /\ UNCHANGED <<attachment, reported>>
      BY <2>1, SendsFacts DEF Selects
    <2>3. QED
      BY <2>1, <2>2, SayingKeepsInv DEF Selects, history
  <1>9. CASE UNCHANGED vars
    BY <1>9, SayingKeepsInv DEF vars, client, relay, history, Connections
  <1>10. QED
    BY <1>1, <1>2, <1>3, <1>4, <1>5, <1>6, <1>7, <1>8, <1>9 DEF Next, Proceeds

-----------------------------------------------------------------------------
(* A page that takes its link for ready is heard by the relay, however many *)
(* times its object was evicted (worker.ts), whatever the room did.         *)
THEOREM ReadyIsAlwaysHeard == Spec => []ReadyIsHeard
  <1>1. IInv => ReadyIsHeard
    BY ConnectionsFacts DEF ReadyIsHeard
  <1>2. QED
    BY InitHasInv, NextKeepsInv, <1>1, PTL DEF Spec

(* Each connection that closes is announced exactly once (relay.ts close,   *)
(* worker.ts forget), however often and on whichever wake it is reported.   *)
THEOREM GoneIsToldOnce == Spec => []GoneOnce
  <1>1. IInv => GoneOnce
    BY DEF IInv, RelayTypes, ClosedOnce, GoneOnce
  <1>2. QED
    BY InitHasInv, NextKeepsInv, <1>1, PTL DEF Spec

-----------------------------------------------------------------------------
(***************************************************************************)
(* The internet link.  That the link offered is up, and no process left    *)
(* running, is inductive because the start timeout is armed exactly while  *)
(* its own process is starting, and a process is up only while it is the   *)
(* tunnel's.                                                               *)
(***************************************************************************)

(* A process is the tunnel's, up and spawned, or it is not running.         *)
OneProcess ==
    /\ child # None => child <= started /\ process[child] = "up"
    /\ \A n \in Starts : process[n] = "up" => child = n
    /\ state \in {"starting", "on"} <=> child # None

(* The timeout is armed while its process is starting, and only then.       *)
TimedWhileStarting ==
    IF state = "starting" THEN timer = child /\ timers = {child}
    ELSE timer = None /\ timers = {}

(* Only what is connected and named is awaited, and what is offered was.    *)
OfferedWasAwaited ==
    /\ \A n \in Starts : awaiting[n] # "idle" => log[n] = {"name", "connected"}
    /\ state = "on" => /\ origin = child /\ log[child] = {"name", "connected"}
                       /\ child \in published \/ unknown[child] = MaxUnknown
    /\ state # "on" => origin = None

TInv == Types /\ OneProcess /\ TimedWhileStarting /\ OfferedWasAwaited

LEMMA LinkFollows == TInv => LinkIsUp /\ NoneLeftRunning
BY DEF TInv, Types, OneProcess, OfferedWasAwaited, LinkIsUp, NoneLeftRunning, None

LEMMA TunnelInitHolds == TunnelInit => TInv
<1> SUFFICES ASSUME TunnelInit PROVE TInv
  OBVIOUS
<1>1. Types
  <2>1. started \in 0..MaxStarts /\ 0 \in 0..MaxUnknown
    BY TunnelAssumption DEF TunnelAssumption, TunnelInit
  <2>2. unknown \in [Starts -> 0..MaxUnknown]
    BY <2>1 DEF TunnelInit
  <2>3. log \in [Starts -> SUBSET {"name", "connected"}]
    BY DEF TunnelInit
  <2> QED BY <2>1, <2>2, <2>3 DEF TunnelInit, Types
<1>2. OneProcess
  BY DEF TunnelInit, OneProcess
<1>3. TimedWhileStarting
  BY DEF TunnelInit, TimedWhileStarting
<1>4. OfferedWasAwaited
  BY DEF TunnelInit, OfferedWasAwaited
<1> QED BY <1>1, <1>2, <1>3, <1>4 DEF TInv

(* Opening: the number of the new process was no other's.                   *)
LEMMA LinkOpening == TInv /\ (Start \/ SpawnThrows) => TInv'
<1> SUFFICES ASSUME TInv, Start \/ SpawnThrows PROVE TInv'
  OBVIOUS
<1> USE TunnelAssumption DEF TInv, Starts, None
<1>1. CASE Start
  <2>1. started + 1 \in Starts /\ child' = started + 1 /\ child' # None
    BY <1>1 DEF Start, Types
  <2>2. Types'
    BY <1>1, <2>1 DEF Start, Types, Becomes
  <2>3. OneProcess'
    BY <1>1, <2>1 DEF Start, Types, Becomes, OneProcess
  <2>4. TimedWhileStarting'
    BY <1>1, <2>1 DEF Start, Becomes, OneProcess, TimedWhileStarting
  <2>5. OfferedWasAwaited'
    BY <1>1, <2>1 DEF Start, Becomes, OfferedWasAwaited
  <2> QED BY <2>2, <2>3, <2>4, <2>5
<1>2. CASE SpawnThrows
  <2>1. started + 1 \in Starts
    BY <1>2 DEF SpawnThrows, Types
  <2>2. /\ timer' = None /\ timers' = {} /\ child = None
        /\ state' = "failed" /\ origin' = None /\ heard' = "none"
    BY <1>2 DEF SpawnThrows, Fail, Becomes, ClearTimer, OneProcess, TimedWhileStarting
  <2>3. Types'
    BY <1>2, <2>1, <2>2 DEF SpawnThrows, Types
  <2>4. OneProcess'
    BY <1>2, <2>1, <2>2 DEF SpawnThrows, Types, OneProcess
  <2>5. TimedWhileStarting' /\ OfferedWasAwaited'
    BY <1>2, <2>2 DEF SpawnThrows, TimedWhileStarting, OfferedWasAwaited
  <2> QED BY <2>3, <2>4, <2>5
<1> QED BY <1>1, <1>2

LEMMA LinkClosing == TInv /\ (Stop \/ Close) => TInv'
<1> SUFFICES ASSUME TInv, Stopped, closed' \in BOOLEAN PROVE TInv'
  BY DEF Stop, Close, TInv, Types
<1> USE DEF TInv, Starts, None
<1>1. /\ timer' = None /\ timers' = {} /\ child' = None
      /\ state' = "off" /\ origin' = None /\ heard' = "none"
  BY DEF Stopped, Becomes, ClearTimer, TimedWhileStarting
<1>2. Types'
  BY <1>1 DEF Stopped, Types
<1>3. OneProcess'
  BY <1>1 DEF Stopped, Types, OneProcess
<1>4. TimedWhileStarting' /\ OfferedWasAwaited'
  BY <1>1 DEF Stopped, TimedWhileStarting, OfferedWasAwaited
<1> QED BY <1>2, <1>3, <1>4

LEMMA Printing ==
    ASSUME NEW n \in Starts, NEW line \in {"name", "connected"}, TInv, Prints(n, line)
    PROVE  TInv'
<1> USE DEF TInv, Starts, None
<1>1. PICK kept \in {log[n], log[n] \cap {"name"}} : log' = [log EXCEPT ![n] = kept \cup {line}]
  BY DEF Prints
<1>2. awaiting[n] = "idle"
  BY DEF Prints, OfferedWasAwaited
<1>3. awaiting' \in [Starts -> {"idle", "asking", "pausing", "returned"}]
  BY DEF Prints, Types
<1>4. kept \cup {line} \subseteq {"name", "connected"}
  BY DEF Types
<1>5. Types'
  BY <1>1, <1>3, <1>4 DEF Prints, Types
<1>6. OneProcess' /\ TimedWhileStarting'
  BY DEF Prints, OneProcess, TimedWhileStarting
<1>7. ASSUME NEW k \in Starts, awaiting'[k] # "idle"
      PROVE  log'[k] = {"name", "connected"}
  BY <1>1, <1>2, <1>7 DEF Prints, OfferedWasAwaited, Types
<1>8. state = "on" => child # n
  BY DEF Prints, OfferedWasAwaited
<1>9. OfferedWasAwaited'
  BY <1>1, <1>7, <1>8 DEF Prints, OfferedWasAwaited, Types
<1> QED BY <1>5, <1>6, <1>9

LEMMA Ending ==
    ASSUME NEW n \in Starts, TInv, Errors(n) \/ Exits(n) \/ TimesOut(n)
    PROVE  TInv'
<1> USE TunnelAssumption DEF TInv, Starts, None, Becomes, ClearTimer, Fail
<1>1. CASE Errors(n)
  BY <1>1 DEF Errors, Types, OneProcess, TimedWhileStarting, OfferedWasAwaited
<1>2. CASE Exits(n)
  BY <1>2 DEF Exits, ExitsAs, Types, OneProcess, TimedWhileStarting, OfferedWasAwaited
<1>3. CASE TimesOut(n)
  BY <1>3 DEF TimesOut, TimesOutAs, Types, OneProcess, TimedWhileStarting, OfferedWasAwaited
<1> QED BY <1>1, <1>2, <1>3

(* An answer puts the link up only for the process that is starting now.    *)
LEMMA Answering ==
    ASSUME NEW n \in Starts, TInv, Answered(n)
    PROVE  TInv'
<1> USE DEF TInv, Starts, None
<1>1. /\ log[n] = {"name", "connected"}
      /\ UNCHANGED <<child, started, process, log, published, closed>>
  BY DEF Answered, AnsweredIf, OfferedWasAwaited
<1>2. PICK answer \in Says(n), waited \in BOOLEAN :
          IF ~Awaited(n)
          THEN /\ awaiting' = [awaiting EXCEPT ![n] = "returned"]
               /\ UNCHANGED <<state, origin, timer, timers, unknown, heard>>
          ELSE /\ heard' = answer
               /\ unknown' = [unknown EXCEPT
                      ![n] = IF answer = "unknown" /\ @ < MaxUnknown THEN @ + 1 ELSE @]
               /\ IF answer = "yes" \/ (unknown'[n] = MaxUnknown /\ waited)
                  THEN /\ awaiting' = [awaiting EXCEPT ![n] = "returned"]
                       /\ ClearTimer
                       /\ state' = "on" /\ origin' = n
                  ELSE /\ awaiting' = [awaiting EXCEPT ![n] = "pausing"]
                       /\ KeepTimer
                       /\ UNCHANGED <<state, origin>>
  BY DEF Answered, AnsweredIf
<1>3. CASE ~Awaited(n)
  BY <1>1, <1>2, <1>3 DEF Types, OneProcess, TimedWhileStarting, OfferedWasAwaited
<1>4. Awaited(n) => unknown' \in [Starts -> 0..MaxUnknown]
  <2>1. ASSUME NEW k \in 0..MaxUnknown
        PROVE  (IF answer = "unknown" /\ k < MaxUnknown THEN k + 1 ELSE k) \in 0..MaxUnknown
    BY TunnelAssumption DEF TunnelAssumption
  <2> QED BY <1>2, <2>1 DEF Types
<1>5. heard' \in {"none", "unknown", "no", "yes"}
  <2>1. answer \in {"unknown", "no", "yes"}
    BY DEF Says
  <2> QED BY <1>2, <2>1 DEF Types
<1>6. CASE Awaited(n) /\ (answer = "yes" \/ (unknown'[n] = MaxUnknown /\ waited))
  <2>1. child = n /\ state = "starting" /\ state' = "on" /\ origin' = n
    BY <1>2, <1>6 DEF Awaited
  <2>2. n \in published \/ unknown'[n] = MaxUnknown
    BY <1>6 DEF Says
  <2>3. timer' = None /\ timers' = {}
    BY <1>2, <1>6, <2>1 DEF ClearTimer, TimedWhileStarting
  <2>4. Types'
    BY <1>1, <1>2, <1>4, <1>5, <1>6, <2>1, <2>3 DEF Types
  <2>5. OneProcess' /\ TimedWhileStarting'
    BY <1>1, <2>1, <2>3 DEF OneProcess, TimedWhileStarting
  <2>6. OfferedWasAwaited'
    BY <1>1, <1>2, <1>6, <2>1, <2>2 DEF OfferedWasAwaited, Types
  <2> QED BY <2>4, <2>5, <2>6
<1>7. CASE Awaited(n) /\ ~(answer = "yes" \/ (unknown'[n] = MaxUnknown /\ waited))
  <2>1. awaiting' = [awaiting EXCEPT ![n] = "pausing"] /\ UNCHANGED <<state, origin, timer, timers>>
    BY <1>2, <1>7 DEF KeepTimer
  <2>2. state = "starting" /\ origin = None
    BY <1>7 DEF Awaited, OfferedWasAwaited
  <2>3. Types'
    BY <1>1, <1>4, <1>5, <1>7, <2>1 DEF Types
  <2>4. OneProcess' /\ TimedWhileStarting'
    BY <1>1, <2>1 DEF OneProcess, TimedWhileStarting
  <2>5. OfferedWasAwaited'
    BY <1>1, <2>1, <2>2 DEF OfferedWasAwaited, Types
  <2> QED BY <2>3, <2>4, <2>5
<1> QED BY <1>3, <1>6, <1>7

LEMMA Waiting ==
    ASSUME NEW n \in Starts, TInv, Resumes(n) \/ Published(n)
    PROVE  TInv'
<1> USE DEF TInv, Starts, None
<1>1. CASE Resumes(n)
  <2>1. Types'
    BY <1>1 DEF Resumes, Types
  <2>2. OneProcess' /\ TimedWhileStarting'
    BY <1>1 DEF Resumes, OneProcess, TimedWhileStarting
  <2>3. OfferedWasAwaited'
    BY <1>1 DEF Resumes, OfferedWasAwaited, Types
  <2> QED BY <2>1, <2>2, <2>3
<1>2. CASE Published(n)
  <2>1. Types'
    BY <1>2 DEF Published, Types
  <2>2. OneProcess' /\ TimedWhileStarting'
    BY <1>2 DEF Published, OneProcess, TimedWhileStarting
  <2>3. OfferedWasAwaited'
    BY <1>2 DEF Published, OfferedWasAwaited, Types
  <2> QED BY <2>1, <2>2, <2>3
<1> QED BY <1>1, <1>2

THEOREM TunnelIsAccountedFor == TunnelSpec => []TInv
<1>1. TunnelInit => TInv
  BY TunnelInitHolds
<1>2. TInv /\ [TunnelNext]_tunnelVars => TInv'
  <2> SUFFICES ASSUME TInv, [TunnelNext]_tunnelVars PROVE TInv'
    OBVIOUS
  <2>1. CASE UNCHANGED tunnelVars
    BY <2>1 DEF tunnelVars, TInv, Types, OneProcess, TimedWhileStarting, OfferedWasAwaited
  <2>2. CASE TunnelNext
    BY <2>2, LinkOpening, LinkClosing, Printing, Ending, Answering, Waiting DEF TunnelNext
  <2> QED BY <2>1, <2>2
<1> QED BY <1>1, <1>2, PTL DEF TunnelSpec

(* The internet link that /v1/share offers is that of a process that is up  *)
(* and connected, its name published or taken on trust after answers that   *)
(* told nothing of it.                                                      *)
THEOREM OfferedLinkIsUp == TunnelSpec => []LinkIsUp
<1>1. TInv => LinkIsUp
  BY LinkFollows
<1> QED BY <1>1, TunnelIsAccountedFor, PTL

(* Every process but the tunnel's own was told to stop or is gone.          *)
THEOREM NothingIsLeftRunning == TunnelSpec => []NoneLeftRunning
<1>1. TInv => NoneLeftRunning
  BY LinkFollows
<1> QED BY <1>1, TunnelIsAccountedFor, PTL
=============================================================================
