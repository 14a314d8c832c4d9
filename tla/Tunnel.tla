-------------------------------- MODULE Tunnel --------------------------------
(***************************************************************************)
(* The internet link (apps/api/src/tunnel.ts): one cloudflared process at  *)
(* a time, started and stopped from the Share dialog, and offered as a     *)
(* link once its name is published.  What a process prints, its exit, the  *)
(* start timeout and the answers about its name are callbacks of a process *)
(* that may no longer be the tunnel's own: somebody pressed stop, and      *)
(* perhaps start again, while they were on their way.                      *)
(***************************************************************************)
EXTENDS Naturals

CONSTANTS
    MaxStarts,   \* bound: processes spawned
    MaxUnknown   \* answers that told nothing before the name is taken on trust

ASSUME TunnelAssumption == MaxStarts \in Nat /\ MaxUnknown \in Nat \ {0}

Starts == 1..MaxStarts
None == 0

VARIABLES
    child,      \* Tunnel.child: the number of its process, or None
    state,      \* TunnelStatus.state
    origin,     \* the process whose name is offered, or None
    timer,      \* Tunnel.timer: the process whose start timeout the handle is of, or None
    timers,     \* the start timeouts still to fire
    started,    \* how many processes were spawned
    process,    \* each one: not spawned, up, told to stop, or gone
    log,        \* what is known of each from its output: its name, and whether it connected
    awaiting,   \* its awaitPublished: idle, asking DNS, pausing, or returned
    unknown,    \* the answers it got that told nothing
    heard,      \* history: the last answer about the name of the tunnel's own process
    published,  \* its name is in DNS
    closed      \* the API has closed

tunnelVars == <<child, state, origin, timer, timers, started, process, log, awaiting, unknown,
                heard, published, closed>>

Roles == {"host", "guest", "internet"}

(* Who may open or close the link (share.ts): the person at this computer.  *)
Manages(role) == role = "host"

TunnelInit ==
    /\ child = None /\ state = "off" /\ origin = None
    /\ timer = None /\ timers = {} /\ started = 0
    /\ process = [n \in Starts |-> "unborn"]
    /\ log = [n \in Starts |-> {}]
    /\ awaiting = [n \in Starts |-> "idle"]
    /\ unknown = [n \in Starts |-> 0]
    /\ heard = "none"
    /\ published = {} /\ closed = FALSE

-----------------------------------------------------------------------------
ClearTimer == timer' = None /\ timers' = timers \ {timer}

Becomes(newState) == state' = newState /\ origin' = None /\ heard' = "none"

Fail == ClearTimer /\ Becomes("failed")

(* start(), from the route; one that is starting or running is left alone.  *)
Start ==
    /\ ~closed /\ started < MaxStarts /\ child = None
    /\ \E role \in Roles : Manages(role)
    /\ LET n == started + 1
       IN  /\ started' = n
           /\ process' = [process EXCEPT ![n] = "up"]
           /\ child' = n
           /\ timer' = n /\ timers' = timers \cup {n}
    /\ Becomes("starting")
    /\ UNCHANGED <<log, awaiting, unknown, published, closed>>

SpawnThrows ==
    /\ ~closed /\ started < MaxStarts /\ child = None
    /\ \E role \in Roles : Manages(role)
    /\ started' = started + 1
    /\ process' = [process EXCEPT ![started + 1] = "gone"]
    /\ Fail
    /\ UNCHANGED <<child, log, awaiting, unknown, published, closed>>

(* stop(), from the route and when the API closes.                          *)
Stopped ==
    /\ child' = None
    /\ ClearTimer
    /\ process' = [n \in Starts |-> IF n = child THEN "told" ELSE process[n]]
    /\ Becomes("off")
    /\ UNCHANGED <<started, log, awaiting, unknown, published>>

Stop == ~closed /\ (\E role \in Roles : Manages(role)) /\ Stopped /\ UNCHANGED closed

Close == ~closed /\ closed' = TRUE /\ Stopped

-----------------------------------------------------------------------------
(* The child's output, cut and joined as it may be, in either order: its    *)
(* public name, which is remembered, and that it is connected, which is     *)
(* looked for in the end of the log and may have left it.  With both, its   *)
(* publication is awaited.                                                  *)
Prints(n, line) ==
    /\ process[n] = "up" /\ child = n
    /\ line \notin log[n]
    /\ \E kept \in {log[n], log[n] \cap {"name"}} :
          log' = [log EXCEPT ![n] = kept \cup {line}]
    /\ awaiting' = IF log'[n] = {"name", "connected"} /\ awaiting[n] = "idle"
                   THEN [awaiting EXCEPT ![n] = "asking"] ELSE awaiting
    /\ UNCHANGED <<child, state, origin, timer, timers, started, process, unknown, heard,
                   published, closed>>

(* It could not be spawned after all. *)
Errors(n) ==
    /\ process[n] = "up" /\ log[n] = {}
    /\ process' = [process EXCEPT ![n] = "gone"]
    /\ IF child = n THEN child' = None /\ Fail
       ELSE UNCHANGED <<child, state, origin, timer, timers, heard>>
    /\ UNCHANGED <<started, log, awaiting, unknown, published, closed>>

(* It exits, by itself or because it was told to. *)
ExitsAs(n, own) ==
    /\ process[n] \in {"up", "told"}
    /\ process' = [process EXCEPT ![n] = "gone"]
    /\ IF own
       THEN /\ child' = None /\ ClearTimer
            /\ Becomes(IF state = "starting" THEN "failed" ELSE "off")
       ELSE UNCHANGED <<child, state, origin, timer, timers, heard>>
    /\ UNCHANGED <<started, log, awaiting, unknown, published, closed>>

Exits(n) == ExitsAs(n, child = n)

TimesOutAs(n, told) ==
    /\ n \in timers
    /\ IF child = n /\ state = "starting"
       THEN /\ child' = None
            /\ process' = [process EXCEPT ![n] = told]
            /\ timer' = None /\ timers' = timers \ {n, timer}
            /\ Becomes("failed")
       ELSE timers' = timers \ {n} /\ UNCHANGED <<child, process, timer, state, origin, heard>>
    /\ UNCHANGED <<started, log, awaiting, unknown, published, closed>>

TimesOutQuietly(n) == TimesOutAs(n, "up")   \* fault: the process is left to itself
TimesOut(n) == TimesOutAs(n, "told")

-----------------------------------------------------------------------------
(* What DNS says of a name: that it is there only when it is.               *)
Says(n) == {"unknown"} \cup {IF n \in published THEN "yes" ELSE "no"}

Awaited(n) == child = n /\ state = "starting"

(* awaitPublished, resumed with an answer it asked for when the tunnel may  *)
(* have been another.  "unknown" often enough, and long enough after the    *)
(* connection, stands for "yes".                                            *)
AnsweredIf(n, current, onWait) ==
    /\ awaiting[n] = "asking"
    /\ \E answer \in Says(n), waited \in BOOLEAN :
          IF ~current
          THEN /\ awaiting' = [awaiting EXCEPT ![n] = "returned"]
               /\ UNCHANGED <<state, origin, timer, timers, unknown, heard>>
          ELSE /\ heard' = answer
               /\ unknown' = [unknown EXCEPT
                      ![n] = IF answer = "unknown" /\ @ < MaxUnknown THEN @ + 1 ELSE @]
               /\ IF answer = "yes" \/ (unknown'[n] = MaxUnknown /\ waited)
                  THEN /\ awaiting' = [awaiting EXCEPT ![n] = "returned"]
                       /\ ClearTimer
                       /\ state' = "on" /\ origin' = n
                  ELSE /\ awaiting' = [awaiting EXCEPT ![n] = "pausing"]
                       /\ onWait
                       /\ UNCHANGED <<state, origin>>
    /\ UNCHANGED <<child, started, process, log, published, closed>>

KeepTimer == UNCHANGED <<timer, timers>>

AnsweredStale(n) == AnsweredIf(n, state = "starting", KeepTimer)   \* fault: whose start it is
AnsweredUntimed(n) == AnsweredIf(n, Awaited(n), ClearTimer)        \* fault: connected is enough
Answered(n) == AnsweredIf(n, Awaited(n), KeepTimer)

(* The pause is over: asked again while it is still awaited. *)
Resumes(n) ==
    /\ awaiting[n] = "pausing"
    /\ awaiting' = [awaiting EXCEPT ![n] = IF Awaited(n) THEN "asking" ELSE "returned"]
    /\ UNCHANGED <<child, state, origin, timer, timers, started, process, log, unknown,
                   heard, published, closed>>

(* Cloudflare publishes the name of a process, sooner or later: when does   *)
(* not matter before DNS is asked about it.                                 *)
Published(n) ==
    /\ awaiting[n] \in {"asking", "pausing"} /\ n \notin published
    /\ published' = published \cup {n}
    /\ UNCHANGED <<child, state, origin, timer, timers, started, process, log, awaiting,
                   unknown, heard, closed>>

TunnelNext ==
    \/ Start \/ SpawnThrows \/ Stop \/ Close
    \/ \E n \in Starts :
          \/ \E line \in {"name", "connected"} : Prints(n, line)
          \/ Errors(n) \/ Exits(n) \/ TimesOut(n)
          \/ Answered(n) \/ Resumes(n) \/ Published(n)

TunnelSpec == TunnelInit /\ [][TunnelNext]_tunnelVars

(* A timeout fires; nothing says DNS answers or that a process exits.       *)
FairTunnel == TunnelSpec /\ \A n \in Starts : WF_tunnelVars(TimesOut(n))

-----------------------------------------------------------------------------
Types ==
    /\ {child, origin, timer} \subseteq Starts \cup {None} /\ timers \subseteq Starts
    /\ state \in {"off", "starting", "on", "failed"}
    /\ started \in 0..MaxStarts
    /\ process \in [Starts -> {"unborn", "up", "told", "gone"}]
    /\ log \in [Starts -> SUBSET {"name", "connected"}]
    /\ awaiting \in [Starts -> {"idle", "asking", "pausing", "returned"}]
    /\ unknown \in [Starts -> 0..MaxUnknown]
    /\ heard \in {"none", "unknown", "no", "yes"}
    /\ published \subseteq Starts /\ closed \in BOOLEAN

(* The link that is offered is that of the process which is the tunnel's    *)
(* now, up and connected (tunnel.ts:125-190): one that was closed or timed  *)
(* out never comes back, whatever is answered about it later.  And its name *)
(* is published, or MaxUnknown answers told nothing of it; what the last    *)
(* answer said is NeverAgainstDns.                                          *)
LinkIsUp ==
    /\ state = "on" <=> origin # None
    /\ origin # None =>
          /\ child = origin
          /\ process[origin] = "up" /\ "connected" \in log[origin]
          /\ origin \in published \/ unknown[origin] = MaxUnknown

(* What the comments say of the second case: an unpublished name is offered *)
(* only when "DNS cannot be asked at all" (tunnel.ts:71, 186), never when   *)
(* DNS has just answered that there is no such name (tunnel.ts:14-23).  The *)
(* code does otherwise: answers that told nothing are counted over the      *)
(* whole wait, and one that says "no" does not take them back.              *)
NeverAgainstDns == origin # None => heard # "no"

(* Nothing is left running behind the dialog's back: every other process    *)
(* was told to stop or is gone, also when the API closes (share.ts:77-80).  *)
NoneLeftRunning ==
    /\ \A n \in Starts : process[n] = "up" => child = n
    /\ state \in {"starting", "on"} <=> child # None

(* A start ends, connected or with a reason, although DNS never answers and *)
(* the process neither connects nor exits.                                  *)
StartEnds == state = "starting" ~> state # "starting"
=============================================================================
