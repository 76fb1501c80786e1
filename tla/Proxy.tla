------------------------------- MODULE Proxy -------------------------------
(***************************************************************************)
(* A ling's TCP proxy: clients that wait for a target, are connected to    *)
(* one round-robin and bridged in both directions, while states change     *)
(* the targets and the ling shuts down.                                    *)
(***************************************************************************)
EXTENDS Integers, Sequences, FiniteSets

CONSTANTS
    Client,         \* accepted connections, one handleConn each
    Target,         \* upstream addresses
    Lists,          \* the target lists states come with
    DialMaxRetries,
    MaxUpdates, MaxFails        \* bounds

ASSUME ListsAssumption == Lists \subseteq Seq(Target) /\ <<>> \in Lists
ASSUME NumbersAssumption ==
    DialMaxRetries \in Nat \ {0} /\ MaxUpdates \in Nat /\ MaxFails \in Nat

VARIABLES
    targets,    \* proxy.targets
    channel,    \* the channel in proxy.hasTargets, by number
    closed,     \* the channels that are closed
    counter,    \* proxy.counter
    tracked,    \* the clients whose upstream is in proxy.upstreams
    life,       \* of the proxy: "open", "cancelled", then close()
    at,         \* handleConn, per client
    seen,       \* the targets and channel its waitForTarget has read
    tries,      \* dials that failed
    peers,      \* which of its two peers have not closed their side
    upstream,   \* its upstream socket is open
    flow,       \* the copying directions still running
    dead,       \* the targets that refuse connections
    left        \* updates and failures that may still happen

gate == <<targets, channel, closed>>
bridge == <<peers, upstream, flow>>
vars == <<gate, counter, tracked, life, at, seen, tries, bridge, dead, left>>

Direction == {"up", "down"}
Unseen == [targets |-> <<>>, channel |-> 0]

Init ==
    /\ targets = <<>> /\ channel = 0 /\ closed = {}
    /\ counter = 0 /\ tracked = {} /\ life = "open"
    /\ at = [c \in Client |-> "idle"]
    /\ seen = [c \in Client |-> Unseen]
    /\ tries = [c \in Client |-> 0]
    /\ peers = [c \in Client |-> {}]
    /\ upstream = [c \in Client |-> FALSE]
    /\ flow = [c \in Client |-> {}]
    /\ dead = {}
    /\ left = [updates |-> MaxUpdates, fails |-> MaxFails]

Goes(c, place) == at' = [at EXCEPT ![c] = place]

-----------------------------------------------------------------------------
(* Targets.                                                                 *)

UpdateTargetsAnew(list) ==                                             \* mutant
    /\ left.updates > 0
    /\ left' = [left EXCEPT !.updates = @ - 1]
    /\ targets' = list
    /\ closed' = IF list # <<>> THEN closed \cup {channel} ELSE closed
    /\ channel' = IF list = <<>> THEN channel + 1 ELSE channel
    /\ UNCHANGED <<counter, tracked, life, at, seen, tries, bridge, dead>>
\* The channel is closed as long as there are targets; clients may still hold
\* an earlier one.
UpdateTargets(list) ==
    /\ left.updates > 0
    /\ left' = [left EXCEPT !.updates = @ - 1]
    /\ targets' = list
    /\ closed' = IF list # <<>> THEN closed \cup {channel} ELSE closed
    /\ channel' = IF list = <<>> /\ channel \in closed THEN channel + 1 ELSE channel
    /\ UNCHANGED <<counter, tracked, life, at, seen, tries, bridge, dead>>

\* A target starts or stops refusing connections.
Toggle(t) ==
    /\ left.fails > 0
    /\ dead' = IF t \in dead THEN dead \ {t} ELSE dead \cup {t}
    /\ left' = [left EXCEPT !.fails = @ - 1]
    /\ UNCHANGED <<gate, counter, tracked, life, at, seen, tries, bridge>>

-----------------------------------------------------------------------------
(* handleConn: dialUpstream and waitForTarget.                              *)

Accept(c) ==
    /\ at[c] = "idle" /\ life \in {"open", "cancelled"}
    /\ Goes(c, "look")
    /\ peers' = [peers EXCEPT ![c] = {"client"}]
    /\ UNCHANGED <<gate, counter, tracked, life, seen, tries, upstream, flow, dead, left>>

Look(c) ==
    /\ at[c] = "look"
    /\ seen' = [seen EXCEPT ![c] = [targets |-> targets, channel |-> channel]]
    /\ Goes(c, IF targets = <<>> THEN "wait" ELSE "pick")
    /\ UNCHANGED <<gate, counter, tracked, life, tries, bridge, dead, left>>

Wake(c) ==
    /\ at[c] = "wait" /\ seen[c].channel \in closed
    /\ Goes(c, "look")
    /\ UNCHANGED <<gate, counter, tracked, life, seen, tries, bridge, dead, left>>

\* proxyTargetWaitTimeout: the client is disconnected.
Deadline(c) ==
    /\ at[c] = "wait"
    /\ Goes(c, "done")
    /\ UNCHANGED <<gate, counter, tracked, life, seen, tries, bridge, dead, left>>

\* The counter is shared by all clients, also while they retry.
Choice(c) == LET list == seen[c].targets IN list[1 + (counter % Len(list))]

DialOk(c) ==
    /\ at[c] = "pick" /\ life = "open" /\ Choice(c) \notin dead
    /\ counter' = counter + 1
    /\ upstream' = [upstream EXCEPT ![c] = TRUE]
    /\ peers' = [peers EXCEPT ![c] = @ \cup {"upstream"}]
    /\ Goes(c, "dialled")
    /\ UNCHANGED <<gate, tracked, life, seen, tries, flow, dead, left>>

\* A cancelled context fails every dial.
DialFails(c) ==
    /\ at[c] = "pick" /\ (life # "open" \/ Choice(c) \in dead)
    /\ counter' = counter + 1
    /\ tries' = [tries EXCEPT ![c] = @ + 1]
    /\ Goes(c, "pause")
    /\ UNCHANGED <<gate, tracked, life, seen, bridge, dead, left>>

RetryAlways(c) ==                                                      \* mutant
    /\ at[c] = "pause"
    /\ \/ tries[c] <= DialMaxRetries /\ Goes(c, "look")
       \/ (tries[c] > DialMaxRetries \/ life # "open") /\ Goes(c, "done")
    /\ UNCHANGED <<gate, counter, tracked, life, seen, tries, bridge, dead, left>>
\* After dialRetryDelay it tries again; the last failure, or a cancelled
\* context, disconnects the client.
Retry(c) ==
    /\ at[c] = "pause"
    /\ \/ tries[c] < DialMaxRetries /\ Goes(c, "look")
       \/ (tries[c] >= DialMaxRetries \/ life # "open") /\ Goes(c, "done")
    /\ UNCHANGED <<gate, counter, tracked, life, seen, tries, bridge, dead, left>>

-----------------------------------------------------------------------------
(* handleConn: bridging.                                                    *)

Track(c) ==
    /\ at[c] = "dialled"
    /\ tracked' = tracked \cup {c}
    /\ flow' = [flow EXCEPT ![c] = Direction]
    /\ Goes(c, "bridge")
    /\ UNCHANGED <<gate, counter, life, seen, tries, peers, upstream, dead, left>>

\* Either peer closes its side whenever it likes.
PeerCloses(c, p) ==
    /\ p \in peers[c]
    /\ peers' = [peers EXCEPT ![c] = @ \ {p}]
    /\ UNCHANGED <<gate, counter, tracked, life, at, seen, tries, upstream, flow, dead, left>>

Unreachable(c) == ~upstream[c] \/ "upstream" \notin peers[c]

SourceEndsUp(c, d) ==                                                   \* mutant
    /\ d \in flow[c]
    /\ d = "up" /\ "client" \notin peers[c]
    /\ flow' = [flow EXCEPT ![c] = @ \ {d}]
    /\ UNCHANGED <<gate, counter, tracked, life, at, seen, tries, peers, upstream, dead, left>>
\* A direction ends when its source does, which it is told; that its sink is
\* gone it only learns when the source sends something.
SourceEnds(c, d) ==
    /\ d \in flow[c]
    /\ IF d = "up" THEN "client" \notin peers[c] ELSE Unreachable(c)
    /\ flow' = [flow EXCEPT ![c] = @ \ {d}]
    /\ UNCHANGED <<gate, counter, tracked, life, at, seen, tries, peers, upstream, dead, left>>

WriteFails(c, d) ==
    /\ d \in flow[c]
    /\ IF d = "up" THEN Unreachable(c) ELSE "client" \notin peers[c]
    /\ flow' = [flow EXCEPT ![c] = @ \ {d}]
    /\ UNCHANGED <<gate, counter, tracked, life, at, seen, tries, peers, upstream, dead, left>>

FinishEither(c) ==                                                     \* mutant
    /\ at[c] = "bridge" /\ "down" \notin flow[c]
    /\ tracked' = tracked \ {c}
    /\ upstream' = [upstream EXCEPT ![c] = FALSE]
    /\ flow' = [flow EXCEPT ![c] = {}]
    /\ Goes(c, "done")
    /\ UNCHANGED <<gate, counter, life, seen, tries, peers, dead, left>>
\* Both directions have ended: untrack and close both sockets.
Finish(c) ==
    /\ at[c] = "bridge" /\ flow[c] = {}
    /\ tracked' = tracked \ {c}
    /\ upstream' = [upstream EXCEPT ![c] = FALSE]
    /\ Goes(c, "done")
    /\ UNCHANGED <<gate, counter, life, seen, tries, peers, flow, dead, left>>

-----------------------------------------------------------------------------
(* Shutdown: the cancelled context, then close() lock by lock.              *)

Cancel ==
    /\ life = "open"
    /\ life' = "cancelled"
    /\ UNCHANGED <<gate, counter, tracked, at, seen, tries, bridge, dead, left>>

CloseListener ==
    /\ life = "cancelled"
    /\ life' = "deaf"
    /\ UNCHANGED <<gate, counter, tracked, at, seen, tries, bridge, dead, left>>

CloseGate ==
    /\ life = "deaf"
    /\ life' = "released"
    /\ closed' = closed \cup {channel}
    /\ UNCHANGED <<targets, channel, counter, tracked, at, seen, tries, bridge, dead, left>>

CloseUpstreams ==
    /\ life = "released"
    /\ life' = "closed"
    /\ upstream' = [c \in Client |-> upstream[c] /\ c \notin tracked]
    /\ tracked' = {}
    /\ UNCHANGED <<gate, counter, at, seen, tries, peers, flow, dead, left>>

-----------------------------------------------------------------------------

Connects(c) == Look(c) \/ Wake(c) \/ DialOk(c) \/ DialFails(c) \/ Retry(c) \/ Track(c)
Bridges(c) == (\E d \in Direction : SourceEnds(c, d)) \/ Finish(c)
Shuts == CloseListener \/ CloseGate \/ CloseUpstreams

Next ==
    \/ \E list \in Lists : UpdateTargets(list)
    \/ \E t \in Target : Toggle(t)
    \/ \E c \in Client : Accept(c) \/ Connects(c) \/ Deadline(c) \/ Bridges(c)
    \/ \E c \in Client, d \in Direction : WriteFails(c, d)
    \/ \E c \in Client, p \in {"client", "upstream"} : PeerCloses(c, p)
    \/ Cancel \/ Shuts

Spec == Init /\ [][Next]_vars

\* Goroutines are scheduled; peers need not close nor send, and the deadline
\* of a waiting client need not come before a target does.
FairSpec ==
    /\ Spec
    /\ \A c \in Client : WF_vars(Connects(c)) /\ WF_vars(Bridges(c))
    /\ WF_vars(Shuts)

-----------------------------------------------------------------------------
(* Properties.                                                              *)

TypeOK ==
    /\ targets \in Lists /\ channel \in Nat /\ closed \subseteq 0..channel
    /\ counter \in Nat /\ tracked \subseteq Client
    /\ life \in {"open", "cancelled", "deaf", "released", "closed"}
    /\ at \in [Client -> {"idle", "look", "wait", "pick", "pause", "dialled", "bridge", "done"}]
    /\ \A c \in Client : seen[c].targets \in Lists /\ seen[c].channel \in 0..channel
    /\ tries \in [Client -> 0..DialMaxRetries]
    /\ peers \in [Client -> SUBSET {"client", "upstream"}]
    /\ upstream \in [Client -> BOOLEAN]
    /\ flow \in [Client -> SUBSET Direction]
    /\ dead \subseteq Target /\ left \in [updates : Nat, fails : Nat]

\* No client waits while there are targets, however often they came and went
\* since it looked: the channel it waits on is closed then.
NoWaitWithTargets ==
    \A c \in Client : at[c] = "wait" /\ targets # <<>> => seen[c].channel \in closed

\* An update of the targets, or the end of one direction, cuts no connection:
\* an upstream is closed when both directions are done, or by close().
ConnectionsKept ==
    [][\A c \in Client : upstream[c] /\ ~upstream'[c] =>
          flow[c] = {} \/ (life = "released" /\ life' = "closed")]_vars

\* When both peers are gone the connection is released.
Released ==
    \A c \in Client : at[c] = "bridge" /\ peers[c] = {} ~> at[c] = "done"
=============================================================================
