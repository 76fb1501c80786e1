------------------------------ MODULE DataPath ------------------------------
(***************************************************************************)
(* One client of a tunnelled service.  The king accepts it, opens a stream *)
(* on the ling's connection and copies in both directions; the ling dials  *)
(* the service and does the same.  Every hop is a pipe with a bounded      *)
(* buffer, and a goroutine that copies holds at most one chunk.            *)
(***************************************************************************)
EXTENDS Naturals, FiniteSets

CONSTANTS
    Window,                     \* chunks a hop buffers
    quicStreamOpenRetries,
    MaxRequest, MaxResponse,    \* bounds: chunks the client and the service send
    MaxChanges                  \* bound: connections made, lost or stalled

ASSUME NumberAssumption ==
    /\ Window \in Nat \ {0} /\ quicStreamOpenRetries \in Nat \ {0}
    /\ {MaxRequest, MaxResponse, MaxChanges} \subseteq Nat

VARIABLES
    data,       \* chunks in each pipe
    fin,        \* the pipes their writer has ended
    cut,        \* the pipes whose reader is gone
    broken,     \* the pipes that were reset or whose connection was lost
    copying,    \* the copying goroutines that run
    hand,       \* those that have read a chunk and not written it
    king,       \* handleTCPConnection
    tries,      \* its attempts to open a stream
    ling,       \* handleDataStream
    link,       \* the connection registered for the service
    signalled,  \* the king's context is done
    sent, served, got,      \* chunks sent by client and service, read by the client
    left                    \* changes of the link that may still happen

pipes == <<data, fin, cut, broken>>
copies == <<copying, hand>>
ends == <<sent, served, got>>
vars == <<pipes, copies, king, tries, ling, link, signalled, ends, left>>

Stream == {"king-ling", "ling-king"}
Socket == {"client-king", "king-client", "ling-service", "service-ling"}
Pipe == Stream \cup Socket

Opposite(p) ==
    CASE p = "client-king" -> "king-client"   [] p = "king-client" -> "client-king"
      [] p = "ling-service" -> "service-ling" [] p = "service-ling" -> "ling-service"

\* The four io.Copy.
Copier == {"king up", "king down", "ling up", "ling down"}
From(g) == CASE g = "king up" -> "client-king"    [] g = "king down" -> "ling-king"
             [] g = "ling up" -> "king-ling"      [] g = "ling down" -> "service-ling"
To(g)   == CASE g = "king up" -> "king-ling"      [] g = "king down" -> "king-client"
             [] g = "ling up" -> "ling-service"   [] g = "ling down" -> "ling-king"

Init ==
    /\ data = [p \in Pipe |-> 0] /\ fin = {} /\ cut = {} /\ broken = {}
    /\ copying = {} /\ hand = {}
    /\ king = "idle" /\ tries = 0 /\ ling = "idle"
    /\ link \in {"none", "up"} /\ signalled = FALSE
    /\ sent = 0 /\ served = 0 /\ got = 0
    /\ left = MaxChanges

Puts(p) == data' = [data EXCEPT ![p] = @ + 1]
Takes(p) == data' = [data EXCEPT ![p] = @ - 1]

-----------------------------------------------------------------------------
(* The client and the service.                                              *)

Writable(p) == p \notin fin \cup broken /\ data[p] < Window
Readable(p) == p \notin cut \cup broken /\ data[p] > 0

ClientSends ==
    /\ king # "idle" /\ Writable("client-king") /\ sent < MaxRequest
    /\ Puts("client-king") /\ sent' = sent + 1
    /\ UNCHANGED <<fin, cut, broken, copies, king, tries, ling, link, signalled,
                   served, got, left>>

ClientReads ==
    /\ Readable("king-client")
    /\ Takes("king-client") /\ got' = got + 1
    /\ UNCHANGED <<fin, cut, broken, copies, king, tries, ling, link, signalled,
                   sent, served, left>>

\* It shuts its sending side down, or closes altogether; so may the service.
ClientEnds ==
    /\ king # "idle" /\ "king-client" \notin cut
    /\ fin' = fin \cup {"client-king"}
    /\ cut' \in {cut, cut \cup {"king-client"}}
    /\ UNCHANGED <<data, broken, copies, king, tries, ling, link, signalled, ends, left>>

Dialled == ling \in {"bridge", "done"}

ServiceSends ==
    /\ Dialled /\ Writable("service-ling") /\ served < MaxResponse
    /\ Puts("service-ling") /\ served' = served + 1
    /\ UNCHANGED <<fin, cut, broken, copies, king, tries, ling, link, signalled,
                   sent, got, left>>

ServiceReads ==
    /\ Readable("ling-service") /\ Takes("ling-service")
    /\ UNCHANGED <<fin, cut, broken, copies, king, tries, ling, link, signalled,
                   ends, left>>

ServiceEnds ==
    /\ Dialled /\ "ling-service" \notin cut
    /\ fin' = fin \cup {"service-ling"}
    /\ cut' \in {cut, cut \cup {"ling-service"}}
    /\ UNCHANGED <<data, broken, copies, king, tries, ling, link, signalled, ends, left>>

\* TCP answers what arrives at a closed socket with a reset, which takes what
\* its sender has not read yet with it.
Reset(p) ==
    /\ p \in cut \cap Socket /\ data[p] > 0
    /\ broken' = broken \cup {p, Opposite(p)}
    /\ data' = [data EXCEPT ![p] = 0, ![Opposite(p)] = 0]
    /\ UNCHANGED <<fin, cut, copies, king, tries, ling, link, signalled, ends, left>>

-----------------------------------------------------------------------------
(* The ling's connection.                                                   *)

Changes == left > 0 /\ left' = left - 1

\* A ling connects, again perhaps; a stream of an earlier connection is lost.
Connects ==
    /\ Changes /\ link # "up" /\ link' = "up"
    /\ UNCHANGED <<pipes, copies, king, tries, ling, signalled, ends>>

\* It is lost: the peer is gone, it was trimmed, or the king has closed it.
LinkLost ==
    /\ Changes /\ link = "up" /\ link' = "dead"
    /\ broken' = IF king \in {"idle", "open"} THEN broken ELSE broken \cup Stream
    /\ data' = [p \in Pipe |-> IF p \in broken' THEN 0 ELSE data[p]]
    /\ UNCHANGED <<fin, cut, copies, king, tries, ling, signalled, ends>>

Signal ==
    /\ ~signalled /\ signalled' = TRUE
    /\ UNCHANGED <<pipes, copies, king, tries, ling, link, ends, left>>

-----------------------------------------------------------------------------
(* The king: handleTCPConnection.                                           *)

KingAccept ==
    /\ king = "idle" /\ king' = "open"
    /\ UNCHANGED <<pipes, copies, tries, ling, link, signalled, ends, left>>

OpenStream ==
    /\ king = "open" /\ tries < quicStreamOpenRetries
    /\ link = "up" /\ ~signalled
    /\ king' = "header"
    /\ UNCHANGED <<pipes, copies, tries, ling, link, signalled, ends, left>>

RetryUnbounded ==                                                      \* mutant
    /\ king = "open" /\ tries' = tries + 1
    /\ \/ link # "up" /\ ~signalled /\ UNCHANGED left
       \/ link = "up" /\ ~signalled /\ Changes
    /\ UNCHANGED <<pipes, copies, king, ling, link, signalled, ends>>
RetryUncounted ==                                                      \* mutant
    /\ king = "open" /\ tries < quicStreamOpenRetries
    /\ \/ link # "up" /\ ~signalled /\ UNCHANGED <<tries, left>>
       \/ link = "up" /\ ~signalled /\ Changes /\ tries' = tries + 1
       \/ signalled /\ tries' = quicStreamOpenRetries /\ UNCHANGED left
    /\ UNCHANGED <<pipes, copies, king, ling, link, signalled, ends>>
\* No connection, a dead one, or no stream on it in time: after a pause it is
\* tried again, unless the king shuts down.
Retry ==
    /\ king = "open" /\ tries < quicStreamOpenRetries
    /\ \/ link # "up" /\ ~signalled /\ tries' = tries + 1 /\ UNCHANGED left
       \/ link = "up" /\ ~signalled /\ Changes /\ tries' = tries + 1
       \/ signalled /\ tries' = quicStreamOpenRetries /\ UNCHANGED left
    /\ UNCHANGED <<pipes, copies, king, ling, link, signalled, ends>>

\* tcpConn.Close.
Hangup ==
    /\ fin' = fin \cup {"king-client"} /\ cut' = cut \cup {"client-king"}
    /\ king' = "closed"

GiveUp ==
    /\ king = "open" /\ tries = quicStreamOpenRetries
    /\ Hangup
    /\ UNCHANGED <<data, broken, copies, tries, ling, link, signalled, ends, left>>

\* writeServiceIDHeader; the header is what makes the stream known to the ling.
WriteHeader ==
    /\ king = "header" /\ broken \cap Stream = {}
    /\ king' = "bridge" /\ copying' = copying \cup {"king up", "king down"}
    /\ UNCHANGED <<pipes, hand, tries, ling, link, signalled, ends, left>>

WriteHeaderFails ==
    /\ king = "header" /\ broken \cap Stream # {}
    /\ Hangup
    /\ UNCHANGED <<data, broken, copies, tries, ling, link, signalled, ends, left>>

BridgeEitherDone ==                                                    \* mutant
    /\ king = "bridge" /\ ~({"king up", "king down"} \subseteq copying)
    /\ Hangup
    /\ UNCHANGED <<data, broken, copies, tries, ling, link, signalled, ends, left>>
\* bridgeStreams returns when both directions have ended.
BridgeDone ==
    /\ king = "bridge" /\ {"king up", "king down"} \cap copying = {}
    /\ Hangup
    /\ UNCHANGED <<data, broken, copies, tries, ling, link, signalled, ends, left>>

-----------------------------------------------------------------------------
(* The ling: handleDataStream.                                              *)

\* The stream has its header, be the king done with it or not.
AcceptStream ==
    /\ ling = "idle" /\ (king = "bridge" \/ "king-ling" \in fin)
    /\ broken \cap Stream = {}
    /\ ling' = "dial"
    /\ UNCHANGED <<pipes, copies, king, tries, link, signalled, ends, left>>

\* The service is unknown or refuses: the stream is closed for sending only.
Refuse ==
    /\ ling = "dial" /\ ling' = "refused"
    /\ fin' = fin \cup {"ling-king"}
    /\ UNCHANGED <<data, cut, broken, copies, king, tries, link, signalled, ends, left>>

DialService ==
    /\ ling = "dial" /\ ling' = "bridge"
    /\ copying' = copying \cup {"ling up", "ling down"}
    /\ UNCHANGED <<pipes, hand, king, tries, link, signalled, ends, left>>

LingDone ==
    /\ ling = "bridge" /\ {"ling up", "ling down"} \cap copying = {}
    /\ ling' = "done"
    /\ UNCHANGED <<pipes, copies, king, tries, link, signalled, ends, left>>

-----------------------------------------------------------------------------
(* io.Copy, and what its goroutine does when it returns.                    *)

Read(g) ==
    /\ g \in copying \ hand /\ Readable(From(g))
    /\ Takes(From(g)) /\ hand' = hand \cup {g}
    /\ UNCHANGED <<fin, cut, broken, copying, king, tries, ling, link, signalled,
                   ends, left>>

\* A stream its reader cancelled takes no more; a socket does until the reset.
Write(g) ==
    /\ g \in hand /\ Writable(To(g)) /\ To(g) \notin cut \cap Stream
    /\ Puts(To(g)) /\ hand' = hand \ {g}
    /\ UNCHANGED <<fin, cut, broken, copying, king, tries, ling, link, signalled,
                   ends, left>>

ReadEnds(g) ==
    /\ g \in copying \ hand
    /\ \/ From(g) \in broken \cup cut
       \/ From(g) \in fin /\ data[From(g)] = 0

WriteFails(g) == g \in hand /\ To(g) \in broken \cup (cut \cap Stream)

FinAfterDropped(g) ==                                                  \* mutant
    CASE g = "king up" -> {"king-ling"} [] g = "king down" -> {}
      [] g = "ling up" -> {} [] g = "ling down" -> {"ling-king"}
\* What is closed for writing, and what for reading: a stream with Close and
\* CancelRead, the local connection altogether.
FinAfter(g) ==
    CASE g = "king up" -> {"king-ling"} [] g = "king down" -> {}
      [] g = "ling up" -> {"ling-service"} [] g = "ling down" -> {"ling-king"}

CutAfterEither(g) ==                                                   \* mutant
    CASE g = "king up" -> {"ling-king"} [] g = "king down" -> {"ling-king"}
      [] g = "ling up" -> {"service-ling"} [] g = "ling down" -> {"king-ling"}
CutAfterUpOnly(g) ==                                                   \* mutant
    CASE g = "king up" -> {} [] g = "king down" -> {"ling-king"}
      [] g = "ling up" -> {} [] g = "ling down" -> {"king-ling"}
CutAfter(g) ==
    CASE g = "king up" -> {} [] g = "king down" -> {"ling-king"}
      [] g = "ling up" -> {"service-ling"} [] g = "ling down" -> {"king-ling"}

CopyEnds(g) ==
    /\ ReadEnds(g) \/ WriteFails(g)
    /\ copying' = copying \ {g} /\ hand' = hand \ {g}
    /\ fin' = fin \cup FinAfter(g) /\ cut' = cut \cup CutAfter(g)
    /\ data' = [p \in Pipe |-> IF p \in CutAfter(g) \cap Stream THEN 0 ELSE data[p]]
    /\ UNCHANGED <<broken, king, tries, ling, link, signalled, ends, left>>

-----------------------------------------------------------------------------
Copy(g) == Read(g) \/ Write(g) \/ CopyEnds(g)
KingStep == OpenStream \/ Retry \/ GiveUp \/ WriteHeader \/ WriteHeaderFails \/ BridgeDone
LingStep == AcceptStream \/ Refuse \/ DialService \/ LingDone

Next ==
    \/ ClientSends \/ ClientReads \/ ClientEnds
    \/ ServiceSends \/ ServiceReads \/ ServiceEnds
    \/ \E p \in Socket : Reset(p)
    \/ Connects \/ LinkLost \/ Signal
    \/ KingAccept \/ KingStep \/ LingStep
    \/ \E g \in Copier : Copy(g)

Spec == Init /\ [][Next]_vars

\* Goroutines run, resets arrive, and peers read what they are sent.  Nobody
\* has to send or close, and no connection has to be lost.
Fairness ==
    /\ WF_vars(KingStep) /\ WF_vars(LingStep)
    /\ \A g \in Copier : WF_vars(Copy(g))
    /\ \A p \in Socket : WF_vars(Reset(p))
    /\ WF_vars(ClientReads) /\ WF_vars(ServiceReads)

FairSpec == Spec /\ Fairness

-----------------------------------------------------------------------------
(* Properties.                                                              *)

Held(g) == IF g \in hand THEN 1 ELSE 0

\* The types; and no chunk of a response is made up on its way.
TypeOK ==
    /\ data \in [Pipe -> 0..Window]
    /\ fin \subseteq Pipe /\ cut \subseteq Pipe /\ broken \subseteq Pipe
    /\ copying \subseteq Copier /\ hand \subseteq copying
    /\ king \in {"idle", "open", "header", "bridge", "closed"}
    /\ ling \in {"idle", "dial", "refused", "bridge", "done"}
    /\ tries \in 0..quicStreamOpenRetries
    /\ link \in {"none", "up", "dead"} /\ signalled \in BOOLEAN
    /\ sent \in 0..MaxRequest /\ served \in 0..MaxResponse /\ left \in 0..MaxChanges
    /\ got + data["king-client"] + Held("king down") + data["ling-king"]
         + Held("ling down") + data["service-ling"] <= served

\* The client keeps both sides open, and nothing was lost or reset.
Orderly ==
    /\ "client-king" \notin fin /\ broken = {} /\ Dialled

\* A client does not take a part of a response for the whole: in an orderly
\* exchange it sees the end only after everything the service sent.
NoTruncation ==
    Orderly /\ "king-client" \in fin /\ data["king-client"] = 0
        => "service-ling" \in fin /\ got = served

\* It gets what the service sends, whether or not the service closes after it
\* and the client goes on sending.
ResponseDelivered == <>[](Orderly => got = served)

\* A client that has closed leaves nothing behind: the king's handler, the
\* ling's and the local connection go, unless the stream was refused.
ClientGone == "king-client" \in cut
Released ==
    <>[](ClientGone /\ ling # "refused" =>
            king = "closed" /\ ling \in {"idle", "done"} /\ (Dialled => "ling-service" \in fin))

\* When the connection is lost, the ling lets go of the service.
LingReleased ==
    <>[](Stream \subseteq broken /\ Dialled => ling = "done" /\ "ling-service" \in fin)

\* A client does not wait for a stream for ever.
Answered == <>[](king # "open")
=============================================================================
