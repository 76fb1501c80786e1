--------------------------- MODULE DataPathProofs ---------------------------
(***************************************************************************)
(* A client of a tunnelled service, for every window, every number of      *)
(* chunks and of retries: no chunk is made up, and in an orderly exchange  *)
(* the end of the response comes after all of it.                          *)
(***************************************************************************)
EXTENDS DataPath, TLAPS

Typed ==
    /\ data \in [Pipe -> 0..Window]
    /\ fin \subseteq Pipe /\ cut \subseteq Pipe /\ broken \subseteq Pipe
    /\ copying \subseteq Copier /\ hand \subseteq copying
    /\ king \in {"idle", "open", "header", "bridge", "closed"}
    /\ ling \in {"idle", "dial", "refused", "bridge", "done"}
    /\ tries \in 0..quicStreamOpenRetries
    /\ link \in {"none", "up", "dead"} /\ signalled \in BOOLEAN
    /\ sent \in 0..MaxRequest /\ served \in 0..MaxResponse /\ left \in 0..MaxChanges
    /\ got \in Nat

\* What the service has sent and the client has not read.
ToClient == data["king-client"]
KingHas == Held("king down")
OnStream == data["ling-king"]
LingHas == Held("ling down")
FromService == data["service-ling"]
InFlight == ToClient + KingHas + OnStream + LingHas + FromService

\* The copies run between the hand-over to bridgeStreams and its return.
Bridges ==
    /\ "king up" \in copying \/ "king down" \in copying => king = "bridge"
    /\ "ling up" \in copying \/ "ling down" \in copying => ling = "bridge"

\* So far the client keeps both sides open, nothing is lost, nobody refuses.
Quiet == "client-king" \notin fin /\ broken = {} /\ ling # "refused"

\* In such an exchange the ling's copy of the response is the first to end,
\* after all of it; the others end because of that.
InOrder ==
    /\ "ling-king" \in fin =>
          /\ "service-ling" \in fin /\ data["service-ling"] = 0
          /\ "ling down" \notin copying /\ Dialled
    /\ "king-ling" \in fin \/ "service-ling" \in cut \/ "king-ling" \in cut
          => "ling-king" \in fin
    /\ "ling-king" \in cut =>
          /\ "ling-king" \in fin /\ data["ling-king"] = 0
          /\ "king down" \notin copying
    /\ "client-king" \in cut \/ "king-client" \in fin => king = "closed"
    /\ king = "bridge" => "king down" \in copying \/ "ling-king" \in cut
    /\ king = "closed" /\ ling # "idle" => "ling-king" \in cut
    /\ king \in {"idle", "open", "header"} => ling = "idle"

Inv ==
    /\ Typed
    /\ got + InFlight <= served
    /\ Bridges
    /\ Quiet => got + InFlight = served /\ InOrder

LEMMA Pipes ==
    /\ Stream = {"king-ling", "ling-king"}
    /\ Socket = {"client-king", "king-client", "ling-service", "service-ling"}
    /\ Pipe = {"king-ling", "ling-king", "client-king", "king-client",
               "ling-service", "service-ling"}
  BY DEF Pipe, Stream, Socket

LEMMA Numbers ==
    /\ Window \in Nat /\ Window > 0
    /\ quicStreamOpenRetries \in Nat /\ quicStreamOpenRetries > 0
    /\ MaxRequest \in Nat /\ MaxResponse \in Nat /\ MaxChanges \in Nat
  BY NumberAssumption

\* A pipe that takes a chunk has room for it, and one that gives a chunk has it.
LEMMA PutOne ==
    ASSUME data \in [Pipe -> 0..Window], NEW p \in Pipe, Writable(p), Puts(p)
    PROVE  /\ data' \in [Pipe -> 0..Window]
           /\ data'[p] = data[p] + 1
           /\ \A q \in Pipe : q # p => data'[q] = data[q]
  BY Numbers DEF Writable, Puts

LEMMA TakeOne ==
    ASSUME data \in [Pipe -> 0..Window], NEW p \in Pipe, Readable(p), Takes(p)
    PROVE  /\ data' \in [Pipe -> 0..Window]
           /\ data'[p] = data[p] - 1
           /\ \A q \in Pipe : q # p => data'[q] = data[q]
  BY Numbers DEF Readable, Takes

LEMMA SumsKeepOrder ==
    ASSUME NEW a \in Nat, NEW b \in Nat, NEW c \in Nat, NEW d \in Nat, NEW e \in Nat,
           NEW A \in 0..a, NEW B \in 0..b, NEW C \in 0..c, NEW D \in 0..d,
           NEW E \in 0..e
    PROVE  A + B + C + D + E <= a + b + c + d + e
  OBVIOUS

\* What is on the way is counted in natural numbers.
LEMMA FlightTyped ==
    ASSUME Typed
    PROVE  /\ ToClient \in Nat /\ KingHas \in Nat /\ OnStream \in Nat
           /\ LingHas \in Nat /\ FromService \in Nat
           /\ got \in Nat /\ served \in Nat /\ InFlight \in Nat
<1>1. /\ ToClient \in Nat /\ OnStream \in Nat /\ FromService \in Nat
      /\ got \in Nat /\ served \in Nat
  BY Numbers, Pipes DEF Typed, ToClient, OnStream, FromService
<1>2. KingHas \in Nat /\ LingHas \in Nat
  BY DEF Held, KingHas, LingHas
<1>3. InFlight = ToClient + KingHas + OnStream + LingHas + FromService
  BY DEF InFlight
<1>4. \A u, v, w, x, y \in Nat : u + v + w + x + y \in Nat
  OBVIOUS
<1>5. InFlight \in Nat
  BY <1>1, <1>2, <1>3, <1>4
<1> QED  BY <1>1, <1>2, <1>5

LEMMA FlightTypedNext ==
    ASSUME Typed'
    PROVE  /\ ToClient' \in Nat /\ KingHas' \in Nat /\ OnStream' \in Nat
           /\ LingHas' \in Nat /\ FromService' \in Nat
           /\ got' \in Nat /\ served' \in Nat /\ InFlight' \in Nat
<1>1. /\ ToClient' \in Nat /\ OnStream' \in Nat /\ FromService' \in Nat
      /\ got' \in Nat /\ served' \in Nat
  BY Numbers, Pipes DEF Typed, ToClient, OnStream, FromService
<1>2. KingHas' \in Nat /\ LingHas' \in Nat
  BY DEF Held, KingHas, LingHas
<1>3. InFlight' = ToClient' + KingHas' + OnStream' + LingHas' + FromService'
  BY DEF InFlight
<1>4. \A u, v, w, x, y \in Nat : u + v + w + x + y \in Nat
  OBVIOUS
<1>5. InFlight' \in Nat
  BY <1>1, <1>2, <1>3, <1>4
<1> QED  BY <1>1, <1>2, <1>5

\* A step that moves a chunk of the response one place on keeps their number;
\* the service puts one in, the client takes one out.
LEMMA FlightMoves ==
    ASSUME Typed, Typed'
    PROVE
      /\ UNCHANGED <<ToClient, KingHas, OnStream, LingHas, FromService>>
            => InFlight' = InFlight
      /\ /\ ToClient' = ToClient - 1
         /\ UNCHANGED <<KingHas, OnStream, LingHas, FromService>>
         => InFlight' = InFlight - 1
      /\ /\ ToClient' = ToClient + 1 /\ KingHas' = KingHas - 1
         /\ UNCHANGED <<OnStream, LingHas, FromService>>
         => InFlight' = InFlight
      /\ /\ KingHas' = KingHas + 1 /\ OnStream' = OnStream - 1
         /\ UNCHANGED <<ToClient, LingHas, FromService>>
         => InFlight' = InFlight
      /\ /\ OnStream' = OnStream + 1 /\ LingHas' = LingHas - 1
         /\ UNCHANGED <<ToClient, KingHas, FromService>>
         => InFlight' = InFlight
      /\ /\ LingHas' = LingHas + 1 /\ FromService' = FromService - 1
         /\ UNCHANGED <<ToClient, KingHas, OnStream>>
         => InFlight' = InFlight
      /\ /\ FromService' = FromService + 1
         /\ UNCHANGED <<ToClient, KingHas, OnStream, LingHas>>
         => InFlight' = InFlight + 1
<1>1. /\ ToClient \in Nat /\ KingHas \in Nat /\ OnStream \in Nat
      /\ LingHas \in Nat /\ FromService \in Nat
      /\ ToClient' \in Nat /\ KingHas' \in Nat /\ OnStream' \in Nat
      /\ LingHas' \in Nat /\ FromService' \in Nat
  BY FlightTyped, FlightTypedNext
<1>2. /\ InFlight = ToClient + KingHas + OnStream + LingHas + FromService
      /\ InFlight' = ToClient' + KingHas' + OnStream' + LingHas' + FromService'
  BY DEF InFlight
<1>3. UNCHANGED <<ToClient, KingHas, OnStream, LingHas, FromService>>
         => InFlight' = InFlight
  BY <1>2
<1>4. /\ ToClient' = ToClient - 1
      /\ UNCHANGED <<KingHas, OnStream, LingHas, FromService>>
      => InFlight' = InFlight - 1
  BY <1>1, <1>2
<1>5. /\ ToClient' = ToClient + 1 /\ KingHas' = KingHas - 1
      /\ UNCHANGED <<OnStream, LingHas, FromService>>
      => InFlight' = InFlight
  BY <1>1, <1>2
<1>6. /\ KingHas' = KingHas + 1 /\ OnStream' = OnStream - 1
      /\ UNCHANGED <<ToClient, LingHas, FromService>>
      => InFlight' = InFlight
  BY <1>1, <1>2
<1>7. /\ OnStream' = OnStream + 1 /\ LingHas' = LingHas - 1
      /\ UNCHANGED <<ToClient, KingHas, FromService>>
      => InFlight' = InFlight
  BY <1>1, <1>2
<1>8. /\ LingHas' = LingHas + 1 /\ FromService' = FromService - 1
      /\ UNCHANGED <<ToClient, KingHas, OnStream>>
      => InFlight' = InFlight
  BY <1>1, <1>2
<1>9. /\ FromService' = FromService + 1
      /\ UNCHANGED <<ToClient, KingHas, OnStream, LingHas>>
      => InFlight' = InFlight + 1
  BY <1>1, <1>2
<1> QED  BY ONLY <1>3, <1>4, <1>5, <1>6, <1>7, <1>8, <1>9

\* What is dropped is not delivered, and nothing comes in its place.
LEMMA FlightDrops ==
    ASSUME Typed, Typed',
           ToClient' <= ToClient, KingHas' <= KingHas, OnStream' <= OnStream,
           LingHas' <= LingHas, FromService' <= FromService
    PROVE  InFlight' <= InFlight
<1>1. /\ ToClient \in Nat /\ KingHas \in Nat /\ OnStream \in Nat
      /\ LingHas \in Nat /\ FromService \in Nat
      /\ ToClient' \in Nat /\ KingHas' \in Nat /\ OnStream' \in Nat
      /\ LingHas' \in Nat /\ FromService' \in Nat
  BY FlightTyped, FlightTypedNext
<1>2. /\ InFlight = ToClient + KingHas + OnStream + LingHas + FromService
      /\ InFlight' = ToClient' + KingHas' + OnStream' + LingHas' + FromService'
  BY DEF InFlight
<1>3. /\ ToClient' \in 0..ToClient /\ KingHas' \in 0..KingHas
      /\ OnStream' \in 0..OnStream /\ LingHas' \in 0..LingHas
      /\ FromService' \in 0..FromService
  BY <1>1
<1> QED  BY ONLY <1>1, <1>2, <1>3, SumsKeepOrder

\* The copies, their ends and what they close.
LEMMA Ends ==
    /\ Copier = {"king up", "king down", "ling up", "ling down"}
    /\ From("king up") = "client-king" /\ From("king down") = "ling-king"
    /\ From("ling up") = "king-ling" /\ From("ling down") = "service-ling"
    /\ To("king up") = "king-ling" /\ To("king down") = "king-client"
    /\ To("ling up") = "ling-service" /\ To("ling down") = "ling-king"
    /\ FinAfter("king up") = {"king-ling"} /\ FinAfter("king down") = {}
    /\ FinAfter("ling up") = {"ling-service"} /\ FinAfter("ling down") = {"ling-king"}
    /\ CutAfter("king up") = {} /\ CutAfter("king down") = {"ling-king"}
    /\ CutAfter("ling up") = {"service-ling"} /\ CutAfter("ling down") = {"king-ling"}
  BY DEF Copier, From, To, FinAfter, CutAfter

\* A step that moves nothing keeps the numbers.
LEMMA NothingMoves ==
    ASSUME Inv, Typed', UNCHANGED <<data, hand, got, served>>
    PROVE  /\ InFlight' = InFlight /\ got' + InFlight' <= served'
           /\ Quiet => got' + InFlight' = served'
<1>1. UNCHANGED <<ToClient, KingHas, OnStream, LingHas, FromService>>
  BY DEF ToClient, KingHas, OnStream, LingHas, FromService, Held
<1>2. InFlight' = InFlight
  BY <1>1, FlightMoves DEF Inv
<1> QED  BY <1>2 DEF Inv

\* A step that only drops chunks makes none up.
LEMMA DropsKeep ==
    ASSUME Inv, Typed', UNCHANGED <<hand, got, served>>,
           \A q \in Pipe : data'[q] = data[q] \/ data'[q] = 0
    PROVE  got' + InFlight' <= served'
<1>1. /\ ToClient' <= ToClient /\ OnStream' <= OnStream /\ FromService' <= FromService
  BY FlightTyped, Pipes DEF Inv, ToClient, OnStream, FromService
<1>2. KingHas' <= KingHas /\ LingHas' <= LingHas
  BY DEF KingHas, LingHas, Held
<1>3. InFlight' <= InFlight
  BY <1>1, <1>2, FlightDrops DEF Inv
<1>4. UNCHANGED <<got, served>>
  OBVIOUS
<1> QED  BY ONLY <1>3, <1>4, Inv, FlightTyped, FlightTypedNext, Typed' DEF Inv

-----------------------------------------------------------------------------
(* The client and the service.                                              *)

LEMMA ClientSendsKeeps == ASSUME Inv, ClientSends PROVE Inv'
<1> USE DEF Inv, ClientSends, copies
<1>1. /\ data' \in [Pipe -> 0..Window]
      /\ \A q \in Pipe : q # "client-king" => data'[q] = data[q]
  BY PutOne, Pipes DEF Typed
<1>2. Typed'
  BY <1>1, Numbers DEF Typed
<1>3. InFlight' = InFlight /\ got' = got
  BY <1>1, Pipes
     DEF InFlight, ToClient, KingHas, OnStream, LingHas, FromService, Held
<1>4. Bridges' /\ (Quiet => InOrder)'
  BY <1>1, Pipes DEF Bridges, Quiet, InOrder, Dialled
<1> QED  BY <1>2, <1>3, <1>4 DEF Quiet

LEMMA ServiceReadsKeeps == ASSUME Inv, ServiceReads PROVE Inv'
<1> USE DEF Inv, ServiceReads, copies, ends
<1>1. /\ data' \in [Pipe -> 0..Window]
      /\ \A q \in Pipe : q # "ling-service" => data'[q] = data[q]
  BY TakeOne, Pipes DEF Typed
<1>2. Typed'
  BY <1>1 DEF Typed
<1>3. InFlight' = InFlight /\ got' = got
  BY <1>1, Pipes
     DEF InFlight, ToClient, KingHas, OnStream, LingHas, FromService, Held
<1>4. Bridges' /\ (Quiet => InOrder)'
  BY <1>1, Pipes DEF Bridges, Quiet, InOrder, Dialled
<1> QED  BY <1>2, <1>3, <1>4 DEF Quiet

LEMMA ClientReadsKeeps == ASSUME Inv, ClientReads PROVE Inv'
<1> USE DEF Inv, ClientReads, copies
<1>1. /\ data' \in [Pipe -> 0..Window] /\ data'["king-client"] = data["king-client"] - 1
      /\ \A q \in Pipe : q # "king-client" => data'[q] = data[q]
  BY TakeOne, Pipes DEF Typed
<1>2. Typed'
  BY <1>1 DEF Typed
<1>3. /\ ToClient' = ToClient - 1
      /\ UNCHANGED <<KingHas, OnStream, LingHas, FromService>>
  BY <1>1, Pipes DEF ToClient, KingHas, OnStream, LingHas, FromService, Held
<1>4. InFlight' = InFlight - 1
  BY <1>2, <1>3, FlightMoves
<1>5. got' = got + 1 /\ served' = served
  OBVIOUS
<1>6. got' + InFlight' = got + InFlight
  BY ONLY <1>4, <1>5, FlightTyped, Inv DEF Inv
<1>7. Bridges' /\ (Quiet => InOrder)'
  BY <1>1, Pipes DEF Bridges, Quiet, InOrder, Dialled
<1> QED  BY <1>2, <1>5, <1>6, <1>7 DEF Quiet

LEMMA ServiceSendsKeeps == ASSUME Inv, ServiceSends PROVE Inv'
<1> USE DEF Inv, ServiceSends, copies
<1>1. /\ data' \in [Pipe -> 0..Window]
      /\ data'["service-ling"] = data["service-ling"] + 1
      /\ \A q \in Pipe : q # "service-ling" => data'[q] = data[q]
  BY PutOne, Pipes DEF Typed
<1>2. Typed'
  BY <1>1, Numbers DEF Typed
<1>3. /\ FromService' = FromService + 1
      /\ UNCHANGED <<ToClient, KingHas, OnStream, LingHas>>
  BY <1>1, Pipes DEF ToClient, KingHas, OnStream, LingHas, FromService, Held
<1>4. InFlight' = InFlight + 1
  BY <1>2, <1>3, FlightMoves
<1>5. got' = got /\ served' = served + 1
  OBVIOUS
<1>6. /\ got' + InFlight' <= served'
      /\ got + InFlight = served => got' + InFlight' = served'
  BY ONLY <1>4, <1>5, FlightTyped, Inv DEF Inv
<1>7. "service-ling" \notin fin
  BY DEF Writable
<1>8. Bridges' /\ (Quiet => InOrder)'
  BY <1>1, <1>7, Pipes DEF Bridges, Quiet, InOrder, Dialled
<1> QED  BY <1>2, <1>6, <1>8 DEF Quiet

\* Whoever closes only adds to what is closed; the client leaves the order.
LEMMA PeerEndsKeeps == ASSUME Inv, ClientEnds \/ ServiceEnds PROVE Inv'
<1> USE DEF Inv, copies, ends
<1>1. Typed'
  <2>1. CASE ClientEnds
    BY <2>1, Pipes DEF ClientEnds, Typed
  <2>2. CASE ServiceEnds
    BY <2>2, Pipes DEF ServiceEnds, Typed
  <2> QED  BY <2>1, <2>2
<1>2. UNCHANGED <<got, served, data, hand, copying, king, ling, broken>>
  BY DEF ClientEnds, ServiceEnds
<1>3. Bridges'
  BY <1>2 DEF Bridges
<1>4. (Quiet => InOrder)'
  <2>1. CASE ClientEnds
    BY <2>1 DEF ClientEnds, Quiet
  <2>2. CASE ServiceEnds
    <3> SUFFICES ASSUME Quiet' PROVE InOrder'
      OBVIOUS
    <3>1. /\ "service-ling" \in fin'
          /\ \A p \in Pipe : p # "service-ling" => (p \in fin' <=> p \in fin)
          /\ \A p \in Pipe : p # "ling-service" => (p \in cut' <=> p \in cut)
      BY <2>2 DEF ServiceEnds
    <3>2. Quiet
      BY <1>2, <3>1, Pipes DEF Quiet
    <3> QED  BY ONLY <1>2, <3>1, <3>2, Inv, Pipes DEF Inv, InOrder, Dialled
  <2> QED  BY <2>1, <2>2
<1>5. Quiet' => Quiet
  BY <1>2 DEF ClientEnds, ServiceEnds, Quiet
<1> QED  BY <1>1, <1>2, <1>3, <1>4, <1>5, NothingMoves

\* A reset takes data with it, and the exchange is not orderly after it.
LEMMA ResetKeeps == ASSUME Inv, NEW p \in Socket, Reset(p) PROVE Inv'
<1> USE DEF Inv, Reset, copies, ends
<1>1. p \in Pipe /\ Opposite(p) \in Pipe
  BY Pipes DEF Opposite
<1>2. /\ data' \in [Pipe -> 0..Window]
      /\ \A q \in Pipe : data'[q] = data[q] \/ data'[q] = 0
  BY <1>1, Numbers DEF Typed
<1>3. Typed'
  BY <1>1, <1>2 DEF Typed
<1>4. got' + InFlight' <= served'
  BY <1>2, <1>3, DropsKeep
<1>5. Bridges' /\ ~Quiet'
  BY DEF Bridges, Quiet
<1> QED  BY <1>3, <1>4, <1>5

-----------------------------------------------------------------------------
(* The ling's connection.                                                   *)

LEMMA LinkLostKeeps == ASSUME Inv, LinkLost PROVE Inv'
<1> USE DEF Inv, LinkLost, Changes, copies, ends
<1>1. /\ data' \in [Pipe -> 0..Window] /\ broken' \subseteq Pipe
      /\ \A q \in Pipe : data'[q] = data[q] \/ data'[q] = 0
      /\ broken' = {} => data' = data
  BY Pipes, Numbers DEF Typed
<1>2. left' \in 0..MaxChanges
  BY Numbers DEF Typed
<1>3. Typed'
  BY <1>1, <1>2 DEF Typed
<1>4. got' + InFlight' <= served'
  BY <1>1, <1>3, DropsKeep
<1>5. Bridges'
  BY DEF Bridges
<1>6. Quiet' => got' + InFlight' = served' /\ InOrder'
  <2> SUFFICES ASSUME Quiet' PROVE got' + InFlight' = served' /\ InOrder'
    OBVIOUS
  <2>1. data' = data
    BY <1>1 DEF Quiet
  <2>2. Quiet
    BY Pipes DEF Quiet
  <2>3. got' + InFlight' = served'
    BY <1>3, <2>1, <2>2, NothingMoves
  <2>4. InOrder'
    BY <2>1, <2>2 DEF InOrder, Dialled
  <2> QED  BY <2>3, <2>4
<1> QED  BY <1>3, <1>4, <1>5, <1>6

LEMMA LinkKeeps == ASSUME Inv, Connects \/ Signal PROVE Inv'
<1> USE DEF Inv, pipes, copies, ends
<1>1. UNCHANGED <<data, fin, cut, broken, copying, hand, king, ling, got, served>>
  BY DEF Connects, Signal
<1>2. Typed'
  <2>1. left' \in 0..MaxChanges
    BY Numbers DEF Connects, Signal, Changes, Typed
  <2>2. /\ link' \in {"none", "up", "dead"} /\ signalled' \in BOOLEAN
        /\ tries' = tries /\ sent' = sent
    BY DEF Connects, Signal, Typed
  <2> QED  BY <1>1, <2>1, <2>2 DEF Typed
<1>3. Bridges' /\ (Quiet => InOrder)' /\ (Quiet' => Quiet)
  BY <1>1 DEF Bridges, Quiet, InOrder, Dialled
<1> QED  BY <1>1, <1>2, <1>3, NothingMoves

-----------------------------------------------------------------------------
(* The king and the ling.                                                   *)

LEMMA KingStartsKeeps == ASSUME Inv, KingAccept \/ OpenStream \/ Retry PROVE Inv'
<1> USE DEF Inv, pipes, copies, ends
<1>1. /\ UNCHANGED <<data, fin, cut, broken, copying, hand, ling, got, served>>
      /\ king \in {"idle", "open"} /\ king' \in {"open", "header"}
  BY DEF KingAccept, OpenStream, Retry
<1>2. Typed'
  <2>1. tries' \in 0..quicStreamOpenRetries /\ left' \in 0..MaxChanges
    BY Numbers DEF KingAccept, OpenStream, Retry, Changes, Typed
  <2>2. link' \in {"none", "up", "dead"} /\ signalled' \in BOOLEAN
    BY DEF KingAccept, OpenStream, Retry, Typed
  <2>3. sent' \in 0..MaxRequest /\ served' \in 0..MaxResponse
    BY DEF KingAccept, OpenStream, Retry, Typed
  <2> QED  BY <1>1, <2>1, <2>2, <2>3 DEF Typed
<1>3. Bridges' /\ (Quiet => InOrder)' /\ (Quiet' => Quiet)
  BY <1>1 DEF Bridges, Quiet, InOrder, Dialled
<1> QED  BY <1>1, <1>2, <1>3, NothingMoves

\* The header has been written: until now the ling has not heard of the stream.
LEMMA WriteHeaderKeeps == ASSUME Inv, WriteHeader PROVE Inv'
<1> USE DEF Inv, WriteHeader, pipes, ends
<1>1. Typed'
  BY Ends DEF Typed
<1>2. Bridges'
  BY DEF Bridges
<1>3. (Quiet => InOrder)' /\ (Quiet' => Quiet)
  BY DEF Quiet, InOrder, Dialled
<1> QED  BY <1>1, <1>2, <1>3, NothingMoves

\* The local connection is closed: before a stream there was, or after both
\* copies, in an orderly exchange because the response is complete.
LEMMA HangupKeeps == ASSUME Inv, GiveUp \/ WriteHeaderFails \/ BridgeDone PROVE Inv'
<1> USE DEF Inv, Hangup, copies, ends
<1>1. /\ UNCHANGED <<data, broken, copying, hand, ling, got, served>>
      /\ fin' = fin \cup {"king-client"} /\ cut' = cut \cup {"client-king"}
      /\ king' = "closed"
  BY DEF GiveUp, WriteHeaderFails, BridgeDone
<1>2. Typed'
  <2>1. /\ tries' = tries /\ link' = link /\ signalled' = signalled
        /\ sent' = sent /\ left' = left
    BY DEF GiveUp, WriteHeaderFails, BridgeDone
  <2> QED  BY <1>1, <2>1, Pipes DEF Typed
<1>3. Bridges'
  BY <1>1 DEF GiveUp, WriteHeaderFails, BridgeDone, Bridges
<1>4. Quiet' => Quiet
  BY <1>1 DEF Quiet
<1>5. ASSUME Quiet' PROVE InOrder'
  <2>1. ling = "idle" \/ "ling-king" \in cut
    BY <1>1, <1>4, <1>5 DEF GiveUp, WriteHeaderFails, BridgeDone, Quiet, InOrder
  <2>2. /\ \A p \in Pipe : p # "king-client" => (p \in fin' <=> p \in fin)
        /\ \A p \in Pipe : p # "client-king" => (p \in cut' <=> p \in cut)
    BY <1>1
  <2> QED  BY ONLY <1>1, <1>4, <1>5, <2>1, <2>2, Inv, Pipes DEF Inv, InOrder, Dialled
<1> QED  BY <1>1, <1>2, <1>3, <1>4, <1>5, NothingMoves

\* A stream the ling hears of has been handed to bridgeStreams, and is open.
LEMMA AcceptStreamKeeps == ASSUME Inv, AcceptStream PROVE Inv'
<1> USE DEF Inv, AcceptStream, pipes, copies, ends
<1>1. Typed'
  BY DEF Typed
<1>2. Bridges' /\ (Quiet' => Quiet)
  BY DEF Bridges, Quiet
<1>3. ASSUME Quiet' PROVE InOrder'
  <2>1. "ling-king" \notin fin /\ king = "bridge"
    BY <1>2, <1>3 DEF InOrder, Dialled
  <2> QED  BY <1>2, <1>3, <2>1 DEF InOrder, Dialled
<1> QED  BY <1>1, <1>2, <1>3, NothingMoves

LEMMA RefuseKeeps == ASSUME Inv, Refuse PROVE Inv'
<1> USE DEF Inv, Refuse, copies, ends
<1>1. Typed'
  BY Pipes DEF Typed
<1>2. Bridges' /\ ~Quiet'
  BY DEF Bridges, Quiet
<1> QED  BY <1>1, <1>2, NothingMoves

LEMMA DialServiceKeeps == ASSUME Inv, DialService PROVE Inv'
<1> USE DEF Inv, DialService, pipes, ends
<1>1. Typed'
  BY Ends DEF Typed
<1>2. Bridges' /\ (Quiet' => Quiet)
  BY DEF Bridges, Quiet
<1>3. ASSUME Quiet' PROVE InOrder'
  <2>1. "ling-king" \notin fin
    BY <1>2, <1>3 DEF InOrder, Dialled
  <2>2. "king down" \in copying' <=> "king down" \in copying
    OBVIOUS
  <2> QED  BY <1>2, <1>3, <2>1, <2>2 DEF InOrder, Dialled
<1> QED  BY <1>1, <1>2, <1>3, NothingMoves

LEMMA LingDoneKeeps == ASSUME Inv, LingDone PROVE Inv'
<1> USE DEF Inv, LingDone, pipes, copies, ends
<1>1. Typed'
  BY DEF Typed
<1>2. Bridges' /\ (Quiet => InOrder)' /\ (Quiet' => Quiet)
  BY DEF Bridges, Quiet, InOrder, Dialled
<1> QED  BY <1>1, <1>2, NothingMoves

-----------------------------------------------------------------------------
(* The copies.                                                              *)

\* What a copy reads it holds until it has written it.
LEMMA ReadKeeps == ASSUME Inv, NEW g \in Copier, Read(g) PROVE Inv'
<1> USE DEF Inv, ends
<1>1. From(g) \in Pipe
  BY Ends, Pipes
<1>2. /\ data' \in [Pipe -> 0..Window] /\ data'[From(g)] = data[From(g)] - 1
      /\ \A q \in Pipe : q # From(g) => data'[q] = data[q]
  BY <1>1, TakeOne DEF Typed, Read
<1>3. /\ UNCHANGED <<fin, cut, broken, copying, king, tries, ling, link, signalled,
                     sent, served, got, left>>
      /\ g \in copying \ hand /\ hand' = hand \cup {g} /\ data[From(g)] > 0
  BY DEF Read, Readable
<1>4. Typed'
  BY <1>2, <1>3 DEF Typed
<1>5. InFlight' = InFlight
  <2>1. CASE g \in {"king up", "ling up"}
    <3>1. UNCHANGED <<ToClient, KingHas, OnStream, LingHas, FromService>>
      BY <1>2, <1>3, <2>1, Ends, Pipes
         DEF ToClient, KingHas, OnStream, LingHas, FromService, Held
    <3> QED  BY <1>4, <3>1, FlightMoves
  <2>2. CASE g = "king down"
    <3>1. OnStream' = OnStream - 1 /\ UNCHANGED <<ToClient, FromService>>
      BY <1>2, <2>2, Ends, Pipes DEF ToClient, OnStream, FromService
    <3>2. KingHas = 0 /\ KingHas' = 1 /\ UNCHANGED LingHas
      BY <1>3, <2>2 DEF KingHas, LingHas, Held
    <3>3. KingHas' = KingHas + 1
      BY ONLY <3>2
    <3> QED  BY <1>4, <3>1, <3>2, <3>3, FlightMoves
  <2>3. CASE g = "ling down"
    <3>1. FromService' = FromService - 1 /\ UNCHANGED <<ToClient, OnStream>>
      BY <1>2, <2>3, Ends, Pipes DEF ToClient, OnStream, FromService
    <3>2. LingHas = 0 /\ LingHas' = 1 /\ UNCHANGED KingHas
      BY <1>3, <2>3 DEF KingHas, LingHas, Held
    <3>3. LingHas' = LingHas + 1
      BY ONLY <3>2
    <3> QED  BY <1>4, <3>1, <3>2, <3>3, FlightMoves
  <2> QED  BY <2>1, <2>2, <2>3, Ends
<1>6. Bridges' /\ (Quiet' => Quiet)
  BY <1>3 DEF Bridges, Quiet
<1>7. ASSUME Quiet' PROVE InOrder'
  <2>1. InOrder
    BY <1>6, <1>7
  <2>2. \A q \in Pipe : data[q] = 0 => data'[q] = 0
    BY <1>2, <1>3
  <2> QED  BY ONLY <1>3, <2>1, <2>2, Pipes DEF InOrder, Dialled
<1> QED  BY <1>3, <1>4, <1>5, <1>6, <1>7

\* A copy writes only until its pipe is ended, and what it writes it held.
LEMMA WriteKeeps == ASSUME Inv, NEW g \in Copier, Write(g) PROVE Inv'
<1> USE DEF Inv, ends
<1>1. To(g) \in Pipe
  BY Ends, Pipes
<1>2. /\ data' \in [Pipe -> 0..Window] /\ data'[To(g)] = data[To(g)] + 1
      /\ \A q \in Pipe : q # To(g) => data'[q] = data[q]
  BY <1>1, PutOne DEF Typed, Write
<1>3. /\ UNCHANGED <<fin, cut, broken, copying, king, tries, ling, link, signalled,
                     sent, served, got, left>>
      /\ g \in hand /\ g \in copying /\ hand' = hand \ {g}
      /\ To(g) \notin cut \cap Stream
  BY DEF Write, Typed
<1>4. Typed'
  BY <1>2, <1>3 DEF Typed
<1>5. InFlight' = InFlight
  <2>1. CASE g \in {"king up", "ling up"}
    <3>1. UNCHANGED <<ToClient, KingHas, OnStream, LingHas, FromService>>
      BY <1>2, <1>3, <2>1, Ends, Pipes
         DEF ToClient, KingHas, OnStream, LingHas, FromService, Held
    <3> QED  BY <1>4, <3>1, FlightMoves
  <2>2. CASE g = "king down"
    <3>1. ToClient' = ToClient + 1 /\ UNCHANGED <<OnStream, FromService>>
      BY <1>2, <2>2, Ends, Pipes DEF ToClient, OnStream, FromService
    <3>2. KingHas = 1 /\ KingHas' = 0 /\ UNCHANGED LingHas
      BY <1>3, <2>2 DEF KingHas, LingHas, Held
    <3>3. KingHas' = KingHas - 1
      BY ONLY <3>2
    <3> QED  BY <1>4, <3>1, <3>2, <3>3, FlightMoves
  <2>3. CASE g = "ling down"
    <3>1. OnStream' = OnStream + 1 /\ UNCHANGED <<ToClient, FromService>>
      BY <1>2, <2>3, Ends, Pipes DEF ToClient, OnStream, FromService
    <3>2. LingHas = 1 /\ LingHas' = 0 /\ UNCHANGED KingHas
      BY <1>3, <2>3 DEF KingHas, LingHas, Held
    <3>3. LingHas' = LingHas - 1
      BY ONLY <3>2
    <3> QED  BY <1>4, <3>1, <3>2, <3>3, FlightMoves
  <2> QED  BY <2>1, <2>2, <2>3, Ends
<1>6. Bridges' /\ (Quiet' => Quiet)
  BY <1>3 DEF Bridges, Quiet
<1>7. ASSUME Quiet' PROVE InOrder'
  <2>1. InOrder
    BY <1>6, <1>7
  <2>2. /\ data'["service-ling"] = data["service-ling"]
        /\ "ling-king" \notin cut \/ data'["ling-king"] = data["ling-king"]
    BY <1>2, <1>3, Ends, Pipes
  <2> QED  BY ONLY <1>3, <2>1, <2>2 DEF InOrder, Dialled
<1> QED  BY <1>3, <1>4, <1>5, <1>6, <1>7

\* When a copy ends: what it closes and lets go, and what stays.
LEMMA CopyEndsTyped ==
    ASSUME Inv, NEW g \in Copier, CopyEnds(g)
    PROVE  /\ Typed' /\ Bridges' /\ got' + InFlight' <= served' /\ (Quiet' => Quiet)
           /\ UNCHANGED <<broken, king, ling, got, served>>
           /\ g \in copying /\ copying' = copying \ {g} /\ hand' = hand \ {g}
           /\ fin' = fin \cup FinAfter(g) /\ cut' = cut \cup CutAfter(g)
           /\ \A q \in Pipe : q \notin CutAfter(g) \cap Stream => data'[q] = data[q]
           /\ \A q \in CutAfter(g) \cap Stream : data'[q] = 0
<1> USE DEF Inv, ends
<1>1. /\ UNCHANGED <<broken, king, tries, ling, link, signalled, sent, served, got,
                     left>>
      /\ copying' = copying \ {g} /\ hand' = hand \ {g}
      /\ fin' = fin \cup FinAfter(g) /\ cut' = cut \cup CutAfter(g)
  BY DEF CopyEnds
<1>2. g \in copying
  BY DEF CopyEnds, ReadEnds, WriteFails, Typed
<1>3. /\ data' \in [Pipe -> 0..Window]
      /\ \A q \in Pipe : data'[q] = data[q] \/ data'[q] = 0
      /\ \A q \in Pipe : q \notin CutAfter(g) \cap Stream => data'[q] = data[q]
      /\ \A q \in CutAfter(g) \cap Stream : data'[q] = 0
  BY Numbers, Pipes DEF CopyEnds, Typed
<1>4. FinAfter(g) \subseteq Pipe /\ CutAfter(g) \subseteq Pipe
  BY Ends, Pipes
<1>5. Typed'
  BY <1>1, <1>3, <1>4 DEF Typed
<1>6. InFlight' <= InFlight
  <2>1. ToClient' <= ToClient /\ OnStream' <= OnStream /\ FromService' <= FromService
    BY <1>3, FlightTyped, Pipes DEF ToClient, OnStream, FromService
  <2>2. KingHas' \in {KingHas, 0} /\ LingHas' \in {LingHas, 0}
    BY <1>1 DEF KingHas, LingHas, Held
  <2>3. KingHas' <= KingHas /\ LingHas' <= LingHas
    BY ONLY <2>2, Inv, FlightTyped DEF Inv
  <2> QED  BY <1>5, <2>3, <2>1, <2>2, FlightDrops
<1>7. got' + InFlight' <= served'
  BY ONLY <1>1, <1>5, <1>6, Inv, FlightTyped, FlightTypedNext DEF Inv
<1>8. Bridges' /\ (Quiet' => Quiet)
  BY <1>1 DEF Bridges, Quiet
<1> QED  BY <1>1, <1>2, <1>3, <1>5, <1>7, <1>8

\* With no connection broken, a copy ends because it read everything, or one of
\* its pipes was cut.
LEMMA WhyEnds ==
    ASSUME broken = {}, NEW g, CopyEnds(g)
    PROVE  \/ g \notin hand /\ From(g) \in cut
           \/ g \notin hand /\ From(g) \in fin /\ data[From(g)] = 0
           \/ To(g) \in cut /\ To(g) \in Stream
<1>1. CASE ReadEnds(g)
  BY <1>1 DEF ReadEnds
<1>2. CASE WriteFails(g)
  BY <1>2 DEF WriteFails
<1> QED  BY <1>1, <1>2 DEF CopyEnds

\* In an orderly exchange the king's copy of the request does not end before
\* the ling has ended the stream: the client goes on.
LEMMA KingUpEnds ==
    ASSUME Inv, Quiet, CopyEnds("king up")
    PROVE  InFlight' = InFlight /\ InOrder'
<1>1. "king up" \in Copier
  BY Ends
<1>2. "ling-king" \in fin
  <2>1. "king up" \in copying
    BY <1>1, CopyEndsTyped
  <2>2. king = "bridge"
    BY <2>1 DEF Inv, Bridges
  <2>3. "client-king" \notin cut /\ "client-king" \notin fin
    BY <2>2 DEF Inv, Quiet, InOrder
  <2>4. \/ From("king up") \in cut \/ From("king up") \in fin
        \/ To("king up") \in cut
    BY ONLY CopyEnds("king up"), Quiet, WhyEnds DEF Quiet
  <2>5. "client-king" \in cut \/ "client-king" \in fin \/ "king-ling" \in cut
    BY ONLY <2>4, Ends
  <2> QED  BY <2>3, <2>5 DEF Inv, InOrder
<1>3. /\ UNCHANGED <<king, ling, cut>> /\ fin' = fin \cup {"king-ling"}
      /\ copying' = copying \ {"king up"} /\ hand' = hand \ {"king up"}
      /\ \A q \in Pipe : data'[q] = data[q]
  <2>1. FinAfter("king up") = {"king-ling"} /\ CutAfter("king up") = {}
    BY ONLY Ends
  <2>2. /\ UNCHANGED <<king, ling>> /\ fin' = fin \cup FinAfter("king up")
        /\ cut' = cut \cup CutAfter("king up")
        /\ copying' = copying \ {"king up"} /\ hand' = hand \ {"king up"}
        /\ \A q \in Pipe : q \notin CutAfter("king up") \cap Stream => data'[q] = data[q]
    BY <1>1, CopyEndsTyped
  <2> QED  BY ONLY <2>1, <2>2
<1>4. UNCHANGED <<ToClient, KingHas, OnStream, LingHas, FromService>>
  BY <1>3, Pipes DEF ToClient, KingHas, OnStream, LingHas, FromService, Held
<1>5. InFlight' = InFlight
  BY <1>1, <1>4, CopyEndsTyped, FlightMoves DEF Inv
<1>6. InOrder'
  BY <1>2, <1>3, Pipes DEF Inv, InOrder, Dialled
<1> QED  BY <1>5, <1>6

\* Nor does the ling's, as the stream towards it ends and is cut after that.
LEMMA LingUpEnds ==
    ASSUME Inv, Quiet, CopyEnds("ling up")
    PROVE  InFlight' = InFlight /\ InOrder'
<1>1. "ling up" \in Copier
  BY Ends
<1>2. "ling-king" \in fin
  <2>1. \/ From("ling up") \in cut \/ From("ling up") \in fin
        \/ To("ling up") \in Stream
    BY ONLY CopyEnds("ling up"), Quiet, WhyEnds DEF Quiet
  <2>2. "king-ling" \in cut \/ "king-ling" \in fin
    BY ONLY <2>1, Ends, Pipes
  <2> QED  BY <2>2 DEF Inv, InOrder
<1>3. /\ UNCHANGED <<king, ling>>
      /\ fin' = fin \cup {"ling-service"} /\ cut' = cut \cup {"service-ling"}
      /\ copying' = copying \ {"ling up"} /\ hand' = hand \ {"ling up"}
      /\ \A q \in Pipe : data'[q] = data[q]
  BY <1>1, CopyEndsTyped, Ends, Pipes
<1>4. UNCHANGED <<ToClient, KingHas, OnStream, LingHas, FromService>>
  BY <1>3, Pipes DEF ToClient, KingHas, OnStream, LingHas, FromService, Held
<1>5. InFlight' = InFlight
  BY <1>1, <1>4, CopyEndsTyped, FlightMoves DEF Inv
<1>6. InOrder'
  BY <1>2, <1>3, Pipes DEF Inv, InOrder, Dialled
<1> QED  BY <1>5, <1>6

\* The ling's copy of the response ends when it has written all of it.
LEMMA LingDownEnds ==
    ASSUME Inv, Quiet, CopyEnds("ling down")
    PROVE  InFlight' = InFlight /\ InOrder'
<1>1. "ling down" \in Copier
  BY Ends
<1>2. "ling down" \in copying /\ ling = "bridge" /\ "ling-king" \notin fin \cup cut
  BY <1>1, CopyEndsTyped DEF Inv, Bridges, InOrder
<1>3. /\ "ling down" \notin hand
      /\ "service-ling" \in fin /\ data["service-ling"] = 0
  <2>1. "service-ling" \notin cut
    BY <1>2 DEF Inv, InOrder
  <2>2. \/ /\ "ling down" \notin hand
           /\ \/ From("ling down") \in cut
              \/ From("ling down") \in fin /\ data[From("ling down")] = 0
        \/ To("ling down") \in cut
    BY ONLY CopyEnds("ling down"), Quiet, WhyEnds DEF Quiet
  <2>3. From("ling down") = "service-ling" /\ To("ling down") = "ling-king"
    BY ONLY Ends
  <2> QED  BY ONLY <1>2, <2>1, <2>2, <2>3
<1>4. /\ UNCHANGED <<king, ling>>
      /\ fin' = fin \cup {"ling-king"} /\ cut' = cut \cup {"king-ling"}
      /\ copying' = copying \ {"ling down"} /\ hand' = hand \ {"ling down"}
      /\ \A q \in Pipe : q # "king-ling" => data'[q] = data[q]
  BY <1>1, CopyEndsTyped, Ends, Pipes
<1>5. UNCHANGED <<ToClient, KingHas, OnStream, LingHas, FromService>>
  BY <1>3, <1>4, Pipes DEF ToClient, KingHas, OnStream, LingHas, FromService, Held
<1>6. InFlight' = InFlight
  BY <1>1, <1>5, CopyEndsTyped, FlightMoves DEF Inv
<1>7. InOrder'
  BY <1>2, <1>3, <1>4, Pipes DEF Inv, InOrder, Dialled
<1> QED  BY <1>6, <1>7

\* The king's ends when it has read the stream to the end.
LEMMA KingDownEnds ==
    ASSUME Inv, Quiet, CopyEnds("king down")
    PROVE  InFlight' = InFlight /\ InOrder'
<1>1. "king down" \in Copier
  BY Ends
<1>2. "king down" \in copying /\ "ling-king" \notin cut
  BY <1>1, CopyEndsTyped DEF Inv, InOrder
<1>3. "king down" \notin hand /\ "ling-king" \in fin /\ data["ling-king"] = 0
  <2>1. "king-client" \notin Stream
    BY Pipes
  <2>2. \/ /\ "king down" \notin hand
           /\ \/ From("king down") \in cut
              \/ From("king down") \in fin /\ data[From("king down")] = 0
        \/ To("king down") \in Stream
    BY ONLY CopyEnds("king down"), Quiet, WhyEnds DEF Quiet
  <2>3. From("king down") = "ling-king" /\ To("king down") = "king-client"
    BY ONLY Ends
  <2> QED  BY ONLY <1>2, <2>1, <2>2, <2>3
<1>4. /\ UNCHANGED <<king, ling, fin>> /\ cut' = cut \cup {"ling-king"}
      /\ copying' = copying \ {"king down"} /\ hand' = hand \ {"king down"}
      /\ \A q \in Pipe : data'[q] = data[q]
  <2>1. /\ FinAfter("king down") = {} /\ CutAfter("king down") = {"ling-king"}
        /\ "ling-king" \in Stream
    BY ONLY Ends, Pipes
  <2>2. /\ UNCHANGED <<king, ling>> /\ fin' = fin \cup FinAfter("king down")
        /\ cut' = cut \cup CutAfter("king down")
        /\ copying' = copying \ {"king down"} /\ hand' = hand \ {"king down"}
        /\ \A q \in Pipe : q \notin CutAfter("king down") \cap Stream => data'[q] = data[q]
        /\ \A q \in CutAfter("king down") \cap Stream : data'[q] = 0
    BY <1>1, CopyEndsTyped
  <2> QED  BY ONLY <1>3, <2>1, <2>2
<1>5. UNCHANGED <<ToClient, KingHas, OnStream, LingHas, FromService>>
  BY <1>3, <1>4, Pipes DEF ToClient, KingHas, OnStream, LingHas, FromService, Held
<1>6. InFlight' = InFlight
  BY <1>1, <1>5, CopyEndsTyped, FlightMoves DEF Inv
<1>7. InOrder'
  BY <1>2, <1>3, <1>4, Pipes DEF Inv, InOrder, Dialled
<1> QED  BY <1>6, <1>7

LEMMA CopyEndsKeeps == ASSUME Inv, NEW g \in Copier, CopyEnds(g) PROVE Inv'
<1>1. Quiet => InFlight' = InFlight /\ InOrder'
  BY KingUpEnds, LingUpEnds, LingDownEnds, KingDownEnds, Ends
<1> QED  BY <1>1, CopyEndsTyped DEF Inv

-----------------------------------------------------------------------------
LEMMA InitInv == Init => Inv
<1> SUFFICES ASSUME Init PROVE Inv
  OBVIOUS
<1>1. data \in [Pipe -> 0..Window]
  BY Numbers DEF Init
<1>2. Typed
  <2>1. /\ tries \in 0..quicStreamOpenRetries
        /\ sent \in 0..MaxRequest /\ served \in 0..MaxResponse /\ left \in 0..MaxChanges
        /\ got \in Nat
    BY Numbers DEF Init
  <2> QED  BY <1>1, <2>1 DEF Init, Typed
<1>3. got + InFlight = 0 /\ served = 0
  BY Pipes
     DEF Init, InFlight, ToClient, KingHas, OnStream, LingHas, FromService, Held
<1>4. Bridges /\ InOrder
  BY <1>3 DEF Init, Bridges, InOrder
<1> QED  BY <1>2, <1>3, <1>4 DEF Inv

LEMMA NextKeeps == ASSUME Inv, Next PROVE Inv'
<1>1. CASE ClientSends \/ ClientReads \/ ServiceSends \/ ServiceReads
  BY <1>1, ClientSendsKeeps, ClientReadsKeeps, ServiceSendsKeeps, ServiceReadsKeeps
<1>2. CASE ClientEnds \/ ServiceEnds
  BY <1>2, PeerEndsKeeps
<1>3. CASE \E p \in Socket : Reset(p)
  BY <1>3, ResetKeeps
<1>4. CASE Connects \/ LinkLost \/ Signal
  BY <1>4, LinkKeeps, LinkLostKeeps
<1>5. CASE KingAccept \/ KingStep
  BY <1>5, KingStartsKeeps, HangupKeeps, WriteHeaderKeeps DEF KingStep
<1>6. CASE LingStep
  BY <1>6, AcceptStreamKeeps, RefuseKeeps, DialServiceKeeps, LingDoneKeeps DEF LingStep
<1>7. CASE \E g \in Copier : Copy(g)
  BY <1>7, ReadKeeps, WriteKeeps, CopyEndsKeeps DEF Copy
<1> QED  BY <1>1, <1>2, <1>3, <1>4, <1>5, <1>6, <1>7 DEF Next

LEMMA StutterKeeps == ASSUME Inv, UNCHANGED vars PROVE Inv'
<1>1. UNCHANGED <<data, fin, cut, broken, copying, hand, king, tries, ling, link,
                  signalled, sent, served, got, left>>
  BY DEF vars, pipes, copies, ends
<1>2. Typed'
  BY <1>1 DEF Inv, Typed
<1>3. Bridges' /\ (Quiet => InOrder)' /\ (Quiet' => Quiet)
  BY <1>1 DEF Inv, Bridges, Quiet, InOrder, Dialled
<1> QED  BY <1>1, <1>2, <1>3, NothingMoves DEF Inv

\* The invariant holds in every reachable state.
THEOREM Invariance == Spec => []Inv
<1>1. Inv /\ [Next]_vars => Inv'
  BY NextKeeps, StutterKeeps
<1> QED  BY InitInv, <1>1, PTL DEF Spec

\* The types hold throughout; and what the client has read and what the hops and
\* the two io.Copy of the response hold is never more than the service has sent:
\* no chunk is made up or counted twice, whatever is reset, lost or cut short.
THEOREM TypeSafe == Spec => []TypeOK
<1>1. Inv => TypeOK
  <2> SUFFICES ASSUME Inv PROVE TypeOK
    OBVIOUS
  <2>1. got + data["king-client"] + Held("king down") + data["ling-king"]
          + Held("ling down") + data["service-ling"] <= served
    <3>1. /\ ToClient \in Nat /\ KingHas \in Nat /\ OnStream \in Nat
          /\ LingHas \in Nat /\ FromService \in Nat /\ got \in Nat /\ served \in Nat
      BY FlightTyped DEF Inv
    <3>2. got + (ToClient + KingHas + OnStream + LingHas + FromService) <= served
      BY DEF Inv, InFlight
    <3>3. got + ToClient + KingHas + OnStream + LingHas + FromService <= served
      BY ONLY <3>1, <3>2
    <3> QED  BY <3>3 DEF ToClient, KingHas, OnStream, LingHas, FromService
  <2> QED  BY <2>1 DEF Inv, Typed, TypeOK
<1> QED  BY <1>1, Invariance, PTL

\* While the client keeps both its sides open, nothing is lost or reset and the
\* ling has reached the service, the client sees the end of the response only
\* after all the service has sent: handleTCPConnection closes the connection when
\* both directions have ended, and they end in that order.
THEOREM WholeResponse == Spec => []NoTruncation
<1>1. Inv => NoTruncation
  <2> SUFFICES ASSUME Inv, Orderly, "king-client" \in fin, data["king-client"] = 0
               PROVE  "service-ling" \in fin /\ got = served
    BY DEF NoTruncation
  <2>1. Quiet /\ ling # "idle"
    BY DEF Orderly, Quiet, Dialled
  <2>2. /\ "ling-king" \in cut /\ "service-ling" \in fin
        /\ data["ling-king"] = 0 /\ data["service-ling"] = 0
        /\ "king down" \notin hand /\ "ling down" \notin hand
    BY <2>1 DEF Inv, Typed, InOrder
  <2>3. InFlight = 0
    <3>1. /\ ToClient = 0 /\ KingHas = 0 /\ OnStream = 0 /\ LingHas = 0
          /\ FromService = 0
      BY <2>2 DEF ToClient, KingHas, OnStream, LingHas, FromService, Held
    <3> QED  BY <3>1 DEF InFlight
  <2>4. got = served
    BY <2>1, <2>3, FlightTyped DEF Inv
  <2> QED  BY <2>2, <2>4
<1> QED  BY <1>1, Invariance, PTL
=============================================================================
