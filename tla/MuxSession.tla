------------------------------ MODULE MuxSession ------------------------------
(***************************************************************************)
(* One session of the hawal-core transport (core/mux), with the goroutines *)
(* that use it on both sides: the entry server, which opens a stream for   *)
(* every user connection (core/server), and the client on the foreign      *)
(* node, which accepts streams and dials the target (core/client).         *)
(*                                                                         *)
(* Per side: readLoop, pingLoop, and for every stream two copiers, one     *)
(* that pumps the local TCP connection into the stream and one that drains *)
(* the stream into it.  An action is what a goroutine does between two     *)
(* points where another one can interfere: a critical section of           *)
(* streamsMu, the write of a frame, a channel operation.                   *)
(*                                                                         *)
(* Writing a frame happens under writeMu and blocks while the TCP buffers  *)
(* are full; as every writer of a side then waits for the same buffers, it *)
(* is one step that needs room in `wire`.  A chunk is one Write of a       *)
(* copier: its buffer has the size of the largest payload, so it is one    *)
(* frame.  Stream ids are numbered from 1 in the order of OpenStream.      *)
(*                                                                         *)
(* Stream.closed is not a variable: only the pumping copier, and the       *)
(* handler after it, call Close, and only that copier calls Write, so the  *)
(* test in Write never fails.                                              *)
(*                                                                         *)
(* There is no half-close: a side that ends its connection, or loses it,   *)
(* closes the stream for both directions, and what the other side still    *)
(* sends is dropped; what it wrote itself is not. taker and refused are    *)
(* history variables that say how a stream ended; no action reads them.    *)
(***************************************************************************)
EXTENDS Naturals, Sequences

CONSTANTS
    MaxStreams,     \* bound: user connections
    MaxChunks,      \* bound: chunks written per stream and direction
    MaxPings,       \* bound: pings per side
    WireCap,        \* frames the TCP buffers of one direction hold
    ChanCap,        \* capacity of a stream's readChan (128)
    AcceptCap,      \* capacity of acceptChan (256)
    Disturbances    \* which of "break", "replace", "eof", "reset", "nodial"
                    \* may happen

ASSUME MuxAssumption ==
    /\ MaxStreams \in Nat /\ MaxChunks \in Nat /\ MaxPings \in Nat
    /\ WireCap \in Nat \ {0} /\ ChanCap \in Nat \ {0} /\ AcceptCap \in Nat \ {0}

Sides == {"server", "client"}
Peer(s) == IF s = "server" THEN "client" ELSE "server"
Ids == 1 .. MaxStreams

VARIABLES
    alive,          \* side -> its process has not panicked
    broken,         \* the TCP connection was lost
    closed,         \* side -> Session.closed; conn is closed with it
    wire,           \* side -> frames it wrote that the peer has not read
    opened,         \* streams opened so far, nextStreamID
    streams,        \* side -> ids in Session.streams
    chan,           \* side -> id -> readChan
    acceptChan,     \* the client's acceptChan
    reader,         \* side -> readLoop: position, and stream and chunk in hand
    pump,           \* side -> id -> copier from the connection to the stream
    drain,          \* side -> id -> copier from the stream to the connection
    local,          \* side -> id -> the TCP connection of the stream
    sent,           \* side -> id -> chunks written to the stream
    got,            \* side -> id -> chunks the drain passed on
    pings,          \* side -> pings sent
    taker,          \* side -> id -> what took the stream out of streams
    refused         \* side -> ids whose connection could not be dialed, or
                    \* broke with a chunk in hand

vars == <<alive, broken, closed, wire, opened, streams, chan, acceptChan,
          reader, pump, drain, local, sent, got, pings, taker, refused>>

sessionVars == <<closed, streams, chan, taker>>
copyVars == <<pump, drain, local, sent, got, refused>>

Chunks == 1 .. MaxChunks
Frame(type, k, n) == [type |-> type, id |-> k, chunk |-> n]
\* What WriteFrame is called with: ping and pong belong to no stream, and only
\* data has a payload.
Frames ==
    [type : {"open", "close"}, id : Ids, chunk : {0}]
    \cup [type : {"data"}, id : Ids, chunk : Chunks]
    \cup [type : {"ping", "pong"}, id : {0}, chunk : {0}]

At(where, k, n) == [at |-> where, id |-> k, chunk |-> n]

\* The positions of readLoop, with the stream and the chunk in its hand.
Positions ==
    [at : {"read", "pong", "done"}, id : {0}, chunk : {0}]
    \cup [at : {"accept", "drop", "closeframe"}, id : Ids, chunk : {0}]
    \cup [at : {"deliver"}, id : Ids, chunk : Chunks]

Channel == [state : {"none", "open", "closed"}, q : Seq(Chunks)]

SessionTypeOK ==
    /\ closed \in [Sides -> BOOLEAN]
    /\ streams \in [Sides -> SUBSET Ids]
    /\ chan \in [Sides -> [Ids -> Channel]]

CopiersTypeOK ==
    /\ pump \in [Sides -> [Ids -> {"none", "opening", "dial", "run", "close",
                                   "closeframe", "done"}]]
    /\ drain \in [Sides -> [Ids -> {"none", "run", "done"}]]
    /\ local \in [Sides -> [Ids -> {"none", "open", "eof", "reset", "shut"}]]
    /\ sent \in [Sides -> [Ids -> 0 .. MaxChunks]]
    /\ got \in [Sides -> [Ids -> Nat]]

\* A closeStream of a copier or of readLoop, the FrameStreamClose case, or
\* Session.Close.
Takers == {"none", "copier", "readLoop", "peer", "session"}

\* What is recorded and read by no action.
HistoryOK ==
    /\ taker \in [Sides -> [Ids -> Takers]]
    /\ refused \in [Sides -> SUBSET Ids]

TypeOK ==
    /\ SessionTypeOK
    /\ CopiersTypeOK
    /\ HistoryOK
    /\ alive \in [Sides -> BOOLEAN]
    /\ broken \in BOOLEAN
    /\ wire \in [Sides -> Seq(Frames)]
    /\ opened \in 0 .. MaxStreams
    /\ acceptChan \in Seq(Ids)
    /\ reader \in [Sides -> Positions]
    /\ pings \in [Sides -> 0 .. MaxPings]

Init ==
    /\ alive = [s \in Sides |-> TRUE]
    /\ broken = FALSE
    /\ closed = [s \in Sides |-> FALSE]
    /\ wire = [s \in Sides |-> <<>>]
    /\ opened = 0
    /\ streams = [s \in Sides |-> {}]
    /\ chan = [s \in Sides |-> [k \in Ids |-> [state |-> "none", q |-> <<>>]]]
    /\ acceptChan = <<>>
    /\ reader = [s \in Sides |-> At("read", 0, 0)]
    /\ pump = [s \in Sides |-> [k \in Ids |-> "none"]]
    /\ drain = [s \in Sides |-> [k \in Ids |-> "none"]]
    /\ local = [s \in Sides |-> [k \in Ids |-> "none"]]
    /\ sent = [s \in Sides |-> [k \in Ids |-> 0]]
    /\ got = [s \in Sides |-> [k \in Ids |-> 0]]
    /\ pings = [s \in Sides |-> 0]
    /\ taker = [s \in Sides |-> [k \in Ids |-> "none"]]
    /\ refused = [s \in Sides |-> {}]

-----------------------------------------------------------------------------
(* The connection *)

\* The connection is gone: reads and writes of s fail sooner or later.
Down(s) == broken \/ closed[s] \/ closed[Peer(s)] \/ ~ alive[Peer(s)]

\* transport.WriteFrame, when it succeeds.
WriteFrame(s, frame) ==
    /\ ~ closed[s]
    /\ Len(wire[s]) < WireCap
    /\ wire' = [wire EXCEPT ![s] = Append(@, frame)]

\* A write whose error is ignored: `_ = transport.WriteFrame(...)`.
WriteFrameOrFail(s, frame) ==
    \/ WriteFrame(s, frame)
    \/ Down(s) /\ UNCHANGED wire

Break ==
    /\ "break" \in Disturbances
    /\ ~ broken
    /\ broken' = TRUE
    /\ UNCHANGED <<alive, sessionVars, wire, opened, acceptChan, reader,
                   copyVars, pings>>

-----------------------------------------------------------------------------
(* Streams: registering and closing them *)

\* newStream and s.streams[id] = stream.
Register(s, k) ==
    /\ streams' = [streams EXCEPT ![s] = @ \cup {k}]
    /\ chan' = [chan EXCEPT ![s][k] = [state |-> "open", q |-> <<>>]]
    /\ UNCHANGED <<closed, taker>>

\* Mutant of Unregister: the channel is closed but stays in the map.
UnregisterKeepsEntry(s, k, who) ==
    /\ chan' = [chan EXCEPT ![s][k].state = "closed"]
    /\ taker' = [taker EXCEPT ![s][k] = who]
    /\ UNCHANGED <<closed, streams>>

\* The critical section of closeStream and of the FrameStreamClose case.
Unregister(s, k, who) ==
    /\ streams' = [streams EXCEPT ![s] = @ \ {k}]
    /\ chan' = [chan EXCEPT ![s][k].state = "closed"]
    /\ taker' = [taker EXCEPT ![s][k] = who]
    /\ UNCHANGED closed

\* Mutant of CloseSession: the map is emptied, the channels are forgotten.
CloseSessionKeepsChannels(s) ==
    /\ closed' = [closed EXCEPT ![s] = TRUE]
    /\ streams' = [streams EXCEPT ![s] = {}]
    /\ UNCHANGED <<chan, taker>>

\* The critical section of Session.Close; closeOnce makes it happen once.
CloseSession(s) ==
    /\ closed' = [closed EXCEPT ![s] = TRUE]
    /\ streams' = [streams EXCEPT ![s] = {}]
    /\ chan' = [chan EXCEPT ![s] =
                   [k \in Ids |-> IF k \in streams[s]
                                  THEN [@[k] EXCEPT !.state = "closed"]
                                  ELSE @[k]]]
    /\ taker' = [taker EXCEPT ![s] =
                    [k \in Ids |-> IF k \in streams[s] THEN "session"
                                                       ELSE @[k]]]

-----------------------------------------------------------------------------
(* readLoop *)

Goto(s, where, k, n) == reader' = [reader EXCEPT ![s] = At(where, k, n)]

\* ReadFrame, and the lookup of the stream under streamsMu.
ReadOpen(s, f) ==
    /\ f.type = "open"
    /\ Register(s, f.id)
    /\ Goto(s, "accept", f.id, 0)

\* Mutant of ReadData: the stream is not looked up.
ReadDataOfAny(s, f) ==
    /\ f.type = "data"
    /\ Goto(s, "deliver", f.id, f.chunk)
    /\ UNCHANGED sessionVars

ReadData(s, f) ==
    /\ f.type = "data"
    /\ IF f.id \in streams[s] THEN Goto(s, "deliver", f.id, f.chunk)
                              ELSE UNCHANGED reader
    /\ UNCHANGED sessionVars

\* Mutant of ReadClose: a stream with unread data is left registered.
ReadCloseWhenEmpty(s, f) ==
    /\ f.type = "close"
    /\ IF f.id \in streams[s] /\ chan[s][f.id].q = <<>>
       THEN Unregister(s, f.id, "peer") ELSE UNCHANGED sessionVars
    /\ UNCHANGED reader

ReadClose(s, f) ==
    /\ f.type = "close"
    /\ IF f.id \in streams[s] THEN Unregister(s, f.id, "peer")
                              ELSE UNCHANGED sessionVars
    /\ UNCHANGED reader

ReadPing(s, f) ==
    /\ f.type = "ping"
    /\ Goto(s, "pong", 0, 0)
    /\ UNCHANGED sessionVars

ReadPong(s, f) == f.type = "pong" /\ UNCHANGED <<sessionVars, reader>>

ReadFrame(s) ==
    /\ alive[s] /\ ~ closed[s]
    /\ reader[s].at = "read"
    /\ wire[Peer(s)] # <<>>
    /\ LET f == Head(wire[Peer(s)]) IN
          \/ ReadOpen(s, f) \/ ReadData(s, f) \/ ReadClose(s, f)
          \/ ReadPing(s, f) \/ ReadPong(s, f)
    /\ wire' = [wire EXCEPT ![Peer(s)] = Tail(@)]
    /\ UNCHANGED <<alive, broken, opened, acceptChan, copyVars, pings>>

\* A read error ends the loop; the deferred Close finds the session closed
\* or closes it.
ReadError(s) ==
    /\ alive[s] /\ Down(s)
    /\ reader[s].at = "read"
    /\ Goto(s, "done", 0, 0)
    /\ IF closed[s] THEN UNCHANGED sessionVars ELSE CloseSession(s)
    /\ UNCHANGED <<alive, broken, wire, opened, acceptChan, copyVars, pings>>

\* case s.acceptChan <- stream, or the default: "Queue full, drop stream".
OfferStream ==
    /\ alive["client"]
    /\ reader["client"].at = "accept"
    /\ LET k == reader["client"].id IN
          IF Len(acceptChan) < AcceptCap
          THEN acceptChan' = Append(acceptChan, k) /\ Goto("client", "read", 0, 0)
          ELSE Goto("client", "drop", k, 0) /\ UNCHANGED acceptChan
    /\ UNCHANGED <<alive, broken, sessionVars, wire, opened, copyVars, pings>>

\* Mutant of Deliver: a select with a default drops what does not fit.
DeliverOrDrop(s) ==
    /\ alive[s]
    /\ reader[s].at = "deliver"
    /\ LET k == reader[s].id IN
          /\ chan[s][k].state = "open"
          /\ IF Len(chan[s][k].q) < ChanCap
             THEN chan' = [chan EXCEPT ![s][k].q = Append(@, reader[s].chunk)]
             ELSE UNCHANGED chan
    /\ Goto(s, "read", 0, 0)
    /\ UNCHANGED <<alive, broken, closed, streams, taker, wire, opened,
                   acceptChan, copyVars, pings>>

\* case stream.readChan <- frame.Payload
Deliver(s) ==
    /\ alive[s]
    /\ reader[s].at = "deliver"
    /\ LET k == reader[s].id IN
          /\ chan[s][k].state = "open"
          /\ Len(chan[s][k].q) < ChanCap
          /\ chan' = [chan EXCEPT ![s][k].q = Append(@, reader[s].chunk)]
    /\ Goto(s, "read", 0, 0)
    /\ UNCHANGED <<alive, broken, closed, streams, taker, wire, opened,
                   acceptChan, copyVars, pings>>

\* The same send when the channel was closed after the lookup, or while the
\* loop waits in the select: Go panics and the process ends.
DeliverPanics(s) ==
    /\ alive[s]
    /\ reader[s].at = "deliver"
    /\ chan[s][reader[s].id].state = "closed"
    /\ alive' = [alive EXCEPT ![s] = FALSE]
    /\ UNCHANGED <<broken, sessionVars, wire, opened, acceptChan, reader,
                   copyVars, pings>>

\* case <-time.After(5 * time.Second): "Stream blocked or dead".
DeliverTimeout(s) ==
    /\ alive[s]
    /\ reader[s].at = "deliver"
    /\ LET k == reader[s].id IN
          /\ chan[s][k].state = "open"
          /\ Len(chan[s][k].q) >= ChanCap
          /\ Goto(s, "drop", k, 0)
    /\ UNCHANGED <<alive, broken, sessionVars, wire, opened, acceptChan,
                   copyVars, pings>>

\* closeStream, called by readLoop: first the map, then the frame.
DropStream(s) ==
    /\ alive[s]
    /\ reader[s].at = "drop"
    /\ LET k == reader[s].id IN
          IF k \in streams[s]
          THEN Unregister(s, k, "readLoop") /\ Goto(s, "closeframe", k, 0)
          ELSE Goto(s, "read", 0, 0) /\ UNCHANGED sessionVars
    /\ UNCHANGED <<alive, broken, wire, opened, acceptChan, copyVars, pings>>

ReaderWrites(s) ==
    /\ alive[s]
    /\ \/ /\ reader[s].at = "closeframe"
          /\ WriteFrameOrFail(s, Frame("close", reader[s].id, 0))
       \/ /\ reader[s].at = "pong"
          /\ WriteFrameOrFail(s, Frame("pong", 0, 0))
    /\ Goto(s, "read", 0, 0)
    /\ UNCHANGED <<alive, broken, sessionVars, opened, acceptChan, copyVars,
                   pings>>

Reader(s) ==
    \/ ReadFrame(s) \/ ReadError(s) \/ Deliver(s) \/ DeliverPanics(s)
    \/ DeliverTimeout(s) \/ DropStream(s) \/ ReaderWrites(s)
    \/ s = "client" /\ OfferStream

-----------------------------------------------------------------------------
(* pingLoop, and a session closed from outside *)

PingLoop(s) ==
    /\ alive[s] /\ pings[s] < MaxPings
    /\ WriteFrame(s, Frame("ping", 0, 0))
    /\ pings' = [pings EXCEPT ![s] = @ + 1]
    /\ UNCHANGED <<alive, broken, sessionVars, opened, acceptChan, reader,
                   copyVars>>

\* A new transport connection reaches handleIncomingTransport, which closes
\* the session it replaces while the goroutines of that one run.
Replace ==
    /\ "replace" \in Disturbances
    /\ alive["server"] /\ ~ closed["server"]
    /\ CloseSession("server")
    /\ UNCHANGED <<alive, broken, wire, opened, acceptChan, reader, copyVars,
                   pings>>

-----------------------------------------------------------------------------
(* The two copiers of a stream and the handler that starts them *)

\* No data will reach the connection any more, but not at the end of it.
Refuse(s, k) == refused' = [refused EXCEPT ![s] = @ \cup {k}]

StartCopiers(s, k) ==
    /\ pump' = [pump EXCEPT ![s][k] = "run"]
    /\ drain' = [drain EXCEPT ![s][k] = "run"]

\* pipeUserConn: a user connects, OpenStream registers the stream.
OpenStream(k) ==
    /\ alive["server"] /\ ~ closed["server"]
    /\ k = opened + 1 /\ k \in Ids
    /\ opened' = k
    /\ Register("server", k)
    /\ pump' = [pump EXCEPT !["server"][k] = "opening"]
    /\ local' = [local EXCEPT !["server"][k] = "open"]
    /\ UNCHANGED <<alive, broken, wire, acceptChan, reader, drain, sent, got,
                   pings, refused>>

\* OpenStream sends the frame that announces the stream.
SendOpen(k) ==
    /\ alive["server"]
    /\ pump["server"][k] = "opening"
    /\ WriteFrame("server", Frame("open", k, 0))
    /\ StartCopiers("server", k)
    /\ UNCHANGED <<alive, broken, sessionVars, opened, acceptChan, reader,
                   local, sent, got, pings, refused>>

\* The write fails: OpenStream closes the stream and returns the error, the
\* user is disconnected. closeStream's own frame fails as well.
SendOpenFails(k) ==
    /\ alive["server"] /\ Down("server")
    /\ pump["server"][k] = "opening"
    /\ IF k \in streams["server"] THEN Unregister("server", k, "copier")
                                  ELSE UNCHANGED sessionVars
    /\ pump' = [pump EXCEPT !["server"][k] = "done"]
    /\ drain' = [drain EXCEPT !["server"][k] = "done"]
    /\ Refuse("server", k)
    /\ local' = [local EXCEPT !["server"][k] = "shut"]
    /\ UNCHANGED <<alive, broken, wire, opened, acceptChan, reader, sent, got,
                   pings>>

\* AcceptStream: what was queued before Close is still handed out.
AcceptStream ==
    /\ alive["client"]
    /\ acceptChan # <<>>
    /\ acceptChan' = Tail(acceptChan)
    /\ pump' = [pump EXCEPT !["client"][Head(acceptChan)] = "dial"]
    /\ UNCHANGED <<alive, broken, sessionVars, wire, opened, reader, drain,
                   local, sent, got, pings, refused>>

\* handleIncomingStream
Dial(k) ==
    /\ alive["client"]
    /\ pump["client"][k] = "dial"
    /\ StartCopiers("client", k)
    /\ local' = [local EXCEPT !["client"][k] = "open"]
    /\ UNCHANGED <<alive, broken, sessionVars, wire, opened, acceptChan,
                   reader, sent, got, pings, refused>>

\* The target refuses: the deferred stream.Close is all that is left to do.
DialFails(k) ==
    /\ "nodial" \in Disturbances
    /\ alive["client"]
    /\ pump["client"][k] = "dial"
    /\ pump' = [pump EXCEPT !["client"][k] = "close"]
    /\ drain' = [drain EXCEPT !["client"][k] = "done"]
    /\ Refuse("client", k)
    /\ local' = [local EXCEPT !["client"][k] = "shut"]
    /\ UNCHANGED <<alive, broken, sessionVars, wire, opened, acceptChan,
                   reader, sent, got, pings>>

\* Mutant of PumpChunk: the buffer is written before it is filled.
PumpBeforeRead(s, k) ==
    /\ alive[s]
    /\ pump[s][k] = "run" /\ local[s][k] = "open"
    /\ sent[s][k] < MaxChunks
    /\ WriteFrame(s, Frame("data", k, sent[s][k]))
    /\ sent' = [sent EXCEPT ![s][k] = @ + 1]
    /\ UNCHANGED <<alive, broken, sessionVars, opened, acceptChan, reader,
                   pump, drain, local, got, pings, refused>>

\* io.CopyBuffer(stream, conn): a chunk read is written to the stream.
PumpChunk(s, k) ==
    /\ alive[s]
    /\ pump[s][k] = "run" /\ local[s][k] = "open"
    /\ sent[s][k] < MaxChunks
    /\ WriteFrame(s, Frame("data", k, sent[s][k] + 1))
    /\ sent' = [sent EXCEPT ![s][k] = @ + 1]
    /\ UNCHANGED <<alive, broken, sessionVars, opened, acceptChan, reader,
                   pump, drain, local, got, pings, refused>>

\* The copier leaves its loop; stream.Close follows.
PumpStops(s, k) ==
    /\ alive[s]
    /\ pump[s][k] = "run"
    /\ pump' = [pump EXCEPT ![s][k] = "close"]
    /\ UNCHANGED <<alive, broken, sessionVars, wire, opened, acceptChan,
                   reader, drain, local, sent, got, pings, refused>>

\* The read from the connection ends.
PumpEnds(s, k) == local[s][k] # "open" /\ PumpStops(s, k)

\* A chunk was read but cannot be written.
PumpWriteFails(s, k) == local[s][k] = "open" /\ Down(s) /\ PumpStops(s, k)

\* stream.Close -> closeStream: first the map, then the frame.
PumpCloses(s, k) ==
    /\ alive[s]
    /\ pump[s][k] = "close"
    /\ IF k \in streams[s]
       THEN /\ Unregister(s, k, "copier")
            /\ pump' = [pump EXCEPT ![s][k] = "closeframe"]
       ELSE /\ pump' = [pump EXCEPT ![s][k] = "done"]
            /\ UNCHANGED sessionVars
    /\ UNCHANGED <<alive, broken, wire, opened, acceptChan, reader, drain,
                   local, sent, got, pings, refused>>

PumpSendsClose(s, k) ==
    /\ alive[s]
    /\ pump[s][k] = "closeframe"
    /\ WriteFrameOrFail(s, Frame("close", k, 0))
    /\ pump' = [pump EXCEPT ![s][k] = "done"]
    /\ UNCHANGED <<alive, broken, sessionVars, opened, acceptChan, reader,
                   drain, local, sent, got, pings, refused>>

\* Mutant of DrainChunk: a chunk is read without being consumed.
DrainChunkTwice(s, k) ==
    /\ alive[s]
    /\ drain[s][k] = "run" /\ local[s][k] \in {"open", "eof"}
    /\ chan[s][k].q # <<>>
    /\ got' = [got EXCEPT ![s][k] = @ + 1]
    /\ UNCHANGED <<alive, broken, sessionVars, wire, opened, acceptChan,
                   reader, pump, drain, local, sent, pings, refused>>

\* io.CopyBuffer(conn, stream): a chunk taken from readChan is passed on.
DrainChunk(s, k) ==
    /\ alive[s]
    /\ drain[s][k] = "run" /\ local[s][k] \in {"open", "eof"}
    /\ chan[s][k].q # <<>>
    /\ chan' = [chan EXCEPT ![s][k].q = Tail(@)]
    /\ got' = [got EXCEPT ![s][k] = @ + 1]
    /\ UNCHANGED <<alive, broken, closed, streams, taker, wire, opened,
                   acceptChan, reader, pump, drain, local, sent, pings,
                   refused>>

\* Mutant of DrainEnds: the copier returns without closing the connection.
DrainEndsQuietly(s, k) ==
    /\ alive[s]
    /\ drain[s][k] = "run"
    /\ chan[s][k].q = <<>> /\ chan[s][k].state = "closed"
    /\ drain' = [drain EXCEPT ![s][k] = "done"]
    /\ UNCHANGED <<alive, broken, sessionVars, wire, opened, acceptChan,
                   reader, pump, local, sent, got, pings, refused>>

\* Mutant of DrainEnds: Read returns EOF as soon as the channel is closed.
DrainEndsAtClose(s, k) ==
    /\ alive[s]
    /\ drain[s][k] = "run"
    /\ \/ chan[s][k].state = "closed" /\ UNCHANGED <<chan, refused>>
       \/ /\ chan[s][k].q # <<>> /\ local[s][k] = "reset"
          /\ chan' = [chan EXCEPT ![s][k].q = Tail(@)]
          /\ Refuse(s, k)
    /\ drain' = [drain EXCEPT ![s][k] = "done"]
    /\ local' = [local EXCEPT ![s][k] = "shut"]
    /\ UNCHANGED <<alive, broken, closed, streams, taker, wire, opened,
                   acceptChan, reader, pump, sent, got, pings>>

\* Read returns EOF once a closed channel is empty, or the write fails; the
\* copier closes the connection, which wakes the other one.
DrainEnds(s, k) ==
    /\ alive[s]
    /\ drain[s][k] = "run"
    /\ \/ /\ chan[s][k].q = <<>> /\ chan[s][k].state = "closed"
          /\ UNCHANGED <<chan, refused>>
       \/ /\ chan[s][k].q # <<>> /\ local[s][k] = "reset"
          /\ chan' = [chan EXCEPT ![s][k].q = Tail(@)]
          /\ Refuse(s, k)
    /\ drain' = [drain EXCEPT ![s][k] = "done"]
    /\ local' = [local EXCEPT ![s][k] = "shut"]
    /\ UNCHANGED <<alive, broken, closed, streams, taker, wire, opened,
                   acceptChan, reader, pump, sent, got, pings>>

Copier(s, k) ==
    \/ s = "server" /\ (SendOpen(k) \/ SendOpenFails(k))
    \/ s = "client" /\ (Dial(k) \/ DialFails(k))
    \/ PumpEnds(s, k) \/ PumpCloses(s, k) \/ PumpSendsClose(s, k)

Drainer(s, k) == DrainChunk(s, k) \/ DrainEnds(s, k)

\* The user, or the target, ends its side of the connection: an orderly end
\* after which it still reads, or a reset.
LocalEnds(s, k) ==
    /\ local[s][k] = "open"
    /\ \E how \in {"eof", "reset"} \cap Disturbances :
          local' = [local EXCEPT ![s][k] = how]
    /\ UNCHANGED <<alive, broken, sessionVars, wire, opened, acceptChan,
                   reader, pump, drain, sent, got, pings, refused>>

-----------------------------------------------------------------------------
Next ==
    \/ Break \/ Replace
    \/ AcceptStream
    \/ \E s \in Sides : Reader(s) \/ PingLoop(s)
    \/ \E k \in Ids : OpenStream(k)
    \/ \E s \in Sides, k \in Ids :
          \/ PumpChunk(s, k) \/ PumpWriteFails(s, k)
          \/ Copier(s, k) \/ Drainer(s, k) \/ LocalEnds(s, k)

Spec == Init /\ [][Next]_vars

\* The Go scheduler runs every goroutine that can run. Nothing is assumed of
\* users and targets except that they read what they are sent: they need not
\* send anything, so that a copier may never see a write fail.
Fairness ==
    /\ WF_vars(AcceptStream)
    /\ \A s \in Sides : WF_vars(Reader(s))
    /\ \A s \in Sides, k \in Ids : WF_vars(Copier(s, k)) /\ WF_vars(Drainer(s, k))

FairSpec == Spec /\ Fairness

-----------------------------------------------------------------------------
(* Properties *)

\* A readChan is open exactly as long as its stream is registered: three
\* goroutines close streams and each tests and changes both under
\* streamsMu, so that no channel is closed twice (which would panic) and
\* none is forgotten open, with a copier waiting on it for ever. A closed
\* session has no streams, and none is registered later.
ChannelDiscipline ==
    \A s \in Sides :
        /\ closed[s] => streams[s] = {}
        /\ \A k \in Ids : k \in streams[s] <=> chan[s][k].state = "open"

\* readLoop holds a chunk for stream k, or the decision to drop the stream.
InHand(s, k) == reader[s].at = "deliver" /\ reader[s].id = k
Dropping(s, k) == reader[s].at = "drop" /\ reader[s].id = k

\* How many chunks of stream k have left the wire for s.
Arrived(s, k) == got[s][k] + Len(chan[s][k].q) + (IF InHand(s, k) THEN 1 ELSE 0)

\* Where the wire towards s holds data of stream k.
DataAt(w, k) == {i \in DOMAIN w : w[i].type = "data" /\ w[i].id = k}

\* The data of stream k on the wire w are the chunks lo + 1 .. hi, in order.
Carries(w, k, lo, hi) ==
    /\ \A i \in DataAt(w, k) : w[i].chunk \in lo + 1 .. hi
    /\ \A c \in lo + 1 .. hi : \E i \in DataAt(w, k) : w[i].chunk = c
    /\ \A i, j \in DataAt(w, k) : i < j => w[i].chunk < w[j].chunk

\* As long as a stream is registered and read, no chunk written to it by the
\* other side is lost, duplicated or overtaken: readChan, the hand of readLoop
\* and the wire hold, in this order, what was written and not yet passed on.
InOrderNoLoss ==
    \A s \in Sides : \A k \in streams[s] :
        drain[s][k] # "done" /\ ~ Dropping(s, k) =>
            /\ \A i \in DOMAIN chan[s][k].q : chan[s][k].q[i] = got[s][k] + i
            /\ InHand(s, k) => reader[s].chunk = Arrived(s, k)
            /\ Arrived(s, k) <= sent[Peer(s)][k]
            /\ Carries(wire[Peer(s)], k, Arrived(s, k), sent[Peer(s)][k])

\* What a copier passes on is at any time the beginning of what the other
\* side wrote, also after the stream was closed.
PrefixDelivered ==
    \A s \in Sides, k \in Ids :
        /\ got[s][k] <= sent[Peer(s)][k]
        /\ drain[s][k] = "run" =>
              \A i \in DOMAIN chan[s][k].q : chan[s][k].q[i] = got[s][k] + i

\* What a copier wrote before it closed its stream is on the wire in front of
\* the close frame. The other side, when it is that frame which closes the
\* stream there, has all of it in readChan, and its copier passes it all on
\* although the channel is closed (Stream.Read, closeStream in session.go): a
\* download is not cut short by its own orderly end, however full the channel
\* was.
EndIsComplete ==
    \A s \in Sides, k \in Ids :
        /\ taker[s][k] = "peer" /\ taker[Peer(s)][k] = "copier"
        /\ k \notin refused[s]
        => /\ got[s][k] + Len(chan[s][k].q) = sent[Peer(s)][k]
           /\ drain[s][k] = "done" => got[s][k] = sent[Peer(s)][k]

\* readLoop never holds a chunk of a stream that it gave up itself or whose
\* close frame it has read: a blocked stream costs it, and all others, the
\* 5 s of its timeout once; and when it does panic, sending on a closed
\* channel, it was a copier or Session.Close that came in between.
NeverWaitsAgain ==
    \A s \in Sides :
        reader[s].at = "deliver" =>
            taker[s][reader[s].id] \in {"none", "copier", "session"}

\* A session implements its streams: for the two connections of a stream it is
\* a pipe in each direction, whatever readLoop, the copiers, the timeouts and
\* the closes on both sides do.
Stream == INSTANCE MuxStream WITH
    in <- sent, out <- got,
    ended <- [s \in Sides |-> [k \in Ids |-> drain[s][k] = "done"]]

ImplementsStreams == Stream!Spec

\* "Stream blocked or dead" (session.go): data for a stream that is being
\* closed costs that stream, never the process with all its streams.
NoPanic == \A s \in Sides : alive[s]

Finished(s, k) ==
    pump[s][k] \in {"none", "done"} /\ drain[s][k] \in {"none", "done"}

\* Once the connection is lost every goroutine of the session ends and every
\* user and target connection is closed, however the close frames, timeouts
\* and disconnections interleave.
Teardown ==
    broken ~> \A s \in Sides : alive[s] =>
                 /\ reader[s].at = "done"
                 /\ \A k \in Ids : Finished(s, k)

Closing(s, k) ==
    \/ pump[s][k] = "closeframe"
    \/ reader[s].at = "closeframe" /\ reader[s].id = k

\* A stream that one side closed is closed on the other side too, also when
\* the close was on its way together with the open, or the connection is
\* lost: no half-open stream stays behind. (Where both buffers are full and
\* both readLoops write, as in PingAnswered, nothing is closed any more.)
CloseReachesPeer ==
    \A s \in Sides, k \in Ids :
        Closing(s, k) ~> chan[Peer(s)][k].state = "closed" \/ Down(Peer(s))

\* "Heartbeat acknowledged" (session.go): a ping that is read is answered,
\* unless the connection is lost.
PingAnswered ==
    \A s \in Sides : reader[s].at = "pong" ~> reader[s].at # "pong" \/ Down(s)
=============================================================================
