------------------------------- MODULE MuxProofs -------------------------------
(***************************************************************************)
(* Theorems about MuxSession for any number of streams, chunks and pings   *)
(* and any capacities: type correctness, and that a readChan is open       *)
(* exactly as long as its stream is registered.                            *)
(***************************************************************************)
EXTENDS MuxSession, TLAPS

\* What the critical sections of streamsMu preserve.
SessionInv == SessionTypeOK /\ ChannelDiscipline

\* The rest of the state.
RestTypeOK ==
    /\ alive \in [Sides -> BOOLEAN]
    /\ broken \in BOOLEAN
    /\ wire \in [Sides -> Seq(Frames)]
    /\ opened \in 0 .. MaxStreams
    /\ acceptChan \in Seq(Ids)
    /\ reader \in [Sides -> Positions]
    /\ pings \in [Sides -> 0 .. MaxPings]

\* The inductive invariant.
MuxInv == SessionInv /\ CopiersTypeOK /\ RestTypeOK

-----------------------------------------------------------------------------
(* The critical sections *)

\* A stream registered in a session that is not closed has an open channel.
LEMMA RegisterKeeps ==
    ASSUME SessionInv, NEW s \in Sides, NEW k \in Ids, ~ closed[s], Register(s, k)
    PROVE  SessionInv'
  <1>1. [state |-> "open", q |-> <<>>] \in Channel
      BY DEF Channel
  <1>2. SessionTypeOK'
      BY <1>1 DEF SessionInv, SessionTypeOK, Register
  <1>3. ChannelDiscipline'
      BY DEF SessionInv, SessionTypeOK, ChannelDiscipline, Register
  <1> QED
      BY <1>2, <1>3 DEF SessionInv

\* Closing a channel and changing its queue keep its type.
LEMMA ChannelUpdates ==
    ASSUME NEW c \in Channel
    PROVE  /\ [c EXCEPT !.state = "closed"] \in Channel
           /\ \A q2 \in Seq(Chunks) : [c EXCEPT !.q = q2] \in Channel
    BY DEF Channel

\* closeStream and the close frame: map and channel change together.
LEMMA UnregisterKeeps ==
    ASSUME SessionInv, NEW s \in Sides, NEW k \in Ids, NEW who,
           Unregister(s, k, who)
    PROVE  SessionInv'
  <1>1. SessionTypeOK'
      BY ChannelUpdates DEF SessionInv, SessionTypeOK, Unregister
  <1>2. ChannelDiscipline'
      BY DEF SessionInv, SessionTypeOK, Channel, ChannelDiscipline, Unregister
  <1> QED
      BY <1>1, <1>2 DEF SessionInv

\* Session.Close closes the channels of all registered streams.
LEMMA CloseSessionKeeps ==
    ASSUME SessionInv, NEW s \in Sides, CloseSession(s)
    PROVE  SessionInv'
  <1>1. SessionTypeOK'
      BY ChannelUpdates DEF SessionInv, SessionTypeOK, CloseSession
  <1>2. ChannelDiscipline'
      BY DEF SessionInv, SessionTypeOK, Channel, ChannelDiscipline, CloseSession
  <1> QED
      BY <1>1, <1>2 DEF SessionInv

\* Sends and receives on a channel neither open nor close it.
LEMMA QueueKeeps ==
    ASSUME SessionInv, NEW s \in Sides, NEW k \in Ids, NEW q2 \in Seq(Chunks),
           chan' = [chan EXCEPT ![s][k].q = q2], UNCHANGED <<closed, streams>>
    PROVE  SessionInv'
  <1>1. SessionTypeOK'
      BY ChannelUpdates DEF SessionInv, SessionTypeOK
  <1>2. ChannelDiscipline'
      BY DEF SessionInv, SessionTypeOK, Channel, ChannelDiscipline
  <1> QED
      BY <1>1, <1>2 DEF SessionInv

\* Steps that touch no stream keep the session's part of the invariant.
LEMMA SessionSame ==
    ASSUME SessionInv, UNCHANGED sessionVars
    PROVE  SessionInv'
    BY DEF SessionInv, SessionTypeOK, ChannelDiscipline, sessionVars

\* Steps of the session itself keep the copiers' types.
LEMMA CopiersSame ==
    ASSUME CopiersTypeOK, UNCHANGED copyVars
    PROVE  CopiersTypeOK'
    BY DEF CopiersTypeOK, copyVars

\* The wire holds frames.
LEMMA WriteKeeps ==
    ASSUME wire \in [Sides -> Seq(Frames)], NEW s \in Sides, NEW f \in Frames,
           WriteFrame(s, f) \/ WriteFrameOrFail(s, f)
    PROVE  wire' \in [Sides -> Seq(Frames)]
  <1>1. Append(wire[s], f) \in Seq(Frames)
      OBVIOUS
  <1> QED
      BY <1>1 DEF WriteFrame, WriteFrameOrFail

\* Where readLoop may go.
LEMMA GotoKeeps ==
    ASSUME reader \in [Sides -> Positions], NEW s \in Sides,
           NEW where, NEW k, NEW n, Goto(s, where, k, n),
           \/ where \in {"read", "pong", "done"} /\ k = 0 /\ n = 0
           \/ where \in {"accept", "drop", "closeframe"} /\ k \in Ids /\ n = 0
           \/ where = "deliver" /\ k \in Ids /\ n \in Chunks
    PROVE  reader' \in [Sides -> Positions]
  <1>1. At(where, k, n) \in Positions
      BY DEF At, Positions
  <1> QED
      BY <1>1 DEF Goto

-----------------------------------------------------------------------------
(* The actions *)

\* The invariant holds initially.
LEMMA MuxInit == Init => MuxInv
  <1> SUFFICES ASSUME Init PROVE MuxInv
      OBVIOUS
  <1>1. SessionTypeOK
    <2>1. [state |-> "none", q |-> <<>>] \in Channel
        BY DEF Channel
    <2> QED
        BY <2>1 DEF Init, SessionTypeOK
  <1>2. ChannelDiscipline
      BY DEF Init, ChannelDiscipline
  <1>3. CopiersTypeOK
      BY MuxAssumption DEF Init, CopiersTypeOK
  <1>4. RestTypeOK
    <2>1. At("read", 0, 0) \in Positions
        BY DEF At, Positions
    <2>2. <<>> \in Seq(Frames) /\ <<>> \in Seq(Ids)
        OBVIOUS
    <2>3. 0 \in 0 .. MaxStreams /\ 0 \in 0 .. MaxPings
        BY MuxAssumption
    <2> QED
        BY <2>1, <2>2, <2>3 DEF Init, RestTypeOK
  <1> QED
      BY <1>1, <1>2, <1>3, <1>4 DEF MuxInv, SessionInv

\* readLoop keeps the invariant.
LEMMA ReaderKeeps ==
    ASSUME MuxInv, NEW s \in Sides, Reader(s) PROVE MuxInv'
  <1> USE DEF MuxInv
  <1>1. CASE ReadFrame(s)
    <2> DEFINE f == Head(wire[Peer(s)])
    <2>1. f \in Frames /\ Tail(wire[Peer(s)]) \in Seq(Frames) /\ Peer(s) \in Sides
        BY <1>1 DEF ReadFrame, RestTypeOK, Peer, Sides
    <2>2. /\ ~ closed[s]
          /\ ReadOpen(s, f) \/ ReadData(s, f) \/ ReadClose(s, f)
                \/ ReadPing(s, f) \/ ReadPong(s, f)
        BY <1>1 DEF ReadFrame
    <2>3. f.type \in {"open", "close", "data"} => f.id \in Ids
        BY <2>1 DEF Frames
    <2>4. f.type = "data" => f.chunk \in Chunks
        BY <2>1 DEF Frames
    <2> HIDE DEF f
    <2>5. SessionInv'
      <3>1. CASE ReadOpen(s, f)
          BY <2>2, <2>3, <3>1, RegisterKeeps DEF ReadOpen
      <3>2. CASE ReadData(s, f)
          BY <3>2, SessionSame DEF ReadData
      <3>3. CASE ReadClose(s, f)
          BY <2>3, <3>3, UnregisterKeeps, SessionSame DEF ReadClose
      <3>4. CASE ReadPing(s, f)
          BY <3>4, SessionSame DEF ReadPing
      <3>5. CASE ReadPong(s, f)
          BY <3>5, SessionSame DEF ReadPong
      <3> QED
          BY <2>2, <3>1, <3>2, <3>3, <3>4, <3>5
    <2>6. reader' \in [Sides -> Positions]
        BY <2>2, <2>3, <2>4, GotoKeeps DEF ReadOpen, ReadData, ReadClose,
           ReadPing, ReadPong, RestTypeOK
    <2>7. RestTypeOK'
        BY <1>1, <2>1, <2>6 DEF ReadFrame, RestTypeOK
    <2> QED
        BY <1>1, <2>5, <2>7, CopiersSame DEF ReadFrame
  <1>2. CASE ReadError(s)
    <2>1. SessionInv'
        BY <1>2, CloseSessionKeeps, SessionSame DEF ReadError
    <2>2. RestTypeOK'
        BY <1>2, GotoKeeps DEF ReadError, RestTypeOK
    <2> QED
        BY <1>2, <2>1, <2>2, CopiersSame DEF ReadError
  <1>3. CASE Deliver(s)
    <2> DEFINE k == reader[s].id
    <2>1. reader[s].at = "deliver" /\ reader[s] \in Positions
        BY <1>3 DEF Deliver, RestTypeOK
    <2>2. k \in Ids /\ reader[s].chunk \in Chunks
        BY <2>1 DEF Positions
    <2>3. Append(chan[s][k].q, reader[s].chunk) \in Seq(Chunks)
      <3>1. chan[s][k] \in Channel
          BY <2>2, SMTT(30) DEF SessionInv, SessionTypeOK
      <3>2. chan[s][k].q \in Seq(Chunks)
          BY <3>1, SMTT(30) DEF Channel
      <3> QED
          BY <2>2, <3>2
    <2>4. SessionInv'
        BY <1>3, <2>2, <2>3, QueueKeeps DEF Deliver
    <2>5. RestTypeOK'
        BY <1>3, GotoKeeps DEF Deliver, RestTypeOK
    <2> QED
        BY <1>3, <2>4, <2>5, CopiersSame DEF Deliver
  <1>4. CASE DeliverPanics(s)
    <2>1. RestTypeOK'
        BY <1>4 DEF DeliverPanics, RestTypeOK
    <2> QED
        BY <1>4, <2>1, SessionSame, CopiersSame DEF DeliverPanics
  <1>5. CASE DeliverTimeout(s)
    <2>1. reader[s].at = "deliver" /\ reader[s] \in Positions
        BY <1>5 DEF DeliverTimeout, RestTypeOK
    <2>2. reader[s].id \in Ids
        BY <2>1 DEF Positions
    <2>3. RestTypeOK'
        BY <1>5, <2>2, GotoKeeps DEF DeliverTimeout, RestTypeOK
    <2> QED
        BY <1>5, <2>3, SessionSame, CopiersSame DEF DeliverTimeout
  <1>6. CASE DropStream(s)
    <2>1. reader[s].at = "drop" /\ reader[s] \in Positions
        BY <1>6 DEF DropStream, RestTypeOK
    <2>2. reader[s].id \in Ids
        BY <2>1 DEF Positions
    <2>3. SessionInv'
        BY <1>6, <2>2, UnregisterKeeps, SessionSame DEF DropStream
    <2>4. RestTypeOK'
        BY <1>6, <2>2, GotoKeeps DEF DropStream, RestTypeOK
    <2> QED
        BY <1>6, <2>3, <2>4, CopiersSame DEF DropStream
  <1>7. CASE ReaderWrites(s)
    <2>1. reader[s] \in Positions
        BY DEF RestTypeOK
    <2>2. /\ Frame("pong", 0, 0) \in Frames
          /\ reader[s].at = "closeframe" => Frame("close", reader[s].id, 0) \in Frames
        BY <2>1 DEF Positions, Frames, Frame
    <2>3. wire' \in [Sides -> Seq(Frames)]
        BY <1>7, <2>2, WriteKeeps DEF ReaderWrites, RestTypeOK
    <2>4. RestTypeOK'
        BY <1>7, <2>3, GotoKeeps DEF ReaderWrites, RestTypeOK
    <2> QED
        BY <1>7, <2>4, SessionSame, CopiersSame DEF ReaderWrites
  <1>8. CASE s = "client" /\ OfferStream
    <2>1. reader["client"].at = "accept" /\ reader["client"] \in Positions
        BY <1>8 DEF OfferStream, RestTypeOK
    <2>2. reader["client"].id \in Ids
        BY <2>1 DEF Positions
    <2>3. reader' \in [Sides -> Positions]
        BY <1>8, <2>2, GotoKeeps DEF OfferStream, RestTypeOK, Sides
    <2>4. Append(acceptChan, reader["client"].id) \in Seq(Ids)
        BY <2>2 DEF RestTypeOK
    <2>5. acceptChan' \in Seq(Ids)
        BY <1>8, <2>4 DEF OfferStream, RestTypeOK
    <2>6. RestTypeOK'
        BY <1>8, <2>3, <2>5 DEF OfferStream, RestTypeOK
    <2> QED
        BY <1>8, <2>6, SessionSame, CopiersSame DEF OfferStream
  <1> QED
      BY <1>1, <1>2, <1>3, <1>4, <1>5, <1>6, <1>7, <1>8 DEF Reader

\* What a copier does to the copiers' state: any of its variables may take a
\* new value of its type.
LEMMA CopierUpdates ==
    ASSUME CopiersTypeOK, NEW s \in Sides, NEW k \in Ids,
           \/ UNCHANGED pump
           \/ \E p \in {"opening", "dial", "run", "close", "closeframe", "done"} :
                 pump' = [pump EXCEPT ![s][k] = p],
           \/ UNCHANGED drain
           \/ \E d \in {"run", "done"} : drain' = [drain EXCEPT ![s][k] = d],
           \/ UNCHANGED local
           \/ \E l \in {"open", "eof", "reset", "shut"} :
                 local' = [local EXCEPT ![s][k] = l],
           \/ UNCHANGED sent
           \/ sent[s][k] < MaxChunks /\ sent' = [sent EXCEPT ![s][k] = @ + 1],
           \/ UNCHANGED got
           \/ got' = [got EXCEPT ![s][k] = @ + 1]
    PROVE  CopiersTypeOK'
  <1> USE DEF CopiersTypeOK
  <1>1. pump' \in [Sides -> [Ids -> {"none", "opening", "dial", "run", "close",
                                    "closeframe", "done"}]]
    <2>1. CASE UNCHANGED pump
        BY <2>1
    <2>2. ASSUME NEW p \in {"opening", "dial", "run", "close", "closeframe",
                            "done"},
                 pump' = [pump EXCEPT ![s][k] = p]
          PROVE  pump' \in [Sides -> [Ids -> {"none", "opening", "dial", "run",
                                             "close", "closeframe", "done"}]]
        BY <2>2
    <2> QED
        BY <2>1, <2>2
  <1>2. drain' \in [Sides -> [Ids -> {"none", "run", "done"}]]
    <2>1. CASE UNCHANGED drain
        BY <2>1
    <2>2. ASSUME NEW d \in {"run", "done"}, drain' = [drain EXCEPT ![s][k] = d]
          PROVE  drain' \in [Sides -> [Ids -> {"none", "run", "done"}]]
        BY <2>2
    <2> QED
        BY <2>1, <2>2
  <1>3. local' \in [Sides -> [Ids -> {"none", "open", "eof", "reset", "shut"}]]
    <2>1. CASE UNCHANGED local
        BY <2>1
    <2>2. ASSUME NEW l \in {"open", "eof", "reset", "shut"},
                 local' = [local EXCEPT ![s][k] = l]
          PROVE  local' \in [Sides -> [Ids -> {"none", "open", "eof", "reset",
                                              "shut"}]]
        BY <2>2
    <2> QED
        BY <2>1, <2>2
  <1>4. sent' \in [Sides -> [Ids -> 0 .. MaxChunks]]
    <2>1. CASE UNCHANGED sent
        BY <2>1
    <2>2. CASE sent[s][k] < MaxChunks /\ sent' = [sent EXCEPT ![s][k] = @ + 1]
      <3>1. sent[s][k] + 1 \in 0 .. MaxChunks
          BY <2>2, MuxAssumption
      <3> QED
          BY <2>2, <3>1
    <2> QED
        BY <2>1, <2>2
  <1>5. got' \in [Sides -> [Ids -> Nat]]
    <2>1. CASE UNCHANGED got
        BY <2>1
    <2>2. CASE got' = [got EXCEPT ![s][k] = @ + 1]
        BY <2>2
    <2> QED
        BY <2>1, <2>2
  <1> QED
      BY <1>1, <1>2, <1>3, <1>4, <1>5

\* The copiers that pump, and the handlers that start them, keep the
\* invariant.
LEMMA PumpKeeps ==
    ASSUME MuxInv, NEW s \in Sides, NEW k \in Ids,
           \/ Copier(s, k) \/ PumpChunk(s, k) \/ PumpWriteFails(s, k)
    PROVE  MuxInv'
  <1> USE DEF MuxInv
  <1>1. CASE s = "server" /\ SendOpen(k)
    <2>1. Frame("open", k, 0) \in Frames
        BY DEF Frame, Frames
    <2>2. wire' \in [Sides -> Seq(Frames)]
        BY <1>1, <2>1, WriteKeeps DEF SendOpen, RestTypeOK
    <2>3. RestTypeOK'
        BY <1>1, <2>2 DEF SendOpen, RestTypeOK
    <2>4. CopiersTypeOK'
        BY <1>1, CopierUpdates DEF SendOpen, StartCopiers
    <2> QED
        BY <1>1, <2>3, <2>4, SessionSame DEF SendOpen
  <1>2. CASE s = "server" /\ SendOpenFails(k)
    <2>1. SessionInv'
        BY <1>2, UnregisterKeeps, SessionSame DEF SendOpenFails
    <2>2. RestTypeOK'
        BY <1>2 DEF SendOpenFails, RestTypeOK
    <2>3. CopiersTypeOK'
        BY <1>2, CopierUpdates DEF SendOpenFails
    <2> QED
        BY <2>1, <2>2, <2>3
  <1>3. CASE s = "client" /\ (Dial(k) \/ DialFails(k))
    <2>1. RestTypeOK'
        BY <1>3 DEF Dial, DialFails, RestTypeOK
    <2>2. CopiersTypeOK'
        BY <1>3, CopierUpdates DEF Dial, DialFails, StartCopiers
    <2> QED
        BY <1>3, <2>1, <2>2, SessionSame DEF Dial, DialFails
  <1>4. CASE PumpChunk(s, k)
    <2>1. sent[s][k] \in 0 .. MaxChunks /\ sent[s][k] < MaxChunks
        BY <1>4 DEF PumpChunk, CopiersTypeOK
    <2>2. sent[s][k] + 1 \in Chunks
        BY <2>1, MuxAssumption DEF Chunks
    <2>3. Frame("data", k, sent[s][k] + 1) \in Frames
        BY <2>2 DEF Frame, Frames
    <2>4. wire' \in [Sides -> Seq(Frames)]
        BY <1>4, <2>3, WriteKeeps DEF PumpChunk, RestTypeOK
    <2>5. RestTypeOK'
        BY <1>4, <2>4 DEF PumpChunk, RestTypeOK
    <2>6. CopiersTypeOK'
        BY <1>4, CopierUpdates DEF PumpChunk
    <2> QED
        BY <1>4, <2>5, <2>6, SessionSame DEF PumpChunk
  <1>5. CASE PumpEnds(s, k) \/ PumpWriteFails(s, k)
    <2>1. PumpStops(s, k)
        BY <1>5 DEF PumpEnds, PumpWriteFails
    <2>2. RestTypeOK'
        BY <2>1 DEF PumpStops, RestTypeOK
    <2>3. CopiersTypeOK'
        BY <2>1, CopierUpdates DEF PumpStops
    <2> QED
        BY <2>1, <2>2, <2>3, SessionSame DEF PumpStops
  <1>6. CASE PumpCloses(s, k)
    <2>1. SessionInv'
        BY <1>6, UnregisterKeeps, SessionSame DEF PumpCloses
    <2>2. RestTypeOK'
        BY <1>6 DEF PumpCloses, RestTypeOK
    <2>3. CopiersTypeOK'
        BY <1>6, CopierUpdates DEF PumpCloses
    <2> QED
        BY <2>1, <2>2, <2>3
  <1>7. CASE PumpSendsClose(s, k)
    <2>1. Frame("close", k, 0) \in Frames
        BY DEF Frame, Frames
    <2>2. wire' \in [Sides -> Seq(Frames)]
        BY <1>7, <2>1, WriteKeeps DEF PumpSendsClose, RestTypeOK
    <2>3. RestTypeOK'
        BY <1>7, <2>2 DEF PumpSendsClose, RestTypeOK
    <2>4. CopiersTypeOK'
        BY <1>7, CopierUpdates DEF PumpSendsClose
    <2> QED
        BY <1>7, <2>3, <2>4, SessionSame DEF PumpSendsClose
  <1> QED
      BY <1>1, <1>2, <1>3, <1>4, <1>5, <1>6, <1>7 DEF Copier

\* The copiers that drain keep the invariant.
LEMMA DrainKeeps ==
    ASSUME MuxInv, NEW s \in Sides, NEW k \in Ids, Drainer(s, k)
    PROVE  MuxInv'
  <1> USE DEF MuxInv
  <1>1. chan[s][k].q # <<>> => Tail(chan[s][k].q) \in Seq(Chunks)
      BY DEF SessionInv, SessionTypeOK, Channel
  <1>2. CASE DrainChunk(s, k)
    <2>1. SessionInv'
        BY <1>1, <1>2, QueueKeeps DEF DrainChunk
    <2>2. RestTypeOK'
        BY <1>2 DEF DrainChunk, RestTypeOK
    <2>3. CopiersTypeOK'
        BY <1>2, CopierUpdates DEF DrainChunk
    <2> QED
        BY <2>1, <2>2, <2>3
  <1>3. CASE DrainEnds(s, k)
    <2>1. SessionInv'
        BY <1>1, <1>3, QueueKeeps, SessionSame DEF DrainEnds, sessionVars
    <2>2. RestTypeOK'
        BY <1>3 DEF DrainEnds, RestTypeOK
    <2>3. CopiersTypeOK'
        BY <1>3, CopierUpdates DEF DrainEnds
    <2> QED
        BY <2>1, <2>2, <2>3
  <1> QED
      BY <1>2, <1>3 DEF Drainer

\* Every step keeps the invariant.
LEMMA MuxStep == MuxInv /\ [Next]_vars => MuxInv'
  <1> SUFFICES ASSUME MuxInv, [Next]_vars PROVE MuxInv'
      OBVIOUS
  <1> USE DEF MuxInv
  <1>1. CASE Break
    <2>1. RestTypeOK'
        BY <1>1 DEF Break, RestTypeOK
    <2> QED
        BY <1>1, <2>1, SessionSame, CopiersSame DEF Break
  <1>2. CASE Replace
    <2>1. "server" \in Sides
        BY DEF Sides
    <2>2. SessionInv'
        BY <1>2, <2>1, CloseSessionKeeps DEF Replace
    <2>3. RestTypeOK'
        BY <1>2 DEF Replace, RestTypeOK
    <2> QED
        BY <1>2, <2>2, <2>3, CopiersSame DEF Replace
  <1>3. CASE AcceptStream
    <2>1. /\ Head(acceptChan) \in Ids /\ Tail(acceptChan) \in Seq(Ids)
          /\ "client" \in Sides
        BY <1>3 DEF AcceptStream, RestTypeOK, Sides
    <2>2. RestTypeOK'
        BY <1>3, <2>1 DEF AcceptStream, RestTypeOK
    <2>3. CopiersTypeOK'
        BY <1>3, <2>1, CopierUpdates DEF AcceptStream
    <2> QED
        BY <1>3, <2>2, <2>3, SessionSame DEF AcceptStream
  <1>4. ASSUME NEW s \in Sides, PingLoop(s) PROVE MuxInv'
    <2>1. Frame("ping", 0, 0) \in Frames
        BY DEF Frame, Frames
    <2>2. wire' \in [Sides -> Seq(Frames)]
        BY <1>4, <2>1, WriteKeeps DEF PingLoop, RestTypeOK
    <2>3. pings' \in [Sides -> 0 .. MaxPings]
      <3>1. pings[s] \in 0 .. MaxPings /\ pings[s] < MaxPings
          BY <1>4 DEF PingLoop, RestTypeOK
      <3>2. pings[s] + 1 \in 0 .. MaxPings
          BY <3>1, MuxAssumption
      <3> QED
          BY <1>4, <3>2 DEF PingLoop, RestTypeOK
    <2>4. RestTypeOK'
        BY <1>4, <2>2, <2>3 DEF PingLoop, RestTypeOK
    <2> QED
        BY <1>4, <2>4, SessionSame, CopiersSame DEF PingLoop
  <1>5. ASSUME NEW k \in Ids, OpenStream(k) PROVE MuxInv'
    <2>1. "server" \in Sides
        BY DEF Sides
    <2>2. SessionInv'
        BY <1>5, <2>1, RegisterKeeps DEF OpenStream
    <2>3. k \in 0 .. MaxStreams
        BY MuxAssumption DEF Ids
    <2>4. RestTypeOK'
        BY <1>5, <2>3 DEF OpenStream, RestTypeOK
    <2>5. CopiersTypeOK'
        BY <1>5, <2>1, CopierUpdates DEF OpenStream
    <2> QED
        BY <2>2, <2>4, <2>5
  <1>6. ASSUME NEW s \in Sides, NEW k \in Ids, LocalEnds(s, k) PROVE MuxInv'
    <2>1. RestTypeOK'
        BY <1>6 DEF LocalEnds, RestTypeOK
    <2>2. CopiersTypeOK'
        BY <1>6, CopierUpdates DEF LocalEnds
    <2> QED
        BY <1>6, <2>1, <2>2, SessionSame DEF LocalEnds
  <1>7. CASE UNCHANGED vars
    <2>1. RestTypeOK'
        BY <1>7 DEF vars, RestTypeOK
    <2> QED
        BY <1>7, <2>1, SessionSame, CopiersSame DEF vars, sessionVars, copyVars
  <1> QED
      BY <1>1, <1>2, <1>3, <1>4, <1>5, <1>6, <1>7, ReaderKeeps, PumpKeeps,
         DrainKeeps DEF Next

-----------------------------------------------------------------------------
(* The history *)

\* What takes a stream is one of the four that delete entries of the map.
LEMMA TakerKeeps ==
    ASSUME HistoryOK,
           \/ UNCHANGED taker
           \/ \E s \in Sides : CloseSession(s)
           \/ \E s \in Sides, k \in Ids, who \in Takers : Unregister(s, k, who)
    PROVE  taker' \in [Sides -> [Ids -> Takers]]
  <1>1. "session" \in Takers
      BY DEF Takers
  <1>2. ASSUME NEW s \in Sides, CloseSession(s)
        PROVE  taker' \in [Sides -> [Ids -> Takers]]
      BY <1>1, <1>2 DEF HistoryOK, CloseSession
  <1>3. ASSUME NEW s \in Sides, NEW k \in Ids, NEW who \in Takers,
               Unregister(s, k, who)
        PROVE  taker' \in [Sides -> [Ids -> Takers]]
      BY <1>3 DEF HistoryOK, Unregister
  <1> QED
      BY <1>2, <1>3 DEF HistoryOK

LEMMA HistoryStep == HistoryOK /\ MuxInv /\ [Next]_vars => HistoryOK'
  <1> SUFFICES ASSUME HistoryOK, MuxInv, [Next]_vars PROVE HistoryOK'
      OBVIOUS
  <1> USE DEF sessionVars, copyVars
  <1>1. "server" \in Sides /\ "client" \in Sides
        /\ "copier" \in Takers /\ "readLoop" \in Takers /\ "peer" \in Takers
      BY DEF Sides, Takers
  <1>2. ASSUME NEW s \in Sides, Reader(s)
        PROVE  HistoryOK'
    <2>1. UNCHANGED refused
        BY <1>2 DEF Reader, ReadFrame, ReadError, OfferStream, Deliver,
                    DeliverPanics, DeliverTimeout, DropStream, ReaderWrites
    <2>2. \/ UNCHANGED taker \/ CloseSession(s)
          \/ \E k \in streams[s], who \in Takers : Unregister(s, k, who)
      <3>1. CASE ReadFrame(s)
          BY <1>1, <3>1 DEF ReadFrame, ReadOpen, ReadData, ReadClose, ReadPing,
                            ReadPong, Register
      <3>2. CASE DropStream(s)
          BY <1>1, <3>2 DEF DropStream
      <3>3. CASE ~ ReadFrame(s) /\ ~ DropStream(s)
          BY <1>2, <3>3 DEF Reader, ReadError, OfferStream, Deliver,
                            DeliverPanics, DeliverTimeout, ReaderWrites
      <3> QED
          BY <3>1, <3>2, <3>3
    <2>3. streams[s] \subseteq Ids
        BY DEF MuxInv, SessionInv, SessionTypeOK
    <2>4. taker' \in [Sides -> [Ids -> Takers]]
        BY <2>2, <2>3, TakerKeeps
    <2> QED
        BY <2>1, <2>4 DEF HistoryOK
  <1>3. ASSUME NEW s \in Sides, NEW k \in Ids,
               \/ PumpChunk(s, k) \/ PumpWriteFails(s, k)
               \/ Copier(s, k) \/ Drainer(s, k) \/ LocalEnds(s, k)
        PROVE  HistoryOK'
    <2> USE DEF Copier, Drainer, PumpEnds, PumpWriteFails, PumpStops
    <2>1. UNCHANGED taker
          \/ \E p \in Sides, n \in Ids, who \in Takers : Unregister(p, n, who)
        BY <1>1, <1>3 DEF SendOpen, SendOpenFails, Dial, DialFails, PumpChunk,
                          PumpCloses, PumpSendsClose, DrainChunk, DrainEnds,
                          LocalEnds
    <2>2. UNCHANGED refused \/ \E p \in Sides, n \in Ids : Refuse(p, n)
        BY <1>1, <1>3 DEF SendOpen, SendOpenFails, Dial, DialFails, PumpChunk,
                          PumpCloses, PumpSendsClose, DrainChunk, DrainEnds,
                          LocalEnds
    <2>3. refused' \in [Sides -> SUBSET Ids]
        BY <2>2 DEF HistoryOK, Refuse
    <2> QED
        BY <2>1, <2>3, TakerKeeps DEF HistoryOK
  <1>4. CASE Replace
      BY <1>1, <1>4, TakerKeeps DEF Replace, HistoryOK
  <1>5. CASE \/ Break \/ AcceptStream \/ UNCHANGED vars
             \/ (\E s \in Sides : PingLoop(s)) \/ (\E k \in Ids : OpenStream(k))
      BY <1>5 DEF Break, AcceptStream, vars, PingLoop, OpenStream, Register,
                  HistoryOK
  <1> QED
      BY <1>2, <1>3, <1>4, <1>5 DEF Next

LEMMA HistoryInit == Init => HistoryOK
    BY DEF Init, HistoryOK, Takers

-----------------------------------------------------------------------------
\* MuxInv is an invariant of every behaviour.
LEMMA MuxInvariant == Spec => []MuxInv
  <1> QED
      BY MuxInit, MuxStep, PTL DEF Spec

\* The state of a session keeps its types: every frame on the wire is of a
\* kind and for a stream that WriteFrame is called with.
THEOREM MuxTypeCorrect == Spec => []TypeOK
  <1>1. MuxInv /\ HistoryOK => TypeOK
      BY DEF MuxInv, SessionInv, RestTypeOK, TypeOK
  <1>2. Spec => []HistoryOK
      BY HistoryInit, HistoryStep, MuxInvariant, PTL DEF Spec
  <1> QED
      BY <1>1, <1>2, MuxInvariant, PTL

\* A readChan is open exactly as long as its stream is registered, for any
\* number of streams, whichever goroutines close them and in any order.
THEOREM ChannelsDisciplined == Spec => []ChannelDiscipline
  <1>1. MuxInv => ChannelDiscipline
      BY DEF MuxInv, SessionInv
  <1> QED
      BY <1>1, MuxInvariant, PTL
=============================================================================
