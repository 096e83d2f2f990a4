----------------------------- MODULE TunnelProofs -----------------------------
(***************************************************************************)
(* Theorems about FrameCodec and TunnelServer, for any number of           *)
(* connections and ports, any paddings and any token that fits a frame.    *)
(***************************************************************************)
EXTENDS TunnelServer, TLAPS

-----------------------------------------------------------------------------
(* The frame format *)

\* Whatever payload a copier or a handshake may write, with whatever padding,
\* is within the limit of the reader, and the reader returns its length.
THEOREM RoundTrip ==
    ASSUME NEW type, NEW n \in 0 .. MaxPayloadSize, NEW pad \in 0 .. MaxPaddingSize
    PROVE  ReadFrame(WriteFrame(type, n, pad)) = [type |-> type, len |-> n]
  <1>0. n \in 0 .. 32768 /\ pad \in 0 .. 48
      BY DEF MaxPayloadSize, MaxPaddingSize
  <1>1. n \in Nat /\ n <= 32768 /\ pad \in Nat /\ pad <= 48
      BY <1>0
  <1>2. n % 65536 = n /\ pad % 256 = pad
      BY <1>1
  <1>3. Accepted(WriteFrame(type, n, pad))
      BY <1>1, <1>2 DEF Accepted, WriteFrame, Encrypt, NonceSize, TagSize,
         MaxPayloadSize
  <1> QED
      BY <1>2, <1>3 DEF ReadFrame, WriteFrame

\* The 16-bit length in the header never cuts a payload short unnoticed: a
\* payload too long for it is also too long for the reader's limit.
THEOREM NeverTruncated ==
    ASSUME NEW type, NEW n \in Nat, NEW pad \in 0 .. MaxPaddingSize,
           Accepted(WriteFrame(type, n, pad))
    PROVE  ReadFrame(WriteFrame(type, n, pad)) = [type |-> type, len |-> n]
  <1>1. n + pad + 28 <= 33792 /\ pad \in Nat /\ pad <= 48
      BY DEF Accepted, WriteFrame, Encrypt, NonceSize, TagSize, MaxPayloadSize,
         MaxPaddingSize
  <1>2. n % 65536 = n
      BY <1>1
  <1> QED
      BY <1>2 DEF ReadFrame, WriteFrame

-----------------------------------------------------------------------------
(* Types *)

\* Where handleIncomingTransport may go.
LEMMA GotoKeeps ==
    ASSUME handler \in [Conns -> Positions], NEW c \in Conns, NEW where, NEW p,
           Goto(c, where, p),
           \/ /\ where \in {"none", "handshake", "ack", "takeover", "probe", "done"}
              /\ p = 0
           \/ where = "listen" /\ p \in 1 .. NumPorts + 1
           \/ where = "append" /\ p \in Ports
    PROVE  handler' \in [Conns -> Positions]
  <1>1. At(where, p) \in Positions
      BY DEF At, Positions
  <1> QED
      BY <1>1 DEF Goto

\* A handler that opens listeners is at one of the forwarded ports.
LEMMA PortOf ==
    ASSUME handler \in [Conns -> Positions], NEW c \in Conns
    PROVE  /\ handler[c].at = "append" => handler[c].port \in Ports
           /\ handler[c].at = "listen" /\ handler[c].port \in Ports
              => handler[c].port + 1 \in 1 .. NumPorts + 1
           /\ handler[c].at = "append"
              => handler[c].port + 1 \in 1 .. NumPorts + 1
           /\ handler[c].at = "append" => handler[c] = At("append", handler[c].port)
  <1>1. handler[c] \in Positions
      OBVIOUS
  <1> QED
      BY <1>1, TunnelAssumption DEF Positions, Ports, At

\* The handlers keep the types.
LEMMA HandlerType ==
    ASSUME TypeOK, NEW c \in Conns, Handler(c) \/ HelloTimeout(c) PROVE TypeOK'
  <1> USE DEF TypeOK
  <1>1. CASE Accept(c)
      BY <1>1, GotoKeeps DEF Accept
  <1>2. CASE ReadHello(c)
      BY <1>2, GotoKeeps DEF ReadHello
  <1>3. CASE HelloFails(c)
      BY <1>3, GotoKeeps DEF HelloFails
  <1>4. CASE WriteAck(c)
    <2>1. handler' \in [Conns -> Positions]
        BY <1>4, GotoKeeps DEF WriteAck
    <2>2. toClient' \in [Conns -> Acks \cup {NoFrame}]
        BY <1>4 DEF WriteAck
    <2> QED
        BY <1>4, <2>1, <2>2 DEF WriteAck
  <1>5. CASE WriteAckFails(c)
      BY <1>5, GotoKeeps DEF WriteAckFails
  <1>6. CASE HandleActiveProbe(c)
      BY <1>6, GotoKeeps DEF HandleActiveProbe
  <1>7. CASE TakeOver(c)
    <2>1. 1 \in 1 .. NumPorts + 1
        BY TunnelAssumption
    <2>2. handler' \in [Conns -> Positions]
        BY <1>7, <2>1, GotoKeeps DEF TakeOver
    <2>3. lst' \in [Conns -> [Ports -> {"none", "bound", "registered", "closed"}]]
        BY <1>7 DEF TakeOver, CloseListeners
    <2>4. /\ session' \in Conns
          /\ sess' \in [Conns -> {"none", "open", "closed"}]
          /\ link' \in [Conns -> {"none", "up", "lost"}]
        BY <1>7 DEF TakeOver, Adopt
    <2> QED
        BY <1>7, <2>2, <2>3, <2>4 DEF TakeOver
  <1>8. CASE Listen(c)
    <2>1. handler' \in [Conns -> Positions]
        BY <1>8, GotoKeeps, PortOf DEF Listen
    <2>2. lst' \in [Conns -> [Ports -> {"none", "bound", "registered", "closed"}]]
        BY <1>8 DEF Listen
    <2> QED
        BY <1>8, <2>1, <2>2 DEF Listen
  <1>9. CASE AppendListener(c)
    <2>1. handler' \in [Conns -> Positions]
        BY <1>9, GotoKeeps, PortOf DEF AppendListener
    <2> QED
        BY <1>9, <2>1 DEF AppendListener
  <1>10. CASE HandlerDone(c)
      BY <1>10, GotoKeeps DEF HandlerDone
  <1>11. CASE HelloTimeout(c)
    <2>1. events' \in 0 .. MaxEvents
        BY <1>11, TunnelAssumption DEF HelloTimeout, Disturb
    <2> QED
        BY <1>11, <2>1, GotoKeeps DEF HelloTimeout
  <1> QED
      BY <1>1, <1>2, <1>3, <1>4, <1>5, <1>6, <1>7, <1>8, <1>9, <1>10, <1>11
      DEF Handler

\* The client keeps the types.
LEMMA ClientType == ASSUME TypeOK, Client \/ ClientRestarts PROVE TypeOK'
  <1> USE DEF TypeOK, ClientAt
  <1>1. ASSUME NEW c \in Conns, Dial(c) PROVE TypeOK'
    <2>1. At("none", 0) \in Positions
        BY DEF At, Positions
    <2>2. handler' \in [Conns -> Positions]
        BY <1>1, <2>1 DEF Dial
    <2>3. lst' \in [Conns -> [Ports -> {"none", "bound", "registered", "closed"}]]
        BY <1>1 DEF Dial
    <2> QED
        BY <1>1, <2>2, <2>3 DEF Dial
  <1>2. client.at \in {"hello", "ack", "serve"} => client.conn \in Conns
      OBVIOUS
  <1>3. CASE DialFails \/ ConnectionDropped \/ Reconnect
      BY <1>3 DEF DialFails, ConnectionDropped, Reconnect
  <1>4. CASE SendHello
      BY <1>2, <1>4 DEF SendHello
  <1>5. CASE ReadAck
      BY <1>2, <1>5 DEF ReadAck
  <1>6. CASE ClientRestarts
    <2>1. events' \in 0 .. MaxEvents
        BY <1>6, TunnelAssumption DEF ClientRestarts, Disturb
    <2> QED
        BY <1>6, <2>1 DEF ClientRestarts
  <1> QED
      BY <1>1, <1>3, <1>4, <1>5, <1>6 DEF Client

\* The rest of the system keeps the types.
LEMMA ProcessType ==
    ASSUME TypeOK,
           \/ \E c \in Conns : SessionEnds(c) \/ Break(c)
           \/ \E c \in Conns, p \in Ports : ForwardPortLoopEnds(c, p)
           \/ ServerStops \/ ServerStarts
    PROVE  TypeOK'
  <1> USE DEF TypeOK
  <1>1. ASSUME NEW c \in Conns, SessionEnds(c) PROVE TypeOK'
      BY <1>1 DEF SessionEnds
  <1>2. ASSUME NEW c \in Conns, Break(c) PROVE TypeOK'
    <2>1. events' \in 0 .. MaxEvents
        BY <1>2, TunnelAssumption DEF Break, Disturb
    <2> QED
        BY <1>2, <2>1 DEF Break
  <1>3. ASSUME NEW c \in Conns, NEW p \in Ports, ForwardPortLoopEnds(c, p)
        PROVE  TypeOK'
    <2>1. events' \in 0 .. MaxEvents
        BY <1>3, TunnelAssumption DEF ForwardPortLoopEnds, Disturb
    <2> QED
        BY <1>3, <2>1 DEF ForwardPortLoopEnds
  <1>4. CASE ServerStops
    <2>1. At("none", 0) \in Positions /\ At("done", 0) \in Positions
        BY DEF At, Positions
    <2>2. handler' \in [Conns -> Positions]
        BY <1>4, <2>1 DEF ServerStops
    <2>3. events' \in 0 .. MaxEvents
        BY <1>4, TunnelAssumption DEF ServerStops, Disturb
    <2>4. /\ link' \in [Conns -> {"none", "up", "lost"}]
          /\ sess' \in [Conns -> {"none", "open", "closed"}]
          /\ lst' \in [Conns -> [Ports -> {"none", "bound", "registered", "closed"}]]
        BY <1>4 DEF ServerStops
    <2> QED
        BY <1>4, <2>2, <2>3, <2>4 DEF ServerStops
  <1>5. CASE ServerStarts
      BY <1>5 DEF ServerStarts
  <1> QED
      BY <1>1, <1>2, <1>3, <1>4, <1>5

\* The state of server and client keeps its types; in particular a handler
\* works on one of the configured ports until it has done them all.
THEOREM TunnelTypeCorrect == Spec => []TypeOK
  <1>1. Init => TypeOK
    <2>1. At("none", 0) \in Positions
        BY DEF At, Positions
    <2> QED
        BY <2>1, TunnelAssumption DEF Init, TypeOK
  <1>2. TypeOK /\ [Next]_vars => TypeOK'
    <2> SUFFICES ASSUME TypeOK, [Next]_vars PROVE TypeOK'
        OBVIOUS
    <2>1. CASE UNCHANGED vars
        BY <2>1 DEF vars, TypeOK
    <2>2. CASE Next
        BY <2>2, HandlerType, ClientType, ProcessType DEF Next
    <2> QED
        BY <2>1, <2>2
  <1> QED
      BY <1>1, <1>2, PTL DEF Spec

-----------------------------------------------------------------------------
(* Sessions and listeners *)

\* A handler that opens listeners for a session that is not the server's was
\* overtaken.
OpeningOvertaken ==
    \A c \in Conns : Opening(c) /\ c # session => c \in overtaken

\* The inductive invariant: the handlers that still open listeners are what
\* connects the listeners to the sessions.
TunnelInv ==
    OneOpenSession /\ NoListenerLeak /\ OpeningOvertaken /\ StaleOnlyIfOvertaken

\* The invariant depends on sessions, listeners, handlers and the history
\* only, and a handler may leave every position but that of an append.
LEMMA TunnelSame ==
    ASSUME TunnelInv, UNCHANGED <<session, sess, lst, overtaken>>,
           \A c \in Conns : /\ Opening(c)' => Opening(c)
                            /\ handler[c].at = "append" => handler'[c] = handler[c]
    PROVE  TunnelInv'
    BY DEF TunnelInv, OneOpenSession, NoListenerLeak, OpeningOvertaken,
       StaleOnlyIfOvertaken, Open, At

\* Steps of a handler outside startForwardedListeners, but the takeover.
LEMMA GotoSame ==
    ASSUME TypeOK, TunnelInv, UNCHANGED <<session, sess, lst, overtaken>>,
           NEW c \in Conns, NEW where \in {"handshake", "ack", "takeover", "probe", "done"},
           Goto(c, where, 0), handler[c].at # "append"
    PROVE  TunnelInv'
  <1>1. handler' = [handler EXCEPT ![c] = At(where, 0)]
      BY DEF Goto
  <1>2. handler \in [Conns -> Positions]
      BY DEF TypeOK
  <1>3. handler'[c].at = where /\ \A d \in Conns \ {c} : handler'[d] = handler[d]
      BY <1>1, <1>2 DEF At
  <1> QED
      BY <1>3, TunnelSame DEF Opening

\* A takeover: what the former session's handler still opens is accounted to
\* an overtaken connection, everything registered is closed.
LEMMA TakeOverKeeps ==
    ASSUME TypeOK, TunnelInv, NEW c \in Conns, TakeOver(c)
    PROVE  TunnelInv'
  <1> USE DEF TypeOK
  <1>1. /\ session' = c
        /\ overtaken' = (overtaken \cup {d \in Conns : Opening(d)}) \ {c}
        /\ handler' = [handler EXCEPT ![c] = At("listen", 1)]
        /\ handler[c].at = "takeover"
      BY DEF TakeOver, Adopt, Goto
  <1>2. handler'[c].at = "listen" /\ \A d \in Conns \ {c} : handler'[d] = handler[d]
      BY <1>1 DEF At
  <1>3. \A d \in Conns, p \in Ports :
           /\ lst'[d][p] = "bound" <=> lst[d][p] = "bound"
           /\ lst'[d][p] # "registered"
      BY DEF TakeOver, CloseListeners
  <1>4. OneOpenSession'
      BY DEF TakeOver, Adopt, TunnelInv, OneOpenSession
  <1>5. NoListenerLeak'
      BY <1>1, <1>2, <1>3 DEF TunnelInv, NoListenerLeak, At
  <1>6. OpeningOvertaken'
      BY <1>1, <1>2 DEF OpeningOvertaken, Opening
  <1>7. StaleOnlyIfOvertaken'
      BY <1>1, <1>2, <1>3 DEF TunnelInv, NoListenerLeak, StaleOnlyIfOvertaken,
         Open, Opening, At
  <1> QED
      BY <1>4, <1>5, <1>6, <1>7 DEF TunnelInv

\* A listener is opened, then registered: by its own handler, one at a time.
LEMMA ListenKeeps ==
    ASSUME TypeOK, TunnelInv, NEW c \in Conns, Listen(c) \/ AppendListener(c)
    PROVE  TunnelInv'
  <1> USE DEF TypeOK
  <1> DEFINE p == handler[c].port
  <1>0. UNCHANGED <<session, sess, overtaken>> /\ Opening(c)
      BY DEF Listen, AppendListener, Opening
  <1>1. /\ \A d \in Conns : d # c => handler'[d] = handler[d] /\ lst'[d] = lst[d]
        /\ Opening(c)'
    <2>1. CASE Listen(c)
        BY <2>1 DEF Listen, Goto, Opening, At
    <2>2. CASE AppendListener(c)
        BY <2>2 DEF AppendListener, Goto, Opening, At
    <2> QED
        BY <2>1, <2>2
  <1>2. \A q \in Ports : lst'[c][q] = "bound" => handler'[c] = At("append", q)
    <2>1. CASE Listen(c)
      <3>1. \A q \in Ports : lst[c][q] # "bound"
          BY <2>1 DEF Listen, TunnelInv, NoListenerLeak, At
      <3> QED
          BY <2>1, <3>1 DEF Listen, Goto
    <2>2. CASE AppendListener(c)
      <3>1. p \in Ports /\ handler[c].at = "append"
          BY <2>2, PortOf DEF AppendListener
      <3>2. \A q \in Ports : lst[c][q] = "bound" => q = p
          BY DEF TunnelInv, NoListenerLeak, At
      <3>3. lst' = [lst EXCEPT ![c][p] = "registered"]
          BY <2>2 DEF AppendListener
      <3> QED
          BY <3>1, <3>2, <3>3
    <2> QED
        BY <2>1, <2>2
  <1>3. NoListenerLeak'
      BY <1>1, <1>2 DEF TunnelInv, NoListenerLeak, At
  <1>4. OpeningOvertaken' /\ StaleOnlyIfOvertaken' /\ OneOpenSession'
      BY <1>0, <1>1 DEF TunnelInv, OpeningOvertaken, StaleOnlyIfOvertaken,
         OneOpenSession, Opening, Open
  <1> QED
      BY <1>3, <1>4 DEF TunnelInv

\* A new connection takes a place that nothing refers to.
LEMMA DialKeeps ==
    ASSUME TypeOK, TunnelInv, NEW c \in Conns, Dial(c) PROVE TunnelInv'
  <1> USE DEF TypeOK
  <1>1. /\ handler'[c] = At("none", 0)
        /\ \A d \in Conns \ {c} : handler'[d] = handler[d] /\ lst'[d] = lst[d]
                                  /\ sess'[d] = sess[d]
        /\ \A p \in Ports : lst'[c][p] = "none"
        /\ sess'[c] = "none"
        /\ session' = session /\ overtaken' = overtaken \ {c}
      BY DEF Dial
  <1> QED
      BY <1>1, SMTT(30) DEF TunnelInv, OneOpenSession, NoListenerLeak,
         OpeningOvertaken, StaleOnlyIfOvertaken, Opening, Open, At

\* Every step keeps the invariant.
LEMMA TunnelStep ==
    ASSUME TypeOK, TunnelInv, [Next]_vars PROVE TunnelInv'
  <1> USE DEF TypeOK
  <1>1. CASE UNCHANGED vars
      BY <1>1, TunnelSame DEF vars, Opening
  <1>2. ASSUME NEW c \in Conns, Handler(c) \/ HelloTimeout(c) PROVE TunnelInv'
    <2>1. CASE TakeOver(c)
        BY <2>1, TakeOverKeeps
    <2>2. CASE Listen(c) \/ AppendListener(c)
        BY <2>2, ListenKeeps
    <2>3. CASE Accept(c) \/ ReadHello(c) \/ HelloFails(c) \/ WriteAck(c)
               \/ WriteAckFails(c) \/ HandleActiveProbe(c) \/ HandlerDone(c)
               \/ HelloTimeout(c)
        BY <2>3, GotoSame DEF Accept, ReadHello, HelloFails, WriteAck,
           WriteAckFails, HandleActiveProbe, HandlerDone, HelloTimeout
    <2> QED
        BY <1>2, <2>1, <2>2, <2>3 DEF Handler
  <1>3. ASSUME NEW c \in Conns, SessionEnds(c) PROVE TunnelInv'
      BY <1>3 DEF SessionEnds, TunnelInv, OneOpenSession, NoListenerLeak,
         OpeningOvertaken, StaleOnlyIfOvertaken, Opening, Open
  <1>4. ASSUME NEW c \in Conns, Break(c) PROVE TunnelInv'
      BY <1>4, TunnelSame DEF Break, Opening
  <1>5. ASSUME NEW c \in Conns, NEW p \in Ports, ForwardPortLoopEnds(c, p)
        PROVE  TunnelInv'
    <2>1. /\ \A d \in Conns, q \in Ports :
                lst'[d][q] \in {"bound", "registered"} => lst'[d][q] = lst[d][q]
          /\ UNCHANGED <<handler, session, sess, overtaken>>
        BY <1>5 DEF ForwardPortLoopEnds
    <2> QED
        BY <2>1 DEF TunnelInv, OneOpenSession, NoListenerLeak,
           OpeningOvertaken, StaleOnlyIfOvertaken, Opening, Open
  <1>6. CASE ServerStops
    <2>1. /\ \A c \in Conns : /\ handler'[c].at \in {"none", "done"}
                              /\ sess'[c] # "open"
                              /\ \A p \in Ports : ~ Open(c, p)'
        BY <1>6 DEF ServerStops, At, Open
    <2> QED
        BY <2>1 DEF TunnelInv, OneOpenSession, NoListenerLeak,
           OpeningOvertaken, StaleOnlyIfOvertaken, Opening, Open
  <1>7. CASE ServerStarts
      BY <1>7, TunnelSame DEF ServerStarts, Opening
  <1>8. ASSUME NEW c \in Conns, Dial(c) PROVE TunnelInv'
      BY <1>8, DialKeeps
  <1>9. CASE DialFails \/ SendHello \/ ReadAck \/ ConnectionDropped \/ Reconnect
             \/ ClientRestarts
      BY <1>9, TunnelSame DEF DialFails, SendHello, ReadAck, ConnectionDropped,
         Reconnect, ClientRestarts, Opening
  <1> QED
      BY <1>1, <1>2, <1>3, <1>4, <1>5, <1>6, <1>7, <1>8, <1>9 DEF Next, Client

\* TunnelInv is an invariant of every behaviour.
LEMMA TunnelInvariant == Spec => [](TypeOK /\ TunnelInv)
  <1>1. Init => TunnelInv
      BY DEF Init, TunnelInv, OneOpenSession, NoListenerLeak,
         OpeningOvertaken, StaleOnlyIfOvertaken, Opening, Open, At
  <1> QED
      BY <1>1, TunnelStep, TunnelTypeCorrect, PTL DEF Spec

\* At most one session is open, however many connections arrive together.
THEOREM OneSession == Spec => []OneOpenSession
  <1>1. TunnelInv => OneOpenSession
      BY DEF TunnelInv
  <1> QED
      BY <1>1, TunnelInvariant, PTL

\* Every open listener will be found by the next takeover, or its handler is
\* about to see to that.
THEOREM NoLeak == Spec => []NoListenerLeak
  <1>1. TunnelInv => NoListenerLeak
      BY DEF TunnelInv
  <1> QED
      BY <1>1, TunnelInvariant, PTL

\* A port is forwarded to a former session only when its handler was
\* overtaken while it was opening listeners.
THEOREM StaleOnlyThen == Spec => []StaleOnlyIfOvertaken
  <1>1. TunnelInv => StaleOnlyIfOvertaken
      BY DEF TunnelInv
  <1> QED
      BY <1>1, TunnelInvariant, PTL

\* A handler is moved by its own steps, by a new connection in its place, or
\* by the end of the process.
LEMMA HandlerMoves ==
    ASSUME TypeOK, [Next]_vars, NEW c \in Conns
    PROVE  \/ handler'[c] = handler[c]
           \/ Handler(c) \/ HelloTimeout(c)
           \/ link[c] # "up" /\ handler'[c].at = "none"
           \/ handler'[c].at = "done"
  <1> USE DEF TypeOK
  <1>1. ASSUME NEW d \in Conns, d # c, Handler(d) \/ HelloTimeout(d)
        PROVE  handler'[c] = handler[c]
      BY <1>1 DEF Handler, Goto, Accept, ReadHello, HelloFails, WriteAck,
         WriteAckFails, HandleActiveProbe, TakeOver, Listen, AppendListener,
         HandlerDone, HelloTimeout
  <1>2. ASSUME NEW d \in Conns, Dial(d)
        PROVE  \/ handler'[c] = handler[c]
               \/ link[c] # "up" /\ handler'[c].at = "none"
    <2>1. handler' = [handler EXCEPT ![d] = At("none", 0)] /\ link[d] # "up"
        BY <1>2 DEF Dial, Free
    <2>2. At("none", 0).at = "none"
        BY DEF At
    <2> QED
        BY <2>1, <2>2
  <1>3. ASSUME ServerStops
        PROVE  \/ link[c] # "up" /\ handler'[c].at = "none"
               \/ handler'[c].at = "done"
      BY <1>3 DEF ServerStops, At
  <1>4. ASSUME \/ UNCHANGED vars
               \/ \E d \in Conns : SessionEnds(d) \/ Break(d)
               \/ \E d \in Conns, p \in Ports : ForwardPortLoopEnds(d, p)
               \/ ServerStarts \/ DialFails \/ SendHello \/ ReadAck
               \/ ConnectionDropped \/ Reconnect \/ ClientRestarts
        PROVE  handler'[c] = handler[c]
      BY <1>4 DEF vars, SessionEnds, Break, ForwardPortLoopEnds, ServerStarts,
         DialFails, SendHello, ReadAck, ConnectionDropped, Reconnect,
         ClientRestarts
  <1> QED
      BY <1>1, <1>2, <1>3, <1>4 DEF Next, Client

\* Where the steps of a handler lead.
LEMMA HandlerGoes ==
    ASSUME TypeOK, NEW c \in Conns, Handler(c) \/ HelloTimeout(c)
    PROVE  /\ handler[c].at = "takeover" => TakeOver(c)
           /\ handler[c].at = "handshake"
              => ReadHello(c) \/ HelloFails(c) \/ HelloTimeout(c)
    BY DEF Handler, Accept, ReadHello, HelloFails, WriteAck, WriteAckFails,
       HandleActiveProbe, TakeOver, Listen, AppendListener, HandlerDone,
       HelloTimeout

\* A takeover that overtakes nobody closes every listener there is: stale
\* ones last until then and no longer.
THEOREM TakeoverHeals == Spec => TakeoverCleans
  <1>1. ASSUME TypeOK, TunnelInv, [Next]_vars, NEW c \in Conns,
               handler[c].at = "takeover", handler'[c].at = "listen",
               \A d \in Conns : ~ Opening(d)
        PROVE  \A d \in Conns, p \in Ports : ~ Open(d, p)'
    <2>1. TakeOver(c)
        BY <1>1, HandlerMoves, HandlerGoes
    <2>2. NoListenerLeak /\ \A d \in Conns : handler[d].at # "append"
        BY <1>1 DEF TunnelInv, Opening
    <2>3. \A d \in Conns, p \in Ports : lst[d][p] # "bound"
      <3>1. \A p \in Ports : At("append", p).at = "append"
          BY DEF At
      <3> QED
          BY <2>2, <3>1 DEF NoListenerLeak
    <2> QED
        BY <1>1, <2>1, <2>3 DEF TakeOver, CloseListeners, Open, TypeOK
  <1>2. TypeOK /\ TunnelInv /\ [Next]_vars
        => [ \A c \in Conns :
               /\ handler[c].at = "takeover" /\ handler'[c].at = "listen"
               /\ \A d \in Conns : ~ Opening(d)
               => \A d \in Conns, p \in Ports : ~ Open(d, p)' ]_vars
      BY <1>1
  <1> QED
      BY <1>2, TunnelInvariant, PTL DEF Spec, TakeoverCleans

\* The handshake of a client with the server's token is never taken for a
\* probe while its connection is up: every frame it may write passes the
\* checks of ReadFrame, for any token up to the largest payload.
THEOREM GenuineNeverProbe == Spec => GenuineAccepted
  <1>1. \A hello \in Hellos :
           ReadFrame(hello) = [type |-> "handshake", len |-> HelloLen]
    <2>1. HelloLen \in 0 .. MaxPayloadSize
      <3>1. HelloLen \in Nat /\ HelloLen <= MaxPayloadSize
          BY TunnelAssumption DEF HelloLen
      <3>2. MaxPayloadSize \in Nat
          BY DEF MaxPayloadSize
      <3> QED
          BY <3>1, <3>2
    <2> QED
        BY <2>1, RoundTrip, TunnelAssumption DEF Hellos
  <1>2. ASSUME TypeOK, [Next]_vars, NEW c \in Conns,
               handler[c].at = "handshake", toServer[c] # NoFrame, link[c] = "up"
        PROVE  handler'[c].at \in {"handshake", "ack", "done"}
    <2>1. ASSUME Handler(c) \/ HelloTimeout(c) PROVE ReadHello(c)
        BY <1>2, <2>1, HandlerGoes DEF HelloFails, HelloTimeout
    <2>2. ASSUME ReadHello(c) PROVE handler'[c].at = "ack"
      <3>1. toServer[c] \in Hellos
          BY <1>2 DEF TypeOK
      <3> QED
          BY <1>1, <1>2, <2>2, <3>1 DEF ReadHello, Goto, At, TypeOK
    <2> QED
        BY <1>2, <2>1, <2>2, HandlerMoves
  <1>3. TypeOK /\ [Next]_vars
        => [ \A c \in Conns :
               handler[c].at = "handshake" /\ toServer[c] # NoFrame /\ link[c] = "up"
               => handler'[c].at \in {"handshake", "ack", "done"} ]_vars
      BY <1>2
  <1> QED
      BY <1>3, TunnelTypeCorrect, PTL DEF Spec, GenuineAccepted
=============================================================================
