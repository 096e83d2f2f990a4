----------------------------- MODULE TunnelServer -----------------------------
(***************************************************************************)
(* The two programs of a hawal tunnel around their mux session: the entry  *)
(* server (core/server), which adopts the last connection that passed the  *)
(* handshake and listens on the forwarded ports for it, and the client on  *)
(* the foreign node (core/client), which dials, serves and dials again.    *)
(* What happens inside a session is MuxSession.                            *)
(*                                                                         *)
(* The server runs one goroutine per connection, handleIncomingTransport.  *)
(* Its steps are the reads and writes of the handshake, the takeover under *)
(* s.mu, and for each forwarded port net.Listen and the append under s.mu: *)
(* the handlers of several connections interleave between any two of them. *)
(*                                                                         *)
(* Conns are places for TCP connections; one is used again when nothing    *)
(* refers to its last connection. Ports are the rules of the configuration *)
(* in their order. Failures share the bound MaxEvents.                     *)
(***************************************************************************)
EXTENDS Naturals, FrameCodec

CONSTANTS
    Conns,          \* TCP connections that may exist at a time
    NoConn,         \* the nil session
    NumPorts,       \* number of forwarded ports
    TokenLen,       \* length of the shared token
    Pads,           \* paddings that a frame may be given
    Disturbances,   \* which of "break", "late", "client", "server", "accept"
                    \* may happen
    MaxEvents       \* bound: disturbances

Ports == 1 .. NumPorts
HelloLen == 7 + TokenLen    \* "HWL_HS:" and the token
AckLen == 2                 \* "OK"

ASSUME TunnelAssumption ==
    /\ NoConn \notin Conns
    /\ NumPorts \in Nat
    /\ TokenLen \in Nat /\ HelloLen <= MaxPayloadSize
    /\ Pads \subseteq 0 .. MaxPaddingSize
    /\ MaxEvents \in Nat

VARIABLES
    up,             \* the server process runs
    link,           \* conn -> "none", "up", or "lost": closed or broken
    toServer,       \* conn -> the client's handshake frame, not yet read
    toClient,       \* conn -> the server's answer, not yet read
    handler,        \* conn -> its handleIncomingTransport: position, port
    session,        \* s.session
    sess,           \* conn -> the mux session made on it: Session.closed
    lst,            \* conn -> port -> the listener its handler opened
    client,         \* the client: position, connection
    overtaken,      \* history: connections replaced while their handler was
                    \* still opening listeners
    events          \* disturbances so far

vars == <<up, link, toServer, toClient, handler, session, sess, lst, client,
          overtaken, events>>

NoFrame == [type |-> "none"]
Hellos == {WriteFrame("handshake", HelloLen, pad) : pad \in Pads}
Acks == {WriteFrame("ack", AckLen, pad) : pad \in Pads}

At(where, p) == [at |-> where, port |-> p]

Positions ==
    [at : {"none", "handshake", "ack", "takeover", "probe", "done"}, port : {0}]
    \cup [at : {"listen"}, port : 1 .. NumPorts + 1]
    \cup [at : {"append"}, port : Ports]

TypeOK ==
    /\ up \in BOOLEAN
    /\ link \in [Conns -> {"none", "up", "lost"}]
    /\ toServer \in [Conns -> Hellos \cup {NoFrame}]
    /\ toClient \in [Conns -> Acks \cup {NoFrame}]
    /\ handler \in [Conns -> Positions]
    /\ session \in Conns \cup {NoConn}
    /\ sess \in [Conns -> {"none", "open", "closed"}]
    /\ lst \in [Conns -> [Ports -> {"none", "bound", "registered", "closed"}]]
    /\ client \in [at : {"dial", "wait"}, conn : {NoConn}]
                  \cup [at : {"hello", "ack", "serve"}, conn : Conns]
    /\ overtaken \subseteq Conns
    /\ events \in 0 .. MaxEvents

Init ==
    /\ up = TRUE
    /\ link = [c \in Conns |-> "none"]
    /\ toServer = [c \in Conns |-> NoFrame]
    /\ toClient = [c \in Conns |-> NoFrame]
    /\ handler = [c \in Conns |-> At("none", 0)]
    /\ session = NoConn
    /\ sess = [c \in Conns |-> "none"]
    /\ lst = [c \in Conns |-> [p \in Ports |-> "none"]]
    /\ client = [at |-> "dial", conn |-> NoConn]
    /\ overtaken = {}
    /\ events = 0

-----------------------------------------------------------------------------
(* Listeners and sessions *)

Open(c, p) == lst[c][p] \in {"bound", "registered"}

\* The handler of c is in startForwardedListeners.
Opening(c) == handler[c].at \in {"listen", "append"}

\* Nothing refers to the connection c any more.
Free(c) ==
    /\ link[c] # "up"
    /\ handler[c].at = "done" \/ link[c] = "none"
    /\ session # c /\ sess[c] # "open" /\ client.conn # c
    /\ \A p \in Ports : ~ Open(c, p)

Goto(c, where, p) == handler' = [handler EXCEPT ![c] = At(where, p)]

Disturb(what) ==
    /\ what \in Disturbances
    /\ events < MaxEvents
    /\ events' = events + 1

-----------------------------------------------------------------------------
(* The server *)

\* Start: coreListener.Accept, go handleIncomingTransport.
Accept(c) ==
    /\ up
    /\ link[c] # "none" /\ handler[c].at = "none"
    /\ Goto(c, "handshake", 0)
    /\ UNCHANGED <<up, link, toServer, toClient, session, sess, lst, client,
                   overtaken, events>>

\* PerformServerHandshake: the client's frame is read and compared.
ReadHello(c) ==
    /\ handler[c].at = "handshake" /\ toServer[c] # NoFrame
    /\ toServer' = [toServer EXCEPT ![c] = NoFrame]
    /\ IF ReadFrame(toServer[c]) = [type |-> "handshake", len |-> HelloLen]
       THEN Goto(c, "ack", 0) ELSE Goto(c, "probe", 0)
    /\ UNCHANGED <<up, link, toClient, session, sess, lst, client, overtaken,
                   events>>

\* The read fails with the connection.
HelloFails(c) ==
    /\ handler[c].at = "handshake"
    /\ link[c] = "lost"
    /\ Goto(c, "probe", 0)
    /\ UNCHANGED <<up, link, toServer, toClient, session, sess, lst, client,
                   overtaken, events>>

\* SetReadDeadline(10 s): no frame came in time.
HelloTimeout(c) ==
    /\ Disturb("late")
    /\ handler[c].at = "handshake"
    /\ link[c] = "up" /\ toServer[c] = NoFrame
    /\ Goto(c, "probe", 0)
    /\ UNCHANGED <<up, link, toServer, toClient, session, sess, lst, client,
                   overtaken>>

\* The ack is written.
WriteAck(c) ==
    /\ handler[c].at = "ack"
    /\ \E ack \in Acks : toClient' = [toClient EXCEPT ![c] = ack]
    /\ Goto(c, "takeover", 0)
    /\ UNCHANGED <<up, link, toServer, session, sess, lst, client, overtaken,
                   events>>

\* On a lost connection the write may succeed or fail.
WriteAckFails(c) ==
    /\ handler[c].at = "ack"
    /\ link[c] = "lost"
    /\ Goto(c, "probe", 0)
    /\ UNCHANGED <<up, link, toServer, toClient, session, sess, lst, client,
                   overtaken, events>>

\* HandleActiveProbe: a web page, and the connection is closed.
HandleActiveProbe(c) ==
    /\ handler[c].at = "probe"
    /\ link' = [link EXCEPT ![c] = "lost"]
    /\ Goto(c, "done", 0)
    /\ UNCHANGED <<up, toServer, toClient, session, sess, lst, client,
                   overtaken, events>>

\* Mutant of CloseListeners: s.listeners = nil, but nothing is closed.
ForgetListeners == UNCHANGED lst

\* Every listener in s.listeners is closed, and the slice emptied.
CloseListeners ==
    lst' = [c \in Conns |-> [p \in Ports |->
               IF lst[c][p] = "registered" THEN "closed" ELSE lst[c][p]]]

\* Mutant of Adopt: the former session is forgotten without being closed.
AdoptOnly(c) ==
    /\ session' = c
    /\ sess' = [sess EXCEPT ![c] = "open"]
    /\ UNCHANGED link

\* s.session.Close, which closes its connection, and NewSession.
Adopt(c) ==
    /\ session' = c
    /\ sess' = [d \in Conns |-> IF d = c THEN "open"
                                ELSE IF d = session THEN "closed" ELSE sess[d]]
    /\ link' = [d \in Conns |-> IF d = session THEN "lost" ELSE link[d]]

\* The critical section of handleIncomingTransport.
TakeOver(c) ==
    /\ handler[c].at = "takeover"
    /\ Adopt(c)
    /\ CloseListeners
    /\ Goto(c, "listen", 1)
    /\ overtaken' = (overtaken \cup {d \in Conns : Opening(d)}) \ {c}
    /\ UNCHANGED <<up, toServer, toClient, client, events>>

\* net.Listen for one rule; on an error the rule is skipped.
Listen(c) ==
    /\ handler[c].at = "listen" /\ handler[c].port \in Ports
    /\ LET p == handler[c].port IN
          IF \E d \in Conns : Open(d, p)
          THEN Goto(c, "listen", p + 1) /\ UNCHANGED lst
          ELSE /\ lst' = [lst EXCEPT ![c][p] = "bound"]
               /\ Goto(c, "append", p)
    /\ UNCHANGED <<up, link, toServer, toClient, session, sess, client,
                   overtaken, events>>

\* Mutant of AppendListener: the listener is used but not remembered.
ServeOnly(c) ==
    /\ handler[c].at = "append"
    /\ Goto(c, "listen", handler[c].port + 1)
    /\ UNCHANGED <<up, link, toServer, toClient, session, sess, lst, client,
                   overtaken, events>>

\* s.listeners = append(s.listeners, l) under s.mu; go forwardPortLoop.
AppendListener(c) ==
    /\ handler[c].at = "append"
    /\ LET p == handler[c].port IN
          /\ lst' = [lst EXCEPT ![c][p] = "registered"]
          /\ Goto(c, "listen", p + 1)
    /\ UNCHANGED <<up, link, toServer, toClient, session, sess, client,
                   overtaken, events>>

HandlerDone(c) ==
    /\ handler[c].at = "listen" /\ handler[c].port \notin Ports
    /\ Goto(c, "done", 0)
    /\ UNCHANGED <<up, link, toServer, toClient, session, sess, lst, client,
                   overtaken, events>>

Handler(c) ==
    \/ Accept(c) \/ ReadHello(c) \/ HelloFails(c) \/ WriteAck(c)
    \/ WriteAckFails(c) \/ HandleActiveProbe(c)
    \/ TakeOver(c) \/ Listen(c) \/ AppendListener(c) \/ HandlerDone(c)

\* readLoop of the session on c fails and closes the session.
SessionEnds(c) ==
    /\ sess[c] = "open" /\ link[c] = "lost"
    /\ sess' = [sess EXCEPT ![c] = "closed"]
    /\ UNCHANGED <<up, link, toServer, toClient, handler, session, lst, client,
                   overtaken, events>>

\* forwardPortLoop: Accept fails, the deferred Close ends the listener.
ForwardPortLoopEnds(c, p) ==
    /\ Disturb("accept")
    /\ lst[c][p] = "registered"
    /\ lst' = [lst EXCEPT ![c][p] = "closed"]
    /\ UNCHANGED <<up, link, toServer, toClient, handler, session, sess,
                   client, overtaken>>

\* The process ends, and with it every connection, handler and listener.
ServerStops ==
    /\ Disturb("server")
    /\ up
    /\ up' = FALSE
    /\ link' = [c \in Conns |-> IF link[c] = "none" THEN "none" ELSE "lost"]
    /\ handler' = [c \in Conns |-> IF link[c] = "none" THEN At("none", 0)
                                   ELSE At("done", 0)]
    /\ session' = NoConn
    /\ sess' = [c \in Conns |-> IF sess[c] = "open" THEN "closed" ELSE sess[c]]
    /\ lst' = [c \in Conns |-> [p \in Ports |->
                  IF Open(c, p) THEN "closed" ELSE lst[c][p]]]
    /\ overtaken' = {}
    /\ UNCHANGED <<toServer, toClient, client>>

\* The agent starts it again (apply_configs).
ServerStarts ==
    /\ ~ up
    /\ up' = TRUE
    /\ UNCHANGED <<link, toServer, toClient, handler, session, sess, lst,
                   client, overtaken, events>>

-----------------------------------------------------------------------------
(* The client *)

ClientAt(where, c) == client' = [at |-> where, conn |-> c]

\* net.DialTimeout; which free place the connection takes does not matter.
Dial(c) ==
    /\ client.at = "dial" /\ up
    /\ Free(c) /\ c = CHOOSE d \in Conns : Free(d)
    /\ ClientAt("hello", c)
    /\ link' = [link EXCEPT ![c] = "up"]
    /\ toServer' = [toServer EXCEPT ![c] = NoFrame]
    /\ toClient' = [toClient EXCEPT ![c] = NoFrame]
    /\ handler' = [handler EXCEPT ![c] = At("none", 0)]
    /\ sess' = [sess EXCEPT ![c] = "none"]
    /\ lst' = [lst EXCEPT ![c] = [p \in Ports |-> "none"]]
    /\ overtaken' = overtaken \ {c}
    /\ UNCHANGED <<up, session, events>>

DialFails ==
    /\ client.at = "dial" /\ ~ up
    /\ ClientAt("wait", NoConn)
    /\ UNCHANGED <<up, link, toServer, toClient, handler, session, sess, lst,
                   overtaken, events>>

\* PerformClientHandshake: the frame is written.
SendHello ==
    /\ client.at = "hello"
    /\ LET c == client.conn IN
          /\ link[c] = "up"
          /\ \E hello \in Hellos : toServer' = [toServer EXCEPT ![c] = hello]
          /\ ClientAt("ack", c)
    /\ UNCHANGED <<up, link, toClient, handler, session, sess, lst, overtaken,
                   events>>

\* The ack is read; NewSession.
ReadAck ==
    /\ client.at = "ack"
    /\ LET c == client.conn IN
          /\ toClient[c] # NoFrame
          /\ ReadFrame(toClient[c]).type = "ack"
          /\ ClientAt("serve", c)
          /\ toClient' = [toClient EXCEPT ![c] = NoFrame]
    /\ UNCHANGED <<up, link, toServer, handler, session, sess, lst, overtaken,
                   events>>

\* Mutant of ConnectionDropped: connectAndServe returns without closing its
\* connection.
DroppedNotClosed ==
    /\ client.at \in {"hello", "ack", "serve"}
    /\ link[client.conn] = "lost"
    /\ ClientAt("wait", client.conn)
    /\ UNCHANGED <<up, link, toServer, toClient, handler, session, sess, lst,
                   overtaken, events>>

\* A read or a write fails: connectAndServe returns, Start sleeps for 3 s.
ConnectionDropped ==
    /\ client.at \in {"hello", "ack", "serve"}
    /\ link[client.conn] = "lost"
    /\ ClientAt("wait", NoConn)
    /\ UNCHANGED <<up, link, toServer, toClient, handler, session, sess, lst,
                   overtaken, events>>

Reconnect ==
    /\ client.at = "wait"
    /\ ClientAt("dial", NoConn)
    /\ UNCHANGED <<up, link, toServer, toClient, handler, session, sess, lst,
                   overtaken, events>>

Client ==
    \/ \E c \in Conns : Dial(c)
    \/ DialFails \/ SendHello \/ ReadAck \/ ConnectionDropped \/ Reconnect

\* The agent replaces the client's process; its connection is closed.
ClientRestarts ==
    /\ Disturb("client")
    /\ client.conn # NoConn
    /\ link' = [link EXCEPT ![client.conn] = "lost"]
    /\ ClientAt("dial", NoConn)
    /\ UNCHANGED <<up, toServer, toClient, handler, session, sess, lst,
                   overtaken>>

\* The connection is lost in the network; each end notices by itself.
Break(c) ==
    /\ Disturb("break")
    /\ link[c] = "up"
    /\ link' = [link EXCEPT ![c] = "lost"]
    /\ UNCHANGED <<up, toServer, toClient, handler, session, sess, lst, client,
                   overtaken>>

-----------------------------------------------------------------------------
Next ==
    \/ \E c \in Conns : Handler(c) \/ SessionEnds(c) \/ HelloTimeout(c) \/ Break(c)
    \/ \E c \in Conns, p \in Ports : ForwardPortLoopEnds(c, p)
    \/ ServerStops \/ ServerStarts
    \/ Client \/ ClientRestarts

Spec == Init /\ [][Next]_vars

\* The Go scheduler runs every goroutine that can run, keepalive finds a lost
\* connection on either side, and the agent starts a server that ended.
Fairness ==
    /\ \A c \in Conns : WF_vars(Handler(c)) /\ WF_vars(SessionEnds(c))
    /\ WF_vars(ServerStarts)
    /\ WF_vars(Client)

FairSpec == Spec /\ Fairness

-----------------------------------------------------------------------------
(* Properties *)

\* At most one session is open, and it is the one new listeners are opened
\* for: a replaced session is closed in the same critical section, whichever
\* handler comes last.
OneOpenSession == \A c \in Conns : sess[c] = "open" => session = c

\* No listener is leaked: one that is open is in s.listeners, where the next
\* takeover finds it, or in the hands of the handler that is about to put it
\* there.
NoListenerLeak ==
    \A c \in Conns, p \in Ports :
        lst[c][p] = "bound" => handler[c] = At("append", p)

\* A port that is forwarded to a session that is no longer the server's was
\* opened by a handler that another one overtook while it was opening
\* listeners; a handler that was not leaves nothing behind.
StaleOnlyIfOvertaken ==
    \A c \in Conns, p \in Ports :
        Open(c, p) /\ c # session => c \in overtaken

\* A takeover that finds no other handler opening listeners closes every
\* listener of the former sessions, also those an overtaken handler left: the
\* server is then as a fresh one.
TakeoverCleans ==
    [][ \A c \in Conns :
          /\ handler[c].at = "takeover" /\ handler'[c].at = "listen"
          /\ \A d \in Conns : ~ Opening(d)
          => \A d \in Conns, p \in Ports : ~ Open(d, p)' ]_vars

\* A handshake of a client with the right token is accepted whatever padding
\* its frame was given, and however long the token: the limits of both ends
\* of the frame format fit together.
GenuineAccepted ==
    [][ \A c \in Conns :
          handler[c].at = "handshake" /\ toServer[c] # NoFrame /\ link[c] = "up"
          => handler'[c].at \in {"handshake", "ack", "done"} ]_vars

\* Client and server share a session: the client serves the connection whose
\* session the server uses.
Connected ==
    /\ client.at = "serve" /\ link[client.conn] = "up"
    /\ session = client.conn /\ sess[session] = "open"

\* Once the disturbances have ended, client and server find each other again
\* and stay connected, also when handlers of dead connections are still on
\* their way to take over.
EventuallyConnected == <>[]Connected

\* If no handler was ever overtaken and no listener failed, every port ends
\* up forwarded to the session that is shared.
EventuallyForwarded ==
    [](overtaken = {} /\ \A c \in Conns, p \in Ports :
                            lst[c][p] = "closed" => session # c)
    => <>[](\A p \in Ports : session # NoConn /\ lst[session][p] = "registered")

\* "Close any previous port listeners before opening new" (server.go): when
\* no handler is at work, every open listener is one of the active session.
ListenersOfActiveSession ==
    (\A c \in Conns : handler[c].at \in {"none", "done"}) =>
        \A c \in Conns, p \in Ports : Open(c, p) => c = session
=============================================================================
