----------------------------- MODULE WsBridge -----------------------------
(***************************************************************************)
(* One connection of /api/rt/<topic> (src/src/websocket.rs): the task      *)
(* zenoh_listener, which owns the Zenoh subscriber and the only sender of  *)
(* the connection's MessageStream, and the task of websocket_handler,      *)
(* which owns the receiver, the socket and the sender of the oneshot that  *)
(* stops the listener.  Each ends the other: the oneshot resolves when the *)
(* socket's task sends or is dropped, and the receiver sees Closed when    *)
(* the listener is gone and the buffer is drained.                         *)
(*                                                                         *)
(* Messages are numbered as they are published.  Zenoh, the client and the *)
(* network are external.  A frame cut off by a timeout or an error is not  *)
(* counted as sent.                                                        *)
(***************************************************************************)
EXTENDS Naturals, Sequences

CONSTANTS
    MaxMsgs,   \* bound: messages published
    SubCap,    \* messages the Zenoh subscriber holds
    StreamCap  \* capacity of the MessageStream (64 in the code)

ASSUME BridgeAssumption ==
    /\ MaxMsgs \in Nat
    /\ SubCap \in Nat \ {0} /\ StreamCap \in Nat \ {0}

VARIABLES
    published,  \* messages published on the topic
    subscriber, \* messages waiting in the Zenoh subscriber
    session,    \* whether the Zenoh session is open
    token,      \* whether the global shutdown token is cancelled
    listener,   \* control of zenoh_listener
    forwarded,  \* newest message broadcast by the listener
    stream,     \* messages in the MessageStream the receiver has yet to see
    lagged,     \* whether the receiver is to be told that it lost some
    socket,     \* control of the socket's task
    frame,      \* message being sent
    stopped,    \* whether the oneshot has resolved
    client,     \* the client and its network
    got         \* newest message handed to the client's connection

bridgeVars == <<published, subscriber, session, token, listener, forwarded, stream,
          lagged, socket, frame, stopped, client, got>>

Msgs == 1..MaxMsgs

BridgeTypeOK ==
    /\ published \in 0..MaxMsgs
    /\ subscriber \in Seq(Msgs) /\ Len(subscriber) <= SubCap
    /\ session \in BOOLEAN /\ token \in BOOLEAN
    /\ listener \in {"declaring", "receiving", "undeclaring", "ended"}
    /\ forwarded \in 0..MaxMsgs
    /\ stream \in Seq(Msgs) /\ Len(stream) <= StreamCap
    /\ lagged \in BOOLEAN
    /\ socket \in {"upgrading", "select", "sending", "pinging", "closing", "ended"}
    /\ frame \in 0..MaxMsgs
    /\ stopped \in BOOLEAN
    /\ client \in {"reading", "stalled", "gone"}
    /\ got \in 0..MaxMsgs

Connection(l, s) ==
    /\ published = 0 /\ subscriber = <<>>
    /\ session = TRUE /\ token = FALSE
    /\ listener = l /\ forwarded = 0
    /\ stream = <<>> /\ lagged = FALSE
    /\ socket = s /\ frame = 0 /\ stopped = (s = "ended")
    /\ client = "reading" /\ got = 0

BridgeInit == Connection("declaring", "upgrading")
NoConnection == Connection("ended", "ended")

-----------------------------------------------------------------------------
(* Zenoh, the client and the shutdown.                                     *)

\* A publisher waits when a subscriber's queue is full.
Publish ==
    /\ session /\ published < MaxMsgs
    /\ listener = "receiving" => Len(subscriber) < SubCap
    /\ published' = published + 1
    /\ subscriber' = IF listener = "receiving" THEN Append(subscriber, published + 1)
                     ELSE subscriber
    /\ UNCHANGED <<session, token, listener, forwarded, stream, lagged, socket,
                   frame, stopped, client, got>>

\* main: the signal cancels the token; later the session is closed.
Cancelled ==
    /\ ~token /\ token' = TRUE
    /\ UNCHANGED <<published, subscriber, session, listener, forwarded, stream,
                   lagged, socket, frame, stopped, client, got>>
SessionCloses ==
    /\ session /\ session' = FALSE
    /\ UNCHANGED <<published, subscriber, token, listener, forwarded, stream,
                   lagged, socket, frame, stopped, client, got>>

ClientBecomes(from, to) ==
    /\ client \in from
    /\ client' = to
    /\ UNCHANGED <<published, subscriber, session, token, listener, forwarded,
                   stream, lagged, socket, frame, stopped, got>>
Stalls  == ClientBecomes({"reading"}, "stalled")
Resumes == ClientBecomes({"stalled"}, "reading")
Leaves  == ClientBecomes({"reading", "stalled"}, "gone")

-----------------------------------------------------------------------------
(* zenoh_listener.                                                         *)

ListenerStep == UNCHANGED <<published, session, token, socket, frame, stopped, client, got>>

Declare ==
    /\ listener = "declaring"
    /\ \/ session /\ listener' = "receiving"
       \/ listener' = "ended"
    /\ ListenerStep /\ UNCHANGED <<subscriber, forwarded, stream, lagged>>

\* Variant: a full stream grows.
Grown(s, m) == [stream |-> Append(s, m), lagged |-> FALSE]

\* Variant: a full stream refuses the message.
Refused(s, m) ==
    IF Len(s) < StreamCap THEN [stream |-> Append(s, m), lagged |-> FALSE]
    ELSE [stream |-> s, lagged |-> TRUE]

\* broadcast::Sender::send: a full channel loses its oldest message.
Pushed(s, m) ==
    IF Len(s) < StreamCap THEN [stream |-> Append(s, m), lagged |-> FALSE]
    ELSE [stream |-> Append(Tail(s), m), lagged |-> TRUE]

\* Without a receiver the message is lost, and the error ignored.
Forward ==
    /\ listener = "receiving" /\ subscriber # <<>>
    /\ subscriber' = Tail(subscriber)
    /\ forwarded' = Head(subscriber)
    /\ IF socket = "ended" THEN UNCHANGED <<stream, lagged>>
       ELSE LET p == Pushed(stream, Head(subscriber))
            IN  stream' = p.stream /\ lagged' = (lagged \/ p.lagged)
    /\ ListenerStep /\ UNCHANGED listener

\* Variant: the listener watches only the global token.
HearsToken == token

\* Either shutdown signal, or a subscriber whose session is gone.
Hears == \/ stopped \/ token
         \/ ~session /\ subscriber = <<>>

Undeclare ==
    /\ listener = "receiving" /\ Hears
    /\ listener' = "undeclaring"
    /\ subscriber' = <<>>
    /\ ListenerStep /\ UNCHANGED <<forwarded, stream, lagged>>

\* Done, or failed with a warning: the subscriber, the observer and the
\* stream's sender are dropped.
Undeclared ==
    /\ listener = "undeclaring"
    /\ listener' = "ended"
    /\ ListenerStep /\ UNCHANGED <<subscriber, forwarded, stream, lagged>>

-----------------------------------------------------------------------------
(* The socket's task.                                                      *)

SocketStep == UNCHANGED <<published, subscriber, session, token, listener, forwarded, client>>
SocketGoes(pc) ==
    /\ socket' = pc
    /\ UNCHANGED <<stopped, stream, lagged>>

\* The task returns: the receiver is dropped and the oneshot resolves.
SocketEnds ==
    /\ socket' = "ended"
    /\ stopped' = TRUE
    /\ stream' = <<>> /\ lagged' = FALSE

Upgrade ==
    /\ socket = "upgrading"
    /\ \/ client # "gone" /\ SocketGoes("select")
       \/ SocketEnds
    /\ SocketStep /\ UNCHANGED <<frame, got>>

ReceiveMessage ==
    /\ socket = "select" /\ ~lagged /\ stream # <<>>
    /\ frame' = Head(stream) /\ stream' = Tail(stream)
    /\ socket' = "sending"
    /\ SocketStep /\ UNCHANGED <<stopped, lagged, got>>

\* Variant: any error of recv is taken for the end of the stream.
LagCloses ==
    /\ socket = "select" /\ lagged
    /\ socket' = "closing" /\ lagged' = FALSE
    /\ SocketStep /\ UNCHANGED <<stopped, stream, frame, got>>

\* Lagged: skip to the oldest message that is left.
ReceiveLagged ==
    /\ socket = "select" /\ lagged
    /\ lagged' = FALSE
    /\ SocketStep /\ UNCHANGED <<socket, stopped, stream, frame, got>>

\* Variant: the handler keeps a sender of the stream too.
SharedSender == FALSE

\* The listener holds the only sender.
NoSender == listener = "ended"

ReceiveClosed ==
    /\ socket = "select" /\ ~lagged /\ stream = <<>>
    /\ NoSender
    /\ SocketGoes("closing")
    /\ SocketStep /\ UNCHANGED <<frame, got>>

\* A send is taken by the connection, fails, or exceeds SEND_TIMEOUT.
SendFrame(m) ==
    /\ frame' = 0
    /\ \/ SocketGoes("select") /\ got' = m
       \/ client # "reading" /\ SocketEnds /\ UNCHANGED got
    /\ SocketStep
SendMessage == socket = "sending" /\ SendFrame(frame)
PingDue == socket = "select" /\ SocketGoes("pinging") /\ SocketStep /\ UNCHANGED <<frame, got>>
SendPing == socket = "pinging" /\ SendFrame(got)

\* The close frame, sent or not, is the end.
SendClose == socket = "closing" /\ SocketEnds /\ SocketStep /\ UNCHANGED <<frame, got>>

\* A close frame of the client, or the end of its stream.
ClientClosed ==
    /\ socket = "select" /\ client = "gone"
    /\ SocketEnds /\ SocketStep /\ UNCHANGED <<frame, got>>

-----------------------------------------------------------------------------
Listens == Declare \/ Forward \/ Undeclared
Receives == ReceiveMessage \/ ReceiveLagged \/ ReceiveClosed
Serves == \/ Upgrade \/ Receives
          \/ SendMessage \/ SendPing \/ SendClose

\* Both tasks are over: nothing is left but the messages of others.
Over == listener = "ended" /\ socket = "ended" /\ UNCHANGED bridgeVars

BridgeNext ==
    \/ Publish \/ Cancelled \/ SessionCloses \/ Stalls \/ Resumes \/ Leaves
    \/ Listens \/ Undeclare
    \/ Serves \/ PingDue \/ ClientClosed
    \/ Over

BridgeSpec == BridgeInit /\ [][BridgeNext]_bridgeVars

\* The runtime runs both tasks, and select! picks among its ready branches at
\* random: one that is ready again and again is taken in the end.  Nobody has
\* to publish, to shut down, to stall or to leave.
BridgeFairness ==
    /\ WF_bridgeVars(Listens) /\ WF_bridgeVars(Undeclare) /\ WF_bridgeVars(Serves)
    /\ SF_bridgeVars(Receives) /\ SF_bridgeVars(ClientClosed)

FairBridgeSpec == BridgeSpec /\ BridgeFairness

-----------------------------------------------------------------------------
(* Properties.                                                             *)

\* What the client gets is a stream as LossyStream promises, however slow it
\* reads and whoever ends the connection.
Lossy == INSTANCE LossyStream WITH
             Numbers <- Msgs, sent <- forwarded, open <- (socket # "ended")
StreamSpec == Lossy!LossySpec

\* When the server says that the subscriber ended, the client has been sent the
\* newest message that was forwarded, even if it lagged.
GoodbyeIsLast == socket = "closing" => got = forwarded

\* The two tasks end together: a connection that is over, for whatever reason and
\* at whatever moment, does not keep its Zenoh subscriber (nor the observer of
\* its topic), and a client whose subscriber ended or was never declared is not
\* left waiting on a silent socket, but closed, for it to reconnect.
EndsTogether ==
    /\ socket = "ended" ~> listener = "ended"
    /\ listener = "ended" ~> socket = "ended"
=============================================================================
