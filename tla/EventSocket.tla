---------------------------- MODULE EventSocket ----------------------------
(***************************************************************************)
(* One viewer of a stream of events that the whole server shares: the      *)
(* socket of /api/ws/uploads (websocket_handler_uploads in                 *)
(* src/src/main.rs) or of /api/ws/dropped (websocket_handler_errors in     *)
(* src/src/websocket.rs).  Their loops are the same.  Unlike a live topic  *)
(* the stream outlives its viewers: nothing is to be stopped when one      *)
(* ends, and no close frame is ever sent.  A viewer gets no event of       *)
(* before it subscribed.  Viewers do not see each other, and an emitter    *)
(* waits for none, so one is enough.                                       *)
(***************************************************************************)
EXTENDS Naturals, Sequences

CONSTANTS
    MaxEvents,  \* bound: events emitted
    EventCap    \* capacity of the MessageStream (64 in the code)

ASSUME EventAssumption == MaxEvents \in Nat /\ EventCap \in Nat \ {0}

VARIABLES
    emitted,  \* newest event of the stream
    offered,  \* newest since the viewer subscribed
    backlog,  \* events in the MessageStream that it has yet to see
    overrun,  \* whether it is to be told that it lost some
    viewer,   \* control of the socket's task
    event,    \* event being sent
    browser,  \* the client and its network
    shown     \* newest event handed to the client's connection

eventVars == <<emitted, offered, backlog, overrun, viewer, event, browser, shown>>

Events == 1..MaxEvents

EventTypeOK ==
    /\ emitted \in 0..MaxEvents /\ offered \in 0..MaxEvents
    /\ backlog \in Seq(Events) /\ Len(backlog) <= EventCap
    /\ overrun \in BOOLEAN
    /\ viewer \in {"upgrading", "select", "sending", "pinging", "ended"}
    /\ event \in 0..MaxEvents /\ shown \in 0..MaxEvents
    /\ browser \in {"reading", "stalled", "gone"}

Viewer(pc) ==
    /\ emitted = 0 /\ offered = 0
    /\ backlog = <<>> /\ overrun = FALSE
    /\ viewer = pc /\ event = 0
    /\ browser = "reading" /\ shown = 0

EventInit == Viewer("upgrading")
NoViewer == Viewer("ended")

-----------------------------------------------------------------------------
Subscribed == viewer \notin {"upgrading", "ended"}

\* A send never waits: a full stream loses its oldest event.
Emit ==
    /\ emitted < MaxEvents
    /\ emitted' = emitted + 1
    /\ IF Subscribed
       THEN /\ offered' = emitted'
            /\ backlog' = Append(IF Len(backlog) < EventCap THEN backlog ELSE Tail(backlog), emitted')
            /\ overrun' = (overrun \/ Len(backlog) = EventCap)
       ELSE UNCHANGED <<offered, backlog, overrun>>
    /\ UNCHANGED <<viewer, event, browser, shown>>

BrowserBecomes(from, to) ==
    /\ browser \in from /\ browser' = to
    /\ UNCHANGED <<emitted, offered, backlog, overrun, viewer, event, shown>>
BrowserStalls  == BrowserBecomes({"reading"}, "stalled")
BrowserResumes == BrowserBecomes({"stalled"}, "reading")
BrowserLeaves  == BrowserBecomes({"reading", "stalled"}, "gone")

-----------------------------------------------------------------------------
ViewerStep == UNCHANGED <<emitted, offered, browser>>
ViewerGoes(pc) == viewer' = pc /\ UNCHANGED <<backlog, overrun>>
ViewerEnds == viewer' = "ended" /\ backlog' = <<>> /\ overrun' = FALSE

\* Subscribes when the upgrade is done.
ViewerUpgrade ==
    /\ viewer = "upgrading"
    /\ \/ browser # "gone" /\ ViewerGoes("select")
       \/ ViewerEnds
    /\ ViewerStep /\ UNCHANGED <<event, shown>>

NextEvent ==
    /\ viewer = "select" /\ ~overrun /\ backlog # <<>>
    /\ event' = Head(backlog) /\ backlog' = Tail(backlog)
    /\ viewer' = "sending"
    /\ ViewerStep /\ UNCHANGED <<overrun, shown>>

\* Lagged is passed over.
SkipLost ==
    /\ viewer = "select" /\ overrun
    /\ overrun' = FALSE
    /\ ViewerStep /\ UNCHANGED <<backlog, viewer, event, shown>>

\* Taken by the connection, or the viewer is given up: an error or a timeout.
ShowEvent ==
    /\ viewer = "sending"
    /\ event' = 0
    /\ \/ ViewerGoes("select") /\ shown' = event
       \/ browser # "reading" /\ ViewerEnds /\ UNCHANGED shown
    /\ ViewerStep

ViewerPingDue ==
    /\ viewer = "select" /\ ViewerGoes("pinging")
    /\ ViewerStep /\ UNCHANGED <<event, shown>>

\* Here a timeout alone gives the viewer up: an error is not looked at.
ViewerPing ==
    /\ viewer = "pinging"
    /\ \/ ViewerGoes("select")
       \/ browser = "stalled" /\ ViewerEnds
    /\ ViewerStep /\ UNCHANGED <<event, shown>>

HungUp ==
    /\ viewer = "select" /\ browser = "gone" /\ ViewerEnds
    /\ ViewerStep /\ UNCHANGED <<event, shown>>

-----------------------------------------------------------------------------
TakesEvent == NextEvent \/ SkipLost
Views == ViewerUpgrade \/ TakesEvent \/ ShowEvent \/ ViewerPing

EventNext ==
    \/ Emit \/ BrowserStalls \/ BrowserResumes \/ BrowserLeaves
    \/ Views \/ ViewerPingDue \/ HungUp
    \/ viewer = "ended" /\ UNCHANGED eventVars

EventSpec == EventInit /\ [][EventNext]_eventVars

\* As in WsBridge: the task runs, and select! takes what is ready again and again.
EventFairness == WF_eventVars(Views) /\ SF_eventVars(TakesEvent)

-----------------------------------------------------------------------------
(* Property.                                                               *)

\* A viewer gets newer and newer events and is never stuck behind the newest,
\* say the last one of an upload, however slow it reads.
EventLossy == INSTANCE LossyStream WITH
                  Numbers <- Events, sent <- offered, got <- shown, open <- (viewer # "ended")
EventStreamSpec == EventLossy!LossySpec
=============================================================================
