------------------------------ MODULE MCClients ------------------------------
(***************************************************************************)
(* What the server does for clients that come and go, for TLC: one         *)
(* connection to a live topic (WsBridge), one to a stream of events        *)
(* (EventSocket), the session with Studio that all share (Session), and    *)
(* the certificate that they are shown from one start of the server to the *)
(* next (Certificates).  ServerContext in src/src/main.rs holds the        *)
(* streams apart from the UploadManager's client, and the certificate is   *)
(* loaded before either: each behaviour follows one of the four, and the   *)
(* others stay as they began.                                              *)
(***************************************************************************)
EXTENDS WsBridge, EventSocket, Session, Certificates

VARIABLE part

allVars == <<bridgeVars, eventVars, sessionVars, certVars, part>>

MCInit ==
    /\ part \in {"topic", "events", "session", "certificate"}
    /\ SessionInit /\ CertInit
    /\ IF part = "topic" THEN BridgeInit ELSE NoConnection
    /\ IF part = "events" THEN EventInit ELSE NoViewer

MCNext ==
    /\ UNCHANGED part
    /\ \/ part = "topic" /\ BridgeNext /\ UNCHANGED <<eventVars, sessionVars, certVars>>
       \/ part = "events" /\ EventNext /\ UNCHANGED <<bridgeVars, sessionVars, certVars>>
       \/ part = "session" /\ SessionNext /\ UNCHANGED <<bridgeVars, eventVars, certVars>>
       \/ part = "certificate" /\ CertNext /\ UNCHANGED <<bridgeVars, eventVars, sessionVars>>

\* Nothing that is fair is enabled in the parts that stay as they began.
MCSpec ==
    /\ MCInit /\ [][MCNext]_allVars
    /\ BridgeFairness /\ EventFairness /\ SessionFairness

TypesOK == BridgeTypeOK /\ EventTypeOK /\ SessionTypeOK /\ CertTypeOK

\* Both kinds of socket keep what LossyStream promises.
StreamsSpec == StreamSpec /\ EventStreamSpec
=============================================================================
