---------------------------- MODULE LossyStream ----------------------------
(***************************************************************************)
(* What a socket promises its client: the messages it gets are newer and   *)
(* newer, some may be skipped, none is repeated or late after the end, and *)
(* every message is overtaken: the client gets it or a newer one, or the   *)
(* stream is closed.  WsBridge and EventSocket implement it.               *)
(***************************************************************************)
EXTENDS Naturals

CONSTANT Numbers    \* message numbers, in the order of publication

VARIABLES sent,     \* newest message offered to the stream, 0 before the first
          got,      \* newest message the client was sent, 0 before the first
          open

\* Some connections are over before they are a stream.
LossyInit == sent = 0 /\ got = 0 /\ open \in BOOLEAN

Offer == \E n \in Numbers : n > sent /\ sent' = n /\ UNCHANGED <<got, open>>

Deliver == \E n \in Numbers :
    /\ open
    /\ got < n /\ n <= sent
    /\ got' = n
    /\ UNCHANGED <<sent, open>>

Close == open /\ open' = FALSE /\ UNCHANGED <<sent, got>>

Overtaken == \A n \in Numbers : sent >= n ~> (got >= n \/ ~open)

\* What may happen, and that something does.
LossySafe == LossyInit /\ [][Offer \/ Deliver \/ Close]_<<sent, got, open>>
LossySpec == LossySafe /\ Overtaken
=============================================================================
