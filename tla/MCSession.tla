------------------------------ MODULE MCSession ------------------------------
(***************************************************************************)
(* Session with the policies of Messenger.h.                               *)
(***************************************************************************)
EXTENDS Session

P(l, s, st, r) == [lossy |-> l, server |-> s, standby |-> st, resetcheck |-> r]

stateful_server == P(FALSE, TRUE, TRUE, TRUE)
stateless_server == P(TRUE, TRUE, FALSE, FALSE)
lossless_peer == P(FALSE, FALSE, TRUE, FALSE)
lossy_client == P(TRUE, FALSE, FALSE, FALSE)
lossless_client == P(FALSE, FALSE, FALSE, TRUE)

Peers == <<lossless_peer, lossless_peer>>
ClientServer == <<lossless_client, stateful_server>>
LossyClient == <<lossy_client, stateless_server>>

\* No message, no call, no restart.
Quiet == [policy |-> Peers, msgs |-> <<0, 0>>, breaks |-> 1, downs |-> <<0, 0>>,
          restarts |-> <<0, 0>>, cseq |-> 4, gseq |-> 4, reset_seqs |-> {0},
          preempt |-> TRUE]

\* Two peers that may connect to each other at the same time, and again after a
\* socket broke.
Race == [Quiet EXCEPT !.msgs = <<1, 1>>, !.gseq = 2]

\* One peer sends; two sockets break, anywhere.
Reconnect == [Quiet EXCEPT !.msgs = <<2, 0>>, !.breaks = 2, !.gseq = 5]

\* A lossy client that also marks its connection down and restarts.
Lossy == [Quiet EXCEPT !.policy = LossyClient, !.msgs = <<2, 1>>,
                       !.downs = <<1, 0>>, !.restarts = <<1, 0>>]

\* A lossless client and its server, which restarts; one socket breaks.
Settle == [Quiet EXCEPT !.policy = ClientServer, !.msgs = <<2, 1>>,
                        !.restarts = <<0, 1>>, !.cseq = 12, !.gseq = 8,
                        !.reset_seqs = {0, 3}, !.preempt = FALSE]

RaceReconnectLossySettle == {Race, Reconnect, Lossy, Settle}

\* A client that marks its connection down and sends again.
Forget == {[Quiet EXCEPT !.policy = ClientServer, !.msgs = <<2, 0>>,
                         !.downs = <<1, 0>>]}
=============================================================================
