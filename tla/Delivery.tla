------------------------------ MODULE Delivery ------------------------------
(***************************************************************************)
(* What a lossless connection promises the applications at its two ends:   *)
(* messages are dispatched in the order in which they were sent, each one  *)
(* once in a session of the receiver, and none is passed over unless the   *)
(* sending application marked the connection down or was told of a reset.  *)
(***************************************************************************)
EXTENDS Integers, Sequences

VARIABLES
    submitted,      \* per node: messages sent, numbered 1..submitted
    got,            \* per node: messages dispatched in its current session
    ever,           \* per node: messages ever dispatched
    dropped         \* per node: own messages given up with its knowledge

vars == <<submitted, got, ever, dropped>>

Node == {1, 2}

Peer(n) == 3 - n

Init ==
    /\ submitted = [n \in Node |-> 0]
    /\ got = [n \in Node |-> <<>>]
    /\ ever = [n \in Node |-> {}]
    /\ dropped = [n \in Node |-> {}]

\* Messages to n that the connection still owes it.
Owed(n) == (1 .. submitted[Peer(n)]) \ (ever[n] \cup dropped[Peer(n)])

\* An application sends; on a connection it has marked down, in vain.
Submit(n) ==
    /\ submitted' = [submitted EXCEPT ![n] = @ + 1]
    /\ \/ UNCHANGED dropped
       \/ dropped' = [dropped EXCEPT ![n] = @ \cup {submitted[n] + 1}]
    /\ UNCHANGED <<got, ever>>

\* Message k is dispatched: none that is owed comes before it, and none after
\* it was dispatched in this session.
Dispatch(n, k) ==
    /\ \A j \in Owed(n) : k <= j
    /\ \A x \in 1 .. Len(got[n]) : got[n][x] < k
    /\ got' = [got EXCEPT ![n] = Append(@, k)]
    /\ ever' = [ever EXCEPT ![n] = @ \cup {k}]
    /\ UNCHANGED <<submitted, dropped>>

\* The session of n ends, and with it what n had still to send.
Reset(n) ==
    /\ got' = [got EXCEPT ![n] = <<>>]
    /\ \E S \in SUBSET (1 .. submitted[n]) :
          dropped' = [dropped EXCEPT ![n] = @ \cup S]
    /\ UNCHANGED <<submitted, ever>>

Next ==
    \E n \in Node : \/ Submit(n)
                    \/ \E k \in 1 .. submitted[Peer(n)] : Dispatch(n, k)
                    \/ Reset(n)

Spec == Init /\ [][Next]_vars
=============================================================================
