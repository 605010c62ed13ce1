------------------------------ MODULE MCReader ------------------------------
(***************************************************************************)
(* Instances of Reader for TLC.                                            *)
(***************************************************************************)
EXTENDS Reader

Tag(t) == [tag |-> t, front |-> 0, middle |-> 0, data |-> 0, seq |-> 0,
           fault |-> "none"]
Msg(n, f, m, d) == [Tag("MSG") EXCEPT !.front = f, !.middle = m, !.data = d, !.seq = n]
Bad(i, why) == [i EXCEPT !.fault = why]

\* Parts smaller and larger than the prefetch buffer, empty ones, data that
\* ends within a segment; every tag; everything that may be wrong.
AllStreams ==
    {<<Msg(1, 1, 0, 0), Tag("ACK"), Msg(2, 4, 1, 3)>>,
     <<Tag("KEEPALIVE2"), Msg(1, 0, 0, 0), Tag("KEEPALIVE2_ACK"), Msg(2, 0, 0, 3)>>,
     <<Msg(1, 1, 1, 0), Tag("CLOSE")>>,
     <<Msg(1, 1, 0, 0), Tag("unknown"), Msg(2, 1, 0, 1)>>}
    \cup {<<Msg(1, 2, 0, 0), Bad(Msg(2, 1, 0, 1), why)>> :
             why \in {"crc", "aborted", "undecodable"}}
=============================================================================
