------------------------------ MODULE MCWriter ------------------------------
(***************************************************************************)
(* Instances of Writer for TLC.                                            *)
(***************************************************************************)
EXTENDS Writer

\* A lossless peer that has opened and to which nothing happens.
Quiet == [lossy |-> FALSE, server |-> FALSE, standby |-> TRUE, state |-> "OPEN",
          msgs |-> 1, breaks |-> 0, replaces |-> 0, keepalives |-> 0,
          received |-> 0, ends |-> 0]
Lossy(s) == [s EXCEPT !.lossy = TRUE, !.standby = FALSE]
Server(s) == [s EXCEPT !.server = TRUE]

AllScenarios ==
    {[Quiet EXCEPT !.msgs = 3, !.breaks = 1],
     [Quiet EXCEPT !.msgs = 2, !.breaks = 1, !.state = "CONNECTING"],
     [Quiet EXCEPT !.msgs = 2, !.keepalives = 1, !.received = 1],
     [Quiet EXCEPT !.msgs = 2, !.ends = 2],
     Lossy([Quiet EXCEPT !.msgs = 2, !.breaks = 1, !.ends = 1]),
     Lossy([Quiet EXCEPT !.msgs = 3, !.breaks = 1]),
     Server([Quiet EXCEPT !.msgs = 2, !.breaks = 1, !.replaces = 1])}
StopScenario == {[Quiet EXCEPT !.ends = 1]}
TwoSenders == {[Quiet EXCEPT !.msgs = 2]}
=============================================================================
