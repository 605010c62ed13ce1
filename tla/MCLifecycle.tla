---------------------------- MODULE MCLifecycle ----------------------------
(***************************************************************************)
(* Instances of Lifecycle for TLC.                                         *)
(***************************************************************************)
EXTENDS Lifecycle

Call(c, m) == [call |-> c, m |-> m, peer |-> "p"]
On(m, calls) == [i \in DOMAIN calls |-> Call(calls[i], m)]

\* A server: one thread runs it, the other uses it, at any moment.
Server(other) ==
    [script |-> [t \in Threads |->
                   IF t = "t1" THEN On("a", <<"bind", "add_dispatcher", "start", "shutdown", "wait">>)
                   ELSE On("a", other)],
     incoming |-> 2, failures |-> 0]

\* A client that is waited for while another thread shuts it down, and then
\* started again.
Client ==
    [script |-> [t \in Threads |->
                   IF t = "t1"
                   THEN On("a", <<"add_dispatcher", "start", "get_connection", "wait">>)
                   ELSE On("a", <<"get_connection", "shutdown", "shutdown", "start">>)],
     incoming |-> 0, failures |-> 0]

\* Two messengers shut down by two threads.
Both ==
    [script |-> [t \in Threads |->
                   On(IF t = "t1" THEN "a" ELSE "b",
                      <<"add_dispatcher", "start", "get_connection", "shutdown", "wait">>)],
     incoming |-> 0, failures |-> 0]

AllScenarios ==
    {Server(<<"get_connection", "shutdown">>), Server(<<"get_connection", "mark_down">>),
     [Server(<<"mark_down_all", "unbind">>) EXCEPT !.failures = 1],
     [Server(<<>>) EXCEPT !.script["t1"] =
          On("a", <<"bind", "add_dispatcher", "start", "rebind", "shutdown", "wait", "bind", "start">>),
        !.failures = 1],
     Client, Both}
ASSUME ProperScenarios == \A s \in AllScenarios : ProperUse(s.script)

\* What FeatureTest of tests/test_msgr.cc does with its client.
Restart ==
    {[script |-> [t \in Threads |->
                    IF t = "t1"
                    THEN On("a", <<"add_dispatcher", "start", "get_connection", "shutdown",
                                   "wait", "start", "get_connection", "shutdown", "wait">>)
                    ELSE <<>>],
      incoming |-> 0, failures |-> 0]}
ASSUME ImproperRestart == \A s \in Restart : ~ProperUse(s.script)
=============================================================================
