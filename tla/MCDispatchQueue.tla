--------------------------- MODULE MCDispatchQueue ---------------------------
(***************************************************************************)
(* DispatchQueue on small sets; priority 1 is below LOW.                   *)
(***************************************************************************)
EXTENDS DispatchQueue

\* One connection whose session may be reset, with the loopback connection; two
\* connections whose messages share the queue.
TwoLoads == {[conns |-> {1}, local |-> 1, resets |-> 1],
             [conns |-> {1, 2}, local |-> 0, resets |-> 0]}
=============================================================================
