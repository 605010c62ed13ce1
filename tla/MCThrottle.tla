---------------------------- MODULE MCThrottle ----------------------------
(***************************************************************************)
(* Instances of Throttle for TLC, and the mutants of its definitions.      *)
(***************************************************************************)
EXTENDS Throttle
=============================================================================
