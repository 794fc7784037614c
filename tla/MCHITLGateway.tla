---------------------------- MODULE MCHITLGateway ----------------------------
(* Instances of HITLGateway for TLC: coroutines are interchangeable. *)
EXTENDS HITLGateway, TLC

TaskSymmetry == Permutations(Tasks)
================================================================================
