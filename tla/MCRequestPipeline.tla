--------------------------- MODULE MCRequestPipeline ---------------------------
(* Instances of RequestPipeline for TLC: pods and requests are interchangeable. *)
EXTENDS RequestPipeline, TLC

Symmetry == Permutations(Requests) \cup Permutations(Consumers)
================================================================================
