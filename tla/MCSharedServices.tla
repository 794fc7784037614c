---------------------------- MODULE MCSharedServices ----------------------------
(* An instance of SharedServices for TLC: two files with one stem, which share *)
(* a document id, and a sprint whose rejection is recorded again and again.    *)
EXTENDS SharedServices

MCDocOf ==
  [readme_a |-> "spec:README", readme_b |-> "spec:README", sprint |-> "rejection:sprint"]
================================================================================
