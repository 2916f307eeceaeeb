--------------------------- MODULE MCEventPipeline ---------------------------
(* Instances of EventPipeline for TLC; goroutines of a kind (with or       *)
(* without the cancelled context) are interchangeable.                     *)
EXTENDS EventPipeline, TLC

Symmetry == Permutations(Detached) \cup Permutations(Writers \ Detached)
==============================================================================
