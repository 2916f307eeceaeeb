---------------------------- MODULE MCRouterSession ----------------------------
(* Instances of RouterSession for TLC.  The provider treats the router     *)
(* loop and the requests of "probe now" alike.                             *)
EXTENDS RouterSession

Symmetry == Permutations(Probers)

(* One that shows nothing over http; one that has no clients there and     *)
(* refuses illegibly, as one without encryption does in the SG mode; one   *)
(* of the BE550 login and one of the last attempt, each with documents.    *)
SomeRouters ==
    {[accepts |-> 2, refusal |-> "error", denial |-> "digits",
      content |-> [http |-> "error", https |-> "clients"]],
     [accepts |-> 2, refusal |-> "bare", denial |-> "bare",
      content |-> [http |-> "empty", https |-> "clients"]],
     [accepts |-> 1, refusal |-> "word", denial |-> "word",
      content |-> [http |-> "clients", https |-> "clients"]],
     [accepts |-> 7, refusal |-> "number", denial |-> "number",
      content |-> [http |-> "clients", https |-> "empty"]]}
================================================================================
