------------------------------ MODULE Delivery ------------------------------
(***************************************************************************)
(* What the way from the service to DSM promises for each event: its file  *)
(* appears once, it is shown only after that, and it is filed once and for *)
(* ever, as processed only when it was shown.  It may be shown again, even *)
(* after it was filed, and it may be lost on the way to its directory.     *)
(* EventPipeline implements this specification.                            *)
(***************************************************************************)
EXTENDS Naturals

CONSTANT Events

VARIABLES
    box,      \* where an administrator finds the event
    shown     \* how often DSM has shown it

vars == <<box, shown>>

Init == box = [e \in Events |-> "unwritten"] /\ shown = [e \in Events |-> 0]

Leave(e, from, to) ==
    /\ box[e] = from /\ box' = [box EXCEPT ![e] = to]
    /\ UNCHANGED shown

Write(e) == Leave(e, "unwritten", "outbox")
Process(e) == shown[e] > 0 /\ Leave(e, "outbox", "processed")
Refuse(e) == Leave(e, "outbox", "failed")
Lose(e) == Leave(e, "outbox", "removed")

Show(e) ==
    /\ box[e] # "unwritten" /\ shown' = [shown EXCEPT ![e] = @ + 1]
    /\ UNCHANGED box

Next ==
    \E e \in Events :
        Write(e) \/ Show(e) \/ Process(e) \/ Refuse(e) \/ Lose(e)

Spec == Init /\ [][Next]_vars
==============================================================================
