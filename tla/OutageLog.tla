------------------------------ MODULE OutageLog ------------------------------
(***************************************************************************)
(* What the outage history promises its readers, the dashboard (the active *)
(* outage and the number of outages) and the outages page: outages follow  *)
(* one another, one begins only while none is going on, and one that ended *)
(* is never reopened, removed or counted twice.                            *)
(* OutageMonitor implements this specification.                            *)
(***************************************************************************)
EXTENDS Naturals

VARIABLES
    down,     \* an outage is going on (ActiveOutage returns a row)
    total     \* the outages recorded so far (OutageCountSince the beginning)

vars == <<down, total>>

Init == down = FALSE /\ total = 0

Begin ==
    /\ ~down
    /\ down' = TRUE
    /\ total' = total + 1

End ==
    /\ down
    /\ down' = FALSE
    /\ UNCHANGED total

Next == Begin \/ End

Spec == Init /\ [][Next]_vars
==============================================================================
