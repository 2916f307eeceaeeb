---------------------------- MODULE MCSpeedTests ----------------------------
(***************************************************************************)
(* The instance of SpeedTests for TLC.  Each allowance is a pair of things *)
(* that may go on together: all of them at once is what the proofs are for.*)
(***************************************************************************)
EXTENDS SpeedTests

Allowance(saves, restarts, faults, summaries) ==
    [saves |-> saves, restarts |-> restarts, faults |-> faults,
     summaries |-> summaries]

MCAllowances ==
    {Allowance(0, 1, 1, 0), Allowance(0, 1, 0, 1), Allowance(1, 0, 1, 0)}
=============================================================================
