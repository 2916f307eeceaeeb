----------------------------- MODULE MCDashboard -----------------------------
(***************************************************************************)
(* The instance of Dashboard for TLC: two ticks to a second, a day of one  *)
(* second.  An allowance gives either the page, or the rows, or the DNS    *)
(* loop with the process most of the steps, and something of the others.   *)
(***************************************************************************)
EXTENDS Dashboard

Allowance(edits, saves, reloads, faults, changes, rounds, summaries, stops,
          ticks) ==
    [edits |-> edits, saves |-> saves, loads |-> reloads, faults |-> faults,
     rows |-> changes, rounds |-> rounds, summaries |-> summaries,
     stops |-> stops, ticks |-> ticks]

MCAllowances ==
    {Allowance(3, 1, 2, 1, 0, 0, 0, 0, 0),
     Allowance(0, 0, 0, 0, 2, 0, 1, 0, 2),
     Allowance(0, 0, 0, 0, 3, 0, 1, 0, 0),
     Allowance(0, 1, 0, 0, 1, 1, 1, 0, 0),
     Allowance(0, 0, 0, 1, 1, 1, 1, 1, 0)}

MCTyping ==
    {<<"maxLatencyMs", 50>>, <<"minDownloadMbps", 80>>,
     <<"dnsDomains", <<"a", " ", "b", "a">>>>,
     <<"routerTrafficUrl", " ">>, <<"routerTrafficUrl", "u">>}

MCForeign ==
    {[DefaultSettings EXCEPT !["maxLatencyMs"] = 150,
                             !["minDownloadMbps"] = -5,
                             !["outageFailureThreshold"] = 200],
     [DefaultSettings EXCEPT !["routerTrafficUrl"] = "v"],
     [DefaultSettings EXCEPT !["enabled"] = FALSE]}
==============================================================================
