--------------------------- MODULE MCRouterTraffic ---------------------------
(* Documents for TLC: the shapes the tests of internal/router use, a       *)
(* device listed twice in two lists, one with downloads only, an object    *)
(* whose first name is empty, a total for the whole router, a rate that is *)
(* no number, one that is not finite, and nothing at all.                  *)
EXTENDS RouterTraffic

Rated == [mac |-> Text("m1"), deviceName |-> Text("laptop"),
          downloadSpeed |-> Number(2), uploadSpeed |-> Number(1)]
RatedElsewhere == [macaddr |-> Text("m1"), ip |-> Text("a1"),
                   down_speed |-> NumberText("3", 3)]
Loading == [mac |-> Text("m3"), downSpeed |-> Number(5),
            up_speed |-> Text("n/a")]
Moved == [mac |-> Text("m1"), ip |-> Text("a2"), speed |-> Number(5)]
TotalOnly == [mac |-> Text("m2"), traffic_usage |-> Number(4)]
Whole == [name |-> Text("router"), total |-> Number(7)]
Hidden == [macaddr |-> Text(""), mac |-> Text("m1"), speed |-> Number(1)]
Endless == [mac |-> Text("m2"), down_speed |-> NumberText("NaN", NotANumber)]
Plain == <<>>

SomeDocuments ==
    {[root |-> Plain, lists |-> {<<Rated, Loading>>, <<RatedElsewhere>>}],
     [root |-> Plain, lists |-> {<<Moved, RatedElsewhere>>}],
     [root |-> Whole, lists |-> {<<TotalOnly, Loading>>}],
     [root |-> Plain, lists |-> {<<Hidden>>, <<Endless>>}],
     [root |-> Plain, lists |-> {<<>>}]}
==============================================================================
