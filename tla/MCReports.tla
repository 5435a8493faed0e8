----------------------------- MODULE MCReports -------------------------------
(* Months of four, two, three, four, three, four, three, two and four days; *)
(* bars on all but one of the first days.                                  *)
EXTENDS ReportsSafety, TLC

CONSTANTS p1, p2

MCMonthStarts == <<1, 5, 7, 10, 14, 17, 21, 24, 26, 30>>
MCBarDays == (1..20) \ {6}
MCSurprise(seed, window, day) == IF seed = 1 /\ day > window[1] + 1 THEN 6 ELSE 10
MCMerit(ran, trades) == MapThenSumSet(LAMBDA c : c.value - 8, trades)
MCEnd(ran, trades) == ran.equity + MCMerit(ran, trades)
MCCombos == <<12, 5>>

Plan(start, end, train, test, step, axes) ==
  [start |-> start, end |-> end, train |-> train, test |-> test, step |-> step, axes |-> axes]
\* From the second of a month; from the third, which the second month lacks.
MCPlans == {Plan(2, 13, 1, 1, 1, TRUE), Plan(3, 16, 1, 1, 1, FALSE), Plan(1, 9, 0, 1, 1, TRUE)}

MCWindows == {<<1, 3>>}
MCRanges == {<<1, 4>>}

Duty(does, on, seeders, given) ==
  [does |-> does, on |-> on, seeders |-> seeders, given |-> given]
Pair(a, b) == (p1 :> a) @@ (p2 :> b)
Bars == {"synthetic"}
Usual == {<<0, 100>>}
Several == {<<0, 100>>, <<1, 100>>, <<0, 200>>}
MCDivisions ==
  {Pair(Duty({"backtest", "sweep"}, {"s"}, Bars, Usual),
        Duty({"backtest", "reparity"}, {"s_baseline"}, Bars, Several)),
   Pair(Duty({"sweep"}, {"s"}, Bars, Usual), Duty({"sweep", "fork"}, {"s_baseline"}, Bars, Usual)),
   Pair(Duty({"walkforward"}, {"s"}, Bars, Usual), Duty({"walkforward"}, {"s"}, Bars,
        {<<1, 100>>})),
   Pair(Duty({"walkforward"}, {"s"}, {"real"}, Usual), Duty({"fetch"}, {}, {}, {})),
   Pair(Duty({"backtest"}, Strategies, {"real"}, Usual \cup {<<0, 200>>}), Duty({"fetch"}, {}, {}, {}))}
=============================================================================
