------------------------------ MODULE LoadStats ------------------------------
(***************************************************************************)
(* The arithmetic that the three avgStat / checkState pairs of the         *)
(* monitor-server share: a running total over the samples of an            *)
(* application, its integer average, and the comparison with the two       *)
(* limits.                                                                 *)
(***************************************************************************)
EXTENDS Integers

\* type Stat / type RestcommAvgMetrics, reduced to the load they average.
Stat == [sum : Int, count : Nat]

\* &Stat{}: what an application has before its first sample.
EmptyStat == [sum |-> 0, count |-> 0]

\* One turn of the loop over the keys: stat.CpuLoad1 += m.Cpu; stat.Count++.
AddSample(stat, load) == [sum |-> stat.sum + load, count |-> stat.count + 1]

\* Go's integer division truncates towards zero; \div rounds down.
GoDiv(a, b) == IF a >= 0 THEN a \div b ELSE -((-a) \div b)

\* stat.CpuLoad1Avg, as the last turn of the loop leaves it.
Average(stat) == GoDiv(stat.sum, stat.count)

\* The two comparisons of checkState, in their order.
Verdict(load, up, down) ==
    IF load > up THEN "scale-up" ELSE IF load < down THEN "scale-down" ELSE "none"
==============================================================================
