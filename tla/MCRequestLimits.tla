-------------------------- MODULE MCRequestLimits ---------------------------
(* An instance of RequestLimits for TLC: a day is two ticks long and a month *)
(* two days; each expiry is longer than its period, as in the code.         *)
EXTENDS RequestLimits, TLC

CalendarPeriod(b, s) == IF b = "daily" THEN s \div 2 ELSE s \div 4
CalendarTTL == [daily |-> 3, monthly |-> 5]
BothBudgets == [daily |-> 1, monthly |-> 2]

AnyTask == Permutations(Tasks)

=============================================================================
