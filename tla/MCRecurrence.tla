----------------------------- MODULE MCRecurrence -----------------------------
(* Months of 31, 28, 31, 30 ... days, three units to the day; clocks go forward *)
(* in the night of day 58, or back in that of day 89.                           *)
EXTENDS Recurrence

Calendar == <<31, 28, 31, 30, 31, 30, 31, 31, 30, 31, 30, 31, 31, 28, 31>>

Forward == [at |-> 58 * 3, before |-> 1, after |-> 2]
Back_   == [at |-> 89 * 3, before |-> 2, after |-> 1]

MCSchedules ==
    [frequency : {"daily", "weekly", "monthly", "quarterly"},
     starts : {30 * 3 - 1, 30 * 3, 43 * 3 + 2},
     ends : {Never, 61 * 3 + 1},
     zone : {Forward, Back_}]
=============================================================================
