------------------------------ MODULE Recurrence ------------------------------
(***************************************************************************)
(* Calendar arithmetic: the occurrences of a schedule in its time zone     *)
(* (scheduler/recurrence.py).                                              *)
(*                                                                         *)
(* Instants are counted in a unit of 1/DayLength day.  An instant has an   *)
(* offset, and a wall clock reads instant + offset: a zone is one change   *)
(* of offset.  The algorithms run over every instant of a calendar and are *)
(* compared with the set of all occurrences.                               *)
(***************************************************************************)
EXTENDS Integers, Sequences

CONSTANTS
    DayLength,     \* units in a day
    MonthLengths,  \* days of each month from the first of the calendar
    Schedules      \* [frequency, starts, ends, zone]

Never == -1        \* None

ASSUME CalendarAssumption ==
    /\ DayLength \in Nat \ {0}
    /\ MonthLengths \in Seq(Nat \ {0})
    /\ \A s \in Schedules :
          /\ s.frequency \in {"daily", "weekly", "monthly", "quarterly"}
          /\ s.starts \in Nat /\ s.ends \in Nat \cup {Never}
          /\ s.ends # Never => s.ends > s.starts
          /\ \A f \in {"at", "before", "after"} : s.zone[f] \in Nat

VARIABLES
    schedule,
    now       \* an instant at which the algorithms are run

vars == <<schedule, now>>

-----------------------------------------------------------------------------
(* Months and days *)

Months == 1 .. Len(MonthLengths)

FirstDay[m \in Nat] == IF m <= 1 THEN 0 ELSE FirstDay[m - 1] + MonthLengths[m - 1]

\* Bound: the last months are spare, for the occurrences after the last instant.
Horizon == FirstDay[Len(MonthLengths) - 3] * DayLength

\* The calendar is the Gregorian one, with months to spare, and the schedules start
\* before its Horizon.  Offsets are within a day of UTC's, counted from a day before it,
\* and no zone was ever moved by more than a day (the tz database has some moved by one).
ASSUME ZoneAssumption ==
    /\ Len(MonthLengths) > 3
    /\ \A m \in Months : MonthLengths[m] \in 28 .. 31
    /\ \A s \in Schedules :
          /\ s.starts < Horizon
          /\ s.zone.before <= 2 * DayLength /\ s.zone.after <= 2 * DayLength
          /\ s.zone.after - s.zone.before \in -DayLength .. DayLength

Day(wall)        == wall \div DayLength
MonthOf(wall)    == CHOOSE m \in Months : /\ FirstDay[m] <= Day(wall)
                                          /\ Day(wall) < FirstDay[m] + MonthLengths[m]
DayOfMonth(wall) == Day(wall) - FirstDay[MonthOf(wall)]

\* The same clock time and day in another month, or on its last day.
Clamped(wall, m) ==
    LET day == IF DayOfMonth(wall) < MonthLengths[m] THEN DayOfMonth(wall)
               ELSE MonthLengths[m] - 1
    IN  (FirstDay[m] + day) * DayLength + (wall % DayLength)

-----------------------------------------------------------------------------
(* Time zones *)

Wall(zone, t) == t + (IF t < zone.at THEN zone.before ELSE zone.after)

\* fold = 0: the offset before the change holds for a missing and a repeated time.
Instant(zone, wall) ==
    IF wall < zone.at + (IF zone.before < zone.after THEN zone.after ELSE zone.before)
    THEN wall - zone.before ELSE wall - zone.after

-----------------------------------------------------------------------------
(* occurrence and around *)

Period(s)  == IF s.frequency = "daily" THEN 1 ELSE 7      \* days
Quarter(s) == IF s.frequency = "monthly" THEN 1 ELSE 3    \* months
ByDays(s)  == s.frequency \in {"daily", "weekly"}

WallOf(s, index) ==
    LET start == Wall(s.zone, s.starts)
    IN  IF ByDays(s) THEN start + index * Period(s) * DayLength
        ELSE Clamped(start, MonthOf(start) + index * Quarter(s))

Occurrence(s, index) ==
    IF index = 0 THEN s.starts ELSE Instant(s.zone, WallOf(s, index))

Larger(a, b) == IF a < b THEN b ELSE a

\* Mutant: the estimate is not corrected downwards.
BackNever(s, t, estimate) == IF t < s.starts THEN 0 ELSE estimate

\* The first loop: while the occurrence is in the future, step back.
Back(s, t, estimate) ==
    LET down[i \in Nat] ==
            IF i > 0 /\ Occurrence(s, i) > t THEN down[i - 1] ELSE i
    IN  down[estimate]

\* The second loop: while the next one is not in the future, step forward.
Forth(s, t, index) ==
    LET up[i \in Nat] == IF Occurrence(s, i + 1) <= t THEN up[i + 1] ELSE i
    IN  up[index]

\* The latest occurrence so far and the next one, up to an exclusive end.
Around(s, t) ==
    LET start == Wall(s.zone, s.starts)
        here == Wall(s.zone, t)
        estimate == IF ByDays(s) THEN (Day(here) - Day(start)) \div Period(s)
                    ELSE (MonthOf(here) - MonthOf(start)) \div Quarter(s)
        index == Forth(s, t, Back(s, t, Larger(0, estimate)))
        candidate == Occurrence(s, index)
        due == IF candidate <= t THEN candidate ELSE Never
        following == IF candidate <= t THEN Occurrence(s, index + 1) ELSE candidate
    IN  IF s.ends # Never /\ t >= s.ends THEN [due |-> Never, next |-> Never]
        ELSE [due |-> due,
              next |-> IF s.ends # Never /\ following >= s.ends THEN Never ELSE following]

-----------------------------------------------------------------------------
\* The dispatcher looks at a schedule from its start on, its owner also before it.
Init == schedule \in Schedules /\ now \in {0, schedule.starts}

Pass ==
    /\ now < Horizon - 1
    /\ now' = now + 1
    /\ UNCHANGED schedule

Spec == Init /\ [][Pass]_vars

-----------------------------------------------------------------------------
(* Properties *)

\* All occurrences as far as the calendar reaches.
Indices(s) ==
    IF ByDays(s) THEN 0 .. FirstDay[Len(MonthLengths)] \div Period(s)
    ELSE 0 .. (Len(MonthLengths) - MonthOf(Wall(s.zone, s.starts))) \div Quarter(s)

\* Whatever the estimate, the zone and the lengths of the months, around returns
\* the latest occurrence that is not in the future and the earliest that is, up
\* to the exclusive end: no occurrence is skipped, none is returned twice.
AroundIsReference ==
    LET s == schedule
        a == Around(s, now)
        over == s.ends # Never /\ now >= s.ends
        dates == {Occurrence(s, i) : i \in Indices(s)}
    IN  IF over THEN a = [due |-> Never, next |-> Never]
        ELSE /\ IF a.due = Never THEN \A o \in dates : o > now
                ELSE a.due \in dates /\ a.due <= now
             /\ \A o \in dates : o <= now => o <= a.due
             /\ IF a.next = Never
                THEN \A o \in dates : o > now => s.ends # Never /\ o >= s.ends
                ELSE /\ a.next \in dates /\ a.next > now
                     /\ s.ends = Never \/ a.next < s.ends
                     /\ \A o \in dates : o > now => o >= a.next

=============================================================================
