------------------------------ MODULE Cadence ------------------------------
(***************************************************************************)
(* The cadence of a recurring schedule (crates/core/src/domain/schedule.rs)*)
(* on the calendar.  A date is a record of year, month and day.  The       *)
(* behaviours are the runs of one schedule, as the ticker saves them.      *)
(***************************************************************************)
EXTENDS Integers, Sequences

VARIABLES
    cadence,   \* Schedule::cadence: constant after CadenceInit
    runs       \* the dates that Schedule::next_run has had

cadenceVars == <<cadence, runs>>

IsLeap(y) == (y % 4 = 0 /\ y % 100 # 0) \/ y % 400 = 0

\* chrono's calendar (external).
DaysIn(y, m) == CASE m \in {4, 6, 9, 11} -> 30
                  [] m = 2 -> IF IsLeap(y) THEN 29 ELSE 28
                  [] m \notin {2, 4, 6, 9, 11} -> 31

Date(y, m, d) == [year |-> y, month |-> m, day |-> d]

\* The dates of the calendar.
Dates == {d \in [year : Nat, month : 1..12, day : 1..31] : d.day <= DaysIn(d.year, d.month)}

\* chrono's NaiveDate order (external).
Before(a, b) == \/ a.year < b.year
                \/ a.year = b.year /\ a.month < b.month
                \/ a.year = b.year /\ a.month = b.month /\ a.day < b.day

\* What parses as a cadence: days 29 to 31 are refused.
Cadences ==
    [kind : {"monthly", "quarterly"}, month : {1}, day : 1..28]
        \cup [kind : {"yearly"}, month : 1..12, day : 1..28]

\* n months on, at the cadence's day; n <= 12.
InMonths(from, n, day) ==
    LET m == from.month + n
    IN  IF m > 12 THEN Date(from.year + 1, m - 12, day) ELSE Date(from.year, m, day)

\* Mutant of Advance: a run that falls on its day is not passed.
AdvanceStuck(c, from) ==
    IF c.kind = "yearly"
    THEN IF Before(from, Date(from.year, c.month, c.day))
         THEN Date(from.year, c.month, c.day) ELSE Date(from.year + 1, c.month, c.day)
    ELSE InMonths(from, IF from.day <= c.day THEN 0 ELSE IF c.kind = "monthly" THEN 1 ELSE 3, c.day)

\* Cadence::advance.
Advance(c, from) ==
    IF c.kind = "yearly"
    THEN IF Before(from, Date(from.year, c.month, c.day))
         THEN Date(from.year, c.month, c.day) ELSE Date(from.year + 1, c.month, c.day)
    ELSE InMonths(from, IF from.day < c.day THEN 0 ELSE IF c.kind = "monthly" THEN 1 ELSE 3, c.day)
-----------------------------------------------------------------------------
\* A schedule starts on any date, on its cadence or not.
CadenceInit == cadence \in Cadences /\ \E start \in Dates : runs = <<start>>

\* The ticker bills a run and saves the next one.
Run ==
    /\ runs' = Append(runs, Advance(cadence, runs[Len(runs)]))
    /\ UNCHANGED cadence

CadenceSpec == CadenceInit /\ [][Run]_cadenceVars
-----------------------------------------------------------------------------
MonthNo(d) == 12 * d.year + d.month

\* The months, by number, in which a cadence has a run, counted from a run a.
Occurs(c, a, m) ==
    CASE c.kind = "monthly" -> TRUE
      [] c.kind = "quarterly" -> (m - MonthNo(a)) % 3 = 0
      [] c.kind = "yearly" -> (m - c.month) % 12 = 0

\* b is a date of the calendar, on the cadence, and the first such date after a.
Follows(c, a, b) ==
    /\ b \in Dates /\ b.day = c.day /\ Occurs(c, a, MonthNo(b)) /\ Before(a, b)
    /\ \A m \in MonthNo(a) .. (MonthNo(b) - 1) :
           Occurs(c, a, m) => m = MonthNo(a) /\ c.day <= a.day

\* A schedule's runs follow its cadence through year ends, leap years and starts
\* off the cadence's day: each run is the first date on the cadence after the run
\* before it (Cadence::advance).  A quarterly schedule keeps the phase of its
\* start month, against the comment on Cadence::Quarterly (see QuarterStart).
RunsOnCadence == \A i \in 1..(Len(runs) - 1) : Follows(cadence, runs[i], runs[i + 1])
-----------------------------------------------------------------------------
(* What the documentation says and the code does not do *)

\* domain/schedule.rs: a quarterly cadence runs "on day-of-month dom of the
\* first month in each quarter" (the first run is the start date itself).
QuarterStart ==
    cadence.kind = "quarterly" => \A i \in 2..Len(runs) : runs[i].month \in {1, 4, 7, 10}
=============================================================================
