-------------------------------- MODULE Cron --------------------------------
(***************************************************************************)
(* Cron expressions: ParseCron, which turns a field into a mask and a flag *)
(* for `*', and CronSchedule.Next, which looks for the next time to fire   *)
(* by skipping whole months, days and hours.                               *)
(*                                                                         *)
(* The calendar is that of package time: any in which every day is the     *)
(* next of its month or begins one, and no year is too long.  An instant   *)
(* is a number of minutes; the zone of the schedule says which day, hour   *)
(* and minute its clocks show then, with their changes.                    *)
(***************************************************************************)
EXTENDS Integers, Sequences

CONSTANTS MinutesPerHour, HoursPerDay, DaysPerWeek, MonthsPerYear,
          MaxDom,         \* no month has a day after it
          DaysPerYear,    \* no year has more: 366
          Calendar,       \* the date of every day
          MaxDay,         \* bound: the last day of the calendar
          Exprs,          \* expressions, one field a component
          Zones,          \* the zones of schedules
          Afters,         \* the instants a search starts from
          Instants        \* bound: the instants looked at for a match

Date == [year : Nat, month : 1..MonthsPerYear, dom : 1..MaxDom]

\* The day after p: of the same month, or the first of the next.
NextDates(p) ==
    {[p EXCEPT !.dom = @ + 1],
     IF p.month < MonthsPerYear THEN [p EXCEPT !.month = @ + 1, !.dom = 1]
     ELSE [year |-> p.year + 1, month |-> 1, dom |-> 1]}

ASSUME CalendarAssumption ==
    /\ {MinutesPerHour, HoursPerDay, DaysPerWeek, MonthsPerYear, MaxDom, DaysPerYear}
            \subseteq Nat \ {0}
    /\ MaxDay \in Nat /\ Calendar \in [0..MaxDay -> Date]
    /\ \A n \in 1..MaxDay : Calendar[n] \in NextDates(Calendar[n - 1])
    /\ \A n \in 0..(MaxDay - DaysPerYear) : Calendar[n].year < Calendar[n + DaysPerYear].year

Weekday(day) == day % DaysPerWeek

-----------------------------------------------------------------------------
(* A term of a field is `*', a number (a range of one) or a range, with a  *)
(* step; a field is the set of its terms, of which there is at least one.  *)
(* Only a day of the week may be one past the last: Sunday once more.      *)
Terms == [kind : {"*", "n", "n-m"}, lo : Int, hi : Int, step : Int]
Field == (SUBSET Terms) \ {{}}
Expression == [minutes : Field, hours : Field, doms : Field, months : Field, dows : Field]
Term(kind, lo, hi, step) == [kind |-> kind, lo |-> lo, hi |-> hi, step |-> step]
parseAtom(v, minVal, maxVal, dow) == v \in minVal..maxVal \/ (dow /\ v = maxVal + 1)

Legal(term, minVal, maxVal, dow) ==
    /\ term.step >= 1
    /\ term.kind # "*" =>
        /\ parseAtom(term.lo, minVal, maxVal, dow) /\ parseAtom(term.hi, minVal, maxVal, dow)
        /\ term.lo <= term.hi

Stamped(term, minVal, maxVal, dow) ==
    LET lo == IF term.kind = "*" THEN minVal ELSE term.lo
        hi == IF term.kind = "*" THEN maxVal ELSE term.hi IN
    {IF dow /\ v = maxVal + 1 THEN 0 ELSE v :
        v \in {u \in lo..hi : (u - lo) % term.step = 0}}

parseFieldStarred(field, minVal, maxVal, dow) ==
    [ok |-> \A term \in field : Legal(term, minVal, maxVal, dow),
     mask |-> UNION {Stamped(term, minVal, maxVal, dow) : term \in field},
     starred |-> \E term \in field : term.kind = "*"]

parseMinutes(e) == parseFieldStarred(e.minutes, 0, MinutesPerHour - 1, FALSE)
parseHours(e) == parseFieldStarred(e.hours, 0, HoursPerDay - 1, FALSE)
parseDoms(e) == parseFieldStarred(e.doms, 1, MaxDom, FALSE)
parseMonths(e) == parseFieldStarred(e.months, 1, MonthsPerYear, FALSE)
parseDows(e) == parseFieldStarred(e.dows, 0, DaysPerWeek - 1, TRUE)

\* The masks of an expression; only those of legal fields are ever used.
ParseCron(e) ==
    [ok |-> \A f \in {parseMinutes(e), parseHours(e), parseDoms(e), parseMonths(e), parseDows(e)} :
                f.ok,
     minutes |-> parseMinutes(e).mask, hours |-> parseHours(e).mask,
     doms |-> parseDoms(e).mask, months |-> parseMonths(e).mask, dows |-> parseDows(e).mask,
     domStarred |-> parseDoms(e).starred, dowStarred |-> parseDows(e).starred]

-----------------------------------------------------------------------------
VARIABLES expr,    \* what the operator typed
          zone,    \* and the zone it is for
          cron,    \* the parsed schedule
          after,   \* the instant the search starts from, to the minute
          t,       \* the one it has come to
          iter,    \* how often the loop went round
          cronPc   \* parse, search, found, failed, invalid, or off

cronVars == <<expr, zone, cron, after, t, iter, cronPc>>

NoCron == [ok |-> FALSE]
UTC == [standard |-> 0, summer |-> 0, summers |-> {}]

CronOff ==
    /\ expr = NoCron /\ zone = UTC /\ cron = NoCron /\ after = 0 /\ t = 0
    /\ iter = 0 /\ cronPc = "off"

CronInit ==
    /\ expr \in Exprs /\ zone \in Zones /\ after \in Afters
    /\ cron = NoCron /\ t = after /\ iter = 0 /\ cronPc = "parse"

-----------------------------------------------------------------------------
(* Package time.  A zone is at its standard offset but for its summers.    *)
(* Date takes the time of day for UTC to look up an offset, and the        *)
(* instant that gives to look it up again: of an hour shown twice it       *)
(* answers the second showing east of Greenwich and the first west of it.  *)
Moment(day, hour, minute) == [day |-> day, hour |-> hour, minute |-> minute]
Minutes(u) == (u.day * HoursPerDay + u.hour) * MinutesPerHour + u.minute
TimeOf(n) == Moment(n \div (HoursPerDay * MinutesPerHour),
                (n \div MinutesPerHour) % HoursPerDay, n % MinutesPerHour)

OffsetAt(n) == IF \E s \in zone.summers : s.from <= n /\ n < s.to
               THEN zone.summer ELSE zone.standard
ClockAt(n) == TimeOf(n + OffsetAt(n))
Shown == ClockAt(t)
TimeDate(u) == Minutes(u) - OffsetAt(Minutes(u) - OffsetAt(Minutes(u)))

Parse ==
    /\ cronPc = "parse"
    /\ LET c == ParseCron(expr) IN
        IF c.ok THEN cron' = c /\ cronPc' = "search" /\ t' = after + 1
        ELSE cronPc' = "invalid" /\ UNCHANGED <<cron, t>>
    /\ UNCHANGED <<expr, zone, after, iter>>

\* POSIX: with both day fields restricted a day needs only one of them.
matchesDay(day) ==
    LET dom == Calendar[day].dom \in cron.doms  dow == Weekday(day) \in cron.dows IN
    CASE cron.domStarred /\ cron.dowStarred -> TRUE
      [] cron.domStarred /\ ~cron.dowStarred -> dow
      [] ~cron.domStarred /\ cron.dowStarred -> dom
      [] OTHER -> dom \/ dow

\* Each rebuilds an instant from what the clock shows; AddDate(0, 0, 1) goes
\* by the clock too, Add(time.Hour) does not.
startOfNextMonth(n) ==
    LET today == ClockAt(n).day IN
    TimeDate(Moment(CHOOSE d \in today + 1 .. today + MaxDom :
                        /\ Calendar[d].dom = 1
                        /\ \A d2 \in today + 1 .. d - 1 : Calendar[d2].dom # 1, 0, 0))
\* Mutant: the hour is kept.
startOfNextDay_sameHour(n) == TimeDate(Moment(ClockAt(n).day + 1, ClockAt(n).hour, 0))
startOfNextDay(n) ==
    LET midnight == ClockAt(TimeDate(Moment(ClockAt(n).day, 0, 0))) IN
    TimeDate([midnight EXCEPT !.day = @ + 1])
startOfNextHour(n) == TimeDate([ClockAt(n) EXCEPT !.minute = 0]) + MinutesPerHour

\* The loop is left after as many rounds as four years have hours.
MaxIter == 4 * DaysPerYear * HoursPerDay

Times == [day : Int, hour : 0..(HoursPerDay - 1), minute : 0..(MinutesPerHour - 1)]
Zone == [standard : Int, summer : Int, summers : SUBSET [from : Int, to : Int]]

(* Four years of hours are rounds enough for what a search spends on days  *)
(* that have no time named, which is all hours but one a day, and in its   *)
(* first hour: 60 minutes against 2 * 366.                                 *)
ASSUME SearchAssumption ==
    /\ Exprs \subseteq Expression /\ Zones \subseteq Zone
    /\ Afters \subseteq Int /\ Instants \subseteq Int
    /\ HoursPerDay >= 2 /\ MinutesPerHour <= 2 * DaysPerYear

GoOn(n) == t' = n /\ iter' = iter + 1 /\ UNCHANGED <<expr, zone, cron, after, cronPc>>
Searching == cronPc = "search" /\ iter < MaxIter

SkipMonth ==
    /\ Searching /\ Calendar[Shown.day].month \notin cron.months
    /\ GoOn(startOfNextMonth(t))
SkipDay ==
    /\ Searching /\ Calendar[Shown.day].month \in cron.months /\ ~matchesDay(Shown.day)
    /\ GoOn(startOfNextDay(t))
SkipHour ==
    /\ Searching /\ Calendar[Shown.day].month \in cron.months /\ matchesDay(Shown.day)
    /\ Shown.hour \notin cron.hours
    /\ GoOn(startOfNextHour(t))
SkipMinute ==
    /\ Searching /\ Calendar[Shown.day].month \in cron.months /\ matchesDay(Shown.day)
    /\ Shown.hour \in cron.hours /\ Shown.minute \notin cron.minutes
    /\ GoOn(t + 1)

Matches(u) ==
    /\ Calendar[u.day].month \in cron.months /\ matchesDay(u.day)
    /\ u.hour \in cron.hours /\ u.minute \in cron.minutes

Found ==
    /\ Searching /\ Matches(Shown)
    /\ cronPc' = "found"
    /\ UNCHANGED <<expr, zone, cron, after, t, iter>>
GiveUp ==
    /\ cronPc = "search" /\ iter = MaxIter
    /\ cronPc' = "failed"
    /\ UNCHANGED <<expr, zone, cron, after, t, iter>>

CronNext == Parse \/ SkipMonth \/ SkipDay \/ SkipHour \/ SkipMinute \/ Found \/ GiveUp

CronSpec == CronInit /\ [][CronNext]_cronVars
-----------------------------------------------------------------------------
(* From x to y the clock goes a minute on.  An hour is shown to its end;   *)
(* what follows is the next midnight or a full hour of the day: a later    *)
(* one, with any that were skipped, or, but for the first, the same again. *)
Ticks(x, y) ==
    \/ y = [x EXCEPT !.minute = @ + 1]
    \/ /\ x.minute = MinutesPerHour - 1 /\ y.minute = 0
       /\ y = Moment(x.day + 1, 0, 0) \/ (y.day = x.day /\ y.hour >= x.hour /\ y.hour # 0)

(* The clock does nothing else between the midnight before a and n, and of *)
(* an hour that is shown twice Date answers the second showing.            *)
KeepsTime(a, n) ==
    LET midnight == Moment(ClockAt(a).day, 0, 0)  dawn == TimeDate(midnight) IN
    /\ dawn <= a /\ ClockAt(dawn) = midnight
    /\ \A m \in dawn .. n - 1 : Ticks(ClockAt(m), ClockAt(m + 1))
    /\ \A m \in dawn .. n :
        ClockAt(m).minute = 0 /\ (ClockAt(m).hour = 0 \/ ClockAt(m + MinutesPerHour) # ClockAt(m))
            => TimeDate(ClockAt(m)) = m

\* A time after the start that the expression names.
InCalendar(n) == ClockAt(n).day \in 0..MaxDay
Named(n) == n > after /\ InCalendar(after) /\ InCalendar(n) /\ Matches(ClockAt(n))
WithinFourYears(n) == Calendar[ClockAt(n).day].year < Calendar[ClockAt(after).day].year + 4

(* Skipping by month, day and hour loses nothing: Next returns the first   *)
(* time after the start that the expression names, which also is what      *)
(* makes successive fires progress, and its rounds are enough to find one  *)
(* within four years.  That is as long as the clock keeps time, so in all  *)
(* of UTC, over a spring in any zone that keeps its midnights, and over an *)
(* autumn east of Greenwich.  Where clocks west of it are set back, Next   *)
(* may fail instead: OnlyPathologicalFail does not hold.                   *)
NextIsTheFirstMatch ==
    /\ cronPc = "found" => Matches(Shown)
    /\ cronPc \in {"found", "failed"} =>
        \A n \in Instants : Named(n) =>
            \/ cronPc = "found" /\ after < t /\ t <= n
            \/ cronPc = "failed" /\ ~WithinFourYears(n)
            \/ ~KeepsTime(after, n)

(* "a hard backstop against pathological expressions ... real schedules    *)
(* resolve within at most one year" (cron.go:173-176): Next fails only if  *)
(* no time of the four years after the start is named.                     *)
OnlyPathologicalFail ==
    cronPc = "failed" => \A n \in Instants : Named(n) => ~WithinFourYears(n)

(* Where both day fields are plain (a bare `*' or no star), a fire is on a *)
(* day that POSIX cron would take.  A stepped star is not in this: its     *)
(* mask counts for nothing, `*/2' fires every day.                         *)
SteppedStar(field) == \E term \in field : term.kind = "*" /\ term.step > 1
Restricted(field) == \A term \in field : term.kind # "*"
PosixDay(day) ==
    LET dom == Calendar[day].dom \in cron.doms  dow == Weekday(day) \in cron.dows IN
    IF Restricted(expr.doms) /\ Restricted(expr.dows) THEN dom \/ dow ELSE dom /\ dow
FiresOnPosixDays ==
    cronPc = "found" /\ InCalendar(t) /\ ~SteppedStar(expr.doms) /\ ~SteppedStar(expr.dows)
        => PosixDay(Shown.day)

(* A schedule fires when its expression says, the first time it says so.   *)
FiresWhenWritten == NextIsTheFirstMatch /\ FiresOnPosixDays
==============================================================================
