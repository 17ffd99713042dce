------------------------------- MODULE MCCron -------------------------------
(* The search for a fire time over small fields, calendars and zones.      *)
EXTENDS Cron

\* Hours of two minutes, days of three hours, weeks of three days, and years
\* of nine days in three months, the second with a leap day.
MonthDays == <<3, 2, 4>>
Leap(year, month) == IF month = 2 /\ year % 2 = 1 THEN 1 ELSE 0
FirstOf(year, month) ==
    19 * (year \div 2) + 9 * (year % 2) + <<0, 3, 5 + Leap(year, 2)>>[month]
MCCalendar == [n \in 0..MaxDay |->
    CHOOSE p \in [year : {2 * (n \div 19), 2 * (n \div 19) + 1}, month : 1..3, dom : 1..4] :
        /\ p.dom <= MonthDays[p.month] + Leap(p.year, p.month)
        /\ n = FirstOf(p.year, p.month) + p.dom - 1]

Star(k) == Term("*", 0, 0, k)
Num(n) == Term("n", n, n, 1)
Rng(a, b, k) == Term("n-m", a, b, k)

DomFields == {{Star(1)}, {Star(2)}, {Num(2)}, {Num(5)}, {Num(6)}, {Rng(1, 4, 2)},
              {Rng(3, 2, 1)}, {Star(3), Num(2)}}
DowFields == {{Star(1)}, {Star(2)}, {Num(3)}, {Num(4)}, {Num(0), Num(1)}}
MCExprs ==
    [minutes : {{Star(1)}, {Num(1)}}, hours : {{Star(2)}, {Num(1)}, {Num(2)}},
     doms : DomFields, months : {{Star(1)}, {Num(1), Num(3)}}, dows : DowFields]

\* A zone two hours off Greenwich whose clocks skip hour h of day `from'
\* and, at the end of hour 1 of day `to', show it again.
Local(day, hour) == Minutes(Moment(day, hour, 0))
Off(standard, from, h, to) ==
    [standard |-> standard, summer |-> standard + MinutesPerHour,
     summers |-> {[from |-> Local(from, h) - standard,
                   to |-> Local(to, 1) - standard]}]
West == Off(-4, 3, 1, 12)
East == Off(4, 3, 1, 12)
NoMidnight == Off(-4, 12, 0, 16)
MCZones == {UTC, West, East, NoMidnight}
MCWest == {West}
MCAfters == {13, 67}
MCInstants == 0 .. 306
=============================================================================
