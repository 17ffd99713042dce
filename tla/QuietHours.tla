----------------------------- MODULE QuietHours -----------------------------
(***************************************************************************)
(* Policy.InQuietHours (internal/notifications/policy.go): whether a       *)
(* moment of the week is in a quiet window.  Windows repeat by weekday,    *)
(* start and end at minutes of the day, and may run over midnight.  The    *)
(* clock is the policy's local clock; a change of its offset is not        *)
(* modelled.                                                               *)
(***************************************************************************)
EXTENDS Naturals

CONSTANTS WeekDays, DayMinutes,   \* the length of a week and of a day
          WindowSets              \* the windows of the policies: [days, start, end]

ASSUME QuietAssumption == WeekDays \in Nat \ {0, 1} /\ DayMinutes \in Nat \ {0}

VARIABLES windows,   \* of the policy
          minute     \* since the week began

quietVars == <<windows, minute>>

\* 24:00 is a time.
Clock == 0..DayMinutes

\* What Validate lets through.
ValidWindow(w) ==
    /\ w.start \in Clock /\ w.end \in Clock /\ w.start # w.end
    /\ w.days \subseteq 0..(WeekDays - 1)

\* No days: every day.
dayCovered(days, d) == days = {} \/ d \in days

prevDay(d) == (d + WeekDays - 1) % WeekDays

\* Mutant: the morning belongs to its own day.
InWindow_today(w, day, m) ==
    IF w.start < w.end THEN dayCovered(w.days, day) /\ m >= w.start /\ m < w.end
    ELSE dayCovered(w.days, day) /\ (m >= w.start \/ m < w.end)

InWindow(w, day, m) ==
    IF w.start < w.end THEN dayCovered(w.days, day) /\ m >= w.start /\ m < w.end
    ELSE \/ dayCovered(w.days, day) /\ m >= w.start
         \/ dayCovered(w.days, prevDay(day)) /\ m < w.end

InQuietHours == \E w \in windows : InWindow(w, minute \div DayMinutes, minute % DayMinutes)

QuietInit == windows \in {ws \in WindowSets : \A w \in ws : ValidWindow(w)} /\ minute = 0
QuietOff == windows = {} /\ minute = 0
QuietNext ==
    /\ windows # {}
    /\ minute' = (minute + 1) % (WeekDays * DayMinutes)
    /\ UNCHANGED windows

QuietSpec == QuietInit /\ [][QuietNext]_quietVars

-----------------------------------------------------------------------------
Week == WeekDays * DayMinutes
Length(w) == IF w.start < w.end THEN w.end - w.start ELSE w.end + DayMinutes - w.start

\* In the stretch that the window begins on day d.
Within(w, d) == (minute + 2 * Week - (d * DayMinutes + w.start)) % Week < Length(w)

(* A window is one stretch of time from its start on a covered day to the  *)
(* next time the clock shows its end, "anchored to its start day": quiet   *)
(* hours hold in these stretches and nowhere else, over midnight, over the *)
(* end of the week and with 24:00 at either end.                           *)
QuietHoursAreTheWindows ==
    InQuietHours <=> \E w \in windows, d \in 0..(WeekDays - 1) :
                        dayCovered(w.days, d) /\ Within(w, d)
=============================================================================
