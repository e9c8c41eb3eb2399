------------------------------ MODULE Schedule ------------------------------
(***************************************************************************)
(* When an automatic backup is due.  A moment is a number of hours since a *)
(* Saturday midnight in Tehran; minutes are left out.                      *)
(***************************************************************************)
EXTENDS Integers

Schedules == {"hourly", "hours", "daily", "weekly"}
Never == -1   \* backup_last_run_at is NULL

\* The columns of bot_settings that the schedule depends on.
SettingsRow == [enabled: BOOLEAN, schedule: Schedules, hour: 0..23, weekday: 0..6,
                every: Nat \ {0}, keep: Nat \ {0}, last: Nat \cup {Never}]

HourOf(t) == t % 24
DayOf(t) == t \div 24
WeekdayOf(t) == DayOf(t) % 7   \* 0 is Saturday

\* At least h hours have passed since the last backup.
Passed(r, t, h) == r.last = Never \/ t - r.last >= h

\* Mutant: daily and weekly look at the clock only, and "hours" at no interval.
IsDueByClock(r, t) ==
  /\ r.enabled
  /\ \/ r.schedule = "hourly" /\ Passed(r, t, 1)
     \/ r.schedule = "hours" /\ Passed(r, t, 1)
     \/ r.schedule = "weekly" /\ WeekdayOf(t) = r.weekday /\ HourOf(t) >= r.hour
     \/ r.schedule = "daily" /\ HourOf(t) >= r.hour

IsDue(r, t) ==
  /\ r.enabled
  /\ \/ r.schedule = "hourly" /\ Passed(r, t, 1)
     \/ r.schedule = "hours" /\ Passed(r, t, r.every)
     \/ /\ r.schedule = "weekly"
        /\ WeekdayOf(t) = r.weekday /\ HourOf(t) >= r.hour
        /\ Passed(r, t, 6 * 24 + 20)
     \/ /\ r.schedule = "daily"
        /\ HourOf(t) >= r.hour
        /\ Passed(r, t, 20) \/ DayOf(r.last) # DayOf(t)

\* The moments at which a schedule asks for a backup, as models.py:277-280 has it.
IsSlot(r, t) ==
  \/ r.schedule = "daily" /\ HourOf(t) = r.hour
  \/ r.schedule = "weekly" /\ HourOf(t) = r.hour /\ WeekdayOf(t) = r.weekday
\* At t a backup is asked for that the one at r.last was not.
SlotBegan(r, t) ==
  \/ r.last = Never
  \/ r.schedule = "hourly" /\ t - r.last >= 1
  \/ r.schedule = "hours" /\ t - r.last >= r.every
  \/ \E k \in r.last + 1 .. t : IsSlot(r, k)

=============================================================================
