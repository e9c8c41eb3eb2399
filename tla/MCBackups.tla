------------------------------ MODULE MCBackups ------------------------------
(* Small deployments of the backups for TLC: replicas and an admin that      *)
(* overlap within a few hours, and one replica alone over days and weeks.    *)
EXTENDS BackupScheduler

CONSTANTS r1, r2, admin

TwoReplicas == {r1, r2}
OneAdmin == {admin}

Settings(schedule, last) ==
  [enabled |-> TRUE, schedule |-> schedule, hour |-> 3, weekday |-> 1,
   every |-> 12, keep |-> 2, last |-> last]
Hourly == Settings("hourly", Never)

Site(settings, runners, first, final) ==
  [row |-> settings, runners |-> runners, locks |-> TRUE, edits |-> {},
   manual |-> 0, from |-> first, until |-> final]

\* A replica alone: several intervals, an admin who edits, and the second weekly
\* slot (hour 195) after a first backup that was in time (27) or late (47).
Alone ==
  {Site(Settings("weekly", 27), {r1}, 190, 216),
   Site(Settings("weekly", 47), {r1}, 190, 216),
   Site(Settings("hours", Never), {r1}, 0, 26),
   [Site(Hourly, {r1}, 0, 2) EXCEPT
      !.edits = {[Hourly EXCEPT !.enabled = FALSE], Settings("hours", Never)}]}
\* Two replicas and a manual backup; two replicas without locks.
Together ==
  {[Site(Hourly, {r1, r2, admin}, 0, 1) EXCEPT !.manual = 1],
   [Site(Hourly, {r1, r2}, 0, 1) EXCEPT !.locks = FALSE]}
Checked == Alone \cup Together

=============================================================================
