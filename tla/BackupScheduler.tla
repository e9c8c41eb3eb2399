-------------------------- MODULE BackupScheduler --------------------------
(***************************************************************************)
(* Backups: the schedulers of several replicas, which a PostgreSQL advisory*)
(* lock keeps apart, and the admins' "backup now", which takes no lock, on *)
(* one bot_settings row and one BACKUP_DIR.                                *)
(*                                                                         *)
(* An archive is written to a .tar.gz.tmp file and renamed, then unpacked, *)
(* written to the temporary file again with its checksums, and renamed     *)
(* again.  After the delivery a run prunes the directory: it keeps the     *)
(* newest archives and removes every temporary file, and only then records *)
(* the archive in backup_logs.                                             *)
(*                                                                         *)
(* Abstractions: an archive is numbered by the start of the transaction    *)
(* that records it (backup_logs.at is its now()); dumping and delivery     *)
(* have no effect on what is modelled but the time they take.  The shared  *)
(* .tmp/dump.pgdump of pg_dump is left out.                                *)
(***************************************************************************)
EXTENDS Schedule, Sequences, Functions

CONSTANTS
  Replicas,     \* replicas of the bot, each with a scheduler
  Panels,       \* admins who may press "backup now"
  NoRunner,     \* nobody holds the advisory lock
  Deployments,  \* the settings and the runners of each deployment checked
  MaxFaults     \* model bound: failures and crashes

Runners == Replicas \cup Panels

\* locks: advisory locks can be asked for; edits: what an admin may set.  Bounds:
\* how often "backup now" is pressed, and the hours that the clock runs through.
Deployment == [row: SettingsRow, runners: SUBSET Runners, locks: BOOLEAN,
               edits: SUBSET SettingsRow, manual: Nat, from: Nat, until: Nat]

ASSUME SchedulerAssumption ==
  /\ Replicas \cap Panels = {} /\ NoRunner \notin Runners
  /\ Deployments \subseteq Deployment
  /\ MaxFaults \in Nat

VARIABLES
  site,     \* the deployment
  clock,    \* the present hour
  row,      \* the committed bot_settings row
  lock,     \* who holds LOCK_KEY_BACKUP
  dir,      \* the archives in BACKUP_DIR, oldest mtime first
  tmp,      \* the archives that have a .tar.gz.tmp file there
  latest,   \* the archive of the latest OK row of backup_logs, 0 if none
  started,  \* how many runs have started
  manual,   \* how often "backup now" was pressed
  faults,   \* how many faults there were
  run       \* per runner: what it is doing

vars == <<site, clock, row, lock, dir, tmp, latest, started, manual, faults, run>>

PCs == {"idle", "due", "start", "dump", "packing", "packed", "repacking", "written",
        "pruned", "failed", "unlock"}

\* asked: the settings as the scheduler read them, and when (at); keep: the
\* retention that the run read; archive: what it is making.
Runs == [pc: PCs, at: Nat, asked: SettingsRow, keep: Nat \ {0}, archive: Nat]
Resting == [pc |-> "idle", at |-> 0, asked |-> site.row, keep |-> 1, archive |-> 0]

Init ==
  /\ site \in Deployments
  /\ clock = site.from
  /\ row = site.row
  /\ lock = NoRunner
  /\ dir = <<>> /\ tmp = {} /\ latest = 0
  /\ started = 0 /\ manual = 0 /\ faults = 0
  /\ run = [r \in Runners |-> Resting]

Goto(r, pc) == run' = [run EXCEPT ![r].pc = pc]
Rest(r) == run' = [run EXCEPT ![r] = Resting]
At(r, pc) == run[r].pc = pc
Archived == Range(dir)

Files == <<dir, tmp>>
Counters == <<started, manual, faults>>
Database == <<row, latest>>

-----------------------------------------------------------------------------
(* BackupScheduler.tick.                                                   *)

Tick ==
  /\ clock < site.until
  /\ clock' = clock + 1
  /\ UNCHANGED <<site, Database, lock, Files, Counters, run>>

\* is_due, asked in a session of its own.
AskDue(r) ==
  /\ r \in Replicas \cap site.runners /\ At(r, "idle")
  /\ IsDue(row, clock)
  /\ run' = [run EXCEPT ![r] = [Resting EXCEPT !.pc = "due", !.at = clock, !.asked = row]]
  /\ UNCHANGED <<site, clock, Database, lock, Files, Counters>>

\* Mutant: the lock is not asked for.
TakeNoLock(r) ==
  /\ At(r, "due")
  /\ lock' = r /\ Goto(r, "start")
  /\ UNCHANGED <<site, clock, Database, Files, Counters>>

\* pg_try_advisory_lock: another replica that holds it makes this one skip; a
\* lock that cannot be asked for counts as held.
TryLock(r) ==
  /\ At(r, "due")
  /\ \/ ~site.locks /\ lock' = lock /\ Goto(r, "start")
     \/ site.locks /\ lock = NoRunner /\ lock' = r /\ Goto(r, "start")
     \/ site.locks /\ lock # NoRunner /\ lock' = lock /\ Rest(r)
  /\ UNCHANGED <<site, clock, Database, Files, Counters>>

\* __aexit__: the connection is closed after the run's commit.
Unlock(r) ==
  /\ At(r, "unlock")
  /\ lock' = IF lock = r THEN NoRunner ELSE lock
  /\ Rest(r)
  /\ UNCHANGED <<site, clock, Database, Files, Counters>>

\* admin_backup_now
PressBackupNow(r) ==
  /\ r \in Panels \cap site.runners /\ At(r, "idle")
  /\ manual < site.manual
  /\ manual' = manual + 1
  /\ run' = [run EXCEPT ![r] = [Resting EXCEPT !.pc = "start"]]
  /\ UNCHANGED <<site, clock, Database, lock, Files, started, faults>>

-----------------------------------------------------------------------------
(* BackupService.run.                                                      *)

\* The transaction begins and reads the settings.
ReadSettings(r) ==
  /\ At(r, "start")
  /\ started' = started + 1
  /\ run' = [run EXCEPT ![r] = [@ EXCEPT !.pc = "dump", !.keep = row.keep,
                                         !.archive = started + 1]]
  /\ UNCHANGED <<site, clock, Database, lock, Files, manual, faults>>

\* package_backup: the first .tar.gz.tmp.
Pack(r) ==
  /\ At(r, "dump")
  /\ tmp' = tmp \cup {run[r].archive}
  /\ Goto(r, "packing")
  /\ UNCHANGED <<site, clock, Database, lock, dir, Counters>>

\* The archives of d but a, in their order.
Without(d, a) ==
  IF a \notin Range(d) THEN d
  ELSE LET i == CHOOSE i \in DOMAIN d : d[i] = a
       IN SubSeq(d, 1, i - 1) \o SubSeq(d, i + 1, Len(d))

\* tmp_archive.replace(archive), which fails if another run has pruned it.
Rename(r, pc, next) ==
  LET a == run[r].archive
  IN /\ At(r, pc)
     /\ IF a \in tmp
        THEN /\ dir' = Append(Without(dir, a), a)
             /\ tmp' = tmp \ {a}
             /\ Goto(r, next)
        ELSE UNCHANGED Files /\ Goto(r, "failed")
     /\ UNCHANGED <<site, clock, Database, lock, Counters>>
Publish(r) == Rename(r, "packing", "packed")

\* _rewrite_metadata: the archive is read back, and written once more.
Repack(r) ==
  LET a == run[r].archive
  IN /\ At(r, "packed")
     /\ IF a \in Archived THEN tmp' = tmp \cup {a} /\ Goto(r, "repacking")
                          ELSE tmp' = tmp /\ Goto(r, "failed")
     /\ UNCHANGED <<site, clock, Database, lock, dir, Counters>>
Republish(r) == Rename(r, "repacking", "written")

\* Mutant: retention keeps the archives that sort first.
NewestFirst(d, n) == SubSeq(d, 1, IF Len(d) < n THEN Len(d) ELSE n)

\* The newest n of the archives d.
Newest(d, n) == SubSeq(d, IF Len(d) > n THEN Len(d) - n + 1 ELSE 1, Len(d))

\* prune_backups, after the delivery (of a file that is pruned by now, nothing).
Prune(r) ==
  /\ At(r, "written")
  /\ dir' = Newest(dir, run[r].keep)
  /\ tmp' = {}
  /\ Goto(r, "pruned")
  /\ UNCHANGED <<site, clock, Database, lock, Counters>>

\* A run is over: an automatic one still has the lock to give back.
Over(r) ==
  run' = [run EXCEPT ![r] = [Resting EXCEPT !.pc = IF r \in Panels THEN "idle" ELSE "unlock"]]

\* backup_logs and backup_last_run_at.
Record(r) ==
  /\ At(r, "pruned")
  /\ latest' = IF run[r].archive > latest THEN run[r].archive ELSE latest
  /\ row' = [row EXCEPT !.last = clock]
  /\ Over(r)
  /\ UNCHANGED <<site, clock, lock, Files, Counters>>

\* A failed create_backup is recorded too; the last run stays what it was.
RecordFailure(r) ==
  /\ At(r, "failed")
  /\ Over(r)
  /\ UNCHANGED <<site, clock, Database, lock, Files, Counters>>

-----------------------------------------------------------------------------
(* Faults, and the admin's settings.                                       *)

Fault == faults < MaxFaults /\ faults' = faults + 1

\* The database or the disk fails before create_backup has returned.
Fail(r) ==
  /\ Fault
  /\ run[r].pc \in {"dump", "packing", "packed", "repacking", "written"}
  /\ Goto(r, "failed")
  /\ UNCHANGED <<site, clock, Database, lock, Files, started, manual>>

\* Mutant: the lock outlives the process that took it.
CrashKeepingLock(r) ==
  /\ Fault
  /\ ~At(r, "idle")
  /\ Rest(r)
  /\ UNCHANGED <<site, clock, Database, lock, Files, started, manual>>

\* The process ends, or anything else raises: files stay, the lock goes with
\* its connection.
Crash(r) ==
  /\ Fault
  /\ ~At(r, "idle")
  /\ Rest(r)
  /\ lock' = IF lock = r THEN NoRunner ELSE lock
  /\ UNCHANGED <<site, clock, Database, Files, started, manual>>

\* The setters of the panel; none touches the last run.
ChangeSettings ==
  /\ \E new \in site.edits : row' = [new EXCEPT !.last = row.last]
  /\ row' # row
  /\ UNCHANGED <<site, clock, latest, lock, Files, Counters, run>>

Work(r) ==
  \/ TryLock(r) \/ Unlock(r) \/ ReadSettings(r) \/ Pack(r) \/ Publish(r)
  \/ Repack(r) \/ Republish(r) \/ Prune(r) \/ Record(r) \/ RecordFailure(r)

Next ==
  \/ Tick \/ ChangeSettings
  \/ \E r \in Runners :
       AskDue(r) \/ PressBackupNow(r) \/ Work(r) \/ Fail(r) \/ Crash(r)

Spec == Init /\ [][Next]_vars

\* A scheduler asks every tick_seconds, and a run that has started goes on.
FairSpec == Spec /\ \A r \in Runners : WF_vars(AskDue(r)) /\ WF_vars(Work(r))

-----------------------------------------------------------------------------
(* Properties.                                                             *)

\* "Two replicas can never back up at the same time" (backup.py:1386-1387): from the
\* reading of the settings to the commit, wherever locks can be asked for.
BackingUp(r) == run[r].pc \notin {"idle", "due", "unlock"}
AutoExclusive ==
  site.locks => \A r, q \in Replicas : BackingUp(r) /\ BackingUp(q) => r = q

\* Where the retention is no smaller than the number of runs that may overlap, a
\* backup that was reported stays restorable: the directory has it, or one that
\* began later, whatever fails or is pruned meanwhile.
ReportedIsKept == latest # 0 => \E a \in Archived : a >= latest

\* With one scheduler and no other run, an automatic backup answers a slot of the
\* schedule that began since the last backup (models.py:277-280).
OnePerSlot ==
  [][\A r \in Replicas :
       site.runners = {r} /\ At(r, "due") /\ run'[r].pc = "start"
         => SlotBegan([run[r].asked EXCEPT !.last = row.last], run[r].at)]_vars

\* A backup that is due is taken, or is no longer asked for: no crash, failure or
\* overlapping manual backup leaves the schedulers waiting for ever.
DueIsServed == IsDue(row, clock) ~> ~IsDue(row, clock)

=============================================================================
