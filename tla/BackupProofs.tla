---------------------------- MODULE BackupProofs ----------------------------
(***************************************************************************)
(* Theorems about BackupScheduler, for any deployments, replicas, admins   *)
(* and faults: AutoExclusive; OnePerSlot, unless the daily schedule is     *)
(* chosen; ReportedIsKept, where every retention covers the runs that may  *)
(* overlap.                                                                *)
(***************************************************************************)
EXTENDS BackupScheduler, FiniteSets, FiniteSetTheorems, SequenceTheorems,
        WellFoundedInduction, TLAPS

\* The types that the theorems need.
Typed ==
  /\ site \in Deployments /\ clock \in Nat /\ row \in SettingsRow /\ started \in Nat
  /\ run \in [Runners -> Runs]

LEMMA SiteTyped ==
  ASSUME site \in Deployments
  PROVE  /\ site.row \in SettingsRow /\ site.from \in Nat
         /\ site.until \in Nat /\ site.edits \subseteq SettingsRow
         /\ Resting \in Runs /\ Resting.pc = "idle"
  <1>1. site \in Deployment
    BY SchedulerAssumption
  <1>2. /\ site.row \in SettingsRow /\ site.from \in Nat
        /\ site.until \in Nat /\ site.edits \subseteq SettingsRow
    BY <1>1 DEF Deployment
  <1>3. Resting \in Runs /\ Resting.pc = "idle"
    BY <1>2 DEF Resting, Runs, PCs
  <1> QED BY <1>2, <1>3

\* What a step of runner r does to the runs: only r moves.
Moves(r) ==
  /\ run' \in [Runners -> Runs]
  /\ \A q \in Runners \ {r} : run'[q] = run[q]

LEMMA GotoMoves ==
  ASSUME Typed, NEW r \in Runners, NEW pc \in PCs, Goto(r, pc)
  PROVE  Moves(r) /\ run'[r] = [run[r] EXCEPT !.pc = pc]
  BY DEF Typed, Goto, Runs, Moves

LEMMA RestMoves ==
  ASSUME Typed, NEW r \in Runners, Rest(r)
  PROVE  Moves(r) /\ run'[r].pc = "idle"
  BY SiteTyped DEF Typed, Rest, Moves

LEMMA OverMoves ==
  ASSUME Typed, NEW r \in Runners, Over(r)
  PROVE  /\ Moves(r)
         /\ run'[r].pc = IF r \in Panels THEN "idle" ELSE "unlock"
  <1>1. [Resting EXCEPT !.pc = IF r \in Panels THEN "idle" ELSE "unlock"] \in Runs
    BY SiteTyped DEF Typed, Runs, PCs
  <1>2. Resting \in Runs
    BY SiteTyped DEF Typed
  <1> QED BY <1>1, <1>2 DEF Typed, Over, Moves, Runs

-----------------------------------------------------------------------------
(* The steps, as the invariants see them.                                  *)

\* The pcs between which a run goes on without the lock changing hands.
Midway == {"start", "dump", "packing", "packed", "repacking", "written", "pruned", "failed"}

\* A run goes on, or is over.
GoesOn(r) ==
  /\ Moves(r) /\ run[r].pc \in Midway
  /\ \/ run'[r].pc \in Midway
     \/ run'[r].pc = IF r \in Panels THEN "idle" ELSE "unlock"
  /\ UNCHANGED <<site, clock, lock>>
  /\ row' = row \/ (row' = [row EXCEPT !.last = clock] /\ run'[r].pc \in {"idle", "unlock"})
  /\ started' \in Nat

LEMMA RunGoesOn ==
  ASSUME Typed, NEW r \in Runners,
         ReadSettings(r) \/ Pack(r) \/ Publish(r) \/ Repack(r) \/ Republish(r)
           \/ Prune(r) \/ Record(r) \/ RecordFailure(r) \/ Fail(r)
  PROVE  GoesOn(r)
  <1> Midway \subseteq PCs
    BY DEF Midway, PCs
  <1>1. CASE ReadSettings(r)
    <2>1. row.keep \in Nat \ {0} /\ started + 1 \in Nat
      BY DEF Typed, SettingsRow
    <2>2. /\ Moves(r)
          /\ run'[r].pc = "dump"
      BY <1>1, <2>1 DEF Typed, ReadSettings, Moves, Runs, PCs
    <2> QED BY <1>1, <2>1, <2>2 DEF ReadSettings, GoesOn, At, Midway, Database
  <1>2. ASSUME NEW pc \in Midway, Goto(r, pc) PROVE Moves(r) /\ run'[r].pc = pc
    <2>1. Moves(r) /\ run'[r] = [run[r] EXCEPT !.pc = pc]
      BY <1>2, GotoMoves
    <2> QED BY <2>1 DEF Typed, Runs
  <1>3. CASE Pack(r)
    BY <1>2, <1>3 DEF Pack, GoesOn, At, Midway, Database, Counters, Typed
  <1>4. CASE Publish(r)
    BY <1>2, <1>4 DEF Publish, Rename, GoesOn, At, Midway, Database, Counters, Typed
  <1>5. CASE Repack(r)
    BY <1>2, <1>5 DEF Repack, GoesOn, At, Midway, Database, Counters, Typed
  <1>6. CASE Republish(r)
    BY <1>2, <1>6 DEF Republish, Rename, GoesOn, At, Midway, Database, Counters, Typed
  <1>7. CASE Prune(r)
    BY <1>2, <1>7 DEF Prune, GoesOn, At, Midway, Database, Counters, Typed
  <1>8. CASE Record(r)
    BY <1>8, OverMoves DEF Record, GoesOn, At, Midway, Counters, Typed
  <1>9. CASE RecordFailure(r)
    BY <1>9, OverMoves DEF RecordFailure, GoesOn, At, Midway, Database, Counters, Typed
  <1>10. CASE Fail(r)
    BY <1>2, <1>10 DEF Fail, Fault, GoesOn, At, Midway, Database, Typed
  <1> QED BY <1>1, <1>3, <1>4, <1>5, <1>6, <1>7, <1>8, <1>9, <1>10

\* A run ends, and gives back the lock if it had it.
LetsGo(r) ==
  /\ Moves(r) /\ run'[r].pc = "idle"
  /\ lock' = IF lock = r THEN NoRunner ELSE lock
  /\ UNCHANGED <<site, clock, row, started>>

LEMMA RunLetsGo ==
  ASSUME Typed, NEW r \in Runners, Unlock(r) \/ Crash(r)
  PROVE  LetsGo(r)
  BY RestMoves DEF Unlock, Crash, LetsGo, Database, Counters

\* A scheduler has asked whether a backup is due.
Asks(r) ==
  /\ Moves(r) /\ r \in Replicas \cap site.runners
  /\ IsDue(row, clock)
  /\ run'[r].pc = "due" /\ run'[r].asked = row /\ run'[r].at = clock
  /\ UNCHANGED <<site, clock, row, lock, started>>

LEMMA SchedulerAsks ==
  ASSUME Typed, NEW r \in Runners, AskDue(r)
  PROVE  Asks(r)
  <1> DEFINE x == [Resting EXCEPT !.pc = "due", !.at = clock, !.asked = row]
  <1>1. x \in Runs /\ x.pc = "due" /\ x.asked = row /\ x.at = clock
    BY SiteTyped DEF Typed, Runs, PCs
  <1>2. run' = [run EXCEPT ![r] = x]
    BY DEF AskDue
  <1> HIDE DEF x
  <1>3. Moves(r) /\ run'[r] = x
    BY <1>1, <1>2 DEF Typed, Moves
  <1> QED BY <1>1, <1>3 DEF AskDue, Asks, Database, Counters

\* It goes on with the lock, without one where there are none, or not at all.
Tries(r) ==
  /\ Moves(r) /\ run[r].pc = "due"
  /\ \/ ~site.locks /\ lock' = lock /\ run'[r].pc = "start"
     \/ site.locks /\ lock = NoRunner /\ lock' = r /\ run'[r].pc = "start"
     \/ lock' = lock /\ run'[r].pc = "idle"
  /\ UNCHANGED <<site, clock, row, started>>

LEMMA SchedulerTries ==
  ASSUME Typed, NEW r \in Runners, TryLock(r)
  PROVE  Tries(r)
  <1>1. Goto(r, "start") => Moves(r) /\ run'[r].pc = "start"
    <2> SUFFICES ASSUME Goto(r, "start") PROVE Moves(r) /\ run'[r].pc = "start"
      OBVIOUS
    <2>1. "start" \in PCs
      BY DEF PCs
    <2>2. Moves(r) /\ run'[r] = [run[r] EXCEPT !.pc = "start"]
      BY <2>1, GotoMoves
    <2> QED BY <2>2 DEF Typed, Runs
  <1> QED BY <1>1, RestMoves DEF TryLock, Tries, At, Database, Counters

\* An admin has asked for a backup.
Presses(r) ==
  /\ Moves(r) /\ r \in Panels \cap site.runners /\ run'[r].pc = "start"
  /\ UNCHANGED <<site, clock, row, lock, started>>

LEMMA AdminPresses ==
  ASSUME Typed, NEW r \in Runners, PressBackupNow(r)
  PROVE  Presses(r)
  <1>1. /\ [Resting EXCEPT !.pc = "start"] \in Runs
        /\ [Resting EXCEPT !.pc = "start"].pc = "start"
    BY SiteTyped DEF Typed, Runs, PCs
  <1> QED BY <1>1 DEF Typed, PressBackupNow, Presses, Moves, Database

\* Nobody's run moves: the clock, or the settings.
Outside ==
  /\ UNCHANGED <<site, lock, run, started>>
  /\ clock' \in Nat /\ row' \in SettingsRow /\ row'.last = row.last
  /\ row' = row \/ \E e \in site.edits : row'.schedule = e.schedule

LEMMA OutsideSteps ==
  ASSUME Typed, Tick \/ ChangeSettings \/ UNCHANGED vars
  PROVE  Outside
  <1>1. CASE Tick
    BY <1>1 DEF Tick, Typed, Outside, Database, Counters
  <1>2. CASE ChangeSettings
    <2>1. PICK new \in site.edits : row' = [new EXCEPT !.last = row.last]
      BY <1>2 DEF ChangeSettings
    <2>2. new \in SettingsRow /\ row.last \in Nat \cup {Never}
      BY <2>1, SiteTyped DEF Typed, SettingsRow
    <2>3. row' \in SettingsRow /\ row'.last = row.last /\ row'.schedule = new.schedule
      BY <2>1, <2>2 DEF SettingsRow
    <2> QED BY <1>2, <2>3 DEF ChangeSettings, Typed, Outside, Counters
  <1>3. CASE UNCHANGED vars
    BY <1>3 DEF vars, Typed, Outside
  <1> QED BY <1>1, <1>2, <1>3

LEMMA Steps ==
  ASSUME Typed, [Next]_vars
  PROVE  \/ Outside
         \/ \E r \in Runners : GoesOn(r) \/ LetsGo(r) \/ Asks(r) \/ Tries(r) \/ Presses(r)
  <1>1. CASE Tick \/ ChangeSettings \/ UNCHANGED vars
    BY <1>1, OutsideSteps
  <1>2. ASSUME NEW r \in Runners,
               AskDue(r) \/ PressBackupNow(r) \/ Work(r) \/ Fail(r) \/ Crash(r)
        PROVE  GoesOn(r) \/ LetsGo(r) \/ Asks(r) \/ Tries(r) \/ Presses(r)
    BY <1>2, RunGoesOn, RunLetsGo, SchedulerAsks, SchedulerTries, AdminPresses DEF Work
  <1> QED BY <1>1, <1>2 DEF Next

LEMMA InitTyped == Init => Typed
  <1> SUFFICES ASSUME Init PROVE Typed
    OBVIOUS
  <1>1. site \in Deployments
    BY DEF Init
  <1> QED BY <1>1, SiteTyped DEF Init, Typed

LEMMA NextTyped == Typed /\ [Next]_vars => Typed'
  <1> SUFFICES ASSUME Typed, [Next]_vars PROVE Typed'
    OBVIOUS
  <1>1. [row EXCEPT !.last = clock] \in SettingsRow
    BY DEF Typed, SettingsRow
  <1> QED BY <1>1, Steps DEF Typed, Outside, GoesOn, LetsGo, Asks, Tries, Presses, Moves

-----------------------------------------------------------------------------
(* AutoExclusive.                                                          *)

\* Who backs up automatically holds the lock until after the commit.
HoldsLock(r) == BackingUp(r) \/ At(r, "unlock") => lock = r
LInv == site.locks => \A r \in Replicas : HoldsLock(r)

LEMMA InitLInv == Init => LInv
  <1> SUFFICES ASSUME Init PROVE LInv
    OBVIOUS
  <1>1. Resting.pc = "idle"
    BY SiteTyped DEF Init
  <1> QED BY <1>1 DEF Init, LInv, HoldsLock, BackingUp, At, Runners

LEMMA NextLInv ==
  ASSUME Typed, LInv, [Next]_vars
  PROVE  LInv'
  <1>0. CASE Outside
    BY <1>0 DEF Outside, LInv, HoldsLock, BackingUp, At
  <1>1. ASSUME NEW r \in Runners,
               GoesOn(r) \/ LetsGo(r) \/ Asks(r) \/ Tries(r) \/ Presses(r)
        PROVE  LInv'
    <2>1. site' = site
      BY <1>1 DEF GoesOn, LetsGo, Asks, Tries, Presses
    <2> SUFFICES ASSUME site.locks, NEW q \in Replicas PROVE HoldsLock(q)'
      BY <2>1 DEF LInv
    <2>2. q \in Runners /\ q \notin Panels /\ q # NoRunner
      BY SchedulerAssumption DEF Runners
    <2>3. HoldsLock(q)
      BY DEF LInv
    <2>4. CASE q = r
      <3>1. CASE GoesOn(r)
        BY <2>2, <2>3, <2>4, <3>1 DEF GoesOn, HoldsLock, BackingUp, At, Midway
      <3>2. CASE LetsGo(r) \/ Asks(r) \/ Tries(r) \/ Presses(r)
        BY <2>2, <2>4, <3>2
        DEF LetsGo, Asks, Tries, Presses, HoldsLock, BackingUp, At
      <3> QED BY <1>1, <3>1, <3>2
    <2>5. CASE q # r
      <3>1. run'[q] = run[q]
        BY <1>1, <2>2, <2>5 DEF GoesOn, LetsGo, Asks, Tries, Presses, Moves
      <3>2. lock = q => lock' = q
        BY <1>1, <2>2, <2>5 DEF GoesOn, LetsGo, Asks, Tries, Presses
      <3> QED BY <2>3, <3>1, <3>2 DEF HoldsLock, BackingUp, At
    <2> QED BY <2>4, <2>5
  <1> QED BY <1>0, <1>1, Steps

\* Two schedulers never back up at the same time, from the reading of the settings
\* to the commit, for any number of replicas, crashes and manual backups.
THEOREM OneScheduler == Spec => []AutoExclusive
  <1>1. Init => Typed /\ LInv
    BY InitTyped, InitLInv
  <1>2. Typed /\ LInv /\ [Next]_vars => Typed' /\ LInv'
    BY NextTyped, NextLInv
  <1>3. LInv => AutoExclusive
    BY DEF LInv, HoldsLock, AutoExclusive
  <1> QED BY <1>1, <1>2, <1>3, PTL DEF Spec

-----------------------------------------------------------------------------
(* OnePerSlot.                                                             *)

\* Nobody has chosen the daily schedule.
NoDaily ==
  \A d \in Deployments :
    d.row.schedule # "daily" /\ \A e \in d.edits : e.schedule # "daily"

\* What is due answers a slot that began since the last backup.
LEMMA DueHasSlot ==
  ASSUME NEW r \in SettingsRow, NEW t \in Nat, IsDue(r, t), r.schedule # "daily"
  PROVE  SlotBegan(r, t)
  <1>1. CASE r.last = Never
    BY <1>1 DEF SlotBegan
  <1>2. CASE r.last # Never /\ r.schedule = "weekly"
    <2> DEFINE k == 24 * DayOf(t) + r.hour
    <2>1. /\ r.last \in Nat /\ t - r.last >= 164
          /\ WeekdayOf(t) = r.weekday /\ HourOf(t) >= r.hour /\ r.hour \in 0..23
      BY <1>2 DEF IsDue, Passed, SettingsRow
    <2>2. DayOf(t) \in Nat /\ t = 24 * DayOf(t) + HourOf(t) /\ HourOf(t) \in 0..23
      BY DEF DayOf, HourOf
    <2> HIDE DEF k
    <2>3. HourOf(k) = r.hour /\ DayOf(k) = DayOf(t)
      <3>1. \A n \in Nat, h \in 0..23 : (24 * n + h) % 24 = h /\ (24 * n + h) \div 24 = n
        BY SMTT(30)
      <3>2. k = 24 * DayOf(t) + r.hour
        BY DEF k
      <3> QED BY <2>1, <2>2, <3>1, <3>2 DEF DayOf, HourOf
    <2>4. k \in r.last + 1 .. t
      BY <2>1, <2>2 DEF k
    <2>5. IsSlot(r, k)
      BY <1>2, <2>1, <2>3 DEF IsSlot, WeekdayOf
    <2> QED BY <2>4, <2>5 DEF SlotBegan
  <1>3. CASE r.last # Never /\ r.schedule \in {"hourly", "hours"}
    BY <1>3 DEF IsDue, Passed, SlotBegan
  <1> QED BY <1>1, <1>2, <1>3 DEF SettingsRow, Schedules

\* What a scheduler that is about to begin was told; and who does nothing.
Told(r) ==
  run[r].pc = "due" =>
    /\ r \in site.runners
    /\ IsDue(run[r].asked, run[r].at) /\ run[r].asked.schedule # "daily"
    /\ site.runners = {r} => run[r].asked.last = row.last
SInv ==
  /\ row.schedule # "daily"
  /\ \A r \in Runners : Told(r) /\ (r \notin site.runners => run[r].pc = "idle")

LEMMA InitSInv == NoDaily /\ Init => SInv
  <1> SUFFICES ASSUME NoDaily, Init PROVE SInv
    OBVIOUS
  <1>1. Resting.pc = "idle"
    BY SiteTyped DEF Init
  <1> QED BY <1>1 DEF Init, SInv, Told, NoDaily

LEMMA NextSInv ==
  ASSUME NoDaily, Typed, SInv, [Next]_vars
  PROVE  SInv'
  <1>0. CASE Outside
    <2>1. row'.schedule # "daily"
      BY <1>0 DEF Outside, SInv, NoDaily, Typed
    <2> QED BY <1>0, <2>1 DEF Outside, SInv, Told
  <1>1. ASSUME NEW r \in Runners,
               GoesOn(r) \/ LetsGo(r) \/ Asks(r) \/ Tries(r) \/ Presses(r)
        PROVE  SInv'
    <2>1. site' = site /\ row'.schedule = row.schedule
      BY <1>1 DEF GoesOn, LetsGo, Asks, Tries, Presses, Typed, SettingsRow
    <2>2. r \in site.runners \/ run'[r].pc = "idle"
      BY <1>1 DEF GoesOn, LetsGo, Asks, Tries, Presses, SInv, Midway
    <2>3. ASSUME NEW q \in Runners, q # r
          PROVE  Told(q)' /\ (q \notin site.runners => run'[q].pc = "idle")
      <3>1. run'[q] = run[q]
        BY <1>1, <2>3 DEF GoesOn, LetsGo, Asks, Tries, Presses, Moves
      <3>2. site.runners = {q} => row' = row
        BY <1>1, <2>3, <2>2 DEF GoesOn, LetsGo, Asks, Tries, Presses, SInv, Midway
      <3> QED BY <2>1, <3>1, <3>2 DEF SInv, Told
    <2>4. Told(r)'
      <3>1. CASE Asks(r)
        BY <3>1, <2>1 DEF Asks, Told, SInv
      <3>2. CASE GoesOn(r) \/ LetsGo(r) \/ Tries(r) \/ Presses(r)
        BY <3>2 DEF GoesOn, LetsGo, Tries, Presses, Told, Midway
      <3> QED BY <1>1, <3>1, <3>2
    <2> QED BY <2>1, <2>2, <2>3, <2>4 DEF SInv
  <1> QED BY <1>0, <1>1, Steps

\* Unless the schedule is the daily one, a scheduler alone takes one backup per slot,
\* whatever the settings, their changes, the failures and the crashes.
THEOREM SlotsApart ==
  ASSUME NoDaily
  PROVE  Spec => OnePerSlot
  <1>1. Init => Typed /\ SInv
    BY InitTyped, InitSInv
  <1>2. Typed /\ SInv /\ [Next]_vars => Typed' /\ SInv'
    BY NextTyped, NextSInv
  <1>3. ASSUME Typed, SInv, NEW r \in Replicas, site.runners = {r}, At(r, "due")
        PROVE  SlotBegan([run[r].asked EXCEPT !.last = row.last], run[r].at)
    <2>1. r \in Runners /\ run[r].asked \in SettingsRow /\ run[r].at \in Nat
      BY <1>3 DEF Typed, Runners, Runs
    <2>2. /\ IsDue(run[r].asked, run[r].at) /\ run[r].asked.schedule # "daily"
          /\ run[r].asked.last = row.last
      BY <1>3, <2>1 DEF SInv, Told, At
    <2>3. [run[r].asked EXCEPT !.last = row.last] = run[r].asked
      BY <2>1, <2>2 DEF SettingsRow
    <2> QED BY <2>1, <2>2, <2>3, DueHasSlot
  <1>4. Typed /\ SInv =>
          \A r \in Replicas :
            site.runners = {r} /\ At(r, "due") /\ run'[r].pc = "start"
              => SlotBegan([run[r].asked EXCEPT !.last = row.last], run[r].at)
    BY <1>3
  <1> QED BY <1>1, <1>2, <1>4, PTL DEF Spec, OnePerSlot

-----------------------------------------------------------------------------
(* ReportedIsKept.  An archive that lies behind n others in the directory is *)
(* removed by a run that keeps n.  An older run that goes on puts its archive *)
(* behind a newer one; but only the runs that were under way when the newer  *)
(* one began can do so, and they are fewer than the archives that are kept.  *)

\* The runs that may overlap in a deployment: one per admin, and one of all the
\* schedulers where there are locks.
Seats(d) ==
  (d.runners \cap Panels) \cup
    (IF d.locks THEN {NoRunner : r \in d.runners \cap Replicas} ELSE d.runners \cap Replicas)
Seat(r) == IF r \in Replicas /\ site.locks THEN NoRunner ELSE r

\* Every retention an admin may choose is as large as the runs that may overlap.
RetentionCovers ==
  \A d \in Deployments :
    /\ IsFiniteSet(d.runners)
    /\ \A s \in {d.row} \cup d.edits : s.keep >= Cardinality(Seats(d))

\* A run that has numbered its archive.
Making(r) ==
  run[r].pc \in {"dump", "packing", "packed", "repacking", "written", "pruned", "failed"}

\* Archive b lies somewhere behind m in d.
Behind(d, m, b) == \E i, j \in DOMAIN d : i < j /\ d[i] = m /\ d[j] = b

\* The archives that began before m and lie, or may still come to lie, behind it.
Older(m) ==
  {b \in 0 .. m - 1 : Behind(dir, m, b) \/ \E r \in Runners : Making(r) /\ run[r].archive = b}

Distinct(d) == \A i, j \in DOMAIN d : d[i] = d[j] => i = j
Kept(x) == \E a \in Archived : a >= x

\* The directory is sound, and so is each run.
Disk == dir \in Seq(Nat) /\ Distinct(dir) /\ \A b \in Archived : b <= started
Working(r) ==
  /\ run[r].pc # "idle" => r \in site.runners
  /\ Making(r) => run[r].keep >= Cardinality(Seats(site)) /\ run[r].archive <= started
  /\ run[r].pc \in {"written", "pruned"} => Kept(run[r].archive)

\* Fewer archives than are kept lie, or may come to lie, behind a newer one.
FewOlder == \A m \in Archived : Cardinality(Older(m)) < Cardinality(Seats(site))

KInv ==
  /\ latest \in Nat /\ Disk
  /\ row.keep >= Cardinality(Seats(site))
  /\ \A r \in Runners : Working(r)
  /\ FewOlder
  /\ ReportedIsKept

LEMMA Slice ==
  ASSUME NEW S, NEW s \in Seq(S), NEW o \in Nat, NEW n \in Nat, NEW m, NEW l,
         o <= n, n <= Len(s), m = o + 1, l = n - o
  PROVE  /\ SubSeq(s, m, n) \in Seq(S) /\ Len(SubSeq(s, m, n)) = l
         /\ \A i \in 1 .. l : SubSeq(s, m, n)[i] = s[o + i] /\ o + i \in 1 .. Len(s)
  <1>1. Len(s) \in Nat /\ m \in Int /\ \A i \in m .. n : s[i] \in S
    OBVIOUS
  <1>2. (IF m <= n THEN n - m + 1 ELSE 0) = l /\ n - m + 1 = l
    OBVIOUS
  <1>3. \A i \in 1 .. l : m + i - 1 = o + i /\ o + i \in 1 .. Len(s)
    BY <1>1
  <1> QED BY <1>1, <1>2, <1>3, SubSeqProperties

\* What follows the k-th element.
LEMMA After ==
  ASSUME NEW S, NEW s \in Seq(S), NEW k \in Nat, k <= Len(s)
  PROVE  /\ SubSeq(s, k + 1, Len(s)) \in Seq(S) /\ Len(SubSeq(s, k + 1, Len(s))) = Len(s) - k
         /\ \A j \in 1 .. Len(s) - k : SubSeq(s, k + 1, Len(s))[j] = s[k + j]
  <1> DEFINE n == Len(s)
             m == k + 1
             l == n - k
  <1>1. n \in Nat /\ k <= n /\ n <= Len(s) /\ m = k + 1 /\ l = n - k
    OBVIOUS
  <1>2. /\ SubSeq(s, m, n) \in Seq(S) /\ Len(SubSeq(s, m, n)) = l
        /\ \A i \in 1 .. l : SubSeq(s, m, n)[i] = s[k + i]
    <2> HIDE DEF n, m, l
    <2> QED BY <1>1, Slice
  <1> QED BY <1>2

\* What a directory is after an archive was put in at the end of it.
LEMMA PutLast ==
  ASSUME NEW d \in Seq(Nat), Distinct(d), NEW a \in Nat, NEW e,
         e = Append(Without(d, a), a)
  PROVE  /\ e \in Seq(Nat) /\ Distinct(e) /\ Range(e) = Range(d) \cup {a}
         /\ \A m, b : Behind(e, m, b) => m # a /\ (b = a \/ Behind(d, m, b))
  <1>1. CASE a \notin Range(d)
    <2>1. e = Append(d, a)
      BY <1>1 DEF Without
    <2>2. /\ e \in Seq(Nat) /\ DOMAIN e = 1 .. Len(d) + 1 /\ DOMAIN d = 1 .. Len(d)
          /\ e[Len(d) + 1] = a /\ \A i \in DOMAIN d : e[i] = d[i]
      BY <2>1
    <2>3. \A i \in DOMAIN d : d[i] # a
      BY <1>1 DEF Range
    <2>4. Len(d) \in Nat
      OBVIOUS
    <2>5. Distinct(e)
      BY <2>2, <2>3, <2>4, SMTT(30) DEF Distinct
    <2>6. Range(e) = Range(d) \cup {a}
      <3>1. \A i \in DOMAIN e : i \in DOMAIN d \/ i = Len(d) + 1
        BY <2>2, <2>4
      <3>2. Len(d) + 1 \in DOMAIN e /\ \A i \in DOMAIN d : i \in DOMAIN e
        BY <2>2, <2>4
      <3> QED BY <2>2, <3>1, <3>2 DEF Range
    <2>7. ASSUME NEW m, NEW b, Behind(e, m, b)
          PROVE  m # a /\ (b = a \/ Behind(d, m, b))
      <3>1. PICK i, j \in DOMAIN e : i < j /\ e[i] = m /\ e[j] = b
        BY <2>7 DEF Behind
      <3>2. i \in DOMAIN d /\ (j = Len(d) + 1 \/ j \in DOMAIN d)
        BY <2>2, <2>4, <3>1, SMTT(30)
      <3> QED BY <2>2, <2>3, <3>1, <3>2 DEF Behind
    <2> QED BY <2>2, <2>5, <2>6, <2>7, Zenon
  <1>2. CASE a \in Range(d)
    <2> DEFINE k == CHOOSE i \in DOMAIN d : d[i] = a
               L == Len(d)
               p(j) == IF j < k THEN j ELSE j + 1
    <2>1. k \in DOMAIN d /\ d[k] = a
      BY <1>2 DEF Range
    <2>2. L \in Nat /\ DOMAIN d = 1 .. L /\ k \in 1 .. L
      BY <2>1
    <2>3. Without(d, a) = SubSeq(d, 1, k - 1) \o SubSeq(d, k + 1, L)
      BY <1>2 DEF Without
    <2> HIDE DEF k
    <2>4. /\ SubSeq(d, 1, k - 1) \in Seq(Nat) /\ Len(SubSeq(d, 1, k - 1)) = k - 1
          /\ SubSeq(d, k + 1, L) \in Seq(Nat) /\ Len(SubSeq(d, k + 1, L)) = L - k
          /\ \A j \in 1 .. k - 1 : SubSeq(d, 1, k - 1)[j] = d[j]
          /\ \A j \in 1 .. L - k : SubSeq(d, k + 1, L)[j] = d[k + j]
      <3> HIDE DEF L
      <3>1. /\ k - 1 \in Nat /\ 0 <= k - 1 /\ k - 1 <= L /\ 1 = 0 + 1 /\ k - 1 = k - 1 - 0
            /\ k \in Nat /\ k <= L /\ L <= L /\ \A j \in 1 .. k - 1 : 0 + j = j
        BY <2>2
      <3>2. /\ SubSeq(d, 1, k - 1) \in Seq(Nat) /\ Len(SubSeq(d, 1, k - 1)) = k - 1
            /\ \A j \in 1 .. k - 1 : SubSeq(d, 1, k - 1)[j] = d[0 + j]
        BY <3>1, Slice, SMTT(30) DEF L
      <3>3. /\ SubSeq(d, k + 1, L) \in Seq(Nat) /\ Len(SubSeq(d, k + 1, L)) = L - k
            /\ \A j \in 1 .. L - k : SubSeq(d, k + 1, L)[j] = d[k + j]
        BY <3>1, After, Zenon DEF L
      <3> QED BY <3>1, <3>2, <3>3
    <2> DEFINE f == SubSeq(d, 1, k - 1)
               g == SubSeq(d, k + 1, L)
               w == Without(d, a)
    <2>5. f \in Seq(Nat) /\ Len(f) = k - 1 /\ g \in Seq(Nat) /\ Len(g) = L - k /\ w = f \o g
      BY <2>3, <2>4
    <2>6. /\ \A j \in 1 .. k - 1 : f[j] = d[j]
          /\ \A j \in 1 .. L - k : g[j] = d[k + j]
      BY <2>4
    <2> HIDE DEF f, g, w
    <2>7. /\ w \in Seq(Nat) /\ Len(w) = L - 1
          /\ \A j \in 1 .. k - 1 : w[j] = f[j]
          /\ \A j \in k .. L - 1 : w[j] = g[j - (k - 1)]
      <3>1. /\ f \o g \in Seq(Nat) /\ Len(f \o g) = Len(f) + Len(g)
            /\ \A j \in 1 .. Len(f) + Len(g) :
                 (f \o g)[j] = IF j <= Len(f) THEN f[j] ELSE g[j - Len(f)]
        BY <2>5, ConcatProperties
      <3>2. /\ (k - 1) + (L - k) = L - 1
            /\ \A j \in 1 .. k - 1 : j \in 1 .. L - 1 /\ j <= k - 1
            /\ \A j \in k .. L - 1 : j \in 1 .. L - 1 /\ ~(j <= k - 1)
        BY <2>2
      <3> HIDE DEF L
      <3> QED BY <2>5, <3>1, <3>2
    <2>8. e = Append(w, a)
      BY DEF w
    <2>9. /\ e \in Seq(Nat) /\ DOMAIN e = 1 .. L /\ e[L] = a
          /\ \A j \in 1 .. L - 1 : e[j] = w[j]
      <3>1. Len(e) = L - 1 + 1 /\ e[L - 1 + 1] = a /\ \A j \in 1 .. L - 1 : e[j] = w[j]
        BY <2>7, <2>8, AppendProperties
      <3>2. e \in Seq(Nat)
        BY <2>7, <2>8, AppendProperties
      <3>3. L - 1 + 1 = L
        BY <2>2
      <3> HIDE DEF L
      <3> QED BY <3>1, <3>2, <3>3
    <2> HIDE DEF L
    <2>10. ASSUME NEW j \in 1 .. L - 1
           PROVE  p(j) \in 1 .. L /\ p(j) # k /\ e[j] = d[p(j)]
      <3>1. CASE j < k
        BY <2>2, <2>6, <2>7, <2>9, <3>1
      <3>2. CASE ~(j < k)
        <4>1. j \in k .. L - 1 /\ j - (k - 1) \in 1 .. L - k
          BY <2>2, <3>2
        <4>2. e[j] = g[j - (k - 1)]
          BY <2>7, <2>9, <4>1
        <4>3. k + (j - (k - 1)) = j + 1 /\ j + 1 \in 1 .. L /\ j + 1 # k
          BY <2>2, <4>1
        <4>4. e[j] = d[k + (j - (k - 1))]
          BY <2>6, <4>1, <4>2
        <4> QED BY <3>2, <4>3, <4>4
      <3> QED BY <3>1, <3>2
    <2>11. \A i, j \in 1 .. L - 1 : p(i) \in Nat /\ (i < j => p(i) < p(j)) /\ (p(i) = p(j) => i = j)
      BY <2>2
    <2>12. \A i \in 1 .. L : i # k => \E j \in 1 .. L - 1 : p(j) = i
      <3>1. ASSUME NEW i \in 1 .. L, i # k
            PROVE  \E j \in 1 .. L - 1 : p(j) = i
        <4>1. CASE i < k
          BY <2>2, <4>1
        <4>2. CASE ~(i < k)
          <5>1. i - 1 \in 1 .. L - 1 /\ ~(i - 1 < k) /\ (i - 1) + 1 = i
            BY <2>2, <3>1, <4>2
          <5> QED BY <5>1
        <4> QED BY <4>1, <4>2
      <3> QED BY <3>1
    <2>13. \A i \in 1 .. L : d[i] = a => i = k
      BY <2>1, <2>2 DEF Distinct
    <2>14. \A j \in 1 .. L : j = L \/ j \in 1 .. L - 1
      BY <2>2
    <2>15. \A j \in 1 .. L - 1 : e[j] # a
      BY <2>10, <2>13
    <2> HIDE DEF p
    <2>16. Distinct(e)
      <3> SUFFICES ASSUME NEW i \in 1 .. L, NEW j \in 1 .. L, e[i] = e[j] PROVE i = j
        BY <2>9 DEF Distinct
      <3>1. CASE i = L \/ j = L
        BY <2>9, <2>14, <2>15, <3>1
      <3>2. CASE i # L /\ j # L
        <4>1. i \in 1 .. L - 1 /\ j \in 1 .. L - 1
          BY <2>14, <3>2
        <4>2. d[p(i)] = d[p(j)] /\ p(i) \in DOMAIN d /\ p(j) \in DOMAIN d
          BY <2>2, <2>10, <4>1
        <4>3. p(i) = p(j)
          BY <4>2 DEF Distinct
        <4> QED BY <2>11, <4>1, <4>3
      <3> QED BY <3>1, <3>2
    <2>17. Range(e) = Range(d) \cup {a}
      <3>1. ASSUME NEW x \in Range(e) PROVE x \in Range(d) \cup {a}
        <4>1. PICK j \in 1 .. L : x = e[j]
          BY <2>9 DEF Range
        <4> QED BY <2>2, <2>9, <2>10, <2>14, <4>1 DEF Range
      <3>2. ASSUME NEW x \in Range(d) PROVE x \in Range(e)
        <4>1. PICK i \in 1 .. L : x = d[i]
          BY <2>2 DEF Range
        <4>2. CASE i = k
          <5>1. x = a /\ L \in DOMAIN e
            BY <2>1, <2>2, <2>9, <4>1, <4>2
          <5> QED BY <2>9, <5>1 DEF Range
        <4>3. CASE i # k
          <5>1. PICK j \in 1 .. L - 1 : p(j) = i
            BY <2>12, <4>3
          <5>2. x = e[j] /\ j \in DOMAIN e
            BY <2>2, <2>9, <2>10, <4>1, <5>1
          <5> QED BY <5>2 DEF Range
        <4> QED BY <4>2, <4>3
      <3>3. a \in Range(e)
        BY <2>2, <2>9 DEF Range
      <3> QED BY <3>1, <3>2, <3>3
    <2>18. ASSUME NEW m, NEW b, Behind(e, m, b)
           PROVE  m # a /\ (b = a \/ Behind(d, m, b))
      <3>1. PICK i, j \in 1 .. L : i < j /\ e[i] = m /\ e[j] = b
        BY <2>9, <2>18 DEF Behind
      <3>2. i \in 1 .. L - 1
        BY <2>2, <3>1
      <3>3. CASE j = L
        BY <2>9, <2>15, <3>1, <3>2, <3>3
      <3>4. CASE j # L
        <4>1. j \in 1 .. L - 1
          BY <2>14, <3>4
        <4>2. p(i) \in DOMAIN d /\ p(j) \in DOMAIN d /\ p(i) < p(j) /\ d[p(i)] = m /\ d[p(j)] = b
          BY <2>2, <2>10, <2>11, <3>1, <3>2, <4>1
        <4> QED BY <2>15, <3>1, <3>2, <4>2 DEF Behind
      <3> QED BY <3>3, <3>4
    <2> QED BY <2>9, <2>16, <2>17, <2>18
  <1> QED BY <1>1, <1>2

\* What a directory is after the retention.
LEMMA Retained ==
  ASSUME NEW d \in Seq(Nat), Distinct(d), NEW n \in Nat, n # 0, NEW e, e = Newest(d, n)
  PROVE  /\ e \in Seq(Nat) /\ Distinct(e) /\ Range(e) \subseteq Range(d)
         /\ \A m, b : Behind(e, m, b) => Behind(d, m, b)
         /\ \A i \in DOMAIN d : Len(d) - i < n => d[i] \in Range(e)
  <1> DEFINE L == Len(d)
             o == IF L > n THEN L - n ELSE 0
  <1>1. L \in Nat /\ DOMAIN d = 1 .. L /\ o \in 0 .. L
    OBVIOUS
  <1>2. e = SubSeq(d, o + 1, L)
    BY <1>1 DEF Newest
  <1>3. /\ e \in Seq(Nat) /\ DOMAIN e = 1 .. L - o
        /\ \A j \in 1 .. L - o : e[j] = d[o + j] /\ o + j \in 1 .. L
    <2> HIDE DEF o
    <2>1. o \in Nat /\ o <= L /\ L <= L
      BY <1>1
    <2>2. /\ e \in Seq(Nat) /\ Len(e) = L - o
          /\ \A j \in 1 .. L - o : e[j] = d[o + j] /\ o + j \in 1 .. L
      <3> HIDE DEF L
      <3>1. L \in Nat /\ L = Len(d) /\ L <= Len(d)
        BY <1>1 DEF L
      <3>2. \A m, l : m = o + 1 /\ l = L - o =>
              /\ SubSeq(d, m, L) \in Seq(Nat) /\ Len(SubSeq(d, m, L)) = l
              /\ \A j \in 1 .. l : SubSeq(d, m, L)[j] = d[o + j] /\ o + j \in 1 .. Len(d)
        BY <2>1, <3>1, Slice
      <3> QED BY <1>2, <3>1, <3>2
    <2> HIDE DEF L
    <2> QED BY <2>2
  <1>4. \A i \in 1 .. L : L - i < n => i - o \in 1 .. L - o /\ o + (i - o) = i
    BY <1>1
  <1> HIDE DEF o, L
  <1>5. Distinct(e)
    <2> SUFFICES ASSUME NEW i \in 1 .. L - o, NEW j \in 1 .. L - o, e[i] = e[j] PROVE i = j
      BY <1>3 DEF Distinct
    <2>1. d[o + i] = d[o + j] /\ o + i \in DOMAIN d /\ o + j \in DOMAIN d
      BY <1>1, <1>3
    <2>2. o + i = o + j
      BY <2>1 DEF Distinct
    <2> QED BY <1>1, <2>2
  <1>6. Range(e) \subseteq Range(d)
    BY <1>1, <1>3 DEF Range
  <1>7. ASSUME NEW m, NEW b, Behind(e, m, b) PROVE Behind(d, m, b)
    <2>1. PICK i, j \in 1 .. L - o : i < j /\ e[i] = m /\ e[j] = b
      BY <1>3, <1>7 DEF Behind
    <2>2. o + i \in DOMAIN d /\ o + j \in DOMAIN d /\ o + i < o + j
      BY <1>1, <1>3, <2>1
    <2> QED BY <1>3, <2>1, <2>2 DEF Behind
  <1>8. ASSUME NEW i \in DOMAIN d, L - i < n PROVE d[i] \in Range(e)
    <2>1. i - o \in DOMAIN e /\ e[i - o] = d[i]
      BY <1>1, <1>3, <1>4, <1>8
    <2> QED BY <2>1 DEF Range
  <1> QED BY <1>3, <1>5, <1>6, <1>7, <1>8 DEF L

-----------------------------------------------------------------------------
(* Counting.                                                               *)

LEMMA Least ==
  ASSUME NEW T, T \subseteq Nat, T # {}
  PROVE  \E x \in T : \A y \in T : x <= y
  <1>1. PICK x \in T : \A y \in T : ~(<<y, x>> \in OpToRel(<, Nat))
    BY NatLessThanWellFounded, WFMin, Zenon
  <1>2. \A y \in T : ~(y < x)
    BY <1>1 DEF OpToRel
  <1> QED BY <1>2

LEMMA Greatest ==
  ASSUME NEW T, T \subseteq Nat, T # {}, NEW n \in Nat, \A t \in T : t <= n
  PROVE  \E x \in T : \A y \in T : y <= x
  <1> DEFINE U == {n - t : t \in T}
  <1>1. U \subseteq Nat /\ U # {}
    <2>1. \A t \in T : n - t \in Nat
      OBVIOUS
    <2> QED BY <2>1
  <1>2. PICK u \in U : \A v \in U : u <= v
    BY <1>1, Least
  <1>3. PICK x \in T : u = n - x
    OBVIOUS
  <1>4. \A y \in T : n - x <= n - y
    BY <1>2, <1>3
  <1>5. \A y \in T : y <= x
    BY <1>4
  <1> QED BY <1>5

LEMMA OlderFinite ==
  ASSUME NEW m \in Nat
  PROVE  IsFiniteSet(Older(m)) /\ Cardinality(Older(m)) \in Nat
  <1>1. IsFiniteSet(0 .. m - 1)
    BY FS_Interval
  <1>2. Older(m) \in SUBSET (0 .. m - 1)
    BY DEF Older
  <1> QED BY <1>1, <1>2, FS_Subset, FS_CardinalityType

LEMMA SeatsFinite ==
  ASSUME RetentionCovers, NEW d \in Deployments
  PROVE  IsFiniteSet(Seats(d)) /\ Cardinality(Seats(d)) \in Nat
  <1>1. IsFiniteSet(d.runners \cup {NoRunner})
    BY FS_AddElement DEF RetentionCovers
  <1>2. Seats(d) \in SUBSET (d.runners \cup {NoRunner})
    BY DEF Seats
  <1> QED BY <1>1, <1>2, FS_Subset, FS_CardinalityType

\* Two runs under way have seats of their own.
LEMMA MakersApart ==
  ASSUME Typed, LInv, NEW q \in Runners, NEW r \in Runners, Making(q), Making(r),
         Seat(q) = Seat(r)
  PROVE  q = r
  <1>1. BackingUp(q) /\ BackingUp(r) /\ NoRunner \notin Runners
    BY SchedulerAssumption DEF Making, BackingUp
  <1>2. CASE site.locks /\ q \in Replicas
    BY <1>1, <1>2 DEF LInv, HoldsLock, Seat
  <1>3. CASE ~(site.locks /\ q \in Replicas)
    BY <1>1, <1>3 DEF Seat
  <1> QED BY <1>2, <1>3

\* The runs under way beside r are fewer than the seats.
LEMMA OthersFew ==
  ASSUME RetentionCovers, Typed, LInv, KInv, NEW r \in Runners, Making(r), NEW B,
         \A b \in B : \E q \in Runners \ {r} : Making(q) /\ run[q].archive = b
  PROVE  IsFiniteSet(B) /\ Cardinality(B) < Cardinality(Seats(site))
  <1> DEFINE N == Seats(site)
             Q(b) == CHOOSE q \in Runners \ {r} : Making(q) /\ run[q].archive = b
             f == [b \in B |-> Seat(Q(b))]
  <1>1. \A b \in B : Q(b) \in Runners \ {r} /\ Making(Q(b)) /\ run[Q(b)].archive = b
    OBVIOUS
  <1>2. \A q \in Runners : Making(q) => Seat(q) \in N
    <2> SUFFICES ASSUME NEW q \in Runners, Making(q) PROVE Seat(q) \in Seats(site)
      OBVIOUS
    <2>1. q \in site.runners
      BY DEF KInv, Working, Making
    <2> QED BY <2>1, SchedulerAssumption DEF Seats, Seat, Runners
  <1> HIDE DEF Q
  <1>3. \A b \in B : f[b] \in N \ {Seat(r)}
    BY <1>1, <1>2, MakersApart
  <1>4. ASSUME NEW b \in B, NEW c \in B, f[b] = f[c] PROVE b = c
    <2>1. Q(b) = Q(c)
      BY <1>1, <1>4, MakersApart
    <2> QED BY <1>1, <2>1
  <1>5. f \in Injection(B, N \ {Seat(r)})
    BY <1>3, <1>4 DEF Injection, IsInjective
  <1>6. IsFiniteSet(N) /\ Cardinality(N) \in Nat
    BY SeatsFinite DEF Typed
  <1>7. /\ IsFiniteSet(N \ {Seat(r)})
        /\ Cardinality(N \ {Seat(r)}) = Cardinality(N) - 1
    BY <1>2, <1>6, FS_RemoveElement
  <1>8. IsFiniteSet(B) /\ Cardinality(B) <= Cardinality(N \ {Seat(r)})
    BY <1>5, <1>7, FS_Injection
  <1>9. Cardinality(B) \in Nat
    BY <1>8, FS_CardinalityType
  <1> QED BY <1>6, <1>7, <1>8, <1>9

\* A retention that covers the seats keeps what is reported.
LEMMA RetentionKeeps ==
  ASSUME RetentionCovers, Typed, KInv, NEW n \in Nat, n # 0, n >= Cardinality(Seats(site)),
         NEW x \in Nat, Kept(x)
  PROVE  \E a \in Range(Newest(dir, n)) : a >= x
  <1> DEFINE L == Len(dir)
             T == {i \in 1 .. L : dir[i] >= x}
  <1>1. L \in Nat /\ DOMAIN dir = 1 .. L /\ \A i \in 1 .. L : dir[i] \in Nat
    BY DEF KInv, Disk
  <1>2. T \subseteq Nat /\ T # {} /\ \A t \in T : t <= L
    BY <1>1 DEF Kept, Archived, Range
  <1>3. PICK i \in T : \A t \in T : t <= i
    BY <1>1, <1>2, Greatest
  <1> DEFINE m == dir[i]
             f == [j \in i + 1 .. L |-> dir[j]]
  <1>4. i \in 1 .. L /\ m \in Nat /\ m >= x /\ m \in Archived
    BY <1>1 DEF Archived, Range
  <1>5. \A j \in i + 1 .. L : j \in 1 .. L /\ ~(dir[j] >= x) /\ dir[j] \in 0 .. m - 1
    BY <1>1, <1>3, <1>4
  <1> HIDE DEF T, L, m
  <1>6. \A j \in i + 1 .. L : dir[j] \in Older(m)
    <2> SUFFICES ASSUME NEW j \in i + 1 .. L PROVE dir[j] \in Older(m)
      OBVIOUS
    <2>1. i \in DOMAIN dir /\ j \in DOMAIN dir /\ i < j /\ dir[i] = m
      BY <1>1, <1>4, <1>5 DEF m
    <2>2. Behind(dir, m, dir[j])
      BY <2>1 DEF Behind
    <2> QED BY <1>5, <2>2 DEF Older
  <1>7. f \in Injection(i + 1 .. L, Older(m))
    <2>1. \A j, k \in i + 1 .. L : dir[j] = dir[k] => j = k
      BY <1>1, <1>5 DEF KInv, Disk, Distinct
    <2> QED BY <1>6, <2>1 DEF Injection, IsInjective
  <1>8. IsFiniteSet(Older(m)) /\ Cardinality(Older(m)) \in Nat
    BY <1>4, OlderFinite
  <1>9. Cardinality(i + 1 .. L) <= Cardinality(Older(m))
    BY <1>7, <1>8, FS_Injection
  <1>10. Cardinality(i + 1 .. L) = L - i
    <2>1. i + 1 \in Int /\ L \in Int /\ (IF i + 1 > L THEN 0 ELSE L - (i + 1) + 1) = L - i
      BY <1>1, <1>4
    <2> QED BY <2>1, FS_Interval
  <1>11. Cardinality(Older(m)) < Cardinality(Seats(site)) /\ Cardinality(Seats(site)) \in Nat
    BY <1>4, SeatsFinite DEF KInv, FewOlder, Typed
  <1>12. L - i < n
    BY <1>1, <1>4, <1>8, <1>9, <1>10, <1>11
  <1>13. m \in Range(Newest(dir, n))
    <2>1. dir \in Seq(Nat) /\ Distinct(dir) /\ i \in DOMAIN dir /\ Len(dir) - i < n
      BY <1>1, <1>4, <1>12 DEF KInv, Disk, L
    <2> QED BY <2>1, Retained DEF m
  <1> QED BY <1>4, <1>13

-----------------------------------------------------------------------------
(* The steps.                                                              *)

\* What a step of runner r does to what the runs are making.
Carries(r) ==
  /\ Moves(r) /\ site' = site
  /\ started' \in Nat /\ started' >= started
  /\ row'.keep = row.keep
  /\ run'[r].pc # "idle" => r \in site.runners \/ run[r].pc # "idle"
  /\ Making(r)' =>
       \/ Making(r) /\ run'[r].archive = run[r].archive /\ run'[r].keep = run[r].keep
       \/ run'[r].archive = started + 1 /\ started' = started + 1 /\ run'[r].keep = row.keep

\* The archive of run r is put into the directory.
Puts(r) ==
  /\ Making(r) /\ Making(r)'
  /\ dir' = Append(Without(dir, run[r].archive), run[r].archive)

\* The directory is pruned by run r.
Prunes(r) == run[r].pc = "written" /\ dir' = Newest(dir, run[r].keep)

LEMMA GotoCarries ==
  ASSUME Typed, NEW r \in Runners, NEW pc \in PCs, Goto(r, pc), Making(r),
         UNCHANGED <<site, row, started>>
  PROVE  Carries(r) /\ run'[r].pc = pc /\ run'[r].archive = run[r].archive
  <1>1. Moves(r) /\ run'[r] = [run[r] EXCEPT !.pc = pc]
    BY GotoMoves
  <1>2. run[r] \in Runs
    BY DEF Typed
  <1>3. run'[r].pc = pc /\ run'[r].archive = run[r].archive /\ run'[r].keep = run[r].keep
    BY <1>1, <1>2 DEF Runs
  <1> QED BY <1>1, <1>3 DEF Carries, Typed, Making

\* What each runner's step does to the runs, the directory and the reported archive.
Effect(r) ==
  /\ Carries(r)
  /\ \/ dir' = dir /\ latest' = latest
     \/ Puts(r) /\ latest' = latest
     \/ Prunes(r) /\ latest' = latest
     \/ /\ dir' = dir /\ run[r].pc = "pruned"
        /\ latest' = IF run[r].archive > latest THEN run[r].archive ELSE latest
  /\ run'[r].pc \in {"written", "pruned"} =>
       \/ Puts(r) /\ run'[r].archive = run[r].archive
       \/ Prunes(r) /\ run'[r].archive = run[r].archive

LEMMA StepEffect ==
  ASSUME Typed, NEW r \in Runners,
         AskDue(r) \/ PressBackupNow(r) \/ Work(r) \/ Fail(r) \/ Crash(r)
  PROVE  Effect(r)
  <1> DEFINE stages == {"dump", "packing", "packed", "repacking", "written", "pruned", "failed"}
  <1>0. /\ stages \subseteq PCs /\ "start" \notin stages
        /\ "idle" \notin stages /\ "due" \notin stages /\ "unlock" \notin stages
    BY DEF PCs
  <1>1. CASE AskDue(r)
    <2>1. Asks(r)
      BY <1>1, SchedulerAsks
    <2> QED BY <1>1, <2>1
      DEF AskDue, Asks, Effect, Carries, Making, Typed, Files, Database, Counters
  <1>2. CASE PressBackupNow(r)
    <2>1. Presses(r)
      BY <1>2, AdminPresses
    <2> QED BY <1>2, <2>1
      DEF PressBackupNow, Presses, Effect, Carries, Making, Typed, Files, Database
  <1>3. CASE TryLock(r)
    <2>1. Tries(r)
      BY <1>3, SchedulerTries
    <2> QED BY <1>3, <2>1
      DEF TryLock, Tries, Effect, Carries, Making, Typed, Files, Database, Counters
  <1>4. CASE Unlock(r) \/ Crash(r)
    <2>1. LetsGo(r) /\ dir' = dir /\ latest' = latest
      BY <1>4, RunLetsGo DEF Unlock, Crash, Files, Database
    <2> QED BY <2>1 DEF LetsGo, Effect, Carries, Making, Typed
  <1>5. CASE ReadSettings(r)
    <2>1. GoesOn(r)
      BY <1>5, RunGoesOn
    <2>2. /\ run'[r].pc = "dump" /\ run'[r].keep = row.keep /\ run'[r].archive = started + 1
          /\ run[r].pc = "start" /\ started' = started + 1 /\ row' = row /\ site' = site
          /\ dir' = dir /\ latest' = latest
      BY <1>5 DEF ReadSettings, Typed, Runs, At, Files, Database
    <2> QED BY <2>1, <2>2 DEF GoesOn, Effect, Carries, Typed
  <1>6. CASE Pack(r)
    <2>1. Making(r) /\ Goto(r, "packing") /\ UNCHANGED <<site, row, started, dir, latest>>
      BY <1>6 DEF Pack, At, Making, Database, Counters
    <2> QED BY <1>0, <2>1, GotoCarries DEF Effect
  <1>7. ASSUME NEW pc \in stages, NEW next \in stages, Rename(r, pc, next), next # "pruned"
        PROVE  Effect(r)
    <2>1. Making(r) /\ UNCHANGED <<site, row, started, latest>> /\ next \in PCs /\ "failed" \in PCs
      BY <1>0, <1>7 DEF Rename, At, Making, Database, Counters
    <2>2. CASE run[r].archive \in tmp
      <3>1. dir' = Append(Without(dir, run[r].archive), run[r].archive) /\ Goto(r, next)
        BY <1>7, <2>2 DEF Rename
      <3>2. Carries(r) /\ run'[r].pc = next /\ run'[r].archive = run[r].archive
        BY <2>1, <3>1, GotoCarries
      <3>3. Puts(r)
        BY <1>7, <2>1, <3>1, <3>2 DEF Puts, Making
      <3> QED BY <2>1, <3>2, <3>3 DEF Effect
    <2>3. CASE run[r].archive \notin tmp
      <3>1. dir' = dir /\ Goto(r, "failed")
        BY <1>7, <2>3 DEF Rename, Files
      <3> QED BY <2>1, <3>1, GotoCarries DEF Effect
    <2> QED BY <2>2, <2>3
  <1>8. CASE Publish(r) \/ Republish(r)
    BY <1>7, <1>8 DEF Publish, Republish
  <1>9. CASE Repack(r)
    <2>1. /\ Making(r) /\ UNCHANGED <<site, row, started, dir, latest>>
          /\ Goto(r, "repacking") \/ Goto(r, "failed")
      BY <1>9 DEF Repack, At, Making, Database, Counters
    <2> QED BY <1>0, <2>1, GotoCarries DEF Effect
  <1>10. CASE Prune(r)
    <2>1. /\ Making(r) /\ Goto(r, "pruned") /\ UNCHANGED <<site, row, started, latest>>
          /\ Prunes(r)
      BY <1>10 DEF Prune, Prunes, At, Making, Database, Counters
    <2>2. Carries(r) /\ run'[r].archive = run[r].archive
      BY <1>0, <2>1, GotoCarries
    <2> QED BY <2>1, <2>2 DEF Effect
  <1>11. CASE Record(r) \/ RecordFailure(r)
    <2>1. GoesOn(r) /\ Over(r) /\ started' = started
      BY <1>11, RunGoesOn DEF Record, RecordFailure, Counters
    <2>2. /\ Moves(r) /\ run'[r].pc \in {"idle", "unlock"} /\ site' = site
          /\ run[r].pc # "idle"
      BY <2>1, OverMoves DEF GoesOn, Midway
    <2>3. row'.keep = row.keep
      BY <2>1 DEF GoesOn, Typed, SettingsRow
    <2>4. Carries(r)
      BY <2>1, <2>2, <2>3 DEF Carries, Making, Typed
    <2>5. /\ dir' = dir
          /\ \/ latest' = latest
             \/ /\ run[r].pc = "pruned"
                /\ latest' = IF run[r].archive > latest THEN run[r].archive ELSE latest
      BY <1>11 DEF Record, RecordFailure, Files, Database, At
    <2> QED BY <2>2, <2>4, <2>5 DEF Effect
  <1>12. CASE Fail(r)
    <2>1. Making(r) /\ Goto(r, "failed") /\ UNCHANGED <<site, row, started, dir, latest>>
      BY <1>12 DEF Fail, Fault, Making, Database, Files
    <2> QED BY <1>0, <2>1, GotoCarries DEF Effect
  <1> QED BY <1>1, <1>2, <1>3, <1>4, <1>5, <1>6, <1>8, <1>9, <1>10, <1>11, <1>12 DEF Work

LEMMA InitKInv == RetentionCovers /\ Init => KInv
  <1> SUFFICES ASSUME RetentionCovers, Init PROVE KInv
    OBVIOUS
  <1>1. /\ site \in Deployments /\ dir = <<>> /\ latest = 0 /\ started = 0 /\ row = site.row
        /\ \A r \in Runners : run[r].pc = "idle"
    BY SiteTyped DEF Init
  <1>2. Archived = {}
    BY <1>1 DEF Archived, Range
  <1>3. Disk
    BY <1>1, <1>2 DEF Disk, Distinct
  <1>4. row.keep >= Cardinality(Seats(site))
    BY <1>1 DEF RetentionCovers
  <1> QED BY <1>1, <1>2, <1>3, <1>4 DEF KInv, Working, Making, FewOlder, ReportedIsKept

LEMMA DirPut ==
  ASSUME dir \in Seq(Nat), Distinct(dir), NEW r \in Runners, run[r].archive \in Nat, Puts(r)
  PROVE  /\ dir' \in Seq(Nat) /\ Distinct(dir')
         /\ Range(dir') = Range(dir) \cup {run[r].archive}
         /\ \A m, b :
              Behind(dir', m, b) => m # run[r].archive /\ (b = run[r].archive \/ Behind(dir, m, b))
  <1>1. PICK a \in Nat : a = run[r].archive
    OBVIOUS
  <1>2. dir' = Append(Without(dir, a), a)
    BY <1>1 DEF Puts
  <1>3. \A e : e = Append(Without(dir, a), a) =>
          /\ e \in Seq(Nat) /\ Distinct(e) /\ Range(e) = Range(dir) \cup {a}
          /\ \A m, b : Behind(e, m, b) => m # a /\ (b = a \/ Behind(dir, m, b))
    BY PutLast
  <1> QED BY <1>1, <1>2, <1>3

\* The directory as a step leaves it: each archive it has is an older one, with no
\* archive behind it that was not there or to come before, or the one put last.
LEMMA DiskStays ==
  ASSUME RetentionCovers, Typed, LInv, KInv, NEW r \in Runners, Effect(r)
  PROVE  Disk' /\ FewOlder'
  <1> DEFINE a == run[r].archive
  <1>1. /\ dir \in Seq(Nat) /\ Distinct(dir) /\ \A b \in Archived : b <= started
        /\ started \in Nat /\ started' \in Nat /\ started' >= started /\ site' = site
        /\ Moves(r) /\ run[r].keep \in Nat \ {0} /\ a \in Nat
    BY DEF KInv, Disk, Typed, Effect, Carries, Runs
  <1>2. Archived \subseteq Nat
    BY <1>1 DEF Archived, Range
  <1>3. ASSUME NEW q \in Runners, Making(q)', NEW m \in Archived, run'[q].archive < m
        PROVE  Making(q) /\ run'[q].archive = run[q].archive
    <2>1. CASE q = r
      BY <1>1, <1>2, <1>3, <2>1 DEF Effect, Carries
    <2>2. CASE q # r
      BY <1>1, <1>3, <2>2 DEF Moves, Making
    <2> QED BY <2>1, <2>2
  <1>4. ASSUME NEW m \in Archived, \A b : Behind(dir', m, b) /\ b < m => b \in Older(m)
        PROVE  Cardinality(Older(m)') < Cardinality(Seats(site))
    <2>1. m \in Nat
      BY <1>2
    <2>2. Older(m)' \subseteq Older(m)
      <3> SUFFICES ASSUME NEW b \in 0 .. m - 1,
                          \/ Behind(dir', m, b)
                          \/ \E q \in Runners : Making(q)' /\ run'[q].archive = b
                   PROVE  b \in Older(m)
        BY DEF Older
      <3>1. b < m
        BY <2>1
      <3>2. CASE Behind(dir', m, b)
        BY <1>4, <3>1, <3>2
      <3>3. CASE \E q \in Runners : Making(q)' /\ run'[q].archive = b
        BY <1>3, <3>1, <3>3 DEF Older
      <3> QED BY <3>2, <3>3
    <2>3. IsFiniteSet(Older(m)) /\ Cardinality(Older(m)) \in Nat
      BY <2>1, OlderFinite
    <2>4. IsFiniteSet(Older(m)') /\ Cardinality(Older(m)') <= Cardinality(Older(m))
      BY <2>2, <2>3, FS_Subset
    <2>5. Cardinality(Older(m)') \in Nat
      BY <2>4, FS_CardinalityType
    <2>6. Cardinality(Older(m)) < Cardinality(Seats(site)) /\ Cardinality(Seats(site)) \in Nat
      BY SeatsFinite DEF KInv, FewOlder, Typed
    <2> QED BY <2>3, <2>4, <2>5, <2>6
  <1>5. CASE /\ dir' \in Seq(Nat) /\ Distinct(dir') /\ Range(dir') \subseteq Range(dir)
             /\ \A m, b : Behind(dir', m, b) => Behind(dir, m, b)
    <2>1. Disk'
      BY <1>1, <1>2, <1>5 DEF Disk, Archived
    <2>2. ASSUME NEW m \in Archived, NEW b, Behind(dir', m, b), b < m PROVE b \in Older(m)
      <3>1. Behind(dir, m, b)
        BY <1>5, <2>2
      <3>2. b \in Nat /\ m \in Nat
        BY <1>1, <1>2, <3>1 DEF Behind
      <3> QED BY <2>2, <3>1, <3>2 DEF Older
    <2>3. \A m \in Archived : Cardinality(Older(m)') < Cardinality(Seats(site))
      BY <1>4, <2>2
    <2>4. FewOlder'
      BY <1>1, <1>5, <2>3 DEF FewOlder, Archived
    <2> QED BY <2>1, <2>4
  <1>6. CASE dir' = dir
    BY <1>1, <1>5, <1>6
  <1>7. CASE Prunes(r)
    <2>1. run[r].keep \in Nat /\ run[r].keep # 0 /\ dir' = Newest(dir, run[r].keep)
      BY <1>1, <1>7 DEF Prunes
    <2> QED BY <1>1, <1>5, <2>1, Retained
  <1>8. CASE Puts(r)
    <2>1. Making(r) /\ a <= started
      BY <1>8 DEF Puts, KInv, Working
    <2>2. /\ dir' \in Seq(Nat) /\ Distinct(dir') /\ Range(dir') = Range(dir) \cup {a}
          /\ \A m, b : Behind(dir', m, b) => m # a /\ (b = a \/ Behind(dir, m, b))
      BY <1>1, <1>8, DirPut
    <2>3. Disk'
      BY <1>1, <1>2, <2>1, <2>2 DEF Disk, Archived
    <2>4. ASSUME NEW m \in Archived, NEW b, Behind(dir', m, b), b < m PROVE b \in Older(m)
      <3>1. b = a \/ Behind(dir, m, b)
        BY <2>2, <2>4
      <3>2. b \in Nat /\ m \in Nat
        BY <1>1, <1>2, <3>1 DEF Behind
      <3> QED BY <2>1, <2>4, <3>1, <3>2 DEF Older
    <2>5. \A m \in Archived : Cardinality(Older(m)') < Cardinality(Seats(site))
      BY <1>4, <2>4
    <2> PICK c \in Nat : c = a
      BY <1>1
    <2>6. Cardinality(Older(c)') < Cardinality(Seats(site))
      <3>1. \A b \in Older(c)' : \E q \in Runners \ {r} : Making(q) /\ run[q].archive = b
        <4>1. ASSUME NEW b \in 0 .. c - 1, NEW q \in Runners, Making(q)', run'[q].archive = b
              PROVE  q # r /\ Making(q) /\ run[q].archive = b
          <5>1. CASE q = r
            BY <1>1, <2>1, <4>1, <5>1 DEF Effect, Carries
          <5>2. CASE q # r
            BY <1>1, <4>1, <5>2 DEF Moves, Making
          <5> QED BY <5>1, <5>2
        <4>2. \A b : ~Behind(dir', c, b)
          BY <2>2
        <4> QED BY <4>1, <4>2 DEF Older
      <3> QED BY <2>1, <3>1, OthersFew
    <2>7. FewOlder'
      <3>1. \A m \in Range(dir') : Cardinality(Older(m)') < Cardinality(Seats(site))
        BY <2>2, <2>5, <2>6 DEF Archived
      <3> QED BY <1>1, <3>1 DEF FewOlder, Archived
    <2> QED BY <2>3, <2>7
  <1> QED BY <1>6, <1>7, <1>8 DEF Effect

LEMMA KeptStays ==
  ASSUME RetentionCovers, Typed, KInv, NEW r \in Runners, Effect(r), NEW x \in Nat, Kept(x)
  PROVE  Kept(x)'
  <1>1. CASE dir' = dir
    BY <1>1 DEF Kept, Archived
  <1>2. CASE Puts(r)
    <2>1. dir \in Seq(Nat) /\ Distinct(dir) /\ run[r].archive \in Nat
      BY DEF KInv, Disk, Typed, Runs
    <2>2. Range(dir) \subseteq Range(dir')
      BY <1>2, <2>1, DirPut
    <2> QED BY <2>2 DEF Kept, Archived
  <1>3. CASE Prunes(r)
    <2>1. Making(r)
      BY <1>3 DEF Prunes, Making
    <2>2. run[r].keep \in Nat \ {0} /\ run[r].keep >= Cardinality(Seats(site))
      BY <2>1 DEF Typed, Runs, KInv, Working
    <2>3. \E a \in Range(Newest(dir, run[r].keep)) : a >= x
      BY <2>2, RetentionKeeps
    <2> QED BY <1>3, <2>3 DEF Kept, Archived, Prunes
  <1> QED BY <1>1, <1>2, <1>3 DEF Effect

LEMMA NextKInv ==
  ASSUME RetentionCovers, Typed, LInv, KInv, [Next]_vars
  PROVE  KInv'
  <1>1. CASE Tick \/ ChangeSettings \/ UNCHANGED vars
    <2>1. UNCHANGED <<site, dir, latest, started, run>>
      BY <1>1 DEF Tick, ChangeSettings, vars, Files, Database, Counters
    <2>2. row'.keep >= Cardinality(Seats(site))
      <3>1. CASE row' = row
        BY <3>1 DEF KInv
      <3>2. CASE ChangeSettings
        <4>1. PICK new \in site.edits : row' = [new EXCEPT !.last = row.last]
          BY <3>2 DEF ChangeSettings
        <4>2. new \in SettingsRow
          BY <4>1, SiteTyped DEF Typed
        <4>3. row'.keep = new.keep
          BY <4>1, <4>2 DEF SettingsRow
        <4> QED BY <4>1, <4>3 DEF RetentionCovers, Typed
      <3> QED BY <1>1, <3>1, <3>2 DEF Tick, vars, Database
    <2> QED BY <2>1, <2>2
      DEF KInv, Disk, Archived, Working, Making, Kept, FewOlder, Older, ReportedIsKept
  <1>2. ASSUME NEW r \in Runners,
               AskDue(r) \/ PressBackupNow(r) \/ Work(r) \/ Fail(r) \/ Crash(r)
        PROVE  KInv'
    <2>1. Effect(r)
      BY <1>2, StepEffect
    <2>2. Disk' /\ FewOlder'
      BY <2>1, DiskStays
    <2>3. /\ site' = site /\ row'.keep = row.keep /\ Moves(r)
          /\ started \in Nat /\ started' \in Nat /\ started' >= started
          /\ \A q \in Runners : run[q] \in Runs /\ run'[q] \in Runs
      BY <2>1 DEF Effect, Carries, Typed, Moves
    <2>4. ASSUME NEW q \in Runners, q # r PROVE Working(q)'
      <3>1. run'[q] = run[q] /\ Working(q) /\ run[q].archive \in Nat
        BY <2>3, <2>4 DEF Moves, KInv, Runs
      <3>2. PICK x \in Nat : x = run[q].archive
        BY <3>1
      <3>3. run'[q].pc \in {"written", "pruned"} => Kept(x)'
        BY <2>1, <3>1, <3>2, KeptStays DEF Working
      <3> QED BY <2>3, <3>1, <3>2, <3>3 DEF Working, Making, Kept
    <2>5. Working(r)'
      <3>1. run'[r].pc # "idle" => r \in site'.runners
        BY <2>1, <2>3 DEF Effect, Carries, KInv, Working
      <3>2. Making(r)' => run'[r].keep >= Cardinality(Seats(site)) /\ run'[r].archive <= started'
        <4> SUFFICES ASSUME Making(r)'
                     PROVE  /\ run'[r].keep >= Cardinality(Seats(site))
                            /\ run'[r].archive <= started'
          OBVIOUS
        <4>1. CASE /\ Making(r) /\ run'[r].archive = run[r].archive
                   /\ run'[r].keep = run[r].keep
          <5>1. run[r].archive \in Nat /\ run[r].archive <= started
            BY <2>3, <4>1 DEF KInv, Working, Runs
          <5> QED BY <2>3, <4>1, <5>1 DEF KInv, Working
        <4>2. CASE /\ run'[r].archive = started + 1 /\ started' = started + 1
                   /\ run'[r].keep = row.keep
          BY <2>3, <4>2 DEF KInv
        <4> QED BY <2>1, <4>1, <4>2 DEF Effect, Carries
      <3>3. ASSUME run'[r].pc \in {"written", "pruned"}
            PROVE  \E a \in Range(dir') : a >= run'[r].archive
        <4>1. CASE Puts(r) /\ run'[r].archive = run[r].archive
          <5>1. dir \in Seq(Nat) /\ Distinct(dir) /\ run[r].archive \in Nat
            BY <2>3 DEF KInv, Disk, Runs
          <5>2. run[r].archive \in Range(dir')
            BY <4>1, <5>1, DirPut
          <5> QED BY <4>1, <5>1, <5>2
        <4>2. CASE Prunes(r) /\ run'[r].archive = run[r].archive
          <5>1. run[r].archive \in Nat /\ Kept(run[r].archive)
            BY <2>3, <4>2 DEF Runs, Prunes, KInv, Working
          <5>2. PICK x \in Nat : x = run[r].archive
            BY <5>1
          <5>3. Kept(x)'
            BY <2>1, <5>1, <5>2, KeptStays
          <5> QED BY <4>2, <5>2, <5>3 DEF Kept, Archived
        <4> QED BY <2>1, <3>3, <4>1, <4>2 DEF Effect
      <3> QED BY <2>3, <3>1, <3>2, <3>3 DEF Working, Kept, Archived
    <2>6. latest' \in Nat /\ ReportedIsKept'
      <3>1. latest \in Nat /\ (latest # 0 => Kept(latest)) /\ run[r].archive \in Nat
        BY <2>3 DEF KInv, ReportedIsKept, Kept, Runs
      <3>2. ASSUME NEW x \in Nat, Kept(x) PROVE \E a \in Range(dir') : a >= x
        BY <2>1, <3>2, KeptStays DEF Kept, Archived
      <3>3. CASE latest' = latest
        BY <3>1, <3>2, <3>3 DEF ReportedIsKept, Archived
      <3>4. CASE latest' # latest
        <4>1. latest' = run[r].archive /\ run[r].pc = "pruned"
          BY <2>1, <3>4 DEF Effect
        <4>2. Kept(run[r].archive)
          BY <4>1 DEF KInv, Working
        <4> QED BY <3>1, <3>2, <4>1, <4>2 DEF ReportedIsKept, Archived
      <3> QED BY <3>3, <3>4
    <2>7. \A q \in Runners : Working(q)'
      BY <2>4, <2>5
    <2>8. row'.keep >= Cardinality(Seats(site'))
      BY <2>3 DEF KInv
    <2> QED BY <2>2, <2>6, <2>7, <2>8 DEF KInv
  <1> QED BY <1>1, <1>2 DEF Next

\* A backup that was reported stays restorable: as long as every retention that may be
\* set covers the runs that may overlap, the directory has it, or one that began later,
\* whatever fails, crashes, overlaps or is pruned.
THEOREM ReportedStays ==
  ASSUME RetentionCovers
  PROVE  Spec => []ReportedIsKept
  <1>1. Init => Typed /\ LInv /\ KInv
    BY InitTyped, InitLInv, InitKInv
  <1>2. Typed /\ LInv /\ KInv /\ [Next]_vars => Typed' /\ LInv' /\ KInv'
    BY NextTyped, NextLInv, NextKInv
  <1>3. KInv => ReportedIsKept
    BY DEF KInv
  <1> QED BY <1>1, <1>2, <1>3, PTL DEF Spec

=============================================================================
