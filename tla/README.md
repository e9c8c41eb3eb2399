# Verification of the Rotbe Land weekly-plan bot

TLA+ models of the program in `src/` (a Telegram bot, `src/app`), TLC
configurations that check them on small instances, and TLAPS proofs of the
theorems about them. Line references are to `src/`.

## 1. The system

One Python process (aiogram 3 long polling, SQLAlchemy async, PostgreSQL)
serves advisors who write weekly study plans for their students, students who
read them, and admins. aiogram runs every update as its own asyncio task; the
middlewares (`app/bot/main.py:51-67`) are, from the outside, the error shield,
the throttle, one database session per update that commits when the handler
returns and rolls back when it raises, and the resolution of the user. There is
no application lock, no version column and no `SELECT ... FOR UPDATE` in the
repositories: the concurrency control is PostgreSQL's READ COMMITTED and its row
locks.

| Component | State | Operations | What is hard | What makes it correct |
|---|---|---|---|---|
| Plan lifecycle (`repositories.py` PlanRepository, `plan_manager.py`, `plan_service.py`, `delivery.py`, handlers `advisor.py`, `student.py`) | a `weekly_plans` row, its `plan_files` rows, PNG/PDF files, Telegram file_ids | edit, generate, regenerate, re-send, send, delete, clean up | snapshots read before long awaits (render, upload), partial UPDATEs, row locks held over uploads, a crash between file and row | a published plan points at a recorded artefact; history is kept; version numbers mean one content; a handler ends |
| Plan creation and content (`create_plan`, `set_slot`, `clear_day`, `copy_day`, `copy_previous_week`, `set_assignments`) | days, activities, assignments | open or create, edit, copy | check then insert without a unique key; copies that read rows being edited | at most one plan per student and week start; a copy is the source |
| Accounts (`plan_manager.py` invites and requests, `UserMiddleware`, `repositories.py` UserRepository, AccessRequestRepository) | users, roles, telegram ids, links, invite tokens, access requests | invite, claim, revoke, link, unlink, approve, reject, add or edit an advisor, promote, suspend | duplicate merge on claim, unique telegram id, token read before use, ADMIN_IDS promotion of whatever row on every update, a row that changes hands | no flow lowers an account's role; one account per telegram id; staff accounts change hands by an admin's edit only; a connected student has no invite |
| Deletion (`deletion.py`) | the same rows and the files | delete student, advisor, plan; transfer; unlink | one transaction over several tables, files unlinked before the commit | no row refers to one that is gone; files go only with their plans; a transfer keeps what it selected |
| Render queue (`render_queue.py`) and shutdown (`main.py:150-174`) | semaphore, inflight count | generate, preview, drain | queued renders are not in flight; drain polls with a timeout | a shutdown ends, whatever the renders do |
| Throttle (`ThrottleMiddleware`) | token bucket and cooldown per user | one update | refill, cap, cooldown recorded before the bucket is asked | a burst and a rate, never more; heavy runs a cooldown apart |
| Backups (`backup.py`) | archives, `backup_logs`, settings, advisory lock | create, deliver, prune, scheduler tick, manual run | several replicas, check then lock, shared temporary directory | one archive per slot; retention keeps what it promises |
| Restore (`restore.py`) | the database, the in-memory restore flag | inspect, apply, re-create the pool | updates in flight during TRUNCATE and reload; failure half-way | a restore that starts alone meets no update but refused taps, behind a dump of every plan; what is loaded was confirmed; the flag is always lowered |
| Schema bootstrap (`bootstrap.py`, `session.py`) | the schema version | wait, migrate under an advisory lock, verify, repair | several replicas starting together | no update is accepted before every table exists |
| Calendar and domain (`domain/`) | none | Jalali weeks, ranges, hashes | boundaries | weekday from the real date, ranges within limits |
| Rendering (`rendering/`) | none | layout, fit, PNG, PDF | pixels | not modelled |
| Dialogues (`states.py`, the keyboards' callback data, the handlers of `advisor.py`, `admin.py`, `common.py`) | FSM state and data per user, in memory or Redis | buttons, texts, wizard steps | buttons of old messages, a text that waits for its handler while another tap moves the wizard, rights that end between prompt and text, restarts | a state has the data its handler indexes; rights hold when something is written; a text goes where the screen said |
| Tools, configuration, health, logging, migrations | - | - | - | not modelled |

## 2. Plan of the project

Most important behaviour first.

1. `PlanLifecycle`, with the abstract `PlanVersions`, and its regimes `PlanRegimes`, with
   `PlanLifecycleProofs` about both. Done.
2. `Accounts`, with the abstract `Identities` and `AccountsProofs`. Done.
3. `Roster`, with `RosterProofs`. Done.
4. `BackupScheduler` over `Schedule` (the due check as a function of time), with
   `BackupProofs`. Done.
5. `BotProcess` over `SchemaBootstrap`: boot, updates, renders, restore, shutdown,
   crash and redeploy of the one process they share, with `BotProcessProofs`. Done.
6. `Dialogue`: the handlers as tables over the FSM, with `DialogueProofs`. Done.
7. `Throttle`, with `ThrottleProofs`. Done.
8. `PlanContent`: the statements of the edits of a plan, with `PlanContentProofs`. Done.

What would come next: the delivery of backups and its recipients; the updates that
Telegram keeps while the bot is down.

Which module is composed of which: `BackupScheduler` uses `Schedule`, `BotProcess`
applies `SchemaBootstrap` to its database, `PlanLifecycle` and `Accounts` are shown
to implement `PlanVersions` and `Identities`, and `PlanRegimes` and `AccountsRegimes`
put two ways to run one component (handlers that overlap, or one at a time) behind a
variable that is fixed at the start: a run checks both, and a theorem names the one it
is about. MCDialogue does the same for three parts that meet an update one after the other:
the throttle, the dialogue, and the edit it ends in.

## 3. PlanLifecycle

One plan. `row` is the committed `weekly_plans` row together with its content,
`files` its `plan_files` rows, `disk` the files under STORAGE_ROOT, `lock` the
owner of the uncommitted UPDATE of the row, and `sess[s]` what handler `s` is
doing: the row as it loaded it (`snap`, SQLAlchemy's committed state), the row
object it changes (`obj`), whether it ran `mark_generated`, and the paths it
collected before unlinking.

A handler is a sequence of steps between its awaits:

| Handler | Steps |
|---|---|
| edit (`set_slot`, `clear_day`, `copy_day`, `copy_previous_week`, `set_assignments`) | LoadRow, LoadDays, BumpVersion when published, CommitEdit |
| generate, regenerate | LoadRow, LoadDays, UseCache or RenderPng and RenderPdf, MarkGenerated, SendPhoto, SendDocument, Commit |
| png, pdf, my_last | LoadRow, LoadDays, UseArtifacts or a render and MarkGenerated, SendPhoto / SendDocument or NothingToSend, Commit |
| send | the same, both uploads, MarkSent, Commit |
| delete | LoadRow, LoadDays, UnlinkFiles, CommitDelete |
| cleanup | ScanRows, UnlinkOrphans |

Any of them may Rollback (an exception), and TelegramRefuses at any upload.
`Crash` ends every handler; with "redeploy" it also empties the disk. `Written`
is the UPDATE: only the columns whose value differs from the snapshot are
written, which is why two handlers can leave a row that neither of them had in
memory. LoadRow and LoadDays are two steps because `PlanRepository.get` selects
the row and then its relationships, under READ COMMITTED.

Abstractions: the content of a plan is one of a few values; an artefact is the
pair of the version and the content it shows (its file name carries both); a
file_id is the artefact whose upload returned it; `Printable` are the contents
that `WeeklyPlanService.validate` accepts.

An instance with one session is one handler at a time, which is what the
handlers' code takes for granted; the README's promises about versions are
checked there. `PlanVersions` is those promises, with no row, session, file or
message.

Fairness (`FairSpec`): a handler whose await is over is resumed, renders and
uploads end (a refusal or a time-out is an end), hence weak fairness for the
steps that wait for nobody; PostgreSQL queues the waiters for a row lock, hence
strong fairness for the steps that take it. Crashes, exceptions other than the
inevitable ones and new updates are not fair.

## 4. Accounts

`users` are the committed rows (role, telegram id, active, invite token), one per
id of the sequence; `fresh` the ids not given yet; `requests` the status of each
person's access request; `tokens` the invite tokens and whether they are valid.
A session has the actor's telegram id and row, the handler it runs, and
SQLAlchemy's identity map: `seen` is each row as it was first read, `now` as the
handler has changed it.

| Handler | Actions |
|---|---|
| any update (`UserMiddleware`) | EnterKnown (promotes whoever ADMIN_IDS lists), EnterNewAdmin, EnterUnknown, RecordVisit |
| `/start <token>` | OpenInvite, BindInvite (the duplicate of the person is folded away) |
| create_student, new_invite, revoke_invite, link_telegram_id, unlink_telegram | CreateStudent, NewInvite, RevokeInvite, LinkTelegram, UnlinkTelegram |
| approve_request, reject_request, create_advisor_by_telegram_id | Approve, Reject, AddAdvisor |
| admin_edit_advisor_input (`admin.py:422`) | EditAdvisor |
| do_suspend, do_suspend_student | ToggleActive |
| delete_student, delete_advisor | DeleteUser |
| a refusal; the end | EarlyReturn; Commit, Rollback |

`Commit` writes the columns that differ from what the session first read, on the
row as it is then (`Flushed`); it is refused by the unique index of
`users.telegram_id`, by an UPDATE of a row that is gone, and by the audit row of
an actor who is gone. `Expire` is the end of a token's 14 days.

Rows created for students, advisors and admins differ in what may happen to them, and
which number of the sequence a row gets says nothing; so `Made` says beforehand with
which role each id will be created. A row's role is that or ADMIN: the promotion is of
whatever row somebody in ADMIN_IDS has, a student's too. Such a row keeps its links, and
with them the handlers that reach a student by a link without asking for the role again
(`Target`): a former student's ADMIN row may be linked, re-invited and, by its own
advisor, deleted; unlink_telegram and the administrator's deletion do ask.

EditAdvisor writes a telegram id into the row whose number an earlier tap left in the
dialogue. By its button that is an advisor's or an admin's (`edit_advisor`). When the
admin taps "edit" of a student and of an advisor in one moment, one handler may set the
state and the other the number, and the text that follows edits the student's row:
`edit_crossed`, which only handlers that overlap can bring about.

Abstractions: names and grades are left out, and so is which advisor has which
student (that is Roster), so a staff member may act on any student. Flush and
commit are one step. A telegram id that is typed in may be anybody's, those of ADMIN_IDS
included (`TypedIds`); the bot starts with any rows that have unique telegram ids, no
invites and roles that agree with `Made` (`Startable`), students' and advisors' rows of
people in ADMIN_IDS included. No request is open at the start.

`Identities` is what `src/README.md:417` promises about roles (no path in the product
does admin → advisor, admin → student or advisor → student), as a promise about
accounts: the role of one only goes up, and to ADMIN only through an update of a holder
in ADMIN_IDS; an advisor's account is opened for a person, and goes to another person or
ends, but is never left to nobody; an admin's is opened for somebody in ADMIN_IDS and never
ends; nobody has two. It has no row, token, session or request; `ImplementsIdentities`
maps it to the role and the telegram id of each row. Of persons the promise does not
hold: section 11 says how one can come down.

## 5. Roster

`people` are the ids that have a users row, `links` the advisor_students rows,
`plans` the weekly_plans rows (whose they are, of which week, and whether they
have artefacts), `disk` the plans whose recorded artefacts are stored. A handler
is two steps: `Ask...` has its checks and its selects, the second is its commit;
other handlers commit in between. Every handler may also end in `Rollback`, or
in `FailAfterUnlink`: the files are unlinked after the flush and before the
commit.

| Handler | Ask | Commit |
|---|---|---|
| create_student, the student of approve_request | AskCreateStudent | CreateStudent |
| create_plan | AskCreatePlan | CreatePlan |
| generate (mark_generated) | AskGenerate | Generate |
| delete_plan | AskDeletePlan | DeletePlans |
| purge_older_than (command line) | AskPurge | DeletePlans |
| delete_student | AskDeleteStudent | DeleteStudent |
| delete_advisor | AskDeleteAdvisor | DetachAll without a target, TransferAll with one |
| transfer_student | AskTransfer | Transfer |
| detach_student | AskDetach | Detach |

The database's share: ON DELETE CASCADE from a user to links and plans
(`Without`, `Unlinked`), the unique pair of a link, foreign keys of what is
inserted and of the audit row, StaleDataError on an UPDATE of a row that is gone.
A DELETE of a row that is gone only warns. Left out: who is suspended and how a
role is obtained (Accounts), and artefacts of a rolled back generation, which no
row records.

`Ops` gives each session the handlers it may run: OnePlanPerWeek needs that
creations do not overlap, OneAdvisor that moves do not, FilesFollowPlans that
recordings and deletions do not. The instance of roster_overlap is the largest
division of the handlers into two sessions with that property, and the theorems
state it as assumptions (`OneCreator`, `OneHander`, `OneMover`).

## 6. BackupScheduler

`site` is the deployment (which runners there are, whether advisory locks can be
asked for, what an admin may set), `clock` the hour, `row` the bot_settings row,
`lock` the holder of LOCK_KEY_BACKUP, `dir` the archives of BACKUP_DIR in the
order of their mtime, `tmp` the archives with a temporary file there, `latest` the
archive of the latest OK row of backup_logs, and `run[r]` what a scheduler or an
admin's "backup now" is doing.

| Code | Actions |
|---|---|
| `tick`: is_due, in a session of its own | AskDue |
| `tick`: `backup_lock`, and its release | TryLock, Unlock |
| `admin_backup_now`, which takes no lock | PressBackupNow |
| `run`: the settings | ReadSettings |
| `create_backup`: the archive, renamed; rewritten with its checksums, renamed again | Pack, Publish, Repack, Republish |
| `run`: `prune_backups`, the record | Prune, Record |
| `run`: create_backup raised | RecordFailure, after Fail or a rename of a file that is gone |
| anything else raised, a cancelled task, the process ends | Crash |
| the setters of the panel | ChangeSettings |

`Schedule` has `IsDue`, which is `is_due`, and `SlotBegan`, the reading of the
schedules' comments (`models.py:277-280`) that OnePerSlot compares it with.

Abstractions: time is in hours, and an archive is numbered by the start of the
transaction that records it, which is the time in `backup_logs.at`. All runners
share one BACKUP_DIR, as replicas do that mount one volume; with a disk each,
fewer files disappear. Left out: what a dump contains, delivery, recipients and
`next_run`. A run whose connection for the lock fails proceeds as if it held the
lock (`backup.py:895-899`); `locks` is FALSE where that is so, and AutoExclusive
is claimed where it is TRUE.

Fairness (`FairSpec`): each scheduler asks every tick_seconds
(`backup.py:1437-1447`), and dumps, archives and uploads end, hence weak fairness
for AskDue and for the steps of a run. Weak fairness suffices for the lock, because
it is tried, never waited for. Crashes, failures, presses and settings are not
fair; the loop catches what a tick raises, so it asks again.

## 7. BotProcess and SchemaBootstrap

`phase` is the process (down, serving, draining), `head` the last revision of the
deployed code, `schema` and `data` the database, `flag`
`middlewares._restore_in_progress`, `upd[h]` what an update handler does, `tap[t]`
one press of a restore's confirmation, from its first query to the end of its restore or
of its refusal, `fsm`, `staged`, `content` and `buttons` the
dialogue of a restore: state, restore_path and restore_id of each admin, the files in
BACKUP_DIR/restore, what was uploaded, and the buttons sent.

| Code | Actions |
|---|---|
| entrypoint and `main.run` up to polling; a new image | Boot, Deploy |
| `DatabaseMiddleware`: the flag; the first query; the commit | Admit, Query, Commit, Fail |
| `RenderQueue`: semaphore, worker thread | Enqueue, StartRender, EndRender |
| admin_backup_restore_prompt, _cancel, _upload | Prompt, Cancel, Stage, EndUpload |
| the exemption of `ad:backup_restore_do` and `UserMiddleware`; admin_backup_restore_run up to its first await; the commit after a refusal | Confirm, LeaveTap |
| admin_backup_restore_run: the flag, the finally, the report | RaiseFlag, Abort, LowerFlag, Report |
| `RestoreService.restore`: inspect, safety dump | Inspect, DumpPlans, DumpDays, DumpFails |
| `_apply`, `_terminate_other_pg_backends`, `_run_psql` | ArchiveGone, Terminate, TerminateFails, TakeTables, Load, LoadTimesOut, LoadFails |
| `restore()` after the load: `ensure_schema` | Migrate |
| SIGTERM, `RenderQueue.drain`, the pool is disposed of; SIGKILL | StopSignal, Drained, DrainTimesOut, Crash |

`SchemaBootstrap` has the operators Boot, Migrate and Load apply to the schema. A
revision stands for the table or the column it creates, so the schema is a set of
revisions plus the one that alembic_version records; `Upgraded` is one transaction
that fails on an object that exists, `CreatedFromOrm` creates whole tables and records
nothing, and `LoadedObjects` is the CREATE TABLE IF NOT EXISTS of dump.sql, with
alembic_version's row among the data.

`DatabaseMiddleware` asks the flag once, when an update begins, and lets a tap on a
confirmation button pass whatever the answer (`middlewares.py:40`). Such a tap opens a
session, `UserMiddleware` may register, promote, reactivate or rename its admin, the
handler asks the flag itself (`admin.py:2002`), and after a refusal the middleware
commits: so a restore is never alone on the database, and RestoresAlone says what the
code does promise, that the taps let in get no further than their refusal.
SafetyHoldsAll says of the safety dump that it has every plan and plan_day of the moment of the load;
of the admins' users rows it says only that the dump has none that is not there,
because a refused tap may write one between the dump and the load, which then replaces it.

Abstractions: the data is the set of plans and of their plan_days, two tables being
enough for a dump to read them at two moments, and the set of admins whose users row an
update of theirs wrote (`TouchProfile`; the advisors' own rows are left out); an archive is damaged or it is not;
audit rows and the settings row are left out. An update is admitted once and waits
only for the locks of a load. Confirm is one step from the answer to the last query of
`UserMiddleware` to the first await of the handler; the admins are in ADMIN_IDS, so its
`_guard` lets them by. `clean` remembers that nobody else was under way when
the flag was raised, refused taps aside: what the flag promises can be promised only then, because
updates that began before go on.

Fairness: RestoreStep of each tap (asyncio resumes a task whose await is over, psql
has RESTORE_TIMEOUT, and the dump and the uploads end), and the drain, which polls
with a timeout. Renders, updates, crashes and faults are not fair: ShutdownEnds and
FlagFalls hold although a render or an update may never end.

## 8. Dialogue

`fsm[u]` is the wizard's state and data of an advisor and of an administrator,
`hs[h]` a handler in flight, `people`, `linked`, `account` and `plans` the rows that
decide rights, `screen[u]` the latest screen that moved the wizard. The handlers are
rows of tables, one table per section of the handler modules (`Entries`, `Picking`,
`StudentEdits`, ..., `AdminTransfer`): what the button carries or the text says, what
is read from the FSM data with `[...]` or `.get`, the right that is checked, what is
written, where the wizard goes and which keys are put. The actions run any row:

| Code | Actions |
|---|---|
| a button of any message, a text while the filter's state is set | Tap, Type, TypeBothDates |
| UserMiddleware has the account; `state.get_data()` | Enter |
| the checks of rights, the plan that is found or created | CheckPlain, CheckFound, CheckNew |
| set_state, update_data, clear: one step in memory, three with Redis; the next screen | Move; SetState, GetData, SetData |
| the commit | Commit |
| a refusal, an exception, an early return | Stop |
| the process restarts | Restart |

The filter is asked before the middlewares, the data is read after them, and the
rows are committed after the screen was shown. MCDialogue explores the handlers in
groups that share FSM keys or rows (`MCSites`); the groups
are a bound of the model, like the two handlers in flight. `range_confirm` takes the student of its button, and of the data if the button
carries none (`advisor.py:392`); that fallback is left out: the summary writes the student
of the same data into the button (`advisor.py:378`), so it carries none only if the data
had lost its student, which does not happen to who waits for answers, and no property is
about it. `patient` users wait for the answer to an update before the next; DoneAsShown is stated of them, because of an
impatient one no screen says where his text will go.

## 9. Throttle and PlanContent

`Throttle` is `ThrottleMiddleware`, one action per way through it: LightUpdate,
HeavyUpdate, Suppressed, with `Tick` for the clock. A token is `Rate` ticks, so that
the floats of the code are whole numbers. `Watch` lets an observer start counting at
any moment, which turns "from any moment on" into an invariant (BudgetKept).

`PlanContent` has the rows of activities and assignments of two plans, and an edit as
the DELETE and INSERT statements that `set_slot`, `clear_day`, `copy_day`,
`copy_previous_week` and `set_assignments` make of what they loaded (`Program`): a set,
in which each has its place (`at`) in the order in which they run (`Due`).
BeginEdit loads, LoadAssignments reads the previous plan's assignments after its cells,
Look and Strike are a DELETE that chooses its rows and then has their locks, Add is an
INSERT under uq_day_slot, CommitEdit and Rollback end the transaction. `want` is what the
edit shall leave; EditLands compares it with the rows, and holds the other handlers'
commits since the beginning against nobody. Left out: rights, status and version, which
the other modules have, and the row lock of an edit that opens a version.

## 10. Runs

| Run | Instance | Shows |
|---|---|---|
| plan_regimes | regime "overlap": 2 handlers of edit, generate, regenerate, png, send, my_last; 1 content; crash. Regime "serial": one handler at a time, all of them; 2 contents and one that does not validate; crash and redeploy | both: TypeOK, RowArtefactRecorded, CachedIdsRecorded, HistoryKept; overlap: OverlapRecordedOnDisk; serial: SerialGeneratedShowsContent, SerialOneContentPerVersion, SerialEditOpensNewVersion, SerialCleanupSparesRecorded, SerialImplementsVersions |
| plan_liveness | 2 handlers of edit, generate, pdf, delete, and before the first edit send and cleanup; crash; FairSpec | HandlersFinish |
| plan_stale_send | one handler at a time | violation of SentShowsContent |
| plan_edit_race | 2 handlers of edit, generate; 2 contents | violation of EditOpensNewVersion |
| accounts_regimes | an admin and a visitor. Regime "overlap": 2 handlers of visit, claim, create_student, approve, reject, add_advisor, edit_crossed, delete; 3 ids, 1 token. Regime "serial": one handler at a time, all of them; 4 ids, 2 tokens | both: TypeOK, ImplementsIdentities, StaffKeepAccount, ApprovalGrantsAccount; serial: SerialConnectedHasNoInvite |
| accounts_invite_race | 2 handlers of claim, create_student, invite | violation of InviteBindsUnclaimed |
| roster_overlap | one session creates students and plans, the other runs every other handler | TypeOK, OnePlanPerWeek, OneAdvisor, FilesFollowPlans, TransferKeepsPlans |
| roster_harmless | one handler at a time, all of them | violation of HarmlessWithoutStudents |
| backups | six deployments: two replicas and a manual backup, two replicas without locks, one replica over hours, 12-hour intervals, edited settings, and two weeks; one fault; FairSpec | AutoExclusive, ReportedIsKept, OnePerSlot, DueIsServed |
| bot_process | 16 deployments: a restore beside two updates; one admin who taps twice, also while he restores; two admins; shutdown, crash and restart with one render slot and Redis; twelve boots and redeploys on an empty, an old and an unversioned schema, with and without RUN_MIGRATIONS_ON_START and the ORM; FairSpec | TypeOK, FlagHasOwner, RestoresAlone, SafetyHoldsAll, RestoredIsConfirmed, OffersStagedFile, ServesTables, FlagFalls, ShutdownEnds |
| bot_older | one restore of an archive one revision older than the code | violation of ServesAtHead |
| dialogue | three parts. Nine groups of handlers, two at once, an advisor and an administrator, with restarts; the throttle of one user over eight ticks; three edits of two plans by two handlers | StateHasItsData, WrittenByEntitled, DoneAsShown; BudgetKept, HeavyApart; EditLands |

Bounds. Two handlers are enough for a read of one to be overtaken by a commit of
the other, which is what the safety properties are about.

- PlanLifecycle: versions to 2 give one bump over a published version; one
  content suffices where the property compares versions only, two where it
  compares contents. `Paired` (plan_liveness) limits which handlers start beside a send
  or a clean-up, and no step of a handler that has started. A deleted plan takes no more steps, so deadlock is not
  checked.
- Accounts: the admin of ADMIN_IDS, whose row says advisor (or, one at a time, a
  student's), and a visitor, two where two people open one link; any of them may be typed
  in. Three ids are the admin's row, a student's, and the duplicate that a claim folds
  away; with a fourth, one at a time, the admin is created again after the row went to
  somebody else. One token, or two, one at a time, where an old and a new invite of one
  student matter. The overlaps are held to less by `OverlapSeeds`, `OverlapIds` and
  `OneLink`; the theorems about `Accounts` are not. What two crossing
  taps leave may edit any row, so edit_crossed includes edit_advisor. Ids and tokens run
  out in the model, as they do not in PostgreSQL, so deadlock is not checked. One
  at a time, a student's row that was promoted is connected at the start
  (`Settled`): only an overlap of unlink_telegram with the promotion leaves it without a
  telegram id, for new_invite to give it an invite and for an edit to connect it.
- BackupScheduler: retention 2, as many as the runs that may overlap there; the
  weekly schedules begin at hour 190, before the slot of hour 195, after a last
  backup that was in time (27) or late (47), 6 days and 20 hours being decisive
  for the second; one crash or failure, at any step. The clock of the model stops
  at `until`, as no clock does, so deadlock is not checked.
- Roster: one admin, two advisors (who leaves and who inherits), one student, two
  plans and two weeks (a plan to keep and one to purge, or two of one week).
  Deadlock as for Accounts.
- BotProcess: one plan, two admins, two uploads, two taps and two handlers at
  most; any number of taps one after the other; users rows are written (`renamed`) where
  one admin restores beside updates or taps twice; four updates, which are prompt, upload and one more beside them (or a
  cancel, or a second upload); one fault; four revisions, two of them tables and one
  column of each, which is a column in a table that exists and in one that does not.
  Updates and stops run out, so deadlock is not checked.
- Dialogue: two students, three plan ids (the advisor's plan, another advisor's,
  and one that is deleted or yet to be created), two dates, two weekdays and two slots:
  one to be asked for and one to be overtaken by. Two handlers in flight.
- Throttle: one user, because it keeps its numbers per user; tokens of two ticks, a
  burst of two, a cooldown of three, eight ticks: the bucket empties, refills past its
  size and a heavy action runs three times.
- PlanContent: a full plan of the week before and a new plan of two days or a custom
  range of one, two weekdays and two slots; three edits of thirteen.

Symmetry: sessions (plan_regimes); sessions, visitors, students' ids and tokens
(accounts); advisors, students and plan ids (roster_overlap); handlers (dialogue). The
runs with liveness properties use none.

## 11. Disagreements

What the violations say:

- plan_stale_send: `bump_version` keeps `image_path`, so after generate and edit
  the plan's card still offers "send"; the student gets the previous version and
  the edited draft is marked SENT.
- plan_edit_race: an edit that loaded a draft commits over a plan generated in
  the meantime without opening a version.
- accounts_invite_race: two people who open one link both read an unclaimed row;
  the second commit takes the student's account from the first.
- roster_harmless: `transfer_student` moves the link and leaves the plans with the
  advisor who wrote them (`deletion.py:301`). That advisor has no students any
  more, so the only deletion offered is the detaching one, which deletes those
  plans; the confirmation (`texts.py:245`) calls it harmless.
- bot_older: dump.sql creates tables only IF NOT EXISTS and puts the archive's
  alembic_version back. Restored into a newer database, the recorded revision is the
  archive's while the columns are the code's; the upgrade that follows fails on a column
  that exists, and `ensure_schema` takes a failed upgrade without missing tables for a
  no-op. From then on no migration can run (`restore.py:590`).

Met while modelling, and stated by no run:

Plans and their contents:

- `send_photo_safe` and `send_document_safe` return None when both forms of an
  upload are refused; `remember_file_id` (`delivery.py:55`) dereferences it, and the
  generation is rolled back behind the error message that the docstring of
  `_deliver` (`advisor.py:1106-1108`) says it never ends in.
- `copy_previous_week` into a custom range raises "unknown weekday" when the previous
  plan has an activity on a day outside the range (`repositories.py:498`): nothing is
  copied, and the user sees the general error.
- `copy_previous_week` returns 0 for a previous plan without activities, after it has
  cleared the target and replaced its assignments; the handler then says that there is no
  previous plan (`advisor.py:849`).
- Two overlapping `set_assignments` leave both lists: each DELETE misses the other's
  rows, and no key makes (plan, order) unique. Two overlapping `set_slot` on one cell
  are told apart by uq_day_slot, and the second fails. A copy that overlaps an edit of its
  target leaves a mixture of both.
- `create_plan` returns a plan of the student with the same start whatever its end and
  whoever wrote it.

Backups:

- The daily branch of `is_due` allows a second backup once 20 hours have passed on the
  same date (`backup.py:1321`). With backup_hour 3, the default, a backup at 03:00 is
  followed by one at 23:00. OnePerSlot is therefore checked for the other schedules.
- `tick` asks `is_due` before it takes the lock and not after (`backup.py:1455`): of
  two replicas that both found a backup due, the slower takes a second one when the
  first has given back the lock. OnePerSlot is therefore stated for one scheduler.
- A manual backup that overlaps an automatic one loses its temporary file to
  `prune_backups` (`backup.py:1005`) and is reported as failed, although
  `create_backup` says it is safe to call from a handler or the scheduler
  (`backup.py:943`). The two also share pg_dump's `.tmp/dump.pgdump`.
- A manual backup in the middle of the week makes the next weekly slot pass without
  one: the gap of 6 days and 20 hours counts from any backup (`backup.py:1312`).
- `next_run`, "when the scheduler will next take a backup" (`backup.py:1325`), is the
  next full hour or the next `backup_hour`, whatever the last run was; `is_due`
  decides otherwise.
- `backup_keep` is documented as the number kept "on disk and in this table"
  (`models.py:307`); no code deletes rows of backup_logs.

Accounts, rosters and clean-up:

- `new_invite`, `link_telegram_id` and `edit_student` do not call
  `ensure_active` (`plan_manager.py:226`), although its docstring
  (`plan_manager.py:64`) says a suspended account "loses every write action".
- A person's role can come down although an account's does not. An admin who edits an
  advisor may give the row to another person (`admin.py:452`), an admin's row too: whoever
  takes it has its role, and who had it has none until the next update (of somebody in
  ADMIN_IDS, which then makes a new row). A student's row that ADMIN_IDS promoted can still
  be linked to another person, who then is an admin, and deleted by its own advisor:
  `link_telegram_id`, `new_invite` and `_student_in_scope` ask for the link and not for
  the role (`plan_manager.py:324`, `deletion.py:337`). `src/README.md:417` promises that no
  path lowers a role; its test (`test_no_flow_can_downgrade_a_role`) has none of these.
- Somebody approved and then deleted keeps an approved request; a later visit
  leaves it alone and `_visitor_message` (`middlewares.py:256`) words it as
  pending, while no admin has it in the queue.
- `delete_orphans` (`admin_service.py:450-455`) unlinks what was unreferenced when
  it scanned: with a generation in flight, the files of a row committed since.
  CleanupSparesRecorded is therefore checked with one handler at a time.
- Two overlapping `create_plan` of one week make two plans
  (`plan_manager.py:421`); `tests/test_students.py:765` tests the two taps one
  after the other.
- A plan that an advisor creates after `delete_advisor` has selected the plans to
  transfer goes with the row (`deletion.py:213`); the docstring at
  `deletion.py:185` says nothing is destroyed by a transfer.
- Two overlapping transfers of one student leave the student on two rosters
  (`deletion.py:297`).
- After `transfer_student` the new advisor who opens a week that has a plan is
  given that plan, which `get_editable` then denies, because the plan is still the
  previous advisor's.

Restore and process:

- `if not str(staged)` (`admin.py:2007`) is never true, because Path("") is ".". A
  confirmation without a path whose id is still the dialogue's starts a restore, which
  fails in its inspection; with another id, `_drop_staged(".")` raises after the dialogue
  was cleared.
- The safety dump reads table by table, each statement with its own snapshot
  (`backup.py:352`): beside updates that the flag did not stop, it may hold plan_days
  without their weekly_plans, and a restore of it would load them, constraints being off.
- Two restores that both found the flag down overlap: the first `finally` lowers it while
  the other loads. `pg_terminate_backend` also ends the connection of a running backup,
  and with it the advisory lock, and another restore's load.
- A confirmation tapped again while the restore runs is let in and refused, but commits:
  a new name of its admin written after the dump read users is in no archive. Tapped between
  the `finally` and the report, when the flag is down and the dialogue not yet cleared
  (`admin.py:2060`, `admin.py:2094`), it restores the same file once more.
- A prompt, a second upload or a restart leaves the earlier file in BACKUP_DIR/restore for
  good.
- `drain` counts renders that have started; those that wait for the semaphore, and
  handlers that save, send or restore, are cut off. `drop_pending_updates=True` drops what
  was sent while the bot was down.

Dialogue:

- With Redis, set_state, update_data and clear are round trips of their own: a text (or a
  crash) in between finds the state without its data, although `main.py:36` and
  `states.py:1` promise steps that survive a restart. StateHasItsData is stated of memory.
- A suspended advisor keeps edit_student, link_telegram_id, new_invite and
  revoke_invite; what `plan_manager.py:64` says of suspension is WrittenByEntitled
  without these. A handler asks for the active account when its update arrives and for
  the plan or student later, so WrittenByEntitled gives each its own moment: an advisor
  who is suspended while a handler waits may come to own the plan it then writes.
- After a custom range was begun again, the confirmation under an older summary creates
  the new start with the old end (`advisor.py:396`), although the summary claims to show
  what is created (`advisor.py:362`); DoneAsShown is stated of the latest screen.
- Two texts in quick succession are saved in the same cell. A text that was admitted for
  a cell goes to the day that a tap in between has opened. One that races the menu button
  finds no data, or leaves the menu waiting for a text.
- `student_this_week` points the data at another plan and leaves the wizard in
  edit_slot; `delete_student` leaves it in edit_student; `connect` clears before it checks.
- The confirmation of a suspension toggles: tapped twice, it lifts it again.
- The cooldown of a heavy action starts at the monotonic clock's 0
  (`_heavy.get(key, 0.0)`): within `cooldown` of the boot of the host a first press is
  refused.

## 12. Proofs

All of them hold for every value of the constants that the named assumptions
allow.

`PlanLifecycleProofs`: `TypeCorrect` (Spec => []TypeOK), `ArtefactRecorded`,
`IdsRecorded`, `HistoryIsKept`. RowArtefactRecorded and CachedIdsRecorded are not
inductive: a commit writes what the handler holds. The inductive invariant
`RefInv` adds, for every handler in flight, that what it loaded was recorded (and
still is, because plan_files only grows while the plan exists), and that what it
will write is recorded or is what it rendered, which its own transaction records.

`AccountsProofs`: `AccountsTyped`, `StaffKeep`, and `RolesKept`, which is the
refinement (Spec => ImplementsIdentities). A commit writes what a handler read
and changed some time ago, so these are not inductive. `AInv` adds to TypeOK, row
by row and session by session, how what a handler leaves differs from what it has read
(`Sound`: its role is the same or ADMIN, a staff member's telegram id is the same or
another person's, an admin's row is not deleted), that a row which is only inserted is
nobody else's (`InsertsApart`), that committed rows have the role they were created with
or ADMIN (`RowsSound`), and that who claims an invite claims a student's row
(`WhoSound`). `GInv` says which handler may have made the difference (`Answers`: a
promotion is of the caller, who is in ADMIN_IDS; a staff member's telegram id is changed by
an edit that is about to commit). Whatever the row has become meanwhile, what the
flush merges into it is then an allowed change (`FlushedRow`, `AccountStep`).
`AccountsAssumption` asks for no more than that the constants are well typed and the bot
starts with rows that are `Startable`.

`AccountsProofs` also has `ApprovalGrants` and `SerialNoInvite`. The first needs of `GInv` (`Granting`) that
a handler that approved a request inserts the applicant's row in the same commit. The
second is about `AccountsRegimes` and needs that, with one handler at a time, what it
has read is still committed, and that neither a committed row nor one in its hands is
connected and has an invite, or is a promoted student's and not connected (`SInv`).

`PlanLifecycleProofs` is also about `PlanRegimes`. `OverlapOnDisk` assumes only that neither
deletions nor clean-ups are among the handlers that overlap (`RegimesAssumption`);
`OInv` adds to RecordedOnDisk that what a handler has rendered and not recorded yet is
on the disk. The regime "serial" has five theorems, `SerialShowsContent`,
`SerialOneContent`, `SerialEditOpens`, `SerialCleanupSpares` and the refinement
`SerialImplements`, on one invariant: the recorded versions are older than the one that
is being edited and the published one shows the plan (`VersionsSound`); and for the
handler that works alone, by how far it has got, what its object holds of the row as it
is (`Alone`), or that the paths a clean-up will spare include all that is recorded.

`RosterProofs`: `RosterTyped` (no link or plan refers to somebody deleted; its
invariant `IInv` adds what the arguments of a handler in flight are),
`OnePlan` under OneCreator (`WInv`: a creation in flight is for a week that still
has no plan), `OneRoster` (OneAdvisor, under OneHander: one session hands students over,
by a transfer or the deletion of an advisor; `LInv`: the links it read still are the
only ones of their students), `FilesFollow` under OneMover (`FInv`: the files in the
hands of a deletion are those of the recorded plans it is about to delete), and
`TransferKeeps`, which needs no assumption about the other handlers.

`BackupProofs`: `OneScheduler` (Spec => []AutoExclusive), `SlotsApart` (OnePerSlot,
under `NoDaily`: no deployment is on the daily schedule or may be set to it; section
11 has the counterexample) and `ReportedStays` (ReportedIsKept, under `RetentionCovers`:
every retention that may be set is at least the number of runs that may overlap, one of
each admin and one of the schedulers, or of each scheduler where there are no locks).
All rest on `Typed`. AutoExclusive is not
inductive: `LInv` adds that, where locks can be asked for, whoever is between the
lock and its release is the one that `lock` names. For SlotsApart, `SInv` adds what
a scheduler was told between its question and its start: a backup was due by the
settings it read, which are not daily, and, if it is the only runner, the last
backup it read of is still the last. For ReportedStays, a run prunes by mtime and an
older run may rename its archive behind a newer one; `KInv` counts, for every archive
in the directory, the older ones that lie behind it or may still come to lie there
(`FewOlder`): they are fewer than any run keeps, so the newest is never pruned.

`ThrottleProofs`: `TypeCorrect`, `BudgetIsKept`, `HeavyRunsApart`, for any users, rates
and cooldowns. The budget is not inductive, because the bucket may have been filled
before the observer began to count; the account of a user is (`Account`): what was
served since, with what the bucket held when it was last asked, is within a burst and
the time up to then.

`BotProcessProofs`: `TypeCorrect`, `FlagIsHeld`, `RestoresStayAlone`, `SafetyIsWhole`,
`RestoredWasConfirmed`, `OffersStaged`, `TablesAreServed`, for any deployments that
`BotAssumption` types, and any chain of revisions. `IInv` adds to these properties that
what a dump has read so far is still the database's (`DumpSoFar`; while a restore is alone
nobody else commits but refused taps, LeaveTap, and they write users rows only), that who
restores or answers is an admin (`Actors`), that nothing counts as saved before the dump ends
(`NotYetSaved`), that a staged path is that of the upload whose id is beside it
(`OneUpload`), and that a confirmed upload had its button, so that its content cannot
change any more, while a refused tap has no file (`Genuine`). OffersStaged adds who may unlink a file: no two dialogues
offer one (`OwnFile`), an upload under way is nobody else's (`OwnUpload`), and the file
of a restore is offered by who confirmed it or by nobody (`OwnRestore`). TablesAreServed
rests on lemmas about the schema: an upgrade that works brings every table, one that
fails changes nothing, and CREATE IF NOT EXISTS removes none.

`DialogueProofs`: `DialogueTyped`, `HasItsData`, `WritersEntitled` and `DoneIsShown`, for
any number of handlers in flight, any people, plans, weeks and cells, and every row of
the tables at once. It begins with what all rows have in common (`Sound`: the keys
it reads and puts, where it takes them from, and the right it checks before it writes);
then `TInv` says what a handler of such a row works with. DialogueTyped is of TypeOK,
which no run checks; StateHasItsData is inductive beside TInv.
`WInv` adds that what a handler is entitled to at any moment is recorded while it may
still count, and `DInv` that the handlers of a user who waits follow one another, that
what one has read is still in the data, and that the data a screen goes by is what it
showed or was forgotten. DoneIsShown covers users who wait with Redis, which no group of
MCDialogue has. The proof of WritersEntitled gave the property its form: with one moment
for ownership and active account it is false for three handlers, which the run with two
cannot show.

`PlanContentProofs`: `EditsLand` (ContentSpec => EditLands), for any handlers, plans, weeks and
texts, under `ContentAssumption`: no weekday is twice in the week, and the edits are
those of PlanManager. A lemma for each edit, and `ProgramSound` for all, says of its
statements, whatever was loaded, that they are about its targets, that they clear each
target or fail for sure (a weekday outside the range), and that what is wanted is
inserted after the last DELETE that takes its key. That is why a day is cleared before it
is filled, and why no two days of a week share a cell. `EInv` says the same of what is
left of each handler's program: what is wanted was inserted and no DELETE to come takes
it, or an INSERT is to come (`Coming`); a row at a target is deleted, will be, or was
committed since the handler began (`Going`). At the commit nothing is left of the program.

The invariants of PlanLifecycleProofs, AccountsProofs (AInv), RosterProofs, BackupProofs,
BotProcessProofs (IInv), ThrottleProofs, DialogueProofs and PlanContentProofs were checked
by TLC on small instances, most of them before they were proved.

Model-checked only: HandlersFinish, DueIsServed, FlagFalls and ShutdownEnds, because
liveness is out of TLAPS's reach here, and the violations.

## 13. Not modelled

PROJECT.json lists every component with its status and what is left out. In short:

- Rendering: layout of pixels and fonts, without state.
- Wording and the look of keyboards; what a button carries is in Dialogue.
- The calendar: thin functions over the library jdatetime, whose tables decide every
  result. What the program does with dates is in Schedule and Dialogue. The digit and
  letter tables of the Persian text are data.
- Statistics and listings: they only read. Configuration, logging, the health endpoint:
  read once, or pure input and output. The command-line tools run while the bot is
  stopped (manage.py's purge is in Roster).
- Of backups: what pg_dump writes, delivery and recipients, `next_run`. Of restores:
  the checks of members and checksums of an archive, SQLite, pg_restore (dump.sql is
  always preferred, so archives without it are left out). Of the start: preflight and the
  retries while the database cannot be reached.
- Of accounts: the people an invite claim's fold-away takes with it (links and plans of
  the duplicate student). Of rosters: `admin_delete_plan`'s own catch.
