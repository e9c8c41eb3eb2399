----------------------------- MODULE BotProcess -----------------------------
(***************************************************************************)
(* The bot's process and the restore of its database: it boots, admits     *)
(* updates, drains and stops; an admin uploads an archive and confirms;    *)
(* the restore raises a flag that keeps new updates out, dumps the         *)
(* database, terminates every other connection, loads the archive in one   *)
(* transaction, migrates and lowers the flag.  One kind of update passes   *)
(* the flag: a tap on a confirmation button, which opens a session, may    *)
(* write the users row of its admin, and is refused by its handler only.   *)
(*                                                                         *)
(* A handler runs from await to await, so between two steps of a restore   *)
(* come steps of the updates that the flag did not stop, of a second       *)
(* restore (two admins, or a button tapped twice), a shutdown or a crash.  *)
(*                                                                         *)
(* Abstractions: the data is the weekly plans and the plan_days, as sets   *)
(* of plan keys, and the users rows of the admins; an update creates a     *)
(* plan with its days in one commit, at once or after a render; the schema *)
(* is that of SchemaBootstrap; audit rows, the settings row and messages   *)
(* are left out.                                                           *)
(***************************************************************************)
EXTENDS SchemaBootstrap, FiniteSets

CONSTANTS
  Keys,      \* weekly plans
  Admins,    \* admins who restore
  Handlers,  \* update handlers that may run at once
  Taps,      \* taps on a confirmation button that may run at once
  Uploads,   \* restore_id: the uploads of a run
  NoFile,    \* no staged upload
  Damaged,   \* a file that inspection refuses
  Sites      \* the deployments checked

Schemas == [have: SUBSET Chain, rev: Chain \cup {0}]
\* users: the admins whose row was written by an update of theirs.
Data == [plans: SUBSET Keys, days: SUBSET Keys, users: SUBSET Admins]
\* A dump of the database, and what a load makes of it.
Archives == [data: Data, schema: Schemas]

\* head, heads: the head of the code deployed first and last; redis: the FSM
\* survives a restart; renamed: the admins whose row may be written; taps ... faults:
\* who acts, and how often things go wrong.
Deployment == [schema: Schemas, data: Data, head: Chain, heads: Chain,
               onStart: BOOLEAN, autocreate: BOOLEAN, redis: BOOLEAN,
               files: SUBSET (Archives \cup {Damaged}), uploads: SUBSET Uploads,
               admins: SUBSET Admins, renamed: SUBSET Admins, taps: SUBSET Taps,
               handlers: SUBSET Handlers, slots: Nat, updates: Nat, stops: Nat, faults: Nat]

ASSUME BotAssumption ==
  /\ NoFile \notin Uploads \cup Admins /\ Keys \cap Uploads = {}
  /\ {"prompt", "cancel"} \cap (Keys \cup Uploads) = {}
  /\ Damaged \notin Archives
  /\ \A d \in Sites : d \in Deployment

VARIABLES
  site,     \* the deployment
  phase,    \* the process: "down", "serving" or "draining"
  head,     \* the head of the code that is deployed
  schema,   \* the tables and columns of the database, and its revision
  data,     \* its committed rows
  flag,     \* middlewares._restore_in_progress
  upd,      \* per handler: the update it works on
  tap,      \* per tap on a confirmation button: its restore
  fsm,      \* per admin: state, restore_path and restore_id
  staged,   \* the uploads in BACKUP_DIR/restore
  content,  \* what was uploaded, per upload
  buttons,  \* the uploads whose confirmation button was sent
  asked,    \* how many updates arrived
  stops,    \* how often the process stopped
  faults    \* how many faults there were

vars == <<site, phase, head, schema, data, flag, upd, tap, fsm, staged, content,
          buttons, asked, stops, faults>>

UpdatePCs == {"idle", "admitted", "tx", "queued", "rendering", "saving"}
\* What an update asks for: a plan to create, an upload, or a step of the dialogue.
Wishes == Keys \cup Uploads \cup {"prompt", "cancel"}
Updates == [pc: UpdatePCs, what: Wishes, by: Admins \cup {NoFile}, dead: BOOLEAN]
NoUpdate == [pc |-> "idle", what |-> "prompt", by |-> NoFile, dead |-> FALSE]

TapPCs == {"idle", "refused", "confirmed", "inspect", "dump", "dumping", "dumped",
           "load", "loading", "migrate", "lower", "failed", "report"}
\* asked: the id in the button; file: the staged file that was found; clean: no
\* other handler was under way when the flag was raised, refused taps aside; saved:
\* the safety dump was taken; dump: it; own: the handler's own session.
Restores == [pc: TapPCs, by: Admins \cup {NoFile}, asked: Uploads \cup {NoFile},
             file: Uploads \cup {NoFile}, clean: BOOLEAN, saved: BOOLEAN,
             dump: Data, own: BOOLEAN]
NoRestore == [pc |-> "idle", by |-> NoFile, asked |-> NoFile, file |-> NoFile,
              clean |-> FALSE, saved |-> FALSE,
              dump |-> [plans |-> {}, days |-> {}, users |-> {}], own |-> FALSE]

Dialogues == [state: {"none", "file", "confirm"}, path: Uploads \cup {NoFile},
              id: Uploads \cup {NoFile}]
NoDialogue == [state |-> "none", path |-> NoFile, id |-> NoFile]

Init ==
  /\ site \in Sites
  /\ phase = "down" /\ head = site.head
  /\ schema = site.schema /\ data = site.data
  /\ flag = FALSE
  /\ upd = [h \in Handlers |-> NoUpdate]
  /\ tap = [t \in Taps |-> NoRestore]
  /\ fsm = [a \in Admins |-> NoDialogue]
  /\ staged = {} /\ content = [u \in Uploads |-> Damaged] /\ buttons = {}
  /\ asked = 0 /\ stops = 0 /\ faults = 0

Up(h, pc) == upd[h].pc = pc
At(t, pc) == tap[t].pc = pc
Goto(t, pc) == tap' = [tap EXCEPT ![t].pc = pc]
Running == phase # "down"
Serving == phase = "serving"

Deployed == <<site, head, stops, asked>>
Database == <<schema, data>>
Conversation == <<fsm, staged, content, buttons>>

\* Handlers with a transaction open: they have queried and not committed.
Open(h) == upd[h].pc \notin {"idle", "admitted"} /\ ~upd[h].dead
Loading == \E t \in Taps : At(t, "loading")
\* The commit after an update of an admin: UserMiddleware may have written his row
\* (a registration, a promotion, a new name), unless the connection is lost.
TouchProfile(a, alive) ==
  \/ data' = data
  \/ alive /\ a \in site.renamed /\ data' = [data EXCEPT !.users = @ \cup {a}]
\* What lies between set_restore_running(True) and the finally that lowers it.
Critical == {"inspect", "dump", "dumping", "dumped", "load", "loading",
             "migrate", "lower", "failed"}
\* A tap that starts no restore.
Passive == {"idle", "refused"}

-----------------------------------------------------------------------------
(* Boot and deployment.                                                    *)

\* Mutant: the bot polls whatever ensure_schema reports.
BootUnchecked ==
  /\ phase = "down"
  /\ phase' = "serving"
  /\ UNCHANGED <<Deployed, Database, flag, upd, tap, Conversation, faults>>

\* The entrypoint (set -e) runs alembic upgrade head when RUN_MIGRATIONS_ON_START
\* is set; then main.run calls ensure_schema, and only then polls.
Boot ==
  /\ phase = "down"
  /\ site.onStart => UpgradeWorks(schema.have, schema.rev, head)
  /\ SchemaUsable(schema.have, schema.rev, head, site.autocreate)
  /\ phase' = "serving"
  /\ schema' = EnsureSchema(schema.have, schema.rev, head, site.onStart, site.autocreate)
  /\ UNCHANGED <<Deployed, data, flag, upd, tap, Conversation, faults>>

\* A deploy replaces the stopped process by newer code.
Deploy ==
  /\ phase = "down" /\ head < site.heads
  /\ head' = head + 1
  /\ UNCHANGED <<site, phase, Database, flag, upd, tap, Conversation, asked, stops, faults>>

-----------------------------------------------------------------------------
(* Updates.                                                                *)

\* The updates that may arrive.  The filters of the handlers, and with them the
\* state of the dialogue, are asked before the middlewares.
Asks(h, what, by) ==
  upd' = [upd EXCEPT ![h] = [NoUpdate EXCEPT !.pc = "admitted", !.what = what, !.by = by]]

Arrive(h) ==
  /\ Serving /\ h \in site.handlers /\ Up(h, "idle") /\ asked < site.updates
  /\ asked' = asked + 1
  /\ \/ \E k \in Keys \ data.plans : Asks(h, k, NoFile) /\ UNCHANGED content
     \/ \E a \in site.admins :
          \/ fsm[a].state # "file" /\ Asks(h, "prompt", a) /\ UNCHANGED content
          \/ fsm[a] # NoDialogue /\ Asks(h, "cancel", a) /\ UNCHANGED content
          \/ /\ fsm[a].state = "file"
             /\ \E u \in site.uploads \ (staged \cup buttons), f \in site.files :
                  /\ \A g \in Handlers : upd[g].what # u
                  /\ Asks(h, u, a) /\ content' = [content EXCEPT ![u] = f]
  /\ UNCHANGED <<site, head, stops, phase, Database, flag, tap, fsm, staged, buttons, faults>>

\* Mutant: the flag is not asked.
AdmitAlways(h) == Arrive(h)

\* DatabaseMiddleware asks the flag when an update begins, and never again; a tap on
\* a confirmation button is let through (Confirm).
Admit(h) == ~flag /\ Arrive(h)

\* UserMiddleware's query opens the transaction; it waits for a load that holds
\* the tables.
Query(h) ==
  /\ Up(h, "admitted") /\ ~Loading
  /\ upd' = [upd EXCEPT ![h].pc = "tx"]
  /\ UNCHANGED <<Deployed, phase, Database, flag, tap, Conversation, faults>>

\* RenderQueue.generate: a semaphore, then a worker thread.
Enqueue(h) ==
  /\ Up(h, "tx") /\ upd[h].what \in Keys
  /\ upd' = [upd EXCEPT ![h].pc = "queued"]
  /\ UNCHANGED <<Deployed, phase, Database, flag, tap, Conversation, faults>>

Inflight == {h \in Handlers : Up(h, "rendering")}

StartRender(h) ==
  /\ Up(h, "queued") /\ Cardinality(Inflight) < site.slots
  /\ upd' = [upd EXCEPT ![h].pc = "rendering"]
  /\ UNCHANGED <<Deployed, phase, Database, flag, tap, Conversation, faults>>

EndRender(h) ==
  /\ Up(h, "rendering")
  /\ upd' = [upd EXCEPT ![h].pc = "saving"]
  /\ UNCHANGED <<Deployed, phase, Database, flag, tap, Conversation, faults>>

\* The commit of the middleware: a plan and its days at once.
Commit(h) ==
  /\ upd[h].pc \in {"tx", "saving"} /\ upd[h].what \in Keys /\ ~upd[h].dead
  /\ data' = [data EXCEPT !.plans = @ \cup {upd[h].what}, !.days = @ \cup {upd[h].what}]
  /\ upd' = [upd EXCEPT ![h] = NoUpdate]
  /\ UNCHANGED <<Deployed, phase, schema, flag, tap, Conversation, faults>>

\* A handler that refuses, raises or lost its connection: a rollback.
Fail(h) ==
  /\ upd[h].pc \in {"tx", "saving"} /\ upd[h].what \in Keys
  /\ upd' = [upd EXCEPT ![h] = NoUpdate]
  /\ UNCHANGED <<Deployed, phase, Database, flag, tap, Conversation, faults>>

-----------------------------------------------------------------------------
(* The dialogue of a restore.                                              *)

\* admin_backup_restore_prompt asks the flag again.  restore_id keeps its value,
\* and a file that was staged before stays on disk.
Prompt(h) ==
  /\ Up(h, "tx") /\ upd[h].what = "prompt"
  /\ fsm' = IF flag THEN fsm
            ELSE [fsm EXCEPT ![upd[h].by].state = "file", ![upd[h].by].path = NoFile]
  /\ TouchProfile(upd[h].by, ~upd[h].dead)
  /\ upd' = [upd EXCEPT ![h] = NoUpdate]
  /\ UNCHANGED <<Deployed, phase, schema, flag, tap, staged, content, buttons, faults>>

\* Mutant: the file goes and the dialogue stays.
CancelKeepingDialogue(h) ==
  /\ Up(h, "tx") /\ upd[h].what = "cancel"
  /\ staged' = staged \ {fsm[upd[h].by].path}
  /\ upd' = [upd EXCEPT ![h] = NoUpdate]
  /\ UNCHANGED <<Deployed, phase, Database, flag, tap, fsm, content, buttons, faults>>

\* admin_backup_restore_cancel: the dialogue first, then the file.
Cancel(h) ==
  /\ Up(h, "tx") /\ upd[h].what = "cancel"
  /\ fsm' = [fsm EXCEPT ![upd[h].by] = NoDialogue]
  /\ staged' = staged \ {fsm[upd[h].by].path}
  /\ TouchProfile(upd[h].by, ~upd[h].dead)
  /\ upd' = [upd EXCEPT ![h] = NoUpdate]
  /\ UNCHANGED <<Deployed, phase, schema, flag, tap, content, buttons, faults>>

\* admin_backup_restore_upload up to the await of the inspection: _stage_upload.
Stage(h) ==
  /\ Up(h, "tx") /\ upd[h].what \in Uploads
  /\ staged' = staged \cup {upd[h].what}
  /\ upd' = [upd EXCEPT ![h].pc = "saving"]
  /\ UNCHANGED <<Deployed, phase, Database, flag, tap, fsm, content, buttons, faults>>

\* RestoreService.inspect: the archive is ours and intact (_inspect_sync), and not
\* of a newer schema.
Inspected(file) == file # Damaged /\ ~RevisionProblem(file.schema.rev, head)

\* After it: the dialogue, whatever it is by now, points to this upload; then the
\* audit row, which fails on a terminated connection; then the button.
EndUpload(h) ==
  LET u == upd[h].what
  IN /\ Up(h, "saving") /\ u \in Uploads
     /\ IF Inspected(content[u])
        THEN /\ fsm' = [fsm EXCEPT ![upd[h].by] = [state |-> "confirm", path |-> u, id |-> u]]
             /\ buttons' = IF upd[h].dead THEN buttons ELSE buttons \cup {u}
             /\ staged' = staged
        ELSE staged' = staged \ {u} /\ UNCHANGED <<fsm, buttons>>
     /\ TouchProfile(upd[h].by, ~upd[h].dead)
     /\ upd' = [upd EXCEPT ![h] = NoUpdate]
     /\ UNCHANGED <<Deployed, phase, schema, flag, tap, content, faults>>

-----------------------------------------------------------------------------
(* admin_backup_restore_run and RestoreService.restore.                    *)

\* A tap on a button that was sent.  DatabaseMiddleware lets it through whatever the
\* flag; the query of UserMiddleware opens the transaction and waits for a load that
\* holds the tables.
Visits(t, a) == Serving /\ t \in site.taps /\ At(t, "idle") /\ a \in site.admins /\ ~Loading

\* The handler goes on with the file that the dialogue names, or answers only.
Passes(t, a, u) ==
  /\ tap' = [tap EXCEPT ![t] = [NoRestore EXCEPT !.pc = "confirmed", !.by = a, !.asked = u,
                                                 !.file = fsm[a].path, !.own = TRUE]]
  /\ UNCHANGED <<fsm, staged>>
Refuses(t, a) ==
  tap' = [tap EXCEPT ![t] = [NoRestore EXCEPT !.pc = "refused", !.by = a, !.own = TRUE]]

\* Mutant: the handler does not ask the flag.
ConfirmUnasked(t, a) ==
  /\ Visits(t, a)
  /\ \E u \in buttons : fsm[a].id = u /\ Passes(t, a, u)
  /\ UNCHANGED <<Deployed, phase, Database, flag, upd, content, buttons, faults>>

\* Mutant: the id in the button is not compared.
ConfirmAnyButton(t, a) ==
  /\ Visits(t, a) /\ ~flag
  /\ \E u \in buttons : Passes(t, a, u)
  /\ UNCHANGED <<Deployed, phase, Database, flag, upd, content, buttons, faults>>

\* The checks before the next await: is_restore_running, then the staged file, then
\* the id.  A dialogue without a path passes the test for a staged file (Path("") is
\* the directory "."), so a button whose id is still the dialogue's goes on with no
\* file.
Confirm(t, a) ==
  /\ Visits(t, a)
  /\ \E u \in buttons :
       LET goes == fsm[a].id = u /\ fsm[a].path \in staged \cup {NoFile}
       IN \/ flag /\ Refuses(t, a) /\ UNCHANGED <<fsm, staged>>
          \/ ~flag /\ goes /\ Passes(t, a, u)
          \/ /\ ~flag /\ ~goes /\ Refuses(t, a)
             /\ fsm' = [fsm EXCEPT ![a] = NoDialogue]
             /\ staged' = staged \ {fsm[a].path}
  /\ UNCHANGED <<Deployed, phase, Database, flag, upd, content, buttons, faults>>

\* After the answer to the tap, the commit of the middleware.
LeaveTap(t) ==
  /\ At(t, "refused")
  /\ TouchProfile(tap[t].by, tap[t].own)
  /\ tap' = [tap EXCEPT ![t] = NoRestore]
  /\ UNCHANGED <<Deployed, phase, schema, flag, upd, Conversation, faults>>

\* set_restore_running(True), two awaits after the flag was asked.
RaiseFlag(t) ==
  /\ At(t, "confirmed")
  /\ flag' = TRUE
  /\ tap' = [s \in Taps |->
               IF s = t
               THEN [tap[t] EXCEPT !.pc = "inspect",
                                   !.clean = /\ \A h \in Handlers : Up(h, "idle")
                                             /\ \A o \in Taps \ {t} : tap[o].pc \in Passive]
               ELSE [tap[s] EXCEPT !.clean = FALSE]]
  /\ UNCHANGED <<Deployed, phase, Database, upd, Conversation, faults>>

\* Mutant: no finally.
AbortKeepingFlag(t) ==
  /\ fsm' = [fsm EXCEPT ![tap[t].by] = NoDialogue]
  /\ tap' = [tap EXCEPT ![t] = NoRestore]
  /\ UNCHANGED <<Deployed, phase, Database, flag, upd, staged, content, buttons, faults>>

\* A RestoreError: the dialogue is cleared, the file is left, the finally lowers
\* the flag, and the middleware commits.
Abort(t) ==
  /\ flag' = FALSE
  /\ fsm' = [fsm EXCEPT ![tap[t].by] = NoDialogue]
  /\ TouchProfile(tap[t].by, tap[t].own)
  /\ tap' = [tap EXCEPT ![t] = NoRestore]
  /\ UNCHANGED <<Deployed, phase, schema, upd, staged, content, buttons, faults>>

\* inspect again: the file may be gone by now, or there was none.
Inspect(t) ==
  /\ At(t, "inspect")
  /\ IF tap[t].file \in staged /\ Inspected(content[tap[t].file])
     THEN /\ Goto(t, "dump")
          /\ UNCHANGED <<Deployed, phase, Database, flag, upd, Conversation, faults>>
     ELSE Abort(t)

\* python_dump reads the tables one after the other, read committed: users before
\* weekly_plans (here one step), then plan_days.
DumpPlans(t) ==
  /\ At(t, "dump") /\ ~Loading
  /\ tap' = [tap EXCEPT ![t].pc = "dumping",
                        ![t].dump = [data EXCEPT !.days = {}]]
  /\ UNCHANGED <<Deployed, phase, Database, flag, upd, Conversation, faults>>

DumpDays(t) ==
  /\ At(t, "dumping") /\ ~Loading
  /\ tap' = [tap EXCEPT ![t].pc = "dumped", ![t].dump.days = data.days, ![t].saved = TRUE]
  /\ UNCHANGED <<Deployed, phase, Database, flag, upd, Conversation, faults>>

\* A safety backup that fails is only a warning.
DumpFails(t) ==
  /\ tap[t].pc \in {"dump", "dumping"} /\ faults < site.faults
  /\ Goto(t, "dumped")
  /\ faults' = faults + 1
  /\ UNCHANGED <<Deployed, phase, Database, flag, upd, Conversation>>

\* _apply cannot extract a file that is gone.
ArchiveGone(t) == At(t, "dumped") /\ tap[t].file \notin staged /\ Abort(t)

\* _apply: dispose of the pool and terminate every other connection, those of the
\* updates, of other taps and this handler's own.
Cut(r) ==
  [r EXCEPT !.own = FALSE,
            !.pc = CASE r.pc = "loading" -> "failed"
                     [] r.pc = "dumping" -> "dumped"
                     [] OTHER -> r.pc]

Terminate(t) ==
  /\ At(t, "dumped") /\ tap[t].file \in staged
  /\ tap' = [s \in Taps |-> IF s = t THEN [tap[t] EXCEPT !.pc = "load", !.own = FALSE]
                           ELSE Cut(tap[s])]
  /\ upd' = [h \in Handlers |-> [upd[h] EXCEPT !.dead = upd[h].dead \/ Open(h)]]
  /\ UNCHANGED <<Deployed, phase, Database, flag, Conversation, faults>>

\* The server refused it: a warning, and the load meets the open transactions.
TerminateFails(t) ==
  /\ At(t, "dumped") /\ tap[t].file \in staged /\ faults < site.faults
  /\ Goto(t, "load")
  /\ faults' = faults + 1
  /\ UNCHANGED <<Deployed, phase, Database, flag, upd, Conversation>>

\* TRUNCATE needs every table for itself.
TakeTables(t) ==
  /\ At(t, "load") /\ ~Loading
  /\ \A h \in Handlers : ~Open(h)
  /\ \A s \in Taps : ~tap[s].own
  /\ Goto(t, "loading")
  /\ UNCHANGED <<Deployed, phase, Database, flag, upd, Conversation, faults>>

\* dump.sql, one transaction.
Load(t) ==
  LET archive == content[tap[t].file]
  IN /\ At(t, "loading")
     /\ IF LoadFits(schema.have, archive.schema.have)
        THEN /\ data' = archive.data
             /\ schema' = Schema(LoadedObjects(schema.have, archive.schema.have),
                                 LoadedRevision(schema.rev, archive.schema.rev))
             /\ Goto(t, "migrate")
        ELSE Goto(t, "failed") /\ UNCHANGED Database
     /\ UNCHANGED <<Deployed, phase, flag, upd, Conversation, faults>>

\* Mutant: it waits on.
LoadWaits(t) == At(t, "load") /\ (\E s \in Taps : tap[s].own) /\ UNCHANGED vars

\* It gives up its wait after RESTORE_TIMEOUT.
LoadTimesOut(t) ==
  /\ At(t, "load")
  /\ (\E h \in Handlers : Open(h)) \/ (\E s \in Taps : tap[s].own)
  /\ Goto(t, "failed")
  /\ UNCHANGED <<Deployed, phase, Database, flag, upd, Conversation, faults>>

\* psql fails for any other reason; the transaction is rolled back.
LoadFails(t) ==
  /\ tap[t].pc \in {"load", "loading"} /\ faults < site.faults
  /\ Goto(t, "failed")
  /\ faults' = faults + 1
  /\ UNCHANGED <<Deployed, phase, Database, flag, upd, Conversation>>

\* ensure_schema after the load; a SchemaError is only a warning.
Migrate(t) ==
  /\ At(t, "migrate") /\ ~Loading
  /\ schema' = IF SchemaUsable(schema.have, schema.rev, head, site.autocreate)
               THEN EnsureSchema(schema.have, schema.rev, head, site.onStart, site.autocreate)
               ELSE schema
  /\ Goto(t, "lower")
  /\ UNCHANGED <<Deployed, phase, data, flag, upd, Conversation, faults>>

\* The finally, whoever else restores by now.
LowerFlag(t) ==
  /\ tap[t].pc \in {"lower", "failed"}
  /\ flag' = FALSE
  /\ Goto(t, "report")
  /\ UNCHANGED <<Deployed, phase, Database, upd, Conversation, faults>>

\* After the safety archive and the report were sent.  The session was closed, which
\* rolls the admin's own row back.
Report(t) ==
  /\ At(t, "report")
  /\ fsm' = [fsm EXCEPT ![tap[t].by] = NoDialogue]
  /\ staged' = staged \ {tap[t].file}
  /\ tap' = [tap EXCEPT ![t] = NoRestore]
  /\ UNCHANGED <<Deployed, phase, Database, flag, upd, content, buttons, faults>>

-----------------------------------------------------------------------------
(* Shutdown and crash.                                                     *)

StopSignal ==
  /\ Serving /\ stops < site.stops
  /\ phase' = "draining"
  /\ UNCHANGED <<Deployed, Database, flag, upd, tap, Conversation, faults>>

\* Memory is lost: handlers, restores, the flag and, without Redis, the FSM.  What
\* a transaction has not committed is rolled back.
Exit ==
  /\ phase' = "down" /\ stops' = stops + 1
  /\ flag' = FALSE
  /\ upd' = [h \in Handlers |-> NoUpdate]
  /\ tap' = [t \in Taps |-> NoRestore]
  /\ fsm' = IF site.redis THEN fsm ELSE [a \in Admins |-> NoDialogue]
  /\ UNCHANGED <<site, head, asked, Database, staged, content, buttons>>

\* drain counts the renders that have started, for 30 seconds; a handler that is
\* queued, saving or restoring is not waited for.
Drained ==
  /\ phase = "draining" /\ Inflight = {}
  /\ Exit /\ faults' = faults

\* Mutant: drain has no timeout.
DrainWaits == phase = "draining" /\ Inflight # {} /\ UNCHANGED vars

DrainTimesOut ==
  /\ phase = "draining" /\ Inflight # {}
  /\ Exit /\ faults' = faults

Crash ==
  /\ Running /\ stops < site.stops /\ faults < site.faults
  /\ Exit /\ faults' = faults + 1

-----------------------------------------------------------------------------
Work(h) ==
  \/ Query(h) \/ Enqueue(h) \/ StartRender(h) \/ EndRender(h) \/ Commit(h) \/ Fail(h)
  \/ Prompt(h) \/ Cancel(h) \/ Stage(h) \/ EndUpload(h)

RestoreStep(t) ==
  \/ RaiseFlag(t) \/ Inspect(t) \/ DumpPlans(t) \/ DumpDays(t)
  \/ ArchiveGone(t) \/ Terminate(t)
  \/ TakeTables(t) \/ Load(t) \/ LoadTimesOut(t) \/ Migrate(t) \/ LowerFlag(t) \/ Report(t)

Next ==
  \/ Boot \/ Deploy
  \/ StopSignal \/ Drained \/ DrainTimesOut \/ Crash
  \/ \E h \in Handlers : Admit(h) \/ Work(h)
  \/ \E t \in Taps, a \in Admins : Confirm(t, a)
  \/ \E t \in Taps : RestoreStep(t) \/ LeaveTap(t) \/ DumpFails(t) \/ TerminateFails(t) \/ LoadFails(t)

Spec == Init /\ [][Next]_vars

\* The event loop runs every handler; drain has its timeout and a load has its
\* own.  A render is not assumed to end.
Fairness ==
  /\ \A t \in Taps : WF_vars(RestoreStep(t))
  /\ WF_vars(Drained \/ DrainTimesOut)

FairSpec == Spec /\ Fairness

-----------------------------------------------------------------------------
(* Properties.                                                             *)

TypeOK ==
  /\ site \in Sites
  /\ phase \in {"down", "serving", "draining"} /\ head \in Chain
  /\ schema \in Schemas /\ data \in Data
  /\ flag \in BOOLEAN
  /\ upd \in [Handlers -> Updates] /\ tap \in [Taps -> Restores]
  /\ fsm \in [Admins -> Dialogues]
  /\ staged \subseteq Uploads /\ buttons \subseteq Uploads
  /\ content \in [Uploads -> Archives \cup {Damaged}]
  /\ asked \in Nat /\ stops \in Nat /\ faults \in Nat

\* The flag never stays up without a restore that will lower it.
FlagHasOwner == flag => \E t \in Taps : tap[t].pc \in Critical

\* A restore that began while nothing ran but taps that had still to ask the flag
\* works behind a raised flag, and no update is under way until it lowers it: only
\* taps on confirmation buttons, which the middleware lets through, and none of them
\* gets past the handler's check to a restore of its own.
Alone(t) == tap[t].clean /\ tap[t].pc \in Critical
RestoresAlone ==
  \A t \in Taps : Alone(t) =>
    /\ flag
    /\ \A h \in Handlers : Up(h, "idle")
    /\ \A s \in Taps \ {t} : tap[s].pc \in Passive

\* The safety archive of such a restore holds every plan and every plan_day that the
\* load replaces, and no users row that is not there; what it may lack is the row
\* of an admin whose tap the handler refused meanwhile.
SafetyHoldsAll ==
  \A t \in Taps : Alone(t) /\ tap[t].saved /\ tap[t].pc \in {"dumped", "load", "loading"} =>
    /\ tap[t].dump.plans = data.plans /\ tap[t].dump.days = data.days
    /\ tap[t].dump.users \subseteq data.users

\* What is loaded is what the admin was shown with the button that he tapped, not
\* another upload of his.
RestoredIsConfirmed ==
  \A t \in Taps : tap[t].pc \in Critical \ {"inspect"} => tap[t].file = tap[t].asked

\* A dialogue never offers a file that is no longer on disk.
OffersStagedFile == \A a \in Admins : fsm[a].path \in staged \cup {NoFile}

\* The bot never serves a database that lacks a table of its code.
ServesTables == Running => MissingTables(schema.have, head) = {}

\* A restored database is migrated: outside a restore the bot serves the schema
\* of its code.
ServesAtHead ==
  (Serving /\ \A t \in Taps : tap[t].pc \notin Critical) => schema.rev = head

\* However a restore ends, the bot is open to everyone again.
FlagFalls == flag ~> ~flag

\* A shutdown ends, whatever the renders do.
ShutdownEnds == phase = "draining" ~> phase = "down"
=============================================================================
