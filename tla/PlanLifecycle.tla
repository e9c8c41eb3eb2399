---------------------------- MODULE PlanLifecycle ----------------------------
(***************************************************************************)
(* The life of one weekly plan: its row in weekly_plans, the plan_files    *)
(* rows that record its generated versions, and the PNG/PDF artefacts on   *)
(* disk, under Telegram handlers that run concurrently.                    *)
(*                                                                         *)
(* aiogram runs every update as its own asyncio task and DatabaseMiddleware*)
(* gives each task its own SQLAlchemy session, committed when the handler  *)
(* returns and rolled back when it raises.  A handler therefore works on a *)
(* snapshot of the row (the identity map), awaits (queries, the render     *)
(* thread, Telegram), and at the end writes only the columns whose value   *)
(* differs from its snapshot.  There is no version column and no           *)
(* SELECT ... FOR UPDATE: the only mutual exclusion is the row lock of an   *)
(* UPDATE, held from the first flush until the transaction ends.           *)
(*                                                                         *)
(* Abstractions: "content" stands for the days, activities and assignments *)
(* of the plan (what content_hash covers, the student's name apart); an    *)
(* artefact is named by the version and the content it was rendered from,  *)
(* as its file name is (file_stem + plan_hash); a Telegram file_id is the  *)
(* artefact whose upload returned it.                                      *)
(***************************************************************************)
EXTENDS Naturals, FiniteSets

CONSTANTS
  Sessions,    \* handler invocations that may be in flight at the same time
  NoSession,   \* nobody holds the row lock
  Contents,    \* contents of the plan
  Printable,   \* the contents that WeeklyPlanService.validate accepts
  NoArt,       \* a NULL image_path / file_id
  MaxVersion,  \* model bound: no edit starts that would exceed this version
  Ops,         \* the handlers a run exercises
  Faults       \* the environment faults a run exercises

AllOps == {"edit", "generate", "regenerate", "png", "pdf", "send", "my_last",
           "delete", "cleanup"}
AllFaults == {"crash", "redeploy"}

ASSUME ConstantsAssumption ==
  /\ NoSession \notin Sessions
  /\ Contents # {}
  /\ Printable \subseteq Contents
  /\ MaxVersion \in Nat \ {0}
  /\ Ops \subseteq AllOps
  /\ Faults \subseteq AllFaults

Versions == Nat \ {0}
Kinds == {"png", "pdf"}
Statuses == {"draft", "generated", "sent"}
Published == {"generated", "sent"}   \* what bump_version turns into a new draft

\* An artefact: the file name carries the version and the hash of the content.
Art == [version: Versions, content: Contents]

ASSUME NoArtAssumption == NoArt \notin Art

PlanFiles == [version: Versions, path: Art]

Row == [live: BOOLEAN, version: Versions, status: Statuses, content: Contents,
        path: Art \cup {NoArt}, png: Art \cup {NoArt}, pdf: Art \cup {NoArt}]

VARIABLES
  row,    \* the committed weekly_plans row with its content
  files,  \* the committed plan_files rows of the plan
  sess,   \* per handler: what it is doing, its snapshot and its working copy
  disk,   \* <<artefact, kind>> files under STORAGE_ROOT
  lock    \* the session whose uncommitted UPDATE holds the row lock

vars == <<row, files, sess, disk, lock>>

PCs == {"idle", "days", "ready", "half", "rendered", "photo", "document",
        "mark_sent", "commit", "unlinked", "error"}

\* snap: the row as loaded; obj: the row object the handler changes; marked: it
\* ran mark_generated; paths: the artefacts it collected to remove or to spare.
SessionStates == [op: AllOps, pc: PCs, snap: Row, obj: Row, marked: BOOLEAN,
                  paths: SUBSET Art]

\* create_plan: a fresh draft, version 1, no artefact.
NewRow(c) == [live |-> TRUE, version |-> 1, status |-> "draft", content |-> c,
              path |-> NoArt, png |-> NoArt, pdf |-> NoArt]

\* A handler's session that has just loaded the row r.
Loaded(op, pc, r, paths) ==
  [op |-> op, pc |-> pc, snap |-> r, obj |-> r, marked |-> FALSE, paths |-> paths]

\* A handler that is not running: its session is closed and holds nothing.
Idle == Loaded("edit", "idle", NewRow(CHOOSE c \in Contents : TRUE), {})

Init ==
  /\ row \in {NewRow(c) : c \in Contents}
  /\ files = {}
  /\ sess = [s \in Sessions |-> Idle]
  /\ disk = {}
  /\ lock = NoSession

-----------------------------------------------------------------------------
(* Helpers over a session record x.                                        *)

Active(s) == sess[s].pc # "idle"

\* Session s is at pc in handler op, and moves on to another pc.
At(s, ops, pc) == sess[s].op \in ops /\ sess[s].pc = pc
Goto(s, pc) == sess' = [sess EXCEPT ![s].pc = pc]

\* ... leaving r in its working copy of the row.
Keep(s, pc, r) == sess' = [sess EXCEPT ![s] = [@ EXCEPT !.pc = pc, !.obj = r]]

\* Mutant: the row lock outlives the transaction.
CloseKeepingLock(s) ==
  /\ sess' = [sess EXCEPT ![s] = Idle]
  /\ lock' = lock

\* The handler ends: its session is closed and its locks are released.
Close(s) ==
  /\ sess' = [sess EXCEPT ![s] = Idle]
  /\ lock' = IF lock = s THEN NoSession ELSE lock

\* An UPDATE of the row can proceed: nobody else has an uncommitted one.
CanLock(s) == lock \in {s, NoSession}

\* What WeeklyPlanService.generate renders for this session's snapshot.
RenderOf(x) == [version |-> x.snap.version, content |-> x.snap.content]

OnDisk(a) == \A k \in Kinds : <<a, k>> \in disk

\* cached_file_id
CachedId(x, kind) == IF kind = "png" THEN x.obj.png ELSE x.obj.pdf

\* input_for: the cached file_id, else the local file if it still exists.
InputFor(x, kind) ==
  IF CachedId(x, kind) # NoArt THEN CachedId(x, kind)
  ELSE IF <<x.obj.path, kind>> \in disk THEN x.obj.path ELSE NoArt

\* ensure_artifacts: both artefacts can be sent without rendering.
HaveBoth(x) == \A k \in Kinds : InputFor(x, k) # NoArt

Generating == {"generate", "regenerate"}
Delivering == {"png", "pdf", "send", "my_last"}

\* Mutant: re-sending looks the file up under the current version.
FileToSendCurrent(x, kind) == RenderOf(x)

\* What the next upload of this handler carries: the file just rendered for
\* generate, input_for's choice for the others.
FileToSend(x, kind) ==
  IF x.op \in Generating
  THEN IF <<RenderOf(x), kind>> \in disk THEN RenderOf(x) ELSE NoArt
  ELSE InputFor(x, kind)

FirstUpload(x) == IF x.op = "pdf" THEN "document" ELSE "photo"

\* Mutant: sending no longer asks for a generated file.
AllowedUngenerated(op) == op = "my_last" => row.status \in Published

\* The handler's preconditions on the row it loaded; when they fail it answers
\* with an alert and writes nothing.
Allowed(op) ==
  /\ op \in {"png", "pdf", "send", "my_last"} => row.path # NoArt
  /\ op = "my_last" => row.status \in Published

\* Mutant: earlier versions are not looked at.
PathsOfCurrent(r) == {r.path} \ {NoArt}

\* The artefacts that a row and the plan_files rows point at.
PathsOf(r) == {f.path : f \in files} \cup ({r.path} \ {NoArt})

-----------------------------------------------------------------------------
(* Loading: PlanRepository.get selects the row, then selectinload issues   *)
(* one SELECT per relationship; under READ COMMITTED another handler may   *)
(* commit in between.                                                      *)

LoadRow(s, op) ==
  /\ ~Active(s)
  /\ op \in Ops \ {"cleanup"}
  /\ row.live
  /\ Allowed(op)
  /\ op = "edit" /\ row.status \in Published => row.version < MaxVersion
  /\ sess' = [sess EXCEPT ![s] = Loaded(op, "days", row, {})]
  /\ UNCHANGED <<row, files, disk, lock>>

LoadDays(s) ==
  /\ sess[s].pc = "days"
  /\ row.live
  /\ LET full == [sess[s].snap EXCEPT !.content = row.content]
     IN sess' = [sess EXCEPT
          ![s] = Loaded(@.op, "ready", full,
                        IF @.op = "delete" THEN PathsOf(full) ELSE {})]
  /\ UNCHANGED <<row, files, disk, lock>>

-----------------------------------------------------------------------------
(* Ending a transaction.                                                   *)

\* The row after this session's UPDATEs: only changed columns are written.
\* mark_generated flushes, so a status it changed was written even if
\* mark_sent sets it back to the snapshot's value later.
Written(x) ==
  [row EXCEPT
    !.version = IF x.obj.version = x.snap.version THEN @ ELSE x.obj.version,
    !.status  = IF /\ x.obj.status = x.snap.status
                   /\ ~(x.marked /\ x.snap.status # "generated")
                THEN @ ELSE x.obj.status,
    !.path    = IF x.obj.path = x.snap.path THEN @ ELSE x.obj.path,
    !.png     = IF x.obj.png = x.snap.png THEN @ ELSE x.obj.png,
    !.pdf     = IF x.obj.pdf = x.snap.pdf THEN @ ELSE x.obj.pdf]

\* Mutant: only the first generation of a plan is recorded.
NewFilesFirst(x) ==
  IF x.marked /\ x.snap.path = NoArt
  THEN {[version |-> x.obj.version, path |-> RenderOf(x)]} ELSE {}

\* The plan_files row that mark_generated inserted.
NewFiles(x) ==
  IF x.marked THEN {[version |-> x.obj.version, path |-> RenderOf(x)]} ELSE {}

Dirty(x) == x.marked \/ x.obj # x.snap

\* DatabaseMiddleware commits when the handler returns.  An UPDATE of a row
\* that is gone raises (StaleDataError), which leaves only Rollback.
Commit(s) ==
  /\ At(s, Generating \cup Delivering, "commit")
  /\ Dirty(sess[s]) => row.live /\ CanLock(s)
  /\ row' = Written(sess[s])
  /\ files' = files \cup NewFiles(sess[s])
  /\ Close(s)
  /\ UNCHANGED disk

\* Any exception: the transaction is rolled back, files and messages stay.
Rollback(s) ==
  /\ Active(s)
  /\ Close(s)
  /\ UNCHANGED <<row, files, disk>>

-----------------------------------------------------------------------------
(* Editing: set_slot, clear_day, copy_day, copy_previous_week and           *)
(* set_assignments all bump the version, then rewrite child rows.           *)

\* Mutants: numbering restarts; the plan stays published; the number stays.
BumpedToZero(r) == [r EXCEPT !.version = 0, !.status = "draft",
                             !.png = NoArt, !.pdf = NoArt]
BumpedPublished(r) == [r EXCEPT !.version = @ + 1, !.png = NoArt, !.pdf = NoArt]
BumpedSameVersion(r) == [r EXCEPT !.status = "draft", !.png = NoArt, !.pdf = NoArt]

\* bump_version; image_path and pdf_path stay.
Bumped(r) == [r EXCEPT !.version = @ + 1, !.status = "draft",
                       !.png = NoArt, !.pdf = NoArt]

BumpVersion(s) ==
  /\ At(s, {"edit"}, "ready")
  /\ sess[s].snap.status \in Published
  /\ row.live
  /\ CanLock(s)
  /\ lock' = s
  /\ Keep(s, "commit", Bumped(sess[s].obj))
  /\ UNCHANGED <<row, files, disk>>

\* Mutant: a published plan is edited in place.
EditReadyInPlace(s) == At(s, {"edit"}, "ready") \/ At(s, {"edit"}, "commit")

\* A draft needs no bump, so its edit takes no lock on the plan's row.
EditReady(s) ==
  \/ At(s, {"edit"}, "commit")
  \/ At(s, {"edit"}, "ready") /\ sess[s].snap.status \notin Published

\* Mutants: an edit drops the recorded versions, or the old artefact.
CommitEditDroppingVersions(s, c) ==
  /\ EditReady(s)
  /\ row.live
  /\ row' = [Written(sess[s]) EXCEPT !.content = c]
  /\ files' = {}
  /\ Close(s)
  /\ UNCHANGED disk

CommitEditUnlinking(s, c) ==
  /\ EditReady(s)
  /\ row.live
  /\ row' = [Written(sess[s]) EXCEPT !.content = c]
  /\ disk' = {f \in disk : f[1] # row.path}
  /\ Close(s)
  /\ UNCHANGED files

CommitEdit(s, c) ==
  /\ EditReady(s)
  /\ row.live
  /\ row' = [Written(sess[s]) EXCEPT !.content = c]
  /\ Close(s)
  /\ UNCHANGED <<files, disk>>

-----------------------------------------------------------------------------
(* Rendering, in a worker thread, from the snapshot taken at load time.     *)

\* generate without force reuses the two files when both exist.
UseCache(s) ==
  /\ At(s, {"generate"}, "ready")
  /\ sess[s].snap.content \in Printable
  /\ OnDisk(RenderOf(sess[s]))
  /\ Goto(s, "rendered")
  /\ UNCHANGED <<row, files, disk, lock>>

\* ensure_artifacts finds something to send for both kinds.
UseArtifacts(s) ==
  /\ At(s, Delivering, "ready")
  /\ HaveBoth(sess[s])
  /\ Goto(s, FirstUpload(sess[s]))
  /\ UNCHANGED <<row, files, disk, lock>>

MustRender(s) ==
  \/ At(s, {"generate"}, "ready") /\ ~OnDisk(RenderOf(sess[s]))
  \/ At(s, {"regenerate"}, "ready")
  \/ At(s, Delivering, "ready") /\ ~HaveBoth(sess[s])

\* The PNG is written to a temporary file and renamed, then the PDF is; a plan
\* that does not validate raises PlanGenerationError instead.
RenderPng(s) ==
  /\ MustRender(s)
  /\ sess[s].snap.content \in Printable
  /\ disk' = disk \cup {<<RenderOf(sess[s]), "png">>}
  /\ Goto(s, "half")
  /\ UNCHANGED <<row, files, lock>>

RenderPdf(s) ==
  /\ sess[s].pc = "half"
  /\ disk' = disk \cup {<<RenderOf(sess[s]), "pdf">>}
  /\ Goto(s, "rendered")
  /\ UNCHANGED <<row, files, lock>>

Generated(x) == [x.obj EXCEPT !.status = "generated", !.path = RenderOf(x)]

\* mark_generated: the UPDATE and the INSERT of the plan_files row are flushed;
\* the cached file_ids are left as they are.
MarkGenerated(s) ==
  /\ sess[s].pc = "rendered"
  /\ row.live
  /\ CanLock(s)
  /\ lock' = s
  /\ sess' = [sess EXCEPT
       ![s] = [@ EXCEPT !.pc = FirstUpload(sess[s]), !.marked = TRUE,
                        !.obj = Generated(sess[s])]]
  /\ UNCHANGED <<row, files, disk>>

-----------------------------------------------------------------------------
(* Delivery through Telegram; remember_file_id stores what was uploaded.    *)

SendPhoto(s) ==
  /\ sess[s].pc = "photo"
  /\ FileToSend(sess[s], "png") # NoArt
  /\ sess[s].op = "send" => FileToSend(sess[s], "pdf") # NoArt
  /\ Keep(s, IF sess[s].op = "png" THEN "commit" ELSE "document",
          [sess[s].obj EXCEPT !.png = FileToSend(sess[s], "png")])
  /\ UNCHANGED <<row, files, disk, lock>>

SendDocument(s) ==
  /\ sess[s].pc = "document"
  /\ FileToSend(sess[s], "pdf") # NoArt
  /\ Keep(s, IF sess[s].op = "send" THEN "mark_sent" ELSE "commit",
          [sess[s].obj EXCEPT !.pdf = FileToSend(sess[s], "pdf")])
  /\ UNCHANGED <<row, files, disk, lock>>

\* input_for found nothing (the file vanished after ensure_artifacts): the
\* handler answers with an alert, or my_last leaves the PDF out, and returns.
NothingToSend(s) ==
  /\ \/ /\ At(s, {"png", "my_last"}, "photo")
        /\ FileToSend(sess[s], "png") = NoArt
     \/ At(s, {"send"}, "photo") /\ ~HaveBoth(sess[s])
     \/ /\ At(s, {"pdf", "my_last"}, "document")
        /\ FileToSend(sess[s], "pdf") = NoArt
  /\ Goto(s, "commit")
  /\ UNCHANGED <<row, files, disk, lock>>

\* Telegram accepts neither the photo nor its fallback.  send answers with an
\* alert and returns; the others call remember_file_id(plan, kind, None), which
\* raises AttributeError, and so does every handler for the PDF.
TelegramRefuses(s) ==
  /\ sess[s].pc \in {"photo", "document"}
  /\ Goto(s, IF At(s, {"send"}, "photo") THEN "commit" ELSE "error")
  /\ UNCHANGED <<row, files, disk, lock>>

MarkSent(s) ==
  /\ sess[s].pc = "mark_sent"
  /\ row.live
  /\ CanLock(s)
  /\ lock' = s
  /\ Keep(s, "commit", [sess[s].obj EXCEPT !.status = "sent"])
  /\ UNCHANGED <<row, files, disk>>

-----------------------------------------------------------------------------
(* Deleting the plan, and the admin's clean-up of unreferenced files.       *)

\* remove_plan_files: the artefacts are unlinked before the row is deleted.
UnlinkFiles(s) ==
  /\ At(s, {"delete"}, "ready")
  /\ disk' = {f \in disk : f[1] \notin sess[s].paths}
  /\ Goto(s, "unlinked")
  /\ UNCHANGED <<row, files, lock>>

CommitDelete(s) ==
  /\ At(s, {"delete"}, "unlinked")
  /\ CanLock(s)
  /\ row' = [NewRow(row.content) EXCEPT !.live = FALSE]
  /\ files' = {}
  /\ Close(s)
  /\ UNCHANGED disk

\* storage_report collects the paths the committed rows point at ...
ScanRows(s) ==
  /\ ~Active(s)
  /\ "cleanup" \in Ops
  /\ sess' = [sess EXCEPT
       ![s] = Loaded("cleanup", "ready", Idle.snap, PathsOf(row))]
  /\ UNCHANGED <<row, files, disk, lock>>

\* ... and delete_orphans unlinks every other PNG and PDF it then finds.
UnlinkOrphans(s) ==
  /\ At(s, {"cleanup"}, "ready")
  /\ disk' = {f \in disk : f[1] \in sess[s].paths}
  /\ Close(s)
  /\ UNCHANGED <<row, files>>

-----------------------------------------------------------------------------
(* The environment: the process dies, or is redeployed on an empty disk.    *)

Crash ==
  /\ Faults # {}
  /\ \E f \in Faults : disk' = IF f = "redeploy" THEN {} ELSE disk
  /\ sess' = [s \in Sessions |-> Idle]
  /\ lock' = NoSession
  /\ UNCHANGED <<row, files>>

-----------------------------------------------------------------------------

Step(s) ==
  \/ \E op \in Ops : LoadRow(s, op)
  \/ LoadDays(s)
  \/ BumpVersion(s)
  \/ \E c \in Contents : CommitEdit(s, c)
  \/ UseCache(s)
  \/ UseArtifacts(s)
  \/ RenderPng(s)
  \/ RenderPdf(s)
  \/ MarkGenerated(s)
  \/ SendPhoto(s)
  \/ SendDocument(s)
  \/ NothingToSend(s)
  \/ TelegramRefuses(s)
  \/ MarkSent(s)
  \/ UnlinkFiles(s)
  \/ CommitDelete(s)
  \/ ScanRows(s)
  \/ UnlinkOrphans(s)
  \/ Commit(s)
  \/ Rollback(s)

Next == Crash \/ \E s \in Sessions : Step(s)

Spec == Init /\ [][Next]_vars

\* The handler can only end by raising: its row is gone, its plan does not
\* validate, or remember_file_id was given no message.
Raises(s) ==
  \/ sess[s].pc = "error"
  \/ Active(s) /\ ~row.live /\ sess[s].op \notin {"delete", "cleanup"}
  \/ sess[s].pc = "days" /\ ~row.live
  \/ /\ MustRender(s) \/ At(s, {"generate"}, "ready")
     /\ sess[s].snap.content \notin Printable

\* Fairness: asyncio resumes a handler whose await is over, the render thread
\* and Telegram answer (a refusal and a timeout are answers), and PostgreSQL
\* grants a row lock to its waiters in turn: hence the strong form for the steps
\* that take it.  Other exceptions, crashes and new updates are not fair.
Progress(s) ==
  \/ LoadDays(s) \/ UseCache(s) \/ UseArtifacts(s) \/ RenderPng(s)
  \/ RenderPdf(s) \/ SendPhoto(s) \/ SendDocument(s) \/ NothingToSend(s)
  \/ TelegramRefuses(s) \/ UnlinkFiles(s) \/ UnlinkOrphans(s)
  \/ (\E c \in Contents : CommitEdit(s, c))
  \/ (Raises(s) /\ Rollback(s))

NeedsLock(s) ==
  BumpVersion(s) \/ MarkGenerated(s) \/ MarkSent(s) \/ CommitDelete(s)
  \/ Commit(s)

FairSpec ==
  Spec /\ \A s \in Sessions : WF_vars(Progress(s)) /\ SF_vars(NeedsLock(s))

-----------------------------------------------------------------------------
(* Properties.                                                             *)

\* Every value stays in its type, and the row lock is held only by a handler
\* with an uncommitted UPDATE (the columns of WeeklyPlanDB).
TypeOK ==
  /\ row \in Row
  /\ files \subseteq PlanFiles
  /\ sess \in [Sessions -> SessionStates]
  /\ disk \subseteq Art \X Kinds
  /\ lock \in Sessions \cup {NoSession}

\* Whatever handlers overlap, a plan that claims to be generated or sent points
\* at an artefact, and that artefact is one of its recorded versions: the two
\* are written by different statements of mark_generated and by other handlers'
\* partial UPDATEs.
RowArtefactRecorded ==
  row.live =>
    /\ row.status \in Published => row.path # NoArt
    /\ row.path # NoArt => \E f \in files : f.path = row.path

\* Whatever handlers overlap, a cached Telegram file_id is the upload of some
\* recorded version of this plan (remember_file_id, re-sends by file_id).
CachedIdsRecorded ==
  row.live =>
    \A k \in Kinds :
      LET id == IF k = "png" THEN row.png ELSE row.pdf
      IN id # NoArt => \E f \in files : f.path = id

\* A recorded version stays in plan_files as long as the plan exists (README:
\* "the previous version stays in plan_files"), whatever another handler's
\* snapshot looked like when it commits.
HistoryKept == [][row.live /\ row'.live => files \subseteq files']_vars

\* Every recorded version can be fetched from disk: mark_generated records it
\* only once both files are in place, and a crash cannot change that.
RecordedOnDisk == \A f \in files : OnDisk(f.path)

\* One handler at a time, the clean-up leaves the files of every recorded version
\* where they are (delete_orphans: "files no database row points at").
SparesRecorded ==
  \A s \in Sessions :
    UnlinkOrphans(s) => \A f \in files : OnDisk(f.path) => OnDisk(f.path)'
CleanupSparesRecorded == [][SparesRecorded]_vars

\* The artefact of a generated plan shows the plan as it is now.
GeneratedShowsContent ==
  row.live /\ row.status = "generated" =>
    row.path = [version |-> row.version, content |-> row.content]

\* A version number stands for one content: two generated versions with the
\* same number look the same.
OneContentPerVersion ==
  \A f, g \in files : f.version = g.version => f.path = g.path

\* Editing a generated or sent plan makes it a draft with the next version
\* number (README: "editing a generated plan adds 1 to the version").
OpensNewVersion ==
  /\ row.live /\ row'.live
  /\ row.status \in Published
  /\ row'.content # row.content
  => row'.version = row.version + 1 /\ row'.status = "draft"
EditOpensNewVersion == [][OpensNewVersion]_row

\* One handler at a time, the rows implement the versions the README promises.
Promise == INSTANCE PlanVersions WITH
  live <- row.live, version <- row.version, state <- row.status,
  content <- row.content, published <- {f.path : f \in files}

ImplementsVersions == Promise!Spec

\* What a sent plan delivered to the student is the plan as it was when it was
\* marked sent (delivery.py: the source of truth is always the plan data).
SentShowsContent ==
  row.live /\ row.status = "sent" =>
    \A id \in {row.png, row.pdf} : id # NoArt => id.content = row.content

\* Every handler that starts ends: no one waits for the row lock for ever.
HandlersFinish == \A s \in Sessions : Active(s) ~> ~Active(s)

=============================================================================
