------------------------ MODULE PlanLifecycleProofs --------------------------
(***************************************************************************)
(* Theorems about PlanLifecycle, for every set of sessions, contents and   *)
(* handlers, with or without faults; then about its regimes: what          *)
(* overlapping handlers that delete nothing leave on the disk, and what    *)
(* holds of the versions when handlers run one at a time, up to the        *)
(* refinement of PlanVersions.                                             *)
(***************************************************************************)
EXTENDS PlanRegimes, TLAPS

-----------------------------------------------------------------------------
(* Type correctness.                                                       *)

LEMMA NewRowType ==
  ASSUME NEW c \in Contents
  PROVE  NewRow(c) \in Row
  BY DEF NewRow, Row, Versions, Statuses

LEMMA IdleType == Idle \in SessionStates
  <1>1. (CHOOSE c \in Contents : TRUE) \in Contents
    BY ConstantsAssumption
  <1>2. NewRow(CHOOSE c \in Contents : TRUE) \in Row
    BY <1>1, NewRowType
  <1>3. QED
    BY <1>2 DEF Idle, Loaded, SessionStates, AllOps, PCs

LEMMA LoadedType ==
  ASSUME NEW op \in AllOps, NEW pc \in PCs, NEW r \in Row, NEW p \in SUBSET Art
  PROVE  Loaded(op, pc, r, p) \in SessionStates
  BY DEF Loaded, SessionStates

\* An artefact rendered from a well-typed snapshot is well-typed.
LEMMA RenderType ==
  ASSUME NEW x \in SessionStates
  PROVE  RenderOf(x) \in Art
  BY DEF RenderOf, SessionStates, Row, Art

\* A partial UPDATE leaves every column with the row's or the handler's value.
LEMMA WrittenType ==
  ASSUME row \in Row, NEW x \in SessionStates
  PROVE  Written(x) \in Row
  <1> DEFINE st == IF /\ x.obj.status = x.snap.status
                      /\ ~(x.marked /\ x.snap.status # "generated")
                   THEN row.status ELSE x.obj.status
             vn == IF x.obj.version = x.snap.version THEN row.version ELSE x.obj.version
             pa == IF x.obj.path = x.snap.path THEN row.path ELSE x.obj.path
             pn == IF x.obj.png = x.snap.png THEN row.png ELSE x.obj.png
             pf == IF x.obj.pdf = x.snap.pdf THEN row.pdf ELSE x.obj.pdf
  <1>1. x.obj \in Row
    BY DEF SessionStates
  <1>2. /\ st \in Statuses
        /\ vn \in Versions
        /\ pa \in Art \cup {NoArt}
        /\ pn \in Art \cup {NoArt}
        /\ pf \in Art \cup {NoArt}
    BY <1>1 DEF Row
  <1>3. Written(x) = [row EXCEPT !.version = vn, !.status = st, !.path = pa,
                                 !.png = pn, !.pdf = pf]
    BY DEF Written
  <1> HIDE DEF st, vn, pa, pn, pf
  <1>4. QED
    BY <1>2, <1>3 DEF Row

LEMMA FileToSendType ==
  ASSUME NEW x \in SessionStates, NEW k \in Kinds
  PROVE  FileToSend(x, k) \in Art \cup {NoArt}
  <1>1. InputFor(x, k) \in Art \cup {NoArt}
    BY DEF InputFor, CachedId, SessionStates, Row
  <1>2. QED
    BY <1>1, RenderType DEF FileToSend

LEMMA PathsType ==
  ASSUME files \subseteq PlanFiles, NEW r \in Row
  PROVE  PathsOf(r) \in SUBSET Art
  BY DEF PathsOf, PlanFiles, Row

LEMMA CloseType ==
  ASSUME TypeOK, NEW s \in Sessions, Close(s)
  PROVE  /\ sess' \in [Sessions -> SessionStates]
         /\ lock' \in Sessions \cup {NoSession}
  BY IdleType DEF Close, TypeOK

LEMMA ObjType ==
  ASSUME NEW x \in SessionStates
  PROVE  x.obj \in Row /\ x.snap \in Row
  BY DEF SessionStates

LEMMA BumpedType ==
  ASSUME NEW r \in Row
  PROVE  Bumped(r) \in Row
  <1>1. r.version + 1 \in Versions
    BY DEF Row, Versions
  <1>2. QED
    BY <1>1 DEF Bumped, Row, Statuses

LEMMA GeneratedType ==
  ASSUME NEW x \in SessionStates
  PROVE  Generated(x) \in Row
  BY ObjType, RenderType DEF Generated, Row, Statuses

LEMMA KeepType ==
  ASSUME TypeOK, NEW s \in Sessions, NEW pc \in PCs, NEW r \in Row,
         Keep(s, pc, r)
  PROVE  sess' \in [Sessions -> SessionStates]
  BY DEF Keep, TypeOK, SessionStates

\* A handler's own step leaves a well-typed state: one step per action.
LEMMA StepType ==
  ASSUME TypeOK, NEW s \in Sessions, Step(s)
  PROVE  TypeOK'
  <1> USE DEF TypeOK
  <1>0. sess[s] \in SessionStates
    OBVIOUS
  <1>1. ASSUME NEW op \in Ops, LoadRow(s, op)
        PROVE  TypeOK'
    <2>1. op \in AllOps
      BY ConstantsAssumption
    <2>2. Loaded(op, "days", row, {}) \in SessionStates
      BY <2>1, LoadedType DEF PCs
    <2>3. QED
      BY <1>1, <2>2 DEF LoadRow
  <1>2. CASE LoadDays(s)
    <2> DEFINE full == [sess[s].snap EXCEPT !.content = row.content]
               paths == IF sess[s].op = "delete" THEN PathsOf(full) ELSE {}
    <2>1. full \in Row
      BY <1>0 DEF SessionStates, Row
    <2>2. paths \in SUBSET Art
      BY <2>1, PathsType
    <2>3. sess[s].op \in AllOps
      BY <1>0 DEF SessionStates
    <2>4. Loaded(sess[s].op, "ready", full, paths) \in SessionStates
      BY <2>1, <2>2, <2>3, LoadedType DEF PCs
    <2>5. sess' = [sess EXCEPT ![s] = Loaded(sess[s].op, "ready", full, paths)]
      BY <1>2 DEF LoadDays
    <2>6. QED
      BY <1>2, <2>4, <2>5 DEF LoadDays
  <1>3. CASE BumpVersion(s)
    BY <1>0, <1>3, ObjType, BumpedType, KeepType DEF BumpVersion, PCs
  <1>4. ASSUME NEW c \in Contents, CommitEdit(s, c)
        PROVE  TypeOK'
    <2>1. [Written(sess[s]) EXCEPT !.content = c] \in Row
      BY <1>0, WrittenType DEF Row
    <2>2. QED
      BY <1>4, <2>1, CloseType DEF CommitEdit
  <1>5. CASE UseCache(s) \/ UseArtifacts(s) \/ NothingToSend(s)
             \/ TelegramRefuses(s)
    BY <1>0, <1>5 DEF UseCache, UseArtifacts, NothingToSend, TelegramRefuses,
       Goto, FirstUpload, SessionStates, PCs
  <1>6. CASE RenderPng(s) \/ RenderPdf(s)
    BY <1>0, <1>6, RenderType DEF RenderPng, RenderPdf, Goto, SessionStates,
       PCs, Kinds
  <1>7. CASE MarkGenerated(s)
    <2>1. /\ FirstUpload(sess[s]) \in PCs
          /\ Generated(sess[s]) \in Row
      BY <1>0, GeneratedType DEF FirstUpload, PCs
    <2>2. QED
      BY <1>0, <1>7, <2>1 DEF MarkGenerated, SessionStates
  <1>8. CASE SendPhoto(s)
    <2>1. [sess[s].obj EXCEPT !.png = FileToSend(sess[s], "png")] \in Row
      BY <1>0, ObjType, FileToSendType DEF Row, Kinds
    <2>2. QED
      BY <1>8, <2>1, KeepType DEF SendPhoto, PCs
  <1>9. CASE SendDocument(s)
    <2>1. [sess[s].obj EXCEPT !.pdf = FileToSend(sess[s], "pdf")] \in Row
      BY <1>0, ObjType, FileToSendType DEF Row, Kinds
    <2>2. QED
      BY <1>9, <2>1, KeepType DEF SendDocument, PCs
  <1>10. CASE MarkSent(s)
    <2>1. [sess[s].obj EXCEPT !.status = "sent"] \in Row
      BY <1>0, ObjType DEF Row, Statuses
    <2>2. QED
      BY <1>10, <2>1, KeepType DEF MarkSent, PCs
  <1>11. CASE UnlinkFiles(s)
    BY <1>0, <1>11 DEF UnlinkFiles, Goto, SessionStates, PCs
  <1>12. CASE CommitDelete(s)
    <2>1. [NewRow(row.content) EXCEPT !.live = FALSE] \in Row
      BY NewRowType DEF Row
    <2>2. QED
      BY <1>12, <2>1, CloseType DEF CommitDelete
  <1>13. CASE ScanRows(s)
    <2>1. Loaded("cleanup", "ready", Idle.snap, PathsOf(row)) \in SessionStates
      <3>1. Idle.snap \in Row
        BY IdleType DEF SessionStates
      <3>2. PathsOf(row) \in SUBSET Art
        BY PathsType
      <3>3. "cleanup" \in AllOps /\ "ready" \in PCs
        BY DEF AllOps, PCs
      <3>4. QED
        BY <3>1, <3>2, <3>3, LoadedType
    <2>2. QED
      BY <1>13, <2>1 DEF ScanRows
  <1>14. CASE UnlinkOrphans(s)
    BY <1>14, CloseType DEF UnlinkOrphans
  <1>15. CASE Commit(s)
    <2>1. NewFiles(sess[s]) \subseteq PlanFiles
      BY <1>0, RenderType DEF NewFiles, PlanFiles, SessionStates, Row
    <2>2. QED
      BY <1>0, <1>15, <2>1, WrittenType, CloseType DEF Commit
  <1>16. CASE Rollback(s)
    BY <1>16, CloseType DEF Rollback
  <1>17. QED
    BY <1>1, <1>2, <1>3, <1>4, <1>5, <1>6, <1>7, <1>8, <1>9, <1>10, <1>11,
       <1>12, <1>13, <1>14, <1>15, <1>16 DEF Step

LEMMA CrashType ==
  ASSUME TypeOK, Crash
  PROVE  TypeOK'
  BY IdleType DEF Crash, TypeOK

\* Every reachable state is well-typed, whatever handlers overlap.
THEOREM TypeCorrect == Spec => []TypeOK
  <1>1. Init => TypeOK
    BY NewRowType, IdleType DEF Init, TypeOK
  <1>2. TypeOK /\ [Next]_vars => TypeOK'
    <2> SUFFICES ASSUME TypeOK, [Next]_vars
                 PROVE  TypeOK'
      OBVIOUS
    <2>1. CASE Crash
      BY <2>1, CrashType
    <2>2. CASE \E s \in Sessions : Step(s)
      BY <2>2, StepType
    <2>3. CASE UNCHANGED vars
      BY <2>3 DEF TypeOK, vars
    <2>4. QED
      BY <2>1, <2>2, <2>3 DEF Next
  <1>3. QED
    BY <1>1, <1>2, PTL DEF Spec

-----------------------------------------------------------------------------
(* Recorded artefacts.  The inductive invariant says of every handler in    *)
(* flight where each artefact it holds comes from: what it loaded was       *)
(* recorded when it loaded it, and stays recorded because plan_files only   *)
(* grows; the only other artefact it can hold is the one it rendered, which *)
(* it records in the same transaction.                                      *)

Recorded == {f.path : f \in files}

RowSound(r, rec) ==
  /\ {r.path, r.png, r.pdf} \subseteq rec \cup {NoArt}
  /\ r.status \in Published => r.path # NoArt

\* The artefacts that handler x's transaction adds to plan_files.
Rendered(x) == IF x.marked THEN {RenderOf(x)} ELSE {}

\* What handler x loaded was recorded, and a path once set is never unset.
SnapSound(x, r, rec) ==
  /\ {x.snap.path, x.snap.png, x.snap.pdf} \subseteq rec \cup {NoArt}
  /\ x.snap.status \in Published => x.snap.path # NoArt
  /\ x.snap.path # NoArt => r.path # NoArt

\* What it will write is recorded or is what it rendered.
ObjSound(x, rec) ==
  /\ x.obj.path = IF x.marked THEN RenderOf(x) ELSE x.snap.path
  /\ {x.obj.png, x.obj.pdf} \subseteq rec \cup {NoArt} \cup Rendered(x)
  /\ x.obj.status \in Published => x.obj.path # NoArt

\* How far it is says whether it has run mark_generated.
StageSound(x) ==
  /\ x.op = "send" => x.obj.path # NoArt
  /\ x.pc = "mark_sent" => x.op = "send"
  /\ x.marked => /\ x.op \in Generating \cup Delivering
                 /\ x.pc \in {"photo", "document", "mark_sent", "commit", "error"}
  /\ x.pc \in {"half", "rendered", "photo", "document", "mark_sent"} =>
       x.op \in Generating \cup Delivering
  /\ x.op \in Generating /\ x.pc \in {"photo", "document", "commit"} => x.marked

Sound(x, r, rec) == SnapSound(x, r, rec) /\ ObjSound(x, rec) /\ StageSound(x)

RefInv ==
  row.live =>
    /\ RowSound(row, Recorded)
    /\ \A s \in Sessions : Sound(sess[s], row, Recorded)

\* Growing plan_files and keeping a path set disturb no other handler.
LEMMA OthersSound ==
  ASSUME NEW x, NEW r, NEW rec, NEW r2, NEW rec2, Sound(x, r, rec),
         rec \subseteq rec2, r.path # NoArt => r2.path # NoArt
  PROVE  Sound(x, r2, rec2)
  BY DEF Sound, SnapSound, ObjSound, StageSound

\* A closed session holds nothing, so it is sound whatever the row is.
LEMMA IdleSound ==
  ASSUME NEW r, NEW rec
  PROVE  Sound(Idle, r, rec)
  BY DEF Idle, Loaded, NewRow, Sound, SnapSound, ObjSound, StageSound, Rendered,
         Published, Generating, Delivering

\* A session that has just loaded a sound row is sound.
LEMMA LoadedSound ==
  ASSUME NEW op \in AllOps, NEW pc \in {"days", "ready"}, NEW p, NEW snap,
         NEW r, NEW rec,
         SnapSound([snap |-> snap], r, rec), op = "send" => snap.path # NoArt
  PROVE  Sound(Loaded(op, pc, snap, p), r, rec)
  BY DEF Loaded, Sound, SnapSound, ObjSound, StageSound, Rendered, RenderOf

\* A step of s that leaves the row and plan_files alone.
LEMMA LocalStep ==
  ASSUME TypeOK, RefInv, NEW s \in Sessions, UNCHANGED <<row, files>>,
         NEW x, sess' = [sess EXCEPT ![s] = x],
         row.live => Sound(x, row, Recorded)
  PROVE  RefInv'
  <1>1. Recorded' = Recorded
    BY DEF Recorded
  <1>2. \A t \in Sessions : sess'[t] = IF t = s THEN x ELSE sess[t]
    BY DEF TypeOK
  <1>3. QED
    BY <1>1, <1>2 DEF RefInv

\* A transaction of s ends, leaving the row r sound and plan_files grown.
LEMMA CommitStep ==
  ASSUME TypeOK, RefInv, NEW s \in Sessions, Close(s), row'.live => row.live,
         Recorded \subseteq Recorded',
         row.live => /\ row.path # NoArt => row'.path # NoArt
                     /\ RowSound(row', Recorded')
  PROVE  RefInv'
  <1>1. \A t \in Sessions : sess'[t] = IF t = s THEN Idle ELSE sess[t]
    BY DEF TypeOK, Close
  <1>2. SUFFICES ASSUME row'.live
                 PROVE  /\ RowSound(row', Recorded')
                        /\ \A t \in Sessions : Sound(sess'[t], row', Recorded')
    BY DEF RefInv
  <1>3. ASSUME NEW t \in Sessions
        PROVE  Sound(sess'[t], row', Recorded')
    <2>1. CASE t = s
      BY <1>1, <2>1, IdleSound
    <2>2. CASE t # s
      <3>1. Sound(sess[t], row, Recorded)
        BY <1>2 DEF RefInv
      <3>2. Sound(sess[t], row', Recorded')
        BY <1>2, <3>1, OthersSound
      <3>3. QED
        BY <1>1, <2>2, <3>2
    <2>3. QED
      BY <2>1, <2>2
  <1>4. QED
    BY <1>2, <1>3

\* Whatever a handler uploads is recorded or is what it rendered.
LEMMA UploadSound ==
  ASSUME NEW x \in SessionStates, NEW r, NEW rec, Sound(x, r, rec),
         NEW k \in Kinds, x.pc \in {"photo", "document"}
  PROVE  FileToSend(x, k) \in rec \cup {NoArt} \cup Rendered(x)
  <1>1. CASE x.op \in Generating
    <2>1. x.marked
      BY <1>1 DEF Sound, StageSound
    <2>2. QED
      BY <1>1, <2>1 DEF FileToSend, Rendered
  <1>2. CASE x.op \notin Generating
    <2>1. CachedId(x, k) \in rec \cup {NoArt} \cup Rendered(x)
      BY DEF CachedId, Sound, ObjSound
    <2>2. x.obj.path \in rec \cup {NoArt} \cup Rendered(x)
      BY DEF Sound, ObjSound, SnapSound, Rendered
    <2>3. QED
      BY <1>2, <2>1, <2>2 DEF FileToSend, InputFor
  <1>3. QED
    BY <1>1, <1>2

\* The row that a sound handler's UPDATE leaves is sound, and so is its path.
LEMMA WrittenSound ==
  ASSUME row \in Row, NEW x \in SessionStates, NEW rec,
         RowSound(row, rec), Sound(x, row, rec)
  PROVE  /\ RowSound(Written(x), rec \cup Rendered(x))
         /\ row.path # NoArt => Written(x).path # NoArt
         /\ Written(x).live = row.live
  <1> DEFINE w == Written(x)
  <1>1. /\ w.live = row.live
        /\ w.path = IF x.obj.path = x.snap.path THEN row.path ELSE x.obj.path
        /\ w.png \in {row.png, x.obj.png}
        /\ w.pdf \in {row.pdf, x.obj.pdf}
        /\ w.status \in {row.status, x.obj.status}
    BY DEF Written, Row
  <1> HIDE DEF w
  <1>2. RenderOf(x) # NoArt
    BY RenderType, NoArtAssumption
  <1>3. {w.path, w.png, w.pdf} \subseteq rec \cup Rendered(x) \cup {NoArt}
    BY <1>1 DEF RowSound, Sound, ObjSound, Rendered
  <1>4. row.path # NoArt => w.path # NoArt
    BY <1>1, <1>2 DEF Sound, ObjSound
  <1>5. w.status \in Published => w.path # NoArt
    BY <1>1, <1>2, <1>4 DEF RowSound, Sound, ObjSound, SnapSound
  <1>6. QED
    BY <1>1, <1>3, <1>4, <1>5 DEF w, RowSound

\* What a commit adds to plan_files adds exactly the artefact it rendered.
LEMMA NewFilesRecorded ==
  ASSUME NEW x
  PROVE  {f.path : f \in files \cup NewFiles(x)} = Recorded \cup Rendered(x)
  <1>1. CASE x.marked
    <2> DEFINE new == [version |-> x.obj.version, path |-> RenderOf(x)]
    <2>1. new.path = RenderOf(x)
      OBVIOUS
    <2>2. NewFiles(x) = {new} /\ Rendered(x) = {RenderOf(x)}
      BY <1>1 DEF NewFiles, Rendered
    <2> HIDE DEF new
    <2>3. QED
      BY <2>1, <2>2 DEF Recorded
  <1>2. CASE ~x.marked
    BY <1>2 DEF NewFiles, Rendered, Recorded
  <1>3. QED
    BY <1>1, <1>2

\* A step of s that only moves it to another pc.
LEMMA GotoStep ==
  ASSUME TypeOK, RefInv, NEW s \in Sessions, UNCHANGED <<row, files>>,
         NEW pc \in PCs, Goto(s, pc),
         row.live => StageSound([sess[s] EXCEPT !.pc = pc])
  PROVE  RefInv'
  <1> DEFINE new == [sess[s] EXCEPT !.pc = pc]
  <1>1. sess' = [sess EXCEPT ![s] = new]
    BY DEF Goto
  <1>2. row.live => Sound(new, row, Recorded)
    BY DEF RefInv, TypeOK, Sound, SnapSound, ObjSound, Rendered, RenderOf,
       SessionStates
  <1> HIDE DEF new
  <1>3. QED
    BY <1>1, <1>2, LocalStep

\* A handler's step keeps every reference recorded: one step per action.
LEMMA StepRef ==
  ASSUME TypeOK, RefInv, NEW s \in Sessions, Step(s)
  PROVE  RefInv'
  <1> DEFINE x == sess[s]
  <1>0. /\ x \in SessionStates
        /\ row.live => Sound(x, row, Recorded)
        /\ row.live => RowSound(row, Recorded)
    BY DEF TypeOK, RefInv
  <1>1. ASSUME NEW op \in Ops, LoadRow(s, op)
        PROVE  RefInv'
    <2>1. SnapSound([snap |-> row], row, Recorded)
      BY <1>0, <1>1 DEF LoadRow, RowSound, SnapSound
    <2>2. op = "send" => row.path # NoArt
      BY <1>1 DEF LoadRow, Allowed
    <2>3. Sound(Loaded(op, "days", row, {}), row, Recorded)
      BY <2>1, <2>2, ConstantsAssumption, LoadedSound
    <2>4. QED
      BY <1>1, <2>3, LocalStep DEF LoadRow
  <1>2. CASE LoadDays(s)
    <2> DEFINE full == [x.snap EXCEPT !.content = row.content]
               paths == IF x.op = "delete" THEN PathsOf(full) ELSE {}
    <2>1. sess' = [sess EXCEPT ![s] = Loaded(x.op, "ready", full, paths)]
      BY <1>2 DEF LoadDays
    <2>2. ASSUME row.live
          PROVE  Sound(Loaded(x.op, "ready", full, paths), row, Recorded)
      <3>1. SnapSound([snap |-> full], row, Recorded)
        BY <1>0, <2>2 DEF Sound, SnapSound, SessionStates, Row
      <3>2. x.op = "send" => full.path # NoArt
        BY <1>0, <1>2, <2>2 DEF LoadDays, Sound, ObjSound, StageSound,
           SessionStates, Row
      <3>3. x.op \in AllOps
        BY <1>0 DEF SessionStates
      <3> HIDE DEF full, paths
      <3>4. QED
        BY <3>1, <3>2, <3>3, LoadedSound
    <2> HIDE DEF full, paths
    <2>3. QED
      BY <1>2, <2>1, <2>2, LocalStep DEF LoadDays
  <1>3. CASE BumpVersion(s)
    <2> DEFINE new == [x EXCEPT !.pc = "commit", !.obj = Bumped(x.obj)]
    <2>1. row.live => Sound(new, row, Recorded)
      BY <1>0, <1>3 DEF BumpVersion, At, Bumped, Sound, SnapSound, ObjSound,
         StageSound, Rendered, RenderOf, SessionStates, Row, Generating,
         Delivering, Published
    <2>2. sess' = [sess EXCEPT ![s] = new]
      BY <1>3 DEF BumpVersion, Keep
    <2> HIDE DEF new
    <2>3. QED
      BY <1>3, <2>1, <2>2, LocalStep DEF BumpVersion
  <1>4. ASSUME NEW c \in Contents, CommitEdit(s, c)
        PROVE  RefInv'
    <2>1. row' = [Written(x) EXCEPT !.content = c] /\ files' = files /\ Close(s)
      BY <1>4 DEF CommitEdit
    <2>2. Recorded' = Recorded
      BY <2>1 DEF Recorded
    <2>3. ASSUME row.live
          PROVE  /\ row.path # NoArt => row'.path # NoArt
                 /\ RowSound(row', Recorded')
      <3>1. Rendered(x) = {}
        BY <1>0, <1>4, <2>3 DEF CommitEdit, EditReady, At, Sound, StageSound,
           Rendered, Generating, Delivering
      <3>2. /\ RowSound(Written(x), Recorded \cup Rendered(x))
            /\ row.path # NoArt => Written(x).path # NoArt
        BY <1>0, <2>3, WrittenSound DEF TypeOK
      <3>3. Written(x) \in Row
        BY <1>0, WrittenType DEF TypeOK
      <3>4. QED
        BY <2>1, <2>2, <3>1, <3>2, <3>3 DEF RowSound, Row
    <2>4. row.live
      BY <1>4 DEF CommitEdit
    <2>5. QED
      BY <2>1, <2>2, <2>3, <2>4, CommitStep
  <1>5. CASE UseCache(s) \/ UseArtifacts(s)
    <2>1. PICK pc \in {"rendered", "photo", "document"} :
            /\ Goto(s, pc) /\ UNCHANGED <<row, files>>
            /\ x.pc = "ready"
            /\ \/ pc = "rendered" /\ x.op = "generate"
               \/ x.op \in Delivering
      BY <1>5 DEF UseCache, UseArtifacts, FirstUpload, At
    <2>2. row.live => StageSound([x EXCEPT !.pc = pc])
      BY <1>0, <2>1 DEF Sound, StageSound, SessionStates, Generating, Delivering
    <2>3. pc \in PCs
      BY DEF PCs
    <2>4. QED
      BY <2>1, <2>2, <2>3, GotoStep
  <1>6. CASE NothingToSend(s) \/ TelegramRefuses(s)
    <2>1. PICK pc \in {"commit", "error"} :
            /\ Goto(s, pc) /\ UNCHANGED <<row, files>>
            /\ x.pc \in {"photo", "document"}
            /\ pc = "commit" => x.op \in Delivering
      BY <1>6 DEF NothingToSend, TelegramRefuses, At, Delivering
    <2>2. row.live => StageSound([x EXCEPT !.pc = pc])
      BY <1>0, <2>1 DEF Sound, StageSound, SessionStates, Generating, Delivering
    <2>3. pc \in PCs
      BY DEF PCs
    <2>4. QED
      BY <2>1, <2>2, <2>3, GotoStep
  <1>7. CASE RenderPng(s) \/ RenderPdf(s)
    <2>1. PICK pc \in {"half", "rendered"} :
            /\ Goto(s, pc) /\ UNCHANGED <<row, files>>
            /\ \/ x.pc = "ready" /\ x.op \in Generating \cup Delivering
               \/ x.pc = "half"
      BY <1>7 DEF RenderPng, RenderPdf, MustRender, At, Generating
    <2>2. row.live => StageSound([x EXCEPT !.pc = pc])
      BY <1>0, <2>1 DEF Sound, StageSound, SessionStates, Generating, Delivering
    <2>3. pc \in PCs
      BY DEF PCs
    <2>4. QED
      BY <2>1, <2>2, <2>3, GotoStep
  <1>8. CASE MarkGenerated(s)
    <2> DEFINE new == [x EXCEPT !.pc = FirstUpload(x), !.marked = TRUE,
                                !.obj = Generated(x)]
    <2>1. sess' = [sess EXCEPT ![s] = new]
      BY <1>8 DEF MarkGenerated
    <2>2. row.live => SnapSound(new, row, Recorded)
      BY <1>0 DEF Sound, SnapSound, SessionStates
    <2>3. row.live => ObjSound(new, Recorded)
      <3>1. RenderOf(new) = RenderOf(x) /\ RenderOf(x) # NoArt
        BY <1>0, RenderType, NoArtAssumption DEF RenderOf, SessionStates
      <3>2. Rendered(new) = {RenderOf(x)} /\ Rendered(x) \subseteq {RenderOf(x)}
        BY <1>0, <3>1 DEF Rendered, SessionStates
      <3>3. /\ new.obj.path = RenderOf(x) /\ new.marked
            /\ new.obj.png = x.obj.png /\ new.obj.pdf = x.obj.pdf
        BY <1>0 DEF Generated, SessionStates, Row
      <3> HIDE DEF new
      <3>4. QED
        BY <1>0, <3>1, <3>2, <3>3 DEF Sound, ObjSound
    <2>4. row.live => StageSound(new)
      <3>1. RenderOf(x) # NoArt
        BY <1>0, RenderType, NoArtAssumption
      <3>2. /\ new.op = x.op /\ new.marked
            /\ new.pc \in {"photo", "document"}
            /\ new.obj.path = RenderOf(x)
        BY <1>0 DEF FirstUpload, Generated, SessionStates, Row
      <3>3. row.live => x.op \in Generating \cup Delivering
        BY <1>0, <1>8 DEF MarkGenerated, Sound, StageSound
      <3> HIDE DEF new
      <3>4. QED
        BY <3>1, <3>2, <3>3 DEF StageSound
    <2>5. row' = row /\ files' = files
      BY <1>8 DEF MarkGenerated
    <2> HIDE DEF new
    <2>6. QED
      BY <2>1, <2>2, <2>3, <2>4, <2>5, LocalStep DEF Sound
  <1>9. CASE SendPhoto(s)
    <2> DEFINE a == FileToSend(x, "png")
               new == [x EXCEPT
                 !.pc = IF x.op = "png" THEN "commit" ELSE "document",
                 !.obj = [x.obj EXCEPT !.png = a]]
    <2>1. sess' = [sess EXCEPT ![s] = new] /\ UNCHANGED <<row, files>>
      BY <1>9 DEF SendPhoto, Keep
    <2>2. row.live => a \in Recorded \cup {NoArt} \cup Rendered(x)
      BY <1>0, <1>9, UploadSound DEF SendPhoto, Kinds
    <2>3. x.pc = "photo"
      BY <1>9 DEF SendPhoto
    <2> HIDE DEF a
    <2>4. row.live => Sound(new, row, Recorded)
      BY <1>0, <2>2, <2>3 DEF Sound, SnapSound, ObjSound, StageSound, Rendered,
         RenderOf, SessionStates, Row, Generating, Delivering
    <2> HIDE DEF new
    <2>5. QED
      BY <2>1, <2>4, LocalStep
  <1>10. CASE SendDocument(s)
    <2> DEFINE a == FileToSend(x, "pdf")
               new == [x EXCEPT
                 !.pc = IF x.op = "send" THEN "mark_sent" ELSE "commit",
                 !.obj = [x.obj EXCEPT !.pdf = a]]
    <2>1. sess' = [sess EXCEPT ![s] = new] /\ UNCHANGED <<row, files>>
      BY <1>10 DEF SendDocument, Keep
    <2>2. row.live => a \in Recorded \cup {NoArt} \cup Rendered(x)
      BY <1>0, <1>10, UploadSound DEF SendDocument, Kinds
    <2>3. x.pc = "document"
      BY <1>10 DEF SendDocument
    <2> HIDE DEF a
    <2>4. row.live => Sound(new, row, Recorded)
      BY <1>0, <2>2, <2>3 DEF Sound, SnapSound, ObjSound, StageSound, Rendered,
         RenderOf, SessionStates, Row, Generating, Delivering
    <2> HIDE DEF new
    <2>5. QED
      BY <2>1, <2>4, LocalStep
  <1>11. CASE MarkSent(s)
    <2> DEFINE new == [x EXCEPT !.pc = "commit",
                                !.obj = [x.obj EXCEPT !.status = "sent"]]
    <2>1. sess' = [sess EXCEPT ![s] = new] /\ UNCHANGED <<row, files>>
      BY <1>11 DEF MarkSent, Keep
    <2>2. row.live => Sound(new, row, Recorded)
      BY <1>0, <1>11 DEF MarkSent, Sound, SnapSound, ObjSound, StageSound,
         Rendered, RenderOf, SessionStates, Row, Generating, Delivering
    <2> HIDE DEF new
    <2>3. QED
      BY <2>1, <2>2, LocalStep
  <1>12. CASE UnlinkFiles(s)
    <2>1. row.live => StageSound([x EXCEPT !.pc = "unlinked"])
      BY <1>0, <1>12 DEF UnlinkFiles, At, Sound, StageSound, SessionStates
    <2>2. QED
      BY <1>12, <2>1, GotoStep DEF UnlinkFiles, PCs
  <1>13. CASE CommitDelete(s)
    <2>1. row'.live = FALSE
      BY <1>13 DEF CommitDelete, NewRow
    <2>2. QED
      BY <2>1 DEF RefInv
  <1>14. CASE ScanRows(s)
    <2> DEFINE new == Loaded("cleanup", "ready", Idle.snap, PathsOf(row))
    <2>1. Sound(new, row, Recorded)
      <3>1. SnapSound([snap |-> Idle.snap], row, Recorded)
        BY IdleSound DEF Sound, SnapSound
      <3>2. QED
        BY <3>1, LoadedSound DEF AllOps
    <2>2. QED
      BY <1>14, <2>1, LocalStep DEF ScanRows
  <1>15. CASE UnlinkOrphans(s) \/ Rollback(s)
    <2>1. Close(s) /\ UNCHANGED <<row, files>>
      BY <1>15 DEF UnlinkOrphans, Rollback
    <2>2. sess' = [sess EXCEPT ![s] = Idle]
      BY <2>1 DEF Close
    <2>3. QED
      BY <2>1, <2>2, IdleSound, LocalStep
  <1>16. CASE Commit(s)
    <2>1. row' = Written(x) /\ files' = files \cup NewFiles(x) /\ Close(s)
      BY <1>16 DEF Commit
    <2>2. Recorded' = Recorded \cup Rendered(x)
      BY <2>1, NewFilesRecorded DEF Recorded
    <2>3. row'.live = row.live
      BY <1>0, <2>1 DEF Written, TypeOK, Row
    <2>4. row.live => /\ RowSound(row', Recorded')
                      /\ row.path # NoArt => row'.path # NoArt
      BY <1>0, <2>1, <2>2, WrittenSound DEF TypeOK
    <2>5. QED
      BY <2>1, <2>2, <2>3, <2>4, CommitStep
  <1>17. QED
    BY <1>1, <1>2, <1>3, <1>4, <1>5, <1>6, <1>7, <1>8, <1>9, <1>10, <1>11,
       <1>12, <1>13, <1>14, <1>15, <1>16 DEF Step

LEMMA RefInvariant == Spec => [](TypeOK /\ RefInv)
  <1>1. Init => RefInv
    BY IdleSound DEF Init, NewRow, RefInv, RowSound, Published
  <1>2. TypeOK /\ RefInv /\ [Next]_vars => RefInv'
    <2> SUFFICES ASSUME TypeOK, RefInv, [Next]_vars
                 PROVE  RefInv'
      OBVIOUS
    <2>1. CASE Crash
      <3>1. UNCHANGED <<row, files>> /\ \A s \in Sessions : sess'[s] = Idle
        BY <2>1 DEF Crash
      <3>2. QED
        BY <3>1, IdleSound DEF RefInv, Recorded
    <2>2. CASE \E s \in Sessions : Step(s)
      BY <2>2, StepRef
    <2>3. CASE UNCHANGED vars
      BY <2>3 DEF vars, RefInv, Recorded
    <2>4. QED
      BY <2>1, <2>2, <2>3 DEF Next
  <1>3. QED
    BY <1>1, <1>2, TypeCorrect, PTL DEF Spec

\* Whatever handlers overlap, fail or are cut short, a generated or sent plan
\* points at an artefact, and that artefact is in its plan_files history.
THEOREM ArtefactRecorded == Spec => []RowArtefactRecorded
  <1>1. RefInv => RowArtefactRecorded
    BY NoArtAssumption DEF RefInv, RowSound, Recorded, RowArtefactRecorded
  <1>2. QED
    BY <1>1, RefInvariant, PTL

\* Whatever handlers overlap, fail or are cut short, a cached file_id is the
\* upload of an artefact in the plan's history.
THEOREM IdsRecorded == Spec => []CachedIdsRecorded
  <1>1. RefInv => CachedIdsRecorded
    BY NoArtAssumption DEF RefInv, RowSound, Recorded, CachedIdsRecorded
  <1>2. QED
    BY <1>1, RefInvariant, PTL

\* No step of any handler, and no crash, takes a version out of the history of
\* a plan that still exists.
THEOREM HistoryIsKept == Spec => HistoryKept
  <1>1. TypeOK /\ [Next]_vars => [row.live /\ row'.live => files \subseteq files']_vars
    <2> SUFFICES ASSUME TypeOK, Next, row.live, row'.live
                 PROVE  files \subseteq files'
      OBVIOUS
    <2>1. CASE Crash
      BY <2>1 DEF Crash
    <2>2. ASSUME NEW s \in Sessions, Step(s)
          PROVE  files \subseteq files'
      <3>1. CASE CommitDelete(s)
        BY <3>1 DEF CommitDelete, NewRow
      <3>2. CASE Commit(s)
        BY <3>2 DEF Commit
      <3>3. CASE ~CommitDelete(s) /\ ~Commit(s)
        <4>1. files' = files
          BY <2>2, <3>3 DEF Step, LoadRow, LoadDays, BumpVersion, CommitEdit,
             UseCache, UseArtifacts, RenderPng, RenderPdf, MarkGenerated,
             SendPhoto, SendDocument, NothingToSend, TelegramRefuses, MarkSent,
             UnlinkFiles, ScanRows, UnlinkOrphans, Rollback
        <4>2. QED
          BY <4>1
      <3>4. QED
        BY <3>1, <3>2, <3>3
    <2>3. QED
      BY <2>1, <2>2 DEF Next
  <1>2. QED
    BY <1>1, TypeCorrect, PTL DEF Spec, HistoryKept

-----------------------------------------------------------------------------
(* Overlap.                                                                *)

\* The files of a handler that is about to record what it rendered, or has.
FilesMade(x, d) ==
  /\ x.pc = "half" => <<RenderOf(x), "png">> \in d
  /\ x.pc = "rendered" \/ x.marked => \A k \in Kinds : <<RenderOf(x), k>> \in d

OInv ==
  /\ RecordedOnDisk
  /\ \A s \in Sessions : (Active(s) => sess[s].op \in OverlapOps) /\ FilesMade(sess[s], disk)
OverlapInv == regime = "overlap" => OInv

LEMMA OverlapActive ==
  ASSUME OInv, NEW s \in Sessions, sess[s].pc # "idle"
  PROVE  sess[s].op \notin {"delete", "cleanup"}
  BY RegimesAssumption DEF OInv, Active

\* Artefacts of a handler in flight stay on a disk that only grows.
LEMMA FilesMadeGrows ==
  ASSUME NEW x, NEW d, NEW d2, FilesMade(x, d), d \subseteq d2
  PROVE  FilesMade(x, d2)
  BY DEF FilesMade

LEMMA IdlePc == Idle.pc = "idle"
  BY DEF Idle, Loaded

LEMMA IdleMade ==
  ASSUME NEW d
  PROVE  FilesMade(Idle, d)
  BY DEF FilesMade, Idle, Loaded

\* A step of s that unlinks nothing and records only what is on the disk.
LEMMA GrowStep ==
  ASSUME TypeOK, OInv, Overlap, NEW s \in Sessions, NEW x,
         sess' = [sess EXCEPT ![s] = x], disk \subseteq disk',
         FilesMade(x, disk'),
         \A f \in files' : f \in files \/ OnDisk(f.path)'
  PROVE  OInv'
  <1>1. \A t \in Sessions : sess'[t] = IF t = s THEN x ELSE sess[t]
    BY DEF TypeOK
  <1>2. \A t \in Sessions : FilesMade(sess'[t], disk')
    BY <1>1, FilesMadeGrows DEF OInv
  <1>3. RecordedOnDisk'
    BY DEF OInv, RecordedOnDisk, OnDisk
  <1>4. QED
    BY <1>2, <1>3 DEF OInv, Overlap

\* The same, when only the handler's pc and its row object change.
LEMMA HandlerStep ==
  ASSUME TypeOK, OInv, Overlap, NEW s \in Sessions, NEW pc, NEW r,
         sess' = [sess EXCEPT ![s] = [@ EXCEPT !.pc = pc, !.obj = r]],
         disk' = disk, files' = files,
         pc \notin {"half", "rendered"}
  PROVE  OInv'
  <1> DEFINE x == sess[s]
             new == [x EXCEPT !.pc = pc, !.obj = r]
  <1>1. x \in SessionStates /\ FilesMade(x, disk)
    BY DEF TypeOK, OInv
  <1>2. FilesMade(new, disk')
    BY <1>1 DEF FilesMade, RenderOf, SessionStates
  <1>3. sess' = [sess EXCEPT ![s] = new]
    OBVIOUS
  <1> HIDE DEF new
  <1>4. QED
    BY <1>2, <1>3, GrowStep

LEMMA HandlerGoto ==
  ASSUME TypeOK, OInv, Overlap, NEW s \in Sessions, NEW pc, Goto(s, pc),
         disk' = disk, files' = files,
         pc \notin {"half", "rendered"}
  PROVE  OInv'
  <1>1. sess[s] \in SessionStates
    BY DEF TypeOK
  <1>2. sess' = [sess EXCEPT ![s] = [@ EXCEPT !.pc = pc, !.obj = sess[s].obj]]
    BY <1>1 DEF Goto, TypeOK, SessionStates
  <1>3. QED
    BY <1>2, HandlerStep

LEMMA OverlapStep ==
  ASSUME TypeOK, OInv, Overlap, NEW s \in Sessions, Step(s)
  PROVE  OInv'
  <1> DEFINE x == sess[s]
  <1>0. x \in SessionStates /\ FilesMade(x, disk)
    BY DEF TypeOK, OInv
  <1>1. ASSUME NEW op \in Ops, LoadRow(s, op)
        PROVE  OInv'
    <2>1. FilesMade(Loaded(op, "days", row, {}), disk)
      BY DEF FilesMade, Loaded
    <2>2. QED
      BY <1>1, <2>1, GrowStep DEF LoadRow
  <1>2. CASE LoadDays(s)
    <2> DEFINE full == [x.snap EXCEPT !.content = row.content]
               paths == IF x.op = "delete" THEN PathsOf(full) ELSE {}
               new == Loaded(x.op, "ready", full, paths)
    <2>1. FilesMade(new, disk)
      BY DEF FilesMade, Loaded
    <2>2. /\ sess' = [sess EXCEPT ![s] = new]
          /\ UNCHANGED <<files, disk>>
      BY <1>2 DEF LoadDays
    <2> HIDE DEF new
    <2>3. QED
      BY <2>1, <2>2, GrowStep
  <1>3. CASE BumpVersion(s) \/ SendPhoto(s) \/ SendDocument(s) \/ MarkSent(s)
    <2>1. PICK pc \in {"commit", "document", "mark_sent"} : \E r :
            /\ Keep(s, pc, r) /\ UNCHANGED <<files, disk>>
      BY <1>3 DEF BumpVersion, SendPhoto, SendDocument, MarkSent
    <2>2. QED
      BY <2>1, HandlerStep DEF Keep
  <1>4. CASE UseArtifacts(s) \/ NothingToSend(s) \/ TelegramRefuses(s)
    <2>1. PICK pc \in {"photo", "document", "commit", "error"} :
            /\ Goto(s, pc) /\ UNCHANGED <<files, disk>>
      BY <1>4 DEF UseArtifacts, NothingToSend, TelegramRefuses, FirstUpload
    <2>2. QED
      BY <2>1, HandlerGoto
  <1>5. CASE UseCache(s) \/ RenderPng(s) \/ RenderPdf(s)
    <2>1. PICK pc \in {"half", "rendered"} :
            /\ Goto(s, pc) /\ files' = files /\ disk \subseteq disk'
            /\ <<RenderOf(x), "png">> \in disk'
            /\ pc = "rendered" => <<RenderOf(x), "pdf">> \in disk'
      BY <1>0, <1>5 DEF UseCache, RenderPng, RenderPdf, OnDisk, Kinds, FilesMade
    <2> DEFINE new == [x EXCEPT !.pc = pc]
    <2>2. RenderOf(new) = RenderOf(x) /\ new.marked = x.marked /\ new.pc = pc
      BY <1>0 DEF RenderOf, SessionStates
    <2>3. sess' = [sess EXCEPT ![s] = new]
      BY <2>1 DEF Goto
    <2>4. x.marked => \A k \in Kinds : <<RenderOf(x), k>> \in disk'
      BY <1>0, <2>1 DEF FilesMade
    <2> HIDE DEF new
    <2>5. FilesMade(new, disk')
      BY <2>1, <2>2, <2>4 DEF FilesMade, Kinds
    <2>6. QED
      BY <2>1, <2>3, <2>5, GrowStep
  <1>6. CASE MarkGenerated(s)
    <2> DEFINE new == [x EXCEPT !.pc = FirstUpload(x), !.marked = TRUE,
                                !.obj = Generated(x)]
    <2>1. sess' = [sess EXCEPT ![s] = new] /\ UNCHANGED <<files, disk>>
      BY <1>6 DEF MarkGenerated
    <2>2. \A k \in Kinds : <<RenderOf(x), k>> \in disk
      BY <1>0, <1>6 DEF MarkGenerated, FilesMade
    <2>3. RenderOf(new) = RenderOf(x) /\ new.pc \in {"photo", "document"}
      BY <1>0 DEF RenderOf, SessionStates, FirstUpload
    <2> HIDE DEF new
    <2>4. FilesMade(new, disk')
      BY <2>1, <2>2, <2>3 DEF FilesMade
    <2>5. QED
      BY <2>1, <2>4, GrowStep
  <1>7. CASE UnlinkFiles(s) \/ ScanRows(s) \/ UnlinkOrphans(s) \/ CommitDelete(s)
    <2>1. CASE ScanRows(s)
      <3>1. sess'[s] = Loaded("cleanup", "ready", Idle.snap, PathsOf(row))
        BY <2>1 DEF ScanRows, TypeOK
      <3>2. Active(s)' /\ sess'[s].op = "cleanup"
        BY <3>1 DEF Active, Loaded
      <3>3. QED
        BY <3>2, RegimesAssumption DEF Overlap
    <2>2. CASE UnlinkFiles(s) \/ UnlinkOrphans(s) \/ CommitDelete(s)
      <3>1. x.pc # "idle" /\ x.op \in {"delete", "cleanup"}
        BY <2>2 DEF UnlinkFiles, UnlinkOrphans, CommitDelete, At
      <3>2. QED
        BY <3>1, OverlapActive
    <2>3. QED
      BY <1>7, <2>1, <2>2
  <1>8. ASSUME \/ \E c \in Contents : CommitEdit(s, c)
               \/ Commit(s) \/ Rollback(s)
        PROVE  OInv'
    <2>1. Close(s) /\ disk' = disk
      BY <1>8 DEF CommitEdit, Commit, Rollback
    <2>2. files' \subseteq files \cup NewFiles(x)
      BY <1>8 DEF CommitEdit, Commit, Rollback
    <2>3. \A f \in NewFiles(x) : OnDisk(f.path)'
      BY <1>0, <2>1 DEF NewFiles, FilesMade, OnDisk
    <2>4. sess' = [sess EXCEPT ![s] = Idle]
      BY <2>1 DEF Close
    <2>5. QED
      BY <2>1, <2>2, <2>3, <2>4, IdleMade, GrowStep
  <1>9. QED
    BY <1>1, <1>2, <1>3, <1>4, <1>5, <1>6, <1>7, <1>8 DEF Step

\* Whatever the regime, the state stays well-typed and references sound.
LEMMA RegimeInvariant == RSpec => [](TypeOK /\ RefInv)
  <1>1. RInit => TypeOK /\ RefInv
    BY NewRowType, IdleType, IdleSound
    DEF RInit, Init, TypeOK, NewRow, RefInv, RowSound, Published
  <1>2. TypeOK /\ RefInv /\ [RNext]_<<vars, regime>> => TypeOK' /\ RefInv'
    <2> SUFFICES ASSUME TypeOK, RefInv, [RNext]_<<vars, regime>>
                 PROVE  TypeOK' /\ RefInv'
      OBVIOUS
    <2>1. CASE Crash
      <3>1. UNCHANGED <<row, files>> /\ \A s \in Sessions : sess'[s] = Idle
        BY <2>1 DEF Crash
      <3>2. QED
        BY <2>1, <3>1, CrashType, IdleSound DEF RefInv, Recorded
    <2>2. CASE \E s \in Sessions : Step(s)
      BY <2>2, StepRef, StepType
    <2>3. CASE UNCHANGED vars
      BY <2>3 DEF vars, TypeOK, RefInv, Recorded
    <2>4. QED
      BY <2>1, <2>2, <2>3 DEF RNext, Next, vars
  <1>3. QED
    BY <1>1, <1>2, PTL DEF RSpec

\* Any number of handlers that edit, generate and deliver may overlap, fail or
\* die with the process: while nothing is deleted and the disk survives, both
\* files of every recorded version can be fetched.
THEOREM OverlapOnDisk == RSpec => []OverlapRecordedOnDisk
  <1>1. RInit => OverlapInv
    <2> SUFFICES ASSUME RInit PROVE OInv
      BY DEF OverlapInv
    <2>1. files = {} /\ \A s \in Sessions : sess[s] = Idle
      BY DEF RInit, Init
    <2>2. \A s \in Sessions : ~Active(s)
      BY <2>1, IdlePc DEF Active
    <2>3. QED
      BY <2>1, <2>2, IdleMade DEF OInv, RecordedOnDisk
  <1>2. TypeOK /\ OverlapInv /\ [RNext]_<<vars, regime>> => OverlapInv'
    <2> SUFFICES ASSUME TypeOK, OverlapInv, [RNext]_<<vars, regime>>,
                        regime' = "overlap"
                 PROVE  OInv'
      BY DEF OverlapInv
    <2>0. OInv /\ (RNext => Next /\ Overlap)
      BY DEF OverlapInv, RNext
    <2>1. CASE RNext /\ Crash
      <3>1. \A s \in Sessions : sess'[s] = Idle
        BY <2>1 DEF Crash
      <3>2. \A s \in Sessions : ~Active(s)'
        BY <3>1, IdlePc DEF Active
      <3>3. files' = files /\ disk' = disk
        BY <2>0, <2>1, <3>2 DEF Overlap, Redeployed, Crash
      <3>4. QED
        BY <2>0, <3>1, <3>2, <3>3, IdleMade DEF OInv, RecordedOnDisk, OnDisk
    <2>2. CASE RNext /\ \E s \in Sessions : Step(s)
      BY <2>0, <2>2, OverlapStep
    <2>3. CASE UNCHANGED <<vars, regime>>
      BY <2>0, <2>3 DEF vars, OInv, RecordedOnDisk, OnDisk, Active
    <2>4. QED
      BY <2>0, <2>1, <2>2, <2>3 DEF Next
  <1>3. OverlapInv => OverlapRecordedOnDisk
    BY DEF OverlapInv, OInv, OverlapRecordedOnDisk
  <1>4. QED
    BY <1>1, <1>2, <1>3, RegimeInvariant, PTL DEF RSpec

-----------------------------------------------------------------------------
(* One handler at a time.                                                  *)

\* The only handler works on the row r as it is: its copy differs where the
\* handler has got to.
Alone(x, r) ==
  /\ r.live /\ x.snap = r
  /\ x.pc \in {"days", "ready"} => x.obj = x.snap /\ ~x.marked
  /\ x.op = "edit" =>
       /\ ~x.marked /\ x.pc \in {"days", "ready", "commit"}
       /\ x.pc = "commit" => x.snap.status \in Published /\ x.obj = Bumped(x.snap)
  /\ x.op = "delete" => ~x.marked /\ x.pc \in {"days", "ready", "unlinked"}
  /\ x.op = "send" => x.snap.path # NoArt
  /\ x.op \in Generating \cup Delivering =>
       /\ x.obj.live /\ x.obj.version = r.version /\ x.obj.content = r.content
       /\ x.marked => /\ r.content \in Printable /\ x.obj.path = RenderOf(x)
                      /\ x.obj.status = "generated" \/ (x.obj.status = "sent" /\ x.op = "send")
       /\ ~x.marked => /\ x.obj.path = r.path
                       /\ x.obj.status = r.status \/ (x.obj.status = "sent" /\ x.op = "send")
       /\ x.pc \in {"half", "rendered"} => r.content \in Printable /\ ~x.marked

\* The clean-up will spare what is recorded; every other handler works alone.
HandlerAlone(x, r, rec) ==
  IF x.op = "cleanup" THEN x.pc = "ready" /\ rec \subseteq x.paths
                      ELSE Alone(x, r)

\* The recorded versions are the ones before the version that is being edited, and
\* the published one shows the plan.
VersionsSound(r, fs) ==
  LET current == [version |-> r.version, content |-> r.content]
  IN /\ \A f \in fs :
          /\ f.version <= r.version
          /\ r.status = "draft" => f.version < r.version
          /\ f.version = r.version => f.path = current
     /\ \A f, g \in fs : f.version = g.version => f.path = g.path
     /\ r.status = "generated" => r.path = current

SInv ==
  /\ \A s, t \in Sessions : Active(s) /\ Active(t) => s = t
  /\ \A s \in Sessions : Active(s) => HandlerAlone(sess[s], row, Recorded)
  /\ VersionsSound(row, files)
SerialInv == regime = "serial" => SInv

\* Rows that agree in every column are the same.
LEMMA SameRow ==
  ASSUME NEW r \in Row, NEW q \in Row,
         r.live = q.live, r.version = q.version, r.status = q.status,
         r.content = q.content, r.path = q.path, r.png = q.png, r.pdf = q.pdf
  PROVE  r = q
  BY DEF Row

\* A handler that is alone writes its whole copy of the row.
LEMMA WritesCopy ==
  ASSUME row \in Row, NEW x \in SessionStates, x.snap = row,
         x.obj.live = row.live, x.obj.content = row.content
  PROVE  Written(x) = x.obj
  <1>1. x.obj \in Row
    BY DEF SessionStates
  <1>2. Written(x) = [row EXCEPT !.version = x.obj.version, !.status = x.obj.status,
                        !.path = x.obj.path, !.png = x.obj.png, !.pdf = x.obj.pdf]
    BY DEF Written, Row
  <1> DEFINE w == Written(x)
  <1>3. /\ w \in Row
        /\ w.live = x.obj.live /\ w.content = x.obj.content
        /\ w.version = x.obj.version /\ w.status = x.obj.status
        /\ w.path = x.obj.path /\ w.png = x.obj.png /\ w.pdf = x.obj.pdf
    BY <1>2, WrittenType DEF Row
  <1> HIDE DEF w
  <1>4. w = x.obj
    BY <1>1, <1>3, SameRow
  <1>5. QED
    BY <1>4 DEF w

\* What a handler that edits, generates or delivers commits.
LEMMA CommitsCopy ==
  ASSUME row \in Row, NEW x \in SessionStates, Alone(x, row),
         x.op \in {"edit"} \cup Generating \cup Delivering
  PROVE  Written(x) = x.obj
  <1>1. CASE x.op \in Generating \cup Delivering
    BY <1>1, WritesCopy DEF Alone
  <1>2. CASE x.op = "edit"
    <2>1. x.obj = x.snap \/ x.obj = Bumped(x.snap)
      BY <1>2 DEF Alone
    <2>2. x.obj.live = row.live /\ x.obj.content = row.content
      BY <2>1 DEF Alone, Bumped, Row
    <2>3. QED
      BY <2>2, WritesCopy DEF Alone
  <1>3. QED
    BY <1>1, <1>2

\* Nobody else is in flight while s takes a step.
LEMMA SerialStep ==
  ASSUME TypeOK, SInv, Serial, NEW s \in Sessions, NEW x,
         sess' = [sess EXCEPT ![s] = x],
         Active(s) \/ x.pc # "idle",
         x.pc # "idle" => HandlerAlone(x, row', Recorded'),
         VersionsSound(row', files')
  PROVE  SInv'
  <1>1. \A t \in Sessions : sess'[t] = IF t = s THEN x ELSE sess[t]
    BY DEF TypeOK
  <1>2. ASSUME NEW t \in Sessions, t # s
        PROVE  ~Active(t)'
    BY <1>1, <1>2 DEF SInv, Serial, Active
  <1>3. \A t \in Sessions : Active(t)' => t = s
    BY <1>2
  <1>4. \A t \in Sessions : Active(t)' => HandlerAlone(sess'[t], row', Recorded')
    BY <1>1, <1>3 DEF Active
  <1>5. QED
    BY <1>3, <1>4 DEF SInv

\* A step of s that leaves the rows alone.
LEMMA SerialLocal ==
  ASSUME TypeOK, SInv, Serial, NEW s \in Sessions, NEW x,
         sess' = [sess EXCEPT ![s] = x],
         Active(s) \/ x.pc # "idle",
         x.pc # "idle" => HandlerAlone(x, row, Recorded),
         UNCHANGED <<row, files>>
  PROVE  SInv'
  <1>1. Recorded' = Recorded /\ row' = row /\ files' = files
    BY DEF Recorded
  <1>2. VersionsSound(row', files')
    BY <1>1 DEF SInv
  <1>3. QED
    BY <1>1, <1>2, SerialStep

\* A transaction of s ends with sound rows.
LEMMA SerialEnd ==
  ASSUME TypeOK, SInv, Serial, NEW s \in Sessions, Active(s), Close(s),
         VersionsSound(row', files')
  PROVE  SInv'
  BY IdlePc, SerialStep DEF Close

\* A commit keeps the version being edited, or opens the next one.
LEMMA EditSound ==
  ASSUME row \in Row, files \subseteq PlanFiles, VersionsSound(row, files),
         NEW r \in Row, r.status = "draft",
         \/ r.version = row.version /\ row.status = "draft"
         \/ r.version = row.version + 1
  PROVE  VersionsSound(r, files)
  BY DEF VersionsSound, Row, PlanFiles, Versions

LEMMA PublishSound ==
  ASSUME row \in Row, files \subseteq PlanFiles, VersionsSound(row, files),
         NEW r \in Row, r.status # "draft",
         r.version = row.version, r.content = row.content,
         r.path = [version |-> row.version, content |-> row.content],
         NEW f, f.version = row.version, f.path = r.path
  PROVE  VersionsSound(r, files \cup {f})
  BY DEF VersionsSound, Row, PlanFiles, Versions

LEMMA KeepSound ==
  ASSUME row \in Row, files \subseteq PlanFiles, VersionsSound(row, files),
         NEW r \in Row, r.version = row.version, r.content = row.content,
         r.path = row.path, r.status = row.status \/ r.status = "sent"
  PROVE  VersionsSound(r, files)
  BY DEF VersionsSound, Row, PlanFiles, Versions

LEMMA NoneSound ==
  ASSUME NEW r, r.status = "draft"
  PROVE  VersionsSound(r, {})
  BY DEF VersionsSound

\* Moving the only handler on: its pc and its row object change.
LEMMA SerialKeep ==
  ASSUME TypeOK, SInv, Serial, NEW s \in Sessions, NEW pc, NEW r,
         sess' = [sess EXCEPT ![s] = [@ EXCEPT !.pc = pc, !.obj = r]],
         Active(s), UNCHANGED <<row, files>>,
         Alone([sess[s] EXCEPT !.pc = pc, !.obj = r], row),
         sess[s].op # "cleanup"
  PROVE  SInv'
  <1> DEFINE new == [sess[s] EXCEPT !.pc = pc, !.obj = r]
  <1>1. new.op # "cleanup"
    BY DEF TypeOK, SessionStates
  <1>2. sess' = [sess EXCEPT ![s] = new] /\ Alone(new, row)
    OBVIOUS
  <1> HIDE DEF new
  <1>3. HandlerAlone(new, row, Recorded)
    BY <1>1, <1>2 DEF HandlerAlone
  <1>4. QED
    BY <1>2, <1>3, SerialLocal

LEMMA SerialGoto ==
  ASSUME TypeOK, SInv, Serial, NEW s \in Sessions, NEW pc, Goto(s, pc),
         Active(s), UNCHANGED <<row, files>>,
         Alone([sess[s] EXCEPT !.pc = pc, !.obj = sess[s].obj], row),
         sess[s].op # "cleanup"
  PROVE  SInv'
  <1>1. sess[s] \in SessionStates
    BY DEF TypeOK
  <1>2. sess' = [sess EXCEPT ![s] = [@ EXCEPT !.pc = pc, !.obj = sess[s].obj]]
    BY <1>1 DEF Goto, TypeOK, SessionStates
  <1>3. QED
    BY <1>2, SerialKeep

LEMMA StepSerial ==
  ASSUME TypeOK, RefInv, SInv, Serial, NEW s \in Sessions, Step(s)
  PROVE  SInv'
  <1> DEFINE x == sess[s]
  <1>0. /\ row \in Row /\ files \subseteq PlanFiles /\ x \in SessionStates
        /\ VersionsSound(row, files)
        /\ x.pc # "idle" => HandlerAlone(x, row, Recorded)
        /\ row.live => Sound(x, row, Recorded)
    BY DEF TypeOK, SInv, Active, RefInv
  <1>1. ASSUME NEW op \in Ops, LoadRow(s, op)
        PROVE  SInv'
    <2> DEFINE new == Loaded(op, "days", row, {})
    <2>1. /\ sess' = [sess EXCEPT ![s] = new] /\ UNCHANGED <<row, files>>
          /\ row.live /\ Allowed(op) /\ op # "cleanup"
      BY <1>1 DEF LoadRow
    <2>2. /\ new.op = op /\ new.pc = "days" /\ new.snap = row /\ new.obj = row
          /\ new.marked = FALSE
      BY DEF Loaded
    <2> HIDE DEF new
    <2>3. HandlerAlone(new, row, Recorded)
      BY <2>1, <2>2 DEF HandlerAlone, Alone, Allowed
    <2>4. QED
      BY <2>1, <2>2, <2>3, SerialLocal
  <1>2. CASE LoadDays(s)
    <2> DEFINE full == [x.snap EXCEPT !.content = row.content]
               paths == IF x.op = "delete" THEN PathsOf(full) ELSE {}
               new == Loaded(x.op, "ready", full, paths)
    <2>1. /\ sess' = [sess EXCEPT ![s] = new] /\ UNCHANGED <<row, files>>
          /\ x.pc = "days"
      BY <1>2 DEF LoadDays
    <2>2. x.op # "cleanup" /\ Alone(x, row)
      BY <1>0, <2>1 DEF HandlerAlone
    <2>3. full = row
      <3>1. full = [row EXCEPT !.content = row.content]
        BY <2>2 DEF Alone
      <3>2. QED
        BY <1>0, <3>1 DEF Row
    <2> HIDE DEF full, paths
    <2>4. /\ new.op = x.op /\ new.pc = "ready" /\ new.snap = row /\ new.obj = row
          /\ new.marked = FALSE
      BY <2>3 DEF Loaded
    <2> HIDE DEF new
    <2>5. HandlerAlone(new, row, Recorded)
      BY <2>2, <2>4 DEF HandlerAlone, Alone
    <2>6. Active(s)
      BY <2>1 DEF Active
    <2>7. QED
      BY <2>1, <2>4, <2>5, <2>6, SerialLocal
  <1>3. CASE BumpVersion(s)
    <2>1. /\ x.op = "edit" /\ x.pc = "ready" /\ x.snap.status \in Published
          /\ Keep(s, "commit", Bumped(x.obj)) /\ UNCHANGED <<row, files>>
      BY <1>3 DEF BumpVersion, At
    <2>2. Alone(x, row)
      BY <1>0, <2>1 DEF HandlerAlone
    <2>3. Alone([x EXCEPT !.pc = "commit", !.obj = Bumped(x.obj)], row)
      BY <1>0, <2>1, <2>2 DEF Alone, SessionStates, Generating, Delivering
    <2>4. QED
      BY <2>1, <2>3, SerialKeep DEF Keep, Active
  <1>4. ASSUME NEW c \in Contents, CommitEdit(s, c)
        PROVE  SInv'
    <2>1. /\ x.op = "edit" /\ Active(s)
          /\ x.pc = "commit" \/ (x.pc = "ready" /\ x.snap.status \notin Published)
          /\ row' = [Written(x) EXCEPT !.content = c] /\ files' = files /\ Close(s)
      BY <1>4 DEF CommitEdit, EditReady, At, Active
    <2>2. Alone(x, row)
      BY <1>0, <2>1 DEF HandlerAlone, Active
    <2>3. Written(x) = x.obj
      BY <1>0, <2>1, <2>2, CommitsCopy
    <2>4. x.obj \in Row
      BY <1>0, ObjType
    <2>5. /\ row' \in Row /\ row'.status = x.obj.status /\ row'.version = x.obj.version
      BY <2>1, <2>3, <2>4 DEF Row
    <2>6. \/ row'.version = row.version /\ row.status = "draft" /\ row'.status = "draft"
          \/ row'.version = row.version + 1 /\ row'.status = "draft"
      BY <1>0, <2>1, <2>2, <2>5, ZenonT(30) DEF Alone, Bumped, Row, Statuses, Published
    <2>7. VersionsSound(row', files')
      BY <1>0, <2>1, <2>5, <2>6, EditSound
    <2>8. QED
      BY <2>1, <2>7, SerialEnd
  <1>5. CASE UseCache(s) \/ RenderPng(s) \/ RenderPdf(s)
    <2>1. PICK pc \in {"half", "rendered"} :
            /\ Goto(s, pc) /\ UNCHANGED <<row, files>>
            /\ \/ /\ x.pc = "ready" /\ x.snap.content \in Printable
                  /\ x.op \in Generating \cup Delivering
               \/ x.pc = "half"
      BY <1>5 DEF UseCache, RenderPng, RenderPdf, MustRender, At, Generating
    <2>2. x.op # "cleanup" /\ Alone(x, row)
      BY <1>0, <2>1 DEF HandlerAlone, Generating, Delivering
    <2>3. Alone([x EXCEPT !.pc = pc, !.obj = x.obj], row)
      BY <1>0, <2>1, <2>2 DEF Alone, SessionStates, RenderOf, Generating, Delivering
    <2>4. QED
      BY <2>1, <2>2, <2>3, SerialGoto DEF Active
  <1>6. CASE UseArtifacts(s) \/ NothingToSend(s) \/ TelegramRefuses(s)
    <2>1. PICK pc \in {"photo", "document", "commit", "error"} :
            /\ Goto(s, pc) /\ UNCHANGED <<row, files>>
            /\ \/ x.pc = "ready" /\ x.op \in Delivering
               \/ x.pc \in {"photo", "document"}
      BY <1>6 DEF UseArtifacts, NothingToSend, TelegramRefuses, At, FirstUpload
    <2>2. x.op # "cleanup" /\ Alone(x, row)
      BY <1>0, <2>1 DEF HandlerAlone, Delivering
    <2>3. Alone([x EXCEPT !.pc = pc, !.obj = x.obj], row)
      BY <1>0, <2>1, <2>2 DEF Alone, SessionStates, RenderOf, Generating, Delivering
    <2>4. QED
      BY <2>1, <2>2, <2>3, SerialGoto DEF Active
  <1>7. CASE MarkGenerated(s)
    <2> DEFINE new == [x EXCEPT !.pc = FirstUpload(x), !.marked = TRUE,
                                !.obj = Generated(x)]
    <2>1. sess' = [sess EXCEPT ![s] = new] /\ UNCHANGED <<row, files>>
          /\ x.pc = "rendered" /\ row.live
      BY <1>7 DEF MarkGenerated
    <2>2. Alone(x, row) /\ x.op \in Generating \cup Delivering
      BY <1>0, <2>1 DEF HandlerAlone, Sound, StageSound
    <2>3. /\ new.op = x.op /\ new.snap = x.snap /\ new.marked
          /\ new.pc \in {"photo", "document"}
          /\ new.obj = Generated(x) /\ RenderOf(new) = RenderOf(x)
      BY <1>0 DEF SessionStates, FirstUpload, RenderOf
    <2>4. /\ Generated(x).live = x.obj.live /\ Generated(x).version = x.obj.version
          /\ Generated(x).content = x.obj.content
          /\ Generated(x).status = "generated" /\ Generated(x).path = RenderOf(x)
      BY <1>0 DEF Generated, SessionStates, Row
    <2> HIDE DEF new
    <2>5. HandlerAlone(new, row, Recorded)
      BY <2>1, <2>2, <2>3, <2>4 DEF HandlerAlone, Alone, Generating, Delivering
    <2>6. QED
      BY <2>1, <2>5, SerialLocal DEF Active
  <1>8. CASE SendPhoto(s) \/ SendDocument(s)
    <2>1. PICK pc \in {"document", "mark_sent", "commit"} : \E r \in Row :
            /\ Keep(s, pc, r) /\ UNCHANGED <<row, files>>
            /\ x.pc \in {"photo", "document"}
            /\ r.live = x.obj.live /\ r.version = x.obj.version
            /\ r.content = x.obj.content /\ r.status = x.obj.status
            /\ r.path = x.obj.path
      <3>1. x.obj \in Row
        BY <1>0, ObjType
      <3>2. /\ FileToSend(x, "png") \in Art \cup {NoArt}
            /\ FileToSend(x, "pdf") \in Art \cup {NoArt}
        BY <1>0, FileToSendType DEF Kinds
      <3>3. /\ [x.obj EXCEPT !.png = FileToSend(x, "png")] \in Row
            /\ [x.obj EXCEPT !.pdf = FileToSend(x, "pdf")] \in Row
        BY <3>1, <3>2 DEF Row
      <3>4. QED
        BY <1>8, <3>1, <3>3 DEF SendPhoto, SendDocument, Row
    <2>2. PICK r \in Row :
            /\ Keep(s, pc, r)
            /\ r.live = x.obj.live /\ r.version = x.obj.version
            /\ r.content = x.obj.content /\ r.status = x.obj.status
            /\ r.path = x.obj.path
      BY <2>1
    <2>3. x.op # "cleanup" /\ Alone(x, row)
      BY <1>0, <2>1 DEF HandlerAlone
    <2>4. Alone([x EXCEPT !.pc = pc, !.obj = r], row)
      BY <1>0, <2>1, <2>2, <2>3 DEF Alone, SessionStates, RenderOf
    <2>5. QED
      BY <2>1, <2>2, <2>3, <2>4, SerialKeep DEF Keep, Active
  <1>9. CASE MarkSent(s)
    <2>1. /\ Keep(s, "commit", [x.obj EXCEPT !.status = "sent"])
          /\ UNCHANGED <<row, files>>
          /\ x.pc = "mark_sent" /\ row.live
      BY <1>9 DEF MarkSent
    <2>2. Alone(x, row) /\ x.op = "send"
      BY <1>0, <2>1 DEF HandlerAlone, Sound, StageSound
    <2> DEFINE r == [x.obj EXCEPT !.status = "sent"]
    <2>3. /\ r.live = x.obj.live /\ r.version = x.obj.version
          /\ r.content = x.obj.content /\ r.status = "sent" /\ r.path = x.obj.path
      BY <1>0 DEF SessionStates, Row
    <2> HIDE DEF r
    <2>4. Alone([x EXCEPT !.pc = "commit", !.obj = r], row)
      BY <1>0, <2>1, <2>2, <2>3 DEF Alone, SessionStates, RenderOf, Generating
    <2>5. QED
      BY <2>1, <2>2, <2>4, SerialKeep DEF Keep, Active, r
  <1>10. CASE UnlinkFiles(s)
    <2>1. /\ Goto(s, "unlinked") /\ UNCHANGED <<row, files>>
          /\ x.op = "delete" /\ x.pc = "ready"
      BY <1>10 DEF UnlinkFiles, At
    <2>2. Alone([x EXCEPT !.pc = "unlinked", !.obj = x.obj], row)
      BY <1>0, <2>1 DEF HandlerAlone, Alone, SessionStates, Generating, Delivering
    <2>3. QED
      BY <2>1, <2>2, SerialGoto DEF Active
  <1>11. CASE CommitDelete(s)
    <2>1. /\ row'.status = "draft" /\ files' = {} /\ Close(s) /\ Active(s)
      BY <1>11 DEF CommitDelete, NewRow, At, Active
    <2>2. QED
      BY <2>1, NoneSound, SerialEnd
  <1>12. CASE ScanRows(s)
    <2> DEFINE new == Loaded("cleanup", "ready", Idle.snap, PathsOf(row))
    <2>1. sess' = [sess EXCEPT ![s] = new] /\ UNCHANGED <<row, files>>
      BY <1>12 DEF ScanRows
    <2>2. new.op = "cleanup" /\ new.pc = "ready" /\ Recorded \subseteq new.paths
      BY DEF Loaded, PathsOf, Recorded
    <2> HIDE DEF new
    <2>3. HandlerAlone(new, row, Recorded)
      BY <2>2 DEF HandlerAlone
    <2>4. QED
      BY <2>1, <2>2, <2>3, SerialLocal
  <1>13. CASE UnlinkOrphans(s) \/ Rollback(s)
    <2>1. Close(s) /\ UNCHANGED <<row, files>> /\ Active(s)
      BY <1>13 DEF UnlinkOrphans, Rollback, At, Active
    <2>2. VersionsSound(row', files')
      BY <1>0, <2>1
    <2>3. QED
      BY <2>1, <2>2, SerialEnd
  <1>14. CASE Commit(s)
    <2>1. /\ row' = Written(x) /\ files' = files \cup NewFiles(x) /\ Close(s)
          /\ Active(s) /\ x.op \in Generating \cup Delivering
      BY <1>14 DEF Commit, At, Active
    <2>2. Alone(x, row)
      BY <1>0, <2>1 DEF HandlerAlone, Active, Generating, Delivering
    <2>3. row' = x.obj /\ x.obj \in Row
      BY <1>0, <2>1, <2>2, CommitsCopy, ObjType
    <2>4. CASE x.marked
      <3> DEFINE f == [version |-> x.obj.version, path |-> RenderOf(x)]
      <3>1. files' = files \cup {f}
        BY <2>1, <2>4 DEF NewFiles
      <3>2. f.version = row.version /\ f.path = row'.path
        BY <2>1, <2>2, <2>3, <2>4 DEF Alone
      <3>3. RenderOf(x) = [version |-> row.version, content |-> row.content]
        BY <2>2 DEF Alone, RenderOf
      <3>4. /\ row'.status # "draft" /\ row'.version = row.version
            /\ row'.content = row.content
            /\ row'.path = [version |-> row.version, content |-> row.content]
        BY <2>1, <2>2, <2>3, <2>4, <3>3 DEF Alone
      <3> HIDE DEF f
      <3>5. VersionsSound(row', files')
        BY <1>0, <2>3, <3>1, <3>2, <3>4, PublishSound
      <3>6. QED
        BY <2>1, <3>5, SerialEnd
    <2>5. CASE ~x.marked
      <3>1. files' = files
        BY <2>1, <2>5 DEF NewFiles
      <3>2. /\ row'.version = row.version /\ row'.content = row.content
            /\ row'.path = row.path
            /\ row'.status = row.status \/ row'.status = "sent"
        BY <2>1, <2>2, <2>3, <2>5 DEF Alone
      <3>3. VersionsSound(row', files')
        BY <1>0, <2>3, <3>1, <3>2, KeepSound
      <3>4. QED
        BY <2>1, <3>3, SerialEnd
    <2>6. QED
      BY <2>4, <2>5
  <1>15. QED
    BY <1>1, <1>2, <1>3, <1>4, <1>5, <1>6, <1>7, <1>8, <1>9, <1>10, <1>11,
       <1>12, <1>13, <1>14 DEF Step

LEMMA SerialInvariant == RSpec => [](TypeOK /\ RefInv /\ SerialInv)
  <1>1. RInit => SerialInv
    <2> SUFFICES ASSUME RInit PROVE SInv
      BY DEF SerialInv
    <2>1. files = {} /\ row.status = "draft" /\ \A s \in Sessions : sess[s] = Idle
      BY DEF RInit, Init, NewRow
    <2>2. \A s \in Sessions : ~Active(s)
      BY <2>1, IdlePc DEF Active
    <2>3. QED
      BY <2>1, <2>2, NoneSound DEF SInv
  <1>2. TypeOK /\ RefInv /\ SerialInv /\ [RNext]_<<vars, regime>> => SerialInv'
    <2> SUFFICES ASSUME TypeOK, RefInv, SerialInv, [RNext]_<<vars, regime>>,
                        regime' = "serial"
                 PROVE  SInv'
      BY DEF SerialInv
    <2>0. SInv /\ (RNext => Next /\ Serial)
      BY DEF SerialInv, RNext
    <2>1. CASE Crash
      <3>1. UNCHANGED <<row, files>> /\ \A s \in Sessions : sess'[s] = Idle
        BY <2>1 DEF Crash
      <3>2. \A s \in Sessions : ~Active(s)'
        BY <3>1, IdlePc DEF Active
      <3>3. QED
        BY <2>0, <3>1, <3>2 DEF SInv
    <2>2. CASE RNext /\ \E s \in Sessions : Step(s)
      BY <2>0, <2>2, StepSerial
    <2>3. CASE UNCHANGED <<vars, regime>>
      BY <2>0, <2>3 DEF vars, SInv, Active, Recorded
    <2>4. QED
      BY <2>0, <2>1, <2>2, <2>3 DEF Next
  <1>3. QED
    BY <1>1, <1>2, RegimeInvariant, PTL DEF RSpec

\* One handler at a time, the artefact that a generated plan points at shows the
\* plan as it is (mark_generated, bump_version).
THEOREM SerialShowsContent == RSpec => []SerialGeneratedShowsContent
  <1>1. SerialInv => SerialGeneratedShowsContent
    BY DEF SerialInv, SInv, VersionsSound, SerialGeneratedShowsContent,
           GeneratedShowsContent
  <1>2. QED
    BY <1>1, SerialInvariant, PTL

\* One handler at a time, two plan_files rows with the same version number are
\* of the same artefact.
THEOREM SerialOneContent == RSpec => []SerialOneContentPerVersion
  <1>1. SerialInv => SerialOneContentPerVersion
    BY DEF SerialInv, SInv, VersionsSound, SerialOneContentPerVersion,
           OneContentPerVersion
  <1>2. QED
    BY <1>1, SerialInvariant, PTL

\* What one handler that is alone does to the content of a published plan.
LEMMA OpensNew ==
  ASSUME TypeOK, SInv, Next
  PROVE  OpensNewVersion
  <1> SUFFICES ASSUME row.live, row'.live, row.status \in Published,
                      row'.content # row.content
               PROVE  row'.version = row.version + 1 /\ row'.status = "draft"
    BY DEF OpensNewVersion
  <1>1. ~Crash
    BY DEF Crash
  <1>2. PICK s \in Sessions : Step(s)
    BY <1>1 DEF Next
  <1> DEFINE x == sess[s]
  <1>3. x \in SessionStates /\ row \in Row
    BY DEF TypeOK
  <1>4. ~CommitDelete(s)
    BY DEF CommitDelete, NewRow
  <1>5. ~Commit(s)
    BY <1>3 DEF Commit, Written, Row
  <1>6. PICK c \in Contents : CommitEdit(s, c)
    <2>1. row' # row
      OBVIOUS
    <2>2. QED
      BY <1>2, <1>4, <1>5, <2>1 DEF Step, LoadRow, LoadDays, BumpVersion, UseCache,
         UseArtifacts, RenderPng, RenderPdf, MarkGenerated, SendPhoto, SendDocument,
         NothingToSend, TelegramRefuses, MarkSent, UnlinkFiles, ScanRows,
         UnlinkOrphans, Rollback
  <1>7. /\ x.op = "edit" /\ Active(s)
        /\ x.pc = "commit" \/ (x.pc = "ready" /\ x.snap.status \notin Published)
        /\ row' = [Written(x) EXCEPT !.content = c]
    BY <1>6 DEF CommitEdit, EditReady, At, Active
  <1>8. Alone(x, row)
    BY <1>7 DEF SInv, HandlerAlone
  <1>9. Written(x) = x.obj /\ x.obj = Bumped(row)
    BY <1>3, <1>7, <1>8, CommitsCopy DEF Alone
  <1>10. QED
    BY <1>3, <1>7, <1>9 DEF Bumped, Row

\* One handler at a time, a step that changes the content of a generated or sent
\* plan makes it a draft with the next version number (the five edits).
THEOREM SerialEditOpens == RSpec => SerialEditOpensNewVersion
  <1>1. TypeOK /\ SerialInv /\ [RNext]_<<vars, regime>>
          => [regime = "serial" => OpensNewVersion]_vars
    BY OpensNew DEF SerialInv, RNext, vars
  <1>2. QED
    BY <1>1, SerialInvariant, PTL DEF RSpec, SerialEditOpensNewVersion

\* One handler at a time, delete_orphans leaves every file of a recorded version.
THEOREM SerialCleanupSpares == RSpec => SerialCleanupSparesRecorded
  <1>1. TypeOK /\ SerialInv /\ [RNext]_<<vars, regime>>
          => [regime = "serial" => SparesRecorded]_vars
    <2> SUFFICES ASSUME SInv, NEW s \in Sessions, UnlinkOrphans(s),
                        NEW f \in files, OnDisk(f.path)
                 PROVE  OnDisk(f.path)'
      BY DEF SerialInv, SparesRecorded
    <2>1. /\ Active(s) /\ sess[s].op = "cleanup"
          /\ disk' = {d \in disk : d[1] \in sess[s].paths} /\ files' = files
      BY DEF UnlinkOrphans, At, Active
    <2>2. f.path \in sess[s].paths
      BY <2>1 DEF SInv, HandlerAlone, Recorded
    <2>3. QED
      BY <2>1, <2>2 DEF OnDisk
  <1>2. QED
    BY <1>1, SerialInvariant, PTL DEF RSpec, SerialCleanupSparesRecorded

-----------------------------------------------------------------------------
(* The rows implement PlanVersions: every commit is one of its actions, and   *)
(* every other step leaves what it sees alone.                              *)

LEMMA HiddenStep ==
  ASSUME UNCHANGED <<row, files>>
  PROVE  UNCHANGED Promise!pvars
  BY DEF Promise!pvars

LEMMA EditImplements ==
  ASSUME TypeOK, SInv, NEW s \in Sessions, NEW c \in Contents, CommitEdit(s, c)
  PROVE  Promise!Next
  <1> DEFINE x == sess[s]
  <1>1. /\ x.op = "edit" /\ Active(s) /\ row.live
        /\ x.pc = "commit" \/ (x.pc = "ready" /\ x.snap.status \notin Published)
        /\ row' = [Written(x) EXCEPT !.content = c] /\ files' = files
        /\ row \in Row /\ x \in SessionStates
    BY DEF CommitEdit, EditReady, At, Active, TypeOK
  <1>2. Alone(x, row)
    BY <1>1 DEF SInv, HandlerAlone
  <1>3. Written(x) = x.obj /\ x.obj \in Row
    BY <1>1, <1>2, CommitsCopy, ObjType
  <1>4. /\ row'.content = c /\ row'.live = x.obj.live
        /\ row'.version = x.obj.version /\ row'.status = x.obj.status
    BY <1>1, <1>3 DEF Row
  <1>5. CASE x.pc = "ready"
    <2>1. row.status = "draft" /\ x.obj = row
      BY <1>1, <1>2, <1>5 DEF Alone, Row, Statuses, Published
    <2>2. Promise!EditDraft
      BY <1>1, <1>4, <2>1 DEF Promise!EditDraft
    <2>3. QED
      BY <2>2 DEF Promise!Next
  <1>6. CASE x.pc = "commit"
    <2>1. row.status # "draft" /\ x.obj = Bumped(row)
      BY <1>1, <1>2, <1>6 DEF Alone, Published
    <2>2. /\ x.obj.live = row.live /\ x.obj.status = "draft"
          /\ x.obj.version = row.version + 1
      <3>1. \A r \in Row : /\ Bumped(r).live = r.live /\ Bumped(r).status = "draft"
                           /\ Bumped(r).version = r.version + 1
        BY DEF Bumped, Row
      <3> QED BY <1>1, <2>1, <3>1, Zenon
    <2>3. Promise!EditPublished
      BY <1>1, <1>4, <2>1, <2>2 DEF Promise!EditPublished
    <2>4. QED
      BY <2>3 DEF Promise!Next
  <1>7. QED
    BY <1>1, <1>5, <1>6

LEMMA CommitImplements ==
  ASSUME TypeOK, RefInv, SInv, NEW s \in Sessions, Commit(s)
  PROVE  Promise!Next \/ UNCHANGED Promise!pvars
  <1> DEFINE x == sess[s]
  <1>1. /\ x.op \in Generating \cup Delivering /\ Active(s)
        /\ row' = Written(x) /\ files' = files \cup NewFiles(x)
        /\ row \in Row /\ x \in SessionStates
    BY DEF Commit, At, Active, TypeOK
  <1>2. Alone(x, row)
    BY <1>1 DEF SInv, HandlerAlone, Generating, Delivering
  <1>3. row' = x.obj
    BY <1>1, <1>2, CommitsCopy
  <1>4. /\ row.live /\ row'.live = row.live /\ row'.version = row.version
        /\ row'.content = row.content
    BY <1>1, <1>2, <1>3, ObjType DEF Alone, Row
  <1>5. Recorded' = Recorded \cup Rendered(x)
    BY <1>1, NewFilesRecorded DEF Recorded
  <1>6. x.op = "send" => Recorded # {}
    BY <1>2, <1>4 DEF Alone, RefInv, RowSound
  <1>7. RenderOf(x) = Promise!Current
    BY <1>2 DEF Alone, RenderOf, Promise!Current
  <1>8. CASE x.marked
    <2>1. Recorded' = Recorded \cup {Promise!Current} /\ row.content \in Printable
      BY <1>1, <1>2, <1>5, <1>7, <1>8 DEF Rendered, Alone
    <2>2. CASE row'.status = "generated"
      BY <1>4, <2>1, <2>2 DEF Promise!Generate, Promise!Next, Recorded
    <2>3. CASE row'.status = "sent" /\ x.op = "send"
      BY <1>4, <1>6, <2>1, <2>3 DEF Promise!Send, Promise!Next, Recorded
    <2>4. QED
      BY <1>1, <1>2, <1>3, <1>8, <2>2, <2>3 DEF Alone
  <1>9. CASE ~x.marked
    <2>1. Recorded' = Recorded
      BY <1>5, <1>9 DEF Rendered
    <2>2. CASE row'.status = row.status
      BY <1>4, <2>1, <2>2 DEF Promise!pvars, Recorded
    <2>3. CASE row'.status = "sent" /\ x.op = "send"
      BY <1>4, <1>6, <2>1, <2>3 DEF Promise!Send, Promise!Next, Recorded
    <2>4. QED
      BY <1>1, <1>2, <1>3, <1>9, <2>2, <2>3 DEF Alone
  <1>10. QED
    BY <1>8, <1>9

LEMMA DeleteImplements ==
  ASSUME TypeOK, NEW s \in Sessions, CommitDelete(s)
  PROVE  Promise!Next
  <1>1. /\ row'.live = FALSE /\ row'.version = 1 /\ row'.status = "draft"
        /\ row'.content = row.content /\ files' = {}
    BY DEF CommitDelete, NewRow
  <1>2. Promise!Delete
    BY <1>1 DEF Promise!Delete
  <1>3. QED
    BY <1>2 DEF Promise!Next

LEMMA NextImplements ==
  ASSUME TypeOK, RefInv, SInv, Next
  PROVE  Promise!Next \/ UNCHANGED Promise!pvars
  <1>1. CASE Crash
    BY <1>1, HiddenStep DEF Crash
  <1>2. ASSUME NEW s \in Sessions, Step(s)
        PROVE  Promise!Next \/ UNCHANGED Promise!pvars
    <2>1. CASE \E c \in Contents : CommitEdit(s, c)
      BY <2>1, EditImplements
    <2>2. CASE Commit(s)
      BY <2>2, CommitImplements
    <2>3. CASE CommitDelete(s)
      BY <2>3, DeleteImplements
    <2>4. CASE ~(Commit(s) \/ CommitDelete(s) \/ \E c \in Contents : CommitEdit(s, c))
      <3>1. UNCHANGED <<row, files>>
        BY <1>2, <2>4 DEF Step, LoadRow, LoadDays, BumpVersion, UseCache,
           UseArtifacts, RenderPng, RenderPdf, MarkGenerated, SendPhoto, SendDocument,
           NothingToSend, TelegramRefuses, MarkSent, UnlinkFiles, ScanRows,
           UnlinkOrphans, Rollback
      <3>2. QED
        BY <3>1, HiddenStep
    <2>5. QED
      BY <2>1, <2>2, <2>3, <2>4
  <1>3. QED
    BY <1>1, <1>2 DEF Next

\* One handler at a time, and with crashes and redeploys between any two of its
\* steps, the rows implement the versions that the README promises.
THEOREM SerialImplements == RSpec => SerialImplementsVersions
  <1>1. RInit => Promise!Init
    BY DEF RInit, Init, NewRow, Promise!Init
  <1>2. TypeOK /\ RefInv /\ SerialInv /\ [RNext]_<<vars, regime>>
          => [regime = "serial" => Promise!Next \/ UNCHANGED Promise!pvars]_vars
    BY NextImplements DEF SerialInv, RNext, vars
  <1>3. QED
    BY <1>1, <1>2, SerialInvariant, PTL DEF RSpec, SerialImplementsVersions

=============================================================================
