----------------------------- MODULE PlanRegimes -----------------------------
(* PlanLifecycle under two regimes, told apart by a variable that is fixed  *)
(* when a behaviour starts: two handlers that edit and deliver overlap, or  *)
(* every handler runs, one at a time.                                       *)
EXTENDS PlanLifecycle

CONSTANTS
  OverlapOps,      \* the handlers that overlap
  OverlapContents  \* the contents a plan has meanwhile (a bound)

ASSUME RegimesAssumption == OverlapOps \cap {"delete", "cleanup"} = {}

VARIABLE regime

Regimes == {"overlap", "serial"}

Redeployed ==
  disk # {} /\ disk' = {} /\ \A s \in Sessions : ~Active(s)'

\* Two handlers share a few contents and crashes; one at a time meets every
\* content, handler and fault.
Overlap ==
  /\ \A s \in Sessions : Active(s)' => sess'[s].op \in OverlapOps
  /\ row'.content \in OverlapContents
  /\ ~Redeployed
Serial == \A s, t \in Sessions : Active(s)' /\ Active(t) => s = t

RInit ==
  /\ Init
  /\ regime \in Regimes
  /\ regime = "overlap" => row.content \in OverlapContents

RNext ==
  /\ Next
  /\ IF regime = "overlap" THEN Overlap ELSE Serial
  /\ UNCHANGED regime

RSpec == RInit /\ [][RNext]_<<vars, regime>>

\* Without redeploys, both files of whatever the row or the history refers to are
\* on the disk (generate and delete_plan of two handlers).
OverlapRecordedOnDisk == regime = "overlap" => RecordedOnDisk

\* One handler at a time, a generated plan's artefact shows the plan as it is.
SerialGeneratedShowsContent == regime = "serial" => GeneratedShowsContent

\* One handler at a time, a version number of plan_files stands for one content.
SerialOneContentPerVersion == regime = "serial" => OneContentPerVersion

\* One handler at a time, editing a published plan opens the next version.
SerialEditOpensNewVersion == [][regime = "serial" => OpensNewVersion]_vars

\* One handler at a time, delete_orphans leaves the files of recorded versions.
SerialCleanupSparesRecorded == [][regime = "serial" => SparesRecorded]_vars

\* One handler at a time, the rows implement PlanVersions.
SerialImplementsVersions ==
  /\ regime = "serial" => Promise!Init
  /\ [][regime = "serial" => Promise!Next \/ UNCHANGED Promise!pvars]_vars

=============================================================================
