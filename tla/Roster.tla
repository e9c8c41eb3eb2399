------------------------------- MODULE Roster -------------------------------
(***************************************************************************)
(* Which advisor has which student, whose plans are whose, and what the    *)
(* deletion of one of them takes with it.                                  *)
(*                                                                         *)
(* A handler checks that its actor may do it and selects the rows it is    *)
(* about, then changes them in one transaction; other handlers may commit  *)
(* in between.  PostgreSQL holds the foreign keys (ON DELETE CASCADE from a*)
(* user to their links and plans) and the unique pair of a link; no key    *)
(* makes a student's week unique.                                          *)
(*                                                                         *)
(* Abstractions: who is suspended and how a role is obtained are the       *)
(* subject of Accounts, the life of one plan that of PlanLifecycle.  Flush *)
(* and commit are one step: who refers to a row that an open transaction   *)
(* deletes waits for it.  The selects of a handler are one step.           *)
(***************************************************************************)
EXTENDS Naturals, FiniteSets

CONSTANTS
  Admins, Advisors,  \* the staff
  Students,          \* ids of student rows (a bound: the sequence never ends)
  PlanIds,           \* ids of plans (a bound, likewise)
  Weeks,             \* first days of weeks
  Nobody,            \* no user: no actor, or no target advisor
  NoPlan,            \* the plan row does not exist
  Sessions,          \* handlers that may be in flight at the same time
  Ops                \* per session, the handlers it may run

AllOps == {"create_student", "create_plan", "generate", "delete_plan", "purge",
           "delete_student", "delete_advisor", "transfer", "detach"}
Staff == Admins \cup Advisors
People == Staff \cup Students
Link == Staff \X Students
Plan == [student: Students, advisor: Staff, week: Weeks, recorded: BOOLEAN]

ASSUME RosterAssumption ==
  /\ Admins \cap Advisors = {} /\ Staff \cap Students = {}
  /\ Nobody \notin People /\ NoPlan \notin Plan
  /\ Weeks \subseteq Nat
  /\ Ops \in [Sessions -> SUBSET AllOps]

VARIABLES
  people,  \* the ids of the committed users rows
  links,   \* the committed advisor_students rows
  plans,   \* the committed weekly_plans rows; recorded: it has artefacts
  disk,    \* the plans that have recorded artefacts under STORAGE_ROOT
  fresh,   \* the ids that were never given to a row
  sess     \* per handler: what it is about to commit

vars == <<people, links, plans, disk, fresh, sess>>

\* links: all links as the handler read them; picked: the plans it changes or
\* deletes; files: those of them whose artefacts it will unlink.
SessionStates == [op: AllOps \cup {"none"}, me: Staff \cup {Nobody},
                  who: People \cup {Nobody}, to: Staff \cup {Nobody},
                  week: Weeks \cup {0}, links: SUBSET Link,
                  picked: SUBSET PlanIds, files: SUBSET PlanIds]
Idle == [op |-> "none", me |-> Nobody, who |-> Nobody, to |-> Nobody, week |-> 0,
         links |-> {}, picked |-> {}, files |-> {}]

Init ==
  /\ people = Staff
  /\ links = {}
  /\ plans = [p \in PlanIds |-> NoPlan]
  /\ disk = {}
  /\ fresh = Students \cup PlanIds
  /\ sess = [s \in Sessions |-> Idle]

-----------------------------------------------------------------------------
(* What a handler reads.                                                   *)

Stored == {p \in PlanIds : plans[p] # NoPlan}

IsAdmin(a) == a \in Admins
IsAssigned(a, u) == <<a, u>> \in links
\* ensure_owns_student, and _student_in_scope of the deletions
Owns(a, u) == a \in people /\ u \in people /\ (IsAdmin(a) \/ IsAssigned(a, u))
\* ensure_can_edit_plan
MayEdit(a, p) == a \in people /\ (IsAdmin(a) \/ plans[p].advisor = a)

FindByWeek(u, w) == {p \in Stored : plans[p].student = u /\ plans[p].week = w}

\* Mutant: the artefacts of a plan are not collected.
NoFiles(P) == {}

\* _files_of_plans, remove_plan_files
FilesOf(P) == {p \in P \cap Stored : plans[p].recorded}

\* The handler has read what it needs for op and goes on to its commit.
Reads(s, op, me, who, to, week, picked, files) ==
  /\ sess[s].op = "none" /\ op \in Ops[s]
  /\ sess' = [sess EXCEPT ![s] =
       [op |-> op, me |-> me, who |-> who, to |-> to, week |-> week,
        links |-> links, picked |-> picked, files |-> files]]
  /\ UNCHANGED <<people, links, plans, disk, fresh>>

\* create_student and approve_request: an admin may choose the advisor.
AskCreateStudent(s, me, to) ==
  /\ {me, to} \subseteq people
  /\ to = me \/ IsAdmin(me)
  /\ Reads(s, "create_student", me, Nobody, to, 0, {}, {})

\* Mutant: a week that has a plan gets another one.
AskCreatePlanAgain(s, me, u, w) ==
  /\ Owns(me, u)
  /\ Reads(s, "create_plan", me, u, Nobody, w, {}, {})

\* create_plan: the plan of the week is opened if there is one.
AskCreatePlan(s, me, u, w) ==
  /\ Owns(me, u)
  /\ FindByWeek(u, w) = {}
  /\ Reads(s, "create_plan", me, u, Nobody, w, {}, {})

AskGenerate(s, me, p) ==
  /\ p \in Stored /\ MayEdit(me, p)
  /\ Reads(s, "generate", me, Nobody, Nobody, 0, {p}, {})

AskDeletePlan(s, me, p) ==
  /\ p \in Stored /\ MayEdit(me, p)
  /\ Reads(s, "delete_plan", me, Nobody, Nobody, 0, {p}, FilesOf({p}))

\* purge_older_than, from the command line: no actor.
AskPurge(s, w) ==
  LET stale == {p \in Stored : plans[p].week < w}
  IN Reads(s, "purge", Nobody, Nobody, Nobody, 0, stale, FilesOf(stale))

AskDeleteStudent(s, me, u) ==
  LET theirs == {p \in Stored : plans[p].student = u}
  IN /\ Owns(me, u)
     /\ Reads(s, "delete_student", me, u, Nobody, 0, theirs, FilesOf(theirs))

\* delete_advisor: admin only, never an admin; without a target the plans the
\* advisor wrote are deleted, with one they follow the students.
AskDeleteAdvisor(s, me, a, to) ==
  LET authored == {p \in Stored : plans[p].advisor = a}
  IN /\ me \in people /\ IsAdmin(me)
     /\ a \in people \cap Advisors
     /\ to # a /\ to \in people \cup {Nobody}
     /\ Reads(s, "delete_advisor", me, a, to, 0, authored,
              IF to = Nobody THEN FilesOf(authored) ELSE {})

AskTransfer(s, me, u, to) ==
  /\ me \in people /\ IsAdmin(me)
  /\ u \in people /\ to \in people
  /\ Reads(s, "transfer", me, u, to, 0, {}, {})

\* detach_student: only the link to the actor.
AskDetach(s, me, u) ==
  /\ Owns(me, u)
  /\ Reads(s, "detach", me, u, Nobody, 0, {}, {})

Ask(s) ==
  \/ \E w \in Weeks : AskPurge(s, w)
  \/ \E me \in Staff :
       \/ \E to \in Staff : AskCreateStudent(s, me, to)
       \/ \E u \in Students, w \in Weeks : AskCreatePlan(s, me, u, w)
       \/ \E p \in PlanIds : AskGenerate(s, me, p) \/ AskDeletePlan(s, me, p)
       \/ \E u \in Students : AskDeleteStudent(s, me, u) \/ AskDetach(s, me, u)
       \/ \E a \in Advisors, to \in Staff \cup {Nobody} : AskDeleteAdvisor(s, me, a, to)
       \/ \E u \in Students, to \in Staff : AskTransfer(s, me, u, to)

-----------------------------------------------------------------------------
(* What it commits.                                                        *)

\* Handler s runs op, and the actor of the audit row still exists.
Commits(s, op) ==
  /\ sess[s].op = op
  /\ sess[s].me \in people \cup {Nobody}
  /\ sess' = [sess EXCEPT ![s] = Idle]

\* Mutant: a plan outlives the users it refers to.
NotCascaded(who, P) == [p \in PlanIds |-> IF p \in P THEN NoPlan ELSE plans[p]]

\* The plans without those of P, and without those of user who (ON DELETE CASCADE).
Without(who, P) ==
  [p \in PlanIds |->
    IF p \in P \/ (plans[p] # NoPlan /\ who \in {plans[p].student, plans[p].advisor})
    THEN NoPlan ELSE plans[p]]

Unlinked(who, L) == {l \in L : who \notin {l[1], l[2]}}

CreateStudent(s) ==
  /\ Commits(s, "create_student")
  /\ sess[s].to \in people
  /\ \E u \in fresh \cap Students :
       /\ people' = people \cup {u}
       /\ links' = links \cup {<<sess[s].to, u>>}
       /\ fresh' = fresh \ {u}
  /\ UNCHANGED <<plans, disk>>

CreatePlan(s) ==
  /\ Commits(s, "create_plan")
  /\ sess[s].who \in people
  /\ \E p \in fresh \cap PlanIds :
       /\ plans' = [plans EXCEPT ![p] = [student |-> sess[s].who, advisor |-> sess[s].me,
                                         week |-> sess[s].week, recorded |-> FALSE]]
       /\ fresh' = fresh \ {p}
  /\ UNCHANGED <<people, links, disk>>

\* mark_generated: an UPDATE of a row that is gone raises StaleDataError.
Generate(s) ==
  /\ Commits(s, "generate")
  /\ \E p \in sess[s].picked :
       /\ plans[p] # NoPlan
       /\ plans' = [plans EXCEPT ![p].recorded = TRUE]
       /\ disk' = disk \cup {p}
  /\ UNCHANGED <<people, links, fresh>>

\* delete_plan, purge_older_than: the artefacts, then the rows.
DeletePlans(s) ==
  /\ Commits(s, "delete_plan") \/ Commits(s, "purge")
  /\ plans' = Without(Nobody, sess[s].picked)
  /\ disk' = disk \ sess[s].files
  /\ UNCHANGED <<people, links, fresh>>

DeleteStudent(s) ==
  /\ Commits(s, "delete_student")
  /\ people' = people \ {sess[s].who}
  /\ links' = Unlinked(sess[s].who, links)
  /\ plans' = Without(sess[s].who, sess[s].picked)
  /\ disk' = disk \ sess[s].files
  /\ UNCHANGED fresh

\* delete_advisor, "detach".
DetachAll(s) ==
  /\ sess[s].to = Nobody /\ Commits(s, "delete_advisor")
  /\ people' = people \ {sess[s].who}
  /\ links' = Unlinked(sess[s].who, links)
  /\ plans' = Without(sess[s].who, sess[s].picked)
  /\ disk' = disk \ sess[s].files
  /\ UNCHANGED fresh

\* The links that delete_advisor adds: the target's, where they were missing.
NewLinks(x) ==
  {<<x.to, u>> : u \in {v \in Students : <<x.who, v>> \in x.links}} \ x.links

\* Mutant: the students are handed over, their plans are not.
TransferLinksOnly(s) ==
  LET x == sess[s]
  IN /\ x.to # Nobody /\ Commits(s, "delete_advisor")
     /\ NewLinks(x) \cap links = {} /\ \A l \in NewLinks(x) : l[2] \in people
     /\ NewLinks(x) # {} => x.to \in people
     /\ people' = people \ {x.who}
     /\ links' = Unlinked(x.who, links) \cup NewLinks(x)
     /\ plans' = Without(x.who, {})
     /\ UNCHANGED <<disk, fresh>>

\* delete_advisor, "transfer": students and plans follow the target.
TransferAll(s) ==
  LET x == sess[s]
  IN /\ x.to # Nobody /\ Commits(s, "delete_advisor")
     /\ NewLinks(x) \cap links = {} /\ \A l \in NewLinks(x) : l[2] \in people
     /\ x.picked \subseteq Stored
     /\ NewLinks(x) # {} \/ x.picked # {} => x.to \in people
     /\ people' = people \ {x.who}
     /\ links' = Unlinked(x.who, links) \cup NewLinks(x)
     /\ plans' = [p \in PlanIds |->
          IF p \in x.picked THEN [plans[p] EXCEPT !.advisor = x.to]
                            ELSE Without(x.who, {})[p]]
     /\ UNCHANGED <<disk, fresh>>

\* Mutant: the student keeps the old advisor too.
TransferAdding(s) ==
  LET x == sess[s]
  IN /\ Commits(s, "transfer")
     /\ {x.who, x.to} \subseteq people /\ <<x.to, x.who>> \notin links
     /\ links' = links \cup {<<x.to, x.who>>}
     /\ UNCHANGED <<people, plans, disk, fresh>>

\* transfer_student: a DELETE of the links it sees, and one INSERT.
Transfer(s) ==
  LET x == sess[s]
      old == {l \in x.links : l[2] = x.who}
  IN /\ Commits(s, "transfer")
     /\ {x.who, x.to} \subseteq people
     /\ <<x.to, x.who>> \notin links \ old
     /\ links' = (links \ old) \cup {<<x.to, x.who>>}
     /\ UNCHANGED <<people, plans, disk, fresh>>

Detach(s) ==
  /\ Commits(s, "detach")
  /\ links' = links \ {<<sess[s].me, sess[s].who>>}
  /\ UNCHANGED <<people, plans, disk, fresh>>

\* Any handler may end in an exception.
Rollback(s) ==
  /\ sess[s].op # "none"
  /\ sess' = [sess EXCEPT ![s] = Idle]
  /\ UNCHANGED <<people, links, plans, disk, fresh>>

\* The same, after its files were unlinked.
FailAfterUnlink(s) ==
  /\ sess[s].files # {}
  /\ disk' = disk \ sess[s].files
  /\ sess' = [sess EXCEPT ![s] = Idle]
  /\ UNCHANGED <<people, links, plans, fresh>>

Next ==
  \E s \in Sessions :
    \/ Ask(s)
    \/ CreateStudent(s) \/ CreatePlan(s) \/ Generate(s) \/ DeletePlans(s)
    \/ DeleteStudent(s) \/ DetachAll(s) \/ TransferAll(s) \/ Transfer(s) \/ Detach(s)
    \/ Rollback(s) \/ FailAfterUnlink(s)

Spec == Init /\ [][Next]_vars

-----------------------------------------------------------------------------
(* Properties.                                                             *)

\* Types, and the references between rows: a link or a plan belongs to people
\* who exist, whatever was deleted while it was being written.
References ==
  /\ \A l \in links : l[1] \in people /\ l[2] \in people
  /\ \A p \in Stored : {plans[p].student, plans[p].advisor} \subseteq people
TypeOK ==
  /\ people \subseteq People
  /\ links \subseteq Link
  /\ plans \in [PlanIds -> Plan \cup {NoPlan}]
  /\ disk \subseteq PlanIds
  /\ fresh \subseteq Students \cup PlanIds
  /\ sess \in [Sessions -> SessionStates]
  /\ References

\* Pressing "new plan" for a week opens the plan that is there
\* (tests/test_students.py:765): a student has one plan per week, through every
\* transfer and deletion, as long as two creations do not overlap.
OnePlanPerWeek ==
  \A p, q \in Stored :
    plans[p].student = plans[q].student /\ plans[p].week = plans[q].week => p = q

\* A student is on one roster, however often they or their advisors are moved.
OneAdvisor == \A l, m \in links : l[2] = m[2] => l = m

\* A handler that deletes an advisor with a transfer destroys nothing of what it
\* has read, whatever is committed meanwhile (deletion.py:185): the plans, with
\* their artefacts, and the students are the target's, but for a student whom
\* another handler has taken from the target meanwhile.
TransferKeepsPlans ==
  [][\A s \in Sessions :
       LET x == sess[s]
       IN (/\ x.op = "delete_advisor" /\ x.to # Nobody
           /\ sess'[s].op = "none" /\ x.who \in people \ people')
          => /\ \A p \in x.picked :
                  /\ plans'[p] # NoPlan /\ plans'[p].advisor = x.to
                  /\ p \in disk => p \in disk'
             /\ \A u \in Students :
                  <<x.who, u>> \in x.links
                    => <<x.to, u>> \in links' \/ <<x.to, u>> \in x.links \ links]_vars

\* Deleting a plan, or whoever it belongs to, deletes its artefacts
\* (README.md:385): no recorded artefact outlives its plan, as long as none is
\* recorded while the deletion is under way.
FilesFollowPlans == disk \subseteq Stored

\* "This advisor has no students; deleting them is harmless" (texts.py:245).
HarmlessWithoutStudents ==
  [][\A a \in people \ people' :
       a \in Advisors /\ (\A u \in Students : <<a, u>> \notin links)
         => \A p \in Stored : plans'[p] # NoPlan]_vars

=============================================================================
