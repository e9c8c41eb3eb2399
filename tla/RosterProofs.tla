---------------------------- MODULE RosterProofs ----------------------------
(***************************************************************************)
(* Theorems about Roster, for any people, plans, weeks and sessions.       *)
(***************************************************************************)
EXTENDS Roster, TLAPS

(***************************************************************************)
(* TypeOK is not inductive: a commit writes what its handler chose when it *)
(* read, so the invariant also says what a handler in flight has chosen.   *)
(***************************************************************************)
ArgsOK(x) ==
  /\ x.op = "create_student" => x.to \in Staff
  /\ x.op = "create_plan" => x.me \in Staff /\ x.who \in Students /\ x.week \in Weeks
  /\ x.op = "delete_student" => x.who \in Students
  /\ x.op = "delete_advisor" => x.who \in Advisors /\ x.to # x.who
  /\ x.op \in {"transfer", "detach"} => x.who \in Students
  /\ x.op = "transfer" => x.to \in Staff
IInv == TypeOK /\ \A s \in Sessions : ArgsOK(sess[s])

PlanRows == [PlanIds -> Plan \cup {NoPlan}]

\* A handler that is done leaves a well-formed session behind.
LEMMA IdleOK == Idle \in SessionStates /\ ArgsOK(Idle)
  BY DEF Idle, SessionStates, ArgsOK

LEMMA SessionOK ==
  ASSUME IInv, NEW s \in Sessions, NEW x \in SessionStates, ArgsOK(x),
         sess' = [sess EXCEPT ![s] = x]
  PROVE  sess' \in [Sessions -> SessionStates] /\ \A t \in Sessions : ArgsOK(sess'[t])
  <1>1. sess \in [Sessions -> SessionStates] /\ \A t \in Sessions : ArgsOK(sess[t])
    BY DEF IInv, TypeOK
  <1> QED BY <1>1

LEMMA CommitsOK ==
  ASSUME IInv, NEW s \in Sessions, NEW op, Commits(s, op)
  PROVE  sess' \in [Sessions -> SessionStates] /\ \A t \in Sessions : ArgsOK(sess'[t])
  BY IdleOK, SessionOK DEF Commits

\* What a deletion leaves of the plans.
LEMMA WithoutOK ==
  ASSUME plans \in PlanRows, NEW who, NEW P
  PROVE  /\ Without(who, P) \in PlanRows
         /\ \A p \in PlanIds : Without(who, P)[p] # NoPlan =>
              /\ Without(who, P)[p] = plans[p] /\ p \notin P
              /\ who # plans[p].student /\ who # plans[p].advisor
         /\ \A p \in PlanIds : Without(who, P)[p] \in {plans[p], NoPlan}
  BY DEF Without, PlanRows

\* What a handler puts into its session when it has read.
Choice(op, me, who, to, week, picked, files) ==
  [op |-> op, me |-> me, who |-> who, to |-> to, week |-> week,
   links |-> links, picked |-> picked, files |-> files]

\* A read changes no row, and leaves well-formed sessions.
ReadOnly ==
  /\ sess' \in [Sessions -> SessionStates]
  /\ \A t \in Sessions : ArgsOK(sess'[t])
  /\ UNCHANGED <<people, links, plans, disk, fresh>>

LEMMA ChoiceOK ==
  ASSUME IInv, NEW s \in Sessions, NEW op \in AllOps, NEW me \in Staff \cup {Nobody},
         NEW who \in People \cup {Nobody}, NEW to \in Staff \cup {Nobody},
         NEW week \in Weeks \cup {0}, NEW picked \in SUBSET PlanIds,
         NEW files \in SUBSET PlanIds,
         Reads(s, op, me, who, to, week, picked, files),
         ArgsOK(Choice(op, me, who, to, week, picked, files))
  PROVE  ReadOnly
  <1>1. Choice(op, me, who, to, week, picked, files) \in SessionStates
    BY DEF IInv, TypeOK, SessionStates, Choice
  <1>2. sess' = [sess EXCEPT ![s] = Choice(op, me, who, to, week, picked, files)]
    BY DEF Reads, Choice
  <1>3. UNCHANGED <<people, links, plans, disk, fresh>>
    BY DEF Reads
  <1> QED BY <1>1, <1>2, <1>3, SessionOK DEF ReadOnly

LEMMA ReadsOK ==
  ASSUME IInv, NEW s \in Sessions, Ask(s)
  PROVE  ReadOnly
  <1>1. \A P \in SUBSET PlanIds : FilesOf(P) \in SUBSET PlanIds
    BY DEF FilesOf
  <1>2. Staff \subseteq People /\ Students \subseteq People /\ Advisors \subseteq People
    BY DEF People, Staff
  <1>3. /\ \A p \in PlanIds : {p} \in SUBSET PlanIds
        /\ {} \in SUBSET PlanIds /\ 0 \in Weeks \cup {0}
    OBVIOUS
  <1>4. ASSUME NEW w \in Weeks, AskPurge(s, w)
        PROVE  ReadOnly
    <2> DEFINE stale == {p \in Stored : plans[p].week < w}
    <2>1. Reads(s, "purge", Nobody, Nobody, Nobody, 0, stale, FilesOf(stale))
      BY <1>4 DEF AskPurge
    <2>2. ArgsOK(Choice("purge", Nobody, Nobody, Nobody, 0, stale, FilesOf(stale)))
      BY <1>4 DEF ArgsOK, Choice, AskPurge
    <2>3. "purge" \in AllOps
      BY DEF AllOps
    <2>4. stale \in SUBSET PlanIds
      BY DEF Stored
    <2> HIDE DEF stale
    <2> QED BY <1>1, <1>2, <1>3, <2>1, <2>2, <2>3, <2>4, ChoiceOK
  <1>5. ASSUME NEW me \in Staff, NEW to \in Staff, AskCreateStudent(s, me, to)
        PROVE  ReadOnly
    <2>1. Reads(s, "create_student", me, Nobody, to, 0, {}, {})
      BY <1>5 DEF AskCreateStudent
    <2>2. ArgsOK(Choice("create_student", me, Nobody, to, 0, {}, {}))
      BY <1>5 DEF ArgsOK, Choice, AskCreateStudent
    <2>3. "create_student" \in AllOps
      BY DEF AllOps
    <2> QED BY <1>1, <1>2, <1>3, <2>1, <2>2, <2>3, ChoiceOK
  <1>6. ASSUME NEW me \in Staff, NEW u \in Students, NEW w \in Weeks,
               AskCreatePlan(s, me, u, w)
        PROVE  ReadOnly
    <2>1. Reads(s, "create_plan", me, u, Nobody, w, {}, {})
      BY <1>6 DEF AskCreatePlan
    <2>2. ArgsOK(Choice("create_plan", me, u, Nobody, w, {}, {}))
      BY <1>6 DEF ArgsOK, Choice, AskCreatePlan
    <2>3. "create_plan" \in AllOps
      BY DEF AllOps
    <2> QED BY <1>1, <1>2, <1>3, <2>1, <2>2, <2>3, ChoiceOK
  <1>7. ASSUME NEW me \in Staff, NEW p \in PlanIds, AskGenerate(s, me, p)
        PROVE  ReadOnly
    <2>1. Reads(s, "generate", me, Nobody, Nobody, 0, {p}, {})
      BY <1>7 DEF AskGenerate
    <2>2. ArgsOK(Choice("generate", me, Nobody, Nobody, 0, {p}, {}))
      BY <1>7 DEF ArgsOK, Choice, AskGenerate
    <2>3. "generate" \in AllOps
      BY DEF AllOps
    <2> QED BY <1>1, <1>2, <1>3, <2>1, <2>2, <2>3, ChoiceOK
  <1>8. ASSUME NEW me \in Staff, NEW p \in PlanIds, AskDeletePlan(s, me, p)
        PROVE  ReadOnly
    <2>1. Reads(s, "delete_plan", me, Nobody, Nobody, 0, {p}, FilesOf({p}))
      BY <1>8 DEF AskDeletePlan
    <2>2. ArgsOK(Choice("delete_plan", me, Nobody, Nobody, 0, {p}, FilesOf({p})))
      BY <1>8 DEF ArgsOK, Choice, AskDeletePlan
    <2>3. "delete_plan" \in AllOps
      BY DEF AllOps
    <2> QED BY <1>1, <1>2, <1>3, <2>1, <2>2, <2>3, ChoiceOK
  <1>9. ASSUME NEW me \in Staff, NEW u \in Students, AskDeleteStudent(s, me, u)
        PROVE  ReadOnly
    <2> DEFINE theirs == {p \in Stored : plans[p].student = u}
    <2>1. Reads(s, "delete_student", me, u, Nobody, 0, theirs, FilesOf(theirs))
      BY <1>9 DEF AskDeleteStudent
    <2>2. ArgsOK(Choice("delete_student", me, u, Nobody, 0, theirs, FilesOf(theirs)))
      BY <1>9 DEF ArgsOK, Choice, AskDeleteStudent
    <2>3. "delete_student" \in AllOps
      BY DEF AllOps
    <2>4. theirs \in SUBSET PlanIds
      BY DEF Stored
    <2> HIDE DEF theirs
    <2> QED BY <1>1, <1>2, <1>3, <2>1, <2>2, <2>3, <2>4, ChoiceOK
  <1>10. ASSUME NEW me \in Staff, NEW u \in Students, AskDetach(s, me, u)
        PROVE  ReadOnly
    <2>1. Reads(s, "detach", me, u, Nobody, 0, {}, {})
      BY <1>10 DEF AskDetach
    <2>2. ArgsOK(Choice("detach", me, u, Nobody, 0, {}, {}))
      BY <1>10 DEF ArgsOK, Choice, AskDetach
    <2>3. "detach" \in AllOps
      BY DEF AllOps
    <2> QED BY <1>1, <1>2, <1>3, <2>1, <2>2, <2>3, ChoiceOK
  <1>11. ASSUME NEW me \in Staff, NEW a \in Advisors, NEW to \in Staff \cup {Nobody},
               AskDeleteAdvisor(s, me, a, to)
        PROVE  ReadOnly
    <2> DEFINE authored == {p \in Stored : plans[p].advisor = a}
               files == IF to = Nobody THEN FilesOf(authored) ELSE {}
    <2>1. Reads(s, "delete_advisor", me, a, to, 0, authored, files)
      BY <1>11 DEF AskDeleteAdvisor
    <2>2. ArgsOK(Choice("delete_advisor", me, a, to, 0, authored, files))
      BY <1>11 DEF ArgsOK, Choice, AskDeleteAdvisor
    <2>3. "delete_advisor" \in AllOps
      BY DEF AllOps
    <2>4. authored \in SUBSET PlanIds
      BY DEF Stored
    <2>5. files \in SUBSET PlanIds
      BY <1>1, <2>4
    <2> HIDE DEF authored, files
    <2> QED BY <1>1, <1>2, <1>3, <2>1, <2>2, <2>3, <2>4, <2>5, ChoiceOK
  <1>12. ASSUME NEW me \in Staff, NEW u \in Students, NEW to \in Staff, AskTransfer(s, me, u, to)
        PROVE  ReadOnly
    <2>1. Reads(s, "transfer", me, u, to, 0, {}, {})
      BY <1>12 DEF AskTransfer
    <2>2. ArgsOK(Choice("transfer", me, u, to, 0, {}, {}))
      BY <1>12 DEF ArgsOK, Choice, AskTransfer
    <2>3. "transfer" \in AllOps
      BY DEF AllOps
    <2> QED BY <1>1, <1>2, <1>3, <2>1, <2>2, <2>3, ChoiceOK
  <1> QED BY <1>4, <1>5, <1>6, <1>7, <1>8, <1>9, <1>10, <1>11, <1>12 DEF Ask

-----------------------------------------------------------------------------
(* TypeOK.                                                                 *)

LEMMA InitIInv == Init => IInv
  <1> SUFFICES ASSUME Init PROVE IInv
    OBVIOUS
  <1>1. sess \in [Sessions -> SessionStates] /\ \A s \in Sessions : ArgsOK(sess[s])
    BY IdleOK DEF Init
  <1> QED BY <1>1 DEF Init, IInv, TypeOK, References, Stored, People

\* A transaction whose rows are well formed preserves the invariant.
LEMMA TablesOK ==
  ASSUME sess' \in [Sessions -> SessionStates], \A t \in Sessions : ArgsOK(sess'[t]),
         people' \subseteq People, links' \subseteq Link, plans' \in PlanRows,
         disk' \subseteq PlanIds, fresh' \subseteq Students \cup PlanIds, References'
  PROVE  IInv'
  BY DEF IInv, TypeOK, PlanRows

\* The references that a deletion of user who leaves.
LEMMA DeletionOK ==
  ASSUME IInv, NEW who, NEW P, people' = people \ {who},
         links' = Unlinked(who, links), plans' = Without(who, P)
  PROVE  people' \subseteq People /\ links' \subseteq Link /\ plans' \in PlanRows /\ References'
  <1>1. /\ people \subseteq People /\ links \subseteq Link /\ plans \in PlanRows
        /\ \A l \in links : l[1] \in people /\ l[2] \in people
        /\ \A p \in PlanIds : plans[p] # NoPlan =>
             plans[p].student \in people /\ plans[p].advisor \in people
    BY DEF IInv, TypeOK, PlanRows, References, Stored
  <1>2. \A l \in links' : l \in links /\ who \notin {l[1], l[2]}
    BY DEF Unlinked
  <1>3. plans' \in PlanRows
    BY <1>1, WithoutOK
  <1>4. ASSUME NEW p \in PlanIds, plans'[p] # NoPlan
        PROVE  plans'[p].student \in people' /\ plans'[p].advisor \in people'
    <2>1. plans'[p] = plans[p] /\ who # plans[p].student /\ who # plans[p].advisor
      BY <1>1, <1>4, WithoutOK
    <2> QED BY <1>1, <1>4, <2>1
  <1> QED BY <1>1, <1>2, <1>3, <1>4 DEF References, Stored

\* An advisor who is deleted with a transfer leaves well-formed rows behind.
LEMMA TransferAllOK ==
  ASSUME IInv, NEW s \in Sessions, TransferAll(s)
  PROVE  /\ Commits(s, "delete_advisor")
         /\ people' \subseteq People /\ links' \subseteq Link /\ plans' \in PlanRows
         /\ disk' = disk /\ fresh' = fresh /\ References'
  <1> DEFINE x == sess[s]
  <1>1. /\ people \subseteq People /\ links \subseteq Link /\ plans \in PlanRows
        /\ \A l \in links : l[1] \in people /\ l[2] \in people
        /\ \A p \in PlanIds : plans[p] # NoPlan =>
             plans[p].student \in people /\ plans[p].advisor \in people
        /\ x \in SessionStates /\ ArgsOK(x)
    BY DEF IInv, TypeOK, PlanRows, References, Stored
  <1>2. /\ x.to # Nobody /\ Commits(s, "delete_advisor")
        /\ \A l \in NewLinks(x) : l[2] \in people
        /\ x.picked \subseteq Stored
        /\ NewLinks(x) # {} \/ x.picked # {} => x.to \in people
        /\ people' = people \ {x.who}
        /\ links' = Unlinked(x.who, links) \cup NewLinks(x)
        /\ plans' = [p \in PlanIds |->
             IF p \in x.picked THEN [plans[p] EXCEPT !.advisor = x.to]
                               ELSE Without(x.who, {})[p]]
        /\ disk' = disk /\ fresh' = fresh
    BY DEF TransferAll
  <1>3. /\ x.op = "delete_advisor" /\ x.who \in Advisors /\ x.to # x.who
        /\ x.to \in Staff /\ x.picked \subseteq PlanIds
    BY <1>1, <1>2 DEF Commits, ArgsOK, SessionStates
  <1>4. x.who \notin Students
    BY <1>3, RosterAssumption DEF Staff
  <1>5. ASSUME NEW l \in NewLinks(x)
        PROVE  l \in Link /\ l[1] = x.to /\ l[2] \in Students
    <2>1. PICK u \in Students : l = <<x.to, u>>
      BY DEF NewLinks
    <2> QED BY <1>3, <2>1 DEF Link
  <1>6. \A l \in NewLinks(x) : l[1] \in people' /\ l[2] \in people'
    BY <1>2, <1>3, <1>4, <1>5
  <1>7. \A l \in Unlinked(x.who, links) : l \in Link /\ l[1] \in people' /\ l[2] \in people'
    BY <1>1, <1>2 DEF Unlinked
  <1> HIDE DEF x
  <1>8. ASSUME NEW p \in PlanIds
        PROVE  /\ plans'[p] \in Plan \cup {NoPlan}
               /\ plans'[p] # NoPlan =>
                    plans'[p].student \in people' /\ plans'[p].advisor \in people'
    <2>1. CASE p \in x.picked
      <3>1. plans[p] # NoPlan /\ plans[p] \in Plan
        BY <1>1, <1>2, <2>1 DEF Stored, PlanRows
      <3>2. plans'[p] = [plans[p] EXCEPT !.advisor = x.to]
        BY <1>2, <2>1
      <3>3. /\ plans'[p] \in Plan /\ plans'[p].advisor = x.to
            /\ plans'[p].student = plans[p].student /\ plans[p].student \in Students
        BY <1>3, <3>1, <3>2 DEF Plan
      <3> QED BY <1>1, <1>2, <1>3, <1>4, <2>1, <3>1, <3>3
    <2>2. CASE p \notin x.picked
      <3>1. plans'[p] = Without(x.who, {})[p]
        BY <1>2, <2>2
      <3>2. Without(x.who, {})[p] \in Plan \cup {NoPlan}
        BY <1>1, WithoutOK DEF PlanRows
      <3>3. Without(x.who, {})[p] # NoPlan =>
              /\ Without(x.who, {})[p] = plans[p]
              /\ x.who # plans[p].student /\ x.who # plans[p].advisor
        BY <1>1, WithoutOK
      <3>4. people' = people \ {x.who}
        BY <1>2
      <3>5. plans[p] # NoPlan => plans[p].student \in people /\ plans[p].advisor \in people
        BY <1>1
      <3> QED BY <3>1, <3>2, <3>3, <3>4, <3>5
    <2> QED BY <2>1, <2>2
  <1>9. plans' \in PlanRows
    BY <1>2, <1>8 DEF PlanRows
  <1>10. References'
    BY <1>2, <1>6, <1>7, <1>8, ZenonT(30) DEF References, Stored
  <1> QED BY <1>1, <1>2, <1>5, <1>7, <1>9, <1>10

LEMMA NextIInv == IInv /\ [Next]_vars => IInv'
  <1> SUFFICES ASSUME IInv, [Next]_vars PROVE IInv'
    OBVIOUS
  <1>0. /\ people \subseteq People /\ links \subseteq Link /\ plans \in PlanRows
        /\ disk \subseteq PlanIds /\ fresh \subseteq Students \cup PlanIds
        /\ \A l \in links : l[1] \in people /\ l[2] \in people
        /\ \A p \in PlanIds : plans[p] # NoPlan =>
             plans[p].student \in people /\ plans[p].advisor \in people
        /\ sess \in [Sessions -> SessionStates]
        /\ \A s \in Sessions : ArgsOK(sess[s])
    BY DEF IInv, TypeOK, PlanRows, References, Stored
  <1>1. CASE UNCHANGED vars
    BY <1>1 DEF vars, IInv, TypeOK, References, Stored
  <1>2. ASSUME NEW s \in Sessions, Ask(s) PROVE IInv'
    <2>1. ReadOnly
      BY <1>2, ReadsOK
    <2> QED BY <2>1 DEF ReadOnly, IInv, TypeOK, References, Stored
  <1>3. ASSUME NEW s \in Sessions, CreateStudent(s) PROVE IInv'
    <2>1. Commits(s, "create_student") /\ sess[s].to \in people
      BY <1>3 DEF CreateStudent
    <2>2. sess[s].to \in Staff
      BY <1>0, <2>1 DEF ArgsOK, Commits
    <2>3. PICK u \in fresh \cap Students :
            /\ people' = people \cup {u} /\ links' = links \cup {<<sess[s].to, u>>}
            /\ fresh' = fresh \ {u}
      BY <1>3 DEF CreateStudent
    <2>4. plans' = plans /\ disk' = disk
      BY <1>3 DEF CreateStudent
    <2>5. people' \subseteq People /\ links' \subseteq Link
      BY <1>0, <2>2, <2>3 DEF People, Link
    <2>6. References'
      BY <1>0, <2>1, <2>3, <2>4 DEF References, Stored
    <2> QED BY <1>0, <2>1, <2>3, <2>4, <2>5, <2>6, CommitsOK, TablesOK
  <1>4. ASSUME NEW s \in Sessions, CreatePlan(s) PROVE IInv'
    <2>1. Commits(s, "create_plan") /\ sess[s].who \in people
      BY <1>4 DEF CreatePlan
    <2>2. /\ sess[s].me \in Staff /\ sess[s].who \in Students /\ sess[s].week \in Weeks
      BY <1>0, <2>1 DEF ArgsOK, Commits
    <2>3. sess[s].me \in people
      BY <2>1, <2>2, RosterAssumption DEF Commits, People
    <2> DEFINE r == [student |-> sess[s].who, advisor |-> sess[s].me,
                     week |-> sess[s].week, recorded |-> FALSE]
    <2>4. PICK p \in fresh \cap PlanIds :
            plans' = [plans EXCEPT ![p] = r] /\ fresh' = fresh \ {p}
      BY <1>4 DEF CreatePlan
    <2>5. people' = people /\ links' = links /\ disk' = disk
      BY <1>4 DEF CreatePlan
    <2>6. r \in Plan /\ r.student \in people /\ r.advisor \in people
      BY <2>1, <2>2, <2>3 DEF Plan
    <2> HIDE DEF r
    <2>7. plans' \in PlanRows /\ \A q \in PlanIds : plans'[q] \in {plans[q], r}
      BY <1>0, <2>4, <2>6 DEF PlanRows
    <2>8. References'
      BY <1>0, <2>5, <2>6, <2>7 DEF References, Stored
    <2> QED BY <1>0, <2>1, <2>4, <2>5, <2>7, <2>8, CommitsOK, TablesOK
  <1>5. ASSUME NEW s \in Sessions, Generate(s) PROVE IInv'
    <2>1. Commits(s, "generate")
      BY <1>5 DEF Generate
    <2>2. PICK p \in sess[s].picked :
            /\ plans[p] # NoPlan /\ plans' = [plans EXCEPT ![p].recorded = TRUE]
            /\ disk' = disk \cup {p}
      BY <1>5 DEF Generate
    <2>3. people' = people /\ links' = links /\ fresh' = fresh
      BY <1>5 DEF Generate
    <2>4. p \in PlanIds
      BY <1>0, <2>2 DEF SessionStates
    <2>5. plans[p] \in Plan
      BY <1>0, <2>2, <2>4 DEF PlanRows
    <2>6. /\ plans'[p] \in Plan
          /\ plans'[p].student = plans[p].student /\ plans'[p].advisor = plans[p].advisor
      BY <1>0, <2>2, <2>4, <2>5 DEF PlanRows, Plan
    <2>7. plans' \in PlanRows /\ \A q \in PlanIds : q # p => plans'[q] = plans[q]
      BY <1>0, <2>2, <2>4, <2>6 DEF PlanRows
    <2>8. References'
      BY <1>0, <2>2, <2>3, <2>6, <2>7 DEF References, Stored
    <2>9. disk' \subseteq PlanIds
      BY <1>0, <2>2, <2>4
    <2> QED BY <1>0, <2>1, <2>3, <2>7, <2>8, <2>9, CommitsOK, TablesOK
  <1>6. ASSUME NEW s \in Sessions, DeletePlans(s) PROVE IInv'
    <2>1. Commits(s, "delete_plan") \/ Commits(s, "purge")
      BY <1>6 DEF DeletePlans
    <2>2. /\ plans' = Without(Nobody, sess[s].picked) /\ disk' = disk \ sess[s].files
          /\ people' = people /\ links' = links /\ fresh' = fresh
      BY <1>6 DEF DeletePlans
    <2>3. plans' \in PlanRows
      BY <1>0, <2>2, WithoutOK
    <2>4. \A p \in PlanIds : plans'[p] # NoPlan => plans'[p] = plans[p]
      BY <1>0, <2>2, WithoutOK
    <2>5. References'
      BY <1>0, <2>2, <2>4 DEF References, Stored
    <2> QED BY <1>0, <2>1, <2>2, <2>3, <2>5, CommitsOK, TablesOK
  <1>7. ASSUME NEW s \in Sessions, DeleteStudent(s) \/ DetachAll(s) PROVE IInv'
    <2>1. Commits(s, "delete_student") \/ Commits(s, "delete_advisor")
      BY <1>7 DEF DeleteStudent, DetachAll
    <2>2. /\ people' = people \ {sess[s].who} /\ links' = Unlinked(sess[s].who, links)
          /\ plans' = Without(sess[s].who, sess[s].picked)
          /\ disk' = disk \ sess[s].files /\ fresh' = fresh
      BY <1>7 DEF DeleteStudent, DetachAll
    <2>3. /\ people' \subseteq People /\ links' \subseteq Link /\ plans' \in PlanRows
          /\ References'
      BY <2>2, DeletionOK
    <2> QED BY <1>0, <2>1, <2>2, <2>3, CommitsOK, TablesOK
  <1>8. ASSUME NEW s \in Sessions, TransferAll(s) PROVE IInv'
    BY <1>8, <1>0, TransferAllOK, CommitsOK, TablesOK
  <1>9. ASSUME NEW s \in Sessions, Transfer(s) PROVE IInv'
    <2>1. Commits(s, "transfer") /\ sess[s].who \in people /\ sess[s].to \in people
      BY <1>9 DEF Transfer
    <2>2. sess[s].to \in Staff /\ sess[s].who \in Students
      BY <1>0, <2>1 DEF ArgsOK, Commits
    <2>3. /\ links' \subseteq links \cup {<<sess[s].to, sess[s].who>>}
          /\ people' = people /\ plans' = plans /\ disk' = disk /\ fresh' = fresh
      BY <1>9 DEF Transfer
    <2>4. links' \subseteq Link
      BY <1>0, <2>2, <2>3 DEF Link
    <2>5. References'
      BY <1>0, <2>1, <2>3 DEF References, Stored
    <2> QED BY <1>0, <2>1, <2>3, <2>4, <2>5, CommitsOK, TablesOK
  <1>10. ASSUME NEW s \in Sessions, Detach(s) PROVE IInv'
    <2>1. Commits(s, "detach")
      BY <1>10 DEF Detach
    <2>2. /\ links' \subseteq links /\ people' = people /\ plans' = plans
          /\ disk' = disk /\ fresh' = fresh
      BY <1>10 DEF Detach
    <2>3. References'
      BY <1>0, <2>2 DEF References, Stored
    <2> QED BY <1>0, <2>1, <2>2, <2>3, CommitsOK, TablesOK
  <1>11. ASSUME NEW s \in Sessions, Rollback(s) \/ FailAfterUnlink(s) PROVE IInv'
    <2>1. sess' = [sess EXCEPT ![s] = Idle]
      BY <1>11 DEF Rollback, FailAfterUnlink
    <2>2. sess' \in [Sessions -> SessionStates] /\ \A t \in Sessions : ArgsOK(sess'[t])
      BY <2>1, IdleOK, SessionOK
    <2>3. /\ people' = people /\ links' = links /\ plans' = plans /\ fresh' = fresh
          /\ disk' \subseteq disk
      BY <1>11 DEF Rollback, FailAfterUnlink
    <2>4. References'
      BY <1>0, <2>3 DEF References, Stored
    <2> QED BY <1>0, <2>2, <2>3, <2>4, TablesOK
  <1> QED BY <1>1, <1>2, <1>3, <1>4, <1>5, <1>6, <1>7, <1>8, <1>9, <1>10, <1>11 DEF Next

\* Spec => []TypeOK: types, and no link or plan that refers to somebody who was
\* deleted, for any handlers in any order.
THEOREM RosterTyped == Spec => []TypeOK
  <1>1. IInv => TypeOK
    BY DEF IInv
  <1> QED BY <1>1, InitIInv, NextIInv, PTL DEF Spec

-----------------------------------------------------------------------------
(* Steps, seen from the plans and from the sessions.                       *)

CreatesPlan == \E s \in Sessions : CreatePlan(s)

\* No step but the creation of a plan makes one, or changes whose it is.
LEMMA KeepsWeek ==
  ASSUME IInv, [Next]_vars, ~CreatesPlan, NEW p \in PlanIds, plans'[p] # NoPlan
  PROVE  /\ plans[p] # NoPlan /\ plans'[p].student = plans[p].student
         /\ plans'[p].week = plans[p].week
  <1>1. plans \in PlanRows /\ sess \in [Sessions -> SessionStates]
    BY DEF IInv, TypeOK, PlanRows
  <1>2. CASE UNCHANGED plans
    BY <1>2
  <1>3. ASSUME NEW s \in Sessions, Generate(s)
        PROVE  /\ plans[p] # NoPlan /\ plans'[p].student = plans[p].student
               /\ plans'[p].week = plans[p].week
    <2>1. PICK q \in sess[s].picked :
            plans[q] # NoPlan /\ plans' = [plans EXCEPT ![q].recorded = TRUE]
      BY <1>3 DEF Generate
    <2>2. q \in PlanIds
      BY <1>1, <2>1 DEF SessionStates
    <2>3. plans[q] \in Plan
      BY <1>1, <2>1, <2>2 DEF PlanRows
    <2>4. CASE p = q
      <3>1. plans'[p] = [plans[p] EXCEPT !.recorded = TRUE]
        BY <1>1, <2>1, <2>4 DEF PlanRows
      <3> QED BY <2>1, <2>3, <2>4, <3>1 DEF Plan
    <2>5. CASE p # q
      BY <1>1, <2>1, <2>5 DEF PlanRows
    <2> QED BY <2>4, <2>5
  <1>4. ASSUME NEW who, NEW P, plans' = Without(who, P)
        PROVE  /\ plans[p] # NoPlan /\ plans'[p].student = plans[p].student
               /\ plans'[p].week = plans[p].week
    BY <1>1, <1>4, WithoutOK
  <1>5. ASSUME NEW s \in Sessions, TransferAll(s)
        PROVE  /\ plans[p] # NoPlan /\ plans'[p].student = plans[p].student
               /\ plans'[p].week = plans[p].week
    <2>1. /\ sess[s].picked \subseteq Stored
          /\ plans' = [q \in PlanIds |->
               IF q \in sess[s].picked THEN [plans[q] EXCEPT !.advisor = sess[s].to]
                                       ELSE Without(sess[s].who, {})[q]]
      BY <1>5 DEF TransferAll
    <2>2. CASE p \in sess[s].picked
      <3>1. plans[p] \in Plan /\ plans[p] # NoPlan
        BY <1>1, <2>1, <2>2 DEF Stored, PlanRows
      <3>2. plans'[p] = [plans[p] EXCEPT !.advisor = sess[s].to]
        BY <2>1, <2>2
      <3> QED BY <3>1, <3>2 DEF Plan
    <2>3. CASE p \notin sess[s].picked
      <3>1. plans'[p] = Without(sess[s].who, {})[p]
        BY <2>1, <2>3
      <3> QED BY <1>1, <3>1, WithoutOK
    <2> QED BY <2>2, <2>3
  <1>6. ASSUME NEW s \in Sessions, Ask(s) PROVE UNCHANGED plans
    BY <1>6, ReadsOK DEF ReadOnly
  <1>7. ASSUME NEW s \in Sessions, DeletePlans(s) \/ DeleteStudent(s) \/ DetachAll(s)
        PROVE  \E who, P : plans' = Without(who, P)
    BY <1>7 DEF DeletePlans, DeleteStudent, DetachAll
  <1>8. ASSUME NEW s \in Sessions,
               CreateStudent(s) \/ Transfer(s) \/ Detach(s) \/ Rollback(s) \/ FailAfterUnlink(s)
        PROVE  UNCHANGED plans
    BY <1>8 DEF CreateStudent, Transfer, Detach, Rollback, FailAfterUnlink
  <1>9. CASE UNCHANGED vars
    BY <1>2, <1>9 DEF vars
  <1> QED BY <1>2, <1>3, <1>4, <1>5, <1>6, <1>7, <1>8, <1>9 DEF Next, CreatesPlan

\* A step reads for one session, or ends one, or leaves them all.
LEMMA OneSessionMoves ==
  ASSUME IInv, [Next]_vars
  PROVE  \/ UNCHANGED vars
         \/ \E s \in Sessions : Ask(s)
         \/ \E s \in Sessions : sess' = [sess EXCEPT ![s] = Idle]
  BY DEF Next, CreateStudent, CreatePlan, Generate, DeletePlans, DeleteStudent, DetachAll,
         TransferAll, Transfer, Detach, Rollback, FailAfterUnlink, Commits

LEMMA AskChoice ==
  ASSUME NEW s \in Sessions, Ask(s), sess \in [Sessions -> SessionStates]
  PROVE  /\ \A t \in Sessions : t # s => sess'[t] = sess[t]
         /\ sess'[s].op \in Ops[s]
         /\ sess'[s].op = "create_plan" =>
              FindByWeek(sess'[s].who, sess'[s].week) = {}
  <1>1. ASSUME NEW op, NEW me, NEW who, NEW to, NEW week, NEW picked, NEW files,
               Reads(s, op, me, who, to, week, picked, files)
        PROVE  /\ \A t \in Sessions : t # s => sess'[t] = sess[t]
               /\ op \in Ops[s] /\ sess'[s].op = op
               /\ sess'[s].who = who /\ sess'[s].week = week
    BY <1>1 DEF Reads
  <1>2. ASSUME NEW me \in Staff, NEW u \in Students, NEW w \in Weeks,
               AskCreatePlan(s, me, u, w)
        PROVE  /\ \A t \in Sessions : t # s => sess'[t] = sess[t]
               /\ sess'[s].op \in Ops[s] /\ FindByWeek(sess'[s].who, sess'[s].week) = {}
    BY <1>1, <1>2 DEF AskCreatePlan
  <1>3. ASSUME ~\E me \in Staff, u \in Students, w \in Weeks : AskCreatePlan(s, me, u, w)
        PROVE  /\ \A t \in Sessions : t # s => sess'[t] = sess[t]
               /\ sess'[s].op \in Ops[s] /\ sess'[s].op # "create_plan"
    <2>1. \E op \in AllOps \ {"create_plan"} : \E me, who, to, week, picked, files :
            Reads(s, op, me, who, to, week, picked, files)
      BY <1>3 DEF AllOps, Ask, AskPurge, AskCreateStudent, AskGenerate, AskDeletePlan,
                  AskDeleteStudent, AskDeleteAdvisor, AskTransfer, AskDetach
    <2> QED BY <1>1, <2>1
  <1> QED BY <1>2, <1>3

-----------------------------------------------------------------------------
(* OnePlanPerWeek.                                                         *)

\* At most one session creates plans.
OneCreator ==
  \A s, t \in Sessions :
    "create_plan" \in Ops[s] /\ "create_plan" \in Ops[t] => s = t

\* The plan that is being created is still missing when it is committed.
StillMissing(s) ==
  sess[s].op = "create_plan" =>
    "create_plan" \in Ops[s] /\ FindByWeek(sess[s].who, sess[s].week) = {}
WInv == OnePlanPerWeek /\ \A s \in Sessions : StillMissing(s)

LEMMA InitWInv == Init => WInv
  BY DEF Init, WInv, OnePlanPerWeek, StillMissing, Stored, Idle

LEMMA NextWInv ==
  ASSUME OneCreator, IInv, WInv, [Next]_vars
  PROVE  WInv'
  <1>1. plans \in PlanRows /\ sess \in [Sessions -> SessionStates]
    BY DEF IInv, TypeOK, PlanRows
  <1>2. CASE CreatesPlan
    <2>1. PICK s \in Sessions : CreatePlan(s)
      BY <1>2 DEF CreatesPlan
    <2>2. sess[s].op = "create_plan" /\ sess' = [sess EXCEPT ![s] = Idle]
      BY <2>1 DEF CreatePlan, Commits
    <2> DEFINE r == [student |-> sess[s].who, advisor |-> sess[s].me,
                     week |-> sess[s].week, recorded |-> FALSE]
    <2>3. PICK p \in fresh \cap PlanIds : plans' = [plans EXCEPT ![p] = r]
      BY <2>1 DEF CreatePlan
    <2>4. r.student = sess[s].who /\ r.week = sess[s].week
      OBVIOUS
    <2> HIDE DEF r
    <2>5. \A q \in PlanIds : plans'[q] = IF q = p THEN r ELSE plans[q]
      BY <1>1, <2>3 DEF PlanRows
    <2>6. \A q \in Stored : ~(plans[q].student = r.student /\ plans[q].week = r.week)
      BY <2>2, <2>4 DEF WInv, StillMissing, FindByWeek
    <2>7. OnePlanPerWeek'
      BY <2>5, <2>6 DEF WInv, OnePlanPerWeek, Stored
    <2>8. ASSUME NEW t \in Sessions PROVE StillMissing(t)'
      <3>1. CASE t = s
        BY <1>1, <2>2, <3>1 DEF StillMissing, Idle
      <3>2. CASE t # s
        <4>1. sess'[t] = sess[t]
          BY <1>1, <2>2, <3>2
        <4>2. "create_plan" \in Ops[s]
          BY <2>2 DEF WInv, StillMissing
        <4>3. sess[t].op # "create_plan"
          BY <3>2, <4>2 DEF WInv, StillMissing, OneCreator
        <4> QED BY <4>1, <4>3 DEF StillMissing
      <3> QED BY <3>1, <3>2
    <2> QED BY <2>7, <2>8 DEF WInv
  <1>3. CASE ~CreatesPlan
    <2>1. \A p \in PlanIds : plans'[p] # NoPlan =>
            /\ plans[p] # NoPlan /\ plans'[p].student = plans[p].student
            /\ plans'[p].week = plans[p].week
      BY <1>3, KeepsWeek
    <2>2. OnePlanPerWeek'
      BY <2>1 DEF WInv, OnePlanPerWeek, Stored
    <2>3. \A u, w : FindByWeek(u, w) = {} => FindByWeek(u, w)' = {}
      BY <2>1 DEF FindByWeek, Stored
    <2>4. ASSUME NEW t \in Sessions PROVE StillMissing(t)'
      <3>1. CASE sess'[t] = sess[t]
        <4>1. sess[t].op = "create_plan" =>
                "create_plan" \in Ops[t] /\ FindByWeek(sess[t].who, sess[t].week) = {}
          BY DEF WInv, StillMissing
        <4> QED BY <2>1, <3>1, <4>1 DEF StillMissing, FindByWeek, Stored
      <3>2. CASE sess'[t] = Idle
        BY <3>2 DEF StillMissing, Idle
      <3>3. CASE Ask(t)
        <4>1. plans' = plans
          BY <3>3, ReadsOK DEF ReadOnly
        <4> QED BY <1>1, <3>3, <4>1, AskChoice DEF StillMissing, FindByWeek, Stored
      <3>4. sess'[t] = sess[t] \/ sess'[t] = Idle \/ Ask(t)
        BY <1>1, OneSessionMoves, AskChoice DEF vars
      <3> QED BY <3>1, <3>2, <3>3, <3>4
    <2> QED BY <2>2, <2>4 DEF WInv
  <1> QED BY <1>2, <1>3

\* A student has one plan per week if creations do not overlap: whatever transfers,
\* deletions and generations run at the same time, for any number of them.
THEOREM OnePlan ==
  ASSUME OneCreator
  PROVE  Spec => []OnePlanPerWeek
  <1>1. Init => IInv /\ WInv
    BY InitIInv, InitWInv
  <1>2. IInv /\ WInv /\ [Next]_vars => IInv' /\ WInv'
    BY NextIInv, NextWInv
  <1>3. WInv => OnePlanPerWeek
    BY DEF WInv
  <1> QED BY <1>1, <1>2, <1>3, PTL DEF Spec

-----------------------------------------------------------------------------
(* TransferKeepsPlans.                                                     *)

\* What one transfer keeps.
Kept(s) ==
  LET x == sess[s]
  IN /\ \A p \in x.picked :
          /\ plans'[p] # NoPlan /\ plans'[p].advisor = x.to
          /\ p \in disk => p \in disk'
     /\ \A u \in Students :
          <<x.who, u>> \in x.links
            => <<x.to, u>> \in links' \/ <<x.to, u>> \in x.links \ links

LEMMA TransferAllKeeps ==
  ASSUME IInv, NEW s \in Sessions, TransferAll(s)
  PROVE  Kept(s)
  <1> DEFINE x == sess[s]
  <1>1. /\ plans \in PlanRows /\ links \subseteq Link
        /\ x \in SessionStates /\ ArgsOK(x)
    BY DEF IInv, TypeOK, PlanRows
  <1>2. /\ x.to # Nobody /\ x.op = "delete_advisor" /\ x.picked \subseteq Stored
        /\ links' = Unlinked(x.who, links) \cup NewLinks(x)
        /\ plans' = [p \in PlanIds |->
             IF p \in x.picked THEN [plans[p] EXCEPT !.advisor = x.to]
                               ELSE Without(x.who, {})[p]]
        /\ disk' = disk
    BY DEF TransferAll, Commits
  <1>3. x.who \in Advisors /\ x.to # x.who /\ x.to \in Staff
    BY <1>1, <1>2 DEF ArgsOK, SessionStates
  <1>4. ASSUME NEW p \in x.picked
        PROVE  plans'[p] # NoPlan /\ plans'[p].advisor = x.to /\ (p \in disk => p \in disk')
    <2>1. p \in PlanIds /\ plans[p] \in Plan
      BY <1>1, <1>2 DEF Stored, PlanRows
    <2>2. plans'[p] = [plans[p] EXCEPT !.advisor = x.to]
      BY <1>2, <2>1
    <2>3. plans'[p] \in Plan /\ plans'[p].advisor = x.to
      BY <1>3, <2>1, <2>2 DEF Plan
    <2> QED BY <1>2, <2>3, RosterAssumption
  <1>5. ASSUME NEW u \in Students, <<x.who, u>> \in x.links
        PROVE  <<x.to, u>> \in links' \/ <<x.to, u>> \in x.links \ links
    <2>1. CASE <<x.to, u>> \notin x.links
      <3>1. <<x.to, u>> \in NewLinks(x)
        BY <1>5, <2>1 DEF NewLinks
      <3> QED BY <1>2, <3>1
    <2>2. CASE <<x.to, u>> \in links
      <3>1. x.who # u
        BY <1>3, RosterAssumption DEF Staff
      <3>2. <<x.to, u>> \in Unlinked(x.who, links)
        BY <1>3, <2>2, <3>1 DEF Unlinked
      <3> QED BY <1>2, <3>2
    <2> QED BY <2>1, <2>2
  <1> QED BY <1>4, <1>5 DEF Kept

\* Spec => TransferKeepsPlans: for any handlers that run at the same time, an advisor
\* deleted with a transfer leaves every plan and student that was read to the target.
THEOREM TransferKeeps == Spec => TransferKeepsPlans
  <1>1. ASSUME IInv, [Next]_vars, NEW s \in Sessions, sess[s].op = "delete_advisor",
               sess[s].to # Nobody, sess'[s].op = "none",
               sess[s].who \in people \ people'
        PROVE  Kept(s)
    <2>1. sess \in [Sessions -> SessionStates]
      BY <1>1 DEF IInv, TypeOK
    <2>2. people' # people
      BY <1>1
    <2>3. ASSUME NEW t \in Sessions, sess' = [sess EXCEPT ![t] = Idle] PROVE t = s
      BY <1>1, <2>1, <2>3 DEF Idle
    <2>4. ASSUME NEW t \in Sessions,
                 DeleteStudent(t) \/ DetachAll(t) \/ CreateStudent(t)
          PROVE  FALSE
      <3>1. sess' = [sess EXCEPT ![t] = Idle]
        BY <2>4 DEF DeleteStudent, DetachAll, CreateStudent, Commits
      <3>2. t = s
        BY <2>3, <3>1
      <3> QED BY <1>1, <2>4, <3>2 DEF DeleteStudent, DetachAll, CreateStudent, Commits
    <2>5. ASSUME NEW t \in Sessions, TransferAll(t) PROVE Kept(s)
      <3>1. sess' = [sess EXCEPT ![t] = Idle]
        BY <2>5 DEF TransferAll, Commits
      <3>2. t = s
        BY <2>3, <3>1
      <3> QED BY <1>1, <2>5, <3>2, TransferAllKeeps
    <2>6. ASSUME NEW t \in Sessions, Ask(t) PROVE people' = people
      BY <1>1, <2>6, ReadsOK DEF ReadOnly
    <2>7. ASSUME NEW t \in Sessions,
                 \/ CreatePlan(t) \/ Generate(t) \/ DeletePlans(t) \/ Transfer(t)
                 \/ Detach(t) \/ Rollback(t) \/ FailAfterUnlink(t)
          PROVE  people' = people
      BY <2>7 DEF CreatePlan, Generate, DeletePlans, Transfer, Detach, Rollback, FailAfterUnlink
    <2> QED BY <1>1, <2>2, <2>4, <2>5, <2>6, <2>7 DEF Next, vars
  <1>2. IInv /\ [Next]_vars => [\A s \in Sessions :
          LET x == sess[s]
          IN (/\ x.op = "delete_advisor" /\ x.to # Nobody
              /\ sess'[s].op = "none" /\ x.who \in people \ people')
             => /\ \A p \in x.picked :
                     /\ plans'[p] # NoPlan /\ plans'[p].advisor = x.to
                     /\ p \in disk => p \in disk'
                /\ \A u \in Students :
                     <<x.who, u>> \in x.links
                       => <<x.to, u>> \in links' \/ <<x.to, u>> \in x.links \ links]_vars
    BY <1>1 DEF Kept
  <1> QED BY <1>2, InitIInv, NextIInv, PTL DEF Spec, TransferKeepsPlans

-----------------------------------------------------------------------------
(* FilesFollowPlans.                                                       *)

\* The handlers that record artefacts, or delete plans.
Moving == {"generate", "delete_plan", "purge", "delete_student", "delete_advisor"}
\* At most one session runs them.
OneMover ==
  \A s, t \in Sessions :
    Ops[s] \cap Moving # {} /\ Ops[t] \cap Moving # {} => s = t

\* A deletion in flight has collected the artefacts of all it will delete.
Covered(s) ==
  LET x == sess[s]
  IN /\ x.op \in Moving => x.op \in Ops[s]
     /\ x.op \in {"delete_plan", "purge"} => \A p \in x.picked \cap disk : p \in x.files
     /\ x.op = "delete_student" =>
          \A p \in disk : p \in x.picked \/ plans[p].student = x.who => p \in x.files
     /\ x.op = "delete_advisor" /\ x.to = Nobody =>
          \A p \in disk : p \in x.picked \/ plans[p].advisor = x.who => p \in x.files
     /\ x.op = "delete_advisor" /\ x.to # Nobody =>
          \A p \in disk : plans[p].advisor = x.who => p \in x.picked
FRows == /\ FilesFollowPlans /\ fresh \cap Stored = {}
         /\ \A p \in disk : plans[p].recorded
FInv == FRows /\ \A s \in Sessions : Covered(s)

LEMMA InitFInv == Init => FInv
  BY DEF Init, FInv, FRows, FilesFollowPlans, Covered, Stored, Idle, Moving

LEMMA AskCovered ==
  ASSUME IInv, FRows, NEW s \in Sessions, Ask(s)
  PROVE  Covered(s)'
  <1>1. plans' = plans /\ disk' = disk /\ sess \in [Sessions -> SessionStates]
    BY ReadsOK DEF ReadOnly, IInv, TypeOK
  <1>2. ASSUME NEW op, NEW me, NEW who, NEW to, NEW week, NEW picked, NEW files,
               Reads(s, op, me, who, to, week, picked, files)
        PROVE  /\ op \in Ops[s] /\ sess'[s].op = op /\ sess'[s].who = who
               /\ sess'[s].to = to /\ sess'[s].picked = picked /\ sess'[s].files = files
    BY <1>1, <1>2 DEF Reads
  <1>3. \A P : \A p \in P \cap disk : p \in FilesOf(P)
    BY DEF FRows, FilesFollowPlans, FilesOf
  <1>4. \A p \in disk : p \in Stored
    BY DEF FRows, FilesFollowPlans
  <1>5. ASSUME NEW w \in Weeks, AskPurge(s, w) PROVE Covered(s)'
    <2> DEFINE stale == {p \in Stored : plans[p].week < w}
    <2>1. Reads(s, "purge", Nobody, Nobody, Nobody, 0, stale, FilesOf(stale))
      BY <1>5 DEF AskPurge
    <2> HIDE DEF stale
    <2>2. /\ "purge" \in Ops[s] /\ sess'[s].op = "purge"
          /\ sess'[s].picked = stale /\ sess'[s].files = FilesOf(stale)
      BY <1>2, <2>1
    <2> QED BY <1>1, <1>3, <2>2 DEF Covered
  <1>6. ASSUME NEW me \in Staff, NEW p \in PlanIds, AskDeletePlan(s, me, p)
        PROVE  Covered(s)'
    <2>1. Reads(s, "delete_plan", me, Nobody, Nobody, 0, {p}, FilesOf({p}))
      BY <1>6 DEF AskDeletePlan
    <2>2. /\ "delete_plan" \in Ops[s] /\ sess'[s].op = "delete_plan"
          /\ sess'[s].picked = {p} /\ sess'[s].files = FilesOf({p})
      BY <1>2, <2>1
    <2> QED BY <1>1, <1>3, <2>2 DEF Covered
  <1>7. ASSUME NEW me \in Staff, NEW u \in Students, AskDeleteStudent(s, me, u)
        PROVE  Covered(s)'
    <2> DEFINE theirs == {p \in Stored : plans[p].student = u}
    <2>1. Reads(s, "delete_student", me, u, Nobody, 0, theirs, FilesOf(theirs))
      BY <1>7 DEF AskDeleteStudent
    <2>2. \A p \in disk : plans[p].student = u => p \in theirs
      BY <1>4
    <2> HIDE DEF theirs
    <2>3. /\ "delete_student" \in Ops[s] /\ sess'[s].op = "delete_student"
          /\ sess'[s].who = u
          /\ sess'[s].picked = theirs /\ sess'[s].files = FilesOf(theirs)
      BY <1>2, <2>1
    <2> QED BY <1>1, <1>3, <2>2, <2>3 DEF Covered
  <1>8. ASSUME NEW me \in Staff, NEW a \in Advisors, NEW to \in Staff \cup {Nobody},
               AskDeleteAdvisor(s, me, a, to)
        PROVE  Covered(s)'
    <2> DEFINE authored == {p \in Stored : plans[p].advisor = a}
               files == IF to = Nobody THEN FilesOf(authored) ELSE {}
    <2>1. Reads(s, "delete_advisor", me, a, to, 0, authored, files)
      BY <1>8 DEF AskDeleteAdvisor
    <2>2. \A p \in disk : plans[p].advisor = a => p \in authored
      BY <1>4
    <2>3. to = Nobody => files = FilesOf(authored)
      OBVIOUS
    <2> HIDE DEF authored, files
    <2>4. /\ "delete_advisor" \in Ops[s] /\ sess'[s].op = "delete_advisor"
          /\ sess'[s].who = a /\ sess'[s].to = to
          /\ sess'[s].picked = authored /\ sess'[s].files = files
      BY <1>2, <2>1
    <2> QED BY <1>1, <1>3, <2>2, <2>3, <2>4 DEF Covered
  <1>9. ASSUME NEW me \in Staff, NEW p \in PlanIds, AskGenerate(s, me, p)
        PROVE  Covered(s)'
    <2>1. "generate" \in Ops[s] /\ sess'[s].op = "generate"
      BY <1>2, <1>9 DEF AskGenerate
    <2> QED BY <2>1 DEF Covered
  <1>10. ASSUME NEW op \in {"create_student", "create_plan", "transfer", "detach"},
                sess'[s].op = op
         PROVE  Covered(s)'
    BY <1>10 DEF Covered, Moving
  <1>11. ASSUME NEW me \in Staff, NEW u \in Students,
                \/ \E to \in Staff : AskCreateStudent(s, me, to) \/ AskTransfer(s, me, u, to)
                \/ \E w \in Weeks : AskCreatePlan(s, me, u, w)
                \/ AskDetach(s, me, u)
         PROVE  Covered(s)'
    BY <1>2, <1>10, <1>11 DEF AskCreateStudent, AskTransfer, AskCreatePlan, AskDetach
  <1>12. ASSUME NEW me \in Staff, NEW to \in Staff, AskCreateStudent(s, me, to)
         PROVE  Covered(s)'
    BY <1>2, <1>10, <1>12 DEF AskCreateStudent
  <1> QED BY <1>5, <1>6, <1>7, <1>8, <1>9, <1>11, <1>12 DEF Ask

\* A handler that moves plans ends: the others move none, and none that is left is
\* without its artefacts.
LEMMA MovedOK ==
  ASSUME OneMover, IInv, FInv, NEW s \in Sessions, sess[s].op \in Moving,
         sess' = [sess EXCEPT ![s] = Idle], FRows'
  PROVE  FInv'
  <1>1. sess \in [Sessions -> SessionStates]
    BY DEF IInv, TypeOK
  <1>2. ASSUME NEW t \in Sessions PROVE Covered(t)'
    <2>1. CASE t = s
      BY <1>1, <2>1 DEF Covered, Idle, Moving
    <2>2. CASE t # s
      <3>1. sess'[t] = sess[t]
        BY <1>1, <2>2
      <3>2. sess[s].op \in Ops[s] /\ (sess[t].op \in Moving => sess[t].op \in Ops[t])
        BY DEF FInv, Covered
      <3>3. sess[t].op \notin Moving
        BY <2>2, <3>2 DEF OneMover
      <3> QED BY <3>1, <3>3 DEF Covered, Moving
    <2> QED BY <2>1, <2>2
  <1> QED BY <1>2 DEF FInv

\* A handler that moves none leaves the artefacts and their plans alone.
LEMMA UnmovedOK ==
  ASSUME IInv, FInv, FRows', NEW s \in Sessions, sess' = [sess EXCEPT ![s] = Idle],
         disk' \subseteq disk, \A p \in disk : plans'[p] = plans[p]
  PROVE  FInv'
  <1>1. sess \in [Sessions -> SessionStates]
    BY DEF IInv, TypeOK
  <1>2. ASSUME NEW t \in Sessions PROVE Covered(t)'
    <2>1. CASE t = s
      BY <1>1, <2>1 DEF Covered, Idle, Moving
    <2>2. CASE t # s
      <3>1. sess'[t] = sess[t] /\ Covered(t)
        BY <1>1, <2>2 DEF FInv
      <3> QED BY <3>1 DEF Covered
    <2> QED BY <2>1, <2>2
  <1> QED BY <1>2 DEF FInv

LEMMA NextFInv ==
  ASSUME OneMover, IInv, FInv, [Next]_vars
  PROVE  FInv'
  <1>0. /\ plans \in PlanRows /\ sess \in [Sessions -> SessionStates]
        /\ \A s \in Sessions : ArgsOK(sess[s]) /\ Covered(s)
        /\ disk \subseteq Stored /\ fresh \cap Stored = {} /\ \A p \in disk : plans[p].recorded
    BY DEF IInv, TypeOK, PlanRows, FInv, FRows, FilesFollowPlans
  <1>1. CASE UNCHANGED vars
    BY <1>1 DEF vars, FInv, FRows, FilesFollowPlans, Covered, Stored
  <1>2. ASSUME NEW s \in Sessions, Ask(s) PROVE FInv'
    <2>1. /\ plans' = plans /\ disk' = disk /\ fresh' = fresh
          /\ \A t \in Sessions : t # s => sess'[t] = sess[t]
      BY <1>0, <1>2, ReadsOK, AskChoice DEF ReadOnly
    <2>2. FRows'
      BY <2>1 DEF FInv, FRows, FilesFollowPlans, Stored
    <2>3. ASSUME NEW t \in Sessions PROVE Covered(t)'
      <3>1. CASE t = s
        BY <1>2, <3>1, AskCovered DEF FInv
      <3>2. CASE t # s
        BY <1>0, <2>1, <3>2 DEF Covered
      <3> QED BY <3>1, <3>2
    <2> QED BY <2>2, <2>3 DEF FInv
  <1>3. ASSUME NEW s \in Sessions, CreatePlan(s) PROVE FInv'
    <2>1. sess' = [sess EXCEPT ![s] = Idle] /\ disk' = disk
      BY <1>3 DEF CreatePlan, Commits
    <2> DEFINE r == [student |-> sess[s].who, advisor |-> sess[s].me,
                     week |-> sess[s].week, recorded |-> FALSE]
    <2>2. PICK p \in fresh \cap PlanIds :
            plans' = [plans EXCEPT ![p] = r] /\ fresh' = fresh \ {p}
      BY <1>3 DEF CreatePlan
    <2>3. sess[s].op = "create_plan"
      BY <1>3 DEF CreatePlan, Commits
    <2>4. sess[s].me \in Staff /\ sess[s].who \in Students /\ sess[s].week \in Weeks
      BY <1>0, <2>3 DEF ArgsOK
    <2>4a. r \in Plan
      BY <2>4 DEF Plan
    <2> HIDE DEF r
    <2>5. r # NoPlan
      BY <2>4a, RosterAssumption
    <2>6. \A q \in PlanIds : plans'[q] = IF q = p THEN r ELSE plans[q]
      BY <1>0, <2>2 DEF PlanRows
    <2>7. p \notin disk /\ disk \subseteq PlanIds
      BY <1>0, <2>2 DEF Stored
    <2>8. \A q \in disk : plans'[q] = plans[q]
      BY <2>6, <2>7
    <2>9. FRows'
      BY <1>0, <2>1, <2>2, <2>5, <2>6, <2>8 DEF FRows, FilesFollowPlans, Stored
    <2> QED BY <2>1, <2>8, <2>9, UnmovedOK
  <1>4. ASSUME NEW s \in Sessions,
               \/ CreateStudent(s) \/ Transfer(s) \/ Detach(s) \/ Rollback(s)
               \/ FailAfterUnlink(s)
        PROVE  FInv'
    <2>1. /\ sess' = [sess EXCEPT ![s] = Idle] /\ plans' = plans
          /\ disk' \subseteq disk /\ fresh' \subseteq fresh
      BY <1>4 DEF CreateStudent, Transfer, Detach, Rollback, FailAfterUnlink, Commits
    <2>2. FRows'
      BY <1>0, <2>1 DEF FRows, FilesFollowPlans, Stored
    <2> QED BY <2>1, <2>2, UnmovedOK
  <1>5. ASSUME NEW s \in Sessions, Generate(s) PROVE FInv'
    <2>1. sess[s].op = "generate" /\ sess' = [sess EXCEPT ![s] = Idle] /\ fresh' = fresh
      BY <1>5 DEF Generate, Commits
    <2>2. PICK p \in sess[s].picked :
            /\ plans[p] # NoPlan /\ plans' = [plans EXCEPT ![p].recorded = TRUE]
            /\ disk' = disk \cup {p}
      BY <1>5 DEF Generate
    <2>3. p \in PlanIds
      BY <1>0, <2>2 DEF SessionStates
    <2>4. plans[p] \in Plan
      BY <1>0, <2>2, <2>3 DEF PlanRows
    <2>5. plans'[p] = [plans[p] EXCEPT !.recorded = TRUE]
      BY <1>0, <2>2, <2>3 DEF PlanRows
    <2>6. plans'[p] \in Plan /\ plans'[p].recorded
      BY <2>4, <2>5 DEF Plan
    <2>7. plans'[p] # NoPlan
      BY <2>6, RosterAssumption
    <2>8. \A q \in PlanIds : q # p => plans'[q] = plans[q]
      BY <1>0, <2>2 DEF PlanRows
    <2>9. FRows'
      BY <1>0, <2>1, <2>2, <2>3, <2>6, <2>7, <2>8 DEF FRows, FilesFollowPlans, Stored
    <2> QED BY <2>1, <2>9, MovedOK DEF Moving
  <1>6. ASSUME NEW s \in Sessions, NEW who, sess[s].op \in Moving,
               sess' = [sess EXCEPT ![s] = Idle], fresh' = fresh,
               plans' = Without(who, sess[s].picked), disk' = disk \ sess[s].files,
               \A p \in disk :
                 \/ p \in sess[s].picked
                 \/ who \in {plans[p].student, plans[p].advisor}
                 => p \in sess[s].files
        PROVE  FInv'
    <2>1. ASSUME NEW p \in disk' PROVE p \in PlanIds /\ plans'[p] = plans[p] /\ plans[p] # NoPlan
      <3>1. /\ p \in disk /\ p \notin sess[s].picked /\ p \in PlanIds /\ plans[p] # NoPlan
            /\ who \notin {plans[p].student, plans[p].advisor}
        BY <1>0, <1>6 DEF Stored
      <3> QED BY <1>6, <3>1 DEF Without
    <2>2. \A p \in PlanIds : plans'[p] # NoPlan => plans[p] # NoPlan
      BY <1>0, <1>6, WithoutOK
    <2>3. FRows'
      BY <1>0, <1>6, <2>1, <2>2 DEF FRows, FilesFollowPlans, Stored
    <2> QED BY <1>6, <2>3, MovedOK
  <1>7. \A p \in disk : plans[p].student \in Students /\ plans[p].advisor \in Staff
    BY <1>0 DEF Stored, PlanRows, Plan
  <1>8. ASSUME NEW s \in Sessions, DeletePlans(s) PROVE FInv'
    <2>1. /\ sess[s].op \in {"delete_plan", "purge"} /\ sess' = [sess EXCEPT ![s] = Idle]
          /\ plans' = Without(Nobody, sess[s].picked)
          /\ disk' = disk \ sess[s].files /\ fresh' = fresh
      BY <1>8 DEF DeletePlans, Commits
    <2>2. \A p \in sess[s].picked \cap disk : p \in sess[s].files
      BY <1>0, <2>1 DEF Covered
    <2>3. \A p \in disk : Nobody \notin {plans[p].student, plans[p].advisor}
      BY <1>7, RosterAssumption DEF People
    <2>4. sess[s].op \in Moving
      BY <2>1 DEF Moving
    <2> QED BY <1>6, <2>1, <2>2, <2>3, <2>4
  <1>9. ASSUME NEW s \in Sessions, DeleteStudent(s) PROVE FInv'
    <2>1. /\ sess[s].op = "delete_student" /\ sess' = [sess EXCEPT ![s] = Idle]
          /\ plans' = Without(sess[s].who, sess[s].picked)
          /\ disk' = disk \ sess[s].files /\ fresh' = fresh
      BY <1>9 DEF DeleteStudent, Commits
    <2>2. sess[s].who \in Students
      BY <1>0, <2>1 DEF ArgsOK
    <2>3. \A p \in disk : p \in sess[s].picked \/ plans[p].student = sess[s].who
                            => p \in sess[s].files
      BY <1>0, <2>1 DEF Covered
    <2>4. \A p \in disk : plans[p].advisor # sess[s].who
      BY <1>7, <2>2, RosterAssumption
    <2>5. sess[s].op \in Moving
      BY <2>1 DEF Moving
    <2> QED BY <1>6, <2>1, <2>3, <2>4, <2>5, ZenonT(30)
  <1>10. ASSUME NEW s \in Sessions, DetachAll(s) PROVE FInv'
    <2>1. /\ sess[s].op = "delete_advisor" /\ sess[s].to = Nobody
          /\ sess' = [sess EXCEPT ![s] = Idle]
          /\ plans' = Without(sess[s].who, sess[s].picked)
          /\ disk' = disk \ sess[s].files /\ fresh' = fresh
      BY <1>10 DEF DetachAll, Commits
    <2>2. sess[s].who \in Advisors
      BY <1>0, <2>1 DEF ArgsOK
    <2>3. \A p \in disk : p \in sess[s].picked \/ plans[p].advisor = sess[s].who
                            => p \in sess[s].files
      BY <1>0, <2>1 DEF Covered
    <2>4. \A p \in disk : plans[p].student # sess[s].who
      BY <1>7, <2>2, RosterAssumption DEF Staff
    <2>5. sess[s].op \in Moving
      BY <2>1 DEF Moving
    <2> QED BY <1>6, <2>1, <2>3, <2>4, <2>5
  <1>11. ASSUME NEW s \in Sessions, TransferAll(s) PROVE FInv'
    <2> DEFINE x == sess[s]
    <2>1. /\ x.op = "delete_advisor" /\ x.to # Nobody /\ x.picked \subseteq Stored
          /\ sess' = [sess EXCEPT ![s] = Idle] /\ disk' = disk /\ fresh' = fresh
          /\ plans' = [p \in PlanIds |->
               IF p \in x.picked THEN [plans[p] EXCEPT !.advisor = x.to]
                                 ELSE Without(x.who, {})[p]]
      BY <1>11 DEF TransferAll, Commits
    <2>2. /\ x.who \in Advisors /\ x.to \in Staff
          /\ \A p \in disk : plans[p].advisor = x.who => p \in x.picked
      BY <1>0, <2>1 DEF ArgsOK, Covered, SessionStates
    <2>3. x.op \in Moving
      BY <2>1 DEF Moving
    <2> HIDE DEF x
    <2>4. ASSUME NEW p \in PlanIds, plans[p] # NoPlan
          PROVE  p \in x.picked => plans'[p] \in Plan /\ plans'[p].recorded = plans[p].recorded
      <3>1. plans[p] \in Plan
        BY <1>0, <2>4 DEF PlanRows
      <3>2. p \in x.picked => plans'[p] = [plans[p] EXCEPT !.advisor = x.to]
        BY <2>1
      <3>3. \A a \in Staff : [plans[p] EXCEPT !.advisor = a] \in Plan
                          /\ [plans[p] EXCEPT !.advisor = a].recorded = plans[p].recorded
        BY <3>1 DEF Plan
      <3> QED BY <2>2, <3>2, <3>3
    <2>5. ASSUME NEW p \in disk
          PROVE  p \in PlanIds /\ plans'[p] # NoPlan /\ plans'[p].recorded
      <3>1. p \in PlanIds /\ plans[p] # NoPlan /\ plans[p].recorded
        BY <1>0 DEF Stored
      <3>2. CASE p \in x.picked
        BY <2>4, <3>1, <3>2, RosterAssumption
      <3>3. CASE p \notin x.picked
        <4>1. x.who \notin {plans[p].student, plans[p].advisor}
          BY <1>7, <2>2, <3>3, RosterAssumption DEF Staff
        <4>2. plans'[p] = plans[p]
          BY <2>1, <3>1, <3>3, <4>1 DEF Without
        <4> QED BY <3>1, <4>2
      <3> QED BY <3>2, <3>3
    <2>6. ASSUME NEW p \in PlanIds, plans'[p] # NoPlan PROVE plans[p] # NoPlan
      <3>1. CASE p \in x.picked
        BY <2>1, <3>1 DEF Stored
      <3>2. CASE p \notin x.picked
        <4>1. plans'[p] = Without(x.who, {})[p]
          BY <2>1, <3>2
        <4> QED BY <1>0, <2>6, <4>1, WithoutOK
      <3> QED BY <3>1, <3>2
    <2>7. FRows'
      BY <1>0, <2>1, <2>5, <2>6 DEF FRows, FilesFollowPlans, Stored
    <2> USE DEF x
    <2> QED BY <2>1, <2>3, <2>7, MovedOK
  <1> QED BY <1>1, <1>2, <1>3, <1>4, <1>5, <1>8, <1>9, <1>10, <1>11 DEF Next

\* Deleting a plan, a student or an advisor leaves no recorded artefact of a plan
\* that is gone, if recordings and deletions do not overlap each other: whatever
\* creations, transfers and failures run at the same time.
THEOREM FilesFollow ==
  ASSUME OneMover
  PROVE  Spec => []FilesFollowPlans
  <1>1. Init => IInv /\ FInv
    BY InitIInv, InitFInv
  <1>2. IInv /\ FInv /\ [Next]_vars => IInv' /\ FInv'
    BY NextIInv, NextFInv
  <1>3. FInv => FilesFollowPlans
    BY DEF FInv, FRows
  <1> QED BY <1>1, <1>2, <1>3, PTL DEF Spec

-----------------------------------------------------------------------------
(* OneAdvisor.                                                             *)

Handing == {"transfer", "delete_advisor"}

\* At most one session hands students over.
OneHander ==
  \A s, t \in Sessions :
    Ops[s] \cap Handing # {} /\ Ops[t] \cap Handing # {} => s = t

\* What a handler that hands students over has read: every student of it had one
\* advisor, and has got no other meanwhile.
StillTheirs(s) ==
  LET x == sess[s]
  IN x.op \in Handing =>
       /\ x.op \in Ops[s]
       /\ \A l, m \in x.links : l[2] = m[2] => l = m
       /\ \A l \in x.links : l[2] \notin fresh
       /\ x.op = "transfer" => x.who \notin fresh
       /\ \A l \in links \ x.links :
            /\ \A m \in x.links : l[2] # m[2]
            /\ x.op = "transfer" => l[2] # x.who
LInv ==
  /\ OneAdvisor
  /\ fresh \cap Students \cap people = {}
  /\ \A s \in Sessions : StillTheirs(s)

LEMMA InitLInv == Init => LInv
  <1> SUFFICES ASSUME Init PROVE LInv
    OBVIOUS
  <1>1. Students \cap people = {} /\ links = {} /\ \A s \in Sessions : sess[s].op = "none"
    BY RosterAssumption DEF Init, Idle
  <1> QED BY <1>1 DEF LInv, OneAdvisor, StillTheirs, Handing

\* What is read is still so when nothing has been committed since.
LEMMA AskTheirs ==
  ASSUME IInv, LInv, NEW s \in Sessions, Ask(s)
  PROVE  StillTheirs(s)'
  <1>1. /\ sess \in [Sessions -> SessionStates] /\ links \subseteq Link
        /\ \A l \in links : l[2] \in people
    BY DEF IInv, TypeOK, References
  <1>2. ASSUME NEW op, NEW me, NEW who, NEW to, NEW week, NEW picked, NEW files,
               Reads(s, op, me, who, to, week, picked, files)
        PROVE  /\ op \in Ops[s] /\ sess'[s].op = op /\ sess'[s].who = who
               /\ sess'[s].links = links /\ links' = links /\ fresh' = fresh
    BY <1>1, <1>2 DEF Reads
  <1>3. \A l \in links : l[2] \notin fresh
    BY <1>1 DEF LInv, Link
  <1>4. \A l, m \in links : l[2] = m[2] => l = m
    BY DEF LInv, OneAdvisor
  <1>5. ASSUME NEW me \in Staff, NEW u \in Students, NEW to \in Staff, AskTransfer(s, me, u, to)
        PROVE  StillTheirs(s)'
    <2>1. Reads(s, "transfer", me, u, to, 0, {}, {}) /\ u \in people
      BY <1>5 DEF AskTransfer
    <2>2. u \notin fresh
      BY <2>1 DEF LInv
    <2> QED BY <1>2, <1>3, <1>4, <2>1, <2>2 DEF StillTheirs
  <1>6. ASSUME ~\E me \in Staff, u \in Students, to \in Staff : AskTransfer(s, me, u, to)
        PROVE  StillTheirs(s)'
    <2>1. PICK op \in AllOps \ {"transfer"} : \E me, who, to, week, picked, files :
            Reads(s, op, me, who, to, week, picked, files)
      BY <1>6 DEF AllOps, Ask, AskPurge, AskCreateStudent, AskCreatePlan, AskGenerate,
                  AskDeletePlan, AskDeleteStudent, AskDeleteAdvisor, AskDetach
    <2> QED BY <1>2, <1>3, <1>4, <2>1 DEF StillTheirs
  <1> QED BY <1>5, <1>6

\* A handler that ends without a new link.
LEMMA NoLinkMade ==
  ASSUME IInv, LInv, NEW s \in Sessions, sess' = [sess EXCEPT ![s] = Idle],
         links' \subseteq links, fresh' \subseteq fresh, people' \subseteq people
  PROVE  LInv'
  <1>1. sess \in [Sessions -> SessionStates]
    BY DEF IInv, TypeOK
  <1>2. ASSUME NEW t \in Sessions PROVE StillTheirs(t)'
    <2>1. CASE t = s
      BY <1>1, <2>1 DEF StillTheirs, Idle, Handing
    <2>2. CASE t # s
      BY <1>1, <2>2 DEF StillTheirs, LInv
    <2> QED BY <2>1, <2>2
  <1> QED BY <1>2 DEF LInv, OneAdvisor

\* A handler that hands students over ends: nobody else does.
LEMMA HandedOver ==
  ASSUME OneHander, IInv, LInv, NEW s \in Sessions, sess[s].op \in Handing,
         sess' = [sess EXCEPT ![s] = Idle], OneAdvisor', fresh' = fresh, people' \subseteq people
  PROVE  LInv'
  <1>1. sess \in [Sessions -> SessionStates]
    BY DEF IInv, TypeOK
  <1>2. ASSUME NEW t \in Sessions PROVE StillTheirs(t)'
    <2>1. CASE t = s
      BY <1>1, <2>1 DEF StillTheirs, Idle, Handing
    <2>2. CASE t # s
      <3>1. sess'[t] = sess[t]
        BY <1>1, <2>2
      <3>2. sess[s].op \in Ops[s] /\ (sess[t].op \in Handing => sess[t].op \in Ops[t])
        BY DEF LInv, StillTheirs
      <3>3. sess[t].op \notin Handing
        BY <2>2, <3>2 DEF OneHander
      <3> QED BY <3>1, <3>3 DEF StillTheirs
    <2> QED BY <2>1, <2>2
  <1> QED BY <1>2 DEF LInv

LEMMA NextLInv ==
  ASSUME OneHander, IInv, LInv, [Next]_vars
  PROVE  LInv'
  <1>0. /\ sess \in [Sessions -> SessionStates] /\ links \subseteq Link
        /\ \A l \in links : l[1] \in people /\ l[2] \in people
        /\ \A s \in Sessions : ArgsOK(sess[s]) /\ StillTheirs(s)
        /\ OneAdvisor /\ fresh \cap Students \cap people = {}
    BY DEF IInv, TypeOK, References, LInv
  <1>1. CASE UNCHANGED vars
    BY <1>1 DEF vars, LInv, OneAdvisor, StillTheirs
  <1>2. ASSUME NEW s \in Sessions, Ask(s) PROVE LInv'
    <2>1. /\ people' = people /\ links' = links /\ fresh' = fresh
          /\ \A t \in Sessions : t # s => sess'[t] = sess[t]
      BY <1>0, <1>2, ReadsOK, AskChoice DEF ReadOnly
    <2>2. ASSUME NEW t \in Sessions PROVE StillTheirs(t)'
      <3>1. CASE t = s
        BY <1>2, <3>1, AskTheirs
      <3>2. CASE t # s
        BY <1>0, <2>1, <3>2 DEF StillTheirs
      <3> QED BY <3>1, <3>2
    <2> QED BY <2>1, <2>2 DEF LInv, OneAdvisor
  <1>3. ASSUME NEW s \in Sessions, CreateStudent(s) PROVE LInv'
    <2>1. sess' = [sess EXCEPT ![s] = Idle]
      BY <1>3 DEF CreateStudent, Commits
    <2>2. PICK u \in fresh \cap Students :
            /\ people' = people \cup {u} /\ links' = links \cup {<<sess[s].to, u>>}
            /\ fresh' = fresh \ {u}
      BY <1>3 DEF CreateStudent
    <2> DEFINE new == <<sess[s].to, u>>
    <2>3. new[2] = u /\ links' = links \cup {new}
      BY <2>2
    <2> HIDE DEF new
    <2>4. \A l \in links : l[2] # u
      BY <1>0
    <2>5. OneAdvisor'
      BY <1>0, <2>3, <2>4 DEF OneAdvisor
    <2>6. ASSUME NEW t \in Sessions PROVE StillTheirs(t)'
      <3>1. CASE t = s
        BY <1>0, <2>1, <3>1 DEF StillTheirs, Idle, Handing
      <3>2. CASE t # s
        <4>1. sess'[t] = sess[t] /\ StillTheirs(t)
          BY <1>0, <2>1, <3>2
        <4>2. CASE sess[t].op \notin Handing
          BY <4>1, <4>2 DEF StillTheirs
        <4>3. CASE sess[t].op \in Handing
          <5>1. \A m \in sess[t].links : m[2] # u
            BY <2>2, <4>1, <4>3 DEF StillTheirs
          <5>2. sess[t].op = "transfer" => sess[t].who # u
            BY <2>2, <4>1, <4>3 DEF StillTheirs
          <5>3. \A l \in links' \ sess'[t].links : l \in links \ sess[t].links \/ l[2] = u
            BY <2>3, <4>1
          <5> QED BY <2>2, <4>1, <4>3, <5>1, <5>2, <5>3 DEF StillTheirs
        <4> QED BY <4>2, <4>3
      <3> QED BY <3>1, <3>2
    <2>7. fresh' \cap Students \cap people' = {}
      BY <1>0, <2>2
    <2> QED BY <2>5, <2>6, <2>7 DEF LInv
  <1>4. ASSUME NEW s \in Sessions,
               \/ CreatePlan(s) \/ Generate(s) \/ DeletePlans(s) \/ DeleteStudent(s)
               \/ DetachAll(s) \/ Detach(s) \/ Rollback(s) \/ FailAfterUnlink(s)
        PROVE  LInv'
    <2>1. /\ sess' = [sess EXCEPT ![s] = Idle] /\ links' \subseteq links
          /\ fresh' \subseteq fresh /\ people' \subseteq people
      BY <1>4 DEF CreatePlan, Generate, DeletePlans, DeleteStudent, DetachAll, Detach,
                  Rollback, FailAfterUnlink, Commits, Unlinked
    <2> QED BY <2>1, NoLinkMade
  <1>5. ASSUME NEW s \in Sessions, Transfer(s) PROVE LInv'
    <2> DEFINE x == sess[s]
               old == {l \in x.links : l[2] = x.who}
               new == <<x.to, x.who>>
    <2>1. /\ x.op = "transfer" /\ sess' = [sess EXCEPT ![s] = Idle]
          /\ links' = (links \ old) \cup {new} /\ people' = people /\ fresh' = fresh
      BY <1>5 DEF Transfer, Commits
    <2>2. x.op \in Handing
      BY <2>1 DEF Handing
    <2>3. \A l \in links \ x.links : l[2] # x.who
      BY <1>0, <2>1, <2>2 DEF StillTheirs
    <2>4. \A l \in links \ old : l[2] # x.who
      BY <2>3
    <2>5. new[2] = x.who
      OBVIOUS
    <2> HIDE DEF x, old, new
    <2>6. OneAdvisor'
      BY <1>0, <2>1, <2>4, <2>5 DEF OneAdvisor
    <2> USE DEF x
    <2> QED BY <2>1, <2>2, <2>6, HandedOver
  <1>6. ASSUME NEW s \in Sessions, TransferAll(s) PROVE LInv'
    <2> DEFINE x == sess[s]
    <2>1. /\ x.op = "delete_advisor" /\ sess' = [sess EXCEPT ![s] = Idle]
          /\ links' = Unlinked(x.who, links) \cup NewLinks(x)
          /\ people' = people \ {x.who} /\ fresh' = fresh
      BY <1>6 DEF TransferAll, Commits
    <2>2. x.op \in Handing
      BY <2>1 DEF Handing
    <2>3. /\ \A l, m \in x.links : l[2] = m[2] => l = m
          /\ \A l \in links \ x.links : \A m \in x.links : l[2] # m[2]
      BY <1>0, <2>2 DEF StillTheirs
    <2>4. ASSUME NEW l \in NewLinks(x)
          PROVE  \E m \in x.links : m[1] = x.who /\ m[2] = l[2] /\ l = <<x.to, m[2]>>
      <3>1. PICK u \in Students : l = <<x.to, u>> /\ <<x.who, u>> \in x.links
        BY DEF NewLinks
      <3> QED BY <3>1
    <2>5. \A l, m \in NewLinks(x) : l[2] = m[2] => l = m
      BY <2>4
    <2>6. ASSUME NEW l \in Unlinked(x.who, links), NEW m \in NewLinks(x)
          PROVE  l[2] # m[2]
      <3>1. PICK k \in x.links : k[1] = x.who /\ k[2] = m[2]
        BY <2>4
      <3>2. l \in links /\ l[1] # x.who
        BY DEF Unlinked
      <3> QED BY <2>3, <3>1, <3>2
    <2>7. \A l, m \in Unlinked(x.who, links) : l[2] = m[2] => l = m
      BY <1>0 DEF Unlinked, OneAdvisor
    <2>8. OneAdvisor'
      BY <2>1, <2>5, <2>6, <2>7 DEF OneAdvisor
    <2> QED BY <2>1, <2>2, <2>8, HandedOver
  <1> QED BY <1>1, <1>2, <1>3, <1>4, <1>5, <1>6 DEF Next

\* A student is on one roster if transfers and deletions of advisors do not overlap
\* each other: whatever detaching, creating and deleting of students runs meanwhile.
THEOREM OneRoster ==
  ASSUME OneHander
  PROVE  Spec => []OneAdvisor
  <1>1. Init => IInv /\ LInv
    BY InitIInv, InitLInv
  <1>2. IInv /\ LInv /\ [Next]_vars => IInv' /\ LInv'
    BY NextIInv, NextLInv
  <1>3. LInv => OneAdvisor
    BY DEF LInv
  <1> QED BY <1>1, <1>2, <1>3, PTL DEF Spec

=============================================================================
