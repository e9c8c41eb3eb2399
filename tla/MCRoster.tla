------------------------------ MODULE MCRoster ------------------------------
(* Small instances of Roster for TLC: an admin, two advisors, and what two  *)
(* sessions do: one adds students and plans, the other does all the rest.   *)
EXTENDS Roster, TLC

CONSTANTS s1, s2, boss, a1, a2, x1, x2, p1, p2, p3

OneSession == {s1}
TwoSessions == {s1, s2}
Boss == {boss}
OneAdvisorOnly == {a1}
TwoAdvisors == {a1, a2}
OneStudent == {x1}
TwoStudents == {x1, x2}
TwoPlans == {p1, p2}
ThreePlans == {p1, p2, p3}
OneWeek == {1}
TwoWeeks == {1, 2}

Adding == {"create_student", "create_plan"}
AddAndMove == [s \in Sessions |-> IF s = s1 THEN Adding ELSE AllOps \ Adding]
Everything == [s \in Sessions |-> AllOps]

Symmetry == Permutations(Advisors) \cup Permutations(Students) \cup Permutations(PlanIds)
=============================================================================
