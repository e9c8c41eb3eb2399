------------------------------ MODULE MCAccounts ------------------------------
(* Small instances of Accounts for TLC: one admin listed in ADMIN_IDS whose *)
(* row says advisor or student, visitors, and room for a few rows.           *)
EXTENDS Accounts, TLC

CONSTANTS s1, s2, boss, p1, p2, u1, u2, u3, u4, t1, t2

OneSession == {s1}
TwoSessions == {s1, s2}
Boss == {boss}
OneVisitor == {boss, p1}
TwoVisitors == {boss, p1, p2}
ThreeIds == {u1, u2, u3}
FourIds == {u1, u2, u3, u4}
OneToken == {t1}
TwoTokens == {t1, t2}
Visitors == People \ EnvAdmins

MadeAs == [u \in Ids |-> CASE u = u1 -> "ADVISOR" [] u = u4 -> "ADMIN"
                             [] OTHER -> "STUDENT"]

\* The admin was an advisor, or a student, before being listed; the other rows are
\* free.
Only(u, role) ==
  [v \in Ids |-> IF v = u THEN NewUser(role, boss, NoToken) ELSE NoRow]
ListedAdvisor == {Only(u1, "ADVISOR")}
ListedLater == {Only(u1, "ADVISOR"), Only(u2, "STUDENT")}

\* Two people with one link, and who issues it.
InviteOps == {"claim", "create_student", "invite"}

Symmetry == Permutations(Sessions) \cup Permutations(Visitors)
              \cup Permutations({u2, u3}) \cup Permutations(Tokens)
=============================================================================
