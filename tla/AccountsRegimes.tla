--------------------------- MODULE AccountsRegimes ---------------------------
(* Accounts under two regimes, told apart by a variable that is fixed when a *)
(* behaviour starts: two handlers that decide who has an account overlap, or *)
(* every handler runs, one at a time.                                        *)
EXTENDS Accounts

CONSTANTS
  OverlapSeeds,  \* the users tables that overlapping handlers start with, and
  OverlapIds     \* the ids there are for them: bounds of the larger regime

VARIABLE regime

\* Everything that decides who has an account (edit_crossed does what edit_advisor
\* does, and more).
OverlapOps == {"visit", "claim", "create_student", "approve", "reject",
               "add_advisor", "edit_crossed", "delete"}

\* Two taps do not cross when handlers run one at a time.
SerialOps == AllOps \ {"edit_crossed"}

\* Only an overlap takes the telegram id from a student who becomes an admin.
Settled(rows) ==
  \A u \in Ids : rows[u] # NoRow /\ Made[u] = "STUDENT" /\ rows[u].role # "STUDENT"
                   => rows[u].tg # NoOne

Start(s) ==
  /\ regime = "serial" => \A t \in Sessions : ~Active(t)
  /\ \E p \in People, op \in IF regime = "serial" THEN SerialOps ELSE OverlapOps :
       EnterKnown(s, p, op) \/ EnterNewAdmin(s, p, op) \/ EnterUnknown(s, p, op)

\* One link in circulation is enough for the overlaps, and few rows.
OneLink ==
  \A t, v \in Tokens : tokens'[t] # "fresh" /\ tokens'[v] # "fresh" => t = v
FewRows == Ids \ fresh' \subseteq OverlapIds

RInit ==
  /\ Init
  /\ \/ regime = "overlap" /\ users \in OverlapSeeds
     \/ regime = "serial" /\ Settled(users)

RNext ==
  /\ \/ \E s \in Sessions : Start(s) \/ (Active(s) /\ Work(s))
     \/ \E t \in Tokens : Expire(t)
  /\ regime = "overlap" => OneLink /\ FewRows
  /\ UNCHANGED regime

RSpec == RInit /\ [][RNext]_<<vars, regime>>

\* One handler at a time, whatever path connects a student (link, claim, approval)
\* leaves no invite link that still works.
SerialConnectedHasNoInvite == regime = "serial" => ConnectedHasNoInvite

=============================================================================
