------------------------------ MODULE Identities ------------------------------
(***************************************************************************)
(* What the README promises about roles, with no session, token or request:*)
(* "no path can do admin to advisor, admin to student or advisor to        *)
(* student", and ADMIN_IDS "can only promote".  It is a promise about      *)
(* accounts.  A person may lose one and get another: an account that was   *)
(* opened for a student changes hands freely, by links and invites, even   *)
(* after its holder was promoted; the one of an advisor or an admin is only*)
(* handed to somebody else, when an admin edits it.                        *)
(***************************************************************************)

CONSTANTS
  People,     \* telegram ids
  EnvAdmins,  \* the ones listed in ADMIN_IDS
  NoOne,      \* nobody holds the account
  Accounts,   \* numbers of accounts
  Made        \* the role an account is opened with

VARIABLES
  role,    \* of every account, or none
  holder,  \* the person who has the account, if anybody has
  calling  \* accounts that somebody of ADMIN_IDS has just used as theirs

NoRole == "none"
Roles == {"STUDENT", "ADVISOR", "ADMIN"}

OneHolder(of) ==
  \A u, v \in {w \in Accounts : of[w] # NoOne} : of[u] = of[v] => u = v

\* An account is opened: as an admin only for somebody in ADMIN_IDS, and only a
\* student's may wait for who it is for.
Opened(u) ==
  /\ role[u] = NoRole /\ role'[u] = Made[u]
  /\ Made[u] = "ADMIN" => holder'[u] \in EnvAdmins
  /\ Made[u] = "ADVISOR" => holder'[u] \in People
Closed(u) ==
  /\ role[u] # NoRole /\ Made[u] # "ADMIN"
  /\ role'[u] = NoRole /\ holder'[u] = NoOne
Missing(u) == role[u] = NoRole /\ role'[u] = NoRole /\ holder'[u] = NoOne

\* An account that stays: its role only goes up to ADMIN, for somebody in ADMIN_IDS
\* who called; a student's changes hands, a staff member's goes to another person.
Stays(u) ==
  /\ role[u] # NoRole
  /\ role'[u] = role[u] \/ (u \in calling /\ role'[u] = "ADMIN")
  /\ holder'[u] = holder[u] \/ holder'[u] \in People
       \/ (Made[u] = "STUDENT" /\ holder'[u] = NoOne)

Init ==
  /\ role \in [Accounts -> Roles \cup {NoRole}]
  /\ \A u \in Accounts : role[u] \in {NoRole, Made[u], "ADMIN"}
  /\ OneHolder(holder)
  /\ calling = {}

\* One transaction may decide about several accounts.
Next ==
  /\ role' \in [Accounts -> Roles \cup {NoRole}]
  /\ \A u \in Accounts : Stays(u) \/ Missing(u) \/ Opened(u) \/ Closed(u)
  /\ OneHolder(holder')
  /\ \A u \in calling' : u \in calling \/ holder[u] \in EnvAdmins

Spec == Init /\ [][Next]_<<role, holder, calling>>

=============================================================================
