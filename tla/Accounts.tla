------------------------------- MODULE Accounts -------------------------------
(***************************************************************************)
(* The users table, the invite links and the access requests, under        *)
(* handlers that run concurrently.                                         *)
(*                                                                         *)
(* Every update passes UserMiddleware, which loads the sender's row (or    *)
(* creates or promotes an admin listed in ADMIN_IDS, or records a visitor),*)
(* and then its handler, in one transaction that DatabaseMiddleware commits*)
(* at the end.  A handler works on the rows of its session's identity map: *)
(* each row is read once, under READ COMMITTED, and at the end the columns *)
(* that differ from what was read are written.  PostgreSQL holds the unique*)
(* telegram_id and the foreign key of the audit row; nothing else orders   *)
(* two handlers.                                                           *)
(*                                                                         *)
(* Abstractions: names, user names and grades are left out, with the       *)
(* refusals about them; which student an advisor is assigned to is left    *)
(* out too, so that a staff handler may act on any student.  Flush and     *)
(* commit are one step: until the commit nobody sees the writes, and who   *)
(* would change the same row or telegram_id waits for it.                  *)
(***************************************************************************)
EXTENDS FiniteSets

CONSTANTS
  People,     \* telegram ids
  EnvAdmins,  \* the ones listed in ADMIN_IDS
  TypedIds,   \* the ones an advisor or an admin types in as a number: any, those
              \* of ADMIN_IDS included
  NoOne,      \* a NULL telegram_id
  Ids,        \* primary keys of users (a bound: the sequence never runs out)
  NoId,       \* no row was found
  NoRow,      \* the row does not exist, or is not in the identity map
  Tokens,     \* invite tokens (a bound: token_urlsafe never runs out)
  NoToken,    \* a NULL invite_token
  Sessions,   \* handlers that may be in flight at the same time
  Made,       \* the role a row is created with, per id: which id a new row gets
              \* says nothing, so that the ids can be told apart beforehand
  Seeds,      \* the users tables the bot may start with
  Ops         \* the handlers a run exercises

AllOps == {"visit", "claim", "create_student", "invite", "revoke", "link",
           "unlink", "approve", "reject", "add_advisor", "edit_advisor",
           "edit_crossed", "suspend", "delete"}
Roles == {"STUDENT", "ADVISOR", "ADMIN"}
Staff == {"ADVISOR", "ADMIN"}
User == [role: Roles, tg: People \cup {NoOne}, active: BOOLEAN,
         token: Tokens \cup {NoToken}]

\* Rows without an invite whose role is the one they were created with, or ADMIN,
\* and whose telegram ids are unique: somebody of ADMIN_IDS may well have the row
\* of a student or of an advisor (manage.py add-user, or listed afterwards).
Startable(rows) ==
  /\ rows \in [Ids -> User \cup {NoRow}]
  /\ \A u \in Ids : rows[u] # NoRow =>
       rows[u].role \in {Made[u], "ADMIN"} /\ rows[u].token = NoToken
  /\ \A u, v \in Ids :
       (rows[u] # NoRow /\ rows[v] # NoRow /\ rows[u].tg # NoOne
          /\ rows[u].tg = rows[v].tg) => u = v

ASSUME AccountsAssumption ==
  /\ EnvAdmins \subseteq People
  /\ TypedIds \subseteq People
  /\ NoOne \notin People /\ NoId \notin Ids
  /\ NoRow \notin User /\ NoToken \notin Tokens
  /\ Ops \subseteq AllOps
  /\ Made \in [Ids -> Roles]
  /\ \A rows \in Seeds : Startable(rows)

VARIABLES
  users,     \* the committed users rows
  fresh,     \* the ids that were never given to a row
  requests,  \* the committed access_requests: their status per person
  tokens,    \* per invite token: not issued yet, within its days, or expired
  sess       \* per handler: what it is doing and its identity map

vars == <<users, fresh, requests, tokens, sess>>

RequestStatus == {"none", "pending", "approved", "rejected"}
TokenStates == {"fresh", "live", "expired"}
PCs == {"idle", "visitor", "entered", "claiming", "commit"}

\* seen: the rows as they were read; now: as the handler leaves them (a row that
\* is only in now is inserted, one that is only in seen is deleted); of, was,
\* verdict: the request it decides about, its status as read and as decided.
SessionStates == [pc: PCs, op: AllOps, who: People \cup {NoOne},
                  me: Ids \cup {NoId}, at: Ids \cup {NoId},
                  seen: [Ids -> User \cup {NoRow}],
                  now: [Ids -> User \cup {NoRow}],
                  of: People \cup {NoOne},
                  was: RequestStatus, verdict: RequestStatus]

Unread == [u \in Ids |-> NoRow]

\* A handler's session for an update of person p, sent by user me.
Session(pc, op, p, me) ==
  [pc |-> pc, op |-> op, who |-> p, me |-> me, at |-> NoId, seen |-> Unread,
   now |-> Unread, of |-> NoOne, was |-> "none", verdict |-> "none"]
Idle == Session("idle", "visit", NoOne, NoId)

Init ==
  /\ users \in Seeds
  /\ fresh = {u \in Ids : users[u] = NoRow}
  /\ requests = [p \in People |-> "none"]
  /\ tokens = [t \in Tokens |-> "fresh"]
  /\ sess = [s \in Sessions |-> Idle]

-----------------------------------------------------------------------------
(* Rows and the identity map of a session record x.                        *)

Active(s) == sess[s].pc # "idle"

NewUser(role, tg, token) ==
  [role |-> role, tg |-> tg, active |-> TRUE, token |-> token]

\* by_telegram_id: SELECT ... WHERE telegram_id = p, on what is committed.
Holders(p) == {u \in Ids : users[u] # NoRow /\ users[u].tg = p}

\* A row that was read before is the object of the identity map.
Read(x, u) == IF x.now[u] # NoRow THEN x.now[u] ELSE users[u]

\* The session x with row u read, if it was not, and left as r.
Put(x, u, r) ==
  [x EXCEPT !.pc = "commit",
            !.seen = [x.seen EXCEPT ![u] = IF x.now[u] # NoRow THEN x.seen[u]
                                                                ELSE users[u]],
            !.now = [x.now EXCEPT ![u] = r]]

\* is_admin: listed in ADMIN_IDS, or stored as ADMIN.
IsAdmin(r) == r.tg \in EnvAdmins \/ r.role = "ADMIN"

Me(x) == x.now[x.me]
ByStaff(x) == x.me # NoId /\ Me(x).role \in Staff
ByAdmin(x) == x.me # NoId /\ IsAdmin(Me(x))
\* ensure_active
ByActive(x) == Me(x).active \/ IsAdmin(Me(x))

\* ADMIN_IDS may only promote, and an admin can never be locked out.
Promote(r, p) ==
  IF p \in EnvAdmins THEN [r EXCEPT !.role = "ADMIN", !.active = TRUE] ELSE r

\* The session is in handler op and its middleware is done.
Handling(s, op) == sess[s].op = op /\ sess[s].pc = "entered"
Becomes(s, x) == sess' = [sess EXCEPT ![s] = x]

-----------------------------------------------------------------------------
(* UserMiddleware.                                                         *)

\* The sender has an account.
EnterKnown(s, p, op) ==
  /\ ~Active(s)
  /\ \E u \in Holders(p) :
       Becomes(s, [Session(IF op = "visit" THEN "commit" ELSE "entered", op, p, u)
                     EXCEPT !.seen = [@ EXCEPT ![u] = users[u]],
                            !.now = [@ EXCEPT ![u] = Promote(users[u], p)]])
  /\ UNCHANGED <<users, fresh, requests, tokens>>

\* The sender is listed in ADMIN_IDS and has no account yet: it is created.
EnterNewAdmin(s, p, op) ==
  /\ ~Active(s)
  /\ p \in EnvAdmins /\ Holders(p) = {}
  /\ \E u \in fresh :
       /\ Made[u] = "ADMIN"
       /\ fresh' = fresh \ {u}
       /\ Becomes(s, [Session(IF op = "visit" THEN "commit" ELSE "entered", op, p, u)
                        EXCEPT !.now = [@ EXCEPT ![u] = NewUser("ADMIN", p, NoToken)]])
  /\ UNCHANGED <<users, requests, tokens>>

\* The sender is unknown: only an invite link reaches its handler.
EnterUnknown(s, p, op) ==
  /\ ~Active(s)
  /\ p \notin EnvAdmins /\ Holders(p) = {}
  /\ op \in {"visit", "claim"}
  /\ Becomes(s, Session(IF op = "claim" THEN "entered" ELSE "visitor", op, p, NoId))
  /\ UNCHANGED <<users, fresh, requests, tokens>>

\* record: an unknown visit is queued; one that was decided is not re-queued.
RecordVisit(s) ==
  /\ sess[s].pc = "visitor"
  /\ requests' = [requests EXCEPT ![sess[s].who] = IF @ = "none" THEN "pending" ELSE @]
  /\ Becomes(s, Idle)
  /\ UNCHANGED <<users, fresh, tokens>>

-----------------------------------------------------------------------------
(* Invite links.                                                           *)

\* blocks_invite: an invite never touches an admin or an advisor.
Blocked(x) == x.who \in EnvAdmins \/ ByStaff(x)

\* claim_invite up to the ownership rules: the token is looked up and valid.
OpenInvite(s, u) ==
  LET x == sess[s]
      r == Read(x, u)
  IN /\ Handling(s, "claim") /\ ~Blocked(x)
     /\ users[u] # NoRow /\ users[u].token # NoToken
     /\ tokens[users[u].token] = "live"
     /\ \/ /\ r.tg = x.who                        \* ALREADY_SELF
           /\ Becomes(s, Put(x, u, [r EXCEPT !.token = NoToken]))
        \/ /\ r.tg = NoOne /\ x.me \in {NoId, u}
           /\ Becomes(s, [Put(x, u, r) EXCEPT !.pc = "claiming", !.at = u])
     /\ UNCHANGED <<users, fresh, requests, tokens>>

\* Mutant: claiming a row leaves its token.
ClaimedWithToken(r, p) == [r EXCEPT !.tg = p]

\* A row claimed by person p.
Claimed(r, p) == [r EXCEPT !.tg = p, !.token = NoToken]
\* A student row folded away: it loses its telegram id.
Folded(r) == [r EXCEPT !.tg = NoOne, !.active = FALSE]

\* Mutant: any duplicate is folded.
BindFoldingAnyone(s) ==
  LET x == sess[s]
      y == Put(x, x.at, Claimed(x.now[x.at], x.who))
      others == Holders(x.who) \ {x.at}
  IN /\ x.pc = "claiming"
     /\ \/ others = {} /\ Becomes(s, y)
        \/ \E d \in others : Becomes(s, Put(y, d, Folded(Read(x, d))))
     /\ UNCHANGED <<users, fresh, requests, tokens>>

\* UserRepository.claim_invite: a duplicate that appeared meanwhile is folded if
\* it is a student (and refused, by a PermissionError, if it is not).
BindInvite(s) ==
  LET x == sess[s]
      y == Put(x, x.at, Claimed(x.now[x.at], x.who))
      others == Holders(x.who) \ {x.at}
  IN /\ x.pc = "claiming"
     /\ \/ others = {} /\ Becomes(s, y)
        \/ \E d \in others :
             /\ Read(x, d).role = "STUDENT"
             /\ Becomes(s, Put(y, d, Folded(Read(x, d))))
     /\ UNCHANGED <<users, fresh, requests, tokens>>

\* The validity of an invite ends (14 days).
Expire(t) ==
  /\ tokens[t] = "live"
  /\ tokens' = [tokens EXCEPT ![t] = "expired"]
  /\ UNCHANGED <<users, fresh, requests, sess>>

-----------------------------------------------------------------------------
(* Staff handlers.                                                         *)

\* The row of a student, as a staff handler loads it: by a link of the actor, which
\* stays when the student is promoted to ADMIN, or by a button of a list of students.
\* Whether it still is a student is for the handler to check.
Target(u) == users[u] # NoRow /\ Made[u] = "STUDENT"

\* The handler inserts r under an id of the sequence.
Insert(s, x, r) ==
  \E u \in fresh :
    /\ Made[u] = r.role
    /\ fresh' = fresh \ {u}
    /\ Becomes(s, [x EXCEPT !.pc = "commit", !.now = [@ EXCEPT ![u] = r]])

\* _new_token
Issue(t) == tokens[t] = "fresh" /\ tokens' = [tokens EXCEPT ![t] = "live"]

\* create_student: with a telegram id that nobody has, or with an invite.
CreateStudent(s) ==
  /\ Handling(s, "create_student")
  /\ ByStaff(sess[s]) /\ ByActive(sess[s])
  /\ \/ \E t \in Tokens :
          Issue(t) /\ Insert(s, sess[s], NewUser("STUDENT", NoOne, t))
     \/ \E p \in TypedIds :
          /\ Holders(p) = {}
          /\ Insert(s, sess[s], NewUser("STUDENT", p, NoToken))
          /\ UNCHANGED tokens
  /\ UNCHANGED <<users, requests>>

\* new_invite and the admin's reissue: only for a student who is not connected.
NewInvite(s, u) ==
  LET x == sess[s]
      r == Read(x, u)
  IN /\ Handling(s, "invite") /\ ByStaff(x) /\ Target(u)
     /\ r.tg = NoOne
     /\ \E t \in Tokens : Issue(t) /\ Becomes(s, Put(x, u, [r EXCEPT !.token = t]))
     /\ UNCHANGED <<users, fresh, requests>>

\* revoke_invite
RevokeInvite(s, u) ==
  LET x == sess[s]
  IN /\ Handling(s, "revoke") /\ ByStaff(x) /\ Target(u)
     /\ Becomes(s, Put(x, u, [Read(x, u) EXCEPT !.token = NoToken]))
     /\ UNCHANGED <<users, fresh, requests, tokens>>

\* link_telegram_id: nobody else has the id.
LinkTelegram(s, u, p) ==
  LET x == sess[s]
  IN /\ Handling(s, "link") /\ ByStaff(x) /\ Target(u)
     /\ p \in TypedIds
     /\ Read(x, u).tg # p /\ Holders(p) \subseteq {u}
     /\ Becomes(s, Put(x, u, Claimed(Read(x, u), p)))
     /\ UNCHANGED <<users, fresh, requests, tokens>>

\* unlink_telegram: admin only, of a student; the invite columns are left alone.
UnlinkTelegram(s, u) ==
  LET x == sess[s]
  IN /\ Handling(s, "unlink") /\ ByAdmin(x) /\ Target(u)
     /\ Read(x, u).role = "STUDENT"
     /\ Becomes(s, Put(x, u, [Read(x, u) EXCEPT !.tg = NoOne]))
     /\ UNCHANGED <<users, fresh, requests, tokens>>

\* The session x that decides about the request of p.
Decide(x, p, verdict) ==
  [x EXCEPT !.pc = "commit", !.of = p, !.was = requests[p], !.verdict = verdict]

\* Mutant: somebody who has an account is approved as they are.
ApproveAnyway(s, p) ==
  /\ Handling(s, "approve") /\ ByAdmin(sess[s])
  /\ requests[p] \notin {"none", "approved"}
  /\ \/ /\ Holders(p) = {}
        /\ \E role \in {"STUDENT", "ADVISOR"} :
             Insert(s, Decide(sess[s], p, "approved"), NewUser(role, p, NoToken))
     \/ /\ Holders(p) # {}
        /\ Becomes(s, Decide(sess[s], p, "approved"))
        /\ UNCHANGED fresh
  /\ UNCHANGED <<users, requests, tokens>>

\* Mutant: approving gives the role to whoever has the telegram id.
ApproveOver(s, p) ==
  /\ Handling(s, "approve") /\ ByAdmin(sess[s])
  /\ requests[p] \notin {"none", "approved"}
  /\ \E role \in {"STUDENT", "ADVISOR"} :
       \/ /\ Holders(p) = {}
          /\ Insert(s, Decide(sess[s], p, "approved"), NewUser(role, p, NoToken))
       \/ /\ \E u \in Holders(p) :
               Becomes(s, Put(Decide(sess[s], p, "approved"), u,
                              [Read(sess[s], u) EXCEPT !.role = role]))
          /\ UNCHANGED fresh
  /\ UNCHANGED <<users, requests, tokens>>

\* approve_request: only a request that is not approved, of somebody who has no
\* account; the role is advisor or student.
Approve(s, p) ==
  /\ Handling(s, "approve") /\ ByAdmin(sess[s])
  /\ requests[p] \notin {"none", "approved"} /\ Holders(p) = {}
  /\ \E role \in {"STUDENT", "ADVISOR"} :
       Insert(s, Decide(sess[s], p, "approved"), NewUser(role, p, NoToken))
  /\ UNCHANGED <<users, requests, tokens>>

\* reject_request: whatever the status is.
Reject(s, p) ==
  /\ Handling(s, "reject") /\ ByAdmin(sess[s])
  /\ requests[p] # "none"
  /\ Becomes(s, Decide(sess[s], p, "rejected"))
  /\ UNCHANGED <<users, fresh, requests, tokens>>

\* create_advisor_by_telegram_id; a request that was waiting is closed.
AddAdvisor(s, p) ==
  /\ Handling(s, "add_advisor") /\ ByAdmin(sess[s])
  /\ p \in TypedIds /\ Holders(p) = {}
  /\ Insert(s, Decide(sess[s], p, IF requests[p] = "none" THEN "none" ELSE "approved"),
            NewUser("ADVISOR", p, NoToken))
  /\ UNCHANGED <<users, requests, tokens>>

\* admin_edit_advisor_input: the row whose number the dialogue keeps gets another
\* telegram id that nobody else has, or only another name.  The number is that of an
\* advisor or an admin; when the admin taps "edit" of a student and of an advisor
\* in one moment, it may be the student's (edit_crossed).
EditAdvisor(s, u, p) ==
  LET x == sess[s]
      r == Read(x, u)
  IN /\ users[u] # NoRow
     /\ \/ Handling(s, "edit_advisor") /\ r.role \in Staff
        \/ Handling(s, "edit_crossed")
     /\ ByAdmin(x)
     /\ p = r.tg \/ (p \in TypedIds /\ Holders(p) \subseteq {u})
     /\ Becomes(s, Put(x, u, [r EXCEPT !.tg = p]))
     /\ UNCHANGED <<users, fresh, requests, tokens>>

\* do_suspend: a toggle, never of an admin; do_suspend_student: of a student.
ToggleActive(s, u) ==
  LET x == sess[s]
      r == Read(x, u)
  IN /\ Handling(s, "suspend") /\ ByAdmin(x)
     /\ users[u] # NoRow /\ (r.role = "STUDENT" \/ ~IsAdmin(r))
     /\ Becomes(s, Put(x, u, [r EXCEPT !.active = ~r.active]))
     /\ UNCHANGED <<users, fresh, requests, tokens>>

\* delete_student: in the scope of an active advisor (whose students are not asked
\* for their role) or, while it is a student, of an admin; never oneself.
\* delete_advisor: admin only, never oneself, never an admin.
DeleteUser(s, u) ==
  LET x == sess[s]
      r == Read(x, u)
  IN /\ Handling(s, "delete") /\ u # x.me /\ users[u] # NoRow
     /\ \/ /\ Target(u) /\ ByStaff(x) /\ ByActive(x)
           /\ r.role = "STUDENT" \/ ~ByAdmin(x)
        \/ r.role \in Staff /\ ByAdmin(x) /\ ~IsAdmin(r)
     /\ Becomes(s, Put(x, u, NoRow))
     /\ UNCHANGED <<users, fresh, requests, tokens>>

-----------------------------------------------------------------------------
(* The end of the transaction.                                             *)

\* A handler refuses and answers: only what the middleware changed is left.
EarlyReturn(s) ==
  /\ sess[s].pc = "entered"
  /\ Becomes(s, [sess[s] EXCEPT !.pc = "commit", !.op = "visit"])
  /\ UNCHANGED <<users, fresh, requests, tokens>>

\* What the flush makes of row u: the columns that differ from what was read.
Column(seen, now, db) == IF now # seen THEN now ELSE db
Merged(seen, now, db) ==
  [role |-> Column(seen.role, now.role, db.role),
   tg |-> Column(seen.tg, now.tg, db.tg),
   active |-> Column(seen.active, now.active, db.active),
   token |-> Column(seen.token, now.token, db.token)]
Flushed(x, u) ==
  IF x.now[u] = x.seen[u] THEN users[u]          \* not read, or not changed
  ELSE IF x.seen[u] = NoRow \/ x.now[u] = NoRow
  THEN x.now[u]                                  \* INSERT, DELETE
  ELSE Merged(x.seen[u], x.now[u], users[u])     \* UPDATE

\* An UPDATE of a row that is gone raises StaleDataError.
RowsThere(x) ==
  \A u \in Ids :
    (x.seen[u] # NoRow /\ x.now[u] \notin {NoRow, x.seen[u]}) => users[u] # NoRow

\* The audit row refers to the actor.
ActorThere(x) ==
  x.op # "visit" /\ x.me # NoId => users[x.me] # NoRow \/ x.seen[x.me] = NoRow

\* No two rows share a telegram id: the unique index of users.telegram_id.
Distinct(rows) ==
  \A u, v \in Ids :
    (rows[u] # NoRow /\ rows[v] # NoRow /\ rows[u].tg # NoOne
       /\ rows[u].tg = rows[v].tg) => u = v

\* Mutant: a telegram_id column without its unique index.
NotUnique(rows) == TRUE

Unique(rows) == Distinct(rows)

Commit(s) ==
  LET x == sess[s]
      rows == [u \in Ids |-> Flushed(x, u)]
  IN /\ x.pc = "commit"
     /\ RowsThere(x) /\ ActorThere(x) /\ Unique(rows)
     /\ users' = rows
     /\ requests' = IF x.verdict # x.was
                    THEN [requests EXCEPT ![x.of] = x.verdict] ELSE requests
     /\ Becomes(s, Idle)
     /\ UNCHANGED <<fresh, tokens>>

\* Any handler may end in an exception.
Rollback(s) ==
  /\ Active(s)
  /\ Becomes(s, Idle)
  /\ UNCHANGED <<users, fresh, requests, tokens>>

-----------------------------------------------------------------------------

Enter(s) ==
  \E p \in People, op \in Ops :
    EnterKnown(s, p, op) \/ EnterNewAdmin(s, p, op) \/ EnterUnknown(s, p, op)

Work(s) ==
  \/ RecordVisit(s) \/ BindInvite(s) \/ CreateStudent(s) \/ EarlyReturn(s)
  \/ Commit(s) \/ Rollback(s)
  \/ \E u \in Ids :
       \/ OpenInvite(s, u) \/ NewInvite(s, u) \/ RevokeInvite(s, u)
       \/ UnlinkTelegram(s, u) \/ ToggleActive(s, u) \/ DeleteUser(s, u)
       \/ \E p \in People : LinkTelegram(s, u, p)
       \/ \E p \in People \cup {NoOne} : EditAdvisor(s, u, p)
  \/ \E p \in People : Approve(s, p) \/ Reject(s, p) \/ AddAdvisor(s, p)

Next ==
  \/ \E s \in Sessions : Enter(s) \/ Work(s)
  \/ \E t \in Tokens : Expire(t)

Spec == Init /\ [][Next]_vars

-----------------------------------------------------------------------------
(* Properties.                                                             *)

\* Every row, request, token and identity map is well formed, and no two rows
\* share a telegram id.
TypeOK ==
  /\ users \in [Ids -> User \cup {NoRow}]
  /\ fresh \subseteq Ids
  /\ requests \in [People -> RequestStatus]
  /\ tokens \in [Tokens -> TokenStates]
  /\ sess \in [Sessions -> SessionStates]
  /\ Distinct(users)

\* Whatever handlers overlap, the accounts implement the README's promise about
\* roles: an account's role never goes down, and goes up to ADMIN only while an
\* update of its holder is handled who was listed in ADMIN_IDS; the account of an
\* advisor or an admin never becomes nobody's, and an admin's is never closed.
Promise == INSTANCE Identities WITH
  Accounts <- Ids,
  role <- [u \in Ids |-> IF users[u] = NoRow THEN "none" ELSE users[u].role],
  holder <- [u \in Ids |-> IF users[u] = NoRow THEN NoOne ELSE users[u].tg],
  calling <- {u \in Ids : \E s \in Sessions :
                /\ Active(s) /\ sess[s].me = u /\ sess[s].who \in EnvAdmins
                /\ sess[s].seen[u] # NoRow}
ImplementsIdentities == Promise!Spec

\* An advisor or an admin never loses the account by an invite, a link, an approval
\* or a fold, whatever overlaps: a row created for one keeps its telegram id, until
\* it is deleted, unless an admin edits it to another person, and it never gets an
\* invite token (README: id, role and token untouched).
StaffKeepAccount ==
  [][\A u \in Ids :
       (users[u] # NoRow /\ users'[u] # NoRow /\ Made[u] # "STUDENT") =>
         /\ users'[u].token = NoToken
         /\ users'[u].tg # users[u].tg =>
              \E s \in Sessions :
                /\ sess[s].op \in {"edit_advisor", "edit_crossed"}
                /\ Active(s) /\ ~Active(s)']_vars

\* A request becomes approved together with the account it grants, even when
\* two admins decide about the same person at the same time.
ApprovalGrantsAccount ==
  [][\A p \in People :
       requests[p] # "approved" /\ requests'[p] = "approved"
         => \E u \in Ids : users'[u] # NoRow /\ users[u] = NoRow /\ users'[u].tg = p]_vars

\* One handler at a time, a student who is connected has no invite link that
\* still works, whatever path connected them.
ConnectedHasNoInvite ==
  \A u \in Ids : users[u] # NoRow /\ users[u].tg # NoOne => users[u].token = NoToken

\* An invite binds a row that nobody has claimed (invites.py: "an unclaimed
\* student row"): who is connected through a link never loses it to another
\* person opening the same link.
InviteBindsUnclaimed ==
  [][\A s \in Sessions, u \in Ids :
       (/\ sess[s].op = "claim" /\ sess'[s].pc = "idle"
        /\ users[u] # NoRow /\ users'[u] # NoRow
        /\ users'[u].tg = sess[s].who /\ users[u].tg # users'[u].tg)
       => users[u].tg = NoOne]_vars

=============================================================================
