---------------------------- MODULE AccountsProofs ----------------------------
(***************************************************************************)
(* Proofs about Accounts, for every set of people, ids, tokens, sessions   *)
(* and handlers: types, the refinement of Identities, what an approval     *)
(* grants and, one handler at a time, that no connected row has an invite. *)
(*                                                                         *)
(* A commit writes what a handler read and changed some time ago, so the   *)
(* properties are not inductive.  The invariant AInv says of every row of  *)
(* every identity map how it differs from what was read, and that nobody   *)
(* else knows a row that is only inserted; GInv says which handler may make*)
(* the difference.  What is merged into the committed row, whatever became *)
(* of it, is then still an allowed change.                                 *)
(***************************************************************************)
EXTENDS AccountsRegimes, TLAPS

-----------------------------------------------------------------------------
(* The invariant.                                                          *)

\* A row as it may be committed: it has the role it was created with or was
\* promoted, and only rows created for students have invites.
RowOK(u, r) ==
  r # NoRow =>
    /\ r.role \in {Made[u], "ADMIN"}
    /\ Made[u] # "STUDENT" => r.token = NoToken

\* How a handler may change row u from r to d.
Later(u, r, d) ==
  /\ d.role \in {r.role, "ADMIN"}
  /\ Made[u] # "STUDENT" => d.tg \in People \cup {r.tg}

\* A row that may be inserted.
Insertable(u, r) ==
  /\ r.role = Made[u]
  /\ Made[u] = "ADMIN" => r.tg \in EnvAdmins
  /\ Made[u] = "ADVISOR" => r.tg \in People

\* A row that a handler inserts, whatever its number is.
Fit(r) ==
  /\ r.role = "ADMIN" => r.tg \in EnvAdmins
  /\ r.role = "ADVISOR" => r.tg \in People
  /\ r.role # "STUDENT" => r.token = NoToken

\* One row of one identity map: as read, as left, and as it is committed now.
Sound(u, seen, now, db, unused) ==
  /\ RowOK(u, now)
  /\ seen # NoRow => ~unused
  /\ seen # NoRow /\ now # NoRow => Later(u, seen, now)
  /\ seen # NoRow /\ now = NoRow => Made[u] # "ADMIN"
  /\ seen = NoRow /\ now # NoRow => Insertable(u, now) /\ ~unused /\ db = NoRow

Inserts(x, u) == x.seen[u] = NoRow /\ x.now[u] # NoRow

RowsSound == \A u \in Ids : RowOK(u, users[u]) /\ (users[u] # NoRow => u \notin fresh)
MapsSound ==
  \A s \in Sessions, u \in Ids :
    Sound(u, sess[s].seen[u], sess[s].now[u], users[u], u \in fresh)
InsertsApart ==
  \A s, o \in Sessions, u \in Ids :
    s # o /\ Inserts(sess[s], u) => sess[o].seen[u] = NoRow /\ sess[o].now[u] = NoRow
WhoSound(x) ==
  /\ x.pc # "idle" => x.who \in People
  /\ x.pc = "claiming" =>
       /\ x.at \in Ids /\ x.seen[x.at] # NoRow /\ x.now[x.at] # NoRow
       /\ Made[x.at] = "STUDENT"

AInv ==
  /\ TypeOK
  /\ RowsSound
  /\ MapsSound
  /\ InsertsApart
  /\ \A s \in Sessions : WhoSound(sess[s])

-----------------------------------------------------------------------------
(* Rows.                                                                   *)

\* A row that does not change has only changed as it may.
LEMMA LaterItself ==
  ASSUME NEW u, NEW r PROVE Later(u, r, r)
  BY DEF Later

\* Two changes that may happen make one that may happen.
LEMMA LaterTransitive ==
  ASSUME NEW u, NEW a, NEW b, NEW c, Later(u, a, b), Later(u, b, c)
  PROVE  Later(u, a, c)
  BY DEF Later

\* A session whose identity map is sound.
Good(x) ==
  /\ x \in SessionStates
  /\ \A u \in Ids : Sound(u, x.seen[u], x.now[u], users[u], u \in fresh)

\* Put touches row u only, and leaves it as r.
LEMMA PutFields ==
  ASSUME TypeOK, NEW x \in SessionStates, NEW u \in Ids, NEW r \in User \cup {NoRow}
  PROVE  LET y == Put(x, u, r)
         IN /\ y \in SessionStates
            /\ y.pc = "commit" /\ y.who = x.who /\ y.at = x.at
            /\ y.of = x.of /\ y.was = x.was /\ y.verdict = x.verdict
            /\ y.seen = [x.seen EXCEPT ![u] = IF x.now[u] # NoRow THEN x.seen[u] ELSE users[u]]
            /\ y.now = [x.now EXCEPT ![u] = r]
  <1> DEFINE sn == [x.seen EXCEPT ![u] = IF x.now[u] # NoRow THEN x.seen[u] ELSE users[u]]
             nw == [x.now EXCEPT ![u] = r]
  <1>1. sn \in [Ids -> User \cup {NoRow}]
    BY DEF TypeOK, SessionStates
  <1>2. nw \in [Ids -> User \cup {NoRow}]
    BY DEF SessionStates
  <1>3. Put(x, u, r) = [x EXCEPT !.pc = "commit", !.seen = sn, !.now = nw]
    BY DEF Put, SessionStates
  <1> HIDE DEF sn, nw
  <1>4. Put(x, u, r) \in SessionStates
    BY <1>1, <1>2, <1>3 DEF SessionStates, PCs
  <1>5. QED
    BY <1>1, <1>2, <1>3, <1>4 DEF sn, nw, SessionStates

\* A row that a handler can read: committed, or in its identity map.
Readable(x, u) == users[u] # NoRow \/ (x.seen[u] # NoRow /\ x.now[u] # NoRow)

\* What a handler reads is a row, and it is what the row was or its own copy.
LEMMA ReadRow ==
  ASSUME TypeOK, NEW x, Good(x), NEW u \in Ids, Readable(x, u), RowsSound
  PROVE  /\ Read(x, u) \in User
         /\ RowOK(u, Read(x, u))
         /\ x.now[u] # NoRow => x.seen[u] # NoRow /\ Later(u, x.seen[u], Read(x, u))
         /\ x.now[u] = NoRow => Read(x, u) = users[u]
  BY DEF TypeOK, Good, Sound, Read, SessionStates, RowsSound, Readable

\* Changing a row that is committed, in a way it may change, is sound.
LEMMA PutGood ==
  ASSUME TypeOK, RowsSound, NEW x, Good(x), NEW u \in Ids, Readable(x, u),
         NEW r \in User \cup {NoRow}, RowOK(u, r),
         r # NoRow => Later(u, Read(x, u), r),
         r = NoRow => Made[u] # "ADMIN"
  PROVE  Good(Put(x, u, r))
  <1> DEFINE y == Put(x, u, r)
  <1>0. x \in SessionStates
    BY DEF Good
  <1>1. /\ y \in SessionStates
        /\ y.seen = [x.seen EXCEPT ![u] = IF x.now[u] # NoRow THEN x.seen[u] ELSE users[u]]
        /\ y.now = [x.now EXCEPT ![u] = r]
    BY <1>0, PutFields
  <1> HIDE DEF y
  <1>2. ASSUME NEW v \in Ids, v # u
        PROVE  Sound(v, y.seen[v], y.now[v], users[v], v \in fresh)
    <2>1. y.seen[v] = x.seen[v] /\ y.now[v] = x.now[v]
      BY <1>0, <1>1, <1>2 DEF SessionStates
    <2>2. QED
      BY <2>1 DEF Good
  <1>3. Sound(u, y.seen[u], y.now[u], users[u], u \in fresh)
    <2>1. y.now[u] = r
      BY <1>0, <1>1 DEF SessionStates
    <2>2. users[u] # NoRow => u \notin fresh /\ users[u] \in User
      BY DEF RowsSound, TypeOK
    <2>3. CASE x.now[u] # NoRow
      <3>1. y.seen[u] = x.seen[u] /\ x.seen[u] # NoRow
        BY <1>0, <1>1, <2>3, ReadRow DEF SessionStates
      <3>2. Later(u, x.seen[u], Read(x, u)) /\ u \notin fresh
        BY <2>3, <3>1, ReadRow DEF Good, Sound
      <3>3. r # NoRow => Later(u, x.seen[u], r)
        BY <3>2, LaterTransitive
      <3>4. QED
        BY <2>1, <2>2, <3>1, <3>2, <3>3 DEF Sound
    <2>4. CASE x.now[u] = NoRow
      <3>1. y.seen[u] = users[u] /\ Read(x, u) = users[u] /\ users[u] # NoRow
        BY <1>0, <1>1, <2>4 DEF SessionStates, Read, Readable
      <3>2. QED
        BY <2>1, <2>2, <3>1 DEF Sound
    <2>5. QED
      BY <2>3, <2>4
  <1>4. QED
    BY <1>1, <1>2, <1>3 DEF Good, y

-----------------------------------------------------------------------------
(* Steps that commit nothing.                                              *)

\* A handler's step that leaves the committed users alone preserves the
\* invariant when it leaves a sound session behind, and when the rows that are
\* new in its identity map are committed ones or under ids nobody had.
LEMMA LocalStep ==
  ASSUME AInv, NEW s \in Sessions, NEW y,
         sess' = [sess EXCEPT ![s] = y],
         users' = users,
         fresh' \subseteq fresh,
         requests' \in [People -> RequestStatus],
         tokens' \in [Tokens -> TokenStates],
         y \in SessionStates,
         \A u \in Ids : Sound(u, y.seen[u], y.now[u], users[u], u \in fresh'),
         \A u \in Ids :
           y.seen[u] # NoRow \/ y.now[u] # NoRow =>
             \/ users[u] # NoRow \/ u \in fresh
             \/ sess[s].seen[u] # NoRow \/ sess[s].now[u] # NoRow,
         \A u \in Ids : Inserts(y, u) => u \in fresh \/ Inserts(sess[s], u),
         WhoSound(y)
  PROVE  AInv'
  <1>0. /\ sess'[s] = y
        /\ \A o \in Sessions : o # s => sess'[o] = sess[o]
    BY DEF AInv, TypeOK
  <1>1. TypeOK'
    BY DEF AInv, TypeOK
  <1>2. RowsSound'
    BY DEF AInv, RowsSound
  <1>3. MapsSound'
    <2>1. ASSUME NEW o \in Sessions, NEW u \in Ids
          PROVE  Sound(u, sess'[o].seen[u], sess'[o].now[u], users[u], u \in fresh')
      <3>1. CASE o = s
        BY <1>0, <3>1
      <3>2. CASE o # s
        <4>1. Sound(u, sess[o].seen[u], sess[o].now[u], users[u], u \in fresh)
          BY DEF AInv, MapsSound
        <4>2. QED
          BY <1>0, <3>2, <4>1 DEF Sound
      <3>3. QED
        BY <3>1, <3>2
    <2>2. QED
      BY <2>1 DEF MapsSound
  <1>4. InsertsApart'
    <2>1. ASSUME NEW o \in Sessions, NEW q \in Sessions, NEW u \in Ids, o # q,
                 Inserts(sess'[o], u)
          PROVE  sess'[q].seen[u] = NoRow /\ sess'[q].now[u] = NoRow
      <3>1. CASE o # s /\ q # s
        BY <1>0, <2>1, <3>1 DEF AInv, InsertsApart
      <3>2. CASE o = s
        <4>1. q # s /\ sess'[q] = sess[q] /\ sess'[o] = y
          BY <1>0, <2>1, <3>2
        <4>2. CASE u \in fresh
          <5>1. Sound(u, sess[q].seen[u], sess[q].now[u], users[u], u \in fresh)
            BY DEF AInv, MapsSound
          <5>2. QED
            BY <4>1, <4>2, <5>1 DEF Sound
        <4>3. CASE Inserts(sess[s], u)
          BY <4>1, <4>3 DEF AInv, InsertsApart
        <4>4. QED
          BY <2>1, <4>1, <4>2, <4>3
      <3>3. CASE q = s
        <4>1. o # s /\ sess'[q] = y /\ Inserts(sess[o], u)
          BY <1>0, <2>1, <3>3
        <4>2. Sound(u, sess[o].seen[u], sess[o].now[u], users[u], u \in fresh)
          BY DEF AInv, MapsSound
        <4>3. users[u] = NoRow /\ u \notin fresh
          BY <4>1, <4>2 DEF Sound, Inserts
        <4>4. sess[s].seen[u] = NoRow /\ sess[s].now[u] = NoRow
          BY <4>1 DEF AInv, InsertsApart
        <4>5. QED
          BY <4>1, <4>3, <4>4
      <3>4. QED
        BY <3>1, <3>2, <3>3
    <2>2. QED
      BY <2>1 DEF InsertsApart
  <1>5. ASSUME NEW o \in Sessions
        PROVE  WhoSound(sess'[o])
    BY <1>0 DEF AInv
  <1>6. QED
    BY <1>1, <1>2, <1>3, <1>4, <1>5 DEF AInv

\* Under the invariant every session's identity map is sound.
LEMMA GoodSession ==
  ASSUME AInv, NEW s \in Sessions
  PROVE  Good(sess[s])
  BY DEF AInv, TypeOK, MapsSound, Good

\* A session that has read nothing.
LEMMA SessionFields ==
  ASSUME NEW pc \in PCs \ {"commit", "claiming"}, NEW op \in AllOps,
         NEW p \in People \cup {NoOne}, NEW me \in Ids \cup {NoId},
         pc # "idle" => p \in People
  PROVE  LET y == Session(pc, op, p, me)
         IN /\ y \in SessionStates
            /\ y.seen = Unread /\ y.now = Unread
            /\ WhoSound(y)
  BY DEF Session, SessionStates, Unread, RequestStatus, WhoSound

\* The end of a handler that leaves no trace.
LEMMA EndsQuietly ==
  ASSUME AInv, NEW s \in Sessions, Becomes(s, Idle), users' = users,
         fresh' = fresh, tokens' = tokens,
         requests' \in [People -> RequestStatus]
  PROVE  AInv'
  <1>1. /\ Idle \in SessionStates
        /\ Idle.seen = Unread /\ Idle.now = Unread
        /\ WhoSound(Idle)
    BY SessionFields DEF Idle, PCs, AllOps
  <1>2. \A u \in Ids : Idle.seen[u] = NoRow /\ Idle.now[u] = NoRow
    BY <1>1 DEF Unread
  <1> HIDE DEF Idle
  <1>3. \A u \in Ids : Sound(u, Idle.seen[u], Idle.now[u], users[u], u \in fresh')
    BY <1>2 DEF Sound, RowOK
  <1>4. QED
    BY <1>1, <1>2, <1>3, LocalStep DEF Becomes, AInv, TypeOK, Inserts

\* Session y is session x after changes of rows that x can read.
Reaches(x, y) ==
  /\ Good(y)
  /\ y.pc = "commit" /\ y.who = x.who
  /\ \A v \in Ids : Inserts(y, v) => Inserts(x, v)
  /\ \A v \in Ids : y.seen[v] # NoRow \/ y.now[v] # NoRow =>
       users[v] # NoRow \/ x.seen[v] # NoRow \/ x.now[v] # NoRow

\* Changing or deleting a row, in a way it may change.
LEMMA PutReaches ==
  ASSUME TypeOK, RowsSound, NEW x, Good(x), NEW u \in Ids, Readable(x, u),
         NEW r \in User \cup {NoRow}, RowOK(u, r),
         r # NoRow => Later(u, Read(x, u), r),
         r = NoRow => Made[u] # "ADMIN"
  PROVE  Reaches(x, Put(x, u, r))
  <1> DEFINE y == Put(x, u, r)
  <1>1. Good(y)
    BY PutGood
  <1>2. x \in SessionStates
    BY DEF Good
  <1>3. /\ y.pc = "commit" /\ y.who = x.who
        /\ y.seen = [x.seen EXCEPT ![u] = IF x.now[u] # NoRow THEN x.seen[u] ELSE users[u]]
        /\ y.now = [x.now EXCEPT ![u] = r]
    BY <1>2, PutFields
  <1>4. x.seen \in [Ids -> User \cup {NoRow}] /\ x.now \in [Ids -> User \cup {NoRow}]
    BY <1>2 DEF SessionStates
  <1>5. x.now[u] # NoRow => x.seen[u] # NoRow
    BY ReadRow
  <1> HIDE DEF y
  <1>6. \A v \in Ids : Inserts(y, v) => Inserts(x, v)
    BY <1>3, <1>4, <1>5 DEF Inserts, Readable
  <1>7. \A v \in Ids : y.seen[v] # NoRow \/ y.now[v] # NoRow =>
          users[v] # NoRow \/ x.seen[v] # NoRow \/ x.now[v] # NoRow
    BY <1>3, <1>4 DEF Readable
  <1>8. QED
    BY <1>1, <1>3, <1>6, <1>7 DEF Reaches, y

\* Two changes in one handler are a change of that handler.
LEMMA ReachesTransitive ==
  ASSUME NEW x, NEW y, NEW z, Reaches(x, y), Reaches(y, z)
  PROVE  Reaches(x, z)
  BY DEF Reaches

\* A handler that ends with changes of rows it can read preserves the invariant.
LEMMA ReachesStep ==
  ASSUME AInv, NEW s \in Sessions, sess[s].pc \notin {"commit", "idle"},
         NEW y, Reaches(sess[s], y),
         Becomes(s, y),
         users' = users, fresh' = fresh, requests' = requests,
         tokens' \in [Tokens -> TokenStates]
  PROVE  AInv'
  <1>1. WhoSound(y)
    BY DEF AInv, WhoSound, Reaches
  <1>2. y \in SessionStates
    BY DEF Reaches, Good
  <1>3. \A v \in Ids : Sound(v, y.seen[v], y.now[v], users[v], v \in fresh')
    BY DEF Reaches, Good
  <1>4. \A v \in Ids : Inserts(y, v) => v \in fresh \/ Inserts(sess[s], v)
    BY DEF Reaches
  <1>5. \A v \in Ids : y.seen[v] # NoRow \/ y.now[v] # NoRow =>
            \/ users[v] # NoRow \/ v \in fresh
            \/ sess[s].seen[v] # NoRow \/ sess[s].now[v] # NoRow
    BY DEF Reaches
  <1>6. sess' = [sess EXCEPT ![s] = y] /\ requests' \in [People -> RequestStatus]
    BY DEF Becomes, AInv, TypeOK
  <1>7. QED
    BY <1>1, <1>2, <1>3, <1>4, <1>5, <1>6, LocalStep

\* A handler that changes or deletes one row.
LEMMA PutStep ==
  ASSUME AInv, NEW s \in Sessions, sess[s].pc \notin {"commit", "idle"},
         NEW u \in Ids, Readable(sess[s], u), NEW r \in User \cup {NoRow},
         RowOK(u, r),
         r # NoRow => Later(u, Read(sess[s], u), r),
         r = NoRow => Made[u] # "ADMIN",
         Becomes(s, Put(sess[s], u, r)),
         users' = users, fresh' = fresh, requests' = requests,
         tokens' \in [Tokens -> TokenStates]
  PROVE  AInv'
  <1>1. TypeOK /\ RowsSound /\ Good(sess[s])
    BY GoodSession DEF AInv
  <1> DEFINE y == Put(sess[s], u, r)
  <1>2. Reaches(sess[s], y)
    BY <1>1, PutReaches
  <1>3. Becomes(s, y)
    OBVIOUS
  <1> HIDE DEF y
  <1>4. QED
    BY <1>2, <1>3, ReachesStep

\* The fields that decide about a request do not matter to the rows.
SameMap(x, y) ==
  /\ y \in SessionStates /\ y.seen = x.seen /\ y.now = x.now
  /\ y.who = x.who /\ y.pc = "commit"

\* A handler that leaves its identity map as it is preserves the invariant.
LEMMA SameMapStep ==
  ASSUME AInv, NEW s \in Sessions, sess[s].pc \notin {"commit", "idle"},
         NEW y, SameMap(sess[s], y), Becomes(s, y),
         users' = users, fresh' = fresh, requests' = requests, tokens' = tokens
  PROVE  AInv'
  <1>1. TypeOK /\ Good(sess[s]) /\ WhoSound(sess[s])
    BY GoodSession DEF AInv
  <1>2. WhoSound(y)
    BY <1>1 DEF WhoSound, SameMap
  <1>3. QED
    BY <1>1, <1>2, LocalStep DEF Good, SameMap, Becomes, TypeOK, Inserts

\* A handler that inserts a row.
LEMMA InsertStep ==
  ASSUME AInv, NEW s \in Sessions, sess[s].pc \notin {"commit", "idle"},
         NEW z, SameMap(sess[s], z), NEW r \in User, Fit(r),
         Insert(s, z, r), users' = users, requests' = requests,
         tokens' \in [Tokens -> TokenStates]
  PROVE  AInv'
  <1> DEFINE x == sess[s]
  <1>1. TypeOK /\ Good(x) /\ WhoSound(x) /\ RowsSound
    BY GoodSession DEF AInv
  <1>2. PICK u \in fresh :
          /\ Made[u] = r.role
          /\ fresh' = fresh \ {u}
          /\ Becomes(s, [z EXCEPT !.pc = "commit", !.now = [z.now EXCEPT ![u] = r]])
    BY DEF Insert
  <1> DEFINE nw == [z.now EXCEPT ![u] = r]
             y == [z EXCEPT !.pc = "commit", !.now = nw]
  <1>3. u \in Ids /\ users[u] = NoRow
    BY <1>1 DEF TypeOK, RowsSound
  <1>4. x.seen[u] = NoRow /\ x.now[u] = NoRow
    BY <1>1, <1>2, <1>3 DEF Good, Sound
  <1>5. x.seen \in [Ids -> User \cup {NoRow}] /\ x.now \in [Ids -> User \cup {NoRow}]
    BY <1>1 DEF Good, SessionStates
  <1>6. nw \in [Ids -> User \cup {NoRow}] /\ nw = [x.now EXCEPT ![u] = r]
    BY <1>5 DEF SameMap
  <1> HIDE DEF nw
  <1>7. /\ y \in SessionStates /\ y.pc = "commit" /\ y.who = x.who
        /\ y.seen = x.seen /\ y.now = nw
    BY <1>6 DEF SameMap, SessionStates, PCs
  <1>8. Becomes(s, y)
    BY <1>2 DEF nw
  <1> HIDE DEF y
  <1>9. /\ y.seen[u] = NoRow /\ y.now[u] = r
        /\ \A v \in Ids : v # u => y.seen[v] = x.seen[v] /\ y.now[v] = x.now[v]
    BY <1>3, <1>4, <1>5, <1>6, <1>7
  <1>10. ASSUME NEW v \in Ids
         PROVE  Sound(v, y.seen[v], y.now[v], users[v], v \in fresh')
    <2>1. CASE v = u
      <3>1. v \notin fresh'
        BY <1>2, <2>1
      <3>2. RowOK(u, r) /\ Insertable(u, r)
        BY <1>2 DEF Fit, RowOK, Insertable
      <3>3. QED
        BY <1>3, <1>9, <2>1, <3>1, <3>2 DEF Sound
    <2>2. CASE v # u
      <3>1. Sound(v, x.seen[v], x.now[v], users[v], v \in fresh)
        BY <1>1 DEF Good
      <3>2. v \in fresh' <=> v \in fresh
        BY <1>2, <2>2
      <3>3. QED
        BY <1>9, <2>2, <3>1, <3>2
    <2>3. QED
      BY <2>1, <2>2
  <1>11. WhoSound(y)
    BY <1>1, <1>7 DEF WhoSound
  <1>12. \A v \in Ids : y.seen[v] # NoRow \/ y.now[v] # NoRow =>
            v \in fresh \/ x.seen[v] # NoRow \/ x.now[v] # NoRow
    BY <1>2, <1>9
  <1>13. \A v \in Ids : Inserts(y, v) => v \in fresh \/ Inserts(x, v)
    BY <1>2, <1>9 DEF Inserts
  <1>14. sess' = [sess EXCEPT ![s] = y] /\ fresh' \subseteq fresh
    BY <1>2, <1>8 DEF Becomes
  <1>15. requests' \in [People -> RequestStatus]
    BY <1>1 DEF TypeOK
  <1>16. QED
    BY <1>7, <1>10, <1>11, <1>12, <1>13, <1>14, <1>15, LocalStep

\* A handler that inserts a row and decides about no request.
LEMMA SameInsertStep ==
  ASSUME AInv, NEW s \in Sessions, sess[s].pc = "entered",
         NEW r \in User, Fit(r),
         Insert(s, sess[s], r), users' = users, requests' = requests,
         tokens' \in [Tokens -> TokenStates]
  PROVE  AInv'
  <1> DEFINE x == sess[s]
             z == [x EXCEPT !.pc = "commit"]
  <1>1. x \in SessionStates
    BY GoodSession DEF Good
  <1>2. PICK u \in fresh :
          /\ Made[u] = r.role
          /\ fresh' = fresh \ {u}
          /\ Becomes(s, [x EXCEPT !.pc = "commit", !.now = [x.now EXCEPT ![u] = r]])
    BY DEF Insert
  <1> HIDE DEF x
  <1>3. SameMap(x, z)
    BY <1>1 DEF SameMap, SessionStates, PCs
  <1>4. ASSUME NEW nw
        PROVE  [x EXCEPT !.pc = "commit", !.now = nw] = [z EXCEPT !.pc = "commit", !.now = nw]
    BY <1>1 DEF SessionStates
  <1>5. z.now = x.now
    BY <1>1 DEF SessionStates
  <1>6. Insert(s, z, r)
    BY <1>2, <1>4, <1>5 DEF Insert
  <1> HIDE DEF z
  <1>7. QED
    BY <1>3, <1>6, InsertStep DEF x

-----------------------------------------------------------------------------
(* The middleware.                                                         *)

\* The session of a known sender, before its handler.
Entered(y, pc, op, p, u, sn, nw) ==
  \/ y = [Session(pc, op, p, u) EXCEPT !.seen = sn, !.now = nw]
  \/ y = [Session(pc, op, p, u) EXCEPT !.now = nw] /\ sn = Unread

LEMMA SessionWith ==
  ASSUME NEW pc \in {"entered", "commit"}, NEW op \in AllOps, NEW p \in People,
         NEW u \in Ids, NEW sn \in [Ids -> User \cup {NoRow}],
         NEW nw \in [Ids -> User \cup {NoRow}], NEW y,
         Entered(y, pc, op, p, u, sn, nw)
  PROVE  /\ y \in SessionStates /\ y.pc = pc /\ y.who = p /\ y.me = u /\ y.op = op
         /\ y.verdict = y.was
         /\ y.seen = sn /\ y.now = nw
  <1> DEFINE x == Session(pc, op, p, u)
  <1>1. Unread \in [Ids -> User \cup {NoRow}]
    BY DEF Unread
  <1>2. /\ x \in SessionStates /\ x.pc = pc /\ x.who = p /\ x.seen = Unread
        /\ x.me = u /\ x.op = op /\ x.verdict = x.was
    BY <1>1 DEF Session, SessionStates, PCs, RequestStatus
  <1> HIDE DEF x
  <1>3. \/ y = [x EXCEPT !.seen = sn, !.now = nw]
        \/ y = [x EXCEPT !.now = nw] /\ sn = Unread
    BY DEF x, Entered
  <1>4. QED
    BY <1>2, <1>3 DEF SessionStates

\* The middleware's step leaves a fresh session that holds at most the row of
\* the sender: read as seen, left as now, for row u.
LEMMA EnterStep ==
  ASSUME AInv, NEW s \in Sessions, NEW u \in Ids,
         NEW sr \in User \cup {NoRow}, NEW nr \in User,
         NEW y \in SessionStates, Becomes(s, y),
         y.pc \in {"entered", "commit"}, y.who \in People,
         y.seen = [Unread EXCEPT ![u] = sr],
         y.now = [Unread EXCEPT ![u] = nr],
         Sound(u, sr, nr, users[u], u \in fresh'),
         sr # NoRow => users[u] # NoRow,
         sr = NoRow => u \in fresh,
         users' = users, fresh' \subseteq fresh,
         requests' = requests, tokens' = tokens
  PROVE  AInv'
  <1>3. sess' = [sess EXCEPT ![s] = y]
    BY DEF Becomes
  <1>4. /\ y.seen[u] = sr /\ y.now[u] = nr
        /\ \A v \in Ids : v # u => y.seen[v] = NoRow /\ y.now[v] = NoRow
    BY DEF Unread
  <1>5. \A v \in Ids : Sound(v, y.seen[v], y.now[v], users[v], v \in fresh')
    <2>1. ASSUME NEW v \in Ids, v # u
          PROVE  Sound(v, y.seen[v], y.now[v], users[v], v \in fresh')
      BY <1>4, <2>1 DEF Sound, RowOK
    <2>2. QED
      BY <1>4, <2>1
  <1>6. \A v \in Ids : Inserts(y, v) => v = u /\ sr = NoRow
    BY <1>4 DEF Inserts
  <1>7. WhoSound(y)
    BY DEF WhoSound
  <1>8. \A v \in Ids : y.seen[v] # NoRow \/ y.now[v] # NoRow =>
           users[v] # NoRow \/ v \in fresh
    BY <1>4
  <1>9. \A v \in Ids : Inserts(y, v) => v \in fresh
    BY <1>6
  <1>10. requests' \in [People -> RequestStatus] /\ tokens' \in [Tokens -> TokenStates]
    BY DEF AInv, TypeOK
  <1>11. QED
    BY <1>3, <1>5, <1>7, <1>8, <1>9, <1>10, LocalStep

\* A known sender is loaded, and promoted when ADMIN_IDS says so.
LEMMA EnterKnownInv ==
  ASSUME AInv, NEW s \in Sessions, NEW p \in People, NEW op \in AllOps,
         EnterKnown(s, p, op)
  PROVE  AInv'
  <1> DEFINE pc == IF op = "visit" THEN "commit" ELSE "entered"
  <1>1. PICK u \in Ids :
          /\ users[u] # NoRow /\ users[u].tg = p
          /\ Becomes(s, [Session(pc, op, p, u)
               EXCEPT !.seen = [Unread EXCEPT ![u] = users[u]],
                      !.now = [Unread EXCEPT ![u] = Promote(users[u], p)]])
    BY DEF EnterKnown, Holders, Session
  <1>2. /\ users[u] \in User /\ RowOK(u, users[u]) /\ u \notin fresh
    BY <1>1 DEF AInv, TypeOK, RowsSound
  <1> DEFINE r == users[u]
             nr == Promote(r, p)
  <1>3. /\ nr \in User /\ RowOK(u, nr) /\ Later(u, r, nr)
    BY <1>1, <1>2 DEF Promote, User, Roles, RowOK, Later
  <1>4. UNCHANGED <<users, fresh, requests, tokens>>
    BY DEF EnterKnown
  <1>5. Sound(u, r, nr, users[u], u \in fresh')
    <2>1. nr # NoRow
      BY <1>3, AccountsAssumption
    <2>2. QED
      BY <1>1, <1>2, <1>3, <1>4, <2>1 DEF Sound
  <1> DEFINE sn == [Unread EXCEPT ![u] = r]
             nw == [Unread EXCEPT ![u] = nr]
             y == [Session(pc, op, p, u) EXCEPT !.seen = sn, !.now = nw]
  <1>6. Becomes(s, y)
    BY <1>1
  <1>7. pc \in {"entered", "commit"}
    OBVIOUS
  <1>8. sn \in [Ids -> User \cup {NoRow}] /\ nw \in [Ids -> User \cup {NoRow}]
    BY <1>2, <1>3 DEF Unread
  <1> HIDE DEF pc, nr, sn, nw
  <1>9. /\ y \in SessionStates /\ y.pc = pc /\ y.who = p
        /\ y.seen = sn /\ y.now = nw
    <2>1. Entered(y, pc, op, p, u, sn, nw)
      BY DEF Entered
    <2> HIDE DEF y
    <2>2. QED
      BY <1>7, <1>8, <2>1, SessionWith
  <1> HIDE DEF y
  <1>10. /\ y.pc \in {"entered", "commit"} /\ y.who \in People
         /\ y.seen = [Unread EXCEPT ![u] = r]
         /\ y.now = [Unread EXCEPT ![u] = nr]
    BY <1>7, <1>9 DEF sn, nw
  <1>11. /\ r \in User \cup {NoRow} /\ nr \in User
         /\ r # NoRow => users[u] # NoRow
         /\ r = NoRow => u \in fresh
         /\ Sound(u, r, nr, users[u], u \in fresh')
    BY <1>1, <1>2, <1>3, <1>5
  <1>12. /\ y \in SessionStates /\ Becomes(s, y)
         /\ users' = users /\ fresh' \subseteq fresh
         /\ requests' = requests /\ tokens' = tokens
    BY <1>4, <1>6, <1>9
  <1> HIDE DEF r
  <1>13. QED
    BY <1>10, <1>11, <1>12, EnterStep

\* A sender listed in ADMIN_IDS is created.
LEMMA EnterNewAdminInv ==
  ASSUME AInv, NEW s \in Sessions, NEW p \in People, NEW op \in AllOps,
         EnterNewAdmin(s, p, op)
  PROVE  AInv'
  <1> DEFINE pc == IF op = "visit" THEN "commit" ELSE "entered"
             nr == NewUser("ADMIN", p, NoToken)
  <1>1. PICK u \in fresh :
          /\ Made[u] = "ADMIN"
          /\ fresh' = fresh \ {u}
          /\ Becomes(s, [Session(pc, op, p, u)
               EXCEPT !.now = [Unread EXCEPT ![u] = nr]])
    BY DEF EnterNewAdmin, Session
  <1>2. u \in Ids /\ users[u] = NoRow
    BY DEF AInv, TypeOK, RowsSound
  <1>3. nr \in User /\ RowOK(u, nr) /\ Insertable(u, nr)
    BY <1>1 DEF EnterNewAdmin, NewUser, User, Roles, RowOK, Insertable
  <1>4. UNCHANGED <<users, requests, tokens>> /\ fresh' \subseteq fresh /\ u \notin fresh'
    BY <1>1 DEF EnterNewAdmin
  <1>5. Sound(u, NoRow, nr, users[u], u \in fresh')
    BY <1>2, <1>3, <1>4 DEF Sound
  <1> DEFINE nw == [Unread EXCEPT ![u] = nr]
             y == [Session(pc, op, p, u) EXCEPT !.now = nw]
  <1>6. [Unread EXCEPT ![u] = NoRow] = Unread
    BY <1>2 DEF Unread
  <1>7. Becomes(s, y)
    BY <1>1
  <1>8. pc \in {"entered", "commit"}
    OBVIOUS
  <1>9. Unread \in [Ids -> User \cup {NoRow}] /\ nw \in [Ids -> User \cup {NoRow}]
    BY <1>3 DEF Unread
  <1> HIDE DEF pc, nr, nw
  <1>10. /\ y \in SessionStates /\ y.pc = pc /\ y.who = p
         /\ y.seen = Unread /\ y.now = nw
    <2>1. Entered(y, pc, op, p, u, Unread, nw)
      BY DEF Entered
    <2> HIDE DEF y
    <2>2. QED
      BY <1>2, <1>8, <1>9, <2>1, SessionWith
  <1> HIDE DEF y
  <1>11. /\ y.pc \in {"entered", "commit"} /\ y.who \in People
         /\ y.seen = [Unread EXCEPT ![u] = NoRow]
         /\ y.now = [Unread EXCEPT ![u] = nr]
    BY <1>6, <1>8, <1>10 DEF nw
  <1>12. QED
    BY <1>1, <1>2, <1>3, <1>4, <1>5, <1>7, <1>10, <1>11, EnterStep

\* An unknown sender brings an empty identity map.
LEMMA EnterUnknownInv ==
  ASSUME AInv, NEW s \in Sessions, NEW p \in People, NEW op \in AllOps,
         EnterUnknown(s, p, op)
  PROVE  AInv'
  <1> DEFINE pc == IF op = "claim" THEN "entered" ELSE "visitor"
             y == Session(pc, op, p, NoId)
  <1>1. /\ y \in SessionStates /\ y.seen = Unread /\ y.now = Unread
        /\ WhoSound(y)
    BY SessionFields DEF PCs, EnterUnknown
  <1>2. sess' = [sess EXCEPT ![s] = y] /\ UNCHANGED <<users, fresh, requests, tokens>>
    BY DEF EnterUnknown, Becomes
  <1> HIDE DEF y
  <1>3. \A v \in Ids : y.seen[v] = NoRow /\ y.now[v] = NoRow
    BY <1>1 DEF Unread
  <1>4. \A v \in Ids : Sound(v, y.seen[v], y.now[v], users[v], v \in fresh')
    BY <1>3 DEF Sound, RowOK
  <1>5. requests' \in [People -> RequestStatus] /\ tokens' \in [Tokens -> TokenStates]
    BY <1>2 DEF AInv, TypeOK
  <1>6. \A v \in Ids : ~Inserts(y, v)
    BY <1>3 DEF Inserts
  <1>7. QED
    BY <1>1, <1>2, <1>3, <1>4, <1>5, <1>6, LocalStep

\* A recorded visit and a rollback leave no rows behind.
LEMMA QuietEndsInv ==
  ASSUME AInv, NEW s \in Sessions, RecordVisit(s) \/ Rollback(s)
  PROVE  AInv'
  <1>1. requests' \in [People -> RequestStatus]
    BY DEF AInv, TypeOK, RecordVisit, Rollback, RequestStatus
  <1>2. QED
    BY <1>1, EndsQuietly DEF RecordVisit, Rollback

\* An invite that expires changes no row.
LEMMA ExpireInv ==
  ASSUME AInv, NEW t \in Tokens, Expire(t)
  PROVE  AInv'
  <1>1. tokens' \in [Tokens -> TokenStates]
    BY DEF AInv, TypeOK, Expire, TokenStates
  <1>2. UNCHANGED <<users, fresh, requests, sess>>
    BY DEF Expire
  <1>3. QED
    BY <1>1, <1>2 DEF AInv, TypeOK, RowsSound, MapsSound, InsertsApart


-----------------------------------------------------------------------------
(* The handlers.                                                           *)

\* A handler that is past its middleware reads rows that are well formed.
LEMMA InHandler ==
  ASSUME AInv, NEW s \in Sessions, NEW u \in Ids, users[u] # NoRow
  PROVE  /\ Read(sess[s], u) \in User /\ RowOK(u, Read(sess[s], u))
         /\ Read(sess[s], u) # NoRow /\ Readable(sess[s], u)
         /\ RowOK(u, users[u])
  <1>1. Good(sess[s]) /\ TypeOK /\ RowsSound /\ Readable(sess[s], u)
    BY GoodSession DEF AInv, Readable
  <1>2. QED
    BY <1>1, ReadRow, AccountsAssumption DEF RowsSound

\* A new invite changes the token of a student's row.
LEMMA NewInviteInv ==
  ASSUME AInv, NEW s \in Sessions, NEW u \in Ids, NewInvite(s, u)
  PROVE  AInv'
  <1> DEFINE r == Read(sess[s], u)
  <1>1. /\ sess[s].pc = "entered" /\ users[u] # NoRow /\ Made[u] = "STUDENT"
        /\ users' = users /\ fresh' = fresh /\ requests' = requests
    BY DEF NewInvite, Target, Handling
  <1>2. r \in User /\ RowOK(u, r) /\ r # NoRow /\ Readable(sess[s], u)
    BY <1>1, InHandler
  <1>3. PICK t \in Tokens : Issue(t) /\ Becomes(s, Put(sess[s], u, [r EXCEPT !.token = t]))
    BY DEF NewInvite
  <1>4. tokens' \in [Tokens -> TokenStates]
    BY <1>3 DEF Issue, AInv, TypeOK, TokenStates
  <1> DEFINE n == [r EXCEPT !.token = t]
  <1> HIDE DEF r
  <1>5. n \in User /\ RowOK(u, n) /\ Later(u, r, n)
    BY <1>1, <1>2 DEF User, RowOK, Later, Roles
  <1>6. n # NoRow
    BY <1>5, AccountsAssumption
  <1> HIDE DEF n
  <1>7. Becomes(s, Put(sess[s], u, n))
    BY <1>3 DEF n
  <1>8. QED
    BY <1>1, <1>4, <1>5, <1>6, <1>7, <1>2, PutStep DEF r

\* A revoked invite changes the token of a student's row.
LEMMA RevokeInviteInv ==
  ASSUME AInv, NEW s \in Sessions, NEW u \in Ids, RevokeInvite(s, u)
  PROVE  AInv'
  <1> DEFINE r == Read(sess[s], u)
             n == [r EXCEPT !.token = NoToken]
  <1>1. /\ sess[s].pc = "entered" /\ users[u] # NoRow /\ Made[u] = "STUDENT"
        /\ users' = users /\ fresh' = fresh /\ requests' = requests /\ tokens' = tokens
        /\ Becomes(s, Put(sess[s], u, n))
    BY DEF RevokeInvite, Target, Handling
  <1>2. r \in User /\ RowOK(u, r) /\ r # NoRow /\ Readable(sess[s], u)
    BY <1>1, InHandler
  <1>3. tokens' \in [Tokens -> TokenStates]
    BY <1>1 DEF AInv, TypeOK
  <1> HIDE DEF r
  <1>4. n \in User /\ RowOK(u, n) /\ Later(u, r, n)
    BY <1>1, <1>2 DEF User, RowOK, Later, Roles
  <1>5. n # NoRow
    BY <1>4, AccountsAssumption
  <1> HIDE DEF n
  <1>6. QED
    BY <1>1, <1>3, <1>4, <1>5, <1>2, PutStep DEF r

\* A linked row was created for a student.
LEMMA LinkTelegramInv ==
  ASSUME AInv, NEW s \in Sessions, NEW u \in Ids, NEW p \in People,
         LinkTelegram(s, u, p)
  PROVE  AInv'
  <1> DEFINE r == Read(sess[s], u)
             n == Claimed(r, p)
  <1>1. /\ sess[s].pc = "entered" /\ users[u] # NoRow /\ Made[u] = "STUDENT"
        /\ users' = users /\ fresh' = fresh /\ requests' = requests /\ tokens' = tokens
        /\ Becomes(s, Put(sess[s], u, n))
    BY DEF LinkTelegram, Target, Handling
  <1>2. r \in User /\ RowOK(u, r) /\ r # NoRow /\ Readable(sess[s], u)
    BY <1>1, InHandler
  <1>3. tokens' \in [Tokens -> TokenStates]
    BY <1>1 DEF AInv, TypeOK
  <1> HIDE DEF r
  <1>4. n \in User /\ RowOK(u, n) /\ Later(u, r, n)
    BY <1>1, <1>2 DEF Claimed, User, RowOK, Later, Roles
  <1>5. n # NoRow
    BY <1>4, AccountsAssumption
  <1> HIDE DEF n
  <1>6. QED
    BY <1>1, <1>3, <1>4, <1>5, <1>2, PutStep DEF r

\* Only a student's row loses its telegram id.
LEMMA UnlinkTelegramInv ==
  ASSUME AInv, NEW s \in Sessions, NEW u \in Ids, UnlinkTelegram(s, u)
  PROVE  AInv'
  <1> DEFINE r == Read(sess[s], u)
             n == [r EXCEPT !.tg = NoOne]
  <1>1. /\ sess[s].pc = "entered" /\ users[u] # NoRow /\ Made[u] = "STUDENT"
        /\ users' = users /\ fresh' = fresh /\ requests' = requests /\ tokens' = tokens
        /\ Becomes(s, Put(sess[s], u, n))
    BY DEF UnlinkTelegram, Target, Handling
  <1>2. r \in User /\ RowOK(u, r) /\ r # NoRow /\ Readable(sess[s], u)
    BY <1>1, InHandler
  <1>3. tokens' \in [Tokens -> TokenStates]
    BY <1>1 DEF AInv, TypeOK
  <1> HIDE DEF r
  <1>4. n \in User /\ RowOK(u, n) /\ Later(u, r, n)
    BY <1>1, <1>2, AccountsAssumption DEF User, RowOK, Later, Roles
  <1>5. n # NoRow
    BY <1>4, AccountsAssumption
  <1> HIDE DEF n
  <1>6. QED
    BY <1>1, <1>3, <1>4, <1>5, <1>2, PutStep DEF r

\* An edited row has only gone to another person.
LEMMA EditAdvisorInv ==
  ASSUME AInv, NEW s \in Sessions, NEW u \in Ids, NEW p \in People \cup {NoOne},
         EditAdvisor(s, u, p)
  PROVE  AInv'
  <1> DEFINE r == Read(sess[s], u)
             n == [r EXCEPT !.tg = p]
  <1>1. /\ sess[s].pc = "entered" /\ users[u] # NoRow
        /\ p = r.tg \/ p \in TypedIds
        /\ users' = users /\ fresh' = fresh /\ requests' = requests /\ tokens' = tokens
        /\ Becomes(s, Put(sess[s], u, n))
    BY DEF EditAdvisor, Handling
  <1>2. r \in User /\ RowOK(u, r) /\ r # NoRow /\ Readable(sess[s], u)
    BY <1>1, InHandler
  <1>3. tokens' \in [Tokens -> TokenStates]
    BY <1>1 DEF AInv, TypeOK
  <1> HIDE DEF r
  <1>4. n \in User /\ RowOK(u, n) /\ Later(u, r, n)
    BY <1>1, <1>2, AccountsAssumption DEF User, RowOK, Later, Roles
  <1>5. n # NoRow
    BY <1>4, AccountsAssumption
  <1> HIDE DEF n
  <1>6. QED
    BY <1>1, <1>3, <1>4, <1>5, <1>2, PutStep DEF r

\* Suspending changes neither role nor telegram id.
LEMMA ToggleActiveInv ==
  ASSUME AInv, NEW s \in Sessions, NEW u \in Ids, ToggleActive(s, u)
  PROVE  AInv'
  <1> DEFINE r == Read(sess[s], u)
             n == [r EXCEPT !.active = ~r.active]
  <1>1. /\ sess[s].pc = "entered" /\ users[u] # NoRow
        /\ users' = users /\ fresh' = fresh /\ requests' = requests /\ tokens' = tokens
        /\ Becomes(s, Put(sess[s], u, n))
    BY DEF ToggleActive, Handling
  <1>2. r \in User /\ RowOK(u, r) /\ r # NoRow /\ Readable(sess[s], u)
    BY <1>1, InHandler
  <1>3. tokens' \in [Tokens -> TokenStates]
    BY <1>1 DEF AInv, TypeOK
  <1> HIDE DEF r
  <1>4. n \in User
    BY <1>2 DEF User
  <1>5. RowOK(u, n) /\ Later(u, r, n)
    BY <1>1, <1>2 DEF User, RowOK, Later, Roles
  <1>6. n # NoRow
    BY <1>4, AccountsAssumption
  <1> HIDE DEF n
  <1>7. QED
    BY <1>1, <1>3, <1>4, <1>5, <1>6, <1>2, PutStep DEF r

\* A row created for an admin is never deleted.
LEMMA DeleteUserInv ==
  ASSUME AInv, NEW s \in Sessions, NEW u \in Ids, DeleteUser(s, u)
  PROVE  AInv'
  <1> DEFINE r == Read(sess[s], u)
  <1>1. /\ sess[s].pc = "entered" /\ users[u] # NoRow
        /\ users' = users /\ fresh' = fresh /\ requests' = requests /\ tokens' = tokens
        /\ Becomes(s, Put(sess[s], u, NoRow))
        /\ Made[u] = "STUDENT" \/ ~IsAdmin(r)
    BY DEF DeleteUser, Handling, Target
  <1>2. RowOK(u, r) /\ r # NoRow /\ Readable(sess[s], u)
    BY <1>1, InHandler
  <1>3. Made[u] # "ADMIN"
    BY <1>1, <1>2 DEF RowOK, IsAdmin
  <1>4. tokens' \in [Tokens -> TokenStates]
    BY <1>1 DEF AInv, TypeOK
  <1>5. RowOK(u, NoRow)
    BY DEF RowOK
  <1>6. QED
    BY <1>1, <1>2, <1>3, <1>4, <1>5, PutStep

\* A decision about a request touches no row.
LEMMA DecideSame ==
  ASSUME AInv, NEW s \in Sessions, NEW p \in People, NEW verdict \in RequestStatus
  PROVE  SameMap(sess[s], Decide(sess[s], p, verdict))
  <1> DEFINE x == sess[s]
  <1>1. x \in SessionStates
    BY GoodSession DEF Good
  <1>2. requests[p] \in RequestStatus
    BY DEF AInv, TypeOK
  <1> HIDE DEF x
  <1>3. SameMap(x, Decide(x, p, verdict))
    BY <1>1, <1>2 DEF SameMap, Decide, SessionStates, PCs
  <1>4. QED
    BY <1>3 DEF x

\* A rejection touches no row.
LEMMA RejectInv ==
  ASSUME AInv, NEW s \in Sessions, NEW p \in People, Reject(s, p)
  PROVE  AInv'
  <1>1. SameMap(sess[s], Decide(sess[s], p, "rejected"))
    BY DecideSame DEF Reject, RequestStatus
  <1>2. QED
    BY <1>1, SameMapStep DEF Reject, Handling

\* A refusal keeps what the middleware changed.
LEMMA EarlyReturnInv ==
  ASSUME AInv, NEW s \in Sessions, EarlyReturn(s)
  PROVE  AInv'
  <1> DEFINE x == sess[s]
             y == [x EXCEPT !.pc = "commit", !.op = "visit"]
  <1>1. x \in SessionStates /\ Becomes(s, y) /\ x.pc = "entered"
    BY GoodSession DEF Good, EarlyReturn
  <1>2. users' = users /\ fresh' = fresh /\ requests' = requests /\ tokens' = tokens
    BY DEF EarlyReturn
  <1> HIDE DEF x
  <1>3. SameMap(x, y)
    BY <1>1 DEF SameMap, SessionStates, PCs, AllOps
  <1> HIDE DEF y
  <1>4. QED
    BY <1>1, <1>2, <1>3, SameMapStep DEF x

\* A row for somebody who has none.
LEMMA NewUserOK ==
  ASSUME NEW role \in {"STUDENT", "ADVISOR"}, NEW p \in People \cup {NoOne},
         NEW t \in Tokens \cup {NoToken},
         role # "STUDENT" => p \in People /\ t = NoToken
  PROVE  LET r == NewUser(role, p, t)
         IN r \in User /\ Fit(r)
  BY DEF NewUser, User, Roles, Fit

\* A created student has an invite or a telegram id.
LEMMA CreateStudentInv ==
  ASSUME AInv, NEW s \in Sessions, CreateStudent(s)
  PROVE  AInv'
  <1>1. /\ sess[s].pc = "entered" /\ users' = users /\ requests' = requests
    BY DEF CreateStudent, Handling
  <1>2. CASE \E t \in Tokens :
               Issue(t) /\ Insert(s, sess[s], NewUser("STUDENT", NoOne, t))
    <2>1. PICK t \in Tokens :
            Issue(t) /\ Insert(s, sess[s], NewUser("STUDENT", NoOne, t))
      BY <1>2
    <2> DEFINE r == NewUser("STUDENT", NoOne, t)
    <2>2. r \in User /\ Fit(r)
      BY NewUserOK, AccountsAssumption
    <2>3. tokens' \in [Tokens -> TokenStates]
      BY <2>1 DEF Issue, AInv, TypeOK, TokenStates
    <2> HIDE DEF r
    <2>4. Insert(s, sess[s], r)
      BY <2>1 DEF r
    <2>5. QED
      BY <1>1, <2>2, <2>3, <2>4, SameInsertStep
  <1>3. CASE \E p \in TypedIds :
               /\ Insert(s, sess[s], NewUser("STUDENT", p, NoToken))
               /\ UNCHANGED tokens
    <2>1. PICK p \in TypedIds :
            /\ Insert(s, sess[s], NewUser("STUDENT", p, NoToken))
            /\ UNCHANGED tokens
      BY <1>3
    <2> DEFINE r == NewUser("STUDENT", p, NoToken)
    <2>2. r \in User /\ Fit(r)
      BY NewUserOK, AccountsAssumption
    <2>3. tokens' \in [Tokens -> TokenStates]
      BY <2>1 DEF AInv, TypeOK
    <2> HIDE DEF r
    <2>4. Insert(s, sess[s], r)
      BY <2>1 DEF r
    <2>5. QED
      BY <1>1, <2>2, <2>3, <2>4, SameInsertStep
  <1>4. QED
    BY <1>2, <1>3 DEF CreateStudent

\* Granting a role to p, and deciding about the request of p.
LEMMA GrantStep ==
  ASSUME AInv, NEW s \in Sessions, sess[s].pc = "entered", NEW p \in People,
         NEW role \in {"STUDENT", "ADVISOR"},
         NEW verdict \in RequestStatus,
         Insert(s, Decide(sess[s], p, verdict), NewUser(role, p, NoToken)),
         users' = users, requests' = requests, tokens' = tokens
  PROVE  AInv'
  <1> DEFINE r == NewUser(role, p, NoToken)
             z == Decide(sess[s], p, verdict)
  <1>1. r \in User /\ Fit(r)
    BY NewUserOK
  <1>2. SameMap(sess[s], z)
    BY DecideSame
  <1>3. tokens' \in [Tokens -> TokenStates]
    BY DEF AInv, TypeOK
  <1>4. Insert(s, z, r)
    OBVIOUS
  <1> HIDE DEF r, z
  <1>5. QED
    BY <1>1, <1>2, <1>3, <1>4, InsertStep

\* A created advisor has a telegram id.
LEMMA AddAdvisorInv ==
  ASSUME AInv, NEW s \in Sessions, NEW p \in People, AddAdvisor(s, p)
  PROVE  AInv'
  <1> DEFINE verdict == IF requests[p] = "none" THEN "none" ELSE "approved"
  <1>1. verdict \in RequestStatus
    BY DEF RequestStatus
  <1>2. /\ sess[s].pc = "entered"
        /\ Insert(s, Decide(sess[s], p, verdict), NewUser("ADVISOR", p, NoToken))
        /\ UNCHANGED <<users, requests, tokens>>
    BY DEF AddAdvisor, Handling
  <1> HIDE DEF verdict
  <1>3. QED
    BY <1>1, <1>2, GrantStep

\* A request grants student or advisor.
LEMMA ApproveInv ==
  ASSUME AInv, NEW s \in Sessions, NEW p \in People, Approve(s, p)
  PROVE  AInv'
  <1>1. /\ sess[s].pc = "entered"
        /\ UNCHANGED <<users, requests, tokens>>
    BY DEF Approve, Handling
  <1>2. PICK role \in {"STUDENT", "ADVISOR"} :
          Insert(s, Decide(sess[s], p, "approved"), NewUser(role, p, NoToken))
    BY DEF Approve
  <1>3. "approved" \in RequestStatus
    BY DEF RequestStatus
  <1>4. QED
    BY <1>1, <1>2, <1>3, GrantStep

\* Whoever opens an invite reads a row created for a student.
LEMMA OpenInviteInv ==
  ASSUME AInv, NEW s \in Sessions, NEW u \in Ids, OpenInvite(s, u)
  PROVE  AInv'
  <1> DEFINE x == sess[s]
             r == Read(x, u)
  <1>1. /\ x.pc = "entered"
        /\ users[u] # NoRow /\ users[u].token # NoToken
        /\ users' = users /\ fresh' = fresh /\ requests' = requests /\ tokens' = tokens
    BY DEF OpenInvite, Handling
  <1>2. r \in User /\ RowOK(u, r) /\ r # NoRow /\ Made[u] = "STUDENT" /\ Readable(x, u)
    BY <1>1, InHandler DEF RowOK
  <1>3. tokens' \in [Tokens -> TokenStates] /\ requests' \in [People -> RequestStatus]
    BY <1>1 DEF AInv, TypeOK
  <1>4. TypeOK /\ RowsSound /\ Good(x) /\ WhoSound(x)
    BY GoodSession DEF AInv
  <1>5. CASE Becomes(s, Put(x, u, [r EXCEPT !.token = NoToken]))
    <2> DEFINE n == [r EXCEPT !.token = NoToken]
    <2> HIDE DEF r
    <2>1. n \in User /\ RowOK(u, n) /\ Later(u, r, n)
      BY <1>2 DEF User, RowOK, Later, Roles
    <2>2. n # NoRow
      BY <2>1, AccountsAssumption
    <2>3. Becomes(s, Put(x, u, n))
      BY <1>5
    <2> HIDE DEF n
    <2>4. QED
      BY <1>1, <1>2, <1>3, <2>1, <2>2, <2>3, PutStep DEF r
  <1>6. CASE Becomes(s, [Put(x, u, r) EXCEPT !.pc = "claiming", !.at = u])
    <2> DEFINE z == Put(x, u, r)
               y == [z EXCEPT !.pc = "claiming", !.at = u]
    <2>1. Reaches(x, z)
      BY <1>2, <1>4, LaterItself, PutReaches
    <2>2. z.seen[u] # NoRow /\ z.now[u] = r
      <3>1. x \in SessionStates
        BY <1>4 DEF Good
      <3>2. /\ x.seen \in [Ids -> User \cup {NoRow}]
            /\ x.now \in [Ids -> User \cup {NoRow}]
        BY <3>1 DEF SessionStates
      <3>3. /\ z.seen = [x.seen EXCEPT ![u] = IF x.now[u] # NoRow THEN x.seen[u] ELSE users[u]]
            /\ z.now = [x.now EXCEPT ![u] = r]
        BY <1>2, <1>4, <3>1, PutFields
      <3>4. x.now[u] # NoRow => x.seen[u] # NoRow
        BY <1>2, <1>4, ReadRow
      <3> HIDE DEF z
      <3>5. QED
        BY <1>1, <3>2, <3>3, <3>4 DEF Read
    <2> HIDE DEF z, r
    <2>3. z \in SessionStates
      BY <2>1 DEF Reaches, Good
    <2>4. /\ y \in SessionStates /\ y.pc = "claiming" /\ y.at = u
          /\ y.who = z.who /\ y.seen = z.seen /\ y.now = z.now
      BY <2>3 DEF SessionStates, PCs
    <2>5. Becomes(s, y)
      BY <1>6 DEF z, r
    <2> HIDE DEF y
    <2>6. \A v \in Ids : Sound(v, y.seen[v], y.now[v], users[v], v \in fresh')
      BY <1>1, <2>1, <2>4 DEF Reaches, Good
    <2>7. \A v \in Ids : Inserts(y, v) => Inserts(x, v)
      BY <2>1, <2>4 DEF Reaches, Inserts
    <2>8. \A v \in Ids : y.seen[v] # NoRow \/ y.now[v] # NoRow =>
            users[v] # NoRow \/ x.seen[v] # NoRow \/ x.now[v] # NoRow
      BY <2>1, <2>4 DEF Reaches
    <2>9. WhoSound(y)
      BY <1>1, <1>2, <1>4, <2>1, <2>2, <2>4 DEF WhoSound, Reaches
    <2>10. \A v \in Ids : y.seen[v] # NoRow \/ y.now[v] # NoRow =>
              \/ users[v] # NoRow \/ v \in fresh
              \/ sess[s].seen[v] # NoRow \/ sess[s].now[v] # NoRow
      BY <2>8
    <2>11. \A v \in Ids : Inserts(y, v) => v \in fresh \/ Inserts(sess[s], v)
      BY <2>7
    <2>12. sess' = [sess EXCEPT ![s] = y]
      BY <2>5 DEF Becomes
    <2>13. QED
      BY <1>1, <1>3, <2>4, <2>6, <2>9, <2>10, <2>11, <2>12, LocalStep
  <1>7. QED
    BY <1>5, <1>6 DEF OpenInvite

\* A claimed row, and a duplicate that is folded, were created for students.
LEMMA BindInviteInv ==
  ASSUME AInv, NEW s \in Sessions, BindInvite(s)
  PROVE  AInv'
  <1> DEFINE x == sess[s]
             a == x.at
             r == Claimed(x.now[a], x.who)
             y == Put(x, a, r)
  <1>1. /\ x.pc = "claiming"
        /\ users' = users /\ fresh' = fresh /\ requests' = requests /\ tokens' = tokens
    BY DEF BindInvite
  <1>2. TypeOK /\ RowsSound /\ Good(x) /\ WhoSound(x)
    BY GoodSession DEF AInv
  <1>3. /\ a \in Ids /\ x.seen[a] # NoRow /\ x.now[a] # NoRow
        /\ Made[a] = "STUDENT" /\ x.who \in People
    BY <1>1, <1>2 DEF WhoSound
  <1>4. Readable(x, a) /\ Read(x, a) = x.now[a]
    BY <1>3 DEF Readable, Read
  <1>5. Read(x, a) \in User /\ RowOK(a, Read(x, a))
    BY <1>2, <1>3, <1>4, ReadRow
  <1>6. r \in User /\ RowOK(a, r) /\ Later(a, Read(x, a), r)
    BY <1>3, <1>4, <1>5 DEF Claimed, User, RowOK, Later, Roles
  <1>7. r # NoRow
    BY <1>6, AccountsAssumption
  <1>8. tokens' \in [Tokens -> TokenStates]
    BY <1>1 DEF AInv, TypeOK
  <1>9. Reaches(x, y)
    <2> HIDE DEF r
    <2>1. QED
      BY <1>2, <1>3, <1>4, <1>6, <1>7, PutReaches
  <1>10. CASE Becomes(s, y)
    <2> HIDE DEF y
    <2>1. QED
      BY <1>1, <1>8, <1>9, <1>10, ReachesStep
  <1>11. ASSUME NEW d \in Ids, d # a, users[d] # NoRow, Read(x, d).role = "STUDENT",
                Becomes(s, Put(y, d, Folded(Read(x, d))))
         PROVE  AInv'
    <2> DEFINE f == Folded(Read(x, d))
               z == Put(y, d, f)
    <2>1. Read(x, d) \in User /\ RowOK(d, Read(x, d)) /\ Made[d] = "STUDENT"
      BY <1>11, InHandler, AccountsAssumption DEF RowOK, Roles
    <2>2. f \in User /\ RowOK(d, f) /\ Later(d, Read(x, d), f)
      BY <1>11, <2>1, AccountsAssumption DEF Folded, User, RowOK, Later, Roles
    <2>3. f # NoRow
      BY <2>2, AccountsAssumption
    <2>4. y.now[d] = x.now[d]
      <3>1. x \in SessionStates
        BY <1>2 DEF Good
      <3>2. y.now = [x.now EXCEPT ![a] = r]
        BY <3>1 DEF Put, SessionStates
      <3> HIDE DEF r
      <3>3. x.now \in [Ids -> User \cup {NoRow}]
        BY <3>1 DEF SessionStates
      <3> HIDE DEF y
      <3>4. QED
        BY <1>11, <3>2, <3>3
    <2> HIDE DEF y, f
    <2>5. Read(y, d) = Read(x, d)
      BY <2>4 DEF Read
    <2>6. Readable(y, d) /\ Good(y)
      BY <1>9, <1>11 DEF Readable, Reaches
    <2>7. Reaches(y, z)
      BY <1>2, <1>9, <2>2, <2>3, <2>5, <2>6, PutReaches
    <2>8. Becomes(s, z)
      BY <1>11 DEF f
    <2> HIDE DEF z
    <2>9. Reaches(x, z)
      BY <1>9, <2>7, ReachesTransitive
    <2>10. QED
      BY <1>1, <1>8, <2>7, <2>8, <2>9, ReachesStep
  <1>12. QED
    BY <1>10, <1>11 DEF BindInvite, Holders

-----------------------------------------------------------------------------
(* The commit.                                                             *)

\* Writing the changed columns of a row over the row as it is now.
LEMMA MergedRow ==
  ASSUME NEW u \in Ids, NEW a \in User, NEW b \in User, NEW d \in User,
         Later(u, a, b), RowOK(u, b), RowOK(u, d)
  PROVE  LET m == Merged(a, b, d)
         IN /\ m \in User /\ RowOK(u, m) /\ Later(u, d, m)
            /\ m.role # d.role => b.role # a.role
            /\ m.tg # d.tg => b.tg # a.tg /\ m.tg = b.tg
  <1> DEFINE m == Merged(a, b, d)
  <1>1. m \in User
    BY DEF Merged, Column, User
  <1>2. /\ m.role # d.role => m.role = b.role /\ b.role # a.role
        /\ m.tg # d.tg => m.tg = b.tg /\ b.tg # a.tg
        /\ m.token \in {b.token, d.token}
    BY DEF Merged, Column
  <1> HIDE DEF m
  <1>3. b # NoRow /\ d # NoRow
    BY AccountsAssumption
  <1>4. RowOK(u, m) /\ Later(u, d, m)
    BY <1>2, <1>3 DEF RowOK, Later
  <1>5. QED
    BY <1>1, <1>2, <1>4 DEF m

\* What a commit makes of one row: it changes as it may, is deleted as it may
\* be, or is inserted by this session.
LEMMA FlushedRow ==
  ASSUME AInv, NEW s \in Sessions, RowsThere(sess[s]), NEW u \in Ids
  PROVE  LET x == sess[s]
             f == Flushed(x, u)
         IN /\ f \in User \cup {NoRow} /\ RowOK(u, f)
            /\ users[u] # NoRow /\ f # NoRow =>
                 /\ Later(u, users[u], f)
                 /\ f.role # users[u].role =>
                      x.seen[u] # NoRow /\ x.now[u] # NoRow /\ x.now[u].role # x.seen[u].role
                 /\ f.tg # users[u].tg =>
                      x.seen[u] # NoRow /\ x.now[u] # NoRow /\ x.now[u].tg # x.seen[u].tg
            /\ users[u] # NoRow /\ f = NoRow => Made[u] # "ADMIN"
            /\ users[u] = NoRow /\ f # NoRow =>
                 Inserts(x, u) /\ f = x.now[u] /\ Insertable(u, f) /\ u \notin fresh
  <1> DEFINE x == sess[s]
             f == Flushed(x, u)
             a == x.seen[u]
             b == x.now[u]
             d == users[u]
  <1>1. Good(x) /\ RowsSound /\ TypeOK
    BY GoodSession DEF AInv
  <1>2. /\ a \in User \cup {NoRow} /\ b \in User \cup {NoRow} /\ d \in User \cup {NoRow}
        /\ RowOK(u, b) /\ RowOK(u, d) /\ Sound(u, a, b, d, u \in fresh)
    BY <1>1 DEF Good, SessionStates, TypeOK, RowsSound, Sound
  <1>3. CASE b = a
    <2>1. f = d
      BY <1>3 DEF Flushed
    <2>2. QED
      BY <1>2, <2>1, LaterItself
  <1>4. CASE b # a /\ a = NoRow
    <2>1. f = b
      BY <1>4 DEF Flushed
    <2>2. QED
      BY <1>2, <1>4, <2>1 DEF Sound, Inserts
  <1>5. CASE b # a /\ b = NoRow
    <2>1. f = NoRow
      BY <1>5 DEF Flushed
    <2>2. QED
      BY <1>2, <1>5, <2>1 DEF RowOK, Sound
  <1>6. CASE b # a /\ a # NoRow /\ b # NoRow
    <2>1. d # NoRow
      BY <1>6 DEF RowsThere
    <2>2. f = Merged(a, b, d)
      BY <1>6 DEF Flushed
    <2>3. a \in User /\ b \in User /\ d \in User /\ Later(u, a, b)
      BY <1>2, <1>6, <2>1 DEF Sound
    <2>4. /\ f \in User /\ RowOK(u, f) /\ Later(u, d, f)
          /\ f.role # d.role => b.role # a.role
          /\ f.tg # d.tg => b.tg # a.tg
      <3> HIDE DEF a, b, d, f
      <3>1. QED
        BY <1>2, <2>2, <2>3, MergedRow
    <2>5. f # NoRow
      BY <2>4, AccountsAssumption
    <2>6. QED
      BY <1>6, <2>1, <2>4, <2>5
  <1>7. QED
    BY <1>3, <1>4, <1>5, <1>6

\* A commit preserves what the other sessions know about the rows.
LEMMA CommitInv ==
  ASSUME AInv, NEW s \in Sessions, Commit(s)
  PROVE  AInv'
  <1> DEFINE x == sess[s]
  <1>1. /\ RowsThere(x)
        /\ users' = [u \in Ids |-> Flushed(x, u)]
        /\ Distinct(users')
        /\ sess' = [sess EXCEPT ![s] = Idle]
        /\ requests' = IF x.verdict # x.was
                       THEN [requests EXCEPT ![x.of] = x.verdict] ELSE requests
        /\ fresh' = fresh /\ tokens' = tokens
    BY DEF Commit, Becomes, Unique
  <1>2. TypeOK /\ RowsSound /\ WhoSound(x)
    BY DEF AInv
  <1>3. /\ Idle \in SessionStates
        /\ Idle.seen = Unread /\ Idle.now = Unread
        /\ WhoSound(Idle)
    BY SessionFields DEF Idle, PCs, AllOps
  <1>4. \A u \in Ids : Idle.seen[u] = NoRow /\ Idle.now[u] = NoRow
    BY <1>3 DEF Unread
  <1> HIDE DEF Idle
  <1>5. /\ sess'[s] = Idle
        /\ \A o \in Sessions : o # s => sess'[o] = sess[o]
    BY <1>1, <1>2 DEF TypeOK
  <1>6. \A u \in Ids : users'[u] = Flushed(x, u)
    BY <1>1
  <1>7. requests' \in [People -> RequestStatus]
    <2>1. x.verdict \in RequestStatus
      BY <1>2 DEF TypeOK, SessionStates
    <2>2. QED
      BY <1>1, <1>2, <2>1 DEF TypeOK
  <1>8. TypeOK'
    <2>1. users' \in [Ids -> User \cup {NoRow}]
      BY <1>1, FlushedRow
    <2>2. QED
      BY <1>1, <1>2, <1>3, <1>7, <2>1 DEF TypeOK
  <1>9. RowsSound'
    <2>1. ASSUME NEW u \in Ids
          PROVE  RowOK(u, users'[u]) /\ (users'[u] # NoRow => u \notin fresh)
      BY <1>1, <1>2, <1>6, FlushedRow DEF RowsSound
    <2>2. QED
      BY <1>1, <2>1 DEF RowsSound
  <1>10. MapsSound'
    <2>1. ASSUME NEW o \in Sessions, NEW u \in Ids
          PROVE  Sound(u, sess'[o].seen[u], sess'[o].now[u], users'[u], u \in fresh)
      <3>1. CASE o = s
        BY <1>4, <1>5, <3>1 DEF Sound, RowOK
      <3>2. CASE o # s
        <4> DEFINE a == sess[o].seen[u]
                   b == sess[o].now[u]
        <4>1. Sound(u, a, b, users[u], u \in fresh)
          BY DEF AInv, MapsSound
        <4>2. Inserts(x, u) => a = NoRow /\ b = NoRow
          BY <3>2 DEF AInv, InsertsApart
        <4>3. users[u] = NoRow /\ users'[u] # NoRow => Inserts(x, u)
          BY <1>1, <1>6, FlushedRow
        <4> HIDE DEF a, b
        <4>4. a = NoRow /\ b # NoRow => users'[u] = NoRow
          BY <4>1, <4>2, <4>3 DEF Sound
        <4>5. Sound(u, a, b, users'[u], u \in fresh)
          BY <4>1, <4>4 DEF Sound
        <4>6. QED
          BY <1>5, <3>2, <4>5 DEF a, b
      <3>3. QED
        BY <3>1, <3>2
    <2>2. QED
      BY <1>1, <2>1 DEF MapsSound
  <1>11. InsertsApart'
    <2>1. ASSUME NEW o \in Sessions, NEW q \in Sessions, NEW u \in Ids, o # q,
                 Inserts(sess'[o], u)
          PROVE  sess'[q].seen[u] = NoRow /\ sess'[q].now[u] = NoRow
      BY <1>4, <1>5, <2>1 DEF AInv, InsertsApart, Inserts
    <2>2. QED
      BY <2>1 DEF InsertsApart
  <1>12. ASSUME NEW o \in Sessions
         PROVE  WhoSound(sess'[o])
    BY <1>3, <1>5 DEF AInv
  <1>13. QED
    BY <1>7, <1>8, <1>9, <1>10, <1>11, <1>12 DEF AInv

-----------------------------------------------------------------------------
(* The theorems.                                                           *)

\* The invariant holds when the bot starts.
LEMMA InitInv == Init => AInv
  <1> SUFFICES ASSUME Init PROVE AInv
    OBVIOUS
  <1>1. /\ Idle \in SessionStates
        /\ Idle.seen = Unread /\ Idle.now = Unread
        /\ WhoSound(Idle)
    BY SessionFields DEF Idle, PCs, AllOps
  <1>2. \A u \in Ids : Idle.seen[u] = NoRow /\ Idle.now[u] = NoRow
    BY <1>1 DEF Unread
  <1> HIDE DEF Idle
  <1>3. \A s \in Sessions : sess[s] = Idle
    BY DEF Init
  <1>4. Startable(users) /\ fresh = {u \in Ids : users[u] = NoRow}
    BY AccountsAssumption DEF Init
  <1>5. TypeOK /\ RowsSound
    BY <1>1, <1>3, <1>4
    DEF Init, TypeOK, RequestStatus, TokenStates, Distinct, Startable, RowsSound, RowOK
  <1>6. MapsSound
    BY <1>2, <1>3 DEF MapsSound, Sound, RowOK
  <1>7. InsertsApart
    BY <1>2, <1>3 DEF InsertsApart
  <1>8. QED
    BY <1>1, <1>3, <1>4, <1>5, <1>6, <1>7 DEF AInv

\* Every step of every handler preserves the invariant.
LEMMA NextInv == AInv /\ [Next]_vars => AInv'
  <1> SUFFICES ASSUME AInv, [Next]_vars
               PROVE  AInv'
    OBVIOUS
  <1>1. CASE UNCHANGED vars
    BY <1>1 DEF vars, AInv, TypeOK, RowsSound, MapsSound, InsertsApart
  <1>2. ASSUME NEW t \in Tokens, Expire(t)
        PROVE  AInv'
    BY <1>2, ExpireInv
  <1>3. ASSUME NEW s \in Sessions, Enter(s)
        PROVE  AInv'
    <2>1. Ops \subseteq AllOps
      BY AccountsAssumption
    <2>2. QED
      BY <1>3, <2>1, EnterKnownInv, EnterNewAdminInv, EnterUnknownInv DEF Enter
  <1>4. ASSUME NEW s \in Sessions, Work(s)
        PROVE  AInv'
    BY <1>4, QuietEndsInv, BindInviteInv, CreateStudentInv, EarlyReturnInv, CommitInv,
       OpenInviteInv, NewInviteInv, RevokeInviteInv, UnlinkTelegramInv,
       ToggleActiveInv, DeleteUserInv, LinkTelegramInv, ApproveInv, RejectInv,
       AddAdvisorInv, EditAdvisorInv
    DEF Work
  <1>5. QED
    BY <1>1, <1>2, <1>3, <1>4 DEF Next

\* The invariant holds whatever handlers overlap.
LEMMA AInvariant == Spec => []AInv
  BY InitInv, NextInv, PTL DEF Spec

\* Whatever handlers overlap, fail or write over each other, every row stays well
\* formed and no two rows share a telegram id.
THEOREM AccountsTyped == Spec => []TypeOK
  <1>1. AInv => TypeOK
    BY DEF AInv
  <1>2. QED
    BY <1>1, AInvariant, PTL

\* Only a commit changes the users table.
LEMMA OnlyCommits ==
  ASSUME [Next]_vars, users' # users
  PROVE  \E s \in Sessions : Commit(s)
  <1>1. CASE UNCHANGED vars
    BY <1>1 DEF vars
  <1>2. ASSUME NEW t \in Tokens, Expire(t)
        PROVE  users' = users
    BY <1>2 DEF Expire
  <1>3. ASSUME NEW s \in Sessions, Enter(s)
        PROVE  users' = users
    BY <1>3 DEF Enter, EnterKnown, EnterNewAdmin, EnterUnknown
  <1>4. ASSUME NEW s \in Sessions, Work(s), ~Commit(s)
        PROVE  users' = users
    BY <1>4
    DEF Work, RecordVisit, BindInvite, CreateStudent, EarlyReturn, Rollback,
        OpenInvite, NewInvite, RevokeInvite, UnlinkTelegram, ToggleActive,
        DeleteUser, LinkTelegram, Approve, Reject, AddAdvisor, EditAdvisor
  <1>5. QED
    BY <1>1, <1>2, <1>3, <1>4 DEF Next

-----------------------------------------------------------------------------
(* What a handler leaves in its session: an approval comes with an account, *)
(* only a caller in ADMIN_IDS is promoted, only an edit moves a staff       *)
(* member's telegram id, and no connected row gets an invite.               *)

\* A handler that has decided is about to commit, and the one that approved a
\* request inserts the account too.
Granting(x) ==
  /\ x.pc # "commit" => x.verdict = x.was
  /\ x.verdict = "approved" /\ x.was # "approved"
       => \E u \in Ids : Inserts(x, u) /\ x.now[u].tg = x.of

EditOps == {"edit_advisor", "edit_crossed"}

\* Who may have changed what in an identity map: the caller's row, which stays, is
\* promoted for ADMIN_IDS, and an edit that is about to commit moves telegram ids.
Answers(x) ==
  /\ x.me \in Ids => x.now[x.me] # NoRow
  /\ \A u \in Ids : x.seen[u] # NoRow /\ x.now[u] # NoRow =>
       /\ x.now[u].role # x.seen[u].role => u = x.me /\ x.who \in EnvAdmins
       /\ Made[u] # "STUDENT" /\ x.now[u].tg # x.seen[u].tg
            => x.op \in EditOps /\ x.pc = "commit"
GInv == \A s \in Sessions : Granting(sess[s]) /\ Answers(sess[s])

\* The account that somebody in ADMIN_IDS uses in session x.
Using(x) ==
  {u \in Ids : x.pc # "idle" /\ x.me = u /\ x.who \in EnvAdmins /\ x.seen[u] # NoRow}

\* A row that is connected has no invite, and a student who became an admin is
\* connected.
Clean(u, r) ==
  r # NoRow =>
    /\ r.tg # NoOne => r.token = NoToken
    /\ Made[u] = "STUDENT" /\ r.role # "STUDENT" => r.tg # NoOne
CleanRows == \A u \in Ids : Clean(u, users[u])

\* What a handler has read is still committed, and it leaves clean rows.
CleanMap(x) ==
  \A u \in Ids : (x.seen[u] # NoRow => x.seen[u] = users[u]) /\ Clean(u, x.now[u])

\* A step of handler s that commits nothing.
Leaves(s) ==
  /\ \A t \in Sessions : t # s => sess'[t] = sess[t]
  /\ Granting(sess'[s]) /\ Answers(sess'[s])
  /\ \A u \in Using(sess'[s]) :
       u \in Using(sess[s]) \/ (users[u] # NoRow /\ users[u].tg \in EnvAdmins)
  /\ sess'[s].pc = "idle" => sess'[s] = Idle
  /\ Active(s) => sess'[s].op \in {sess[s].op, "visit"}
  /\ CleanRows /\ CleanMap(sess[s]) /\ sess[s].op # "edit_crossed"
       => CleanMap(sess'[s])

\* The shape of a session record, whatever its rows are.
Shaped(x) ==
  /\ DOMAIN x = {"pc", "op", "who", "me", "at", "seen", "now", "of", "was", "verdict"}
  /\ DOMAIN x.seen = Ids /\ DOMAIN x.now = Ids

LEMMA SessionShape == \A x \in SessionStates : Shaped(x)
  BY DEF SessionStates, Shaped

\* Put changes the row and the program counter.
LEMMA PutShape ==
  ASSUME NEW x, Shaped(x), NEW u \in Ids, NEW r
  PROVE  LET y == Put(x, u, r)
         IN /\ Shaped(y) /\ y.pc = "commit" /\ y.verdict = x.verdict /\ y.was = x.was
            /\ y.me = x.me /\ y.who = x.who /\ y.op = x.op
            /\ y.now[u] = r
            /\ y.seen[u] = IF x.now[u] # NoRow THEN x.seen[u] ELSE users[u]
            /\ \A v \in Ids : v # u => y.now[v] = x.now[v] /\ y.seen[v] = x.seen[v]
  <1> DEFINE sn == [x.seen EXCEPT ![u] = IF x.now[u] # NoRow THEN x.seen[u] ELSE users[u]]
             nw == [x.now EXCEPT ![u] = r]
             y == Put(x, u, r)
  <1>1. y = [x EXCEPT !.pc = "commit", !.seen = sn, !.now = nw]
    BY DEF Put
  <1>2. /\ DOMAIN sn = Ids /\ DOMAIN nw = Ids /\ nw[u] = r
        /\ sn[u] = IF x.now[u] # NoRow THEN x.seen[u] ELSE users[u]
        /\ \A v \in Ids : v # u => nw[v] = x.now[v] /\ sn[v] = x.seen[v]
    BY DEF Shaped
  <1> HIDE DEF sn, nw
  <1>3. /\ DOMAIN y = DOMAIN x /\ y.pc = "commit" /\ y.verdict = x.verdict /\ y.was = x.was
        /\ y.me = x.me /\ y.who = x.who /\ y.op = x.op
        /\ y.seen = sn /\ y.now = nw
    BY <1>1 DEF Shaped
  <1> HIDE DEF y
  <1>4. QED
    BY <1>2, <1>3 DEF Shaped, y

\* A handler that puts a clean row into a clean map.
LEMMA PutClean ==
  ASSUME NEW x, Shaped(x), NEW u \in Ids, NEW r, CleanMap(x), Clean(u, r)
  PROVE  CleanMap(Put(x, u, r))
  <1> DEFINE y == Put(x, u, r)
  <1>1. /\ y.now[u] = r /\ y.seen[u] \in {x.seen[u], users[u]}
        /\ \A v \in Ids : v # u => y.now[v] = x.now[v] /\ y.seen[v] = x.seen[v]
    BY PutShape
  <1> HIDE DEF y
  <1>2. CleanMap(y)
    BY <1>1 DEF CleanMap
  <1>3. QED
    BY <1>2 DEF y

\* What a handler reads from clean rows is clean.
LEMMA ReadClean ==
  ASSUME CleanRows, NEW x, CleanMap(x), NEW u \in Ids
  PROVE  Clean(u, Read(x, u))
  BY DEF CleanRows, CleanMap, Read

\* A handler that keeps the roles, and lets only an edit move a staff member's
\* telegram id.
LEMMA PutAnswers ==
  ASSUME NEW x, Shaped(x), Answers(x), NEW u \in Ids, NEW r,
         r = NoRow => u # x.me,
         r # NoRow => r.role = Read(x, u).role,
         r # NoRow /\ Made[u] # "STUDENT" => r.tg = Read(x, u).tg \/ x.op \in EditOps
  PROVE  /\ Answers(Put(x, u, r))
         /\ x.me \in Ids => Put(x, u, r).seen[x.me] = x.seen[x.me]
  <1> DEFINE y == Put(x, u, r)
  <1>1. /\ y.pc = "commit" /\ y.me = x.me /\ y.who = x.who /\ y.op = x.op
        /\ y.now[u] = r
        /\ y.seen[u] = IF x.now[u] # NoRow THEN x.seen[u] ELSE users[u]
        /\ \A v \in Ids : v # u => y.now[v] = x.now[v] /\ y.seen[v] = x.seen[v]
    BY PutShape
  <1> HIDE DEF y
  <1>2. y.me \in Ids => y.now[y.me] # NoRow /\ y.seen[y.me] = x.seen[x.me]
    BY <1>1 DEF Answers
  <1>3. ASSUME NEW v \in Ids, y.seen[v] # NoRow, y.now[v] # NoRow
        PROVE  /\ y.now[v].role # y.seen[v].role => v = y.me /\ y.who \in EnvAdmins
               /\ Made[v] # "STUDENT" /\ y.now[v].tg # y.seen[v].tg => y.op \in EditOps
    <2>1. CASE v # u
      BY <1>1, <1>3, <2>1 DEF Answers
    <2>2. CASE v = u /\ x.now[u] = NoRow
      BY <1>1, <1>3, <2>2 DEF Read
    <2>3. CASE v = u /\ x.now[u] # NoRow
      <3>1. y.seen[v] = x.seen[u] /\ x.seen[u] # NoRow /\ Read(x, u) = x.now[u]
        BY <1>1, <1>3, <2>3 DEF Read
      <3>2. r # NoRow /\ y.now[v] = r
        BY <1>1, <1>3, <2>3
      <3>3. /\ x.now[u].role # x.seen[u].role => u = x.me /\ x.who \in EnvAdmins
            /\ Made[u] # "STUDENT" /\ x.now[u].tg # x.seen[u].tg => x.op \in EditOps
        BY <2>3, <3>1 DEF Answers
      <3>4. QED
        BY <1>1, <2>3, <3>1, <3>2, <3>3
    <2>4. QED
      BY <2>1, <2>2, <2>3
  <1>4. Answers(y)
    BY <1>1, <1>2, <1>3 DEF Answers
  <1>5. QED
    BY <1>1, <1>2, <1>4 DEF y

\* A handler that puts a row and decides nothing.
LEMMA PutLeaves ==
  ASSUME TypeOK, GInv, NEW s \in Sessions, sess[s].pc \notin {"commit", "idle"},
         NEW u \in Ids, NEW r,
         Becomes(s, Put(sess[s], u, r)),
         r = NoRow => u # sess[s].me,
         r # NoRow => r.role = Read(sess[s], u).role,
         r # NoRow /\ Made[u] # "STUDENT" =>
           r.tg = Read(sess[s], u).tg \/ sess[s].op \in EditOps,
         CleanRows /\ CleanMap(sess[s]) /\ sess[s].op # "edit_crossed" => Clean(u, r)
  PROVE  Leaves(s)
  <1> DEFINE y == Put(sess[s], u, r)
  <1>1. /\ sess'[s] = y
        /\ \A t \in Sessions : t # s => sess'[t] = sess[t]
    BY DEF Becomes, TypeOK
  <1>2. Shaped(sess[s]) /\ Answers(sess[s])
    BY SessionShape DEF TypeOK, GInv
  <1>3. /\ y.pc = "commit" /\ y.verdict = y.was
        /\ y.me = sess[s].me /\ y.who = sess[s].who /\ y.op = sess[s].op
    BY <1>2, PutShape DEF GInv, Granting
  <1>4. CleanRows /\ CleanMap(sess[s]) /\ sess[s].op # "edit_crossed" => CleanMap(y)
    BY <1>2, PutClean
  <1>5. Answers(y) /\ (y.me \in Ids => y.seen[y.me] = sess[s].seen[sess[s].me])
    BY <1>2, <1>3, PutAnswers
  <1> HIDE DEF y
  <1>6. \A v \in Using(y) : v \in Using(sess[s])
    BY <1>3, <1>5 DEF Using
  <1>7. QED
    BY <1>1, <1>3, <1>4, <1>5, <1>6 DEF Leaves, Granting

\* A handler that inserts a row, and approves at most the request of its person.
LEMMA InsertLeaves ==
  ASSUME AInv, GInv, NEW s \in Sessions, NEW z \in SessionStates, NEW r,
         z.seen = sess[s].seen, z.now = sess[s].now, Insert(s, z, r), r # NoRow,
         z.me = sess[s].me, z.who = sess[s].who, z.op = sess[s].op,
         sess[s].pc # "idle", \A u \in Ids : Made[u] = r.role => Clean(u, r),
         z.verdict = "approved" /\ z.was # "approved" => r.tg = z.of
  PROVE  Leaves(s)
  <1>1. PICK u \in fresh :
          /\ Made[u] = r.role
          /\ Becomes(s, [z EXCEPT !.pc = "commit", !.now = [@ EXCEPT ![u] = r]])
    BY DEF Insert
  <1>2. u \in Ids
    BY DEF AInv, TypeOK
  <1> DEFINE nw == [z.now EXCEPT ![u] = r]
             y == [z EXCEPT !.pc = "commit", !.now = nw]
  <1>3. nw[u] = r /\ \A v \in Ids : v # u => nw[v] = z.now[v]
    BY <1>2 DEF SessionStates
  <1>4. z.seen[u] = NoRow
    BY <1>2 DEF AInv, MapsSound, Sound
  <1>5. /\ sess'[s] = y
        /\ \A t \in Sessions : t # s => sess'[t] = sess[t]
    BY <1>1 DEF Becomes, AInv, TypeOK
  <1> HIDE DEF nw
  <1>6. /\ y.pc = "commit" /\ y.now = nw /\ y.seen = z.seen
        /\ y.of = z.of /\ y.was = z.was /\ y.verdict = z.verdict
        /\ y.me = z.me /\ y.who = z.who /\ y.op = z.op
    BY DEF SessionStates
  <1> HIDE DEF y
  <1>7. Granting(y)
    BY <1>2, <1>3, <1>4, <1>6 DEF Granting, Inserts
  <1>8. CleanMap(sess[s]) => CleanMap(y)
    BY <1>1, <1>2, <1>3, <1>6 DEF CleanMap
  <1>9. Answers(y)
    BY <1>2, <1>3, <1>4, <1>6 DEF GInv, Answers
  <1>10. \A v \in Using(y) : v \in Using(sess[s])
    BY <1>6 DEF Using
  <1>11. QED
    BY <1>5, <1>6, <1>7, <1>8, <1>9, <1>10 DEF Leaves

\* A handler that changes none of its rows.
LEMMA SameLeaves ==
  ASSUME TypeOK, GInv, NEW s \in Sessions, NEW y, Becomes(s, y), y.pc # "idle",
         sess[s].pc \notin {"commit", "idle"},
         y.seen = sess[s].seen, y.now = sess[s].now, Granting(y),
         y.me = sess[s].me, y.who = sess[s].who, y.op \in {sess[s].op, "visit"}
  PROVE  Leaves(s)
  <1>1. /\ sess'[s] = y
        /\ \A t \in Sessions : t # s => sess'[t] = sess[t]
    BY DEF Becomes, TypeOK
  <1>2. Answers(y) /\ \A v \in Using(y) : v \in Using(sess[s])
    BY DEF GInv, Answers, Using
  <1>3. QED
    BY <1>1, <1>2 DEF Leaves, CleanMap

LEMMA IdleLeaves ==
  ASSUME TypeOK, NEW s \in Sessions, Becomes(s, Idle)
  PROVE  Leaves(s)
  <1>1. /\ sess'[s] = Idle
        /\ \A t \in Sessions : t # s => sess'[t] = sess[t]
    BY DEF Becomes, TypeOK
  <1>2. /\ Idle.verdict = "none" /\ Idle.was = "none" /\ Idle.pc = "idle"
        /\ Idle.seen = Unread /\ Idle.now = Unread
        /\ Idle.me = NoId /\ Idle.op = "visit"
    BY DEF Idle, Session
  <1>3. Granting(Idle) /\ CleanMap(Idle) /\ Answers(Idle) /\ Using(Idle) = {}
    BY <1>2, AccountsAssumption DEF Granting, CleanMap, Clean, Unread, Answers, Using
  <1>4. QED
    BY <1>1, <1>2, <1>3 DEF Leaves

\* The middleware leaves the sender's row.
LEMMA EnterLeaves ==
  ASSUME AInv, NEW s \in Sessions, NEW p \in People, NEW op \in AllOps,
         EnterKnown(s, p, op) \/ EnterNewAdmin(s, p, op) \/ EnterUnknown(s, p, op)
  PROVE  Leaves(s) /\ (~Active(s) => sess'[s].op = op)
  <1> DEFINE pc == IF op = "visit" THEN "commit" ELSE "entered"
  <1>1. pc \in {"entered", "commit"}
    OBVIOUS
  <1>2. /\ users \in [Ids -> User \cup {NoRow}] /\ fresh \subseteq Ids
        /\ \A y : Becomes(s, y) =>
             sess'[s] = y /\ \A t \in Sessions : t # s => sess'[t] = sess[t]
    BY DEF AInv, TypeOK, Becomes
  <1>8. ~Active(s)
    BY DEF EnterKnown, EnterNewAdmin, EnterUnknown
  <1>3. Unread \in [Ids -> User \cup {NoRow}] /\ \A v \in Ids : Unread[v] = NoRow
    BY DEF Unread
  <1>4. CASE EnterKnown(s, p, op)
    <2>1. PICK u \in Holders(p) :
            Becomes(s, [Session(pc, op, p, u)
                          EXCEPT !.seen = [@ EXCEPT ![u] = users[u]],
                                 !.now = [@ EXCEPT ![u] = Promote(users[u], p)]])
      BY <1>4 DEF EnterKnown
    <2>2. u \in Ids /\ users[u] \in User /\ users[u] # NoRow /\ users[u].tg = p
      BY <1>2, AccountsAssumption DEF Holders
    <2> DEFINE r == Promote(users[u], p)
               sn == [Unread EXCEPT ![u] = users[u]]
               nw == [Unread EXCEPT ![u] = r]
    <2>3. /\ r \in User /\ (Clean(u, users[u]) => Clean(u, r))
          /\ r.tg = users[u].tg
          /\ r.role # users[u].role => p \in EnvAdmins
      <3>1. p # NoOne
        BY AccountsAssumption
      <3>2. /\ r \in User /\ r.tg = users[u].tg /\ r.token = users[u].token
            /\ r.role # users[u].role => p \in EnvAdmins
        BY <2>2 DEF Promote, User, Roles
      <3>3. QED
        BY <2>2, <3>1, <3>2 DEF Clean
    <2> HIDE DEF r
    <2>4. /\ sn \in [Ids -> User \cup {NoRow}] /\ nw \in [Ids -> User \cup {NoRow}]
          /\ sn[u] = users[u] /\ nw[u] = r
          /\ \A v \in Ids : v # u => sn[v] = NoRow /\ nw[v] = NoRow
      BY <1>2, <1>3, <2>2, <2>3
    <2> DEFINE y == [Session(pc, op, p, u) EXCEPT !.seen = sn, !.now = nw]
    <2>5. Becomes(s, y)
      BY <2>1 DEF Session, r
    <2>6. y.pc = pc /\ y.verdict = y.was /\ y.me = u /\ y.who = p /\ y.op = op
          /\ y.seen = sn /\ y.now = nw
      <3> HIDE DEF sn, nw, pc
      <3>1. Entered(y, pc, op, p, u, sn, nw)
        BY DEF Entered
      <3> HIDE DEF y
      <3>2. QED
        BY <1>1, <2>2, <2>4, <3>1, SessionWith
    <2> HIDE DEF y, sn, nw
    <2>7. Granting(y) /\ y.pc # "idle"
      BY <1>1, <2>6 DEF Granting
    <2>8. CleanRows => CleanMap(y)
      BY <2>2, <2>3, <2>4, <2>6 DEF CleanMap, CleanRows, Clean
    <2>9. r # NoRow
      BY <2>3, AccountsAssumption
    <2>10. Answers(y) /\ \A v \in Using(y) : users[v] # NoRow /\ users[v].tg \in EnvAdmins
      BY <2>2, <2>3, <2>4, <2>6, <2>9 DEF Answers, Using
    <2>11. QED
      BY <1>2, <1>8, <2>5, <2>6, <2>7, <2>8, <2>10 DEF Leaves
  <1>5. CASE EnterNewAdmin(s, p, op)
    <2> DEFINE r == NewUser("ADMIN", p, NoToken)
    <2>1. PICK u \in fresh :
            /\ Made[u] = "ADMIN"
            /\ Becomes(s, [Session(pc, op, p, u) EXCEPT !.now = [@ EXCEPT ![u] = r]])
      BY <1>5 DEF EnterNewAdmin
    <2>2. u \in Ids
      BY <1>2
    <2> DEFINE nw == [Unread EXCEPT ![u] = r]
    <2>3. r \in User /\ Clean(u, r) /\ r # NoRow
      <3>1. r \in User /\ r.token = NoToken
        BY DEF NewUser, User, Roles
      <3>2. QED
        BY <2>1, <3>1, AccountsAssumption DEF Clean
    <2> HIDE DEF r
    <2>4. /\ nw \in [Ids -> User \cup {NoRow}] /\ nw[u] = r
          /\ \A v \in Ids : v # u => nw[v] = NoRow
      BY <1>3, <2>2, <2>3
    <2> DEFINE y == [Session(pc, op, p, u) EXCEPT !.now = nw]
    <2>5. Becomes(s, y)
      BY <2>1 DEF Session
    <2>6. y.pc = pc /\ y.verdict = y.was /\ y.me = u /\ y.who = p /\ y.op = op
          /\ y.seen = Unread /\ y.now = nw
      <3> HIDE DEF nw, pc
      <3>1. Entered(y, pc, op, p, u, Unread, nw)
        BY DEF Entered
      <3> HIDE DEF y
      <3>2. QED
        BY <1>1, <1>3, <2>2, <2>4, <3>1, SessionWith
    <2> HIDE DEF y, nw
    <2>7. Granting(y) /\ y.pc # "idle"
      BY <1>1, <2>6 DEF Granting
    <2>8. CleanMap(y)
      BY <1>3, <2>2, <2>3, <2>4, <2>6 DEF CleanMap, Clean
    <2>9. Answers(y) /\ Using(y) = {}
      BY <1>3, <2>2, <2>3, <2>4, <2>6 DEF Answers, Using
    <2>10. QED
      BY <1>2, <1>8, <2>5, <2>6, <2>7, <2>8, <2>9 DEF Leaves
  <1>6. CASE EnterUnknown(s, p, op)
    <2> DEFINE y == Session(IF op = "claim" THEN "entered" ELSE "visitor", op, p, NoId)
    <2>1. Becomes(s, y)
      BY <1>6 DEF EnterUnknown
    <2>2. y.pc \in {"entered", "visitor"} /\ y.verdict = y.was /\ y.seen = Unread /\ y.now = Unread
          /\ y.op = op /\ y.me = NoId
      BY DEF Session
    <2> HIDE DEF y
    <2>3. Granting(y) /\ y.pc # "idle" /\ CleanMap(y) /\ Answers(y) /\ Using(y) = {}
      BY <1>3, <2>2, AccountsAssumption DEF Granting, CleanMap, Clean, Answers, Using
    <2>4. QED
      BY <1>2, <1>8, <2>1, <2>2, <2>3 DEF Leaves
  <1>7. QED
    BY <1>4, <1>5, <1>6

\* A handler of a student's row, or of a staff member's.
LEMMA RowHandlerLeaves ==
  ASSUME AInv, GInv, NEW s \in Sessions, NEW u \in Ids,
         \/ OpenInvite(s, u) \/ NewInvite(s, u) \/ RevokeInvite(s, u) \/ UnlinkTelegram(s, u)
         \/ ToggleActive(s, u) \/ DeleteUser(s, u)
         \/ \E p \in People : LinkTelegram(s, u, p)
         \/ \E p \in People \cup {NoOne} : EditAdvisor(s, u, p)
  PROVE  Leaves(s)
  <1> DEFINE x == sess[s]
             r == Read(x, u)
             serial == CleanRows /\ CleanMap(x) /\ x.op # "edit_crossed"
  <1>1. TypeOK /\ x \in SessionStates /\ Shaped(x) /\ Answers(x)
    BY SessionShape DEF AInv, TypeOK, GInv
  <1>2. x.pc = "entered" /\ users[u] # NoRow
    BY DEF OpenInvite, NewInvite, RevokeInvite, UnlinkTelegram, ToggleActive, DeleteUser,
           LinkTelegram, EditAdvisor, Handling, Target
  <1>3. r \in User /\ RowOK(u, r) /\ r # NoRow
    BY <1>2, InHandler
  <1>4. serial => Clean(u, r)
    BY ReadClean
  <1>5. x.verdict = x.was
    BY <1>2 DEF GInv, Granting
  <1> HIDE DEF x, r, serial
  <1>6. ASSUME NEW q, Becomes(s, Put(x, u, q)), q # NoRow, q.role = r.role,
               Made[u] # "STUDENT" => q.tg = r.tg \/ x.op \in EditOps,
               serial => Clean(u, q)
        PROVE  Leaves(s)
    BY <1>1, <1>2, <1>6, PutLeaves DEF x, r, serial
  <1>7. CASE OpenInvite(s, u)
    <2>0. Made[u] = "STUDENT"
      BY <1>2, <1>7, InHandler DEF OpenInvite, RowOK
    <2>1. CASE Becomes(s, Put(x, u, [r EXCEPT !.token = NoToken]))
      <3> DEFINE q == [r EXCEPT !.token = NoToken]
      <3>1. q \in User /\ q.role = r.role /\ (Clean(u, r) => Clean(u, q))
        BY <1>3 DEF Clean, User
      <3>2. q # NoRow
        BY <3>1, AccountsAssumption
      <3>3. Becomes(s, Put(x, u, q))
        BY <2>1
      <3> HIDE DEF q
      <3>4. QED
        BY <1>4, <1>6, <2>0, <3>1, <3>2, <3>3
    <2>2. CASE Becomes(s, [Put(x, u, r) EXCEPT !.pc = "claiming", !.at = u])
      <3> DEFINE y == Put(x, u, r)
                 z == [y EXCEPT !.pc = "claiming", !.at = u]
      <3>1. /\ Shaped(y) /\ y.verdict = y.was
            /\ y.me = x.me /\ y.who = x.who /\ y.op = x.op
        BY <1>1, <1>5, PutShape
      <3>2. serial => CleanMap(y)
        BY <1>1, <1>4, PutClean DEF serial
      <3>3. Answers(y) /\ (y.me \in Ids => y.seen[y.me] = x.seen[x.me])
        BY <1>1, <1>3, <3>1, PutAnswers DEF r
      <3>4. Becomes(s, z)
        BY <2>2
      <3> HIDE DEF y
      <3>5. /\ z.pc = "claiming" /\ z.verdict = z.was /\ z.seen = y.seen /\ z.now = y.now
            /\ z.me = x.me /\ z.who = x.who /\ z.op = x.op
        BY <3>1 DEF Shaped
      <3> HIDE DEF z
      <3>6. Granting(z) /\ (serial => CleanMap(z))
        BY <3>2, <3>5 DEF Granting, CleanMap
      <3>7. x.op \notin EditOps
        BY <1>7 DEF OpenInvite, Handling, EditOps, x
      <3>8. Answers(z)
        BY <3>1, <3>3, <3>5, <3>7 DEF Answers
      <3>9. \A v \in Using(z) : v \in Using(x)
        BY <1>2, <3>1, <3>3, <3>5 DEF Using
      <3>10. /\ sess'[s] = z
             /\ \A t \in Sessions : t # s => sess'[t] = sess[t]
        BY <1>1, <3>4 DEF Becomes, TypeOK
      <3>11. QED
        BY <3>5, <3>6, <3>8, <3>9, <3>10 DEF Leaves, x, serial
    <2>3. QED
      BY <1>7, <2>1, <2>2 DEF OpenInvite, x, r
  <1>8. CASE NewInvite(s, u)
    <2>1. PICK t \in Tokens : Becomes(s, Put(x, u, [r EXCEPT !.token = t]))
      BY <1>8 DEF NewInvite, x, r
    <2> DEFINE q == [r EXCEPT !.token = t]
    <2>2. r.tg = NoOne /\ Made[u] = "STUDENT"
      BY <1>8 DEF NewInvite, Target, x, r
    <2>3. q \in User /\ q.role = r.role /\ (Clean(u, r) => Clean(u, q))
      BY <1>3, <2>2 DEF Clean, User
    <2>4. q # NoRow
      BY <2>3, AccountsAssumption
    <2>5. Becomes(s, Put(x, u, q))
      BY <2>1
    <2> HIDE DEF q
    <2>6. QED
      BY <1>4, <1>6, <2>2, <2>3, <2>4, <2>5
  <1>9. CASE RevokeInvite(s, u)
    <2> DEFINE q == [r EXCEPT !.token = NoToken]
    <2>1. Becomes(s, Put(x, u, q)) /\ Made[u] = "STUDENT"
      BY <1>9 DEF RevokeInvite, Target, x, r
    <2>2. q \in User /\ q.role = r.role /\ (Clean(u, r) => Clean(u, q))
      BY <1>3 DEF Clean, User
    <2>3. q # NoRow
      BY <2>2, AccountsAssumption
    <2> HIDE DEF q
    <2>4. QED
      BY <1>4, <1>6, <2>1, <2>2, <2>3
  <1>10. CASE UnlinkTelegram(s, u)
    <2> DEFINE q == [r EXCEPT !.tg = NoOne]
    <2>1. Becomes(s, Put(x, u, q)) /\ Made[u] = "STUDENT" /\ r.role = "STUDENT"
      BY <1>10 DEF UnlinkTelegram, Target, x, r
    <2>2. q \in User /\ q.role = r.role /\ Clean(u, q)
      BY <1>3, <2>1 DEF Clean, User
    <2>3. q # NoRow
      BY <2>2, AccountsAssumption
    <2> HIDE DEF q
    <2>4. QED
      BY <1>6, <2>1, <2>2, <2>3
  <1>11. CASE ToggleActive(s, u)
    <2> DEFINE q == [r EXCEPT !.active = ~r.active]
    <2>1. Becomes(s, Put(x, u, q))
      BY <1>11 DEF ToggleActive, x, r
    <2>2. q \in User /\ q.role = r.role /\ q.tg = r.tg /\ q.token = r.token
      BY <1>3 DEF User
    <2>3. q # NoRow
      BY <2>2, AccountsAssumption
    <2> HIDE DEF q
    <2>4. Clean(u, r) => Clean(u, q)
      BY <1>3, <2>2 DEF Clean
    <2>5. QED
      BY <1>4, <1>6, <2>1, <2>2, <2>3, <2>4
  <1>12. CASE DeleteUser(s, u)
    <2>1. Becomes(s, Put(x, u, NoRow)) /\ Clean(u, NoRow) /\ u # x.me
      BY <1>12 DEF DeleteUser, x, Clean
    <2>2. QED
      BY <1>1, <1>2, <2>1, PutLeaves DEF x
  <1>13. ASSUME NEW p \in People, LinkTelegram(s, u, p) PROVE Leaves(s)
    <2> DEFINE q == Claimed(r, p)
    <2>1. Becomes(s, Put(x, u, q)) /\ Made[u] = "STUDENT"
      BY <1>13 DEF LinkTelegram, Target, x, r
    <2>2. q \in User /\ q.role = r.role /\ Clean(u, q)
      BY <1>3, AccountsAssumption DEF Claimed, Clean, User
    <2>3. q # NoRow
      BY <2>2, AccountsAssumption
    <2> HIDE DEF q
    <2>4. QED
      BY <1>6, <2>1, <2>2, <2>3
  <1>14. ASSUME NEW p \in People \cup {NoOne}, EditAdvisor(s, u, p) PROVE Leaves(s)
    <2> DEFINE q == [r EXCEPT !.tg = p]
    <2>1. /\ Becomes(s, Put(x, u, q)) /\ x.op \in EditOps
          /\ x.op # "edit_crossed" => r.role \in Staff
          /\ p = r.tg \/ p \in People
      BY <1>14, AccountsAssumption DEF EditAdvisor, Handling, EditOps, x, r
    <2>2. q \in User /\ q.role = r.role /\ q.tg = p /\ q.token = r.token
      BY <1>3 DEF User
    <2>3. q # NoRow
      BY <2>2, AccountsAssumption
    <2> HIDE DEF q
    <2>4. Clean(u, r) /\ r.role \in Staff => Clean(u, q)
      BY <1>3, <2>1, <2>2, AccountsAssumption DEF Clean, RowOK, Staff
    <2>5. serial => Clean(u, q)
      BY <1>4, <2>1, <2>4 DEF serial
    <2>6. QED
      BY <1>6, <2>1, <2>2, <2>3, <2>5
  <1>15. QED
    BY <1>7, <1>8, <1>9, <1>10, <1>11, <1>12, <1>13, <1>14

\* Claiming a row takes its invite away, and folding one its telegram id.
LEMMA BindInviteLeaves ==
  ASSUME AInv, GInv, NEW s \in Sessions, BindInvite(s)
  PROVE  Leaves(s)
  <1> DEFINE x == sess[s]
             r == Claimed(x.now[x.at], x.who)
             y == Put(x, x.at, r)
  <1>1. TypeOK /\ x \in SessionStates /\ Shaped(x) /\ Answers(x) /\ x.pc = "claiming"
    BY SessionShape DEF AInv, TypeOK, BindInvite, GInv
  <1>2. /\ x.at \in Ids /\ x.now[x.at] \in User /\ x.now[x.at] # NoRow
        /\ Made[x.at] = "STUDENT" /\ x.who \in People
    BY <1>1 DEF AInv, WhoSound, SessionStates
  <1>3. /\ r \in User /\ Clean(x.at, r)
        /\ r.role = Read(x, x.at).role
    BY <1>2, AccountsAssumption DEF Claimed, Clean, User, Read
  <1>4. r # NoRow
    BY <1>3, AccountsAssumption
  <1>5. CASE Becomes(s, y)
    <2> HIDE DEF r
    <2>1. QED
      BY <1>1, <1>2, <1>3, <1>4, <1>5, PutLeaves
  <1>6. ASSUME NEW d \in Holders(x.who), d # x.at, Read(x, d).role = "STUDENT",
               Becomes(s, Put(y, d, Folded(Read(x, d))))
        PROVE  Leaves(s)
    <2> DEFINE f == Folded(Read(x, d))
               z == Put(y, d, f)
    <2>1. d \in Ids /\ users[d] # NoRow
      BY DEF Holders
    <2>2. Read(x, d) \in User /\ RowOK(d, Read(x, d)) /\ Read(x, d) # NoRow
      BY <2>1, InHandler
    <2>3. /\ f \in User /\ Clean(d, f) /\ f.role = Read(x, d).role
          /\ Made[d] = "STUDENT"
      BY <1>6, <2>1, <2>2, AccountsAssumption DEF Folded, Clean, User, RowOK, Roles
    <2>4. f # NoRow
      BY <2>3, AccountsAssumption
    <2>5. Becomes(s, z)
      BY <1>6
    <2> HIDE DEF r, f
    <2>6. /\ Shaped(y) /\ y.verdict = y.was /\ (CleanMap(x) => CleanMap(y))
          /\ y.me = x.me /\ y.who = x.who /\ y.op = x.op
          /\ y.now[d] = x.now[d]
      BY <1>1, <1>2, <1>3, <1>6, <2>1, PutShape, PutClean DEF GInv, Granting
    <2>7. Answers(y) /\ (y.me \in Ids => y.seen[y.me] = x.seen[x.me])
      BY <1>1, <1>2, <1>3, <1>4, <2>6, PutAnswers
    <2> HIDE DEF y
    <2>8. Read(y, d) = Read(x, d)
      BY <2>6 DEF Read
    <2>9. /\ z.pc = "commit" /\ z.verdict = z.was /\ (CleanMap(x) => CleanMap(z))
          /\ z.me = x.me /\ z.who = x.who /\ z.op = x.op
      BY <2>1, <2>3, <2>6, PutShape, PutClean
    <2>10. Answers(z) /\ (z.me \in Ids => z.seen[z.me] = x.seen[x.me])
      BY <2>1, <2>3, <2>4, <2>6, <2>7, <2>8, <2>9, PutAnswers
    <2> HIDE DEF z
    <2>11. \A v \in Using(z) : v \in Using(x)
      BY <1>1, <2>9, <2>10 DEF Using
    <2>12. /\ sess'[s] = z
           /\ \A t \in Sessions : t # s => sess'[t] = sess[t]
      BY <1>1, <2>5 DEF Becomes, TypeOK
    <2>13. QED
      BY <2>9, <2>10, <2>11, <2>12 DEF Leaves, Granting
  <1>7. QED
    BY <1>5, <1>6 DEF BindInvite

\* A handler that grants a role to p and decides about the request of p.
LEMMA GrantLeaves ==
  ASSUME AInv, GInv, NEW s \in Sessions, NEW p \in People, sess[s].pc # "idle",
         NEW role \in {"STUDENT", "ADVISOR"}, NEW verdict \in RequestStatus,
         Insert(s, Decide(sess[s], p, verdict), NewUser(role, p, NoToken))
  PROVE  Leaves(s)
  <1> DEFINE z == Decide(sess[s], p, verdict)
             r == NewUser(role, p, NoToken)
  <1>1. sess[s] \in SessionStates /\ requests[p] \in RequestStatus
    BY DEF AInv, TypeOK
  <1>2. /\ z \in SessionStates /\ z.seen = sess[s].seen /\ z.now = sess[s].now
        /\ z.of = p /\ z.me = sess[s].me /\ z.who = sess[s].who /\ z.op = sess[s].op
    BY <1>1 DEF Decide, SessionStates, PCs
  <1>3. r \in User /\ r.tg = p /\ r.token = NoToken /\ r.role = role
    BY DEF NewUser, User, Roles
  <1>4. r # NoRow /\ \A u \in Ids : Made[u] = r.role => Clean(u, r)
    BY <1>3, AccountsAssumption DEF Clean
  <1>5. Insert(s, z, r)
    OBVIOUS
  <1> HIDE DEF z, r
  <1>6. QED
    BY <1>2, <1>3, <1>4, <1>5, InsertLeaves

LEMMA WorkLeaves ==
  ASSUME AInv, GInv, NEW s \in Sessions, Work(s), ~Commit(s)
  PROVE  Leaves(s)
  <1> DEFINE x == sess[s]
  <1>1. TypeOK /\ x \in SessionStates
    BY DEF AInv, TypeOK
  <1>2. x.pc # "commit" => x.verdict = x.was
    BY DEF GInv, Granting
  <1>3. CASE RecordVisit(s) \/ Rollback(s)
    BY <1>1, <1>3, IdleLeaves DEF RecordVisit, Rollback
  <1>4. CASE CreateStudent(s)
    <2>1. x.pc = "entered"
      BY <1>4 DEF CreateStudent, Handling
    <2>2. ASSUME NEW r, r \in User, \A u \in Ids : Made[u] = r.role => Clean(u, r),
                 Insert(s, x, r)
          PROVE  Leaves(s)
      BY <1>1, <1>2, <2>1, <2>2, InsertLeaves, AccountsAssumption
    <2>3. ASSUME NEW t \in Tokens, Insert(s, x, NewUser("STUDENT", NoOne, t))
          PROVE  Leaves(s)
      <3> DEFINE r == NewUser("STUDENT", NoOne, t)
      <3>1. r \in User /\ \A u \in Ids : Made[u] = r.role => Clean(u, r)
        BY DEF NewUser, User, Roles, Clean
      <3>2. Insert(s, x, r)
        BY <2>3
      <3> HIDE DEF r
      <3>3. QED
        BY <2>2, <3>1, <3>2
    <2>4. ASSUME NEW p \in TypedIds, Insert(s, x, NewUser("STUDENT", p, NoToken))
          PROVE  Leaves(s)
      <3> DEFINE r == NewUser("STUDENT", p, NoToken)
      <3>1. r \in User /\ \A u \in Ids : Made[u] = r.role => Clean(u, r)
        BY AccountsAssumption DEF NewUser, User, Roles, Clean
      <3>2. Insert(s, x, r)
        BY <2>4
      <3> HIDE DEF r
      <3>3. QED
        BY <2>2, <3>1, <3>2
    <2>5. QED
      BY <1>4, <2>3, <2>4 DEF CreateStudent
  <1>5. CASE EarlyReturn(s)
    <2> DEFINE y == [x EXCEPT !.pc = "commit", !.op = "visit"]
    <2>1. x.pc = "entered" /\ Becomes(s, y)
      BY <1>5 DEF EarlyReturn
    <2>2. /\ y.pc = "commit" /\ y.seen = x.seen /\ y.now = x.now /\ y.verdict = x.verdict
          /\ y.was = x.was /\ y.me = x.me /\ y.who = x.who /\ y.op = "visit"
      BY <1>1 DEF SessionStates
    <2> HIDE DEF y
    <2>3. QED
      BY <1>1, <1>2, <2>1, <2>2, SameLeaves DEF Granting
  <1>6. ASSUME NEW p \in People, Reject(s, p) PROVE Leaves(s)
    <2> DEFINE y == Decide(x, p, "rejected")
    <2>1. Becomes(s, y) /\ x.pc = "entered"
      BY <1>6 DEF Reject, Handling
    <2>2. y.pc = "commit" /\ y.seen = x.seen /\ y.now = x.now /\ y.verdict = "rejected"
          /\ y.me = x.me /\ y.who = x.who /\ y.op = x.op
      BY <1>1 DEF Decide, SessionStates
    <2> HIDE DEF y
    <2>3. QED
      BY <1>1, <2>1, <2>2, SameLeaves DEF Granting
  <1>7. ASSUME NEW p \in People, Approve(s, p) PROVE Leaves(s)
    <2>1. PICK role \in {"STUDENT", "ADVISOR"} :
            Insert(s, Decide(x, p, "approved"), NewUser(role, p, NoToken))
      BY <1>7 DEF Approve
    <2>2. x.pc = "entered" /\ "approved" \in RequestStatus
      BY <1>7 DEF Approve, Handling, RequestStatus
    <2>3. QED
      BY <2>1, <2>2, GrantLeaves
  <1>8. ASSUME NEW p \in People, AddAdvisor(s, p) PROVE Leaves(s)
    <2> DEFINE verdict == IF requests[p] = "none" THEN "none" ELSE "approved"
    <2>1. x.pc = "entered" /\ verdict \in RequestStatus
      BY <1>8 DEF AddAdvisor, Handling, RequestStatus
    <2>2. Insert(s, Decide(x, p, verdict), NewUser("ADVISOR", p, NoToken))
      BY <1>8 DEF AddAdvisor
    <2> HIDE DEF verdict
    <2>3. QED
      BY <2>1, <2>2, GrantLeaves
  <1>9. QED
    BY <1>3, <1>4, <1>5, <1>6, <1>7, <1>8, BindInviteLeaves, RowHandlerLeaves DEF Work

-----------------------------------------------------------------------------
(* ApprovalGrantsAccount.                                                  *)

\* A step of the system, seen from the sessions.
LEMMA OneHandlerMoves ==
  ASSUME AInv, GInv, NEW s \in Sessions, (Enter(s) \/ Work(s))
  PROVE  Commit(s) \/ Leaves(s)
  <1>1. Ops \subseteq AllOps
    BY AccountsAssumption
  <1>2. QED
    BY <1>1, EnterLeaves, WorkLeaves DEF Enter

\* A session that is not as it was has made the step.
LEMMA OneSessionLeaves ==
  ASSUME AInv, GInv, [Next]_vars, NEW s \in Sessions, sess'[s] # sess[s]
  PROVE  Leaves(s)
  <1>1. CASE UNCHANGED vars
    BY <1>1 DEF vars
  <1>2. CASE \E t \in Tokens : Expire(t)
    BY <1>2 DEF Expire
  <1>3. ASSUME NEW o \in Sessions, Enter(o) \/ Work(o)
        PROVE  Leaves(s)
    <2>1. CASE Commit(o)
      <3>1. Leaves(o)
        BY <2>1, IdleLeaves DEF Commit, AInv
      <3>2. QED
        BY <3>1 DEF Leaves
    <2>2. CASE Leaves(o)
      BY <2>2 DEF Leaves
    <2>3. QED
      BY <1>3, <2>1, <2>2, OneHandlerMoves
  <1>4. QED
    BY <1>1, <1>2, <1>3 DEF Next

LEMMA GInvariant == Spec => []GInv
  <1>1. Init => GInv
    BY AccountsAssumption DEF Init, GInv, Granting, Answers, Idle, Session
  <1>2. AInv /\ GInv /\ [Next]_vars => GInv'
    <2> SUFFICES ASSUME AInv, GInv, [Next]_vars PROVE GInv'
      OBVIOUS
    <2>1. CASE UNCHANGED vars \/ \E t \in Tokens : Expire(t)
      BY <2>1 DEF vars, GInv, Expire
    <2>2. ASSUME NEW s \in Sessions, Leaves(s) PROVE GInv'
      BY <2>2 DEF Leaves, GInv
    <2>3. ASSUME NEW s \in Sessions, Commit(s) PROVE GInv'
      <3>1. Becomes(s, Idle) /\ TypeOK
        BY <2>3 DEF Commit, AInv
      <3>2. QED
        BY <2>2, <3>1, IdleLeaves
    <2>4. QED
      BY <2>1, <2>2, <2>3, OneHandlerMoves DEF Next
  <1>3. QED
    BY <1>1, <1>2, AInvariant, PTL DEF Spec

\* Whatever handlers overlap, a request becomes approved in the step that creates
\* the account of whoever asked.
THEOREM ApprovalGrants == Spec => ApprovalGrantsAccount
  <1> DEFINE Granted(p) ==
        requests[p] # "approved" /\ requests'[p] = "approved"
          => \E u \in Ids : users'[u] # NoRow /\ users[u] = NoRow /\ users'[u].tg = p
  <1>1. AInv /\ GInv /\ [Next]_vars => [\A p \in People : Granted(p)]_vars
    <2> SUFFICES ASSUME AInv, GInv, Next, NEW p \in People,
                        requests[p] # "approved", requests'[p] = "approved"
                 PROVE  \E u \in Ids : users'[u] # NoRow /\ users[u] = NoRow /\ users'[u].tg = p
      OBVIOUS
    <2>1. requests \in [People -> RequestStatus]
      BY DEF AInv, TypeOK
    <2>2. ASSUME NEW s \in Sessions, Commit(s)
          PROVE  \E u \in Ids : users'[u] # NoRow /\ users[u] = NoRow /\ users'[u].tg = p
      <3> DEFINE x == sess[s]
      <3>1. x.verdict # x.was /\ p = x.of /\ x.verdict = "approved"
        BY <2>1, <2>2 DEF Commit
      <3>2. CASE x.was = "approved"
        BY <3>1, <3>2
      <3>3. CASE x.was # "approved"
        <4>1. PICK u \in Ids : Inserts(x, u) /\ x.now[u].tg = p
          BY <3>1, <3>3 DEF GInv, Granting
        <4>2. users[u] = NoRow
          BY <4>1 DEF AInv, MapsSound, Sound, Inserts
        <4>3. users'[u] = Flushed(x, u)
          BY <2>2 DEF Commit
        <4>4. users'[u] = x.now[u]
          BY <4>1, <4>3 DEF Flushed, Inserts
        <4>5. QED
          BY <4>1, <4>2, <4>4 DEF Inserts
      <3>4. QED
        BY <3>2, <3>3
    <2>3. ASSUME NEW s \in Sessions, RecordVisit(s) PROVE FALSE
      BY <2>1, <2>3 DEF RecordVisit
    <2>4. ASSUME requests' = requests PROVE FALSE
      BY <2>4
    <2>5. ASSUME NEW s \in Sessions, Enter(s) PROVE requests' = requests
      BY <2>5 DEF Enter, EnterKnown, EnterNewAdmin, EnterUnknown
    <2>6. ASSUME NEW s \in Sessions, Work(s), ~Commit(s), ~RecordVisit(s)
          PROVE  requests' = requests
      BY <2>6
      DEF Work, BindInvite, CreateStudent, EarlyReturn, Rollback, OpenInvite, NewInvite,
          RevokeInvite, UnlinkTelegram, ToggleActive, DeleteUser, LinkTelegram, Approve,
          Reject, AddAdvisor, EditAdvisor
    <2>7. ASSUME NEW t \in Tokens, Expire(t) PROVE requests' = requests
      BY <2>7 DEF Expire
    <2>8. QED
      BY <2>2, <2>3, <2>4, <2>5, <2>6, <2>7 DEF Next
  <1>2. QED
    BY <1>1, AInvariant, GInvariant, PTL DEF Spec, ApprovalGrantsAccount

-----------------------------------------------------------------------------
(* StaffKeepAccount and the refinement of Identities.                      *)

\* Whatever handlers overlap, the row of an advisor or an admin gets no invite
\* token, and another telegram id only when an admin edits it.
THEOREM StaffKeep == Spec => StaffKeepAccount
  <1> DEFINE Kept(u) ==
        (users[u] # NoRow /\ users'[u] # NoRow /\ Made[u] # "STUDENT") =>
          /\ users'[u].token = NoToken
          /\ users'[u].tg # users[u].tg =>
               \E s \in Sessions :
                 /\ sess[s].op \in {"edit_advisor", "edit_crossed"}
                 /\ Active(s) /\ ~Active(s)'
  <1>1. AInv /\ AInv' /\ GInv /\ [Next]_vars => [\A u \in Ids : Kept(u)]_vars
    <2> SUFFICES ASSUME AInv, AInv', GInv, [Next]_vars, NEW u \in Ids,
                        users[u] # NoRow, users'[u] # NoRow, Made[u] # "STUDENT"
                 PROVE  Kept(u)
      OBVIOUS
    <2>1. users'[u].token = NoToken
      BY DEF AInv, RowsSound, RowOK
    <2>2. ASSUME users'[u].tg # users[u].tg
          PROVE  \E s \in Sessions :
                   /\ sess[s].op \in {"edit_advisor", "edit_crossed"}
                   /\ Active(s) /\ ~Active(s)'
      <3>1. PICK s \in Sessions : Commit(s)
        BY <2>2, OnlyCommits
      <3>2. /\ sess[s].seen[u] # NoRow /\ sess[s].now[u] # NoRow
            /\ sess[s].now[u].tg # sess[s].seen[u].tg
        BY <2>2, <3>1, FlushedRow DEF Commit
      <3>3. sess[s].op \in EditOps
        BY <3>2 DEF GInv, Answers
      <3>4. Active(s) /\ ~Active(s)'
        BY <3>1 DEF Commit, Active, Becomes, AInv, TypeOK, Idle, Session
      <3>5. QED
        BY <3>3, <3>4 DEF EditOps
    <2>3. QED
      BY <2>1, <2>2
  <1>2. QED
    BY <1>1, AInvariant, GInvariant, PTL DEF Spec, StaffKeepAccount

Role(rows) == [u \in Ids |-> IF rows[u] = NoRow THEN "none" ELSE rows[u].role]
Holder(rows) == [u \in Ids |-> IF rows[u] = NoRow THEN NoOne ELSE rows[u].tg]
Callers == {u \in Ids : \E s \in Sessions :
              /\ Active(s) /\ sess[s].me = u /\ sess[s].who \in EnvAdmins
              /\ sess[s].seen[u] # NoRow}

\* An account is used by the sessions that use it.
LEMMA CallersUse == \A u \in Ids : u \in Callers <=> \E s \in Sessions : u \in Using(sess[s])
  BY DEF Callers, Using, Active

\* What a commit makes of one account.
LEMMA AccountStep ==
  ASSUME AInv, GInv, NEW s \in Sessions, Commit(s), NEW u \in Ids
  PROVE  Promise!Opened(u) \/ Promise!Closed(u) \/ Promise!Missing(u) \/ Promise!Stays(u)
  <1> DEFINE x == sess[s]
             f == users'[u]
  <1>1. f = Flushed(x, u) /\ RowsThere(x)
    BY DEF Commit
  <1>2. users[u] \in User \cup {NoRow} /\ f \in User \cup {NoRow} /\ "none" \notin Roles
    BY <1>1, FlushedRow DEF AInv, TypeOK, Roles
  <1> HIDE DEF f
  <1>3. CASE users[u] = NoRow /\ f = NoRow
    BY <1>3 DEF Promise!Missing, Promise!NoRole, f
  <1>4. CASE users[u] = NoRow /\ f # NoRow
    <2>1. Insertable(u, f)
      BY <1>1, <1>4, FlushedRow
    <2>2. QED
      BY <1>4, <2>1 DEF Insertable, Promise!Opened, Promise!NoRole, f
  <1>5. CASE users[u] # NoRow /\ f = NoRow
    <2>1. Made[u] # "ADMIN" /\ users[u].role # "none"
      BY <1>1, <1>2, <1>5, FlushedRow DEF User
    <2>2. QED
      BY <1>5, <2>1 DEF Promise!Closed, Promise!NoRole, f
  <1>6. CASE users[u] # NoRow /\ f # NoRow
    <2>1. /\ Later(u, users[u], f)
          /\ f.role # users[u].role =>
               x.seen[u] # NoRow /\ x.now[u] # NoRow /\ x.now[u].role # x.seen[u].role
      BY <1>1, <1>6, FlushedRow
    <2>2. users[u].role # "none" /\ f.tg \in People \cup {NoOne}
      BY <1>2, <1>6 DEF User
    <2>3. f.role # users[u].role => f.role = "ADMIN" /\ u \in Callers
      <3>1. SUFFICES ASSUME f.role # users[u].role
                     PROVE  f.role = "ADMIN" /\ u \in Callers
        OBVIOUS
      <3>2. u = x.me /\ x.who \in EnvAdmins /\ x.seen[u] # NoRow /\ Active(s)
        BY <2>1, <3>1 DEF GInv, Answers, Commit, Active
      <3>3. QED
        BY <2>1, <3>1, <3>2 DEF Later, Callers
    <2>4. QED
      BY <1>6, <2>1, <2>2, <2>3
      DEF Later, Promise!Stays, Promise!NoRole, Callers, f
  <1>7. QED
    BY <1>2, <1>3, <1>4, <1>5, <1>6

\* With no telegram id shared, no two accounts have the same holder.
LEMMA HoldersDistinct ==
  ASSUME NEW rows, Distinct(rows)
  PROVE  \A u, v \in Ids :
           Holder(rows)[u] # NoOne /\ Holder(rows)[u] = Holder(rows)[v] => u = v
  BY DEF Distinct, Holder

\* Whatever handlers overlap, the role of an account is never lowered, and becomes
\* ADMIN only through an update of a holder in ADMIN_IDS; an advisor's account is
\* handed to another person and never left to nobody; an admin's is never closed.
THEOREM RolesKept == Spec => ImplementsIdentities
  <1>1. Init => Promise!Init
    <2> SUFFICES ASSUME Init PROVE Promise!Init
      OBVIOUS
    <2>1. Startable(users) /\ Distinct(users)
      BY AccountsAssumption DEF Init, Startable, Distinct
    <2>2. Role(users) \in [Ids -> Roles \cup {"none"}]
      BY <2>1 DEF Role, Startable, User
    <2>3. \A u \in Ids : Role(users)[u] \in {"none", Made[u], "ADMIN"}
      BY <2>1 DEF Role, Startable
    <2>4. Callers = {}
      BY DEF Callers, Active, Init, Idle, Session
    <2>5. QED
      BY <2>1, <2>2, <2>3, <2>4, HoldersDistinct
      DEF Promise!Init, Promise!OneHolder, Promise!Roles, Promise!NoRole, Roles, Role,
          Holder, Callers
  <1>2. AInv /\ AInv' /\ GInv /\ [Next]_vars
          => [Promise!Next]_<<Role(users), Holder(users), Callers>>
    <2> SUFFICES ASSUME AInv, AInv', GInv, [Next]_vars,
                        ~UNCHANGED <<Role(users), Holder(users), Callers>>
                 PROVE  Promise!Next
      BY Zenon
    <2>1. Role(users') \in [Ids -> Roles \cup {"none"}]
      BY DEF Role, AInv, TypeOK, User
    <2>2. \A u, v \in Ids :
            Holder(users')[u] # NoOne /\ Holder(users')[u] = Holder(users')[v] => u = v
      BY HoldersDistinct DEF AInv, TypeOK
    <2>3. ASSUME NEW u \in Ids
          PROVE  Promise!Opened(u) \/ Promise!Closed(u) \/ Promise!Missing(u) \/ Promise!Stays(u)
      <3>1. CASE users' = users
        <4>1. users[u] \in User \cup {NoRow} /\ "none" \notin Roles
          BY DEF AInv, TypeOK, Roles
        <4>2. users[u] # NoRow => users[u].role # "none"
          BY <4>1 DEF User
        <4>3. QED
          BY <3>1, <4>2 DEF Promise!Missing, Promise!Stays, Promise!NoRole
      <3>2. CASE users' # users
        BY <3>2, OnlyCommits, AccountStep
      <3>3. QED
        BY <3>1, <3>2
    <2>4. ASSUME NEW u \in Ids, u \in Callers', u \notin Callers
          PROVE  Holder(users)[u] \in EnvAdmins
      <3>1. PICK s \in Sessions : u \in Using(sess'[s])
        BY <2>4 DEF Callers, Using, Active
      <3>2. u \notin Using(sess[s])
        BY <2>4, CallersUse
      <3>3. Leaves(s)
        BY <3>1, <3>2, OneSessionLeaves
      <3>4. QED
        BY <3>1, <3>2, <3>3 DEF Leaves, Holder
    <2>5. QED
      BY <2>1, <2>2, <2>3, <2>4
      DEF Promise!Next, Promise!OneHolder, Promise!Roles, Promise!NoRole, Roles, Role,
          Holder, Callers
  <1>3. QED
    BY <1>1, <1>2, AInvariant, GInvariant, PTL
    DEF Spec, ImplementsIdentities, Promise!Spec, Role, Holder, Callers

-----------------------------------------------------------------------------
(* SerialConnectedHasNoInvite.                                             *)

\* One handler at a time: what it has read is still committed.
SInv ==
  /\ \A s, t \in Sessions : Active(s) /\ Active(t) => s = t
  /\ \A s \in Sessions : (~Active(s) => sess[s] = Idle) /\ CleanMap(sess[s])
  /\ \A s \in Sessions : sess[s].op # "edit_crossed"
  /\ CleanRows
SerialInv == regime = "serial" => SInv

LEMMA InitSerial == RInit => SerialInv
  <1> SUFFICES ASSUME Init, Settled(users) PROVE SInv
    BY DEF RInit, SerialInv
  <1>1. \A u \in Ids : Clean(u, users[u])
    BY AccountsAssumption DEF Init, Clean, Startable, Settled
  <1>2. \A s \in Sessions : sess[s] = Idle
    BY DEF Init
  <1>3. Idle.pc = "idle" /\ Idle.seen = Unread /\ Idle.now = Unread /\ Idle.op = "visit"
    BY DEF Idle, Session
  <1>4. CleanMap(Idle)
    BY <1>3 DEF CleanMap, Clean, Unread
  <1>5. QED
    BY <1>1, <1>2, <1>3, <1>4 DEF SInv, CleanRows, Active

\* A step that commits nothing, of the only handler.
LEMMA LeavesSerial ==
  ASSUME SInv, NEW s \in Sessions, Leaves(s), users' = users,
         Active(s) \/ \A t \in Sessions : ~Active(t),
         ~Active(s) => sess'[s].op # "edit_crossed"
  PROVE  SInv'
  <1>1. \A t \in Sessions : t # s => sess'[t] = sess[t] /\ ~Active(t)
    BY DEF Leaves, SInv
  <1>2. \A t \in Sessions : Active(t)' => t = s
    BY <1>1 DEF Active
  <1>3. \A t \in Sessions : (~Active(t) => sess[t] = Idle)'
    BY <1>1 DEF Active, Leaves, SInv
  <1>4. CleanRows' /\ CleanMap(sess'[s])
    BY DEF Leaves, SInv, CleanRows
  <1>5. \A t \in Sessions : CleanMap(sess'[t])
    BY <1>1, <1>4 DEF SInv
  <1>6. \A t \in Sessions : CleanMap(sess[t])'
    BY <1>5 DEF CleanMap
  <1>7. \A t \in Sessions : sess'[t].op # "edit_crossed"
    BY <1>1 DEF SInv, Leaves
  <1>8. QED
    BY <1>2, <1>3, <1>4, <1>6, <1>7 DEF SInv

\* The only handler commits its rows as they are.
LEMMA CommitSerial ==
  ASSUME AInv, SInv, NEW s \in Sessions, Commit(s)
  PROVE  SInv'
  <1> DEFINE x == sess[s]
  <1>1. /\ sess'[s] = Idle /\ x.pc = "commit"
        /\ \A t \in Sessions : t # s => sess'[t] = sess[t]
    BY DEF Commit, Becomes, AInv, TypeOK
  <1>2. \A t \in Sessions : sess'[t] = Idle
    BY <1>1 DEF SInv, Active
  <1>3. Idle.pc = "idle" /\ Idle.seen = Unread /\ Idle.now = Unread /\ Idle.op = "visit"
    BY DEF Idle, Session
  <1>4. \A t \in Sessions : CleanMap(sess[t])'
    BY <1>2, <1>3 DEF CleanMap, Clean, Unread
  <1>5. ASSUME NEW u \in Ids PROVE Clean(u, users'[u])
    <2> DEFINE a == x.seen[u]
               b == x.now[u]
    <2>1. /\ users'[u] = Flushed(x, u)
          /\ a \in User \cup {NoRow} /\ b \in User \cup {NoRow}
          /\ (a # NoRow => a = users[u]) /\ Clean(u, b) /\ Clean(u, users[u])
      BY DEF Commit, SInv, CleanMap, CleanRows, AInv, TypeOK, SessionStates
    <2>2. CASE b = a \/ a = NoRow \/ b = NoRow
      BY <2>1, <2>2 DEF Flushed
    <2>3. CASE b # a /\ a # NoRow /\ b # NoRow
      <3>1. users'[u] = Merged(a, b, a)
        BY <2>1, <2>3 DEF Flushed
      <3>2. /\ Merged(a, b, a).tg = b.tg /\ Merged(a, b, a).token = b.token
            /\ Merged(a, b, a).role = b.role
        BY DEF Merged, Column
      <3> HIDE DEF a, b
      <3>3. QED
        BY <2>1, <2>3, <3>1, <3>2 DEF Clean
    <2>4. QED
      BY <2>2, <2>3
  <1>6. QED
    BY <1>2, <1>3, <1>4, <1>5 DEF SInv, CleanRows, Active

\* The regimes keep the invariants of the overlaps.
LEMMA RNextInv == AInv /\ [RNext]_<<vars, regime>> => AInv'
  <1> SUFFICES ASSUME AInv, [RNext]_<<vars, regime>> PROVE AInv'
    OBVIOUS
  <1>1. ASSUME NEW s \in Sessions, Start(s) PROVE AInv'
    <2>1. PICK p \in People, op \in AllOps :
            EnterKnown(s, p, op) \/ EnterNewAdmin(s, p, op) \/ EnterUnknown(s, p, op)
      BY <1>1 DEF Start, OverlapOps, SerialOps, AllOps
    <2>2. QED
      BY <2>1, EnterKnownInv, EnterNewAdminInv, EnterUnknownInv
  <1>2. CASE [Next]_vars
    BY <1>2, NextInv
  <1>3. QED
    BY <1>1, <1>2 DEF RNext, Next, vars

LEMMA RNextSerial ==
  ASSUME AInv, GInv, SerialInv, [RNext]_<<vars, regime>>
  PROVE  GInv' /\ SerialInv'
  <1>1. CASE UNCHANGED <<vars, regime>>
    BY <1>1 DEF vars, GInv, SerialInv, SInv, CleanMap, CleanRows, Active
  <1>2. ASSUME RNext PROVE regime' = regime
    BY <1>2 DEF RNext
  <1>3. ASSUME NEW t \in Tokens, Expire(t), regime' = regime PROVE GInv' /\ SerialInv'
    BY <1>3 DEF Expire, GInv, SerialInv, SInv, CleanMap, CleanRows, Active
  <1>4. ASSUME NEW s \in Sessions, Start(s), regime' = regime PROVE GInv' /\ SerialInv'
    <2>1. PICK p \in People, op \in AllOps :
            /\ regime = "serial" => op # "edit_crossed"
            /\ EnterKnown(s, p, op) \/ EnterNewAdmin(s, p, op) \/ EnterUnknown(s, p, op)
      BY <1>4 DEF Start, OverlapOps, SerialOps, AllOps
    <2>2. Leaves(s) /\ users' = users /\ (~Active(s) => sess'[s].op = op)
      BY <2>1, EnterLeaves DEF EnterKnown, EnterNewAdmin, EnterUnknown
    <2>3. GInv'
      BY <2>2 DEF Leaves, GInv
    <2>4. regime = "serial" => \A t \in Sessions : ~Active(t)
      BY <1>4 DEF Start
    <2>5. QED
      BY <1>4, <2>1, <2>2, <2>3, <2>4, LeavesSerial DEF SerialInv
  <1>5. ASSUME NEW s \in Sessions, Active(s), Work(s), regime' = regime
        PROVE  GInv' /\ SerialInv'
    <2>1. CASE Commit(s)
      <3>1. Leaves(s)
        BY <2>1, IdleLeaves DEF Commit, AInv
      <3>2. QED
        BY <1>5, <2>1, <3>1, CommitSerial DEF Leaves, GInv, SerialInv
    <2>2. CASE ~Commit(s)
      <3>1. Leaves(s)
        BY <1>5, <2>2, WorkLeaves
      <3>2. users' = users
        BY <1>5, <2>2
        DEF Work, RecordVisit, BindInvite, CreateStudent, EarlyReturn, Rollback,
            OpenInvite, NewInvite, RevokeInvite, UnlinkTelegram, ToggleActive,
            DeleteUser, LinkTelegram, Approve, Reject, AddAdvisor, EditAdvisor
      <3>3. QED
        BY <1>5, <3>1, <3>2, LeavesSerial DEF Leaves, GInv, SerialInv
    <2>3. QED
      BY <2>1, <2>2
  <1>6. QED
    BY <1>1, <1>2, <1>3, <1>4, <1>5 DEF RNext

\* One handler at a time, a student who is connected has no invite left, whichever
\* of the handlers connected them, for any number of students and links.
THEOREM SerialNoInvite == RSpec => []SerialConnectedHasNoInvite
  <1>1. RInit => AInv /\ GInv /\ SerialInv
    BY InitInv, InitSerial, AccountsAssumption
    DEF RInit, Init, GInv, Granting, Answers, Idle, Session
  <1>2. AInv /\ GInv /\ SerialInv /\ [RNext]_<<vars, regime>> => AInv' /\ GInv' /\ SerialInv'
    BY RNextInv, RNextSerial
  <1>3. SerialInv => SerialConnectedHasNoInvite
    BY DEF SerialInv, SInv, CleanRows, Clean, SerialConnectedHasNoInvite, ConnectedHasNoInvite
  <1>4. QED
    BY <1>1, <1>2, <1>3, PTL DEF RSpec

=============================================================================
