--------------------------- MODULE ThrottleProofs ---------------------------
(***************************************************************************)
(* Theorems about Throttle, for any users, rates and cooldowns: the budget *)
(* and the cooldown.                                                       *)
(*                                                                         *)
(* The budget is not inductive: a bucket may have been filled before the   *)
(* observer began to count.  What is inductive is the account of a user:   *)
(* what was served since, with what the bucket held when it was last       *)
(* asked, is within a burst and the time up to then; and a user who has    *)
(* not been seen since was not served since.                               *)
(***************************************************************************)
EXTENDS Throttle, TLAPS

Account(u) ==
  /\ bucket[u].level <= Full
  /\ bucket[u].seen <= now
  /\ IF bucket[u].seen >= watch.time
     THEN Rate * (served[u] - watch.served[u]) + bucket[u].level
            <= Full + (bucket[u].seen - watch.time)
     ELSE served[u] = watch.served[u]

Accounts == \A u \in Ids : Account(u)

Cooled == \A k \in Ids \X Heavy : ran[k] <= pressed[k]

IInv == ThrottleTypeOK /\ watch.time <= now /\ Accounts /\ Cooled

\* The bucket's size, and one update more on the account.
LEMMA Sizes ==
  Full \in Nat /\ Rate \in Nat \ {0} /\ Cooldown \in Nat /\ Start \in Nat
  BY ThrottleAssumption, SMTT(30) DEF Full

LEMMA OneMore ==
  ASSUME NEW s \in Int, NEW w \in Int
  PROVE  /\ Rate * (s - w) \in Int
         /\ Rate * ((s + 1) - w) = Rate * (s - w) + Rate
  <1>1. Rate \in Int
    BY Sizes
  <1> QED BY <1>1, SMTT(30)

\* A refilled bucket is within its size and has gained at most the time since.
LEMMA RefilledBounds ==
  ASSUME ThrottleTypeOK, NEW u \in Ids, Account(u)
  PROVE  /\ Refilled(u) \in Nat
         /\ Refilled(u) <= Full
         /\ Refilled(u) <= bucket[u].level + (now - bucket[u].seen)
  <1>1. bucket[u].level \in Nat /\ bucket[u].seen \in Nat /\ now \in Nat
    BY DEF ThrottleTypeOK
  <1>2. bucket[u].seen <= now
    BY DEF Account
  <1> QED BY <1>1, <1>2, Sizes DEF Refilled

-----------------------------------------------------------------------------
(* What the bucket does to the accounts.                                   *)

\* The effect of Spend on the user: refused, or served and one token poorer.
LEMMA SpendIs ==
  ASSUME ThrottleTypeOK, NEW u \in Ids, Account(u), Spend(u)
  PROVE  /\ bucket' \in [Ids -> [level : Nat, seen : Nat]]
         /\ served' \in [Ids -> Nat]
         /\ \A v \in Ids \ {u} : bucket'[v] = bucket[v] /\ served'[v] = served[v]
         /\ bucket'[u].seen = now
         /\ \/ served'[u] = served[u] /\ bucket'[u].level = Refilled(u)
            \/ served'[u] = served[u] + 1 /\ bucket'[u].level = Refilled(u) - Rate
  <1>1. Refilled(u) \in Nat /\ now \in Nat /\ served[u] \in Nat
    BY RefilledBounds DEF ThrottleTypeOK
  <1>2. bucket \in [Ids -> [level : Nat, seen : Nat]] /\ served \in [Ids -> Nat]
    BY DEF ThrottleTypeOK
  <1>3. CASE Refilled(u) < Rate
    <2>1. /\ bucket' = [bucket EXCEPT ![u] = [level |-> Refilled(u), seen |-> now]]
          /\ served' = served
      BY <1>3 DEF Spend
    <2> QED BY <1>1, <1>2, <2>1
  <1>4. CASE ~(Refilled(u) < Rate)
    <2>1. /\ bucket' = [bucket EXCEPT ![u] = [level |-> Refilled(u) - Rate, seen |-> now]]
          /\ served' = [served EXCEPT ![u] = @ + 1]
      BY <1>4 DEF Spend
    <2>2. Refilled(u) - Rate \in Nat
      BY <1>1, <1>4, Sizes
    <2> QED BY <1>1, <1>2, <2>1, <2>2
  <1> QED BY <1>3, <1>4

LEMMA SpendKeepsAccounts ==
  ASSUME ThrottleTypeOK, watch.time <= now, Accounts, NEW u \in Ids, Spend(u),
         UNCHANGED <<now, watch>>
  PROVE  Accounts'
  <1> SUFFICES ASSUME NEW v \in Ids
               PROVE  Account(v)'
    BY DEF Accounts
  <1>1. Account(u) /\ Account(v)
    BY DEF Accounts
  <1>2. CASE v # u
    <2>1. bucket'[v] = bucket[v] /\ served'[v] = served[v]
      BY <1>1, <1>2, SpendIs
    <2> QED BY <1>1, <2>1 DEF Account
  <1>3. CASE v = u
    <2> DEFINE s == served[u]  w == watch.served[u]  L == Refilled(u)  t == watch.time
    <2>1. /\ now \in Nat /\ s \in Nat /\ w \in Nat /\ t \in Nat /\ t <= now
          /\ bucket[u].level \in Nat /\ bucket[u].seen \in Nat
      BY DEF ThrottleTypeOK
    <2>2. L \in Nat /\ L <= Full /\ L <= bucket[u].level + (now - bucket[u].seen)
      BY <1>1, RefilledBounds
    <2>3. Rate * (s - w) \in Int /\ Rate * ((s + 1) - w) = Rate * (s - w) + Rate
      <3>1. s \in Int /\ w \in Int
        BY <2>1
      <3> QED BY <3>1, OneMore, Zenon
    <2>4. Rate * (s - w) + L <= Full + (now - t)
      <3>1. CASE bucket[u].seen >= t
        BY <1>1, <2>1, <2>2, <2>3, <3>1, Sizes DEF Account
      <3>2. CASE ~(bucket[u].seen >= t)
        <4>1. s - w = 0
          BY <1>1, <2>1, <3>2 DEF Account
        <4>2. Rate * 0 = 0
          BY Sizes
        <4> QED BY <2>1, <2>2, <4>1, <4>2, Sizes, SMTT(30)
      <3> QED BY <3>1, <3>2
    <2>5. /\ bucket'[u].seen = now
          /\ \/ served'[u] = s /\ bucket'[u].level = L
             \/ served'[u] = s + 1 /\ bucket'[u].level = L - Rate
      BY <1>1, SpendIs
    <2>6. now' = now /\ watch'.served[u] = w /\ watch'.time = t
      OBVIOUS
    <2> HIDE DEF s, w, L, t
    <2>7. Rate * (served'[u] - w) + bucket'[u].level <= Full + (now - t)
          /\ bucket'[u].level <= Full
      <3>1. CASE served'[u] = s /\ bucket'[u].level = L
        BY <2>2, <2>4, <3>1
      <3>2. CASE served'[u] = s + 1 /\ bucket'[u].level = L - Rate
        <4>1. Rate * (served'[u] - w) = Rate * (s - w) + Rate
          BY <2>3, <3>2
        <4> QED BY <2>1, <2>2, <2>3, <2>4, <3>2, <4>1, Sizes
      <3> QED BY <2>5, <3>1, <3>2
    <2>8. bucket'[u].seen >= watch'.time /\ bucket'[u].seen <= now'
      BY <2>1, <2>5, <2>6
    <2> QED BY <1>3, <2>5, <2>6, <2>7, <2>8 DEF Account
  <1> QED BY <1>2, <1>3

-----------------------------------------------------------------------------
(* The invariant.                                                          *)

LEMMA InitIInv == ThrottleInit => IInv
  <1> SUFFICES ASSUME ThrottleInit
               PROVE  IInv
    OBVIOUS
  <1>1. Rate * (0 - 0) = 0
    BY Sizes
  <1>2. ThrottleTypeOK /\ watch.time <= now
    BY Sizes DEF ThrottleInit, ThrottleTypeOK
  <1>3. ASSUME NEW u \in Ids
        PROVE  Account(u)
    <2>1. /\ bucket[u].level = Full /\ bucket[u].seen = Start /\ now = Start
          /\ watch.time = Start /\ served[u] = 0 /\ watch.served[u] = 0
      BY DEF ThrottleInit
    <2>2. Rate * (served[u] - watch.served[u]) = 0
      BY <1>1, <2>1, Zenon
    <2> QED BY <2>1, <2>2, Sizes DEF Account
  <1>4. Cooled
    BY Sizes DEF ThrottleInit, Cooled
  <1> QED BY <1>2, <1>3, <1>4 DEF IInv, Accounts

\* A heavy action that the cooldown lets past.
LEMMA HeavyKeeps ==
  ASSUME IInv, NEW u \in Ids, NEW a \in Heavy, HeavyUpdate(u, a)
  PROVE  IInv' /\ \A k \in Ids \X Heavy : ran'[k] # ran[k] => ran'[k] - ran[k] >= Cooldown
  <1>1. ThrottleTypeOK /\ watch.time <= now /\ Accounts /\ Cooled
    BY DEF IInv
  <1>2. Account(u) /\ Spend(u) /\ UNCHANGED <<now, watch>>
    BY <1>1 DEF Accounts, HeavyUpdate
  <1>3. /\ bucket' \in [Ids -> [level : Nat, seen : Nat]]
        /\ served' \in [Ids -> Nat]
    BY <1>1, <1>2, SpendIs
  <1>4. <<u, a>> \in Ids \X Heavy
    OBVIOUS
  <1>5. /\ now - pressed[<<u, a>>] >= Cooldown
        /\ pressed' = [pressed EXCEPT ![<<u, a>>] = now]
        /\ ran' = ran \/ ran' = [ran EXCEPT ![<<u, a>>] = now]
    BY DEF HeavyUpdate
  <1>6. now \in Nat /\ pressed \in [Ids \X Heavy -> Nat] /\ ran \in [Ids \X Heavy -> Int]
    BY <1>1 DEF ThrottleTypeOK
  <1>7. pressed' \in [Ids \X Heavy -> Nat] /\ ran' \in [Ids \X Heavy -> Int]
    BY <1>4, <1>5, <1>6
  <1>8. ThrottleTypeOK'
    BY <1>1, <1>2, <1>3, <1>7 DEF ThrottleTypeOK
  <1>9. Accounts'
    BY <1>1, <1>2, SpendKeepsAccounts
  <1>10. ASSUME NEW k \in Ids \X Heavy
         PROVE  ran'[k] <= pressed'[k] /\ (ran'[k] # ran[k] => ran'[k] - ran[k] >= Cooldown)
    <2>1. ran[k] <= pressed[k] /\ ran[k] \in Int /\ pressed[k] \in Nat
      BY <1>1, <1>6 DEF Cooled
    <2>2. CASE k = <<u, a>>
      BY <1>4, <1>5, <1>6, <2>1, <2>2, Sizes
    <2>3. CASE k # <<u, a>>
      BY <1>5, <1>6, <2>1, <2>3
    <2> QED BY <2>2, <2>3
  <1> QED BY <1>1, <1>2, <1>8, <1>9, <1>10 DEF IInv, Cooled

LEMMA LightKeeps ==
  ASSUME IInv, NEW u \in Ids, LightUpdate(u)
  PROVE  IInv'
  <1>1. ThrottleTypeOK /\ watch.time <= now /\ Accounts /\ Cooled
    BY DEF IInv
  <1>2. Account(u) /\ Spend(u) /\ UNCHANGED <<now, watch, pressed, ran>>
    BY <1>1 DEF Accounts, LightUpdate
  <1>3. /\ bucket' \in [Ids -> [level : Nat, seen : Nat]]
        /\ served' \in [Ids -> Nat]
    BY <1>1, <1>2, SpendIs
  <1>4. ThrottleTypeOK' /\ Cooled'
    BY <1>1, <1>2, <1>3 DEF ThrottleTypeOK, Cooled
  <1>5. Accounts'
    BY <1>1, <1>2, SpendKeepsAccounts
  <1> QED BY <1>1, <1>2, <1>4, <1>5 DEF IInv

LEMMA TickKeeps == IInv /\ Tick => IInv'
  <1> SUFFICES ASSUME IInv, Tick
               PROVE  IInv'
    OBVIOUS
  <1>1. now' = now + 1 /\ now \in Nat /\ UNCHANGED <<bucket, pressed, ran, served, watch>>
    BY DEF IInv, ThrottleTypeOK, Tick
  <1>2. ThrottleTypeOK' /\ watch'.time <= now' /\ Cooled'
    BY <1>1 DEF IInv, ThrottleTypeOK, Cooled
  <1>3. Accounts'
    <2>1. \A u \in Ids : bucket[u].seen \in Nat
      BY DEF IInv, ThrottleTypeOK
    <2> QED BY <1>1, <2>1 DEF IInv, Accounts, Account
  <1> QED BY <1>2, <1>3 DEF IInv

LEMMA WatchKeeps == IInv /\ Watch => IInv'
  <1> SUFFICES ASSUME IInv, Watch
               PROVE  IInv'
    OBVIOUS
  <1>1. /\ watch' = [time |-> now, served |-> served]
        /\ UNCHANGED <<now, bucket, pressed, ran, served>>
    BY DEF Watch
  <1>2. ThrottleTypeOK' /\ watch'.time <= now' /\ Cooled'
    BY <1>1 DEF IInv, ThrottleTypeOK, Cooled
  <1>3. ASSUME NEW u \in Ids
        PROVE  Account(u)'
    <2>1. /\ bucket[u].level \in Nat /\ bucket[u].seen \in Nat /\ served[u] \in Nat /\ now \in Nat
          /\ bucket[u].level <= Full /\ bucket[u].seen <= now
      BY DEF IInv, ThrottleTypeOK, Accounts, Account
    <2>2. served[u] - served[u] = 0 /\ Rate * 0 = 0
      BY <2>1, Sizes
    <2>3. Rate * (served[u] - served[u]) = 0
      BY <2>2, Zenon
    <2>4. /\ watch'.time = now /\ watch'.served[u] = served[u]
          /\ now' = now /\ bucket' = bucket /\ served' = served
      BY <1>1
    <2>5. bucket[u].seen >= now =>
            Rate * (served[u] - served[u]) + bucket[u].level <= Full + (bucket[u].seen - now)
      BY <2>1, <2>3, Sizes
    <2> QED BY <2>1, <2>4, <2>5 DEF Account
  <1> QED BY <1>2, <1>3 DEF IInv, Accounts

LEMMA NextKeeps ==
  ASSUME IInv, [ThrottleNext]_tvars
  PROVE  IInv' /\ \A k \in Ids \X Heavy : ran'[k] # ran[k] => ran'[k] - ran[k] >= Cooldown
  <1>1. CASE UNCHANGED tvars
    BY <1>1 DEF tvars, IInv, ThrottleTypeOK, Accounts, Account, Cooled
  <1>2. CASE Tick
    BY <1>2, TickKeeps DEF Tick
  <1>3. CASE Watch
    BY <1>3, WatchKeeps DEF Watch
  <1>4. ASSUME NEW u \in Ids, NEW a \in Heavy \cup {Light}, Update(u, a)
        PROVE  IInv' /\ \A k \in Ids \X Heavy : ran'[k] # ran[k] => ran'[k] - ran[k] >= Cooldown
    <2>1. CASE a \in Heavy
      <3>1. CASE HeavyUpdate(u, a)
        BY <2>1, <3>1, HeavyKeeps
      <3>2. CASE Suppressed(u, a)
        BY <1>1, <3>2 DEF Suppressed
      <3> QED BY <1>4, <2>1, <3>1, <3>2 DEF Update
    <2>2. CASE a \notin Heavy
      <3>1. LightUpdate(u)
        BY <1>4, <2>2 DEF Update
      <3> QED BY <3>1, LightKeeps DEF LightUpdate
    <2> QED BY <2>1, <2>2
  <1> QED BY <1>1, <1>2, <1>3, <1>4 DEF ThrottleNext

LEMMA Inductive == ThrottleSpec => []IInv
  <1>1. IInv /\ [ThrottleNext]_tvars => IInv'
    BY NextKeeps
  <1> QED BY InitIInv, <1>1, PTL DEF ThrottleSpec

-----------------------------------------------------------------------------
(* The theorems.                                                           *)

(* Every reachable state of the throttle is well-typed: a level never      *)
(* goes below zero.                                                        *)
THEOREM TypeCorrect == ThrottleSpec => []ThrottleTypeOK
  <1>1. IInv => ThrottleTypeOK
    BY DEF IInv
  <1> QED BY Inductive, <1>1, PTL

(* ThrottleMiddleware keeps every user's budget: from any moment on, a     *)
(* burst and one update per Rate ticks.                                    *)
THEOREM BudgetIsKept == ThrottleSpec => []BudgetKept
  <1>1. IInv => BudgetKept
    <2> SUFFICES ASSUME IInv, NEW u \in Ids
                 PROVE  Rate * (served[u] - watch.served[u]) <= Full + (now - watch.time)
      BY DEF BudgetKept
    <2>1. /\ now \in Nat /\ watch.time \in Nat /\ watch.time <= now
          /\ served[u] \in Nat /\ watch.served[u] \in Nat
          /\ bucket[u].level \in Nat /\ bucket[u].seen \in Nat
          /\ Account(u)
      BY DEF IInv, ThrottleTypeOK, Accounts
    <2>2. Rate * (served[u] - watch.served[u]) \in Int
      <3>1. served[u] \in Int /\ watch.served[u] \in Int
        BY <2>1
      <3> QED BY <3>1, OneMore, Zenon
    <2>3. CASE bucket[u].seen >= watch.time
      BY <2>1, <2>2, <2>3, Sizes DEF Account
    <2>4. CASE ~(bucket[u].seen >= watch.time)
      <3>1. served[u] - watch.served[u] = 0 /\ Rate * 0 = 0
        BY <2>1, <2>4, Sizes DEF Account
      <3> QED BY <2>1, <3>1, Sizes
    <2> QED BY <2>3, <2>4
  <1> QED BY Inductive, <1>1, PTL

(* Two runs of one heavy action by one user are a cooldown apart, whatever *)
(* the bucket refused in between.                                          *)
THEOREM HeavyRunsApart == ThrottleSpec => HeavyApart
  <1>1. IInv /\ [ThrottleNext]_tvars =>
          [\A k \in Ids \X Heavy : ran'[k] # ran[k] => ran'[k] - ran[k] >= Cooldown]_tvars
    BY NextKeeps
  <1> QED BY Inductive, <1>1, PTL DEF ThrottleSpec, HeavyApart

=============================================================================
