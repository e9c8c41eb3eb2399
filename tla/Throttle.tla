------------------------------ MODULE Throttle ------------------------------
(***************************************************************************)
(* ThrottleMiddleware: a token bucket per user and a cooldown per user and *)
(* heavy action.  The middleware awaits nothing between reading and        *)
(* writing its two dictionaries, so an update is one step.                 *)
(*                                                                         *)
(* Time is a number of ticks of the monotonic clock.  The code counts      *)
(* tokens in floats, one every `rate' seconds; here a token is Rate ticks  *)
(* and the bucket holds ticks, so that nothing is rounded.                 *)
(***************************************************************************)
EXTENDS Integers

CONSTANTS
  Ids,     \* Telegram ids
  Heavy,     \* HEAVY_ACTIONS
  Light,     \* any other update
  Rate,      \* ticks for one token
  Burst,     \* tokens of a full bucket
  Cooldown,  \* ticks between two runs of one heavy action
  Start      \* the monotonic clock when the process starts

ASSUME ThrottleAssumption ==
  /\ Rate \in Nat \ {0}
  /\ Burst \in Nat
  /\ Cooldown \in Nat
  /\ Start \in Nat
  /\ Light \notin Heavy

\* A full bucket.
Full == Rate * Burst

VARIABLES
  now,     \* time.monotonic()
  bucket,  \* _tokens: the level of each user's bucket and when it was stored
  pressed, \* _heavy: when each heavy action was last let past the cooldown
  ran,     \* when each heavy action last reached its handler
  served,  \* how many updates of each user reached their handler
  watch    \* a moment an observer starts counting: the time, served then

tvars == <<now, bucket, pressed, ran, served, watch>>

ThrottleTypeOK ==
  /\ now \in Nat
  /\ bucket \in [Ids -> [level : Nat, seen : Nat]]
  /\ pressed \in [Ids \X Heavy -> Nat]
  /\ ran \in [Ids \X Heavy -> Int]
  /\ served \in [Ids -> Nat]
  /\ watch \in [time : Nat, served : [Ids -> Nat]]

\* A user the middleware has not met has a full bucket as of now, which is what
\* a bucket filled at the start has become by then: Refilled never exceeds Full.
ThrottleInit ==
  /\ now = Start
  /\ bucket = [u \in Ids |-> [level |-> Full, seen |-> Start]]
  /\ pressed = [k \in Ids \X Heavy |-> 0]
  /\ ran = [k \in Ids \X Heavy |-> -Cooldown]
  /\ served = [u \in Ids |-> 0]
  /\ watch = [time |-> Start, served |-> served]

\* Mutant: the bucket is never full.
RefilledPastFull(u) == bucket[u].level + (now - bucket[u].seen)

Refilled(u) ==
  LET level == bucket[u].level + (now - bucket[u].seen)
  IN IF level > Full THEN Full ELSE level

\* The bucket is asked.  An update it refuses is answered and dropped.
Spend(u) ==
  IF Refilled(u) < Rate
  THEN /\ bucket' = [bucket EXCEPT ![u] = [level |-> Refilled(u), seen |-> now]]
       /\ UNCHANGED served
  ELSE /\ bucket' = [bucket EXCEPT ![u] = [level |-> Refilled(u) - Rate, seen |-> now]]
       /\ served' = [served EXCEPT ![u] = @ + 1]

LightUpdate(u) ==
  /\ Spend(u)
  /\ UNCHANGED <<now, pressed, ran, watch>>

\* Mutant: the press is recorded only when the bucket refuses it.
PressForgotten(u, a) ==
  /\ now - pressed[<<u, a>>] >= Cooldown
  /\ Spend(u)
  /\ pressed' = IF served' = served THEN [pressed EXCEPT ![<<u, a>>] = now] ELSE pressed
  /\ ran' = IF served' = served THEN ran ELSE [ran EXCEPT ![<<u, a>>] = now]
  /\ UNCHANGED <<now, watch>>

\* A heavy action past its cooldown: the press is recorded before the bucket is
\* asked, so one that the bucket refuses holds up the next press all the same.
HeavyUpdate(u, a) ==
  /\ now - pressed[<<u, a>>] >= Cooldown
  /\ pressed' = [pressed EXCEPT ![<<u, a>>] = now]
  /\ Spend(u)
  /\ ran' = IF served' = served THEN ran ELSE [ran EXCEPT ![<<u, a>>] = now]
  /\ UNCHANGED <<now, watch>>

\* Too early: answered, and neither dictionary is touched.
Suppressed(u, a) ==
  /\ now - pressed[<<u, a>>] < Cooldown
  /\ UNCHANGED tvars

Update(u, a) ==
  IF a \in Heavy THEN HeavyUpdate(u, a) \/ Suppressed(u, a) ELSE LightUpdate(u)

Tick ==
  /\ now' = now + 1
  /\ UNCHANGED <<bucket, pressed, ran, served, watch>>

Watch ==
  /\ watch' = [time |-> now, served |-> served]
  /\ UNCHANGED <<now, bucket, pressed, ran, served>>

ThrottleNext ==
  \/ \E u \in Ids, a \in Heavy \cup {Light} : Update(u, a)
  \/ Tick
  \/ Watch

ThrottleSpec == ThrottleInit /\ [][ThrottleNext]_tvars

-----------------------------------------------------------------------------
(* The class promises "a cheap per-user rate limit so one advisor cannot   *)
(* flood the render queue": from whatever moment one counts, a user's      *)
(* updates that reach a handler are at most a burst and one per Rate ticks.*)
BudgetKept ==
  \A u \in Ids :
    Rate * (served[u] - watch.served[u]) <= Full + (now - watch.time)

(* Two runs of one heavy action by one user are a cooldown apart, even if  *)
(* presses in between were refused by the bucket.                          *)
HeavyApart ==
  [][\A k \in Ids \X Heavy :
       ran'[k] # ran[k] => ran'[k] - ran[k] >= Cooldown]_tvars

=============================================================================
