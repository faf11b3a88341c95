-------------------------------- MODULE Pool --------------------------------
(***************************************************************************)
(* The account pool of src/internal/pool/pool.go: which accounts exist,    *)
(* whether each one is healthy (disabled mark, cooldown, circuit breaker), *)
(* how many requests hold a lease on it, and which account a pick returns. *)
(*                                                                         *)
(* Every exported method of *Pool takes p.mu for its whole body, so each   *)
(* one is a single action here.  A chat request calls several of them in   *)
(* turn (pick, acquire, outcome, release) and anything may happen between  *)
(* two calls; phase and acct hold where a request is and with which        *)
(* account.  Time is discrete: cool[a] and breaker[a] are the time left    *)
(* until the deadlines `until` and `breakerUntil` (0: no deadline, or one  *)
(* that has passed, which the code does not tell apart when it decides).   *)
(*                                                                         *)
(* Left out: credits and the success and error counts, which only bias the *)
(* weighted draw of pick(): any candidate may come first, so any one may   *)
(* be drawn; the free-text reason; lastUsed, which spreads picks within    *)
(* 100 ms among the same candidates.                                       *)
(***************************************************************************)
EXTENDS Integers, FiniteSets

CONSTANTS
  Accounts,            \* the uids that may ever be in the pool
  Requests,            \* the callers: chat requests and model-list fetches
  NoAccount,           \* "no account": acct of a caller that has picked none
  Deletable,           \* the accounts an operator may delete
  MaxInFlight,         \* pool.max_in_flight, 0 = no limit
  BreakerThreshold,    \* pool.breaker_threshold
  BreakerCooldown,     \* pool.breaker_cooldown
  BreakerCooldownMax,  \* pool.breaker_cooldown_max
  SoftCooldown,        \* cooldown.soft
  DayLength, FourAM    \* the length of a day and the hour 04:00, in ticks

ASSUME ConstantsAssumption ==
  /\ NoAccount \notin Accounts
  /\ Deletable \subseteq Accounts
  /\ MaxInFlight \in Nat
  /\ BreakerThreshold \in Nat \ {0}
  /\ BreakerCooldown \in Nat \ {0}
  /\ BreakerCooldownMax \in Nat \ {0}
  /\ SoftCooldown \in Nat \ {0}
  /\ DayLength \in Nat \ {0}
  /\ FourAM \in 0..(DayLength - 1)

ASSUME RequestsFinite == IsFiniteSet(Requests)

VARIABLES
  members,   \* the keys of byUID
  disabled,  \* entry.disabled
  kind,      \* entry.coolKind: CoolHard (the zero value) or CoolSoft
  cool,      \* time left until entry.until
  breaker,   \* time left until entry.breakerUntil
  fails,     \* entry.fails
  backoff,   \* the delay of the next trip: what the loop of
             \* recordBreakerFailureLocked makes of entry.retryCount
  inFlight,  \* entry.inFlight
  phase,     \* where a caller is
  acct,      \* the account the caller has picked or holds
  hour       \* time of day

health   == <<disabled, kind, cool, breaker, fails, backoff>>
callers  == <<phase, acct>>
poolVars == <<members, disabled, kind, cool, breaker, fails, backoff,
              inFlight, phase, acct, hour>>

CoolKind == {"hard", "soft"}
Phase    == {"idle", "picked", "held", "closing"}

-----------------------------------------------------------------------------
(* State functions: entry.healthy, entry.expiry, inFlightFull, pick. *)

Healthy(a) == ~disabled[a] /\ cool[a] = 0 /\ breaker[a] = 0

HardCooling(a) == kind[a] = "hard" /\ cool[a] > 0

Expiry(a) ==
  IF cool[a] = 0 \/ (breaker[a] > 0 /\ breaker[a] < cool[a])
  THEN breaker[a] ELSE cool[a]

InFlightFull(a) == MaxInFlight > 0 /\ inFlight[a] >= MaxInFlight

Candidates(tried) ==
  {a \in members \ tried : Healthy(a) /\ ~InFlightFull(a)}

(* Fault: the fallback does not look at the kind of the cooldown. *)
FallbackWithHard(tried) ==
  {a \in members \ tried :
     ~disabled[a] /\ ~InFlightFull(a) /\ Expiry(a) > 0}

(* Fault: the fallback forgets that a hard cooldown may be over. *)
FallbackByKind(tried) ==
  {a \in members \ tried :
     ~disabled[a] /\ kind[a] # "hard" /\ ~InFlightFull(a) /\ Expiry(a) > 0}

FallbackCandidates(tried) ==
  {a \in members \ tried :
     ~disabled[a] /\ ~HardCooling(a) /\ ~InFlightFull(a) /\ Expiry(a) > 0}

PickEarliestExpiry(tried) ==
  {a \in FallbackCandidates(tried) :
     \A b \in FallbackCandidates(tried) : Expiry(a) <= Expiry(b)}

(* What pick(tried) may return; {} stands for nil. *)
PickResults(tried) ==
  IF Candidates(tried) # {} THEN Candidates(tried)
                            ELSE PickEarliestExpiry(tried)

NextDay4AM == (DayLength - hour) + FourAM

(* Fault: a delay past the cap starts again from the first one. *)
NextBackoffRestarting(d) ==
  IF 2 * d > BreakerCooldownMax THEN BreakerCooldown ELSE 2 * d

(* The body of the loop of recordBreakerFailureLocked: from breakerCooldown *)
(* it is run retryCount times, and the cap is only looked at inside it.     *)
NextBackoff(d) ==
  IF 2 * d >= BreakerCooldownMax THEN BreakerCooldownMax ELSE 2 * d

Holders(a) == {r \in Requests : phase[r] \in {"held", "closing"} /\ acct[r] = a}

-----------------------------------------------------------------------------
PoolInit ==
  /\ members  \in SUBSET Accounts
  /\ disabled = [a \in Accounts |-> FALSE]
  /\ kind     = [a \in Accounts |-> "hard"]
  /\ cool     = [a \in Accounts |-> 0]
  /\ breaker  = [a \in Accounts |-> 0]
  /\ fails    = [a \in Accounts |-> 0]
  /\ backoff  = [a \in Accounts |-> BreakerCooldown]
  /\ inFlight = [a \in Accounts |-> 0]
  /\ phase    = [r \in Requests |-> "idle"]
  /\ acct     = [r \in Requests |-> NoAccount]
  /\ hour     \in 0..(DayLength - 1)

-----------------------------------------------------------------------------
(* Operations on one entry, each under p.mu. *)

RecordBreakerFailure(a) ==
  IF fails[a] + 1 < BreakerThreshold
  THEN /\ fails' = [fails EXCEPT ![a] = @ + 1]
       /\ UNCHANGED <<breaker, backoff>>
  ELSE /\ fails'   = [fails EXCEPT ![a] = 0]
       /\ breaker' = [breaker EXCEPT ![a] = backoff[a]]
       /\ backoff' = [backoff EXCEPT ![a] = NextBackoff(@)]

Cooldown(a, k, d) ==
  IF a \in members
  THEN /\ cool' = [cool EXCEPT ![a] = d]
       /\ kind' = [kind EXCEPT ![a] = k]
       /\ RecordBreakerFailure(a)
       /\ UNCHANGED disabled
  ELSE UNCHANGED health

Disable(a) ==
  /\ disabled' = IF a \in members THEN [disabled EXCEPT ![a] = TRUE]
                                  ELSE disabled
  /\ UNCHANGED <<kind, cool, breaker, fails, backoff>>

NoteError(a) ==
  IF a \in members
  THEN RecordBreakerFailure(a) /\ UNCHANGED <<disabled, kind, cool>>
  ELSE UNCHANGED health

(* Fault: a success is taken for a full recovery. *)
NoteSuccessClearsCooldown(a) ==
  IF a \in members
  THEN /\ fails'   = [fails EXCEPT ![a] = 0]
       /\ backoff' = [backoff EXCEPT ![a] = BreakerCooldown]
       /\ breaker' = [breaker EXCEPT ![a] = 0]
       /\ cool'    = [cool EXCEPT ![a] = 0]
       /\ UNCHANGED <<disabled, kind>>
  ELSE UNCHANGED health

NoteSuccess(a) ==
  IF a \in members
  THEN /\ fails'   = [fails EXCEPT ![a] = 0]
       /\ backoff' = [backoff EXCEPT ![a] = BreakerCooldown]
       /\ breaker' = [breaker EXCEPT ![a] = 0]
       /\ UNCHANGED <<disabled, kind, cool>>
  ELSE UNCHANGED health

(* reviveCoolingLocked: the cooldown goes, the breaker stays. *)
ReviveCooling(a) ==
  /\ cool' = [cool EXCEPT ![a] = 0]
  /\ kind' = [kind EXCEPT ![a] = "hard"]
  /\ UNCHANGED <<disabled, breaker, fails, backoff>>

ClearEntry(a) ==
  /\ disabled' = [disabled EXCEPT ![a] = FALSE]
  /\ kind'     = [kind EXCEPT ![a] = "hard"]
  /\ cool'     = [cool EXCEPT ![a] = 0]
  /\ breaker'  = [breaker EXCEPT ![a] = 0]
  /\ fails'    = [fails EXCEPT ![a] = 0]
  /\ backoff'  = [backoff EXCEPT ![a] = BreakerCooldown]

-----------------------------------------------------------------------------
(* A caller's steps. *)

MoveTo(r, p, a) ==
  /\ phase' = [phase EXCEPT ![r] = p]
  /\ acct'  = [acct EXCEPT ![r] = a]

(* PickExcluding(tried): the caller has already been through `tried`. *)
PickExcluding(r, tried) ==
  /\ phase[r] = "idle"
  /\ \E a \in PickResults(tried) : MoveTo(r, "picked", a)
  /\ UNCHANGED <<members, health, inFlight, hour>>

(* PickByUID: the account bound to the session, whatever was tried. *)
PickByUID(r, a) ==
  /\ phase[r] = "idle"
  /\ a \in Candidates({})
  /\ MoveTo(r, "picked", a)
  /\ UNCHANGED <<members, health, inFlight, hour>>

(* The caller drops its pick: the model is rate limited on that account,   *)
(* or the caller only wanted the model list.                               *)
Skip(r) ==
  /\ phase[r] = "picked"
  /\ MoveTo(r, "idle", NoAccount)
  /\ UNCHANGED <<members, health, inFlight, hour>>

(* fetchDynamicModels: no lease; a failed fetch penalises the account.     *)
FetchModelsFails(r) ==
  /\ phase[r] = "picked"
  /\ NoteError(acct[r])
  /\ MoveTo(r, "idle", NoAccount)
  /\ UNCHANGED <<members, inFlight, hour>>

(* Fault: Acquire trusts the check made by the pick. *)
AcquireWithoutCheck(r) ==
  /\ phase[r] = "picked"
  /\ IF acct[r] \in members
     THEN /\ inFlight' = [inFlight EXCEPT ![acct[r]] = @ + 1]
          /\ MoveTo(r, "held", acct[r])
     ELSE /\ MoveTo(r, "idle", NoAccount)
          /\ UNCHANGED inFlight
  /\ UNCHANGED <<members, health, hour>>

(* Fault: the counter goes up first and stays up when the slot is refused. *)
AcquireCountsFirst(r) ==
  /\ phase[r] = "picked"
  /\ inFlight' = IF acct[r] \in members
                 THEN [inFlight EXCEPT ![acct[r]] = @ + 1]
                 ELSE inFlight
  /\ IF acct[r] \in members /\ ~InFlightFull(acct[r])
     THEN MoveTo(r, "held", acct[r])
     ELSE MoveTo(r, "idle", NoAccount)
  /\ UNCHANGED <<members, health, hour>>

(* Acquire, its compare-and-swap loop taken as one step. *)
Acquire(r) ==
  /\ phase[r] = "picked"
  /\ IF acct[r] \in members /\ ~InFlightFull(acct[r])
     THEN /\ inFlight' = [inFlight EXCEPT ![acct[r]] = @ + 1]
          /\ MoveTo(r, "held", acct[r])
     ELSE /\ MoveTo(r, "idle", NoAccount)
          /\ UNCHANGED inFlight
  /\ UNCHANGED <<members, health, hour>>

(* Fault: no floor under the counter. *)
ReleaseUnclamped(r) ==
  /\ phase[r] \in {"held", "closing"}
  /\ inFlight' = IF acct[r] \in members
                 THEN [inFlight EXCEPT ![acct[r]] = @ - 1]
                 ELSE inFlight
  /\ MoveTo(r, "idle", NoAccount)
  /\ UNCHANGED <<members, health, hour>>

(* Fault: a disabled account is treated as gone. *)
ReleaseUnlessDisabled(r) ==
  /\ phase[r] \in {"held", "closing"}
  /\ inFlight' = IF acct[r] \in members /\ ~disabled[acct[r]]
                    /\ inFlight[acct[r]] > 0
                 THEN [inFlight EXCEPT ![acct[r]] = @ - 1]
                 ELSE inFlight
  /\ MoveTo(r, "idle", NoAccount)
  /\ UNCHANGED <<members, health, hour>>

(* Release looks the uid up again and never goes below zero. *)
Release(r) ==
  /\ phase[r] \in {"held", "closing"}
  /\ inFlight' = IF acct[r] \in members /\ inFlight[acct[r]] > 0
                 THEN [inFlight EXCEPT ![acct[r]] = @ - 1]
                 ELSE inFlight
  /\ MoveTo(r, "idle", NoAccount)
  /\ UNCHANGED <<members, health, hour>>

(* The outcome of the upstream call; the lease is released afterwards. *)
Outcome(r) ==
  /\ phase[r] = "held"
  /\ MoveTo(r, "closing", acct[r])
  /\ UNCHANGED <<members, inFlight, hour>>

HardCredit(r)  == Outcome(r) /\ Cooldown(acct[r], "hard", NextDay4AM)
NotFound(r)    == Outcome(r) /\ Cooldown(acct[r], "soft", SoftCooldown)
SessionDead(r) == Outcome(r) /\ Disable(acct[r])
ServerError(r) == Outcome(r) /\ NoteError(acct[r])
Success(r)     == Outcome(r) /\ NoteSuccess(acct[r])

-----------------------------------------------------------------------------
(* The scheduler and the operator. *)

(* ReenableIfCredits with remain > 0; with remain = 0, or on a disabled    *)
(* account, only the credits change.                                       *)
CheckIn(a) ==
  /\ a \in members /\ ~disabled[a]
  /\ ReviveCooling(a)
  /\ UNCHANGED <<members, inFlight, callers, hour>>

(* The keepalive finds the session dead, or the operator disables. *)
DisableAccount(a) ==
  /\ a \in members
  /\ Disable(a)
  /\ UNCHANGED <<members, inFlight, callers, hour>>

(* Enable: by hand, or after a new login. *)
Enable(a) ==
  /\ a \in members
  /\ ClearEntry(a)
  /\ UNCHANGED <<members, inFlight, callers, hour>>

(* Add of an account the pool does not know: an entry of zero values. *)
AddAccount(a) ==
  /\ a \notin members
  /\ members'  = members \cup {a}
  /\ ClearEntry(a)
  /\ inFlight' = [inFlight EXCEPT ![a] = 0]
  /\ UNCHANGED <<callers, hour>>

(* Soft delete, then SyncToDir drops the entry. *)
DeleteAccount(a) ==
  /\ a \in members \cap Deletable
  /\ members'  = members \ {a}
  /\ ClearEntry(a)
  /\ inFlight' = [inFlight EXCEPT ![a] = 0]
  /\ UNCHANGED <<callers, hour>>

Elapse(t) == [a \in Accounts |-> IF t[a] > 0 THEN t[a] - 1 ELSE 0]

Tick ==
  /\ cool'    = Elapse(cool)
  /\ breaker' = Elapse(breaker)
  /\ hour'    = IF hour + 1 = DayLength THEN 0 ELSE hour + 1
  /\ UNCHANGED <<members, disabled, kind, fails, backoff, inFlight, callers>>

-----------------------------------------------------------------------------
RequestStep(r) ==
  \/ \E tried \in SUBSET Accounts : PickExcluding(r, tried)
  \/ \E a \in Accounts : PickByUID(r, a)
  \/ Skip(r)
  \/ FetchModelsFails(r)
  \/ Acquire(r)
  \/ Release(r)
  \/ HardCredit(r)
  \/ NotFound(r)
  \/ SessionDead(r)
  \/ ServerError(r)
  \/ Success(r)

AccountStep(a) ==
  \/ CheckIn(a)
  \/ DisableAccount(a)
  \/ Enable(a)
  \/ AddAccount(a)
  \/ DeleteAccount(a)

PoolNext ==
  \/ \E r \in Requests : RequestStep(r)
  \/ \E a \in Accounts : AccountStep(a)
  \/ Tick

PoolSpec == PoolInit /\ [][PoolNext]_poolVars

(* Time passes; nothing is assumed of requests, scheduler or operator. *)
FairPoolSpec == PoolSpec /\ WF_poolVars(Tick)

-----------------------------------------------------------------------------
(* Every variable holds values of the kind the Go field holds, and a       *)
(* caller has an account exactly while it is past its pick.                *)
TypeOK ==
  /\ members  \in SUBSET Accounts
  /\ disabled \in [Accounts -> BOOLEAN]
  /\ kind     \in [Accounts -> CoolKind]
  /\ cool     \in [Accounts -> Nat]
  /\ breaker  \in [Accounts -> Nat]
  /\ fails    \in [Accounts -> 0..(BreakerThreshold - 1)]
  /\ backoff  \in [Accounts -> Nat]
  /\ inFlight \in [Accounts -> Nat]
  /\ phase    \in [Requests -> Phase]
  /\ acct     \in [Requests -> Accounts \cup {NoAccount}]
  /\ hour     \in 0..(DayLength - 1)
  /\ \A r \in Requests : (acct[r] = NoAccount) <=> (phase[r] = "idle")

(* The lock-free counter of an account that is never deleted counts        *)
(* exactly the requests holding a lease on it: every path that takes a     *)
(* lease gives it back once.                                               *)
LeaseExact ==
  \A a \in Accounts \ Deletable : inFlight[a] = Cardinality(Holders(a))

(* However many requests pick the same account before any of them acquires *)
(* it, no more than max_in_flight hold it: the check of Pick is stale by   *)
(* the time of Acquire, which decides again.                               *)
LeasesWithinLimit ==
  MaxInFlight > 0 =>
    \A a \in Accounts \ Deletable : Cardinality(Holders(a)) <= MaxInFlight

(* With deletion allowed the counter may only be too small, never too      *)
(* large: a deleted and re-added account is never locked out by leases     *)
(* that were taken on its former entry.                                    *)
NoPhantomLease == \A a \in Accounts : inFlight[a] <= Cardinality(Holders(a))

(* pick returns nil for a fresh request only when every account is         *)
(* disabled, waits for its check-in, or has no free slot: a soft cooldown  *)
(* or an open breaker alone never makes the service unavailable.           *)
NilOnlyWhenNoneUsable ==
  PickResults({}) = {} <=>
    \A a \in members : disabled[a] \/ HardCooling(a) \/ InFlightFull(a)

(* What a pick returns was not tried, is not disabled, not out of credit   *)
(* and not full; and it is cooling only if no healthy account is left.     *)
PickSound ==
  [][\A r \in Requests, tried \in SUBSET Accounts :
       PickExcluding(r, tried) =>
         /\ acct'[r] \in members \ tried
         /\ ~disabled[acct'[r]]
         /\ ~HardCooling(acct'[r])
         /\ ~InFlightFull(acct'[r])
         /\ ~Healthy(acct'[r]) =>
              \A a \in members \ tried : Healthy(a) => InFlightFull(a)]_poolVars

(* Failures of requests that were already in flight when the breaker       *)
(* opened, check-ins, cooldowns and disabling never bring its end nearer:  *)
(* apart from time, only a success, an operator's Enable or deleting and   *)
(* adding the account does.  (With a first delay above the cap the next    *)
(* one would be shorter.)                                                  *)
BreakerNeverShortened ==
  [][BreakerCooldown <= BreakerCooldownMax =>
       \A a \in Accounts :
         \/ breaker'[a] >= breaker[a]
         \/ Tick /\ breaker'[a] = breaker[a] - 1
         \/ Enable(a)
         \/ AddAccount(a)
         \/ DeleteAccount(a)
         \/ \E r \in Requests : acct[r] = a /\ Success(r)]_poolVars

(* A cooldown for lack of credit lasts until its 04:00: a second 402 never *)
(* brings it nearer, and neither failures nor successes lift it; besides   *)
(* the check-in and the operator, only a 404 answered to another request   *)
(* on the account replaces it.                                             *)
HardCooldownLiftedOnlyBy ==
  [][\A a \in Accounts :
       HardCooling(a) =>
         \/ HardCooling(a)' /\ cool'[a] >= cool[a]
         \/ Tick /\ cool'[a] = cool[a] - 1
         \/ CheckIn(a)
         \/ Enable(a)
         \/ AddAccount(a)
         \/ DeleteAccount(a)
         \/ \E r \in Requests : acct[r] = a /\ NotFound(r)]_poolVars

(* An account out of credit is left alone until its cooldown is over: the  *)
(* requests in flight may renew it, but neither pick nor its fallback      *)
(* sends new ones, so it ends even without any check-in.                   *)
HardCooldownEnds == \A a \in Accounts : HardCooling(a) ~> ~HardCooling(a)

-----------------------------------------------------------------------------
(* A statement of the README which the code does not keep. *)

(* An account out of credit is left alone until 04:00, unless it is        *)
(* checked in, enabled by hand or deleted: the answers to other requests   *)
(* that are still under way on it do not end its cooldown.                 *)
HardCooldownLasts ==
  [][\A a \in Accounts :
       HardCooling(a) /\ ~HardCooling(a)' =>
         \/ Tick /\ cool[a] = 1
         \/ CheckIn(a)
         \/ Enable(a)
         \/ DeleteAccount(a)]_poolVars
=============================================================================
