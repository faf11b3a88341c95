----------------------------- MODULE PoolProofs -----------------------------
(***************************************************************************)
(* Theorems about Pool for every set of accounts, every finite set of      *)
(* requests and every value of the limits and durations.                   *)
(***************************************************************************)
EXTENDS Pool, FiniteSetTheorems, WellFoundedInduction, TLAPS

-----------------------------------------------------------------------------
(* Types. *)

LEMMA NextBackoffType ==
  ASSUME NEW d \in Nat
  PROVE  NextBackoff(d) \in Nat
BY ConstantsAssumption DEF NextBackoff

LEMMA RecordBreakerFailureType ==
  ASSUME TypeOK, NEW a \in Accounts, RecordBreakerFailure(a)
  PROVE  /\ fails'   \in [Accounts -> 0..(BreakerThreshold - 1)]
         /\ breaker' \in [Accounts -> Nat]
         /\ backoff' \in [Accounts -> Nat]
<1>1. CASE fails[a] + 1 < BreakerThreshold
  BY <1>1, ConstantsAssumption DEF TypeOK, RecordBreakerFailure
<1>2. CASE ~(fails[a] + 1 < BreakerThreshold)
  BY <1>2, ConstantsAssumption, NextBackoffType
     DEF TypeOK, RecordBreakerFailure
<1> QED BY <1>1, <1>2

HealthType ==
  /\ disabled \in [Accounts -> BOOLEAN]
  /\ kind     \in [Accounts -> CoolKind]
  /\ cool     \in [Accounts -> Nat]
  /\ breaker  \in [Accounts -> Nat]
  /\ fails    \in [Accounts -> 0..(BreakerThreshold - 1)]
  /\ backoff  \in [Accounts -> Nat]

LEMMA CooldownType ==
  ASSUME TypeOK, NEW a \in Accounts, NEW k \in CoolKind, NEW d \in Nat,
         Cooldown(a, k, d)
  PROVE  HealthType'
<1>1. CASE a \in members
  BY <1>1, RecordBreakerFailureType DEF TypeOK, HealthType, Cooldown
<1>2. CASE a \notin members
  BY <1>2 DEF TypeOK, HealthType, Cooldown, health
<1> QED BY <1>1, <1>2

LEMMA NoteErrorType ==
  ASSUME TypeOK, NEW a \in Accounts, NoteError(a)
  PROVE  HealthType'
<1>1. CASE a \in members
  BY <1>1, RecordBreakerFailureType DEF TypeOK, HealthType, NoteError
<1>2. CASE a \notin members
  BY <1>2 DEF TypeOK, HealthType, NoteError, health
<1> QED BY <1>1, <1>2

LEMMA DisableType ==
  ASSUME TypeOK, NEW a \in Accounts, Disable(a)
  PROVE  HealthType'
BY DEF TypeOK, HealthType, Disable

LEMMA NoteSuccessType ==
  ASSUME TypeOK, NEW a \in Accounts, NoteSuccess(a)
  PROVE  HealthType'
BY ConstantsAssumption DEF TypeOK, HealthType, NoteSuccess, health

LEMMA ClearEntryType ==
  ASSUME TypeOK, NEW a \in Accounts, ClearEntry(a)
  PROVE  HealthType'
BY ConstantsAssumption DEF TypeOK, HealthType, ClearEntry, CoolKind

(* The callers' part of the type invariant. *)
CallerType ==
  /\ phase \in [Requests -> Phase]
  /\ acct  \in [Requests -> Accounts \cup {NoAccount}]
  /\ \A r \in Requests : (acct[r] = NoAccount) <=> (phase[r] = "idle")

LEMMA MoveToType ==
  ASSUME TypeOK, NEW r \in Requests, NEW p \in Phase,
         NEW a \in Accounts \cup {NoAccount},
         (a = NoAccount) <=> (p = "idle"),
         MoveTo(r, p, a)
  PROVE  CallerType'
BY DEF TypeOK, CallerType, MoveTo

LEMMA PastPick ==
  ASSUME TypeOK, NEW r \in Requests, phase[r] # "idle"
  PROVE  acct[r] \in Accounts
BY DEF TypeOK

LEMMA InitType == PoolInit => TypeOK
BY ConstantsAssumption DEF PoolInit, TypeOK, CoolKind, Phase

LEMMA RequestStepType ==
  ASSUME TypeOK, NEW r \in Requests, RequestStep(r)
  PROVE  TypeOK'
<1> USE DEF Phase
<1>1. ASSUME NEW tried \in SUBSET Accounts, PickExcluding(r, tried)
      PROVE  TypeOK'
  <2>1. PICK a \in PickResults(tried) : MoveTo(r, "picked", a)
    BY <1>1 DEF PickExcluding
  <2>2. a \in Accounts
    BY <2>1 DEF TypeOK, PickResults, Candidates, PickEarliestExpiry,
                FallbackCandidates
  <2>3. CallerType'
    BY <2>1, <2>2, MoveToType, ConstantsAssumption
  <2> QED
    BY <1>1, <2>3
       DEF TypeOK, CallerType, HealthType, PickExcluding, health
<1>2. ASSUME NEW a \in Accounts, PickByUID(r, a)
      PROVE  TypeOK'
  <2>1. CallerType'
    BY <1>2, MoveToType, ConstantsAssumption DEF PickByUID
  <2> QED
    BY <1>2, <2>1
       DEF TypeOK, CallerType, HealthType, PickByUID, health
<1>3. CASE Skip(r)
  <2>1. CallerType'
    BY <1>3, MoveToType DEF Skip
  <2> QED
    BY <1>3, <2>1
       DEF TypeOK, CallerType, HealthType, Skip, health
<1>4. CASE FetchModelsFails(r)
  <2>1. CallerType'
    BY <1>4, MoveToType DEF FetchModelsFails
  <2>2. HealthType'
    BY <1>4, PastPick, NoteErrorType DEF FetchModelsFails
  <2> QED
    BY <1>4, <2>1, <2>2
       DEF TypeOK, CallerType, HealthType, FetchModelsFails
<1>5. CASE Acquire(r)
  <2>1. acct[r] \in Accounts
    BY <1>5, PastPick DEF Acquire
  <2>2. CallerType'
    BY <1>5, <2>1, MoveToType, ConstantsAssumption DEF Acquire
  <2>3. inFlight' \in [Accounts -> Nat]
    BY <1>5, <2>1 DEF Acquire, TypeOK
  <2> QED
    BY <1>5, <2>2, <2>3
       DEF TypeOK, CallerType, HealthType, Acquire, health
<1>6. CASE Release(r)
  <2>1. acct[r] \in Accounts
    BY <1>6, PastPick DEF Release
  <2>2. CallerType'
    BY <1>6, MoveToType DEF Release
  <2>3. inFlight' \in [Accounts -> Nat]
    BY <1>6, <2>1 DEF Release, TypeOK
  <2> QED
    BY <1>6, <2>2, <2>3
       DEF TypeOK, CallerType, HealthType, Release, health
<1>7. ASSUME Outcome(r), HealthType'
      PROVE  TypeOK'
  <2>1. CallerType'
    BY <1>7, PastPick, MoveToType, ConstantsAssumption DEF Outcome
  <2> QED
    BY <1>7, <2>1
       DEF TypeOK, CallerType, HealthType, Outcome
<1>8. ASSUME Outcome(r) PROVE acct[r] \in Accounts
  BY <1>8, PastPick DEF Outcome
<1>9. NextDay4AM \in Nat
  BY ConstantsAssumption DEF TypeOK, NextDay4AM
<1>10. CASE HardCredit(r)
  BY <1>7, <1>8, <1>9, <1>10, CooldownType DEF HardCredit, CoolKind
<1>11. CASE NotFound(r)
  BY <1>7, <1>8, <1>11, CooldownType, ConstantsAssumption
     DEF NotFound, CoolKind
<1>12. CASE SessionDead(r)
  BY <1>7, <1>8, <1>12, DisableType DEF SessionDead
<1>13. CASE ServerError(r)
  BY <1>7, <1>8, <1>13, NoteErrorType DEF ServerError
<1>14. CASE Success(r)
  BY <1>7, <1>8, <1>14, NoteSuccessType DEF Success
<1> QED
  BY <1>1, <1>2, <1>3, <1>4, <1>5, <1>6, <1>10, <1>11, <1>12, <1>13, <1>14
     DEF RequestStep

LEMMA AccountStepType ==
  ASSUME TypeOK, NEW a \in Accounts, AccountStep(a)
  PROVE  TypeOK'
<1>1. CASE CheckIn(a)
  BY <1>1 DEF CheckIn, ReviveCooling, callers, TypeOK, CoolKind
<1>2. CASE DisableAccount(a)
  BY <1>2 DEF DisableAccount, Disable, callers, TypeOK
<1>3. CASE Enable(a)
  BY <1>3, ClearEntryType
       DEF TypeOK, CallerType, HealthType, Enable, callers
<1>4. CASE AddAccount(a)
  <2>1. HealthType'
    BY <1>4, ClearEntryType DEF AddAccount
  <2> QED
    BY <1>4, <2>1
       DEF TypeOK, CallerType, HealthType, AddAccount, callers
<1>5. CASE DeleteAccount(a)
  <2>1. HealthType'
    BY <1>5, ClearEntryType DEF DeleteAccount
  <2> QED
    BY <1>5, <2>1
       DEF TypeOK, CallerType, HealthType, DeleteAccount, callers
<1> QED
  BY <1>1, <1>2, <1>3, <1>4, <1>5 DEF AccountStep

LEMMA TickType ==
  ASSUME TypeOK, Tick
  PROVE  TypeOK'
BY ConstantsAssumption DEF Tick, Elapse, TypeOK, callers

LEMMA StepType == TypeOK /\ [PoolNext]_poolVars => TypeOK'
<1> SUFFICES ASSUME TypeOK, [PoolNext]_poolVars
             PROVE  TypeOK'
  OBVIOUS
<1>1. CASE PoolNext
  BY <1>1, RequestStepType, AccountStepType, TickType DEF PoolNext
<1>2. CASE UNCHANGED poolVars
  BY <1>2 DEF poolVars, TypeOK
<1> QED BY <1>1, <1>2

(* The variables always have their types: whatever the handler, the        *)
(* scheduler and the operator call, in any order.                          *)
THEOREM TypeCorrect == PoolSpec => []TypeOK
BY InitType, StepType, PTL DEF PoolSpec

-----------------------------------------------------------------------------
(* Leases.  The counter of an account is compared with the set of requests *)
(* holding it.  Inductive only together with two facts about deletion: an  *)
(* account outside the pool counts nothing, and an account that may not be *)
(* deleted is in the pool as long as somebody holds it.                    *)

CounterBounded ==
  \A a \in Accounts : MaxInFlight > 0 => inFlight[a] <= MaxInFlight

AbsentCountsNothing == \A a \in Accounts \ members : inFlight[a] = 0

HeldIsMember ==
  \A r \in Requests :
    phase[r] \in {"held", "closing"} /\ acct[r] \notin Deletable
      => acct[r] \in members

LeaseInv ==
  /\ TypeOK
  /\ CounterBounded
  /\ AbsentCountsNothing
  /\ HeldIsMember
  /\ NoPhantomLease
  /\ LeaseExact

LEMMA HoldersFinite ==
  ASSUME NEW a
  PROVE  /\ IsFiniteSet(Holders(a))
         /\ Cardinality(Holders(a)) \in Nat
         /\ IsFiniteSet(Holders(a)')
         /\ Cardinality(Holders(a)') \in Nat
<1>1. Holders(a) \in SUBSET Requests /\ Holders(a)' \in SUBSET Requests
  BY DEF Holders
<1> QED
  BY <1>1, RequestsFinite, FS_Subset, FS_CardinalityType

LEMMA HoldersSame ==
  ASSUME UNCHANGED callers, NEW b
  PROVE  Holders(b)' = Holders(b)
BY DEF callers, Holders

(* A step between idle and picked, or from held to closing. *)
LEMMA HoldersMove ==
  ASSUME TypeOK, NEW r \in Requests, NEW p, NEW x, MoveTo(r, p, x),
         \/ /\ phase[r] \in {"idle", "picked"}
            /\ p \in {"idle", "picked"}
         \/ /\ phase[r] = "held"
            /\ p = "closing"
            /\ x = acct[r],
         NEW b
  PROVE  Holders(b)' = Holders(b)
BY DEF MoveTo, Holders, TypeOK

LEMMA HoldersGain ==
  ASSUME TypeOK, NEW r \in Requests, phase[r] = "picked",
         MoveTo(r, "held", acct[r]), NEW b \in Accounts
  PROVE  Cardinality(Holders(b)') = IF b = acct[r]
                                    THEN Cardinality(Holders(b)) + 1
                                    ELSE Cardinality(Holders(b))
<1>1. CASE b = acct[r]
  <2>1. Holders(b)' = Holders(b) \cup {r} /\ r \notin Holders(b)
    BY <1>1 DEF MoveTo, Holders, TypeOK
  <2> QED BY <1>1, <2>1, HoldersFinite, FS_AddElement
<1>2. CASE b # acct[r]
  <2>1. Holders(b)' = Holders(b)
    BY <1>2 DEF MoveTo, Holders, TypeOK
  <2> QED BY <1>2, <2>1
<1> QED BY <1>1, <1>2

LEMMA HoldersLose ==
  ASSUME TypeOK, NEW r \in Requests, phase[r] \in {"held", "closing"},
         MoveTo(r, "idle", NoAccount), NEW b \in Accounts
  PROVE  Cardinality(Holders(b)') = IF b = acct[r]
                                    THEN Cardinality(Holders(b)) - 1
                                    ELSE Cardinality(Holders(b))
<1>1. CASE b = acct[r]
  <2>1. Holders(b)' = Holders(b) \ {r} /\ r \in Holders(b)
    BY <1>1, ConstantsAssumption DEF MoveTo, Holders, TypeOK
  <2> QED BY <1>1, <2>1, HoldersFinite, FS_RemoveElement
<1>2. CASE b # acct[r]
  <2>1. Holders(b)' = Holders(b)
    BY <1>2, ConstantsAssumption DEF MoveTo, Holders, TypeOK
  <2> QED BY <1>2, <2>1
<1> QED BY <1>1, <1>2

LEMMA HolderCounts ==
  ASSUME NEW r \in Requests, phase[r] \in {"held", "closing"}
  PROVE  Cardinality(Holders(acct[r])) >= 1
<1>1. r \in Holders(acct[r])
  BY DEF Holders
<1>2. Cardinality(Holders(acct[r])) # 0
  BY <1>1, HoldersFinite, FS_EmptySet
<1> QED BY <1>2, HoldersFinite

(* A step that touches neither counter, membership nor holders. *)
LEMMA LeaseFrame ==
  ASSUME LeaseInv, TypeOK', UNCHANGED <<members, inFlight>>,
         \A b : Holders(b)' = Holders(b),
         \A r \in Requests :
           phase'[r] \in {"held", "closing"} =>
             phase[r] \in {"held", "closing"} /\ acct'[r] = acct[r]
  PROVE  LeaseInv'
BY DEF LeaseInv, CounterBounded, AbsentCountsNothing, HeldIsMember,
       NoPhantomLease, LeaseExact

LEMMA AcquireLease ==
  ASSUME LeaseInv, TypeOK', NEW r \in Requests, Acquire(r)
  PROVE  LeaseInv'
<1> USE DEF LeaseInv
<1>1. CASE acct[r] \in members /\ ~InFlightFull(acct[r])
  <2>1. /\ phase[r] = "picked"
        /\ MoveTo(r, "held", acct[r])
        /\ inFlight' = [inFlight EXCEPT ![acct[r]] = @ + 1]
        /\ members' = members
    BY <1>1 DEF Acquire
  <2>2. acct[r] \in Accounts
    BY <2>1, PastPick
  <2>3. \A b \in Accounts :
          /\ inFlight'[b] = IF b = acct[r] THEN inFlight[b] + 1 ELSE inFlight[b]
          /\ inFlight[b] \in Nat
    BY <2>1, <2>2 DEF TypeOK
  <2>4. \A b \in Accounts :
          Cardinality(Holders(b)') = IF b = acct[r]
                                     THEN Cardinality(Holders(b)) + 1
                                     ELSE Cardinality(Holders(b))
    BY <2>1, HoldersGain
  <2>5. CounterBounded'
    BY <1>1, <2>2, <2>3, ConstantsAssumption DEF CounterBounded, InFlightFull
  <2>6. AbsentCountsNothing'
    BY <1>1, <2>1, <2>3 DEF AbsentCountsNothing
  <2>7. HeldIsMember'
    BY <1>1, <2>1 DEF HeldIsMember, MoveTo, TypeOK
  <2>8. NoPhantomLease'
    BY <2>3, <2>4, HoldersFinite DEF NoPhantomLease
  <2>9. LeaseExact'
    BY <2>3, <2>4, HoldersFinite DEF LeaseExact
  <2> QED BY <2>5, <2>6, <2>7, <2>8, <2>9
<1>2. CASE ~(acct[r] \in members /\ ~InFlightFull(acct[r]))
  <2>1. /\ phase[r] = "picked"
        /\ MoveTo(r, "idle", NoAccount)
        /\ UNCHANGED <<members, inFlight>>
    BY <1>2 DEF Acquire
  <2>2. \A b : Holders(b)' = Holders(b)
    BY <2>1, HoldersMove
  <2> QED
    BY <2>1, <2>2, LeaseFrame DEF MoveTo, TypeOK
<1> QED BY <1>1, <1>2

LEMMA ReleaseLease ==
  ASSUME LeaseInv, TypeOK', NEW r \in Requests, Release(r)
  PROVE  LeaseInv'
<1> USE DEF LeaseInv
<1>1. /\ phase[r] \in {"held", "closing"}
      /\ MoveTo(r, "idle", NoAccount)
      /\ members' = members
  BY DEF Release
<1>2. acct[r] \in Accounts
  BY <1>1, PastPick
<1>3. \A b \in Accounts :
        /\ inFlight[b] \in Nat
        /\ inFlight'[b] = IF b = acct[r] /\ b \in members /\ inFlight[b] > 0
                          THEN inFlight[b] - 1 ELSE inFlight[b]
  BY <1>2 DEF Release, TypeOK
<1>4. \A b \in Accounts :
        Cardinality(Holders(b)') = IF b = acct[r]
                                   THEN Cardinality(Holders(b)) - 1
                                   ELSE Cardinality(Holders(b))
  BY <1>1, HoldersLose
<1>5. Cardinality(Holders(acct[r])) >= 1
  BY <1>1, HolderCounts
<1>6. CounterBounded'
  BY <1>3, ConstantsAssumption DEF CounterBounded
<1>7. AbsentCountsNothing'
  BY <1>1, <1>3 DEF AbsentCountsNothing
<1>8. HeldIsMember'
  BY <1>1 DEF HeldIsMember, MoveTo, TypeOK
<1>9. NoPhantomLease'
  BY <1>3, <1>4, <1>5, HoldersFinite
     DEF NoPhantomLease, AbsentCountsNothing
<1>10. LeaseExact'
  <2> SUFFICES ASSUME NEW b \in Accounts \ Deletable
               PROVE  inFlight'[b] = Cardinality(Holders(b)')
    BY DEF LeaseExact
  <2>1. inFlight[b] = Cardinality(Holders(b))
    BY DEF LeaseExact
  <2>2. CASE b = acct[r]
    <3>1. b \in members /\ inFlight[b] > 0
      BY <1>1, <1>5, <2>1, <2>2, HoldersFinite DEF HeldIsMember
    <3> QED BY <1>3, <1>4, <2>1, <2>2, <3>1
  <2>3. CASE b # acct[r]
    BY <1>3, <1>4, <2>1, <2>3
  <2> QED BY <2>2, <2>3
<1> QED BY <1>6, <1>7, <1>8, <1>9, <1>10

LEMMA InitLease == PoolInit => LeaseInv
<1> SUFFICES ASSUME PoolInit PROVE LeaseInv
  OBVIOUS
<1>1. TypeOK
  BY InitType
<1>2. \A a : Holders(a) = {}
  BY DEF PoolInit, Holders
<1>3. \A a : Cardinality(Holders(a)) = 0
  BY <1>2, FS_EmptySet
<1> QED
  BY <1>1, <1>3, ConstantsAssumption
     DEF PoolInit, LeaseInv, CounterBounded, AbsentCountsNothing,
         HeldIsMember, NoPhantomLease, LeaseExact

LEMMA RequestStepLease ==
  ASSUME LeaseInv, TypeOK', NEW r \in Requests, RequestStep(r)
  PROVE  LeaseInv'
<1>1. ASSUME NEW p, NEW x, MoveTo(r, p, x),
             \/ /\ phase[r] \in {"idle", "picked"}
                /\ p \in {"idle", "picked"}
             \/ /\ phase[r] = "held"
                /\ p = "closing"
                /\ x = acct[r],
             UNCHANGED <<members, inFlight>>
      PROVE  LeaseInv'
  <2>1. \A b : Holders(b)' = Holders(b)
    BY <1>1, HoldersMove DEF LeaseInv
  <2> QED
    BY <1>1, <2>1, LeaseFrame DEF MoveTo, TypeOK, LeaseInv
<1>2. ASSUME NEW tried \in SUBSET Accounts, PickExcluding(r, tried)
      PROVE  LeaseInv'
  BY <1>1, <1>2 DEF PickExcluding
<1>3. ASSUME NEW a \in Accounts, PickByUID(r, a)
      PROVE  LeaseInv'
  BY <1>1, <1>3 DEF PickByUID
<1>4. CASE Skip(r)
  BY <1>1, <1>4 DEF Skip
<1>5. CASE FetchModelsFails(r)
  BY <1>1, <1>5 DEF FetchModelsFails
<1>6. CASE Acquire(r)
  BY <1>6, AcquireLease
<1>7. CASE Release(r)
  BY <1>7, ReleaseLease
<1>8. CASE Outcome(r)
  BY <1>1, <1>8 DEF Outcome
<1> QED
  BY <1>2, <1>3, <1>4, <1>5, <1>6, <1>7, <1>8
     DEF RequestStep, HardCredit, NotFound, SessionDead, ServerError, Success

LEMMA AccountStepLease ==
  ASSUME LeaseInv, TypeOK', NEW a \in Accounts, AccountStep(a)
  PROVE  LeaseInv'
<1>1. UNCHANGED callers
  BY DEF AccountStep, CheckIn, DisableAccount, Enable, AddAccount,
         DeleteAccount
<1>2. \A b : Holders(b)' = Holders(b)
  BY <1>1, HoldersSame
<1>3. \A b : Cardinality(Holders(b)) \in Nat
  BY HoldersFinite
<1>4. CASE UNCHANGED <<members, inFlight>>
  BY <1>1, <1>2, <1>4, LeaseFrame DEF callers
<1>5. CASE AddAccount(a)
  <2>1. /\ a \notin members
        /\ members' = members \cup {a}
        /\ inFlight' = [inFlight EXCEPT ![a] = 0]
        /\ inFlight[a] = 0
    BY <1>5 DEF AddAccount, LeaseInv, AbsentCountsNothing
  <2>2. inFlight' = inFlight
    BY <2>1 DEF LeaseInv, TypeOK
  <2> QED
    BY <1>1, <1>2, <2>1, <2>2
       DEF LeaseInv, CounterBounded, AbsentCountsNothing, HeldIsMember,
           NoPhantomLease, LeaseExact, callers
<1>6. CASE DeleteAccount(a)
  <2>1. /\ a \in Deletable
        /\ members' = members \ {a}
        /\ \A b \in Accounts :
             inFlight'[b] = IF b = a THEN 0 ELSE inFlight[b]
    BY <1>6 DEF DeleteAccount, LeaseInv, TypeOK
  <2> QED
    BY <1>1, <1>2, <1>3, <2>1, ConstantsAssumption
       DEF LeaseInv, CounterBounded, AbsentCountsNothing, HeldIsMember,
           NoPhantomLease, LeaseExact, callers
<1> QED
  BY <1>4, <1>5, <1>6 DEF AccountStep, CheckIn, DisableAccount, Enable

LEMMA StepLease == LeaseInv /\ [PoolNext]_poolVars => LeaseInv'
<1> SUFFICES ASSUME LeaseInv, [PoolNext]_poolVars
             PROVE  LeaseInv'
  OBVIOUS
<1>1. TypeOK'
  BY StepType DEF LeaseInv
<1>2. CASE Tick \/ UNCHANGED poolVars
  <2>1. UNCHANGED callers /\ UNCHANGED <<members, inFlight>>
    BY <1>2 DEF Tick, poolVars, callers
  <2>2. \A b : Holders(b)' = Holders(b)
    BY <2>1, HoldersSame
  <2> QED
    BY <1>1, <2>1, <2>2, LeaseFrame DEF callers
<1> QED
  BY <1>1, <1>2, RequestStepLease, AccountStepLease DEF PoolNext

LEMMA LeaseLimit == LeaseInv => LeasesWithinLimit
BY ConstantsAssumption
   DEF LeaseInv, LeasesWithinLimit, LeaseExact, CounterBounded

(* However requests interleave, the counter of an account that is never    *)
(* deleted is the number of requests holding it.                           *)
THEOREM LeaseExactCorrect == PoolSpec => []LeaseExact
<1>1. LeaseInv => LeaseExact
  BY DEF LeaseInv
<1> QED BY <1>1, InitLease, StepLease, PTL DEF PoolSpec

(* No more than max_in_flight requests hold such an account.               *)
THEOREM LeasesWithinLimitCorrect == PoolSpec => []LeasesWithinLimit
BY InitLease, StepLease, LeaseLimit, PTL DEF PoolSpec

(* Even with deletion no counter exceeds the number of holders: no slot is *)
(* lost for good.                                                          *)
THEOREM NoPhantomLeaseCorrect == PoolSpec => []NoPhantomLease
<1>1. LeaseInv => NoPhantomLease
  BY DEF LeaseInv
<1> QED BY <1>1, InitLease, StepLease, PTL DEF PoolSpec

-----------------------------------------------------------------------------
(* Picking. *)

LEMMA SmallestElement ==
  ASSUME NEW T \in SUBSET Nat, T # {}
  PROVE  \E x \in T : \A y \in T : x <= y
<1>1. \E x \in T : \A y \in T : <<y, x>> \notin OpToRel(<, Nat)
  BY NatLessThanWellFounded, WFMin
<1>2. PICK x \in T : \A y \in T : <<y, x>> \notin OpToRel(<, Nat)
  BY <1>1
<1>3. ASSUME NEW y \in T PROVE x <= y
  <2>1. <<y, x>> \in Nat \X Nat /\ <<y, x>>[1] = y /\ <<y, x>>[2] = x
    BY <1>2
  <2>2. ~(y < x)
    BY <1>2, <2>1 DEF OpToRel
  <2> QED BY <2>2
<1> QED BY <1>2, <1>3

LEMMA ExpiryType ==
  ASSUME TypeOK, NEW a \in Accounts
  PROVE  /\ Expiry(a) \in Nat
         /\ Expiry(a) = 0 <=> (cool[a] = 0 /\ breaker[a] = 0)
BY DEF TypeOK, Expiry

LEMMA FallbackFinds ==
  ASSUME TypeOK, NEW tried \in SUBSET Accounts, FallbackCandidates(tried) # {}
  PROVE  PickEarliestExpiry(tried) # {}
<1> DEFINE T == {Expiry(a) : a \in FallbackCandidates(tried)}
<1>1. FallbackCandidates(tried) \subseteq Accounts
  BY DEF FallbackCandidates, TypeOK
<1>2. T \in SUBSET Nat /\ T # {}
  BY <1>1, ExpiryType
<1>3. PICK x \in T : \A y \in T : x <= y
  <2> HIDE DEF T
  <2> QED BY <1>2, SmallestElement
<1>4. PICK a \in FallbackCandidates(tried) : x = Expiry(a)
  BY <1>3
<1>5. a \in PickEarliestExpiry(tried)
  BY <1>3, <1>4 DEF PickEarliestExpiry
<1> QED BY <1>5

LEMMA NilMeansNoneUsable == TypeOK => NilOnlyWhenNoneUsable
<1> SUFFICES ASSUME TypeOK PROVE NilOnlyWhenNoneUsable
  OBVIOUS
<1>1. ASSUME NEW a \in members, PickResults({}) = {}
      PROVE  disabled[a] \/ HardCooling(a) \/ InFlightFull(a)
  <2>1. Candidates({}) = {} /\ PickEarliestExpiry({}) = {}
    BY <1>1 DEF PickResults
  <2>2. FallbackCandidates({}) = {}
    BY <2>1, FallbackFinds
  <2>3. a \in Accounts
    BY DEF TypeOK
  <2>4. ~Healthy(a) \/ InFlightFull(a)
    BY <2>1 DEF Candidates
  <2>5. disabled[a] \/ HardCooling(a) \/ InFlightFull(a) \/ ~(Expiry(a) > 0)
    BY <2>2 DEF FallbackCandidates
  <2> QED
    BY <2>3, <2>4, <2>5, ExpiryType DEF Healthy, TypeOK
<1>2. ASSUME \A a \in members :
               disabled[a] \/ HardCooling(a) \/ InFlightFull(a)
      PROVE  PickResults({}) = {}
  <2>1. Candidates({}) = {}
    BY <1>2 DEF Candidates, Healthy, HardCooling, TypeOK
  <2>2. FallbackCandidates({}) = {}
    BY <1>2 DEF FallbackCandidates
  <2> QED
    BY <2>1, <2>2 DEF PickResults, PickEarliestExpiry
<1> QED BY <1>1, <1>2 DEF NilOnlyWhenNoneUsable

(* A fresh request is refused only when every account is disabled, waiting *)
(* for its check-in, or full, however many accounts there are.             *)
THEOREM NilOnlyWhenNoneUsableCorrect == PoolSpec => []NilOnlyWhenNoneUsable
BY TypeCorrect, NilMeansNoneUsable, PTL

LEMMA PickStepSound ==
  ASSUME TypeOK, NEW r \in Requests, NEW tried \in SUBSET Accounts,
         PickExcluding(r, tried)
  PROVE  /\ acct'[r] \in members \ tried
         /\ ~disabled[acct'[r]]
         /\ ~HardCooling(acct'[r])
         /\ ~InFlightFull(acct'[r])
         /\ ~Healthy(acct'[r]) =>
              \A a \in members \ tried : Healthy(a) => InFlightFull(a)
<1>1. PICK a \in PickResults(tried) : MoveTo(r, "picked", a)
  BY DEF PickExcluding
<1>2. acct'[r] = a
  BY <1>1 DEF MoveTo, TypeOK
<1>3. CASE a \in Candidates(tried)
  BY <1>2, <1>3 DEF Candidates, Healthy, HardCooling, TypeOK
<1>4. CASE Candidates(tried) = {} /\ a \in FallbackCandidates(tried)
  BY <1>2, <1>4 DEF FallbackCandidates, Candidates
<1> QED
  BY <1>1, <1>3, <1>4 DEF PickResults, PickEarliestExpiry

(* A pick never returns an account that was tried, is disabled, out of     *)
(* credit or full, and a cooling one only when no healthy one is left.     *)
THEOREM PickSoundCorrect == PoolSpec => PickSound
<1>1. TypeOK /\ [PoolNext]_poolVars =>
        [\A r \in Requests, tried \in SUBSET Accounts :
           PickExcluding(r, tried) =>
             /\ acct'[r] \in members \ tried
             /\ ~disabled[acct'[r]]
             /\ ~HardCooling(acct'[r])
             /\ ~InFlightFull(acct'[r])
             /\ ~Healthy(acct'[r]) =>
                  \A a \in members \ tried : Healthy(a) => InFlightFull(a)]_poolVars
  BY PickStepSound
<1> QED BY <1>1, TypeCorrect, PTL DEF PoolSpec, PickSound

-----------------------------------------------------------------------------
(* The breaker.  A trip while the breaker is open (requests that were in   *)
(* flight when it opened may fail too) sets the end to the next delay, so  *)
(* it does not move nearer if the time left never exceeds the next delay.  *)

BackoffInv ==
  /\ TypeOK
  /\ BreakerCooldown <= BreakerCooldownMax =>
       \A a \in Accounts : /\ breaker[a] <= backoff[a]
                           /\ backoff[a] <= BreakerCooldownMax

LEMMA NextBackoffGrows ==
  ASSUME NEW d \in Nat, d <= BreakerCooldownMax
  PROVE  d <= NextBackoff(d) /\ NextBackoff(d) <= BreakerCooldownMax
BY ConstantsAssumption DEF NextBackoff

LEMMA InitBackoff == PoolInit => BackoffInv
BY InitType, ConstantsAssumption DEF PoolInit, BackoffInv

(* How an action of PoolNext treats the breaker of account b. *)
Untouched(b) == breaker'[b] = breaker[b] /\ backoff'[b] = backoff[b]
Failed(b)    == /\ breaker'[b] = backoff[b]
                /\ backoff'[b] = NextBackoff(backoff[b])
Reset(b)     == breaker'[b] = 0 /\ backoff'[b] = BreakerCooldown
Elapsed(b)   == /\ breaker'[b] = IF breaker[b] > 0 THEN breaker[b] - 1 ELSE 0
                /\ backoff'[b] = backoff[b]

LEMMA RecordEffect ==
  ASSUME TypeOK, NEW a \in Accounts, RecordBreakerFailure(a),
         NEW b \in Accounts
  PROVE  Untouched(b) \/ Failed(b)
BY DEF RecordBreakerFailure, TypeOK, Untouched, Failed

LEMMA CooldownEffect ==
  ASSUME TypeOK, NEW a \in Accounts, NEW k, NEW d, Cooldown(a, k, d),
         NEW b \in Accounts
  PROVE  Untouched(b) \/ Failed(b)
BY RecordEffect DEF Cooldown, health, Untouched

LEMMA NoteErrorEffect ==
  ASSUME TypeOK, NEW a \in Accounts, NoteError(a), NEW b \in Accounts
  PROVE  Untouched(b) \/ Failed(b)
BY RecordEffect DEF NoteError, health, Untouched

LEMMA ResetEffect ==
  ASSUME TypeOK, NEW a \in Accounts, NoteSuccess(a) \/ ClearEntry(a),
         NEW b \in Accounts
  PROVE  Untouched(b) \/ (b = a /\ Reset(b))
BY DEF NoteSuccess, ClearEntry, TypeOK, Untouched, Reset, health

LEMMA StepEffect ==
  ASSUME TypeOK, [PoolNext]_poolVars, NEW b \in Accounts
  PROVE  \/ Untouched(b)
         \/ Failed(b)
         \/ Tick /\ Elapsed(b)
         \/ /\ Reset(b)
            /\ \/ Enable(b)
               \/ AddAccount(b)
               \/ DeleteAccount(b)
               \/ \E r \in Requests : acct[r] = b /\ Success(r)
<1>1. ASSUME NEW r \in Requests, RequestStep(r)
      PROVE  \/ Untouched(b)
             \/ Failed(b)
             \/ Reset(b) /\ acct[r] = b /\ Success(r)
  <2>1. CASE UNCHANGED health
    BY <2>1 DEF health, Untouched
  <2>2. CASE FetchModelsFails(r)
    BY <2>2, PastPick, NoteErrorEffect DEF FetchModelsFails
  <2>3. ASSUME Outcome(r) PROVE acct[r] \in Accounts
    BY <2>3, PastPick DEF Outcome
  <2>4. CASE HardCredit(r) \/ NotFound(r)
    BY <2>3, <2>4, CooldownEffect DEF HardCredit, NotFound
  <2>5. CASE SessionDead(r)
    BY <2>5 DEF SessionDead, Disable, Untouched
  <2>6. CASE ServerError(r)
    BY <2>3, <2>6, NoteErrorEffect DEF ServerError
  <2>7. CASE Success(r)
    BY <2>3, <2>7, ResetEffect DEF Success
  <2> QED
    BY <1>1, <2>1, <2>2, <2>4, <2>5, <2>6, <2>7
       DEF RequestStep, PickExcluding, PickByUID, Skip, Acquire, Release
<1>2. ASSUME NEW a \in Accounts, AccountStep(a)
      PROVE  \/ Untouched(b)
             \/ /\ Reset(b)
                /\ Enable(b) \/ AddAccount(b) \/ DeleteAccount(b)
  <2>1. CASE CheckIn(a) \/ DisableAccount(a)
    BY <2>1 DEF CheckIn, ReviveCooling, DisableAccount, Disable, Untouched
  <2>2. CASE Enable(a) \/ AddAccount(a) \/ DeleteAccount(a)
    <3>1. Untouched(b) \/ (b = a /\ Reset(b))
      BY <2>2, ResetEffect DEF Enable, AddAccount, DeleteAccount
    <3> QED BY <2>2, <3>1
  <2> QED BY <1>2, <2>1, <2>2 DEF AccountStep
<1>3. Tick => Elapsed(b)
  BY DEF Tick, Elapse, Elapsed
<1>4. UNCHANGED poolVars => Untouched(b)
  BY DEF poolVars, Untouched
<1> QED BY <1>1, <1>2, <1>3, <1>4 DEF PoolNext

LEMMA StepBackoff == BackoffInv /\ [PoolNext]_poolVars => BackoffInv'
<1> SUFFICES ASSUME BackoffInv, [PoolNext]_poolVars
             PROVE  BackoffInv'
  OBVIOUS
<1>1. TypeOK /\ TypeOK'
  BY StepType DEF BackoffInv
<1>2. ASSUME BreakerCooldown <= BreakerCooldownMax, NEW b \in Accounts
      PROVE  breaker'[b] <= backoff'[b] /\ backoff'[b] <= BreakerCooldownMax
  <2>1. /\ breaker[b] \in Nat /\ backoff[b] \in Nat
        /\ breaker[b] <= backoff[b]
        /\ backoff[b] <= BreakerCooldownMax
    BY <1>1, <1>2 DEF BackoffInv, TypeOK
  <2>2. \/ Untouched(b) \/ Failed(b) \/ Elapsed(b) \/ Reset(b)
    BY <1>1, StepEffect
  <2>3. CASE Untouched(b) \/ Elapsed(b)
    BY <2>1, <2>3 DEF Untouched, Elapsed
  <2>4. CASE Failed(b)
    BY <2>1, <2>4, NextBackoffGrows DEF Failed
  <2>5. CASE Reset(b)
    BY <1>2, <2>5, ConstantsAssumption DEF Reset
  <2> QED BY <2>2, <2>3, <2>4, <2>5
<1> QED BY <1>1, <1>2 DEF BackoffInv

(* Apart from time, only a success on the account, an operator's Enable or *)
(* its deletion brings the end of the breaker nearer, provided the first   *)
(* delay is within the cap.                                                *)
THEOREM BreakerNeverShortenedCorrect == PoolSpec => BreakerNeverShortened
<1>1. BackoffInv /\ [PoolNext]_poolVars =>
        [BreakerCooldown <= BreakerCooldownMax =>
           \A a \in Accounts :
             \/ breaker'[a] >= breaker[a]
             \/ Tick /\ breaker'[a] = breaker[a] - 1
             \/ Enable(a)
             \/ AddAccount(a)
             \/ DeleteAccount(a)
             \/ \E r \in Requests : acct[r] = a /\ Success(r)]_poolVars
  <2> SUFFICES ASSUME BackoffInv, [PoolNext]_poolVars,
                      BreakerCooldown <= BreakerCooldownMax,
                      NEW a \in Accounts
               PROVE  \/ breaker'[a] >= breaker[a]
                      \/ Tick /\ breaker'[a] = breaker[a] - 1
                      \/ Enable(a)
                      \/ AddAccount(a)
                      \/ DeleteAccount(a)
                      \/ \E r \in Requests : acct[r] = a /\ Success(r)
    OBVIOUS
  <2>1. /\ breaker[a] \in Nat /\ backoff[a] \in Nat
        /\ breaker[a] <= backoff[a]
    BY DEF BackoffInv, TypeOK
  <2>2. \/ Untouched(a)
        \/ Failed(a)
        \/ Tick /\ Elapsed(a)
        \/ /\ Reset(a)
           /\ \/ Enable(a)
              \/ AddAccount(a)
              \/ DeleteAccount(a)
              \/ \E r \in Requests : acct[r] = a /\ Success(r)
    BY StepEffect DEF BackoffInv
  <2> QED BY <2>1, <2>2 DEF Untouched, Failed, Elapsed
<1> QED
  BY <1>1, InitBackoff, StepBackoff, PTL DEF PoolSpec, BreakerNeverShortened

-----------------------------------------------------------------------------
(* Hard cooldowns.  A second 402 sets the end to the next 04:00 from now;  *)
(* that is no nearer than the current end because no hard cooldown reaches *)
(* beyond the next 04:00, whatever the time of day it was set at.          *)

HardUntilNext4AM ==
  /\ TypeOK
  /\ \A a \in Accounts : HardCooling(a) => cool[a] <= NextDay4AM

LEMMA UntilNext4AM ==
  ASSUME NEW h \in 0..(DayLength - 1)
  PROVE  (DayLength - h) + FourAM \in Nat
BY ConstantsAssumption

LEMMA Next4AMType == TypeOK => NextDay4AM \in Nat
BY UntilNext4AM DEF TypeOK, NextDay4AM

(* The passing of a tick does not bring the next 04:00 nearer by more than *)
(* one.                                                                    *)
LEMMA Next4AMElapses ==
  ASSUME TypeOK, Tick
  PROVE  NextDay4AM' >= NextDay4AM - 1
BY ConstantsAssumption DEF TypeOK, Tick, NextDay4AM

LEMMA InitHard == PoolInit => HardUntilNext4AM
BY InitType DEF PoolInit, HardUntilNext4AM, HardCooling

(* How an action of PoolNext treats the cooldown of account b. *)
Kept(b)      == cool'[b] = cool[b] /\ kind'[b] = kind[b]
HardSet(b)   == cool'[b] = NextDay4AM /\ kind'[b] = "hard"
SoftSet(b)   == kind'[b] = "soft"
Lifted(b)    == cool'[b] = 0
Shrunk(b)    == /\ cool'[b] = IF cool[b] > 0 THEN cool[b] - 1 ELSE 0
                /\ kind'[b] = kind[b]

LEMMA CooldownSets ==
  ASSUME TypeOK, NEW a \in Accounts, NEW k \in CoolKind, NEW d \in Nat,
         Cooldown(a, k, d), NEW b \in Accounts
  PROVE  Kept(b) \/ (b = a /\ cool'[b] = d /\ kind'[b] = k)
BY DEF Cooldown, health, TypeOK, Kept

LEMMA StepCool ==
  ASSUME TypeOK, [PoolNext]_poolVars, NEW b \in Accounts
  PROVE  \/ Kept(b) /\ hour' = hour
         \/ HardSet(b) /\ hour' = hour
         \/ /\ SoftSet(b)
            /\ \E r \in Requests : acct[r] = b /\ NotFound(r)
         \/ Tick /\ Shrunk(b)
         \/ /\ Lifted(b)
            /\ CheckIn(b) \/ Enable(b) \/ AddAccount(b) \/ DeleteAccount(b)
<1>1. ASSUME NEW r \in Requests, RequestStep(r)
      PROVE  /\ hour' = hour
             /\ \/ Kept(b)
                \/ HardSet(b)
                \/ SoftSet(b) /\ acct[r] = b /\ NotFound(r)
  <2>1. hour' = hour
    BY <1>1 DEF RequestStep, PickExcluding, PickByUID, Skip,
                FetchModelsFails, Acquire, Release, Outcome, HardCredit,
                NotFound, SessionDead, ServerError, Success
  <2>2. CASE UNCHANGED <<kind, cool>>
    BY <2>1, <2>2 DEF Kept
  <2>3. ASSUME Outcome(r) PROVE acct[r] \in Accounts
    BY <2>3, PastPick DEF Outcome
  <2>4. CASE HardCredit(r)
    BY <2>1, <2>3, <2>4, CooldownSets, Next4AMType
       DEF HardCredit, HardSet, CoolKind
  <2>5. CASE NotFound(r)
    BY <2>1, <2>3, <2>5, CooldownSets, ConstantsAssumption
       DEF NotFound, SoftSet, CoolKind
  <2> QED
    BY <1>1, <2>2, <2>4, <2>5
       DEF RequestStep, PickExcluding, PickByUID, Skip, FetchModelsFails,
           Acquire, Release, SessionDead, ServerError, Success, NoteError,
           Disable, NoteSuccess, health
<1>2. ASSUME NEW a \in Accounts, AccountStep(a)
      PROVE  \/ Kept(b) /\ hour' = hour
             \/ /\ Lifted(b)
                /\ CheckIn(b) \/ Enable(b) \/ AddAccount(b) \/ DeleteAccount(b)
  <2>1. hour' = hour
    BY <1>2 DEF AccountStep, CheckIn, DisableAccount, Enable, AddAccount,
                DeleteAccount
  <2>2. CASE DisableAccount(a)
    BY <2>1, <2>2 DEF DisableAccount, Disable, Kept
  <2>3. CASE ~DisableAccount(a)
    <3>1. ReviveCooling(a) \/ ClearEntry(a)
      BY <1>2, <2>3 DEF AccountStep, CheckIn, Enable, AddAccount, DeleteAccount
    <3>2. Kept(b) \/ (b = a /\ Lifted(b))
      BY <3>1 DEF ReviveCooling, ClearEntry, TypeOK, Kept, Lifted
    <3> QED BY <1>2, <2>1, <2>3, <3>2 DEF AccountStep
  <2> QED BY <2>2, <2>3
<1>3. Tick => Shrunk(b)
  BY DEF Tick, Elapse, Shrunk
<1>4. UNCHANGED poolVars => Kept(b) /\ hour' = hour
  BY DEF poolVars, Kept
<1> QED BY <1>1, <1>2, <1>3, <1>4 DEF PoolNext

LEMMA StepHard == HardUntilNext4AM /\ [PoolNext]_poolVars => HardUntilNext4AM'
<1> SUFFICES ASSUME HardUntilNext4AM, [PoolNext]_poolVars
             PROVE  HardUntilNext4AM'
  OBVIOUS
<1>1. TypeOK /\ TypeOK'
  BY StepType DEF HardUntilNext4AM
<1>2. NextDay4AM \in Nat /\ NextDay4AM' \in Nat
  <2>1. NextDay4AM \in Nat
    BY <1>1, Next4AMType
  <2>2. hour' \in 0..(DayLength - 1)
    BY <1>1 DEF TypeOK
  <2>3. (DayLength - hour') + FourAM \in Nat
    BY <2>2, UntilNext4AM
  <2> QED BY <2>1, <2>3 DEF NextDay4AM
<1>3. ASSUME NEW b \in Accounts, kind'[b] = "hard", cool'[b] > 0
      PROVE  cool'[b] <= NextDay4AM'
  <2>1. /\ cool[b] \in Nat
        /\ HardCooling(b) => cool[b] <= NextDay4AM
    BY <1>1 DEF TypeOK, HardUntilNext4AM
  <2>2. CASE hour' = hour /\ (Kept(b) \/ HardSet(b))
    BY <1>2, <1>3, <2>1, <2>2 DEF Kept, HardSet, HardCooling, NextDay4AM
  <2>3. CASE SoftSet(b) \/ Lifted(b)
    BY <1>3, <2>3 DEF SoftSet, Lifted
  <2>4. CASE Tick /\ Shrunk(b)
    <3>1. NextDay4AM' >= NextDay4AM - 1
      BY <1>1, <2>4, Next4AMElapses
    <3> QED
      BY <1>2, <1>3, <2>1, <2>4, <3>1 DEF Shrunk, HardCooling
  <2> QED BY <1>1, <2>2, <2>3, <2>4, StepCool
<1> QED BY <1>1, <1>3 DEF HardUntilNext4AM, HardCooling

(* A cooldown for lack of credit keeps its end: only time, the check-in,   *)
(* the operator, or a 404 to a request already in flight end it earlier.   *)
THEOREM HardCooldownLiftedOnlyByCorrect == PoolSpec => HardCooldownLiftedOnlyBy
<1>1. HardUntilNext4AM /\ [PoolNext]_poolVars =>
        [\A a \in Accounts :
           HardCooling(a) =>
             \/ HardCooling(a)' /\ cool'[a] >= cool[a]
             \/ Tick /\ cool'[a] = cool[a] - 1
             \/ CheckIn(a)
             \/ Enable(a)
             \/ AddAccount(a)
             \/ DeleteAccount(a)
             \/ \E r \in Requests : acct[r] = a /\ NotFound(r)]_poolVars
  <2> SUFFICES ASSUME HardUntilNext4AM, [PoolNext]_poolVars,
                      NEW a \in Accounts, HardCooling(a)
               PROVE  \/ HardCooling(a)' /\ cool'[a] >= cool[a]
                      \/ Tick /\ cool'[a] = cool[a] - 1
                      \/ CheckIn(a)
                      \/ Enable(a)
                      \/ AddAccount(a)
                      \/ DeleteAccount(a)
                      \/ \E r \in Requests : acct[r] = a /\ NotFound(r)
    OBVIOUS
  <2>1. TypeOK /\ cool[a] \in Nat /\ cool[a] <= NextDay4AM /\ cool[a] > 0
    BY DEF HardUntilNext4AM, HardCooling, TypeOK
  <2>2. CASE Kept(a) \/ HardSet(a)
    BY <2>1, <2>2, Next4AMType DEF Kept, HardSet, HardCooling
  <2>3. CASE Tick /\ Shrunk(a)
    BY <2>1, <2>3 DEF Shrunk
  <2> QED BY <2>1, <2>2, <2>3, StepCool
<1> QED
  BY <1>1, InitHard, StepHard, PTL DEF PoolSpec, HardCooldownLiftedOnlyBy

-----------------------------------------------------------------------------
(* Refinement of Leases.  Deleting an account forgets the leases on it, so *)
(* it is the accounts nobody may delete that the pool leases out.          *)

Lasting == Accounts \ Deletable

Leased == {<<r, acct[r]>> :
             r \in {q \in Requests : /\ phase[q] \in {"held", "closing"}
                                     /\ acct[q] \in Lasting}}

L == INSTANCE Leases WITH Accounts <- Lasting, holds <- Leased

LEMMA LeasedIs ==
  ASSUME NEW r \in Requests, NEW a
  PROVE  /\ <<r, a>> \in Leased <=>
              phase[r] \in {"held", "closing"} /\ acct[r] = a /\ a \in Lasting
         /\ <<r, a>> \in Leased' <=>
              phase'[r] \in {"held", "closing"} /\ acct'[r] = a /\ a \in Lasting
BY DEF Leased, Lasting

(* The abstract specification counts the holders the counters count. *)
LEMMA AbstractCount ==
  ASSUME LeaseInv, NEW a \in Lasting
  PROVE  L!Cardinality(L!HoldersOf(a)) = inFlight[a]
<1>1. L!HoldersOf(a) = Holders(a)
  BY LeasedIs DEF L!HoldersOf, Holders
<1>2. inFlight[a] = Cardinality(Holders(a))
  BY DEF LeaseInv, LeaseExact, Lasting
<1> QED BY <1>1, <1>2 DEF L!Cardinality, Cardinality

(* A caller that goes on without a lease, or with the one it has. *)
LEMMA LeasedSame ==
  ASSUME TypeOK, NEW r \in Requests, NEW p, NEW x, MoveTo(r, p, x),
         \/ /\ phase[r] \in {"idle", "picked"}
            /\ p \in {"idle", "picked"}
         \/ /\ phase[r] = "held"
            /\ p = "closing"
            /\ x = acct[r]
  PROVE  Leased' = Leased
BY DEF MoveTo, Leased, Lasting, TypeOK

(* A caller enters or leaves its lease: on an account that may be deleted  *)
(* this is nothing the abstract specification speaks of.                   *)
LEMMA LeasedGain ==
  ASSUME TypeOK, NEW r \in Requests, phase[r] = "picked",
         MoveTo(r, "held", acct[r])
  PROVE  Leased' = IF acct[r] \in Lasting THEN Leased \cup {<<r, acct[r]>>}
                                       ELSE Leased
<1>1. \A q \in Requests :
        /\ phase'[q] = IF q = r THEN "held" ELSE phase[q]
        /\ acct'[q] = acct[q]
  BY DEF MoveTo, TypeOK
<1> QED BY <1>1 DEF Leased, Lasting

LEMMA LeasedLose ==
  ASSUME TypeOK, NEW r \in Requests, phase[r] \in {"held", "closing"},
         MoveTo(r, "idle", NoAccount)
  PROVE  Leased' = IF acct[r] \in Lasting THEN Leased \ {<<r, acct[r]>>}
                                       ELSE Leased
<1>1. \A q \in Requests :
        /\ phase'[q] = IF q = r THEN "idle" ELSE phase[q]
        /\ q # r => acct'[q] = acct[q]
  BY DEF MoveTo, TypeOK
<1> QED BY <1>1 DEF Leased, Lasting

LEMMA AcquireTakes ==
  ASSUME LeaseInv, NEW r \in Requests, Acquire(r)
  PROVE  [L!LeasesNext]_Leased
<1>1. CASE acct[r] \in members /\ ~InFlightFull(acct[r])
  <2>1. phase[r] = "picked" /\ MoveTo(r, "held", acct[r])
    BY <1>1 DEF Acquire
  <2>2. CASE acct[r] \in Lasting
    <3>1. Leased' = Leased \cup {<<r, acct[r]>>}
      BY <2>1, <2>2, LeasedGain DEF LeaseInv
    <3>2. ~L!Holding(r)
      BY <2>1, LeasedIs DEF L!Holding
    <3>3. MaxInFlight > 0 => inFlight[acct[r]] < MaxInFlight
      BY <1>1, <2>2, ConstantsAssumption
         DEF InFlightFull, LeaseInv, TypeOK, Lasting
    <3>4. L!Take(r, acct[r])
      BY <2>2, <3>1, <3>2, <3>3, AbstractCount DEF L!Take
    <3> QED BY <2>2, <3>4 DEF L!LeasesNext
  <2>3. CASE acct[r] \notin Lasting
    BY <2>1, <2>3, LeasedGain DEF LeaseInv
  <2> QED BY <2>2, <2>3
<1>2. CASE ~(acct[r] \in members /\ ~InFlightFull(acct[r]))
  BY <1>2, LeasedSame DEF Acquire, LeaseInv
<1> QED BY <1>1, <1>2

LEMMA ReleaseGives ==
  ASSUME LeaseInv, NEW r \in Requests, Release(r)
  PROVE  [L!LeasesNext]_Leased
<1>1. phase[r] \in {"held", "closing"} /\ MoveTo(r, "idle", NoAccount)
  BY DEF Release
<1>2. CASE acct[r] \in Lasting
  <2>1. Leased' = Leased \ {<<r, acct[r]>>}
    BY <1>1, <1>2, LeasedLose DEF LeaseInv
  <2>2. <<r, acct[r]>> \in Leased
    BY <1>1, <1>2, LeasedIs
  <2> QED BY <1>2, <2>1, <2>2 DEF L!Give, L!LeasesNext
<1>3. CASE acct[r] \notin Lasting
  BY <1>1, <1>3, LeasedLose DEF LeaseInv
<1> QED BY <1>2, <1>3

LEMMA StepLeased ==
  ASSUME LeaseInv, [PoolNext]_poolVars
  PROVE  [L!LeasesNext]_Leased
<1>1. ASSUME NEW r \in Requests, RequestStep(r)
      PROVE  [L!LeasesNext]_Leased
  <2>0. TypeOK
    BY DEF LeaseInv
  <2>1. CASE Acquire(r)
    BY <2>1, AcquireTakes
  <2>2. CASE Release(r)
    BY <2>2, ReleaseGives
  <2>3. ASSUME NEW tried \in SUBSET Accounts, PickExcluding(r, tried)
        PROVE  Leased' = Leased
    BY <2>0, <2>3, LeasedSame DEF PickExcluding
  <2>4. ASSUME NEW a \in Accounts, PickByUID(r, a)
        PROVE  Leased' = Leased
    BY <2>0, <2>4, LeasedSame DEF PickByUID
  <2>5. CASE Skip(r) \/ FetchModelsFails(r)
    BY <2>0, <2>5, LeasedSame DEF Skip, FetchModelsFails
  <2>6. CASE Outcome(r)
    BY <2>0, <2>6, LeasedSame DEF Outcome
  <2> QED
    BY <1>1, <2>1, <2>2, <2>3, <2>4, <2>5, <2>6
       DEF RequestStep, HardCredit, NotFound, SessionDead, ServerError,
           Success
<1>2. CASE UNCHANGED callers
  BY <1>2 DEF callers, Leased
<1>3. ASSUME NEW a \in Accounts, AccountStep(a)
      PROVE  UNCHANGED callers
  BY <1>3 DEF AccountStep, CheckIn, DisableAccount, Enable, AddAccount,
              DeleteAccount
<1>4. CASE Tick \/ UNCHANGED poolVars
  BY <1>2, <1>4 DEF Tick, poolVars, callers
<1> QED BY <1>1, <1>2, <1>3, <1>4 DEF PoolNext

(* Acquire and Release of the pool implement the leases: on an account     *)
(* nobody may delete every step takes one below the limit, gives back one  *)
(* that was held, or changes none.                                         *)
THEOREM PoolImplementsLeases == PoolSpec => L!LeasesSpec
<1>1. PoolInit => L!LeasesInit
  BY DEF PoolInit, L!LeasesInit, Leased
<1> QED
  BY <1>1, InitLease, StepLease, StepLeased, PTL DEF PoolSpec, L!LeasesSpec
=============================================================================
