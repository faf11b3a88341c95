---------------------------- MODULE SessionProofs ----------------------------
(***************************************************************************)
(* Theorems about Session for all sets of keys, accounts and requests, any *)
(* TTL and any number of ticks a Resolve may take.                         *)
(***************************************************************************)
EXTENDS Session, TLAPS

-----------------------------------------------------------------------------
(* Types, operation by operation. *)

RoutingType ==
  /\ uid      \in [Keys -> Accounts \cup {NoAccount}]
  /\ age      \in [Keys -> 0..MaxAge]
  /\ mirrored \in [Keys -> SUBSET Accounts]

RequestType ==
  /\ phase    \in [Requests -> Phase]
  /\ sticky   \in [Requests -> Accounts \cup {NoAccount}]
  /\ seen     \in [Requests -> SUBSET Accounts]
  /\ delay    \in [Requests -> 0..MaxDelay]
  /\ steady   \in [Requests -> SUBSET Accounts]

LEMMA AgeBounds ==
  /\ MaxAge \in Nat
  /\ 0 \in 0..MaxAge
  /\ 0 \in 0..MaxDelay
  /\ \A d \in 0..MaxDelay : d \in 0..MaxAge
BY SessionAssumption DEF MaxAge

LEMMA WriteType ==
  ASSUME SessionTypeOK, NEW k \in Keys, NEW a \in Accounts \cup {NoAccount},
         NEW d \in 0..MaxAge, Write(k, a, d)
  PROVE  /\ uid' \in [Keys -> Accounts \cup {NoAccount}]
         /\ age' \in [Keys -> 0..MaxAge]
BY DEF SessionTypeOK, Write

LEMMA RemoveType ==
  ASSUME SessionTypeOK, NEW k \in Keys, Remove(k)
  PROVE  /\ uid' \in [Keys -> Accounts \cup {NoAccount}]
         /\ age' \in [Keys -> 0..MaxAge]
BY AgeBounds, WriteType DEF Remove

LEMMA SetBindType ==
  ASSUME SessionTypeOK, NEW k \in Keys, NEW a \in Accounts, SetBind(k, a)
  PROVE  mirrored' \in [Keys -> SUBSET Accounts]
BY DEF SessionTypeOK, SetBind

LEMMA ResolveReturnsType ==
  ASSUME SessionTypeOK, NEW r \in Requests,
         NEW a \in Accounts \cup {NoAccount}, ResolveReturns(r, a)
  PROVE  RequestType'
BY AgeBounds DEF SessionTypeOK, ResolveReturns, RequestType, Phase

LEMMA IdleFirstAvailable ==
  ASSUME NEW k, NEW deleted
  PROVE  IdleFirst(k, deleted) \subseteq avail
BY DEF IdleFirst

LEMMA EndsType ==
  ASSUME SessionTypeOK, NEW r \in Requests, Ends(r)
  PROVE  RequestType'
BY DEF SessionTypeOK, Ends, RequestType, Phase, resolving

-----------------------------------------------------------------------------
(* What a request knows of the accounts available all the time since the   *)
(* start of its Resolve is part of what it was told at the start; and one  *)
(* that renews a binding has an account to renew it with.                  *)

ResolveKnows ==
  \A r \in Requests :
    /\ steady[r] \subseteq seen[r]
    /\ phase[r] = "touching" => sticky[r] \in Accounts

SessionInv == SessionTypeOK /\ ResolveKnows

LEMMA InitSession == SessionInit => SessionInv
BY AgeBounds, SessionAssumption
   DEF SessionInit, SessionInv, SessionTypeOK, ResolveKnows, Phase

LEMMA ResolveStepTyped ==
  ASSUME SessionInv, NEW r \in Requests, ResolveStep(r)
  PROVE  SessionInv'
<1> USE DEF SessionInv
<1>1. key[r] \in Keys /\ delay[r] \in 0..MaxAge
  BY AgeBounds DEF SessionTypeOK
<1>2. CASE LookUp(r)
  <2>1. CASE Live(key[r], delay[r]) /\ uid[key[r]] \in seen[r]
    <3>1. uid[key[r]] \in Accounts
      BY <1>1, <2>1 DEF SessionTypeOK
    <3> QED
      BY <1>2, <2>1, <3>1
         DEF LookUp, SessionTypeOK, ResolveKnows, Phase, resolving
  <2>2. CASE ~(Live(key[r], delay[r]) /\ uid[key[r]] \in seen[r])
    BY <1>2, <2>2
       DEF LookUp, SessionTypeOK, ResolveKnows, Phase, resolving
  <2> QED BY <2>1, <2>2
<1>3. CASE Touch(r)
  <2>1. sticky[r] \in Accounts
    BY <1>3 DEF Touch, ResolveKnows
  <2>2. RoutingType' /\ RequestType'
    BY <1>1, <1>3, <2>1, WriteType, SetBindType, ResolveReturnsType
       DEF Touch, RoutingType
  <2>3. ResolveKnows'
    BY <1>3 DEF Touch, ResolveReturns, ResolveKnows, SessionTypeOK
  <2> QED
    BY <1>3, <2>2, <2>3 DEF Touch, SessionTypeOK, RoutingType, RequestType
<1>4. CASE Allocate(r)
  <2> DEFINE k    == key[r]
             live == Live(k, delay[r])
  <2>1. ResolveKnows'
    BY <1>4 DEF Allocate, ResolveReturns, ResolveKnows, SessionTypeOK
  <2>2. UNCHANGED <<avail, key>>
    BY <1>4 DEF Allocate
  <2>3. CASE /\ live /\ uid[k] \in seen[r]
             /\ Write(k, uid[k], delay[r])
             /\ ResolveReturns(r, uid[k])
             /\ UNCHANGED mirrored
    <3>1. uid[k] \in Accounts
      BY <1>1, <2>3 DEF SessionTypeOK
    <3>2. RoutingType' /\ RequestType'
      BY <1>1, <2>3, <3>1, WriteType, ResolveReturnsType
         DEF RoutingType, SessionTypeOK
    <3> QED
      BY <2>1, <2>2, <3>2 DEF SessionTypeOK, RoutingType, RequestType
  <2>4. CASE /\ ~(live /\ uid[k] \in seen[r])
             /\ \E a \in IdleFirst(k, live) :
                  /\ Write(k, a, delay[r])
                  /\ SetBind(k, a)
                  /\ ResolveReturns(r, a)
    <3>1. PICK a \in IdleFirst(k, live) :
            Write(k, a, delay[r]) /\ SetBind(k, a) /\ ResolveReturns(r, a)
      BY <2>4
    <3>2. a \in Accounts
      BY <3>1, IdleFirstAvailable DEF SessionTypeOK
    <3>3. RoutingType' /\ RequestType'
      BY <1>1, <3>1, <3>2, WriteType, SetBindType, ResolveReturnsType
         DEF RoutingType
    <3> QED
      BY <2>1, <2>2, <3>3 DEF SessionTypeOK, RoutingType, RequestType
  <2>5. CASE /\ avail = {}
             /\ IF live THEN Remove(k) ELSE UNCHANGED <<uid, age>>
             /\ ResolveReturns(r, NoAccount)
             /\ UNCHANGED mirrored
    <3>1. RoutingType' /\ RequestType'
      BY <1>1, <2>5, RemoveType, ResolveReturnsType
         DEF RoutingType, SessionTypeOK
    <3> QED
      BY <2>1, <2>2, <3>1 DEF SessionTypeOK, RoutingType, RequestType
  <2> QED BY <1>4, <2>3, <2>4, <2>5 DEF Allocate
<1> QED BY <1>2, <1>3, <1>4 DEF ResolveStep

LEMMA RequestStepTyped ==
  ASSUME SessionInv, NEW r \in Requests,
         \/ \E k \in Keys : Resolve(r, k)
         \/ Unbind(r)
         \/ \E a \in Accounts : Bind(r, a)
         \/ Fail(r)
  PROVE  SessionInv'
<1> USE DEF SessionInv
<1>1. key[r] \in Keys
  BY DEF SessionTypeOK
<1>2. ASSUME NEW k \in Keys, Resolve(r, k)
      PROVE  SessionInv'
  BY <1>2 DEF Resolve, SessionTypeOK, ResolveKnows, Phase
<1>3. CASE Unbind(r)
  <2>1. RoutingType'
    BY <1>1, <1>3, RemoveType DEF Unbind, RoutingType, SessionTypeOK
  <2>2. ResolveKnows'
    BY <1>3 DEF Unbind, ResolveKnows, SessionTypeOK, resolving
  <2> QED
    BY <1>3, <2>1, <2>2 DEF Unbind, RoutingType, SessionTypeOK, resolving
<1>4. ASSUME Ends(r)
      PROVE  ResolveKnows' /\ RequestType' /\ UNCHANGED <<avail, key>>
  BY <1>4, EndsType DEF Ends, ResolveKnows, SessionTypeOK, resolving
<1>5. ASSUME NEW a \in Accounts, Bind(r, a)
      PROVE  SessionInv'
  <2>1. RoutingType'
    BY <1>1, <1>5, AgeBounds, WriteType, SetBindType DEF Bind, RoutingType
  <2> QED
    BY <1>4, <1>5, <2>1 DEF Bind, SessionTypeOK, RoutingType, RequestType
<1>6. CASE Fail(r)
  BY <1>4, <1>6 DEF Fail, SessionTypeOK, RequestType
<1> QED BY <1>2, <1>3, <1>5, <1>6

LEMMA StepSession == SessionInv /\ [SessionNext]_sessionVars => SessionInv'
<1> SUFFICES ASSUME SessionInv, [SessionNext]_sessionVars
             PROVE  SessionInv'
  OBVIOUS
<1> USE DEF SessionInv
<1>1. CASE gcOnce
  BY <1>1, AgeBounds DEF gcOnce, SessionTypeOK, ResolveKnows, resolving
<1>2. CASE Restart
  BY <1>2, AgeBounds DEF Restart, SessionTypeOK, ResolveKnows, Phase
<1>3. ASSUME NEW S \in SUBSET Accounts, ChangeAvailability(S)
      PROVE  SessionInv'
  BY <1>3 DEF ChangeAvailability, SessionTypeOK, ResolveKnows
<1>4. CASE Tick
  <2>1. delay' \in [Requests -> 0..MaxDelay]
    BY <1>4, SessionAssumption DEF Tick, SessionTypeOK
  <2>2. age' \in [Keys -> 0..MaxAge]
    BY <1>4, AgeBounds DEF Tick, SessionTypeOK
  <2> QED BY <1>4, <2>1, <2>2 DEF Tick, SessionTypeOK, ResolveKnows
<1>5. CASE UNCHANGED sessionVars
  BY <1>5 DEF sessionVars, SessionTypeOK, ResolveKnows
<1> QED
  BY <1>1, <1>2, <1>3, <1>4, <1>5, ResolveStepTyped, RequestStepTyped
     DEF SessionNext

(* Every variable keeps to values of its kind. *)
THEOREM SessionTypeCorrect == SessionSpec => []SessionTypeOK
<1>1. SessionInv => SessionTypeOK
  BY DEF SessionInv
<1> QED BY <1>1, InitSession, StepSession, PTL DEF SessionSpec

-----------------------------------------------------------------------------
(* Stickiness. *)

(* A Resolve that allocates keeps a live binding to an account that was    *)
(* available all the time since its start.                                 *)
LEMMA AllocateKeeps ==
  ASSUME SessionInv, NEW r \in Requests, Allocate(r), NEW k \in Keys,
         uid'[k] # uid[k], age[k] <= TTL, uid[k] # NoAccount
  PROVE  key[r] = k /\ uid[k] \notin steady[r]
<1>1. key[r] \in Keys /\ uid[k] \in Accounts
  BY DEF SessionInv, SessionTypeOK
<1>2. ASSUME NEW a, NEW d, Write(key[r], a, d)
      PROVE  key[r] = k /\ a # uid[k]
  BY <1>1, <1>2 DEF Write, SessionInv, SessionTypeOK
<1>3. key[r] = k
  BY <1>2 DEF Allocate, Remove
<1>4. Live(k, delay[r])
  BY <1>1, SessionAssumption DEF Live, SessionInv, SessionTypeOK
<1>5. uid[k] \notin seen[r]
  BY <1>2, <1>3, <1>4 DEF Allocate
<1> QED BY <1>3, <1>5 DEF SessionInv, ResolveKnows

(* A session keeps its account unless one of the listed reasons applies.   *)
THEOREM StickinessLostOnlyByCorrect == SessionSpec => StickinessLostOnlyBy
<1>1. SessionInv /\ [SessionNext]_sessionVars =>
        [\A k \in Keys :
           uid[k] # NoAccount /\ uid'[k] # uid[k] =>
             \/ age[k] > TTL
             \/ Restart
             \/ \E r \in Requests :
                  /\ key[r] = k
                  /\ \/ Unbind(r)
                     \/ \E a \in Accounts : Bind(r, a)
                     \/ Touch(r)
                     \/ Allocate(r) /\ uid[k] \notin steady[r]]_sessionVars
  <2> SUFFICES ASSUME SessionInv, [SessionNext]_sessionVars, NEW k \in Keys,
                      uid[k] # NoAccount, uid'[k] # uid[k], ~(age[k] > TTL),
                      ~Restart
               PROVE  \E r \in Requests :
                        /\ key[r] = k
                        /\ \/ Unbind(r)
                           \/ \E a \in Accounts : Bind(r, a)
                           \/ Touch(r)
                           \/ Allocate(r) /\ uid[k] \notin steady[r]
    OBVIOUS
  <2>1. age[k] <= TTL
    BY SessionAssumption, AgeBounds DEF SessionInv, SessionTypeOK
  <2>2. ASSUME NEW r \in Requests, NEW a, NEW d, Write(key[r], a, d)
        PROVE  key[r] = k
    BY <2>2 DEF Write, SessionInv, SessionTypeOK
  <2>3. ASSUME NEW r \in Requests, ResolveStep(r)
        PROVE  key[r] = k /\ (Touch(r) \/ (Allocate(r) /\ uid[k] \notin steady[r]))
    <3>1. ~LookUp(r)
      BY DEF LookUp
    <3>2. CASE Touch(r)
      BY <2>2, <3>2 DEF Touch
    <3>3. CASE Allocate(r)
      BY <2>1, <3>3, AllocateKeeps
    <3> QED BY <2>3, <3>1, <3>2, <3>3 DEF ResolveStep
  <2>4. ASSUME NEW r \in Requests, Unbind(r) \/ \E a \in Accounts : Bind(r, a)
        PROVE  key[r] = k
    BY <2>2, <2>4 DEF Unbind, Bind, Remove
  <2>5. \A r \in Requests : ~Fail(r) /\ \A j \in Keys : ~Resolve(r, j)
    BY DEF Fail, Resolve
  <2>6. ~gcOnce
    BY <2>1 DEF gcOnce, SessionInv, SessionTypeOK
  <2>7. /\ \A S \in SUBSET Accounts : ~ChangeAvailability(S)
        /\ ~Tick
        /\ ~UNCHANGED sessionVars
    BY DEF ChangeAvailability, Tick, sessionVars
  <2> QED BY <2>3, <2>4, <2>5, <2>6, <2>7 DEF SessionNext
<1> QED
  BY <1>1, InitSession, StepSession, PTL DEF SessionSpec, StickinessLostOnlyBy
=============================================================================
