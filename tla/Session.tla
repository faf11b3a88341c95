------------------------------- MODULE Session -------------------------------
(***************************************************************************)
(* The sticky session router of src/internal/session/session.go, used by   *)
(* the chat requests of src/internal/server/handler.go: a request whose    *)
(* body has a session key calls Resolve before its first pick, may Unbind  *)
(* the key when the account it was given fails, and Binds it to the        *)
(* account that answered.                                                  *)
(*                                                                         *)
(* Resolve is not atomic: it reads the clock and asks the pool which       *)
(* accounts are available, then looks the key up under the read lock, then *)
(* takes the write lock to renew the binding (touch) or to allocate one.   *)
(* Each of these is a step of its own.                                     *)
(*                                                                         *)
(* Times are ages: age[k] is the time since lastActive of k's entry and    *)
(* delay[r] the time since r read the clock.  The pool appears only as the *)
(* set of available accounts, which changes at will.  hashIndex picks one  *)
(* of the candidates; here any of them may be picked.                      *)
(***************************************************************************)
EXTENDS Integers, FiniteSets

CONSTANTS
  Keys,       \* session keys
  Accounts,   \* uids
  Requests,   \* chat requests
  NoAccount,  \* no binding; no account to prefer
  TTL,        \* session_sticky.ttl
  MaxDelay    \* bound: ticks between the steps of one Resolve

ASSUME SessionAssumption ==
  /\ NoAccount \notin Accounts
  /\ TTL \in Nat \ {0}
  /\ MaxDelay \in Nat

VARIABLES
  uid,       \* entries[k].uid, NoAccount: the key has no entry
  age,       \* time since entries[k].lastActive
  avail,     \* what Pool.AvailableUIDs returns
  phase,     \* where a request is
  key,       \* its session key
  sticky,    \* stickyUID of the request
  seen,      \* the available accounts it was told at the start of Resolve
  delay,     \* time since the start of Resolve
  steady,    \* history: the accounts available all the time since then
  mirrored   \* the accounts SetBind was ever called with for a key

sessionVars == <<uid, age, avail, phase, key, sticky, seen, delay, steady,
                 mirrored>>
resolving   == <<seen, delay, steady>>

Phase == {"idle", "asked", "touching", "allocating", "serving"}
InResolve(r) == phase[r] \in {"asked", "touching", "allocating"}

MaxAge == TTL + MaxDelay + 1

(* expired() negated, for a clock read `d` ago. *)
Live(k, d) == uid[k] # NoAccount /\ age[k] - d <= TTL

-----------------------------------------------------------------------------
SessionInit ==
  /\ uid      = [k \in Keys |-> NoAccount]
  /\ age      = [k \in Keys |-> 0]
  /\ avail    \in SUBSET Accounts
  /\ phase    = [r \in Requests |-> "idle"]
  /\ key      \in [Requests -> Keys]
  /\ sticky   = [r \in Requests |-> NoAccount]
  /\ seen     = [r \in Requests |-> {}]
  /\ delay    = [r \in Requests |-> 0]
  /\ steady   = [r \in Requests |-> {}]
  /\ mirrored = [k \in Keys |-> {}]

-----------------------------------------------------------------------------
(* r.entries[k] = entry{a, a time `d` ago}; SetBind goes to Redis in the   *)
(* background.  These writes are not ordered and may fail, as DelBind may, *)
(* so that Redis may come to hold any account ever sent, or none.          *)
Write(k, a, d) ==
  /\ uid' = [uid EXCEPT ![k] = a]
  /\ age' = [age EXCEPT ![k] = d]

SetBind(k, a) == mirrored' = [mirrored EXCEPT ![k] = @ \cup {a}]

(* The entry is deleted and DelBind sent. *)
Remove(k) == Write(k, NoAccount, 0)

ResolveReturns(r, a) ==
  /\ phase'  = [phase EXCEPT ![r] = "serving"]
  /\ sticky' = [sticky EXCEPT ![r] = a]
  /\ seen'   = [seen EXCEPT ![r] = {}]
  /\ delay'  = [delay EXCEPT ![r] = 0]
  /\ steady' = [steady EXCEPT ![r] = {}]

-----------------------------------------------------------------------------
(* Resolve: the clock and the available accounts are read. *)
Resolve(r, k) ==
  /\ phase[r] = "idle"
  /\ phase'  = [phase EXCEPT ![r] = "asked"]
  /\ key'    = [key EXCEPT ![r] = k]
  /\ seen'   = [seen EXCEPT ![r] = avail]
  /\ steady' = [steady EXCEPT ![r] = avail]
  /\ UNCHANGED <<uid, age, avail, sticky, delay, mirrored>>

(* The look under the read lock: a live binding to an account that was     *)
(* available is returned, once it is renewed.                              *)
LookUp(r) ==
  /\ phase[r] = "asked"
  /\ IF Live(key[r], delay[r]) /\ uid[key[r]] \in seen[r]
     THEN /\ phase'  = [phase EXCEPT ![r] = "touching"]
          /\ sticky' = [sticky EXCEPT ![r] = uid[key[r]]]
     ELSE /\ phase' = [phase EXCEPT ![r] = "allocating"]
          /\ UNCHANGED sticky
  /\ UNCHANGED <<uid, age, avail, key, resolving, mirrored>>

(* touch: written as it was looked up, whatever happened since.            *)
Touch(r) ==
  /\ phase[r] = "touching"
  /\ Write(key[r], sticky[r], delay[r])
  /\ SetBind(key[r], sticky[r])
  /\ ResolveReturns(r, sticky[r])
  /\ UNCHANGED <<avail, key>>

(* The accounts no other entry is bound to, all of them if there are none. *)
(* An expired entry of k itself still counts, one just deleted does not.   *)
IdleFirst(k, deleted) ==
  LET bound == {uid[j] : j \in IF deleted THEN Keys \ {k} ELSE Keys}
  IN  IF avail \subseteq bound THEN avail ELSE avail \ bound

(* Fault: the slow path trusts the look under the read lock. *)
AllocateUnchecked(r) ==
  /\ phase[r] = "allocating"
  /\ \/ \E a \in IdleFirst(key[r], Live(key[r], delay[r])) :
          /\ Write(key[r], a, delay[r])
          /\ SetBind(key[r], a)
          /\ ResolveReturns(r, a)
     \/ /\ avail = {}
        /\ ResolveReturns(r, NoAccount)
        /\ UNCHANGED <<uid, age, mirrored>>
  /\ UNCHANGED <<avail, key>>

(* Under the write lock: look again, else allocate.  The accounts to choose *)
(* from are asked for afresh, but `seen` decides whether to keep.           *)
Allocate(r) ==
  LET k       == key[r]
      live    == Live(k, delay[r])
  IN
  /\ phase[r] = "allocating"
  /\ \/ /\ live /\ uid[k] \in seen[r]
        /\ Write(k, uid[k], delay[r])
        /\ ResolveReturns(r, uid[k])
        /\ UNCHANGED mirrored
     \/ /\ ~(live /\ uid[k] \in seen[r])
        /\ \E a \in IdleFirst(k, live) :
             /\ Write(k, a, delay[r])
             /\ SetBind(k, a)
             /\ ResolveReturns(r, a)
     \/ /\ ~(live /\ uid[k] \in seen[r])
        /\ avail = {}
        /\ IF live THEN Remove(k) ELSE UNCHANGED <<uid, age>>
        /\ ResolveReturns(r, NoAccount)
        /\ UNCHANGED mirrored
  /\ UNCHANGED <<avail, key>>

-----------------------------------------------------------------------------
(* The rest of the request.  Once the account Resolve gave has failed, is  *)
(* full or not available any more, the key is unbound, and the request     *)
(* goes on with other accounts.                                            *)
Unbind(r) ==
  /\ phase[r] = "serving" /\ sticky[r] # NoAccount
  /\ Remove(key[r])
  /\ sticky' = [sticky EXCEPT ![r] = NoAccount]
  /\ UNCHANGED <<avail, phase, key, resolving, mirrored>>

(* The request ends, with an answer from account a or without. *)
Ends(r) ==
  /\ phase[r] = "serving"
  /\ phase'  = [phase EXCEPT ![r] = "idle"]
  /\ sticky' = [sticky EXCEPT ![r] = NoAccount]
  /\ UNCHANGED <<avail, key, resolving>>

Bind(r, a) == Ends(r) /\ Write(key[r], a, 0) /\ SetBind(key[r], a)
Fail(r)    == Ends(r) /\ UNCHANGED <<uid, age, mirrored>>

-----------------------------------------------------------------------------
(* Fault: only keys whose account is gone are collected. *)
gcOnceUnavailable ==
  LET old == {k \in Keys : uid[k] # NoAccount /\ age[k] > TTL
                           /\ uid[k] \notin avail}
  IN  /\ old # {}
      /\ uid' = [k \in Keys |-> IF k \in old THEN NoAccount ELSE uid[k]]
      /\ age' = [k \in Keys |-> IF k \in old THEN 0 ELSE age[k]]
      /\ UNCHANGED <<avail, phase, key, sticky, resolving, mirrored>>

(* gcOnce drops the expired bindings. *)
gcOnce ==
  LET old == {k \in Keys : uid[k] # NoAccount /\ age[k] > TTL}
  IN  /\ old # {}
      /\ uid' = [k \in Keys |-> IF k \in old THEN NoAccount ELSE uid[k]]
      /\ age' = [k \in Keys |-> IF k \in old THEN 0 ELSE age[k]]
      /\ UNCHANGED <<avail, phase, key, sticky, resolving, mirrored>>

(* A restart ends all requests; LoadFromStore then reads what Redis has.   *)
Restart ==
  /\ uid'    \in {f \in [Keys -> Accounts \cup {NoAccount}] :
                    \A k \in Keys : f[k] \in mirrored[k] \cup {NoAccount}}
  /\ age'    = [k \in Keys |-> 0]
  /\ phase'  = [r \in Requests |-> "idle"]
  /\ sticky' = [r \in Requests |-> NoAccount]
  /\ seen'   = [r \in Requests |-> {}]
  /\ delay'  = [r \in Requests |-> 0]
  /\ steady' = [r \in Requests |-> {}]
  /\ UNCHANGED <<avail, key, mirrored>>

(* Accounts cool down, recover, fill up, come and go. *)
ChangeAvailability(S) ==
  /\ S # avail
  /\ avail'  = S
  /\ steady' = [r \in Requests |-> steady[r] \cap S]
  /\ UNCHANGED <<uid, age, phase, key, sticky, seen, delay, mirrored>>

Tick ==
  /\ \A r \in Requests : InResolve(r) => delay[r] < MaxDelay
  /\ delay' = [r \in Requests |-> IF InResolve(r) THEN delay[r] + 1 ELSE 0]
  /\ age'   = [k \in Keys |-> IF uid[k] # NoAccount /\ age[k] < MaxAge
                              THEN age[k] + 1 ELSE age[k]]
  /\ UNCHANGED <<uid, avail, phase, key, sticky, seen, steady, mirrored>>

-----------------------------------------------------------------------------
ResolveStep(r) == LookUp(r) \/ Touch(r) \/ Allocate(r)

SessionNext ==
  \/ \E r \in Requests :
       \/ \E k \in Keys : Resolve(r, k)
       \/ ResolveStep(r)
       \/ Unbind(r)
       \/ \E a \in Accounts : Bind(r, a)
       \/ Fail(r)
  \/ gcOnce
  \/ Restart
  \/ \E S \in SUBSET Accounts : ChangeAvailability(S)
  \/ Tick

SessionSpec == SessionInit /\ [][SessionNext]_sessionVars

(* Time passes, the collector's ticker fires, and a goroutine inside       *)
(* Resolve gets its locks; requests and restarts are not assumed.          *)
FairSessionSpec ==
  /\ SessionSpec
  /\ WF_sessionVars(Tick)
  /\ WF_sessionVars(gcOnce)
  /\ \A r \in Requests : WF_sessionVars(ResolveStep(r))

-----------------------------------------------------------------------------
(* Every variable holds values of its kind. *)
SessionTypeOK ==
  /\ uid      \in [Keys -> Accounts \cup {NoAccount}]
  /\ age      \in [Keys -> 0..MaxAge]
  /\ avail    \in SUBSET Accounts
  /\ phase    \in [Requests -> Phase]
  /\ key      \in [Requests -> Keys]
  /\ sticky   \in [Requests -> Accounts \cup {NoAccount}]
  /\ seen     \in [Requests -> SUBSET Accounts]
  /\ delay    \in [Requests -> 0..MaxDelay]
  /\ steady   \in [Requests -> SUBSET Accounts]
  /\ mirrored \in [Keys -> SUBSET Accounts]

(* A session keeps its account: the binding goes or changes only when it   *)
(* was not used for longer than the TTL, when a request of the session     *)
(* failed on its account or was answered by another one, when a request    *)
(* found the account unavailable at some time during its Resolve, at a     *)
(* restart, or when a request renews what it looked up before such a       *)
(* change.  Two requests that find no binding at the same time do not      *)
(* displace each other's.                                                  *)
StickinessLostOnlyBy ==
  [][\A k \in Keys :
       uid[k] # NoAccount /\ uid'[k] # uid[k] =>
         \/ age[k] > TTL
         \/ Restart
         \/ \E r \in Requests :
              /\ key[r] = k
              /\ \/ Unbind(r)
                 \/ \E a \in Accounts : Bind(r, a)
                 \/ Touch(r)
                 \/ Allocate(r) /\ uid[k] \notin steady[r]]_sessionVars

(* Sessions nobody uses any more are forgotten: once no request resolves a *)
(* key and the process is not restarted, no binding stays.                 *)
IdleSessionsForgotten ==
  <>[][~Restart /\ \A r \in Requests, k \in Keys : ~Resolve(r, k)]_sessionVars
    => \A k \in Keys : <>[](uid[k] = NoAccount)

-----------------------------------------------------------------------------
(* A statement of the comments which the code does not keep. *)

(* Resolve: a session that has a live binding, to an account available at  *)
(* that moment, is not given another one, also when two requests of it     *)
(* resolve at once and the account became available in between.            *)
AvailableBindingKept ==
  [][\A r \in Requests :
       Allocate(r) /\ Live(key[r], delay[r]) /\ uid[key[r]] \in avail =>
         uid'[key[r]] = uid[key[r]]]_sessionVars
=============================================================================
