-------------------------------- MODULE Chat --------------------------------
(***************************************************************************)
(* The rotation loop of chatCompletions (src/internal/server/handler.go)   *)
(* with the memory of rate limited models (modellimit.go), seen by many    *)
(* requests at once.  A request resolves its session, then goes through at *)
(* most MaxRotate rounds: pick an account, skip it if the model is rate    *)
(* limited there, take a lease, ask upstream, and on failure penalise,     *)
(* release, unbind and go on with another account.  Each call on the pool, *)
(* the session router and the limit memory is a step of its own, and so is *)
(* each critical section of Resolve (src/internal/session/session.go).     *)
(*                                                                         *)
(* The health of the accounts, and with it the penalties, is the matter of *)
(* Pool.  Between any two steps of a request anything may have happened to *)
(* it, so here a pick may find any account healthy or unusable as long as  *)
(* it has a free slot, and may find none.  Accounts are not deleted.       *)
(* A binding that has expired counts as none; ages, and the account set a  *)
(* Resolve has asked for at its start, are in Session: here what it finds  *)
(* bound may have been available then or not.                              *)
(* Repeating a call that the channel check of upstream refused (code       *)
(* 11128) on the same account is part of one upstream call; what is        *)
(* written to the client is left out.                                      *)
(***************************************************************************)
EXTENDS Integers, FiniteSets

CONSTANTS
  Accounts, Requests, Keys, Models,
  NoAccount, NoKey,
  MaxInFlight,   \* pool.max_in_flight, 0 = no limit
  MaxRotate      \* rounds of one request

ASSUME ChatAssumption ==
  /\ NoAccount \notin Accounts
  /\ NoKey \notin Keys
  /\ MaxInFlight \in Nat
  /\ MaxRotate \in Nat \ {0}

(* A process serves finitely many requests; HeldCounted counts them. *)
ASSUME RequestsFinite == IsFiniteSet(Requests)

VARIABLES
  inFlight,  \* entry.inFlight
  limits,    \* the account and model pairs within a rate limit window
  entries,   \* session key -> account, as long as it has not expired
  req        \* the requests' local variables

chatVars == <<inFlight, limits, entries, req>>

Stage  == {"idle", "resolve", "touch", "allocate", "pick", "check", "claim",
           "held", "failed", "limited", "unbind", "bind", "relay", "leave"}

(* Besides the local variables of the code (held is heldUID, acct the      *)
(* account of this round) a request remembers, for the properties only:    *)
(* refused, the accounts that have failed it or have answered 429 within   *)
(* the present limit window; rebound, how another request has bound its    *)
(* key since the request itself last wrote the binding: by a decision      *)
(* ("bound") or by renewing what it had looked up before ("touched").      *)
RequestState ==
  [stage   : Stage,
   model   : Models,
   key     : Keys \cup {NoKey},
   round   : 0..MaxRotate,
   tried   : SUBSET Accounts,
   sticky  : Accounts \cup {NoAccount},
   acct    : Accounts \cup {NoAccount},
   held    : Accounts \cup {NoAccount},
   next    : {"pick", "leave"},
   refused : SUBSET (Accounts \X {"failed", "rated"}),
   rebound : {"no", "touched", "bound"}]

Blank(m) ==
  [stage |-> "idle", model |-> m, key |-> NoKey, round |-> 0, tried |-> {},
   sticky |-> NoAccount, acct |-> NoAccount, held |-> NoAccount,
   next |-> "pick", refused |-> {}, rebound |-> "no"]

(* Fault: a round that comes to nothing is not counted. *)
NextRoundUncounted(s) == [s EXCEPT !.stage = "pick", !.acct = NoAccount]

NextRound(s) ==
  [s EXCEPT !.stage = "pick", !.round = @ + 1, !.acct = NoAccount]

-----------------------------------------------------------------------------
(* There is a free slot on a. *)
Free(a) == MaxInFlight = 0 \/ inFlight[a] < MaxInFlight

(* Release, which never goes below zero. *)
GiveBack(a) ==
  inFlight' = [inFlight EXCEPT ![a] = IF @ > 0 THEN @ - 1 ELSE 0]

-----------------------------------------------------------------------------
ChatInit ==
  /\ inFlight = [a \in Accounts |-> 0]
  /\ limits   = {}
  /\ entries  = [k \in Keys |-> NoAccount]
  /\ req      \in [Requests -> {Blank(m) : m \in Models}]

-----------------------------------------------------------------------------
(* Request r goes on as s; the others learn that key k was bound anew, and *)
(* how, or that the rate limit of model m on account a is lifted.          *)
Becomes(r, s) == req' = [req EXCEPT ![r] = s]

BecomesBound(r, s, k, how) ==
  req' = [q \in Requests |->
            IF q = r THEN s
            ELSE [req[q] EXCEPT !.rebound = IF req[q].key = k THEN how ELSE @]]

Lifted(q, a, m) ==
  IF req[q].model = m THEN [req[q] EXCEPT !.refused = @ \ {<<a, "rated">>}]
                      ELSE req[q]

(* The request arrives; with a session key, Resolve comes first. *)
Begin(r, k, m) ==
  /\ req[r].stage = "idle"
  /\ Becomes(r, [Blank(m) EXCEPT
       !.stage = IF k = NoKey THEN "pick" ELSE "resolve", !.key = k])
  /\ UNCHANGED <<inFlight, limits, entries>>

(* Resolve, under the read lock: an account bound that was available is    *)
(* returned once it is renewed, otherwise one is allocated.                *)
LookUp(r) ==
  LET a == entries[req[r].key] IN
  /\ req[r].stage = "resolve"
  /\ \/ /\ a # NoAccount
        /\ Becomes(r, [req[r] EXCEPT !.stage = "touch", !.sticky = a])
     \/ Becomes(r, [req[r] EXCEPT !.stage = "allocate"])
  /\ UNCHANGED <<inFlight, limits, entries>>

(* touch: the account looked up is written, whatever the key is bound to   *)
(* by now.                                                                 *)
Touch(r) ==
  LET s == [req[r] EXCEPT !.stage = "pick", !.rebound = "no"] IN
  /\ req[r].stage = "touch"
  /\ entries' = [entries EXCEPT ![s.key] = s.sticky]
  /\ BecomesBound(r, s, s.key, "touched")
  /\ UNCHANGED <<inFlight, limits>>

(* Resolve, under the write lock: what is bound by now is kept, or another *)
(* account bound, or there is none.                                        *)
Allocate(r) ==
  LET k == req[r].key
      Given(a) == [req[r] EXCEPT !.stage = "pick", !.sticky = a,
                                 !.rebound = "no"]
  IN
  /\ req[r].stage = "allocate"
  /\ \/ /\ Becomes(r, Given(entries[k]))
        /\ UNCHANGED entries
     \/ \E a \in Accounts \ {entries[k]} :
          /\ Free(a)
          /\ entries' = [entries EXCEPT ![k] = a]
          /\ BecomesBound(r, Given(a), k, "bound")
     \/ /\ entries' = [entries EXCEPT ![k] = NoAccount]
        /\ Becomes(r, Given(NoAccount))
  /\ UNCHANGED <<inFlight, limits>>

(* Fault: when the pool has no account left the next round is tried. *)
GiveUpAtEnd(r) ==
  /\ req[r].stage = "pick" /\ req[r].round = MaxRotate
  /\ Becomes(r, [req[r] EXCEPT !.stage = "leave"])
  /\ UNCHANGED <<inFlight, limits, entries>>

(* The rounds are used up, or the pool has no account left to try. *)
GiveUp(r) ==
  /\ req[r].stage = "pick"
  /\ \/ req[r].round = MaxRotate
     \/ req[r].sticky = NoAccount  \* whatever is left may be unusable
  /\ Becomes(r, [req[r] EXCEPT !.stage = "leave"])
  /\ UNCHANGED <<inFlight, limits, entries>>

(* The sticky account is not available any more: its session is unbound,   *)
(* and this round goes on without it.                                      *)
StickyLost(r) ==
  /\ req[r].stage = "pick" /\ req[r].round < MaxRotate
  /\ req[r].sticky # NoAccount
  /\ Becomes(r, [req[r] EXCEPT !.stage = "unbind"])
  /\ UNCHANGED <<inFlight, limits, entries>>

(* Fault: one round too many. *)
PickOneMore(r) ==
  /\ req[r].stage = "pick" /\ req[r].round <= MaxRotate
  /\ \E a \in IF req[r].sticky = NoAccount
              THEN Accounts \ req[r].tried
              ELSE {req[r].sticky} :
       /\ Free(a)
       /\ Becomes(r, [req[r] EXCEPT !.stage = "check", !.acct = a,
                                    !.tried = @ \cup {a}])
  /\ UNCHANGED <<inFlight, limits, entries>>

(* PickByUID of the sticky account, whatever was tried, else PickExcluding. *)
Pick(r) ==
  /\ req[r].stage = "pick" /\ req[r].round < MaxRotate
  /\ \E a \in IF req[r].sticky = NoAccount
              THEN Accounts \ req[r].tried
              ELSE {req[r].sticky} :
       /\ Free(a)
       /\ Becomes(r, [req[r] EXCEPT !.stage = "check", !.acct = a,
                                    !.tried = @ \cup {a}])
  /\ UNCHANGED <<inFlight, limits, entries>>

(* Rate limited for this model: another round; a sticky account is left    *)
(* for this request, but its session is not unbound.                       *)
SkipLimited(r) ==
  /\ req[r].stage = "check"
  /\ <<req[r].acct, req[r].model>> \in limits
  /\ Becomes(r, [NextRound(req[r]) EXCEPT
       !.sticky = IF @ = req[r].acct THEN NoAccount ELSE @])
  /\ UNCHANGED <<inFlight, limits, entries>>

NotLimited(r) ==
  /\ req[r].stage = "check"
  /\ <<req[r].acct, req[r].model>> \notin limits
  /\ Becomes(r, [req[r] EXCEPT !.stage = "claim"])
  /\ UNCHANGED <<inFlight, limits, entries>>

Acquire(r) ==
  LET a == req[r].acct IN
  /\ req[r].stage = "claim" /\ Free(a)
  /\ inFlight' = [inFlight EXCEPT ![a] = @ + 1]
  /\ Becomes(r, [req[r] EXCEPT !.stage = "held", !.held = a])
  /\ UNCHANGED <<limits, entries>>

(* The last slot went to another request. *)
AcquireFails(r) ==
  /\ req[r].stage = "claim" /\ ~Free(req[r].acct)
  /\ Becomes(r, [NextRound(req[r]) EXCEPT
       !.stage = IF req[r].sticky = req[r].acct THEN "unbind" ELSE "pick"])
  /\ UNCHANGED <<inFlight, limits, entries>>

-----------------------------------------------------------------------------
(* The upstream call and its outcomes.                                     *)

(* An answer that is put down to the account, or a transport error: fail() *)
(* follows, and then the next round or the end.                            *)
Fails(r, next) ==
  /\ req[r].stage = "held"
  /\ Becomes(r, [req[r] EXCEPT
       !.stage = "failed", !.next = next,
       !.refused = @ \cup {<<req[r].acct, "failed">>}])
  /\ UNCHANGED <<inFlight, limits, entries>>

(* The refresh of the token or the call fails; another account may do.     *)
AccountFails(r) == Fails(r, "pick")

(* The request itself is refused, or the channel check refuses it again    *)
(* and again: no other account would do better.                            *)
RequestRefused(r) == Fails(r, "leave")

(* Upstream is slow: the rotation ends, the deferred release follows. *)
UpstreamTimeout(r) ==
  /\ req[r].stage = "held"
  /\ Becomes(r, [req[r] EXCEPT !.stage = "leave"])
  /\ UNCHANGED <<inFlight, limits, entries>>

(* 429: remembered for this account and model, not held against it. *)
SoftRate(r) ==
  LET a == req[r].acct IN
  /\ req[r].stage = "held"
  /\ limits' = limits \cup {<<a, req[r].model>>}
  /\ Becomes(r, [req[r] EXCEPT !.stage = "limited",
                               !.refused = @ \cup {<<a, "rated">>}])
  /\ UNCHANGED <<inFlight, entries>>

(* Fault: `continue` without releaseHeld. *)
ReleaseLimitedForgotten(r) ==
  /\ req[r].stage = "limited"
  /\ Becomes(r, NextRound(req[r]))
  /\ UNCHANGED <<inFlight, limits, entries>>

(* releaseHeld after a 429: the sticky account stays for the next round.   *)
ReleaseLimited(r) ==
  /\ req[r].stage = "limited"
  /\ GiveBack(req[r].held)
  /\ Becomes(r, [NextRound(req[r]) EXCEPT !.held = NoAccount])
  /\ UNCHANGED <<limits, entries>>

(* Fault: heldUID is not reset, so the deferred function releases again.   *)
ReleaseFailedTwice(r) ==
  LET s == req[r] IN
  /\ s.stage = "failed"
  /\ GiveBack(s.held)
  /\ Becomes(r, [NextRound(s) EXCEPT
       !.round = IF s.next = "pick" THEN @ ELSE s.round,
       !.stage = IF s.sticky = s.acct THEN "unbind" ELSE s.next])
  /\ UNCHANGED <<limits, entries>>

(* Fault: only a failure that ends the request unbinds. *)
ReleaseFailedStaysBound(r) ==
  LET s == req[r] IN
  /\ s.stage = "failed"
  /\ GiveBack(s.held)
  /\ Becomes(r, [NextRound(s) EXCEPT
       !.held  = NoAccount,
       !.round = IF s.next = "pick" THEN @ ELSE s.round,
       !.sticky = IF s.next = "pick" /\ @ = s.acct THEN NoAccount ELSE @,
       !.stage = IF s.next = "leave" /\ s.sticky = s.acct
                 THEN "unbind" ELSE s.next])
  /\ UNCHANGED <<limits, entries>>

(* fail(): the lease first, then the session if the account was sticky.    *)
ReleaseFailed(r) ==
  LET s == req[r] IN
  /\ s.stage = "failed"
  /\ GiveBack(s.held)
  /\ Becomes(r, [NextRound(s) EXCEPT
       !.held  = NoAccount,
       !.round = IF s.next = "pick" THEN @ ELSE s.round,
       !.stage = IF s.sticky = s.acct THEN "unbind" ELSE s.next])
  /\ UNCHANGED <<limits, entries>>

(* Fault: the binding goes, but the request goes on preferring the account. *)
UnbindKeepsSticky(r) ==
  /\ req[r].stage = "unbind"
  /\ entries' = [entries EXCEPT ![req[r].key] = NoAccount]
  /\ Becomes(r, [req[r] EXCEPT !.stage = req[r].next])
  /\ UNCHANGED <<inFlight, limits>>

(* Unbind, whatever the key is bound to by now. *)
Unbind(r) ==
  /\ req[r].stage = "unbind"
  /\ entries' = [entries EXCEPT ![req[r].key] = NoAccount]
  /\ Becomes(r, [req[r] EXCEPT !.stage = req[r].next, !.sticky = NoAccount,
                               !.rebound = "no"])
  /\ UNCHANGED <<inFlight, limits>>

(* 200: the limit is cleared, then the session bound.                      *)
Success(r) ==
  LET a == req[r].acct  m == req[r].model IN
  /\ req[r].stage = "held"
  /\ limits' = limits \ {<<a, m>>}
  /\ req' = [q \in Requests |->
               IF q = r THEN [Lifted(r, a, m) EXCEPT !.stage = "bind"]
                        ELSE Lifted(q, a, m)]
  /\ UNCHANGED <<inFlight, entries>>

Bind(r) ==
  LET s == [req[r] EXCEPT !.stage = "relay", !.rebound = "no"] IN
  /\ req[r].stage = "bind"
  /\ IF s.key = NoKey
     THEN Becomes(r, s) /\ UNCHANGED entries
     ELSE /\ entries' = [entries EXCEPT ![s.key] = s.acct]
          /\ BecomesBound(r, s, s.key, "bound")
  /\ UNCHANGED <<inFlight, limits>>

(* The answer has been passed on to its end, well or badly. *)
AnswerPassed(r) ==
  /\ req[r].stage = "relay"
  /\ Becomes(r, [req[r] EXCEPT !.stage = "leave"])
  /\ UNCHANGED <<inFlight, limits, entries>>

(* The handler returns: the deferred function releases what is held. *)
Leave(r) ==
  /\ req[r].stage = "leave"
  /\ IF req[r].held = NoAccount THEN UNCHANGED inFlight
                                 ELSE GiveBack(req[r].held)
  /\ Becomes(r, Blank(req[r].model))
  /\ UNCHANGED <<limits, entries>>

-----------------------------------------------------------------------------
(* The rest of the system. *)

(* The window is over. *)
LimitExpires(a, m) ==
  /\ <<a, m>> \in limits
  /\ limits' = limits \ {<<a, m>>}
  /\ req' = [q \in Requests |-> Lifted(q, a, m)]
  /\ UNCHANGED <<inFlight, entries>>

(* A binding expires. *)
SessionExpires(k) ==
  /\ entries[k] # NoAccount
  /\ entries' = [entries EXCEPT ![k] = NoAccount]
  /\ UNCHANGED <<inFlight, limits, req>>

-----------------------------------------------------------------------------
(* What the handler does by itself. *)
Runs(r) ==
  \/ LookUp(r) \/ Touch(r) \/ Allocate(r)
  \/ GiveUp(r) \/ StickyLost(r) \/ Pick(r)
  \/ SkipLimited(r) \/ NotLimited(r)
  \/ Acquire(r) \/ AcquireFails(r)
  \/ ReleaseLimited(r) \/ ReleaseFailed(r) \/ Unbind(r)
  \/ Bind(r) \/ Leave(r)

(* What it waits for: the outcome of the call, the end of the answer.      *)
CallEnds(r) ==
  \/ AccountFails(r) \/ RequestRefused(r) \/ UpstreamTimeout(r)
  \/ SoftRate(r) \/ Success(r) \/ AnswerPassed(r)

GoesOn(r) == Runs(r) \/ CallEnds(r)

ChatNext ==
  \/ \E r \in Requests :
       \/ \E k \in Keys \cup {NoKey}, m \in Models : Begin(r, k, m)
       \/ GoesOn(r)
  \/ \E a \in Accounts, m \in Models : LimitExpires(a, m)
  \/ \E k \in Keys : SessionExpires(k)

ChatSpec == ChatInit /\ [][ChatNext]_chatVars

-----------------------------------------------------------------------------
(* Every variable holds values of its kind. *)
ChatTypeOK ==
  /\ inFlight \in [Accounts -> Nat]
  /\ limits   \in SUBSET (Accounts \X Models)
  /\ entries  \in [Keys -> Accounts \cup {NoAccount}]
  /\ req      \in [Requests -> RequestState]

(* Whichever way a request leaves, the counters of the pool count exactly  *)
(* the leases the requests know of: none is forgotten, none given back     *)
(* twice.                                                                  *)
HeldCounted ==
  \A a \in Accounts :
    inFlight[a] = Cardinality({r \in Requests : req[r].held = a})

(* The counters implement the leases: a request holds one account at a     *)
(* time, an account is held by no more than MaxInFlight requests.          *)
L == INSTANCE Leases WITH
       holds <- {<<r, req[r].held>> :
                   r \in {q \in Requests : req[q].held # NoAccount}}
ImplementsLeases == L!LeasesSpec

(* A request never asks an account again that has failed it, nor one that  *)
(* answered 429, before the limit is lifted: the sticky account, which is  *)
(* picked without regard to what was tried, is given up after a failure,   *)
(* and skipped while its limit lasts.                                      *)
RefusedNotAskedAgain ==
  [][\A r \in Requests :
       NotLimited(r) => \A why \in {"failed", "rated"} :
                          <<req[r].acct, why>> \notin req[r].refused]_chatVars

(* A session is not left bound to an account that failed its request: when *)
(* the request leaves, the key is bound to it only if another request has  *)
(* written the binding after this one did so last (fail() unbinds).        *)
FailedAccountUnbound ==
  \A r \in Requests :
    req[r].stage = "leave" /\ req[r].key # NoKey /\ req[r].rebound = "no"
      => <<entries[req[r].key], "failed">> \notin req[r].refused

(* The comments of fail() and Unbind: after a failure the session gets its *)
(* account allocated anew.  So only a decision of another request may have *)
(* bound the account again, an allocation or an answer, not a renewal.     *)
FailedAccountReallocated ==
  \A r \in Requests :
    req[r].stage = "leave" /\ req[r].key # NoKey /\ req[r].rebound # "bound"
      => <<entries[req[r].key], "failed">> \notin req[r].refused

(* The changelog and the comment in the rotation: a request whose session  *)
(* account is limited for the model uses another one this time only, and   *)
(* the session stays bound.  The answer of the other account binds it.     *)
LimitedSessionStays ==
  [][\A r \in Requests :
       LET k == req[r].key IN
       Bind(r) /\ k # NoKey /\ <<entries[k], "rated">> \in req[r].refused
         => entries'[k] = entries[k]]_chatVars

(* The most steps a request may have ahead of it, of a length that allows  *)
(* for the longest round: a lost sticky account, its unbinding, a failure. *)
RoundLength == 13

Rank == [leave |-> 1, relay |-> 2, bind |-> 3, limited |-> 3, failed |-> 4,
         held |-> 5, claim |-> 6, check |-> 7, pick |-> 8, unbind |-> 9,
         touch |-> 11, allocate |-> 11, resolve |-> 12]

StepsLeft(s) ==
  IF s.stage = "idle" THEN 0
  ELSE RoundLength * (MaxRotate - s.round)
       + (IF s.stage = "unbind" /\ s.next = "leave" THEN 2 ELSE Rank[s.stage])
       + (IF s.stage = "pick" /\ s.sticky # NoAccount THEN 2 ELSE 0)

(* The rotation comes to an end whatever the pool, the upstream and the    *)
(* other requests do: each stage brings a request nearer to its end, be    *)
(* its sticky account lost, limited or failing, or a slot taken by others. *)
RotationAdvances ==
  [][\A r \in Requests :
       req[r].stage # "idle" /\ req'[r].stage # req[r].stage
         => StepsLeft(req'[r]) < StepsLeft(req[r])]_chatVars

(* And it never waits for an account, or for another request: whatever the *)
(* others hold, a request that has begun has a step to take, or has one    *)
(* call under way whose end is that step.                                  *)
NeverStuck == \A r \in Requests : req[r].stage # "idle" => ENABLED GoesOn(r)

=============================================================================
