----------------------------- MODULE ChatProofs -----------------------------
(***************************************************************************)
(* Theorems about Chat for all sets of accounts, keys and models, every    *)
(* finite set of requests and any MaxInFlight and MaxRotate; and, in the   *)
(* second half, about Records, with which each of its requests ends, for   *)
(* all sets of workers, calls and accounts, any finite old history and any *)
(* Capacity and KeepDays.  The two share no variable.                      *)
(***************************************************************************)
EXTENDS Chat, Records, FiniteSetTheorems, TLAPS

-----------------------------------------------------------------------------
(* What the stage of a request says about its other local variables: when  *)
(* there is an account of this round and whether it is held, that a sticky *)
(* account is the one in use as long as there is one, and that a sticky    *)
(* account to be picked, or an account in use before its call has failed,  *)
(* has not failed this request.                                            *)
Resolving == {"resolve", "touch", "allocate"}

StageOK(s) ==
  /\ s.stage \in {"check", "claim", "held", "failed", "limited"}
       => s.round < MaxRotate
  /\ s.stage \in {"check", "claim", "held", "failed", "limited", "bind", "relay"}
       => s.acct \in Accounts
  /\ s.stage \in {"idle", "pick", "unbind"} \cup Resolving => s.acct = NoAccount
  /\ s.stage \in {"held", "failed", "limited", "bind", "relay"}
       => s.held = s.acct
  /\ s.stage \in {"idle", "pick", "check", "claim", "unbind"} \cup Resolving
       => s.held = NoAccount
  /\ s.stage \in {"unbind", "touch"} => s.sticky # NoAccount
  /\ s.stage \in Resolving => s.key # NoKey /\ s.refused = {}
  /\ s.sticky # NoAccount => s.key # NoKey
  /\ s.sticky # NoAccount /\ s.acct # NoAccount /\ s.stage # "leave"
       => s.acct = s.sticky
  /\ s.acct # NoAccount => s.acct \in s.tried
  /\ \A a \in Accounts : \A why \in {"failed", "rated"} :
       <<a, why>> \in s.refused => a \in s.tried
  /\ s.stage = "pick" => <<s.sticky, "failed">> \notin s.refused
  /\ s.stage \in {"check", "claim", "held", "limited", "bind", "relay"}
       => <<s.acct, "failed">> \notin s.refused

StagesInv ==
  /\ ChatTypeOK
  /\ \A r \in Requests : StageOK(req[r])

-----------------------------------------------------------------------------
(* One request: the record it goes on with. *)

GoodState(s) == s \in RequestState /\ StageOK(s)

LEMMA BlankGood ==
  ASSUME NEW m \in Models
  PROVE  GoodState(Blank(m))
BY ChatAssumption
   DEF GoodState, RequestState, Stage, StageOK, Resolving, Blank

LEMMA StartGood ==
  ASSUME NEW m \in Models, NEW k \in Keys \cup {NoKey},
         NEW g, g = IF k = NoKey THEN "pick" ELSE "resolve"
  PROVE  GoodState([Blank(m) EXCEPT !.stage = g, !.key = k])
<1>1. PICK s \in RequestState : s = Blank(m) /\ StageOK(s)
  BY BlankGood DEF GoodState
<1>2. /\ s.refused = {} /\ s.tried = {} /\ s.acct = NoAccount
      /\ s.held = NoAccount /\ s.sticky = NoAccount
  BY <1>1 DEF Blank
<1> DEFINE t == [s EXCEPT !.stage = g, !.key = k]
<1>3. t \in RequestState
  BY DEF RequestState, Stage
<1>4. StageOK(t)
  BY <1>2 DEF RequestState, StageOK, Resolving
<1> QED BY <1>1, <1>3, <1>4 DEF GoodState, t

(* A step of Resolve: the request comes to stage g with account a.         *)
LEMMA ResolveGood ==
  ASSUME NEW s, GoodState(s), s.stage \in Resolving,
         NEW g \in {"touch", "allocate", "pick"},
         NEW a \in Accounts \cup {NoAccount}, g = "touch" => a # NoAccount,
         NEW b \in {"no", "touched", "bound"}
  PROVE  GoodState([s EXCEPT !.stage = g, !.sticky = a, !.rebound = b])
<1> DEFINE t == [s EXCEPT !.stage = g, !.sticky = a, !.rebound = b]
<1>1. t \in RequestState
  BY DEF GoodState, RequestState, Stage
<1>2. /\ t.stage = g /\ t.sticky = a /\ t.acct = s.acct /\ t.held = s.held
      /\ t.refused = s.refused /\ t.tried = s.tried /\ t.key = s.key
      /\ t.round = s.round
  BY DEF GoodState, RequestState
<1> HIDE DEF t
<1>3. StageOK(t)
  BY <1>2 DEF GoodState, StageOK, Resolving
<1> QED BY <1>1, <1>3 DEF GoodState, t

LEMMA ReboundGood ==
  ASSUME NEW s, GoodState(s), NEW b \in {"no", "touched", "bound"}
  PROVE  GoodState([s EXCEPT !.rebound = b])
BY DEF GoodState, RequestState, StageOK, Resolving

LEMMA LiftedGood ==
  ASSUME NEW q \in Requests, NEW a \in Accounts, NEW m, GoodState(req[q])
  PROVE  /\ GoodState(Lifted(q, a, m))
         /\ \A f \in {"stage", "model", "key", "round", "tried", "sticky",
                      "acct", "held", "next", "rebound"} :
              Lifted(q, a, m)[f] = req[q][f]
         /\ \A b : <<b, "failed">> \in Lifted(q, a, m).refused
                     <=> <<b, "failed">> \in req[q].refused
BY DEF GoodState, RequestState, StageOK, Resolving, Lifted

(* A round comes to its end, and the request goes on at stage g.           *)
LEMMA RoundEndsGood ==
  ASSUME NEW s, GoodState(s), NEW g \in {"pick", "unbind", "leave"},
         NEW n \in 0..MaxRotate, NEW x \in {s.sticky, NoAccount},
         g = "pick" => <<x, "failed">> \notin s.refused,
         g = "unbind" => x # NoAccount
  PROVE  GoodState([s EXCEPT !.stage = g, !.round = n, !.acct = NoAccount,
                             !.sticky = x, !.held = NoAccount])
<1> DEFINE t == [s EXCEPT !.stage = g, !.round = n, !.acct = NoAccount,
                          !.sticky = x, !.held = NoAccount]
<1>1. t \in RequestState
  BY DEF GoodState, RequestState, Stage
<1>2. /\ t.stage = g /\ t.acct = NoAccount /\ t.sticky = x
      /\ t.held = NoAccount /\ t.refused = s.refused /\ t.tried = s.tried
      /\ t.key = s.key
  BY DEF GoodState, RequestState
<1> HIDE DEF t
<1>3. StageOK(t)
  BY <1>2, ChatAssumption DEF GoodState, StageOK, Resolving
<1> QED BY <1>1, <1>3 DEF GoodState, t

LEMMA StickyNotFailed ==
  ASSUME NEW s, GoodState(s), s.stage \in {"check", "claim", "limited"}
  PROVE  /\ <<s.sticky, "failed">> \notin s.refused
         /\ <<NoAccount, "failed">> \notin s.refused
<1>1. <<NoAccount, "failed">> \notin s.refused
  BY ChatAssumption DEF GoodState, RequestState
<1>2. s.sticky # NoAccount => s.sticky = s.acct
  BY ChatAssumption DEF GoodState, StageOK
<1> QED BY <1>1, <1>2 DEF GoodState, StageOK

LEMMA RoundBelow ==
  ASSUME NEW s, GoodState(s),
         s.stage \in {"check", "claim", "limited", "failed"}
  PROVE  s.round + 1 \in 0..MaxRotate
BY ChatAssumption DEF GoodState, StageOK, RequestState

-----------------------------------------------------------------------------
(* One request r goes on, the others are as they were or are told that     *)
(* their key is bound anew or that a limit is lifted.                      *)
LEMMA BecomesStages ==
  ASSUME StagesInv, NEW r \in Requests, NEW s, GoodState(s), Becomes(r, s)
  PROVE  \A q \in Requests : req'[q] = (IF q = r THEN s ELSE req[q])
                            /\ GoodState(req'[q])
BY DEF StagesInv, ChatTypeOK, GoodState, Becomes

LEMMA Typed ==
  ASSUME StagesInv
  PROVE  \A q \in Requests : GoodState(req[q])
BY DEF StagesInv, ChatTypeOK, GoodState

LEMMA StagesKept ==
  ASSUME StagesInv, inFlight' \in [Accounts -> Nat],
         limits' \in SUBSET (Accounts \X Models),
         entries' \in [Keys -> Accounts \cup {NoAccount}],
         req' = [q \in Requests |-> req'[q]],
         \A q \in Requests : GoodState(req'[q])
  PROVE  StagesInv'
BY DEF StagesInv, ChatTypeOK, GoodState

LEMMA BoundStages ==
  ASSUME StagesInv, NEW r \in Requests, NEW s, GoodState(s), NEW k,
         NEW how \in {"touched", "bound"}, BecomesBound(r, s, k, how)
  PROVE  /\ req' = [q \in Requests |-> req'[q]]
         /\ \A q \in Requests : GoodState(req'[q])
<1>1. ASSUME NEW q \in Requests
      PROVE  GoodState([req[q] EXCEPT
                          !.rebound = IF req[q].key = k THEN how ELSE @])
  <2>1. req[q].rebound \in {"no", "touched", "bound"}
    BY DEF StagesInv, ChatTypeOK, RequestState
  <2>2. (IF req[q].key = k THEN how ELSE req[q].rebound)
          \in {"no", "touched", "bound"}
    BY <2>1
  <2> QED BY <2>2, Typed, ReboundGood
<1> QED BY <1>1 DEF BecomesBound

LEMMA OneStages ==
  ASSUME StagesInv, NEW r \in Requests, NEW s, GoodState(s), Becomes(r, s),
         inFlight' \in [Accounts -> Nat], UNCHANGED <<limits, entries>>
  PROVE  StagesInv'
<1>1. req' = [q \in Requests |-> req'[q]]
  BY DEF StagesInv, ChatTypeOK, Becomes
<1> QED BY <1>1, BecomesStages, StagesKept DEF StagesInv, ChatTypeOK

LEMMA GiveBackType ==
  ASSUME StagesInv, NEW a, GiveBack(a)
  PROVE  inFlight' \in [Accounts -> Nat]
<1>1. inFlight \in [Accounts -> Nat]
  BY DEF StagesInv, ChatTypeOK
<1>2. a \in Accounts => (IF inFlight[a] > 0 THEN inFlight[a] - 1 ELSE 0) \in Nat
  BY <1>1
<1> QED BY <1>1, <1>2 DEF GiveBack

LEMMA InitStages == ChatInit => StagesInv
<1> SUFFICES ASSUME ChatInit PROVE StagesInv
  OBVIOUS
<1>1. \A r \in Requests : GoodState(req[r])
  BY BlankGood DEF ChatInit
<1>2. req \in [Requests -> RequestState]
  BY <1>1 DEF ChatInit, GoodState
<1>3. /\ inFlight \in [Accounts -> Nat]
      /\ limits \in SUBSET (Accounts \X Models)
      /\ entries \in [Keys -> Accounts \cup {NoAccount}]
  BY DEF ChatInit
<1> QED BY <1>1, <1>2, <1>3 DEF StagesInv, ChatTypeOK, GoodState

LEMMA BeginStages ==
  ASSUME StagesInv, NEW r \in Requests, NEW k \in Keys \cup {NoKey},
         NEW m \in Models, Begin(r, k, m)
  PROVE  StagesInv'
<1> DEFINE t == [Blank(m) EXCEPT
                   !.stage = IF k = NoKey THEN "pick" ELSE "resolve", !.key = k]
<1>1. GoodState(t)
  BY StartGood
<1> HIDE DEF t
<1>2. Becomes(r, t)
  BY DEF Begin, t
<1> QED BY <1>1, <1>2, OneStages DEF Begin, StagesInv, ChatTypeOK

LEMMA ResolveStages ==
  ASSUME StagesInv, NEW r \in Requests, LookUp(r) \/ Touch(r) \/ Allocate(r)
  PROVE  StagesInv'
<1> DEFINE s == req[r]
           k == s.key
           After(g, a, b) == [s EXCEPT !.stage = g, !.sticky = a, !.rebound = b]
<1>1. /\ GoodState(s) /\ s \in RequestState
      /\ \A j \in Keys : entries[j] \in Accounts \cup {NoAccount}
  BY Typed DEF GoodState, StagesInv, ChatTypeOK
<1>2. s.stage \in Resolving /\ k \in Keys /\ UNCHANGED <<inFlight, limits>>
  BY <1>1 DEF LookUp, Touch, Allocate, GoodState, StageOK, Resolving,
              RequestState
<1>3. \A a \in Accounts \cup {NoAccount}, g \in {"allocate", "pick"},
         b \in {"no", "touched", "bound"} : GoodState(After(g, a, b))
  BY <1>1, <1>2, ResolveGood
<1>4. CASE LookUp(r)
  <2> DEFINE a == entries[k]
  <2>1. CASE a # NoAccount /\ Becomes(r, [s EXCEPT !.stage = "touch",
                                                  !.sticky = a])
    <3>1. [s EXCEPT !.stage = "touch", !.sticky = a]
            = After("touch", a, s.rebound)
      BY <1>1 DEF RequestState
    <3>2. GoodState(After("touch", a, s.rebound))
      BY <1>1, <1>2, <2>1, ResolveGood DEF RequestState
    <3>3. Becomes(r, After("touch", a, s.rebound))
      BY <2>1, <3>1
    <3> HIDE DEF After
    <3> QED BY <1>4, <3>2, <3>3, OneStages DEF LookUp, StagesInv, ChatTypeOK
  <2>2. CASE Becomes(r, [s EXCEPT !.stage = "allocate"])
    <3>1. [s EXCEPT !.stage = "allocate"]
            = After("allocate", s.sticky, s.rebound)
      BY <1>1 DEF RequestState
    <3>2. GoodState(After("allocate", s.sticky, s.rebound))
      BY <1>1, <1>3 DEF RequestState
    <3>3. Becomes(r, After("allocate", s.sticky, s.rebound))
      BY <2>2, <3>1
    <3> HIDE DEF After
    <3> QED BY <1>4, <3>2, <3>3, OneStages DEF LookUp, StagesInv, ChatTypeOK
  <2> QED BY <1>4, <2>1, <2>2 DEF LookUp
<1>5. CASE Touch(r)
  <2> DEFINE t == [s EXCEPT !.stage = "pick", !.rebound = "no"]
  <2>1. t = After("pick", s.sticky, "no") /\ t.key = k /\ t.sticky = s.sticky
    BY <1>1 DEF RequestState
  <2>2. GoodState(t) /\ s.sticky \in Accounts \cup {NoAccount}
    BY <1>1, <1>3, <2>1 DEF RequestState
  <2>3. BecomesBound(r, t, k, "touched")
        /\ entries' = [entries EXCEPT ![k] = s.sticky]
    BY <1>5, <2>1 DEF Touch
  <2> HIDE DEF t, k, s
  <2>4. /\ req' = [q \in Requests |-> req'[q]]
        /\ \A q \in Requests : GoodState(req'[q])
    BY <2>2, <2>3, BoundStages
  <2>5. entries' \in [Keys -> Accounts \cup {NoAccount}]
    BY <2>2, <2>3 DEF StagesInv, ChatTypeOK
  <2> QED BY <1>2, <2>4, <2>5, StagesKept DEF StagesInv, ChatTypeOK
<1>6. CASE Allocate(r)
  <2> DEFINE Given(a) == [s EXCEPT !.stage = "pick", !.sticky = a,
                                   !.rebound = "no"]
  <2>1. \A a \in Accounts \cup {NoAccount} : GoodState(Given(a))
    BY <1>3
  <2> HIDE DEF Given, k, s
  <2>2. CASE Becomes(r, Given(entries[k])) /\ UNCHANGED entries
    BY <1>1, <1>2, <2>1, <2>2, OneStages DEF StagesInv, ChatTypeOK
  <2>3. ASSUME NEW a \in Accounts, entries' = [entries EXCEPT ![k] = a],
               BecomesBound(r, Given(a), k, "bound")
        PROVE  StagesInv'
    <3>1. entries' \in [Keys -> Accounts \cup {NoAccount}]
      BY <2>3 DEF StagesInv, ChatTypeOK
    <3>2. /\ req' = [q \in Requests |-> req'[q]]
          /\ \A q \in Requests : GoodState(req'[q])
      BY <2>1, <2>3, BoundStages
    <3> QED BY <1>2, <3>1, <3>2, StagesKept DEF StagesInv, ChatTypeOK
  <2>4. CASE /\ entries' = [entries EXCEPT ![k] = NoAccount]
             /\ Becomes(r, Given(NoAccount))
    <3>1. entries' \in [Keys -> Accounts \cup {NoAccount}]
      BY <2>4 DEF StagesInv, ChatTypeOK
    <3>2. req' = [q \in Requests |-> req'[q]]
      BY <2>4 DEF StagesInv, ChatTypeOK, Becomes
    <3>3. \A q \in Requests : GoodState(req'[q])
      BY <2>1, <2>4, BecomesStages
    <3> QED BY <1>2, <3>1, <3>2, <3>3, StagesKept DEF StagesInv, ChatTypeOK
  <2> QED BY <1>6, <2>2, <2>3, <2>4 DEF Allocate, Given, k, s
<1> QED BY <1>4, <1>5, <1>6

LEMMA PickStages ==
  ASSUME StagesInv, NEW r \in Requests,
         GiveUp(r) \/ StickyLost(r) \/ Pick(r) \/ NotLimited(r)
  PROVE  StagesInv'
<1> DEFINE s == req[r]
<1>1. GoodState(s)
  BY Typed
<1>2. inFlight' \in [Accounts -> Nat] /\ UNCHANGED <<limits, entries>>
  BY DEF GiveUp, StickyLost, Pick, NotLimited, StagesInv, ChatTypeOK
<1>3. CASE GiveUp(r)
  <2>1. GoodState([s EXCEPT !.stage = "leave"])
    BY <1>1 DEF GoodState, StageOK, Resolving, RequestState, Stage
  <2> QED BY <1>2, <1>3, <2>1, OneStages DEF GiveUp
<1>4. CASE StickyLost(r)
  <2>1. GoodState([s EXCEPT !.stage = "unbind"])
    BY <1>1, <1>4 DEF StickyLost, GoodState, StageOK, Resolving, RequestState, Stage
  <2> QED BY <1>2, <1>4, <2>1, OneStages DEF StickyLost
<1>5. CASE Pick(r)
  <2>1. PICK a \in IF s.sticky = NoAccount THEN Accounts \ s.tried
                                           ELSE {s.sticky} :
          Becomes(r, [s EXCEPT !.stage = "check", !.acct = a,
                               !.tried = @ \cup {a}])
    BY <1>5 DEF Pick
  <2>2. a \in Accounts
    BY <1>1, <2>1 DEF GoodState, RequestState
  <2>3. <<a, "failed">> \notin s.refused
    BY <1>1, <1>5, <2>1, <2>2 DEF Pick, GoodState, StageOK
  <2> DEFINE t == [s EXCEPT !.stage = "check", !.acct = a,
                            !.tried = @ \cup {a}]
  <2>4. t \in RequestState
    BY <1>1, <2>2 DEF GoodState, RequestState, Stage
  <2>5. /\ t.stage = "check" /\ t.acct = a /\ t.tried = s.tried \cup {a}
        /\ t.sticky = s.sticky /\ t.held = s.held /\ t.key = s.key
        /\ t.refused = s.refused /\ t.round = s.round
    BY <1>1 DEF GoodState, RequestState
  <2>6. s.sticky # NoAccount => a = s.sticky
    BY <2>1
  <2> HIDE DEF t
  <2>7. StageOK(t)
    BY <1>1, <1>5, <2>2, <2>3, <2>5, <2>6 DEF Pick, GoodState, StageOK, Resolving
  <2>8. GoodState(t) /\ Becomes(r, t)
    BY <2>1, <2>4, <2>7 DEF GoodState, t
  <2> QED BY <1>2, <2>8, OneStages
<1>6. CASE NotLimited(r)
  <2>1. GoodState([s EXCEPT !.stage = "claim"])
    BY <1>1, <1>6 DEF NotLimited, GoodState, StageOK, Resolving, RequestState, Stage
  <2> QED BY <1>2, <1>6, <2>1, OneStages DEF NotLimited
<1> QED BY <1>3, <1>4, <1>5, <1>6

LEMMA RoundStages ==
  ASSUME StagesInv, NEW r \in Requests,
         \/ SkipLimited(r) \/ AcquireFails(r) \/ ReleaseLimited(r)
         \/ ReleaseFailed(r) \/ Unbind(r)
  PROVE  StagesInv'
<1> DEFINE s == req[r]
<1>1. GoodState(s) /\ s \in RequestState
  BY Typed DEF GoodState
<1> DEFINE After(g, n, x) ==
      [s EXCEPT !.stage = g, !.round = n, !.acct = NoAccount,
                !.sticky = x, !.held = NoAccount]
<1>2. CASE SkipLimited(r)
  <2> DEFINE x == IF s.sticky = s.acct THEN NoAccount ELSE s.sticky
  <2>1. s.held = NoAccount
    BY <1>1, <1>2 DEF SkipLimited, GoodState, StageOK
  <2>2. [NextRound(s) EXCEPT !.sticky = IF @ = s.acct THEN NoAccount ELSE @]
          = After("pick", s.round + 1, x)
    BY <1>1, <2>1 DEF NextRound, RequestState
  <2>3. GoodState(After("pick", s.round + 1, x))
    BY <1>1, <1>2, RoundEndsGood, StickyNotFailed, RoundBelow
       DEF SkipLimited
  <2>4. Becomes(r, After("pick", s.round + 1, x))
    BY <1>2, <2>2 DEF SkipLimited
  <2> HIDE DEF After
  <2> QED BY <1>2, <2>3, <2>4, OneStages
          DEF SkipLimited, StagesInv, ChatTypeOK
<1>3. CASE AcquireFails(r)
  <2> DEFINE g == IF s.sticky = s.acct THEN "unbind" ELSE "pick"
  <2>1. s.held = NoAccount /\ s.acct # NoAccount
    BY <1>1, <1>3, ChatAssumption DEF AcquireFails, GoodState, StageOK
  <2>2. [NextRound(s) EXCEPT !.stage = g] = After(g, s.round + 1, s.sticky)
    BY <1>1, <2>1 DEF NextRound, RequestState
  <2>3. GoodState(After(g, s.round + 1, s.sticky))
    BY <1>1, <1>3, <2>1, RoundEndsGood, StickyNotFailed, RoundBelow
       DEF AcquireFails
  <2>4. Becomes(r, After(g, s.round + 1, s.sticky))
    BY <1>3, <2>2 DEF AcquireFails
  <2> HIDE DEF After
  <2> QED BY <1>3, <2>3, <2>4, OneStages
          DEF AcquireFails, StagesInv, ChatTypeOK
<1>4. CASE ReleaseLimited(r)
  <2>1. [NextRound(s) EXCEPT !.held = NoAccount]
          = After("pick", s.round + 1, s.sticky)
    BY <1>1 DEF NextRound, RequestState
  <2>2. GoodState(After("pick", s.round + 1, s.sticky))
    BY <1>1, <1>4, RoundEndsGood, StickyNotFailed, RoundBelow
       DEF ReleaseLimited
  <2>3. Becomes(r, After("pick", s.round + 1, s.sticky))
    BY <1>4, <2>1 DEF ReleaseLimited
  <2>4. inFlight' \in [Accounts -> Nat]
    BY <1>4, GiveBackType DEF ReleaseLimited
  <2> HIDE DEF After
  <2> QED BY <1>4, <2>2, <2>3, <2>4, OneStages DEF ReleaseLimited
<1>5. CASE ReleaseFailed(r)
  <2> DEFINE g == IF s.sticky = s.acct THEN "unbind" ELSE s.next
             n == IF s.next = "pick" THEN s.round + 1 ELSE s.round
  <2>1. s.acct # NoAccount
    BY <1>1, <1>5, ChatAssumption DEF ReleaseFailed, GoodState, StageOK
  <2>2. g = "pick" => s.sticky = NoAccount
    BY <1>1, <1>5, <2>1 DEF ReleaseFailed, GoodState, StageOK
  <2>3. g = "pick" => <<s.sticky, "failed">> \notin s.refused
    BY <1>1, <2>2, ChatAssumption DEF RequestState
  <2>4. g \in {"pick", "unbind", "leave"} /\ n \in 0..MaxRotate
    BY <1>1, <1>5, RoundBelow DEF ReleaseFailed, RequestState
  <2>5. g = "unbind" => s.sticky # NoAccount
    BY <1>1, <2>1 DEF RequestState
  <2>6. GoodState(After(g, n, s.sticky))
    <3> HIDE DEF g, n
    <3> QED BY <1>1, <2>3, <2>4, <2>5, RoundEndsGood
  <2>7. Becomes(r, After(g, n, s.sticky))
    BY <1>1, <1>5 DEF ReleaseFailed, NextRound, RequestState
  <2>8. inFlight' \in [Accounts -> Nat]
    BY <1>5, GiveBackType DEF ReleaseFailed
  <2> HIDE DEF After
  <2> QED BY <1>5, <2>6, <2>7, <2>8, OneStages DEF ReleaseFailed
<1>6. CASE Unbind(r)
  <2> DEFINE t == [s EXCEPT !.stage = s.next, !.sticky = NoAccount,
                            !.rebound = "no"]
  <2>1. s.acct = NoAccount /\ s.held = NoAccount
    BY <1>1, <1>6 DEF Unbind, GoodState, StageOK
  <2>2. <<NoAccount, "failed">> \notin s.refused
    BY <1>1, ChatAssumption DEF RequestState
  <2>3. t \in RequestState
    BY <1>1 DEF RequestState, Stage
  <2>4. GoodState(t)
    BY <1>1, <2>1, <2>2, <2>3 DEF GoodState, StageOK, Resolving, RequestState
  <2>5. Becomes(r, t)
    BY <1>6 DEF Unbind
  <2> HIDE DEF t
  <2>6. /\ req' = [q \in Requests |-> req'[q]]
        /\ \A q \in Requests : GoodState(req'[q])
    BY <2>4, <2>5, BecomesStages DEF Becomes, StagesInv, ChatTypeOK
  <2>7. entries' \in [Keys -> Accounts \cup {NoAccount}]
    BY <1>6 DEF Unbind, StagesInv, ChatTypeOK
  <2> QED BY <1>6, <2>6, <2>7, StagesKept DEF Unbind, StagesInv, ChatTypeOK
<1> QED BY <1>2, <1>3, <1>4, <1>5, <1>6

(* A call has ended badly: the account is added to those that refused.     *)
LEMMA RefusedGood ==
  ASSUME NEW s, GoodState(s), s.stage = "held",
         NEW why \in {"failed", "rated"}, NEW n \in {"pick", "leave"}
  PROVE  GoodState([s EXCEPT
           !.stage = IF why = "failed" THEN "failed" ELSE "limited",
           !.next = n, !.refused = @ \cup {<<s.acct, why>>}])
<1> DEFINE R == s.refused \cup {<<s.acct, why>>}
           g == IF why = "failed" THEN "failed" ELSE "limited"
           t == [s EXCEPT !.stage = g, !.next = n, !.refused = R]
<1>1. /\ s \in RequestState
      /\ s.acct \in Accounts /\ s.acct \in s.tried /\ s.acct # NoAccount
      /\ s.refused \in SUBSET (Accounts \X {"failed", "rated"})
  BY ChatAssumption DEF GoodState, StageOK, RequestState
<1>2. <<s.acct, why>> \in Accounts \X {"failed", "rated"}
  BY <1>1
<1>3. R \in SUBSET (Accounts \X {"failed", "rated"})
  BY <1>1, <1>2
<1>4. \A a \in Accounts : \A w \in {"failed", "rated"} :
        <<a, w>> \in R => a \in s.tried
  BY <1>1 DEF GoodState, StageOK
<1>5. why = "rated" => <<s.acct, "failed">> \notin R
  BY DEF GoodState, StageOK
<1> HIDE DEF R
<1>6. t \in RequestState
  BY <1>1, <1>3 DEF RequestState, Stage
<1>7. /\ t.stage = g /\ t.refused = R /\ t.acct = s.acct
      /\ t.tried = s.tried /\ t.round = s.round /\ t.key = s.key
      /\ t.sticky = s.sticky /\ t.held = s.held
  BY <1>1 DEF RequestState
<1> HIDE DEF t
<1>8. StageOK(t)
  BY <1>1, <1>4, <1>5, <1>7 DEF GoodState, StageOK, Resolving
<1> QED BY <1>6, <1>8 DEF GoodState, t, R

LEMMA CallStages ==
  ASSUME StagesInv, NEW r \in Requests,
         \/ Acquire(r) \/ AccountFails(r) \/ RequestRefused(r)
         \/ UpstreamTimeout(r) \/ SoftRate(r) \/ Leave(r)
  PROVE  StagesInv'
<1> DEFINE s == req[r]
<1>1. GoodState(s) /\ s \in RequestState
  BY Typed DEF GoodState
<1> HIDE DEF s
<1>2. CASE Acquire(r)
  <2>1. s.acct \in Accounts
    BY <1>1, <1>2 DEF Acquire, GoodState, StageOK, s
  <2>2. GoodState([s EXCEPT !.stage = "held", !.held = s.acct])
    BY <1>1, <1>2, <2>1
       DEF Acquire, GoodState, StageOK, Resolving, RequestState, Stage, s
  <2>3. inFlight' \in [Accounts -> Nat]
    BY <1>2, <2>1 DEF Acquire, StagesInv, ChatTypeOK, s
  <2> QED BY <1>2, <2>2, <2>3, OneStages DEF Acquire, s
<1>3. ASSUME NEW n \in {"pick", "leave"}, Fails(r, n)
      PROVE  StagesInv'
  <2> DEFINE t == [s EXCEPT !.stage = "failed", !.next = n,
                            !.refused = @ \cup {<<s.acct, "failed">>}]
  <2>1. s.acct \in Accounts /\ s.stage = "held"
    BY <1>1, <1>3 DEF Fails, GoodState, StageOK, s
  <2>2. t = [s EXCEPT
               !.stage = IF "failed" = "failed" THEN "failed" ELSE "limited",
               !.next = n, !.refused = @ \cup {<<s.acct, "failed">>}]
    OBVIOUS
  <2>3. GoodState(t)
    BY <1>1, <2>1, <2>2, RefusedGood
  <2> HIDE DEF t
  <2>4. Becomes(r, t)
    BY <1>3 DEF Fails, s, t
  <2> QED BY <1>3, <2>3, <2>4, OneStages DEF Fails, StagesInv, ChatTypeOK
<1>4. CASE UpstreamTimeout(r)
  <2>1. GoodState([s EXCEPT !.stage = "leave"])
    BY <1>1, <1>4
       DEF UpstreamTimeout, GoodState, StageOK, Resolving, RequestState, Stage, s
  <2> QED BY <1>4, <2>1, OneStages DEF UpstreamTimeout, StagesInv, ChatTypeOK, s
<1>5. CASE SoftRate(r)
  <2> DEFINE t == [s EXCEPT !.stage = "limited",
                            !.refused = @ \cup {<<s.acct, "rated">>}]
  <2>1. s.acct \in Accounts /\ s.stage = "held" /\ s.model \in Models
    BY <1>1, <1>5 DEF SoftRate, GoodState, StageOK, RequestState, s
  <2>2. t = [s EXCEPT
               !.stage = IF "rated" = "failed" THEN "failed" ELSE "limited",
               !.next = s.next, !.refused = @ \cup {<<s.acct, "rated">>}]
    BY <1>1 DEF RequestState
  <2>3. GoodState(t)
    BY <1>1, <2>1, <2>2, RefusedGood DEF RequestState
  <2> HIDE DEF t
  <2>4. Becomes(r, t)
    BY <1>5 DEF SoftRate, s, t
  <2>5. limits' \in SUBSET (Accounts \X Models)
    BY <1>5, <2>1 DEF SoftRate, StagesInv, ChatTypeOK, s
  <2>6. /\ req' = [q \in Requests |-> req'[q]]
        /\ \A q \in Requests : GoodState(req'[q])
    BY <2>3, <2>4, BecomesStages DEF Becomes, StagesInv, ChatTypeOK
  <2> QED BY <1>5, <2>5, <2>6, StagesKept
          DEF SoftRate, StagesInv, ChatTypeOK
<1>6. CASE Leave(r)
  <2>1. inFlight' \in [Accounts -> Nat]
    BY <1>6, GiveBackType DEF Leave, StagesInv, ChatTypeOK
  <2>2. GoodState(Blank(s.model))
    BY <1>1, BlankGood DEF RequestState
  <2> QED BY <1>6, <2>1, <2>2, OneStages DEF Leave, s
<1> QED BY <1>2, <1>3, <1>4, <1>5, <1>6 DEF AccountFails, RequestRefused

LEMMA LiftedStages ==
  ASSUME StagesInv, NEW a \in Accounts, NEW m
  PROVE  \A q \in Requests : GoodState(Lifted(q, a, m))
BY Typed, LiftedGood

LEMMA SuccessStages ==
  ASSUME StagesInv, NEW r \in Requests,
         Success(r) \/ Bind(r) \/ AnswerPassed(r)
  PROVE  StagesInv'
<1>1. GoodState(req[r])
  BY Typed
<1>2. CASE Success(r)
  <2> DEFINE a == req[r].acct
             m == req[r].model
  <2>1. a \in Accounts /\ req[r].stage = "held"
    BY <1>1, <1>2 DEF Success, GoodState, StageOK
  <2>2. \A q \in Requests : GoodState(Lifted(q, a, m))
    BY <2>1, LiftedStages
  <2>3. Lifted(r, a, m).stage = "held"
    BY <1>1, <2>1, LiftedGood
  <2> HIDE DEF a, m
  <2> DEFINE s == Lifted(r, a, m)
  <2>4. GoodState([s EXCEPT !.stage = "bind"])
    <3> HIDE DEF s
    <3>1. GoodState(s) /\ s.stage = "held"
      BY <2>2, <2>3 DEF s
    <3> QED BY <3>1 DEF GoodState, StageOK, Resolving, RequestState, Stage
  <2>5. req' = [q \in Requests |->
                  IF q = r THEN [s EXCEPT !.stage = "bind"]
                           ELSE Lifted(q, a, m)]
    BY <1>2 DEF Success, a, m
  <2>6. /\ req' = [q \in Requests |-> req'[q]]
        /\ \A q \in Requests : GoodState(req'[q])
    <3> HIDE DEF s
    <3> QED BY <2>2, <2>4, <2>5
  <2>7. limits' \in SUBSET (Accounts \X Models)
    BY <1>2 DEF Success, StagesInv, ChatTypeOK
  <2> QED BY <1>2, <2>6, <2>7, StagesKept DEF Success, StagesInv, ChatTypeOK
<1>3. CASE Bind(r)
  <2> DEFINE s == [req[r] EXCEPT !.stage = "relay", !.rebound = "no"]
  <2>1. GoodState(s)
    BY <1>1, <1>3 DEF Bind, GoodState, StageOK, Resolving, RequestState, Stage
  <2>2. s.acct \in Accounts /\ s.key = req[r].key
    BY <1>1, <1>3 DEF Bind, GoodState, StageOK, RequestState
  <2>3. CASE s.key = NoKey /\ Becomes(r, s) /\ UNCHANGED entries
    <3> HIDE DEF s
    <3> QED BY <1>3, <2>1, <2>3, OneStages DEF Bind, StagesInv, ChatTypeOK
  <2>4. CASE /\ entries' = [entries EXCEPT ![s.key] = s.acct]
             /\ BecomesBound(r, s, s.key, "bound")
    <3> HIDE DEF s
    <3>1. /\ req' = [q \in Requests |-> req'[q]]
          /\ \A q \in Requests : GoodState(req'[q])
      BY <2>1, <2>4, BoundStages
    <3>2. entries' \in [Keys -> Accounts \cup {NoAccount}]
      BY <2>2, <2>4 DEF StagesInv, ChatTypeOK
    <3> QED BY <1>3, <3>1, <3>2, StagesKept DEF Bind, StagesInv, ChatTypeOK
  <2> QED BY <1>3, <2>3, <2>4 DEF Bind
<1>4. CASE AnswerPassed(r)
  <2>1. GoodState([req[r] EXCEPT !.stage = "leave"])
    BY <1>1, <1>4 DEF AnswerPassed, GoodState, StageOK, RequestState, Stage,
                      Resolving
  <2> QED BY <1>4, <2>1, OneStages DEF AnswerPassed, StagesInv, ChatTypeOK
<1> QED BY <1>2, <1>3, <1>4

LEMMA StepStages == StagesInv /\ [ChatNext]_chatVars => StagesInv'
<1> SUFFICES ASSUME StagesInv, [ChatNext]_chatVars
             PROVE  StagesInv'
  OBVIOUS
<1>1. ASSUME NEW r \in Requests, GoesOn(r)
      PROVE  StagesInv'
  BY <1>1, ResolveStages, PickStages, RoundStages, CallStages, SuccessStages
     DEF GoesOn, Runs, CallEnds
<1>2. ASSUME NEW a \in Accounts, NEW m \in Models, LimitExpires(a, m)
      PROVE  StagesInv'
  <2>1. limits' \in SUBSET (Accounts \X Models)
    BY <1>2 DEF LimitExpires, StagesInv, ChatTypeOK
  <2>2. /\ req' = [q \in Requests |-> req'[q]]
        /\ \A q \in Requests : GoodState(req'[q])
    BY <1>2, LiftedStages DEF LimitExpires
  <2> QED BY <1>2, <2>1, <2>2, StagesKept
          DEF LimitExpires, StagesInv, ChatTypeOK
<1>3. ASSUME NEW k \in Keys, SessionExpires(k)
      PROVE  StagesInv'
  BY <1>3 DEF SessionExpires, StagesInv, ChatTypeOK
<1>4. CASE UNCHANGED chatVars
  BY <1>4 DEF chatVars, StagesInv, ChatTypeOK
<1> QED BY <1>1, <1>2, <1>3, <1>4, BeginStages DEF ChatNext

(* Every variable keeps to values of its kind. *)
THEOREM ChatTypeCorrect == ChatSpec => []ChatTypeOK
<1>1. StagesInv => ChatTypeOK
  BY DEF StagesInv
<1> QED BY <1>1, InitStages, StepStages, PTL DEF ChatSpec

-----------------------------------------------------------------------------
(* The leases.  All the steps leave counters and leases alone, but for     *)
(* Acquire and the three ways to give back.                                *)

HeldBecomes(r, h) ==
  \A q \in Requests : req'[q].held = IF q = r THEN h ELSE req[q].held

HeldSame == UNCHANGED inFlight /\ \A q \in Requests : req'[q].held = req[q].held

Takes(r, a) ==
  /\ req[r].held = NoAccount
  /\ Free(a)
  /\ inFlight' = [inFlight EXCEPT ![a] = @ + 1]
  /\ HeldBecomes(r, a)

Gives(r, a) ==
  /\ req[r].held = a
  /\ GiveBack(a)
  /\ HeldBecomes(r, NoAccount)

HeldChange ==
  \/ HeldSame
  \/ \E r \in Requests, a \in Accounts : Takes(r, a) \/ Gives(r, a)

LEMMA BecomesHeld ==
  ASSUME StagesInv, NEW r \in Requests, NEW s, Becomes(r, s)
  PROVE  HeldBecomes(r, s.held)
BY DEF StagesInv, ChatTypeOK, Becomes, HeldBecomes

LEMMA BoundHeld ==
  ASSUME StagesInv, NEW r \in Requests, NEW s, NEW k, NEW how,
         BecomesBound(r, s, k, how)
  PROVE  HeldBecomes(r, s.held)
BY Typed DEF GoodState, RequestState, BecomesBound, HeldBecomes

LEMMA HeldStays ==
  ASSUME NEW r, HeldBecomes(r, req[r].held), UNCHANGED inFlight
  PROVE  HeldChange
BY DEF HeldBecomes, HeldSame, HeldChange

LEMMA BeginHeld ==
  ASSUME StagesInv, NEW r \in Requests, NEW k \in Keys \cup {NoKey},
         NEW m \in Models, Begin(r, k, m)
  PROVE  HeldChange
<1> DEFINE t == [Blank(m) EXCEPT
                   !.stage = IF k = NoKey THEN "pick" ELSE "resolve", !.key = k]
<1>1. t.held = NoAccount
  BY DEF Blank
<1>2. req[r].held = NoAccount /\ UNCHANGED inFlight
  BY Typed DEF GoodState, StageOK, Begin
<1> HIDE DEF t
<1>3. Becomes(r, t)
  BY DEF Begin, t
<1> QED BY <1>1, <1>2, <1>3, BecomesHeld, HeldStays

LEMMA ResolveHeld ==
  ASSUME StagesInv, NEW r \in Requests, LookUp(r) \/ Touch(r) \/ Allocate(r)
  PROVE  HeldChange
<1> DEFINE s == req[r]
<1>1. s \in RequestState /\ UNCHANGED inFlight
  BY Typed DEF GoodState, LookUp, Touch, Allocate
<1>2. CASE LookUp(r)
  <2> DEFINE a == entries[s.key]
  <2>1. /\ [s EXCEPT !.stage = "touch", !.sticky = a].held = s.held
        /\ [s EXCEPT !.stage = "allocate"].held = s.held
    BY <1>1 DEF RequestState
  <2>2. \/ Becomes(r, [s EXCEPT !.stage = "touch", !.sticky = a])
        \/ Becomes(r, [s EXCEPT !.stage = "allocate"])
    BY <1>2 DEF LookUp
  <2> QED BY <1>1, <2>1, <2>2, BecomesHeld, HeldStays
<1>3. CASE Touch(r)
  <2> DEFINE t == [s EXCEPT !.stage = "pick", !.rebound = "no"]
  <2>1. t.held = s.held
    BY <1>1 DEF RequestState
  <2>2. BecomesBound(r, t, t.key, "touched")
    BY <1>3 DEF Touch
  <2> QED BY <1>1, <2>1, <2>2, BoundHeld, HeldStays
<1>4. CASE Allocate(r)
  <2> DEFINE Given(a) == [s EXCEPT !.stage = "pick", !.sticky = a,
                                   !.rebound = "no"]
  <2>1. \A a : Given(a).held = s.held
    BY <1>1 DEF RequestState
  <2>2. \E a : \/ Becomes(r, Given(a))
              \/ BecomesBound(r, Given(a), s.key, "bound")
    BY <1>4 DEF Allocate
  <2> HIDE DEF Given
  <2> QED BY <1>1, <2>1, <2>2, BecomesHeld, BoundHeld, HeldStays
<1> QED BY <1>2, <1>3, <1>4

LEMMA GoesOnHeld ==
  ASSUME StagesInv, NEW r \in Requests, GoesOn(r)
  PROVE  HeldChange
<1> DEFINE s == req[r]
<1>1. s \in RequestState /\ StageOK(s)
  BY Typed DEF GoodState
<1>2. ASSUME \/ GiveUp(r) \/ StickyLost(r) \/ NotLimited(r)
             \/ UpstreamTimeout(r) \/ AnswerPassed(r)
      PROVE  HeldChange
  <2>1. PICK g : Becomes(r, [s EXCEPT !.stage = g])
    BY <1>2 DEF GiveUp, StickyLost, NotLimited, UpstreamTimeout, AnswerPassed
  <2>2. [s EXCEPT !.stage = g].held = s.held /\ UNCHANGED inFlight
    BY <1>1, <1>2
       DEF GiveUp, StickyLost, NotLimited, UpstreamTimeout, AnswerPassed,
           RequestState
  <2> QED BY <2>1, <2>2, BecomesHeld, HeldStays
<1>3. CASE Pick(r)
  <2>1. PICK a : Becomes(r, [s EXCEPT !.stage = "check", !.acct = a,
                                      !.tried = @ \cup {a}])
    BY <1>3 DEF Pick
  <2>2. [s EXCEPT !.stage = "check", !.acct = a, !.tried = @ \cup {a}].held
          = s.held
    BY <1>1 DEF RequestState
  <2> QED BY <1>3, <2>1, <2>2, BecomesHeld, HeldStays DEF Pick
<1>4. CASE SkipLimited(r)
  <2> DEFINE t == [NextRound(s) EXCEPT
                     !.sticky = IF @ = s.acct THEN NoAccount ELSE @]
  <2>1. t.held = s.held
    BY <1>1 DEF NextRound, RequestState
  <2> QED BY <1>4, <2>1, BecomesHeld, HeldStays DEF SkipLimited
<1>5. CASE AcquireFails(r)
  <2> DEFINE t == [NextRound(s) EXCEPT
                     !.stage = IF s.sticky = s.acct THEN "unbind" ELSE "pick"]
  <2>1. t.held = s.held
    BY <1>1 DEF NextRound, RequestState
  <2> QED BY <1>5, <2>1, BecomesHeld, HeldStays DEF AcquireFails
<1>6. CASE Acquire(r)
  <2>1. s.held = NoAccount /\ s.acct \in Accounts
    BY <1>1, <1>6 DEF Acquire, StageOK
  <2>2. [s EXCEPT !.stage = "held", !.held = s.acct].held = s.acct
    BY <1>1 DEF RequestState
  <2>3. HeldBecomes(r, s.acct)
    BY <1>6, <2>2, BecomesHeld DEF Acquire
  <2> QED BY <1>6, <2>1, <2>3 DEF Acquire, Takes, HeldChange
<1>7. ASSUME NEW n, Fails(r, n)
      PROVE  HeldChange
  <2> DEFINE t == [s EXCEPT !.stage = "failed", !.next = n,
                            !.refused = @ \cup {<<s.acct, "failed">>}]
  <2>1. t.held = s.held
    BY <1>1 DEF RequestState
  <2> QED BY <1>7, <2>1, BecomesHeld, HeldStays DEF Fails
<1>8. CASE SoftRate(r)
  <2> DEFINE t == [s EXCEPT !.stage = "limited",
                            !.refused = @ \cup {<<s.acct, "rated">>}]
  <2>1. t.held = s.held
    BY <1>1 DEF RequestState
  <2> QED BY <1>8, <2>1, BecomesHeld, HeldStays DEF SoftRate
<1>9. CASE ReleaseLimited(r)
  <2>1. [NextRound(s) EXCEPT !.held = NoAccount].held = NoAccount
    BY <1>1 DEF NextRound, RequestState
  <2>2. HeldBecomes(r, NoAccount)
    BY <1>9, <2>1, BecomesHeld DEF ReleaseLimited
  <2> QED BY <1>1, <1>9, <2>2 DEF ReleaseLimited, Gives, HeldChange, StageOK
<1>10. CASE ReleaseFailed(r)
  <2> DEFINE t == [NextRound(s) EXCEPT
                     !.held  = NoAccount,
                     !.round = IF s.next = "pick" THEN @ ELSE s.round,
                     !.stage = IF s.sticky = s.acct THEN "unbind" ELSE s.next]
  <2>1. t.held = NoAccount
    BY <1>1 DEF NextRound, RequestState
  <2>2. HeldBecomes(r, NoAccount)
    BY <1>10, <2>1, BecomesHeld DEF ReleaseFailed
  <2> QED BY <1>1, <1>10, <2>2 DEF ReleaseFailed, Gives, HeldChange, StageOK
<1>11. CASE Unbind(r)
  <2>1. [s EXCEPT !.stage = s.next, !.sticky = NoAccount,
                 !.rebound = "no"].held = s.held
    BY <1>1 DEF RequestState
  <2> QED BY <1>11, <2>1, BecomesHeld, HeldStays DEF Unbind
<1>12. CASE Success(r)
  <2> DEFINE l(q) == Lifted(q, s.acct, s.model)
  <2>1. s.acct \in Accounts
    BY <1>1, <1>12 DEF Success, StageOK
  <2>2. \A q \in Requests : l(q).held = req[q].held /\ GoodState(l(q))
    BY <2>1, Typed, LiftedGood
  <2>3. req' = [q \in Requests |->
                  IF q = r THEN [l(r) EXCEPT !.stage = "bind"] ELSE l(q)]
    BY <1>12 DEF Success
  <2> HIDE DEF l
  <2>4. [l(r) EXCEPT !.stage = "bind"].held = l(r).held
    BY <2>2 DEF GoodState, RequestState
  <2>5. HeldBecomes(r, s.held)
    BY <2>2, <2>3, <2>4 DEF HeldBecomes
  <2> QED BY <1>12, <2>5, HeldStays DEF Success
<1>13. CASE Bind(r)
  <2> DEFINE t == [s EXCEPT !.stage = "relay", !.rebound = "no"]
  <2>1. t.held = s.held
    BY <1>1 DEF RequestState
  <2>2. Becomes(r, t) \/ BecomesBound(r, t, t.key, "bound")
    BY <1>13 DEF Bind
  <2> QED BY <1>13, <2>1, <2>2, BecomesHeld, BoundHeld, HeldStays DEF Bind
<1>14. CASE Leave(r)
  <2>1. Blank(s.model).held = NoAccount
    BY DEF Blank
  <2>2. HeldBecomes(r, NoAccount)
    BY <1>14, <2>1, BecomesHeld DEF Leave
  <2>3. CASE s.held = NoAccount
    BY <1>14, <2>2, <2>3, HeldStays DEF Leave
  <2>4. CASE s.held \in Accounts
    BY <1>14, <2>2, <2>4, ChatAssumption DEF Leave, Gives, HeldChange
  <2> QED BY <1>1, <2>3, <2>4 DEF RequestState
<1> QED
  BY <1>2, <1>3, <1>4, <1>5, <1>6, <1>7, <1>8, <1>9, <1>10, <1>11, <1>12,
     <1>13, <1>14, ResolveHeld
     DEF GoesOn, Runs, CallEnds, AccountFails, RequestRefused

LEMMA StepHeld == StagesInv /\ [ChatNext]_chatVars => HeldChange
<1> SUFFICES ASSUME StagesInv, [ChatNext]_chatVars
             PROVE  HeldChange
  OBVIOUS
<1>1. ASSUME NEW a \in Accounts, NEW m \in Models, LimitExpires(a, m)
      PROVE  HeldChange
  BY <1>1, Typed, LiftedGood DEF LimitExpires, HeldChange, HeldSame
<1>2. ASSUME NEW k \in Keys, SessionExpires(k)
      PROVE  HeldChange
  BY <1>2 DEF SessionExpires, HeldChange, HeldSame
<1>3. CASE UNCHANGED chatVars
  BY <1>3 DEF chatVars, HeldChange, HeldSame
<1> QED BY <1>1, <1>2, <1>3, BeginHeld, GoesOnHeld DEF ChatNext

HoldersOf(a) == {r \in Requests : req[r].held = a}

HeldInv ==
  /\ StagesInv
  /\ HeldCounted
  /\ \A a \in Accounts : MaxInFlight > 0 => inFlight[a] <= MaxInFlight

LEMMA HoldersFinite ==
  ASSUME NEW a
  PROVE  /\ IsFiniteSet(HoldersOf(a)) /\ Cardinality(HoldersOf(a)) \in Nat
         /\ IsFiniteSet(HoldersOf(a)') /\ Cardinality(HoldersOf(a)') \in Nat
<1>1. HoldersOf(a) \in SUBSET Requests /\ HoldersOf(a)' \in SUBSET Requests
  BY DEF HoldersOf
<1> QED BY <1>1, RequestsFinite, FS_Subset, FS_CardinalityType

LEMMA HeldKept ==
  ASSUME HeldInv, StagesInv', HeldChange
  PROVE  HeldInv'
<1> SUFFICES \A a \in Accounts :
               /\ inFlight'[a] = Cardinality(HoldersOf(a)')
               /\ MaxInFlight > 0 => inFlight'[a] <= MaxInFlight
  BY DEF HeldInv, HeldCounted, HoldersOf
<1> TAKE a \in Accounts
<1>1. /\ inFlight[a] = Cardinality(HoldersOf(a))
      /\ MaxInFlight > 0 => inFlight[a] <= MaxInFlight
      /\ inFlight \in [Accounts -> Nat]
      /\ MaxInFlight \in Nat
  BY ChatAssumption DEF HeldInv, HeldCounted, HoldersOf, StagesInv, ChatTypeOK
<1>2. CASE HeldSame
  <2>1. HoldersOf(a)' = HoldersOf(a)
    BY <1>2 DEF HeldSame, HoldersOf
  <2> QED BY <1>1, <1>2, <2>1 DEF HeldSame
<1>3. ASSUME NEW r \in Requests, NEW b \in Accounts, Takes(r, b)
      PROVE  /\ inFlight'[a] = Cardinality(HoldersOf(a)')
             /\ MaxInFlight > 0 => inFlight'[a] <= MaxInFlight
  <2>1. CASE a = b
    <3>1. HoldersOf(a)' = HoldersOf(a) \cup {r} /\ r \notin HoldersOf(a)
      BY <1>3, <2>1, ChatAssumption DEF Takes, HeldBecomes, HoldersOf
    <3>2. Cardinality(HoldersOf(a)') = Cardinality(HoldersOf(a)) + 1
      BY <3>1, HoldersFinite, FS_AddElement
    <3> QED BY <1>1, <1>3, <2>1, <3>2 DEF Takes, Free
  <2>2. CASE a # b
    <3>1. HoldersOf(a)' = HoldersOf(a)
      BY <1>3, <2>2, ChatAssumption DEF Takes, HeldBecomes, HoldersOf
    <3> QED BY <1>1, <1>3, <2>2, <3>1 DEF Takes
  <2> QED BY <2>1, <2>2
<1>4. ASSUME NEW r \in Requests, NEW b \in Accounts, Gives(r, b)
      PROVE  /\ inFlight'[a] = Cardinality(HoldersOf(a)')
             /\ MaxInFlight > 0 => inFlight'[a] <= MaxInFlight
  <2>1. CASE a = b
    <3>1. HoldersOf(a)' = HoldersOf(a) \ {r} /\ r \in HoldersOf(a)
      BY <1>4, <2>1, ChatAssumption DEF Gives, HeldBecomes, HoldersOf
    <3>2. Cardinality(HoldersOf(a)') = Cardinality(HoldersOf(a)) - 1
      BY <3>1, HoldersFinite, FS_RemoveElement
    <3>3. inFlight'[a] = inFlight[a] - 1
      BY <1>1, <1>4, <2>1, <3>2, HoldersFinite DEF Gives, GiveBack
    <3> QED BY <1>1, <3>2, <3>3
  <2>2. CASE a # b
    <3>1. HoldersOf(a)' = HoldersOf(a)
      BY <1>4, <2>2, ChatAssumption DEF Gives, HeldBecomes, HoldersOf
    <3> QED BY <1>1, <1>4, <2>2, <3>1 DEF Gives, GiveBack
  <2> QED BY <2>1, <2>2
<1> QED BY <1>2, <1>3, <1>4, HeldChange DEF HeldChange

LEMMA InitHeld == ChatInit => HeldInv
<1> SUFFICES ASSUME ChatInit PROVE HeldInv
  OBVIOUS
<1>1. \A r \in Requests : req[r].held = NoAccount
  BY DEF ChatInit, Blank
<1>2. \A a \in Accounts : HoldersOf(a) = {} /\ inFlight[a] = 0
  BY <1>1, ChatAssumption DEF HoldersOf, ChatInit
<1>3. HeldCounted
  <2> SUFFICES ASSUME NEW a \in Accounts
               PROVE  inFlight[a] = Cardinality(HoldersOf(a))
    BY DEF HeldCounted, HoldersOf
  <2>1. Cardinality(HoldersOf(a)) = 0
    BY <1>2, FS_EmptySet
  <2> QED BY <1>2, <2>1
<1> QED BY <1>2, <1>3, InitStages, ChatAssumption DEF HeldInv

LEMMA StepHeldInv == HeldInv /\ [ChatNext]_chatVars => HeldInv'
BY HeldKept, StepHeld, StepStages DEF HeldInv

(* The counters of the pool count exactly the leases of the requests.      *)
THEOREM HeldCountedCorrect == ChatSpec => []HeldCounted
<1>1. HeldInv => HeldCounted
  BY DEF HeldInv
<1> QED BY <1>1, InitHeld, StepHeldInv, PTL DEF ChatSpec

-----------------------------------------------------------------------------
(* Refinement of Leases. *)

Leases == {<<r, req[r].held>> : r \in {q \in Requests : req[q].held # NoAccount}}

LEMMA InLeases ==
  ASSUME NEW r \in Requests, NEW a \in Accounts
  PROVE  /\ <<r, a>> \in Leases <=> req[r].held = a
         /\ <<r, a>> \in Leases' <=> req'[r].held = a
BY ChatAssumption DEF Leases

LEMMA AbstractHolders ==
  ASSUME NEW a \in Accounts
  PROVE  L!HoldersOf(a) = HoldersOf(a)
BY InLeases DEF L!HoldersOf, HoldersOf, Leases

(* A change of the leases is a step of the abstract specification. *)
LEMMA LeaseStep ==
  ASSUME HeldInv, StagesInv', HeldChange
  PROVE  [L!LeasesNext]_Leases
<1>0. \A r \in Requests : /\ req[r].held \in Accounts \cup {NoAccount}
                          /\ req'[r].held \in Accounts \cup {NoAccount}
  BY DEF HeldInv, StagesInv, ChatTypeOK, RequestState
<1>1. CASE HeldSame
  BY <1>1 DEF HeldSame, Leases
<1>2. ASSUME NEW r \in Requests, NEW a \in Accounts, Takes(r, a)
      PROVE  L!Take(r, a)
  <2>1. Leases' = Leases \cup {<<r, a>>}
    BY <1>2, ChatAssumption DEF Takes, HeldBecomes, Leases
  <2>2. ~L!Holding(r)
    BY <1>2, InLeases, ChatAssumption DEF Takes, L!Holding, Leases
  <2>3. MaxInFlight > 0 => L!Cardinality(L!HoldersOf(a)) < MaxInFlight
    <3>0. L!Cardinality(L!HoldersOf(a)) = Cardinality(L!HoldersOf(a))
      BY DEF L!Cardinality, Cardinality
    <3>1. L!HoldersOf(a) = {q \in Requests : req[q].held = a}
      BY AbstractHolders DEF HoldersOf
    <3>2. Cardinality(L!HoldersOf(a)) = inFlight[a]
      BY <3>1 DEF HeldInv, HeldCounted
    <3> QED BY <1>2, <3>0, <3>2, ChatAssumption DEF Takes, Free
  <2> QED BY <2>1, <2>2, <2>3 DEF L!Take, Leases
<1>3. ASSUME NEW r \in Requests, NEW a \in Accounts, Gives(r, a)
      PROVE  L!Give(r, a)
  <2>1. Leases' = Leases \ {<<r, a>>}
    BY <1>3, ChatAssumption DEF Gives, HeldBecomes, Leases
  <2>2. <<r, a>> \in Leases
    BY <1>3, InLeases DEF Gives
  <2> QED BY <2>1, <2>2 DEF L!Give, Leases
<1> QED BY <1>1, <1>2, <1>3 DEF HeldChange, L!LeasesNext

(* The rotation implements the leases: each of its steps takes one, gives  *)
(* one back, or changes none.                                              *)
THEOREM ImplementsLeasesCorrect == ChatSpec => ImplementsLeases
<1>1. ChatInit => L!LeasesInit
  <2> SUFFICES ASSUME ChatInit PROVE Leases = {}
    BY DEF L!LeasesInit, Leases
  <2> QED BY DEF ChatInit, Blank, Leases
<1>2. HeldInv /\ StagesInv' /\ [ChatNext]_chatVars => [L!LeasesNext]_Leases
  BY LeaseStep, StepHeld DEF HeldInv
<1>3. HeldInv => StagesInv
  BY DEF HeldInv
<1> QED
  BY <1>1, <1>2, <1>3, InitHeld, StepHeldInv, PTL
     DEF ChatSpec, ImplementsLeases, L!LeasesSpec, Leases

-----------------------------------------------------------------------------
(* Accounts that refused.                                                  *)

(* A limit that has refused a request is still in force. *)
RatedOK(s, lim) ==
  \A a \in Accounts : <<a, "rated">> \in s.refused => <<a, s.model>> \in lim

(* The binding e of a request's key, unless another request has written it *)
(* later: it is the sticky account, or the sticky account this request has *)
(* left because its model was limited; it has failed the request only      *)
(* while the request is on its way to unbind it.                           *)
BindingOK(s, e) ==
  s.stage \notin Resolving \cup {"idle"} /\ s.rebound = "no" /\ e # NoAccount =>
    /\ s.stage \notin {"relay", "leave"} =>
         \/ e = s.sticky
         \/ s.sticky = NoAccount /\ e \in s.tried /\ e # s.acct
    /\ <<e, "failed">> \in s.refused =>
         s.stage \in {"failed", "unbind"} /\ e = s.sticky

RefusalOK(s, lim, ent) ==
  /\ RatedOK(s, lim)
  /\ s.key # NoKey => BindingOK(s, ent[s.key])

RefusalsInv ==
  /\ StagesInv
  /\ \A r \in Requests : RefusalOK(req[r], limits, entries)

(* Request r goes on, and limits and bindings stay. *)
LEMMA OneRefusals ==
  ASSUME RefusalsInv, StagesInv', NEW r \in Requests, NEW s, Becomes(r, s),
         RefusalOK(s, limits, entries), UNCHANGED <<limits, entries>>
  PROVE  RefusalsInv'
<1>1. \A q \in Requests : req'[q] = IF q = r THEN s ELSE req[q]
  BY DEF RefusalsInv, StagesInv, ChatTypeOK, Becomes
<1> QED BY <1>1 DEF RefusalsInv

(* A key that is unbound satisfies its requests. *)
LEMMA UnboundOK ==
  ASSUME NEW s
  PROVE  BindingOK(s, NoAccount)
BY DEF BindingOK

(* A key is bound by request r: the other requests of the key know.        *)
LEMMA BoundRefusals ==
  ASSUME RefusalsInv, StagesInv', NEW r \in Requests, NEW s, NEW k \in Keys,
         NEW a \in Accounts, NEW how \in {"touched", "bound"},
         BecomesBound(r, s, k, how),
         entries' = [entries EXCEPT ![k] = a], UNCHANGED limits,
         s.key = k, RatedOK(s, limits), BindingOK(s, a)
  PROVE  RefusalsInv'
<1>1. entries \in [Keys -> Accounts \cup {NoAccount}]
  BY DEF RefusalsInv, StagesInv, ChatTypeOK
<1> SUFFICES ASSUME NEW q \in Requests
             PROVE  RefusalOK(req'[q], limits', entries')
  BY DEF RefusalsInv
<1>2. CASE q = r
  <2>1. req'[q] = s /\ entries'[k] = a
    BY <1>1, <1>2 DEF BecomesBound
  <2> QED BY <2>1 DEF RefusalOK
<1>3. CASE q # r
  <2> DEFINE t == req'[q]
  <2>1. req[q] \in RequestState /\ RefusalOK(req[q], limits, entries)
    BY DEF RefusalsInv, StagesInv, ChatTypeOK
  <2>2. t = [req[q] EXCEPT !.rebound = IF req[q].key = k THEN how ELSE @]
    BY <1>3 DEF BecomesBound
  <2>3. /\ t.stage = req[q].stage /\ t.refused = req[q].refused
        /\ t.model = req[q].model /\ t.key = req[q].key
        /\ t.sticky = req[q].sticky /\ t.tried = req[q].tried
        /\ t.acct = req[q].acct
    BY <2>1, <2>2 DEF RequestState
  <2>4. t.rebound = IF req[q].key = k THEN how ELSE req[q].rebound
    BY <2>1, <2>2 DEF RequestState
  <2> HIDE DEF t
  <2>5. CASE t.key = k
    <3>1. t.rebound # "no"
      BY <2>3, <2>4, <2>5
    <3> QED BY <2>1, <2>3, <3>1 DEF RefusalOK, RatedOK, BindingOK, t
  <2>6. CASE t.key # k
    <3>1. t.rebound = req[q].rebound
      BY <2>3, <2>4, <2>6
    <3>2. t.key # NoKey => entries'[t.key] = entries[t.key]
      BY <1>1, <2>1, <2>3, <2>6 DEF RequestState
    <3> QED BY <2>1, <2>3, <3>1, <3>2 DEF RefusalOK, RatedOK, BindingOK, t
  <2> QED BY <2>5, <2>6
<1> QED BY <1>2, <1>3

LEMMA InitRefusals == ChatInit => RefusalsInv
BY InitStages DEF ChatInit, Blank, RefusalsInv, RefusalOK, RatedOK, BindingOK

LEMMA BeginRefusals ==
  ASSUME RefusalsInv, StagesInv', NEW r \in Requests,
         NEW k \in Keys \cup {NoKey}, NEW m \in Models, Begin(r, k, m)
  PROVE  RefusalsInv'
<1> DEFINE t == [Blank(m) EXCEPT
                   !.stage = IF k = NoKey THEN "pick" ELSE "resolve", !.key = k]
<1>1. t.refused = {} /\ t.key = k /\ (k # NoKey => t.stage = "resolve")
  BY DEF Blank
<1>2. Becomes(r, t) /\ UNCHANGED <<limits, entries>>
  BY DEF Begin
<1> HIDE DEF t
<1>3. RefusalOK(t, limits, entries)
  BY <1>1 DEF RefusalOK, RatedOK, BindingOK, Resolving
<1> QED BY <1>2, <1>3, OneRefusals

(* Resolve leaves the key bound to the account it returns. *)
LEMMA ResolveRefusals ==
  ASSUME RefusalsInv, StagesInv', NEW r \in Requests,
         LookUp(r) \/ Touch(r) \/ Allocate(r)
  PROVE  RefusalsInv'
<1> DEFINE s == req[r]
           k == s.key
<1>1. /\ s \in RequestState /\ StageOK(s)
      /\ entries \in [Keys -> Accounts \cup {NoAccount}]
  BY DEF RefusalsInv, StagesInv, ChatTypeOK
<1>2. /\ s.stage \in Resolving /\ k \in Keys /\ k # NoKey /\ s.refused = {}
      /\ UNCHANGED limits
  BY <1>1 DEF LookUp, Touch, Allocate, StageOK, Resolving, RequestState
<1>3. ASSUME NEW t, t.refused = {}
      PROVE  /\ RatedOK(t, limits)
             /\ \A e : t.stage \in Resolving \/ e = t.sticky => BindingOK(t, e)
  BY <1>3 DEF RatedOK, BindingOK
<1>4. CASE LookUp(r)
  <2>1. PICK g \in Resolving, a \in {s.sticky, entries[k]} :
          Becomes(r, [s EXCEPT !.stage = g, !.sticky = a])
    <3>1. [s EXCEPT !.stage = "allocate"]
            = [s EXCEPT !.stage = "allocate", !.sticky = s.sticky]
      BY <1>1 DEF RequestState
    <3>2. "touch" \in Resolving /\ "allocate" \in Resolving
      BY DEF Resolving
    <3>3. \/ Becomes(r, [s EXCEPT !.stage = "touch", !.sticky = entries[k]])
          \/ Becomes(r, [s EXCEPT !.stage = "allocate"])
      BY <1>4 DEF LookUp
    <3> QED BY <3>1, <3>2, <3>3
  <2> DEFINE t == [s EXCEPT !.stage = g, !.sticky = a]
  <2>2. t.refused = {} /\ t.stage = g
    BY <1>1, <1>2 DEF RequestState
  <2> HIDE DEF t
  <2>3. RefusalOK(t, limits, entries)
    BY <1>3, <2>1, <2>2 DEF RefusalOK
  <2>4. UNCHANGED <<limits, entries>>
    BY <1>4 DEF LookUp
  <2> QED BY <2>1, <2>3, <2>4, OneRefusals DEF t
<1>5. CASE Touch(r)
  <2> DEFINE t == [s EXCEPT !.stage = "pick", !.rebound = "no"]
  <2>1. /\ t.refused = {} /\ t.key = k /\ t.sticky = s.sticky
        /\ s.sticky \in Accounts
    BY <1>1, <1>2, <1>5 DEF Touch, StageOK, RequestState
  <2>2. BecomesBound(r, t, k, "touched")
        /\ entries' = [entries EXCEPT ![k] = s.sticky]
    BY <1>5, <2>1 DEF Touch
  <2> HIDE DEF t
  <2>3. RatedOK(t, limits) /\ BindingOK(t, s.sticky)
    BY <1>3, <2>1
  <2> HIDE DEF s, k
  <2> QED BY <1>2, <2>1, <2>2, <2>3, BoundRefusals
<1>6. CASE Allocate(r)
  <2> DEFINE Given(a) == [s EXCEPT !.stage = "pick", !.sticky = a,
                                   !.rebound = "no"]
  <2>1. \A a : Given(a).refused = {} /\ Given(a).key = k /\ Given(a).sticky = a
    BY <1>1, <1>2 DEF RequestState
  <2> HIDE DEF Given
  <2>2. \A a : RatedOK(Given(a), limits) /\ BindingOK(Given(a), a)
    BY <1>3, <2>1
  <2> HIDE DEF s, k
  <2>3. CASE Becomes(r, Given(entries[k])) /\ UNCHANGED entries
    <3>1. RefusalOK(Given(entries[k]), limits, entries)
      BY <2>1, <2>2 DEF RefusalOK
    <3> QED BY <1>2, <2>3, <3>1, OneRefusals
  <2>4. ASSUME NEW a \in Accounts, entries' = [entries EXCEPT ![k] = a],
               BecomesBound(r, Given(a), k, "bound")
        PROVE  RefusalsInv'
    BY <1>2, <2>1, <2>2, <2>4, BoundRefusals
  <2>5. CASE /\ entries' = [entries EXCEPT ![k] = NoAccount]
             /\ Becomes(r, Given(NoAccount))
    <3>1. \A q \in Requests :
            req'[q] = IF q = r THEN Given(NoAccount) ELSE req[q]
      BY <2>5 DEF RefusalsInv, StagesInv, ChatTypeOK, Becomes
    <3>2. \A j \in Keys : entries'[j] = IF j = k THEN NoAccount ELSE entries[j]
      BY <1>1, <2>5
    <3>3. \A q \in Requests : req[q].key \in Keys \cup {NoKey}
      BY DEF RefusalsInv, StagesInv, ChatTypeOK, RequestState
    <3> QED
      BY <1>2, <2>1, <2>2, <3>1, <3>2, <3>3, UnboundOK
         DEF RefusalsInv, RefusalOK
  <2> QED BY <1>6, <2>3, <2>4, <2>5 DEF Allocate, Given, s, k
<1> QED BY <1>4, <1>5, <1>6

(* A limit is lifted: the requests of its model forget who refused.        *)
LEMMA LiftedRefusals ==
  ASSUME RefusalsInv, NEW q \in Requests, NEW a \in Accounts, NEW m
  PROVE  RefusalOK(Lifted(q, a, m), limits \ {<<a, m>>}, entries)
<1> DEFINE t == Lifted(q, a, m)
<1>1. /\ req[q] \in RequestState /\ RefusalOK(req[q], limits, entries)
      /\ GoodState(req[q])
  BY Typed DEF RefusalsInv, GoodState
<1>2. /\ t.stage = req[q].stage /\ t.model = req[q].model
      /\ t.key = req[q].key /\ t.sticky = req[q].sticky
      /\ t.tried = req[q].tried /\ t.acct = req[q].acct
      /\ t.rebound = req[q].rebound
      /\ \A b : <<b, "failed">> \in t.refused => <<b, "failed">> \in req[q].refused
  BY <1>1, LiftedGood
<1>3. t.refused = IF req[q].model = m THEN req[q].refused \ {<<a, "rated">>}
                                      ELSE req[q].refused
  BY <1>1 DEF Lifted, RequestState
<1> HIDE DEF t
<1>4. RatedOK(t, limits \ {<<a, m>>})
  BY <1>1, <1>2, <1>3 DEF RefusalOK, RatedOK
<1>5. t.key # NoKey => BindingOK(t, entries[t.key])
  BY <1>1, <1>2 DEF RefusalOK, BindingOK
<1> QED BY <1>4, <1>5 DEF RefusalOK, t

LEMMA GoesOnRefusals ==
  ASSUME RefusalsInv, StagesInv', NEW r \in Requests, GoesOn(r)
  PROVE  RefusalsInv'
<1> DEFINE s == req[r]
<1>1. /\ s \in RequestState /\ StageOK(s) /\ RefusalOK(s, limits, entries)
      /\ \A k \in Keys : entries[k] \in Accounts \cup {NoAccount}
  BY DEF RefusalsInv, StagesInv, ChatTypeOK
<1> DEFINE e == entries[s.key]
<1>2. s.key # NoKey => BindingOK(s, e) /\ e \in Accounts \cup {NoAccount}
  BY <1>1 DEF RefusalOK, RequestState
<1>3. RatedOK(s, limits)
  BY <1>1 DEF RefusalOK
<1> HIDE DEF s, e
(* A record t that r goes on with, its key and model as before. *)
<1>4. ASSUME NEW t, Becomes(r, t), UNCHANGED <<limits, entries>>,
             t.key = s.key, RatedOK(t, limits),
             s.key # NoKey => BindingOK(t, e)
      PROVE  RefusalsInv'
  <2>1. RefusalOK(t, limits, entries)
    BY <1>4 DEF RefusalOK, e
  <2> QED BY <1>4, <2>1, OneRefusals
<1>5. ASSUME \/ GiveUp(r) \/ StickyLost(r) \/ NotLimited(r)
             \/ UpstreamTimeout(r) \/ AnswerPassed(r)
      PROVE  RefusalsInv'
  <2>1. PICK g \in {"leave", "unbind", "claim"} :
          /\ Becomes(r, [s EXCEPT !.stage = g])
          /\ s.stage \in {"pick", "check", "held", "relay"}
          /\ s.stage = "relay" => g = "leave"
          /\ g = "unbind" => s.sticky # NoAccount
    BY <1>5 DEF GiveUp, StickyLost, NotLimited, UpstreamTimeout, AnswerPassed, s
  <2> DEFINE t == [s EXCEPT !.stage = g]
  <2>2. /\ t.stage = g /\ t.rebound = s.rebound /\ t.sticky = s.sticky
        /\ t.tried = s.tried /\ t.acct = s.acct /\ t.refused = s.refused
        /\ t.key = s.key /\ t.model = s.model
    BY <1>1 DEF RequestState
  <2> HIDE DEF t
  <2>3. RatedOK(t, limits) /\ (s.key # NoKey => BindingOK(t, e))
    BY <1>2, <1>3, <2>1, <2>2 DEF RatedOK, BindingOK, Resolving
  <2> QED
    BY <1>4, <1>5, <2>1, <2>2, <2>3
       DEF GiveUp, StickyLost, NotLimited, UpstreamTimeout, AnswerPassed, t
<1>6. CASE Pick(r)
  <2>1. PICK a \in IF s.sticky = NoAccount THEN Accounts \ s.tried
                                           ELSE {s.sticky} :
          Becomes(r, [s EXCEPT !.stage = "check", !.acct = a,
                               !.tried = @ \cup {a}])
    BY <1>6 DEF Pick, s
  <2> DEFINE t == [s EXCEPT !.stage = "check", !.acct = a,
                            !.tried = @ \cup {a}]
  <2>2. /\ t.stage = "check" /\ t.rebound = s.rebound /\ t.sticky = s.sticky
        /\ t.tried = s.tried \cup {a} /\ t.acct = a /\ t.refused = s.refused
        /\ t.key = s.key /\ t.model = s.model
    BY <1>1 DEF RequestState
  <2> HIDE DEF t
  <2>3. RatedOK(t, limits) /\ (s.key # NoKey => BindingOK(t, e))
    BY <1>2, <1>3, <1>6, <2>1, <2>2 DEF RatedOK, BindingOK, Resolving, Pick, s
  <2> QED BY <1>4, <1>6, <2>1, <2>2, <2>3 DEF Pick, t
(* The end of a round. *)
<1>7. ASSUME NEW t, Becomes(r, t), UNCHANGED <<limits, entries>>,
             s.stage \in {"check", "claim", "limited", "failed"},
             /\ t.key = s.key /\ t.model = s.model
             /\ t.rebound = s.rebound
             /\ t.refused = s.refused /\ t.tried = s.tried,
             t.acct = NoAccount, t.stage \in {"pick", "unbind", "leave"},
             \/ t.sticky = s.sticky
             \/ t.sticky = NoAccount /\ s.sticky = s.acct,
             (s.stage = "failed" /\ s.sticky = s.acct) => t.stage = "unbind",
             t.stage = "unbind" => t.sticky = s.sticky
      PROVE  RefusalsInv'
  <2>1. s.acct \in Accounts /\ s.acct \in s.tried
    BY <1>1, <1>7, ChatAssumption DEF StageOK
  <2>2. s.stage = "failed" /\ s.sticky # NoAccount => s.sticky = s.acct
    BY <1>1, <2>1, ChatAssumption DEF StageOK
  <2>3. RatedOK(t, limits)
    BY <1>3, <1>7 DEF RatedOK
  <2>4. s.key # NoKey => BindingOK(t, e)
    BY <1>2, <1>7, <2>1, <2>2, ChatAssumption DEF BindingOK, Resolving
  <2> QED BY <1>4, <1>7, <2>3, <2>4
<1>8. CASE SkipLimited(r)
  <2> DEFINE t == [NextRound(s) EXCEPT
                     !.sticky = IF @ = s.acct THEN NoAccount ELSE @]
  <2>1. /\ t.stage = "pick" /\ t.rebound = s.rebound
        /\ t.tried = s.tried /\ t.acct = NoAccount /\ t.refused = s.refused
        /\ t.key = s.key /\ t.model = s.model
    BY <1>1 DEF RequestState, NextRound
  <2>2. t.sticky = IF s.sticky = s.acct THEN NoAccount ELSE s.sticky
    BY <1>1 DEF RequestState, NextRound
  <2>3. Becomes(r, t) /\ s.stage = "check" /\ UNCHANGED <<limits, entries>>
    BY <1>8 DEF SkipLimited, s
  <2> HIDE DEF t
  <2> QED BY <1>7, <2>1, <2>2, <2>3
<1>9. CASE AcquireFails(r)
  <2> DEFINE g == IF s.sticky = s.acct THEN "unbind" ELSE "pick"
             t == [NextRound(s) EXCEPT !.stage = g]
  <2>1. /\ t.stage = g /\ t.rebound = s.rebound /\ t.sticky = s.sticky
        /\ t.tried = s.tried /\ t.acct = NoAccount /\ t.refused = s.refused
        /\ t.key = s.key /\ t.model = s.model
    BY <1>1 DEF RequestState, NextRound
  <2>2. Becomes(r, t) /\ s.stage = "claim" /\ UNCHANGED <<limits, entries>>
    BY <1>9 DEF AcquireFails, s
  <2> HIDE DEF t
  <2> QED BY <1>7, <2>1, <2>2
<1>10. CASE ReleaseLimited(r)
  <2> DEFINE t == [NextRound(s) EXCEPT !.held = NoAccount]
  <2>1. /\ t.stage = "pick" /\ t.rebound = s.rebound /\ t.sticky = s.sticky
        /\ t.tried = s.tried /\ t.acct = NoAccount /\ t.refused = s.refused
        /\ t.key = s.key /\ t.model = s.model
    BY <1>1 DEF RequestState, NextRound
  <2>2. Becomes(r, t) /\ s.stage = "limited" /\ UNCHANGED <<limits, entries>>
    BY <1>10 DEF ReleaseLimited, s
  <2> HIDE DEF t
  <2> QED BY <1>7, <2>1, <2>2
<1>11. CASE ReleaseFailed(r)
  <2> DEFINE g == IF s.sticky = s.acct THEN "unbind" ELSE s.next
             t == [NextRound(s) EXCEPT
                     !.held  = NoAccount,
                     !.round = IF s.next = "pick" THEN @ ELSE s.round,
                     !.stage = g]
  <2>1. /\ t.stage = g /\ t.rebound = s.rebound /\ t.sticky = s.sticky
        /\ t.tried = s.tried /\ t.acct = NoAccount /\ t.refused = s.refused
        /\ t.key = s.key /\ t.model = s.model
    BY <1>1 DEF RequestState, NextRound
  <2>2. Becomes(r, t) /\ s.stage = "failed" /\ UNCHANGED <<limits, entries>>
    BY <1>11 DEF ReleaseFailed, s
  <2>3. s.next \in {"pick", "leave"}
    BY <1>1 DEF RequestState
  <2> HIDE DEF t
  <2> QED BY <1>7, <2>1, <2>2, <2>3
<1>12. CASE Unbind(r)
  <2> DEFINE t == [s EXCEPT !.stage = s.next, !.sticky = NoAccount,
                            !.rebound = "no"]
  <2>1. t.refused = s.refused /\ t.key = s.key /\ t.model = s.model
    BY <1>1 DEF RequestState
  <2>2. \A q \in Requests : req'[q] = IF q = r THEN t ELSE req[q]
    BY <1>12 DEF Unbind, Becomes, RefusalsInv, StagesInv, ChatTypeOK, s
  <2>3. s.key \in Keys
    BY <1>1, <1>12 DEF Unbind, StageOK, RequestState, s
  <2>4. \A k \in Keys : entries'[k] = IF k = s.key THEN NoAccount ELSE entries[k]
    BY <1>12, <2>3 DEF Unbind, RefusalsInv, StagesInv, ChatTypeOK, s
  <2>5. \A q \in Requests : req[q].key \in Keys \cup {NoKey}
    BY DEF RefusalsInv, StagesInv, ChatTypeOK, RequestState
  <2>6. UNCHANGED limits
    BY <1>12 DEF Unbind
  <2>7. RatedOK(t, limits)
    BY <1>3, <2>1 DEF RatedOK
  <2> HIDE DEF t
  <2> QED
    BY <2>1, <2>2, <2>3, <2>4, <2>5, <2>6, <2>7, UnboundOK
       DEF RefusalsInv, RefusalOK
<1>13. CASE Acquire(r)
  <2> DEFINE t == [s EXCEPT !.stage = "held", !.held = s.acct]
  <2>1. /\ t.stage = "held" /\ t.rebound = s.rebound /\ t.sticky = s.sticky
        /\ t.tried = s.tried /\ t.acct = s.acct /\ t.refused = s.refused
        /\ t.key = s.key /\ t.model = s.model
    BY <1>1 DEF RequestState
  <2>2. Becomes(r, t) /\ s.stage = "claim" /\ UNCHANGED <<limits, entries>>
    BY <1>13 DEF Acquire, s
  <2> HIDE DEF t
  <2>3. RatedOK(t, limits) /\ (s.key # NoKey => BindingOK(t, e))
    BY <1>2, <1>3, <2>1, <2>2 DEF RatedOK, BindingOK, Resolving
  <2> QED BY <1>4, <2>1, <2>2, <2>3
<1>14. ASSUME NEW n, Fails(r, n)
       PROVE  RefusalsInv'
  <2> DEFINE t == [s EXCEPT !.stage = "failed", !.next = n,
                            !.refused = @ \cup {<<s.acct, "failed">>}]
  <2>1. /\ t.stage = "failed" /\ t.rebound = s.rebound /\ t.sticky = s.sticky
        /\ t.tried = s.tried /\ t.acct = s.acct
        /\ t.refused = s.refused \cup {<<s.acct, "failed">>}
        /\ t.key = s.key /\ t.model = s.model
    BY <1>1 DEF RequestState
  <2>2. Becomes(r, t) /\ s.stage = "held" /\ UNCHANGED <<limits, entries>>
    BY <1>14 DEF Fails, s
  <2> HIDE DEF t
  <2>3. RatedOK(t, limits)
    BY <1>3, <2>1 DEF RatedOK
  <2>4. s.key # NoKey => BindingOK(t, e)
    BY <1>2, <2>1, <2>2 DEF BindingOK, Resolving
  <2> QED BY <1>4, <2>1, <2>2, <2>3, <2>4
<1>15. CASE SoftRate(r)
  <2> DEFINE t == [s EXCEPT !.stage = "limited",
                            !.refused = @ \cup {<<s.acct, "rated">>}]
  <2>1. /\ t.stage = "limited" /\ t.rebound = s.rebound /\ t.sticky = s.sticky
        /\ t.tried = s.tried /\ t.acct = s.acct
        /\ t.refused = s.refused \cup {<<s.acct, "rated">>}
        /\ t.key = s.key /\ t.model = s.model
    BY <1>1 DEF RequestState
  <2>2. Becomes(r, t) /\ s.stage = "held" /\ UNCHANGED entries
    BY <1>15 DEF SoftRate, s
  <2>3. limits' = limits \cup {<<s.acct, s.model>>}
    BY <1>15 DEF SoftRate, s
  <2>4. \A q \in Requests : req'[q] = IF q = r THEN t ELSE req[q]
    BY <2>2 DEF Becomes, RefusalsInv, StagesInv, ChatTypeOK
  <2> HIDE DEF t
  <2>5. RatedOK(t, limits')
    BY <1>3, <2>1, <2>3 DEF RatedOK
  <2>6. s.key # NoKey => BindingOK(t, e)
    BY <1>2, <2>1, <2>2 DEF BindingOK, Resolving
  <2>7. RefusalOK(t, limits', entries')
    BY <2>1, <2>2, <2>5, <2>6 DEF RefusalOK, e
  <2>8. \A q \in Requests : RefusalOK(req[q], limits', entries')
    BY <2>2, <2>3 DEF RefusalsInv, RefusalOK, RatedOK
  <2> QED BY <2>4, <2>7, <2>8 DEF RefusalsInv
<1>16. CASE Leave(r)
  <2> DEFINE t == Blank(s.model)
  <2>1. t.stage = "idle" /\ t.refused = {}
    BY DEF Blank
  <2>2. Becomes(r, t) /\ UNCHANGED <<limits, entries>>
    BY <1>16 DEF Leave, s
  <2> HIDE DEF t
  <2>3. RefusalOK(t, limits, entries)
    BY <2>1 DEF RefusalOK, RatedOK, BindingOK, Resolving
  <2> QED BY <2>2, <2>3, OneRefusals
<1>17. CASE Bind(r)
  <2> DEFINE t == [s EXCEPT !.stage = "relay", !.rebound = "no"]
  <2>1. /\ t.stage = "relay"
        /\ t.acct = s.acct /\ t.refused = s.refused
        /\ t.key = s.key /\ t.model = s.model
    BY <1>1 DEF RequestState
  <2>2. s.acct \in Accounts /\ <<s.acct, "failed">> \notin s.refused
    BY <1>1, <1>17 DEF Bind, StageOK, s
  <2>3. RatedOK(t, limits) /\ BindingOK(t, s.acct)
    BY <1>3, <2>1, <2>2 DEF RatedOK, BindingOK, Resolving
  <2>4. CASE t.key = NoKey /\ Becomes(r, t) /\ UNCHANGED entries
    <3> HIDE DEF t
    <3>1. UNCHANGED limits
      BY <1>17 DEF Bind
    <3> QED BY <1>4, <2>1, <2>3, <2>4, <3>1
  <2>5. CASE /\ t.key # NoKey
             /\ entries' = [entries EXCEPT ![t.key] = t.acct]
             /\ BecomesBound(r, t, t.key, "bound")
    <3> HIDE DEF t
    <3>1. UNCHANGED limits
      BY <1>17 DEF Bind
    <3>2. t.key \in Keys
      BY <1>1, <2>1, <2>5 DEF RequestState
    <3> QED BY <2>1, <2>2, <2>3, <2>5, <3>1, <3>2, BoundRefusals
  <2> QED BY <1>17, <2>4, <2>5 DEF Bind, s
<1>18. CASE Success(r)
  <2> DEFINE l(q) == Lifted(q, s.acct, s.model)
             t(q) == IF q = r THEN [l(r) EXCEPT !.stage = "bind"] ELSE l(q)
  <2>1. s.acct \in Accounts /\ s.stage = "held"
    BY <1>1, <1>18 DEF Success, StageOK, s
  <2>2. /\ \A q \in Requests : req'[q] = t(q)
        /\ limits' = limits \ {<<s.acct, s.model>>}
        /\ UNCHANGED entries
    BY <1>18 DEF Success, s
  <2> SUFFICES ASSUME NEW q \in Requests
               PROVE  RefusalOK(t(q), limits', entries')
    BY <2>2 DEF RefusalsInv
  <2>3. RefusalOK(req[q], limits, entries)
    BY DEF RefusalsInv
  <2>4. RefusalOK(l(q), limits', entries')
    BY <2>1, <2>2, <2>3, LiftedRefusals DEF RefusalsInv
  <2>5. CASE q = r
    <3>1. l(r) \in RequestState /\ l(r).stage = "held"
      BY <2>1, Typed, LiftedGood DEF RefusalsInv, GoodState, s
    <3> HIDE DEF l
    <3>2. /\ t(r).rebound = l(r).rebound /\ t(r).sticky = l(r).sticky
          /\ t(r).tried = l(r).tried /\ t(r).acct = l(r).acct
          /\ t(r).refused = l(r).refused /\ t(r).stage = "bind"
          /\ t(r).key = l(r).key /\ t(r).model = l(r).model
      BY <3>1 DEF RequestState
    <3> HIDE DEF t
    <3> QED BY <2>4, <2>5, <3>1, <3>2 DEF RefusalOK, RatedOK, BindingOK, Resolving
  <2>6. CASE q # r
    BY <2>4, <2>6
  <2> QED BY <2>5, <2>6
<1> QED
  BY <1>5, <1>6, <1>8, <1>9, <1>10, <1>11, <1>12, <1>13, <1>14, <1>15, <1>16,
     <1>17, <1>18, ResolveRefusals
     DEF GoesOn, Runs, CallEnds, AccountFails, RequestRefused

LEMMA StepRefusals == RefusalsInv /\ [ChatNext]_chatVars => RefusalsInv'
<1> SUFFICES ASSUME RefusalsInv, [ChatNext]_chatVars
             PROVE  RefusalsInv'
  OBVIOUS
<1>1. StagesInv'
  BY StepStages DEF RefusalsInv
<1>2. ASSUME NEW a \in Accounts, NEW m \in Models, LimitExpires(a, m)
      PROVE  RefusalsInv'
  <2>1. /\ \A q \in Requests : req'[q] = Lifted(q, a, m)
        /\ limits' = limits \ {<<a, m>>} /\ UNCHANGED entries
    BY <1>2 DEF LimitExpires
  <2> QED BY <1>1, <2>1, LiftedRefusals DEF RefusalsInv
<1>3. ASSUME NEW k \in Keys, SessionExpires(k)
      PROVE  RefusalsInv'
  <2>1. \A j \in Keys : entries'[j] = IF j = k THEN NoAccount ELSE entries[j]
    BY <1>3 DEF SessionExpires, RefusalsInv, StagesInv, ChatTypeOK
  <2>2. \A q \in Requests : req[q].key \in Keys \cup {NoKey}
    BY DEF RefusalsInv, StagesInv, ChatTypeOK, RequestState
  <2>3. UNCHANGED <<limits, req>>
    BY <1>3 DEF SessionExpires
  <2> QED
    BY <1>1, <2>1, <2>2, <2>3, UnboundOK DEF RefusalsInv, RefusalOK
<1>4. CASE UNCHANGED chatVars
  BY <1>1, <1>4 DEF chatVars, RefusalsInv
<1> QED
  BY <1>1, <1>2, <1>3, <1>4, BeginRefusals, GoesOnRefusals DEF ChatNext

(* A session is not left bound to an account that failed its request,      *)
(* unless another request of the session writes the binding later.         *)
THEOREM FailedAccountUnboundCorrect == ChatSpec => []FailedAccountUnbound
<1>1. RefusalsInv => FailedAccountUnbound
  <2> SUFFICES ASSUME RefusalsInv, NEW r \in Requests,
                      req[r].stage = "leave", req[r].key # NoKey,
                      req[r].rebound = "no"
               PROVE  <<entries[req[r].key], "failed">> \notin req[r].refused
    BY DEF FailedAccountUnbound
  <2>1. CASE entries[req[r].key] = NoAccount
    BY <2>1, ChatAssumption
       DEF RefusalsInv, StagesInv, ChatTypeOK, RequestState
  <2>2. CASE entries[req[r].key] # NoAccount
    BY <2>2 DEF RefusalsInv, RefusalOK, BindingOK, Resolving
  <2> QED BY <2>1, <2>2
<1> QED BY <1>1, InitRefusals, StepRefusals, PTL DEF ChatSpec

(* No request asks an account again that has failed it, or one that has    *)
(* answered 429, while the limit lasts.                                    *)
THEOREM RefusedNotAskedAgainCorrect == ChatSpec => RefusedNotAskedAgain
<1>1. ASSUME RefusalsInv, NEW r \in Requests, NotLimited(r),
             NEW why \in {"failed", "rated"}
      PROVE  <<req[r].acct, why>> \notin req[r].refused
  <2>1. StageOK(req[r]) /\ req[r].acct \in Accounts
    BY <1>1 DEF NotLimited, RefusalsInv, StagesInv, StageOK
  <2>2. RatedOK(req[r], limits)
    BY <1>1 DEF RefusalsInv, RefusalOK
  <2> QED BY <1>1, <2>1, <2>2 DEF NotLimited, StageOK, RatedOK
<1>2. RefusalsInv /\ [ChatNext]_chatVars =>
        [\A r \in Requests :
           NotLimited(r) => \A why \in {"failed", "rated"} :
                              <<req[r].acct, why>> \notin req[r].refused]_chatVars
  BY <1>1
<1> QED
  BY <1>2, InitRefusals, StepRefusals, PTL DEF ChatSpec, RefusedNotAskedAgain

-----------------------------------------------------------------------------
(* Each stage of a request brings it nearer to its end. *)

(* The steps left are a number below the length of the rounds left, and    *)
(* more than none for a request that has begun.                            *)
LEMMA StepsLeftIs ==
  ASSUME NEW s \in RequestState, s.stage # "idle"
  PROVE  /\ s.round \in Int /\ MaxRotate \in Int
         /\ \E n \in 1..12 :
              /\ StepsLeft(s) = 13 * (MaxRotate - s.round) + n
              /\ s.stage = "pick" => n = (IF s.sticky = NoAccount THEN 8 ELSE 10)
              /\ s.stage = "unbind" => n = (IF s.next = "leave" THEN 2 ELSE 9)
              /\ s.stage \notin {"pick", "unbind"} => n = Rank[s.stage]
<1>1. s.round \in Int /\ MaxRotate \in Int
  BY ChatAssumption DEF RequestState
<1>2. s.stage \in Stage \ {"idle"}
  BY DEF RequestState
<1>3. CASE s.stage = "pick"
  BY <1>1, <1>3 DEF StepsLeft, RoundLength, Rank
<1>4. CASE s.stage = "unbind"
  BY <1>1, <1>4 DEF StepsLeft, RoundLength, Rank
<1>5. CASE s.stage \notin {"pick", "unbind"}
  <2>1. Rank[s.stage] \in 1..12
    BY <1>2, <1>5 DEF Stage, Rank
  <2>2. StepsLeft(s) = 13 * (MaxRotate - s.round) + Rank[s.stage]
    BY <1>1, <1>2, <1>5, <2>1 DEF StepsLeft, RoundLength
  <2> QED BY <1>1, <1>5, <2>1, <2>2
<1> QED BY <1>1, <1>3, <1>4, <1>5

(* A request that goes on with fewer steps left: with the next round, at a *)
(* later stage of the same one, or with its end.                           *)
LEMMA Nearer ==
  ASSUME NEW s \in RequestState, s.stage # "idle", NEW t \in RequestState,
         \/ t.stage = "idle"
         \/ t.stage # "idle" /\ t.round = s.round + 1
         \/ /\ t.round = s.round
            /\ \/ s.stage = "resolve" /\ t.stage \in {"touch", "allocate"}
               \/ s.stage \in {"touch", "allocate"} /\ t.stage = "pick"
               \/ s.stage = "pick" /\ t.stage \in {"check", "leave"}
               \/ s.stage = "pick" /\ s.sticky # NoAccount /\ t.stage = "unbind"
               \/ s.stage = "unbind" /\ s.next = "pick"
                    /\ t.stage = "pick" /\ t.sticky = NoAccount
               \/ s.stage = "unbind" /\ t.stage = "leave"
               \/ s.stage = "check" /\ t.stage = "claim"
               \/ s.stage = "claim" /\ t.stage = "held"
               \/ s.stage = "held" /\ t.stage \in {"failed", "limited", "leave", "bind"}
               \/ s.stage = "failed" /\ t.stage = "unbind" /\ t.next = "leave"
               \/ s.stage = "failed" /\ t.stage = "leave"
               \/ s.stage = "bind" /\ t.stage = "relay"
               \/ s.stage = "relay" /\ t.stage = "leave"
  PROVE  StepsLeft(t) < StepsLeft(s)
<1>1. PICK n \in 1..12 :
        /\ StepsLeft(s) = 13 * (MaxRotate - s.round) + n
        /\ s.stage = "pick" => n = (IF s.sticky = NoAccount THEN 8 ELSE 10)
        /\ s.stage = "unbind" => n = (IF s.next = "leave" THEN 2 ELSE 9)
        /\ s.stage \notin {"pick", "unbind"} => n = Rank[s.stage]
  BY StepsLeftIs
<1>2. s.round \in Int /\ MaxRotate \in Int /\ s.round <= MaxRotate
  BY ChatAssumption DEF RequestState
<1>3. CASE t.stage = "idle"
  BY <1>1, <1>2, <1>3 DEF StepsLeft
<1>4. CASE t.stage # "idle"
  <2>1. PICK m \in 1..12 :
          /\ StepsLeft(t) = 13 * (MaxRotate - t.round) + m
          /\ t.stage = "pick" => m = (IF t.sticky = NoAccount THEN 8 ELSE 10)
          /\ t.stage = "unbind" => m = (IF t.next = "leave" THEN 2 ELSE 9)
          /\ t.stage \notin {"pick", "unbind"} => m = Rank[t.stage]
    BY <1>4, StepsLeftIs
  <2>2. CASE t.round = s.round + 1
    BY <1>1, <1>2, <2>1, <2>2
  <2>3. CASE t.round = s.round
    <3>1. m < n
      BY <1>1, <1>4, <2>1, <2>3, <1>2 DEF Rank
    <3> QED BY <1>1, <1>2, <2>1, <2>3, <3>1
  <2> QED BY <1>4, <2>2, <2>3
<1> QED BY <1>3, <1>4

(* A step of the request's own. *)
LEMMA OwnAdvances ==
  ASSUME StagesInv, NEW r \in Requests, GoesOn(r), GoodState(req'[r])
  PROVE  req[r].stage # "idle" /\ StepsLeft(req'[r]) < StepsLeft(req[r])
<1> DEFINE s == req[r]
           t == req'[r]
<1>1. s \in RequestState /\ t \in RequestState /\ req \in [Requests -> RequestState]
  BY DEF StagesInv, ChatTypeOK, GoodState
<1> USE <1>1
<1>2. CASE LookUp(r)
  <2>1. s.stage = "resolve" /\ t.round = s.round
        /\ t.stage \in {"touch", "allocate"}
    <3>1. /\ s.stage = "resolve"
          /\ \/ t = [s EXCEPT !.stage = "touch", !.sticky = entries[s.key]]
             \/ t = [s EXCEPT !.stage = "allocate"]
      BY <1>2 DEF LookUp, Becomes
    <3> HIDE DEF t
    <3>2. CASE t = [s EXCEPT !.stage = "touch", !.sticky = entries[s.key]]
      BY <3>1, <3>2 DEF RequestState
    <3>3. CASE t = [s EXCEPT !.stage = "allocate"]
      BY <3>1, <3>3 DEF RequestState
    <3> QED BY <3>1, <3>2, <3>3
  <2> QED BY <2>1, Nearer
<1>3. CASE Touch(r)
  <2>1. s.stage = "touch" /\ t.round = s.round /\ t.stage = "pick"
    BY <1>3 DEF Touch, BecomesBound, RequestState
  <2> QED BY <2>1, Nearer
<1>4. CASE Allocate(r)
  <2>1. s.stage = "allocate" /\ t.round = s.round /\ t.stage = "pick"
    <3>1. s.stage = "allocate"
      BY <1>4 DEF Allocate
    <3>2. \E a : t = [s EXCEPT !.stage = "pick", !.sticky = a, !.rebound = "no"]
      BY <1>4 DEF Allocate, BecomesBound, Becomes
    <3> HIDE DEF t
    <3> QED BY <3>1, <3>2 DEF RequestState
  <2> QED BY <2>1, Nearer
<1>5. CASE GiveUp(r)
  <2>1. s.stage = "pick" /\ t.round = s.round /\ t.stage = "leave"
    BY <1>5 DEF GiveUp, Becomes, RequestState
  <2> QED BY <2>1, Nearer
<1>6. CASE StickyLost(r)
  <2>1. s.stage = "pick" /\ t.round = s.round /\ s.sticky # NoAccount
        /\ t.stage = "unbind"
    BY <1>6 DEF StickyLost, Becomes, RequestState
  <2> QED BY <2>1, Nearer
<1>7. CASE Pick(r)
  <2>1. s.stage = "pick" /\ t.round = s.round /\ t.stage = "check"
    BY <1>7 DEF Pick, Becomes, RequestState
  <2> QED BY <2>1, Nearer
<1>8. CASE SkipLimited(r)
  <2>1. s.stage = "check" /\ t.round = s.round + 1 /\ t.stage = "pick"
    BY <1>8 DEF SkipLimited, NextRound, Becomes, RequestState
  <2> QED BY <2>1, Nearer
<1>9. CASE NotLimited(r)
  <2>1. s.stage = "check" /\ t.round = s.round /\ t.stage = "claim"
    BY <1>9 DEF NotLimited, Becomes, RequestState
  <2> QED BY <2>1, Nearer
<1>10. CASE Acquire(r)
  <2>1. s.stage = "claim" /\ t.round = s.round /\ t.stage = "held"
    BY <1>10 DEF Acquire, Becomes, RequestState
  <2> QED BY <2>1, Nearer
<1>11. CASE AcquireFails(r)
  <2>1. s.stage = "claim" /\ t.round = s.round + 1
        /\ t.stage \in {"pick", "unbind"}
    BY <1>11 DEF AcquireFails, NextRound, Becomes, RequestState
  <2> QED BY <2>1, Nearer
<1>12. CASE ReleaseLimited(r)
  <2>1. s.stage = "limited" /\ t.round = s.round + 1 /\ t.stage = "pick"
    BY <1>12 DEF ReleaseLimited, NextRound, Becomes, RequestState
  <2> QED BY <2>1, Nearer
<1>13. CASE ReleaseFailed(r)
  <2>1. s.stage = "failed" /\ t.stage \in {"unbind", s.next}
        /\ s.next \in {"pick", "leave"} /\ t.next = s.next
        /\ t.round = IF s.next = "pick" THEN s.round + 1 ELSE s.round
    BY <1>13 DEF ReleaseFailed, NextRound, Becomes, RequestState
  <2> QED BY <2>1, Nearer
<1>14. CASE Unbind(r)
  <2>1. s.stage = "unbind" /\ t.round = s.round /\ t.stage = s.next
        /\ t.sticky = NoAccount /\ s.next \in {"pick", "leave"}
    BY <1>14 DEF Unbind, Becomes, RequestState
  <2> QED BY <2>1, Nearer
<1>15. CASE Bind(r)
  <2>1. s.stage = "bind" /\ t.round = s.round /\ t.stage = "relay"
    <3>1. s.stage = "bind" /\ t = [s EXCEPT !.stage = "relay", !.rebound = "no"]
      BY <1>15 DEF Bind, BecomesBound, Becomes
    <3> HIDE DEF t
    <3> QED BY <3>1 DEF RequestState
  <2> QED BY <2>1, Nearer
<1>16. CASE Leave(r)
  <2>1. s.stage = "leave" /\ t.stage = "idle"
    BY <1>16 DEF Leave, Blank, Becomes, RequestState
  <2> QED BY <2>1, Nearer
<1>17. CASE AccountFails(r)
  <2>1. s.stage = "held" /\ t.round = s.round /\ t.stage = "failed"
    BY <1>17 DEF AccountFails, Fails, Becomes, RequestState
  <2> QED BY <2>1, Nearer
<1>18. CASE RequestRefused(r)
  <2>1. s.stage = "held" /\ t.round = s.round /\ t.stage = "failed"
    BY <1>18 DEF RequestRefused, Fails, Becomes, RequestState
  <2> QED BY <2>1, Nearer
<1>19. CASE UpstreamTimeout(r)
  <2>1. s.stage = "held" /\ t.round = s.round /\ t.stage = "leave"
    BY <1>19 DEF UpstreamTimeout, Becomes, RequestState
  <2> QED BY <2>1, Nearer
<1>20. CASE SoftRate(r)
  <2>1. s.stage = "held" /\ t.round = s.round /\ t.stage = "limited"
    BY <1>20 DEF SoftRate, Becomes, RequestState
  <2> QED BY <2>1, Nearer
<1>21. CASE Success(r)
  <2>1. s.stage = "held" /\ t.round = s.round /\ t.stage = "bind"
    BY <1>21 DEF Success, Lifted, RequestState
  <2> QED BY <2>1, Nearer
<1>22. CASE AnswerPassed(r)
  <2>1. s.stage = "relay" /\ t.round = s.round /\ t.stage = "leave"
    BY <1>22 DEF AnswerPassed, Becomes, RequestState
  <2> QED BY <2>1, Nearer
<1> QED BY <1>2, <1>3, <1>4, <1>5, <1>6, <1>7, <1>8, <1>9, <1>10, <1>11,
           <1>12, <1>13, <1>14, <1>15, <1>16, <1>17, <1>18, <1>19, <1>20,
           <1>21, <1>22
        DEF GoesOn, Runs, CallEnds

(* A step of somebody else leaves the stage of a request that has begun.   *)
LEMMA OthersLeaveStage ==
  ASSUME StagesInv, [ChatNext]_chatVars, NEW r \in Requests, ~ GoesOn(r),
         req[r].stage # "idle"
  PROVE  req'[r].stage = req[r].stage
<1>1. req \in [Requests -> RequestState]
  BY DEF StagesInv, ChatTypeOK
<1> USE <1>1 DEF Becomes
<1>2. ASSUME NEW q \in Requests, q # r, GoesOn(q)
      PROVE  req'[r].stage = req[r].stage
  <2>1. CASE \E x : Becomes(q, x)
    BY <1>2, <2>1
  <2>2. CASE \E x, k, how : BecomesBound(q, x, k, how)
    BY <1>2, <2>2 DEF BecomesBound, RequestState
  <2>3. CASE Success(q)
    BY <1>2, <2>3 DEF Success, Lifted, RequestState
  <2>4. CASE Touch(q) \/ Allocate(q) \/ Bind(q)
    BY <2>1, <2>2, <2>4 DEF Touch, Allocate, Bind
  <2>5. CASE \/ LookUp(q) \/ GiveUp(q) \/ StickyLost(q) \/ Pick(q)
             \/ SkipLimited(q) \/ NotLimited(q) \/ Acquire(q) \/ AcquireFails(q)
             \/ ReleaseLimited(q) \/ ReleaseFailed(q) \/ Unbind(q) \/ Leave(q)
             \/ AccountFails(q) \/ RequestRefused(q) \/ UpstreamTimeout(q)
             \/ SoftRate(q) \/ AnswerPassed(q)
    <3>1. \E x : Becomes(q, x)
      BY ONLY <2>5 DEF LookUp, GiveUp, StickyLost, Pick, SkipLimited, NotLimited,
         Acquire, AcquireFails, ReleaseLimited, ReleaseFailed, Unbind, Leave,
         AccountFails, RequestRefused, Fails, UpstreamTimeout, SoftRate,
         AnswerPassed
    <3> QED BY <2>1, <3>1
  <2> QED BY <1>2, <2>3, <2>4, <2>5 DEF GoesOn, Runs, CallEnds
<1>3. ASSUME NEW q \in Requests, NEW k, NEW m, Begin(q, k, m)
      PROVE  req'[r].stage = req[r].stage
  BY <1>3 DEF Begin
<1>4. ASSUME NEW a, NEW m, LimitExpires(a, m)
      PROVE  req'[r].stage = req[r].stage
  BY <1>4 DEF LimitExpires, Lifted, RequestState
<1>5. CASE (\E k \in Keys : SessionExpires(k)) \/ UNCHANGED chatVars
  BY <1>5 DEF SessionExpires, chatVars
<1> QED BY <1>2, <1>3, <1>4, <1>5 DEF ChatNext

(* The rotation comes to an end: each stage leaves a request fewer steps.  *)
THEOREM RotationAdvancesCorrect == ChatSpec => RotationAdvances
<1>1. ASSUME StagesInv, StagesInv', [ChatNext]_chatVars, NEW r \in Requests,
             req[r].stage # "idle", req'[r].stage # req[r].stage
      PROVE  StepsLeft(req'[r]) < StepsLeft(req[r])
  <2>1. GoesOn(r)
    BY <1>1, OthersLeaveStage
  <2>2. GoodState(req'[r])
    BY <1>1 DEF StagesInv, ChatTypeOK, GoodState
  <2> QED BY <1>1, <2>1, <2>2, OwnAdvances
<1>2. StagesInv /\ StagesInv' /\ [ChatNext]_chatVars =>
        [\A r \in Requests :
           req[r].stage # "idle" /\ req'[r].stage # req[r].stage
             => StepsLeft(req'[r]) < StepsLeft(req[r])]_chatVars
  BY <1>1
<1> QED BY <1>2, InitStages, StepStages, PTL DEF ChatSpec, RotationAdvances

-----------------------------------------------------------------------------
(***************************************************************************)
(* Records: what chatStat.done writes down when a request ends.            *)
(***************************************************************************)

-----------------------------------------------------------------------------
(* Induction, in the form of least counterexamples.                        *)
LEMMA LowestOf ==
  ASSUME NEW S \in SUBSET Nat, S # {} PROVE \E m \in S : \A k \in S : m <= k
<1> DEFINE R == {ss \in Nat \X Nat : ss[1] < ss[2]}
<1>1. IsWellFoundedOn(R, Nat)
  BY NatLessThanWellFounded DEF OpToRel
<1>2. \A x, y \in Nat : x < y => <<x, y>> \in R
  OBVIOUS
<1> HIDE DEF R
<1>3. PICK m \in S : \A k \in S : ~(<<k, m>> \in R)
  BY <1>1, WFMin
<1>4. \A k \in S : m <= k
  <2> TAKE k \in S
  <2>1. m \in Nat /\ k \in Nat /\ ~(k < m)
    BY <1>2, <1>3
  <2> QED BY <2>1
<1> QED BY <1>4

LEMMA HighestOf ==
  ASSUME NEW S \in SUBSET Nat, S # {}, NEW top \in Nat, \A k \in S : k <= top
  PROVE  \E m \in S : \A k \in S : k <= m
<1> DEFINE E == {top - k : k \in S}
<1>1. E \in SUBSET Nat /\ E # {}
  <2>1. \A k \in S : k \in Nat /\ top - k \in Nat
    OBVIOUS
  <2>2. E \subseteq Nat
    BY <2>1
  <2>3. PICK k \in S : TRUE
    OBVIOUS
  <2>4. top - k \in E
    OBVIOUS
  <2> QED BY <2>2, <2>4
<1> HIDE DEF E
<1>2. PICK e \in E : \A x \in E : e <= x
  BY <1>1, LowestOf
<1>3. PICK m \in S : e = top - m
  BY <1>2 DEF E
<1>4. \A k \in S : k <= m
  <2> TAKE k \in S
  <2>1. top - k \in E
    BY DEF E
  <2>2. top - m <= top - k /\ m \in Nat /\ k \in Nat
    BY <1>2, <1>3, <2>1
  <2> QED BY <2>2
<1> QED BY <1>4

(* A set that holds 0 and the successor of each member holds every number. *)
LEMMA CountUp ==
  ASSUME NEW G, 0 \in G, \A n \in Nat : n \in G => n + 1 \in G
  PROVE  \A n \in Nat : n \in G
<1> SUFFICES ASSUME Nat \ G # {} PROVE FALSE
  OBVIOUS
<1>1. PICK m \in Nat \ G : \A k \in Nat \ G : m <= k
  BY LowestOf
<1>2. m # 0 /\ m - 1 \in Nat
  BY <1>1
<1>3. m - 1 \in G
  BY <1>1, <1>2
<1>4. (m - 1) + 1 \in G
  BY <1>2, <1>3
<1> QED BY <1>1, <1>2, <1>4

(* A family that has each set of which it has all the sets with one member *)
(* less has every subset of a finite set.                                  *)
LEMMA SmallerFirst ==
  ASSUME NEW S, IsFiniteSet(S), NEW G,
         \A T \in SUBSET S : (\A x \in T : T \ {x} \in G) => T \in G
  PROVE  \A T \in SUBSET S : T \in G
<1> SUFFICES ASSUME NEW U \in SUBSET S, U \notin G PROVE FALSE
  OBVIOUS
<1> DEFINE Sizes == {Cardinality(T) : T \in {V \in SUBSET S : V \notin G}}
<1>1. \A T \in SUBSET S : IsFiniteSet(T) /\ Cardinality(T) \in Nat
  BY FS_Subset, FS_CardinalityType
<1>2. Sizes \in SUBSET Nat /\ Sizes # {}
  BY <1>1
<1>3. PICK m \in Sizes : \A k \in Sizes : m <= k
  BY <1>2, LowestOf
<1>4. PICK T \in SUBSET S : T \notin G /\ m = Cardinality(T)
  BY <1>3
<1>5. PICK x \in T : T \ {x} \notin G
  BY <1>4
<1>6. Cardinality(T \ {x}) \in Sizes
  BY <1>5
<1>7. Cardinality(T \ {x}) = m - 1
  BY <1>1, <1>4, <1>5, FS_RemoveElement
<1>8. m \in Nat /\ m <= m - 1
  BY <1>2, <1>3, <1>6, <1>7
<1> QED BY <1>8

(* What is defined by recursion over the subsets of a finite set exists.   *)
Picks(pick, S) == \A T \in SUBSET S : T # {} => pick[T] \in T
Steps(step, S, A) == \A x \in S : \A a \in A : step[x][a] \in A
Recursive(h, S, base, pick, step) ==
  \A T \in SUBSET S :
    h[T] = IF T = {} THEN base ELSE step[pick[T]][h[T \ {pick[T]}]]

LEMMA Recursion ==
  ASSUME NEW S, IsFiniteSet(S), NEW A, NEW base \in A,
         NEW pick, Picks(pick, S), NEW step, Steps(step, S, A)
  PROVE  \E h \in [SUBSET S -> A] : Recursive(h, S, base, pick, step)
<1>0. /\ \A T \in SUBSET S : T # {} => pick[T] \in T
      /\ \A x \in S : \A a \in A : step[x][a] \in A
  BY DEF Picks, Steps
<1> DEFINE V(h, T) == IF T = {} THEN base ELSE step[pick[T]][h[T \ {pick[T]}]]
           G == {n \in Nat : \E h \in [SUBSET S -> A] :
                   \A T \in SUBSET S : Cardinality(T) <= n => h[T] = V(h, T)}
<1>1. \A T \in SUBSET S : IsFiniteSet(T) /\ Cardinality(T) \in Nat
  BY FS_Subset, FS_CardinalityType
<1>2. \A T \in SUBSET S, h \in [SUBSET S -> A] : V(h, T) \in A
  <2> TAKE T \in SUBSET S, h \in [SUBSET S -> A]
  <2>1. CASE T = {}
    BY <2>1
  <2>2. CASE T # {}
    <3>1. pick[T] \in S /\ T \ {pick[T]} \in SUBSET S
      BY <1>0, <2>2
    <3>2. h[T \ {pick[T]}] \in A
      BY <3>1
    <3> QED BY <1>0, <2>2, <3>1, <3>2
  <2> QED BY <2>1, <2>2
<1>3. 0 \in G
  <2> DEFINE h == [T \in SUBSET S |-> base]
  <2>1. h \in [SUBSET S -> A]
    OBVIOUS
  <2>2. \A T \in SUBSET S : Cardinality(T) <= 0 => h[T] = V(h, T)
    <3> TAKE T \in SUBSET S
    <3> HAVE Cardinality(T) <= 0
    <3>1. Cardinality(T) = 0
      BY <1>1
    <3>2. T = {}
      BY <1>1, <3>1, FS_EmptySet
    <3> QED BY <3>2
  <2> QED BY <2>1, <2>2
<1>4. ASSUME NEW n \in Nat, n \in G PROVE n + 1 \in G
  <2>1. PICK h \in [SUBSET S -> A] :
          \A T \in SUBSET S : Cardinality(T) <= n => h[T] = V(h, T)
    BY <1>4
  <2> HIDE DEF V
  <2> DEFINE g == [T \in SUBSET S |-> IF Cardinality(T) <= n THEN h[T] ELSE V(h, T)]
  <2>2. g \in [SUBSET S -> A]
    BY <1>2
  <2>3. \A T \in SUBSET S : Cardinality(T) <= n + 1 => V(g, T) = V(h, T)
    <3> TAKE T \in SUBSET S
    <3> HAVE Cardinality(T) <= n + 1
    <3>1. CASE T = {}
      BY <3>1 DEF V
    <3>2. CASE T # {}
      <4>1. pick[T] \in T
        BY <1>0, <3>2
      <4>2. Cardinality(T \ {pick[T]}) = Cardinality(T) - 1
        BY <1>1, <4>1, FS_RemoveElement
      <4>3. Cardinality(T \ {pick[T]}) <= n /\ T \ {pick[T]} \in SUBSET S
        BY <1>1, <4>2
      <4>4. g[T \ {pick[T]}] = h[T \ {pick[T]}]
        BY <4>3
      <4> QED BY <3>2, <4>4 DEF V
    <3> QED BY <3>1, <3>2
  <2>4. \A T \in SUBSET S : Cardinality(T) <= n + 1 => g[T] = V(h, T)
    BY <2>1
  <2> HIDE DEF g
  <2>5. \A T \in SUBSET S : Cardinality(T) <= n + 1 => g[T] = V(g, T)
    BY <2>3, <2>4
  <2> QED BY <2>2, <2>5
<1> HIDE DEF G
<1>5. \A n \in Nat : n \in G
  BY <1>3, <1>4, CountUp
<1>6. Cardinality(S) \in Nat /\ \A T \in SUBSET S : Cardinality(T) <= Cardinality(S)
  BY <1>1, FS_Subset
<1>7. PICK h \in [SUBSET S -> A] :
        \A T \in SUBSET S : Cardinality(T) <= Cardinality(S) => h[T] = V(h, T)
  BY <1>5, <1>6 DEF G
<1>8. \A T \in SUBSET S : h[T] = V(h, T)
  BY <1>6, <1>7
<1> QED BY <1>8 DEF Recursive

-----------------------------------------------------------------------------
(* Sums: Total(f, S) adds f[x] for the members of a finite set.            *)
AnyOf(T) == CHOOSE x \in T : TRUE
Adds(h, f, S) ==
  h = [T \in SUBSET S |-> IF T = {} THEN 0 ELSE f[AnyOf(T)] + h[T \ {AnyOf(T)}]]

LEMMA PickIs ==
  \A T : T # {} => AnyOf(T) \in T
BY DEF AnyOf

LEMMA AddsExists ==
  ASSUME NEW S, IsFiniteSet(S), NEW f, \A x \in S : f[x] \in Nat
  PROVE  \E h \in [SUBSET S -> Nat] : Adds(h, f, S)
<1> DEFINE pick == [T \in SUBSET S |-> AnyOf(T)]
           step == [x \in S |-> [a \in Nat |-> f[x] + a]]
<1>1. Picks(pick, S)
  BY PickIs DEF Picks
<1>2. \A x \in S : \A a \in Nat : step[x][a] = f[x] + a
  OBVIOUS
<1>3. Steps(step, S, Nat)
  BY <1>2 DEF Steps
<1>4. \A T \in SUBSET S : pick[T] = AnyOf(T)
  OBVIOUS
<1> HIDE DEF pick, step
<1>5. PICK h \in [SUBSET S -> Nat] : Recursive(h, S, 0, pick, step)
  BY <1>1, <1>3, Recursion
<1>6. ASSUME NEW T \in SUBSET S
      PROVE  h[T] = IF T = {} THEN 0 ELSE f[AnyOf(T)] + h[T \ {AnyOf(T)}]
  <2>1. h[T] = IF T = {} THEN 0 ELSE step[AnyOf(T)][h[T \ {AnyOf(T)}]]
    BY <1>4, <1>5 DEF Recursive
  <2>2. CASE T # {}
    <3>1. AnyOf(T) \in S /\ T \ {AnyOf(T)} \in SUBSET S
      BY <2>2, PickIs
    <3>2. h[T \ {AnyOf(T)}] \in Nat
      BY <3>1
    <3> QED BY <1>2, <2>1, <2>2, <3>1, <3>2
  <2> QED BY <2>1, <2>2
<1>7. Adds(h, f, S)
  BY <1>6 DEF Adds
<1> QED BY <1>7

LEMMA AddsUnique ==
  ASSUME NEW S, IsFiniteSet(S), NEW f, NEW g, NEW T \in SUBSET S,
         \A x \in T : f[x] = g[x],
         NEW h, Adds(h, f, S), NEW j, Adds(j, g, T)
  PROVE  h[T] = j[T]
<1> DEFINE G == {U \in SUBSET T : h[U] = j[U]}
<1>1. IsFiniteSet(T)
  BY FS_Subset
<1>2. ASSUME NEW U \in SUBSET T, \A x \in U : U \ {x} \in G PROVE U \in G
  <2>1. h[U] = IF U = {} THEN 0 ELSE f[AnyOf(U)] + h[U \ {AnyOf(U)}]
    BY DEF Adds
  <2>2. j[U] = IF U = {} THEN 0 ELSE g[AnyOf(U)] + j[U \ {AnyOf(U)}]
    BY DEF Adds
  <2>3. CASE U # {}
    <3>1. AnyOf(U) \in U
      BY <2>3, PickIs
    <3>2. f[AnyOf(U)] = g[AnyOf(U)] /\ h[U \ {AnyOf(U)}] = j[U \ {AnyOf(U)}]
      BY <1>2, <3>1
    <3> QED BY <2>1, <2>2, <2>3, <3>2
  <2> QED BY <2>1, <2>2, <2>3
<1> HIDE DEF G
<1>3. T \in G
  BY <1>1, <1>2, SmallerFirst
<1> QED BY <1>3 DEF G

LEMMA TotalAdds ==
  ASSUME NEW S, IsFiniteSet(S), NEW f, \A x \in S : f[x] \in Nat
  PROVE  \E h \in [SUBSET S -> Nat] : Adds(h, f, S) /\ Total(f, S) = h[S]
<1> DEFINE D(h) == h = [T \in SUBSET S |-> IF T = {} THEN 0
                          ELSE LET x == CHOOSE y \in T : TRUE IN f[x] + h[T \ {x}]]
           h == CHOOSE h : D(h)
<1>1. Total(f, S) = h[S]
  BY DEF Total, MapThenSumSet, MapThenFoldSet
<1>2. PICK j \in [SUBSET S -> Nat] : Adds(j, f, S)
  BY AddsExists
<1>3. D(j)
  BY <1>2 DEF Adds, AnyOf
<1>4. D(h)
  BY <1>3
<1> HIDE DEF h
<1>5. Adds(h, f, S)
  BY <1>4 DEF Adds, AnyOf
<1> DEFINE G == {U \in SUBSET S : h[U] = j[U]}
<1>6. \A U \in SUBSET S : h[U] = j[U]
  <2>1. ASSUME NEW U \in SUBSET S, \A x \in U : U \ {x} \in G PROVE U \in G
    <3>1. h[U] = IF U = {} THEN 0 ELSE f[AnyOf(U)] + h[U \ {AnyOf(U)}]
      BY <1>5 DEF Adds
    <3>2. j[U] = IF U = {} THEN 0 ELSE f[AnyOf(U)] + j[U \ {AnyOf(U)}]
      BY <1>2 DEF Adds
    <3>3. CASE U # {}
      <4>1. AnyOf(U) \in U
        BY <3>3, PickIs
      <4>2. h[U \ {AnyOf(U)}] = j[U \ {AnyOf(U)}]
        BY <2>1, <4>1
      <4> QED BY <3>1, <3>2, <3>3, <4>2
    <3> QED BY <3>1, <3>2, <3>3
  <2> HIDE DEF G
  <2>2. \A U \in SUBSET S : U \in G
    BY <2>1, SmallerFirst
  <2> QED BY <2>2 DEF G
<1>7. Total(f, S) = j[S]
  BY <1>1, <1>6
<1> QED BY <1>2, <1>7

LEMMA TotalSame ==
  ASSUME NEW S, IsFiniteSet(S), NEW f, NEW g,
         \A x \in S : f[x] \in Nat /\ f[x] = g[x]
  PROVE  Total(f, S) = Total(g, S)
<1>1. PICK h \in [SUBSET S -> Nat] : Adds(h, f, S) /\ Total(f, S) = h[S]
  BY TotalAdds
<1>2. PICK j \in [SUBSET S -> Nat] : Adds(j, g, S) /\ Total(g, S) = j[S]
  BY TotalAdds
<1>3. h[S] = j[S]
  BY <1>1, <1>2, AddsUnique
<1> QED BY <1>1, <1>2, <1>3

LEMMA TotalPick ==
  ASSUME NEW S, IsFiniteSet(S), NEW f, \A x \in S : f[x] \in Nat
  PROVE  /\ Total(f, S) \in Nat
         /\ S = {} => Total(f, S) = 0
         /\ S # {} => Total(f, S) = f[AnyOf(S)] + Total(f, S \ {AnyOf(S)})
<1>1. PICK h \in [SUBSET S -> Nat] : Adds(h, f, S) /\ Total(f, S) = h[S]
  BY TotalAdds
<1>2. h[S] = IF S = {} THEN 0 ELSE f[AnyOf(S)] + h[S \ {AnyOf(S)}]
  BY <1>1 DEF Adds
<1>3. ASSUME S # {} PROVE h[S \ {AnyOf(S)}] = Total(f, S \ {AnyOf(S)})
  <2> DEFINE T == S \ {AnyOf(S)}
  <2>1. IsFiniteSet(T) /\ T \in SUBSET S /\ \A x \in T : f[x] \in Nat
    BY FS_Subset
  <2> HIDE DEF T
  <2>2. PICK j \in [SUBSET T -> Nat] : Adds(j, f, T) /\ Total(f, T) = j[T]
    BY <2>1, TotalAdds
  <2>3. h[T] = j[T]
    BY <1>1, <2>1, <2>2, AddsUnique
  <2> QED BY <2>2, <2>3 DEF T
<1> QED BY <1>1, <1>2, <1>3

(* Any member may be taken first.                                          *)
LEMMA TotalAny ==
  ASSUME NEW S, IsFiniteSet(S), NEW f, \A x \in S : f[x] \in Nat, NEW e \in S
  PROVE  Total(f, S) = f[e] + Total(f, S \ {e})
<1> DEFINE G == {T \in SUBSET S : \A x \in T : Total(f, T) = f[x] + Total(f, T \ {x})}
<1>1. \A T \in SUBSET S : IsFiniteSet(T) /\ \A x \in T : f[x] \in Nat
  BY FS_Subset
<1>2. ASSUME NEW T \in SUBSET S, \A x \in T : T \ {x} \in G PROVE T \in G
  <2> SUFFICES ASSUME NEW x \in T PROVE Total(f, T) = f[x] + Total(f, T \ {x})
    OBVIOUS
  <2> DEFINE p == AnyOf(T)
  <2>1. p \in T
    BY PickIs
  <2>2. Total(f, T) = f[p] + Total(f, T \ {p})
    BY <1>1, TotalPick
  <2> HIDE DEF p
  <2>3. CASE p = x
    BY <2>2, <2>3
  <2>4. CASE p # x
    <3>1. x \in T \ {p} /\ p \in T \ {x}
      BY <2>1, <2>4
    <3>2. Total(f, T \ {p}) = f[x] + Total(f, (T \ {p}) \ {x})
      BY <1>2, <2>1, <3>1
    <3>3. Total(f, T \ {x}) = f[p] + Total(f, (T \ {x}) \ {p})
      BY <1>2, <3>1
    <3>4. (T \ {p}) \ {x} = (T \ {x}) \ {p}
      OBVIOUS
    <3>5. Total(f, (T \ {x}) \ {p}) \in Nat
      <4>1. (T \ {x}) \ {p} \in SUBSET S
        OBVIOUS
      <4> QED BY <1>1, <4>1, TotalPick
    <3>6. f[x] \in Nat /\ f[p] \in Nat
      BY <1>1, <2>1
    <3>7. Total(f, (T \ {p}) \ {x}) = Total(f, (T \ {x}) \ {p})
      BY <3>4
    <3> DEFINE rest == Total(f, (T \ {x}) \ {p})
    <3>8. Total(f, T) = f[p] + (f[x] + rest)
      BY <2>2, <3>2, <3>7
    <3>9. Total(f, T \ {x}) = f[p] + rest /\ rest \in Nat
      BY <3>3, <3>5
    <3> HIDE DEF rest
    <3> QED BY <3>6, <3>8, <3>9
  <2> QED BY <2>3, <2>4
<1> HIDE DEF G
<1>3. \A T \in SUBSET S : T \in G
  BY <1>2, SmallerFirst
<1> QED BY <1>3 DEF G

LEMMA TotalEmpty ==
  ASSUME NEW f PROVE Total(f, {}) = 0
<1>1. IsFiniteSet({})
  BY FS_EmptySet
<1> QED BY <1>1, TotalPick

LEMMA TotalUnion ==
  ASSUME NEW S, IsFiniteSet(S), NEW T, IsFiniteSet(T), S \cap T = {},
         NEW f, \A x \in S \cup T : f[x] \in Nat
  PROVE  Total(f, S \cup T) = Total(f, S) + Total(f, T)
<1> DEFINE G == {U \in SUBSET T : Total(f, S \cup U) = Total(f, S) + Total(f, U)}
<1>1. \A U \in SUBSET T : IsFiniteSet(U) /\ IsFiniteSet(S \cup U)
  BY FS_Subset, FS_Union
<1>2. Total(f, S) \in Nat
  BY TotalPick
<1>3. ASSUME NEW U \in SUBSET T, \A x \in U : U \ {x} \in G PROVE U \in G
  <2>1. CASE U = {}
    <3>1. S \cup U = S
      BY <2>1
    <3>2. Total(f, S \cup U) = Total(f, S)
      BY <3>1
    <3>3. Total(f, U) = 0
      BY <2>1, TotalEmpty
    <3> QED BY <1>2, <3>2, <3>3
  <2>2. CASE U # {}
    <3>1. PICK x \in U : TRUE
      BY <2>2
    <3>2. Total(f, S \cup (U \ {x})) = Total(f, S) + Total(f, U \ {x})
      BY <1>3, <3>1
    <3>3. Total(f, U) = f[x] + Total(f, U \ {x})
      BY <1>1, <3>1, TotalAny
    <3>4. Total(f, S \cup U) = f[x] + Total(f, (S \cup U) \ {x})
      BY <1>1, <3>1, TotalAny
    <3>5. (S \cup U) \ {x} = S \cup (U \ {x})
      BY <3>1
    <3>6. f[x] \in Nat /\ Total(f, U \ {x}) \in Nat
      <4>1. U \ {x} \in SUBSET T
        OBVIOUS
      <4> QED BY <1>1, <3>1, <4>1, TotalPick
    <3> DEFINE a == Total(f, S)
               b == Total(f, U \ {x})
    <3>7. Total(f, S \cup U) = f[x] + (a + b) /\ Total(f, U) = f[x] + b
      BY <3>2, <3>3, <3>4, <3>5
    <3>8. a \in Nat /\ b \in Nat
      BY <1>2, <3>6
    <3> HIDE DEF a, b
    <3>9. Total(f, S \cup U) = a + Total(f, U)
      BY <3>6, <3>7, <3>8
    <3> QED BY <3>9 DEF a
  <2> QED BY <2>1, <2>2
<1> HIDE DEF G
<1>4. \A U \in SUBSET T : U \in G
  BY <1>3, SmallerFirst
<1> QED BY <1>4 DEF G

(* A sum does not change when its members are renamed apart.               *)
LEMMA TotalRenamed ==
  ASSUME NEW S, IsFiniteSet(S), NEW f, \A x \in S : f[x] \in Nat,
         NEW m, \A x, y \in S : m[x] = m[y] => x = y,
         NEW g, \A x \in S : g[m[x]] = f[x]
  PROVE  Total(g, {m[x] : x \in S}) = Total(f, S)
<1> DEFINE I(T) == {m[x] : x \in T}
           G == {T \in SUBSET S : Total(g, I(T)) = Total(f, T)}
<1>1. ASSUME NEW T \in SUBSET S PROVE IsFiniteSet(T) /\ IsFiniteSet(I(T))
  <2> DEFINE n == [x \in T |-> m[x]]
  <2>1. IsFiniteSet(T)
    BY FS_Subset
  <2>2. n \in Surjection(T, I(T))
    BY DEF Surjection
  <2> HIDE DEF n, I
  <2> QED BY <2>1, <2>2, FS_Surjection
<1>2. \A T \in SUBSET S : \A y \in I(T) : g[y] \in Nat
  OBVIOUS
<1>3. ASSUME NEW T \in SUBSET S, \A x \in T : T \ {x} \in G PROVE T \in G
  <2>1. CASE T = {}
    <3>1. I(T) = {}
      BY <2>1
    <3> HIDE DEF I
    <3> QED BY <2>1, <3>1, TotalEmpty
  <2>2. CASE T # {}
    <3>1. PICK x \in T : TRUE
      BY <2>2
    <3>2. Total(g, I(T \ {x})) = Total(f, T \ {x})
      BY <1>3, <3>1
    <3>3. Total(f, T) = f[x] + Total(f, T \ {x})
      BY <1>1, <3>1, TotalAny
    <3>4. m[x] \in I(T)
      BY <3>1
    <3>5. I(T) \ {m[x]} = I(T \ {x})
      BY <3>1
    <3> HIDE DEF I
    <3>6. Total(g, I(T)) = g[m[x]] + Total(g, I(T) \ {m[x]})
      BY <1>1, <1>2, <3>4, TotalAny
    <3> QED BY <3>1, <3>2, <3>3, <3>5, <3>6
  <2> QED BY <2>1, <2>2
<1> HIDE DEF G
<1>4. \A T \in SUBSET S : T \in G
  BY <1>3, SmallerFirst
<1> QED BY <1>4 DEF G

-----------------------------------------------------------------------------
(* The ring: its entries are the last arrivals, from slot First on.        *)
Rings ==
  [buf : [0..(Capacity - 1) -> Nat \cup {Nil}], next : 0..(Capacity - 1),
   count : 0..Capacity, arrived : Seq(Nat)]

Wrap(n) == IF n < Capacity THEN n ELSE n - Capacity
First(r) == IF r.count < Capacity THEN 0 ELSE r.next

RingOK(r) ==
  /\ r \in Rings
  /\ Len(r.arrived) = r.count
  /\ r.count < Capacity => r.next = r.count
  /\ \A i \in 1..r.count : r.buf[Wrap(First(r) + i - 1)] = r.arrived[i]

LEMMA RemainderIs ==
  ASSUME NEW a \in Nat, NEW b \in Nat \ {0}, a < 2 * b
  PROVE  a % b = IF a < b THEN a ELSE a - b
<1>1. a \div b \in Int /\ a % b \in 0..(b - 1)
  BY Z3
<1>2. a = b * (a \div b) + (a % b)
  BY Z3
<1> DEFINE q == a \div b
<1>3. ASSUME q >= 2 PROVE FALSE
  <2>1. b * q >= b * 2
    BY <1>1, <1>3
  <2> QED BY <1>1, <1>2, <2>1
<1>4. ASSUME q <= -1 PROVE FALSE
  <2>1. b * q <= b * (-1)
    BY <1>1, <1>4
  <2> QED BY <1>1, <1>2, <2>1
<1>5. q = 0 \/ q = 1
  BY <1>1, <1>3, <1>4
<1> QED BY <1>1, <1>2, <1>5

LEMMA WrapIs ==
  ASSUME NEW n \in Nat, n < 2 * Capacity
  PROVE  n % Capacity = Wrap(n)
BY RecordsAssumption, RemainderIs DEF Wrap

LEMMA WrapTypes ==
  ASSUME NEW n \in Nat, n < 2 * Capacity
  PROVE  Wrap(n) \in 0..(Capacity - 1)
BY RecordsAssumption DEF Wrap

LEMMA EmptyRingOK ==
  RingOK(EmptyRing) /\ EmptyRing.arrived = <<>>
<1>1. EmptyRing \in Rings
  BY RecordsAssumption DEF EmptyRing, Rings
<1>2. /\ EmptyRing.count = 0 /\ EmptyRing.next = 0 /\ EmptyRing.arrived = <<>>
  BY DEF EmptyRing
<1> QED BY <1>1, <1>2 DEF RingOK

(* What LastOf makes of a list.                                            *)
LEMMA LastOfLong ==
  ASSUME NEW s \in Seq(Nat), NEW n \in Nat, Len(s) > n
  PROVE  /\ LastOf(s, n) \in Seq(Nat) /\ Len(LastOf(s, n)) = n
         /\ \A i \in 1..n : LastOf(s, n)[i] = s[Len(s) - n + i]
<1> DEFINE from == Len(s) - n + 1
<1>1. from \in 1..(Len(s) + 1) /\ Len(s) \in Nat
  OBVIOUS
<1>2. LastOf(s, n) = SubSeq(s, from, Len(s))
  BY DEF LastOf
<1>3. \A i \in from..Len(s) : s[i] \in Nat
  BY <1>1
<1> HIDE DEF from
<1>4. /\ SubSeq(s, from, Len(s)) \in Seq(Nat)
      /\ Len(SubSeq(s, from, Len(s))) = Len(s) - from + 1
      /\ \A i \in 1..(Len(s) - from + 1) : SubSeq(s, from, Len(s))[i] = s[from + i - 1]
  BY <1>1, <1>3
<1>5. Len(s) - from + 1 = n /\ \A i \in 1..n : from + i - 1 = Len(s) - n + i
  BY <1>1 DEF from
<1> QED BY <1>2, <1>4, <1>5

LEMMA LastOfShort ==
  ASSUME NEW s \in Seq(Nat), NEW n \in Nat, Len(s) <= n
  PROVE  LastOf(s, n) = s
<1>1. ~(Len(s) > n)
  OBVIOUS
<1>2. LastOf(s, n) = SubSeq(s, 1, Len(s))
  BY <1>1 DEF LastOf
<1> QED BY <1>2

LEMMA PushOK ==
  ASSUME NEW r, RingOK(r), NEW e \in Nat
  PROVE  /\ RingOK(Push(r, e))
         /\ r.count < Capacity => Push(r, e).arrived = Append(r.arrived, e)
<1> DEFINE p == Push(r, e)
           long == Append(r.arrived, e)
<1>1. /\ r.next \in 0..(Capacity - 1) /\ r.count \in 0..Capacity
      /\ r.count < Capacity => r.next = r.count
      /\ Capacity \in Nat \ {0}
  BY RecordsAssumption DEF RingOK, Rings
<1>2. /\ r.buf \in [0..(Capacity - 1) -> Nat \cup {Nil}]
      /\ r.arrived \in Seq(Nat) /\ Len(r.arrived) = r.count
  BY DEF RingOK, Rings
<1>3. \A i \in 1..r.count : r.buf[Wrap(First(r) + i - 1)] = r.arrived[i]
  BY DEF RingOK
<1>4. /\ p.buf = [r.buf EXCEPT ![r.next] = e]
      /\ p.next = (r.next + 1) % Capacity
      /\ p.count = (IF r.count < Capacity THEN r.count + 1 ELSE r.count)
      /\ p.arrived = LastOf(long, Capacity)
      /\ p = [buf |-> p.buf, next |-> p.next, count |-> p.count, arrived |-> p.arrived]
  BY DEF Push
<1> HIDE DEF p
<1>5. p.next = Wrap(r.next + 1)
  <2>1. r.next + 1 \in Nat /\ r.next + 1 < 2 * Capacity
    BY <1>1
  <2> QED BY <1>4, <2>1, WrapIs
<1>6. long \in Seq(Nat) /\ Len(long) = r.count + 1 /\ long[r.count + 1] = e
  BY <1>2
<1>7. \A i \in 1..r.count : long[i] = r.arrived[i]
  BY <1>2
<1> HIDE DEF long
<1>8. p.next \in 0..(Capacity - 1) /\ p.count \in 0..Capacity
  BY <1>1, <1>4, <1>5 DEF Wrap
<1>9. \A j \in 0..(Capacity - 1) : p.buf[j] = IF j = r.next THEN e ELSE r.buf[j]
  BY <1>2, <1>4
<1>10. p.buf \in [0..(Capacity - 1) -> Nat \cup {Nil}]
  BY <1>2, <1>4
<1>11. CASE r.count < Capacity
  <2>1. /\ First(p) = 0 /\ First(r) = 0 /\ r.next = r.count
        /\ p.count = r.count + 1 /\ (p.count < Capacity => p.next = p.count)
    BY <1>1, <1>4, <1>5, <1>11 DEF First, Wrap
  <2>2. p.arrived = long
    <3>1. Len(long) <= Capacity
      BY <1>1, <1>6, <1>11
    <3> QED BY <1>1, <1>4, <1>6, <3>1, LastOfShort
  <2>3. ASSUME NEW i \in 1..p.count
        PROVE  p.buf[Wrap(First(p) + i - 1)] = p.arrived[i]
    <3>1. /\ Wrap(First(p) + i - 1) = i - 1 /\ i - 1 \in 0..(Capacity - 1)
          /\ Wrap(First(r) + i - 1) = i - 1
      BY <1>1, <1>11, <2>1 DEF Wrap
    <3>2. CASE i = r.count + 1
      <4>1. i - 1 = r.next
        BY <1>1, <2>1, <3>2
      <4>2. p.buf[i - 1] = e
        BY <1>9, <3>1, <4>1
      <4> QED BY <1>6, <2>2, <3>1, <3>2, <4>2
    <3>3. CASE i # r.count + 1
      <4>1. i \in 1..r.count /\ i - 1 # r.next
        BY <1>1, <2>1, <3>3
      <4>2. p.buf[i - 1] = r.buf[i - 1]
        BY <1>9, <3>1, <4>1
      <4>3. r.buf[i - 1] = r.arrived[i] /\ long[i] = r.arrived[i]
        BY <1>3, <1>7, <3>1, <4>1
      <4> QED BY <2>2, <3>1, <4>2, <4>3
    <3> QED BY <3>2, <3>3
  <2>4. p \in Rings /\ Len(p.arrived) = p.count
    BY <1>4, <1>6, <1>8, <1>10, <2>1, <2>2 DEF Rings
  <2> QED BY <2>1, <2>2, <2>3, <2>4 DEF RingOK, p, long
<1>12. CASE r.count = Capacity
  <2>1. First(p) = p.next /\ First(r) = r.next /\ p.count = Capacity
    BY <1>1, <1>4, <1>12 DEF First
  <2>2. /\ p.arrived \in Seq(Nat) /\ Len(p.arrived) = Capacity
        /\ \A i \in 1..Capacity : p.arrived[i] = long[i + 1]
    <3>1. Len(long) > Capacity /\ Len(long) = Capacity + 1
      BY <1>1, <1>6, <1>12
    <3>2. /\ p.arrived \in Seq(Nat) /\ Len(p.arrived) = Capacity
          /\ \A i \in 1..Capacity : p.arrived[i] = long[Len(long) - Capacity + i]
      <4>1. p.arrived = LastOf(long, Capacity) /\ Capacity \in Nat /\ long \in Seq(Nat)
        BY <1>1, <1>4, <1>6
      <4>2. /\ LastOf(long, Capacity) \in Seq(Nat) /\ Len(LastOf(long, Capacity)) = Capacity
            /\ \A i \in 1..Capacity :
                 LastOf(long, Capacity)[i] = long[Len(long) - Capacity + i]
        BY <3>1, <4>1, LastOfLong
      <4> HIDE DEF p, long
      <4> QED BY <4>1, <4>2
    <3>3. \A i \in 1..Capacity : Len(long) - Capacity + i = i + 1
      BY <1>1, <3>1
    <3> QED BY <3>2, <3>3
  <2>3. ASSUME NEW i \in 1..p.count
        PROVE  p.buf[Wrap(First(p) + i - 1)] = p.arrived[i]
    <3>1. i \in 1..Capacity /\ p.arrived[i] = long[i + 1]
      BY <2>1, <2>2
    <3> DEFINE slot == Wrap(p.next + i - 1)
    <3>2. slot \in 0..(Capacity - 1)
      BY <1>1, <1>8, <3>1 DEF Wrap
    <3>3. CASE i = Capacity
      <4>1. slot = r.next
        <5>1. CASE r.next + 1 < Capacity
          BY <1>1, <1>5, <3>3, <5>1 DEF Wrap
        <5>2. CASE r.next + 1 = Capacity
          BY <1>1, <1>5, <3>3, <5>2 DEF Wrap
        <5> QED BY <1>1, <5>1, <5>2
      <4> HIDE DEF slot
      <4>2. p.buf[slot] = e
        BY <1>9, <3>2, <4>1
      <4>3. long[i + 1] = e
        BY <1>6, <1>12, <3>3
      <4> QED BY <2>1, <3>1, <4>2, <4>3 DEF slot
    <3>4. CASE i # Capacity
      <4>1. slot = Wrap(r.next + (i + 1) - 1) /\ slot # r.next
        <5>1. CASE r.next + 1 < Capacity
          BY <1>1, <1>5, <3>1, <3>4, <5>1 DEF Wrap
        <5>2. CASE r.next + 1 = Capacity
          BY <1>1, <1>5, <3>1, <3>4, <5>2 DEF Wrap
        <5> QED BY <1>1, <5>1, <5>2
      <4> HIDE DEF slot
      <4>2. p.buf[slot] = r.buf[slot]
        BY <1>9, <3>2, <4>1
      <4>3. i + 1 \in 1..r.count
        BY <1>1, <1>12, <3>1, <3>4
      <4>4. r.buf[slot] = r.arrived[i + 1] /\ long[i + 1] = r.arrived[i + 1]
        BY <1>3, <1>7, <2>1, <4>1, <4>3
      <4> QED BY <2>1, <3>1, <4>2, <4>4 DEF slot
    <3> QED BY <3>3, <3>4
  <2>4. p \in Rings /\ Len(p.arrived) = p.count
    BY <1>4, <1>8, <1>10, <2>1, <2>2 DEF Rings
  <2> QED BY <1>1, <1>12, <2>1, <2>3, <2>4 DEF RingOK, p
<1> QED BY <1>1, <1>11, <1>12

(* The file gets the arrivals in their order.                              *)
LEMMA OrderedIs ==
  ASSUME NEW r, RingOK(r)
  PROVE  Ordered(r) = r.arrived
<1>1. /\ r.next \in 0..(Capacity - 1) /\ r.count \in 0..Capacity
      /\ Capacity \in Nat \ {0} /\ r.arrived \in Seq(Nat) /\ Len(r.arrived) = r.count
  BY RecordsAssumption DEF RingOK, Rings
<1>2. ASSUME NEW i \in 1..r.count
      PROVE  r.buf[(First(r) + i - 1) % Capacity] = r.arrived[i]
  <2>1. First(r) + i - 1 \in Nat /\ First(r) + i - 1 < 2 * Capacity
    BY <1>1 DEF First
  <2>2. (First(r) + i - 1) % Capacity = Wrap(First(r) + i - 1)
    BY <2>1, WrapIs
  <2> QED BY <2>2 DEF RingOK
<1>3. Ordered(r) = [i \in 1..r.count |-> r.buf[(First(r) + i - 1) % Capacity]]
  BY DEF Ordered, First
<1>4. r.arrived = [i \in 1..r.count |-> r.arrived[i]]
  BY <1>1
<1> QED BY <1>2, <1>3, <1>4

(* The page gets the newest ones first.                                    *)
LEMMA RecentIs ==
  ASSUME NEW r, RingOK(r), NEW n \in 1..Capacity
  PROVE  Recent(r, n) = Reverse(LastOf(r.arrived, n))
<1>1. /\ r.next \in 0..(Capacity - 1) /\ r.count \in 0..Capacity
      /\ r.count < Capacity => r.next = r.count
      /\ Capacity \in Nat \ {0} /\ n \in Nat
  BY RecordsAssumption DEF RingOK, Rings
<1>2. r.arrived \in Seq(Nat) /\ Len(r.arrived) = r.count
  BY DEF RingOK, Rings
<1> DEFINE k == IF r.count > n THEN n ELSE r.count
           newest == LastOf(r.arrived, n)
<1>3. k \in 0..r.count
  BY <1>1
<1>4. Min({n, r.count}) = k
  BY <1>1 DEF Min
<1> HIDE DEF k
<1>5. /\ newest \in Seq(Nat) /\ Len(newest) = k
      /\ \A i \in 1..k : newest[i] = r.arrived[r.count - k + i]
  <2>1. CASE r.count > n
    <3>1. Len(r.arrived) > n /\ k = n
      BY <1>1, <1>2, <2>1 DEF k
    <3>2. /\ newest \in Seq(Nat) /\ Len(newest) = n
          /\ \A i \in 1..n : newest[i] = r.arrived[Len(r.arrived) - n + i]
      BY <1>1, <1>2, <3>1, LastOfLong
    <3> HIDE DEF newest
    <3> QED BY <1>2, <3>1, <3>2
  <2>2. CASE r.count <= n
    <3>1. k = r.count /\ newest = r.arrived
      BY <1>1, <1>2, <2>2, LastOfShort DEF k
    <3> HIDE DEF newest
    <3>2. \A i \in 1..k : r.count - k + i = i
      BY <1>1, <3>1
    <3> QED BY <1>2, <3>1, <3>2
  <2> QED BY <1>1, <2>1, <2>2
<1> HIDE DEF newest
<1>6. ASSUME NEW i \in 1..k
      PROVE  r.buf[(r.next - i + Capacity) % Capacity] = newest[(k - i) + 1]
  <2> DEFINE j == r.count + 1 - i
  <2>1. i \in 1..r.count /\ j \in 1..r.count
    BY <1>1, <1>3
  <2>2. (r.next - i + Capacity) % Capacity = Wrap(r.next - i + Capacity)
    <3>1. r.next - i + Capacity \in Nat /\ r.next - i + Capacity < 2 * Capacity
      BY <1>1, <2>1
    <3> QED BY <3>1, WrapIs
  <2>3. Wrap(r.next - i + Capacity) = Wrap(First(r) + j - 1)
    <3>1. CASE r.count < Capacity
      <4>1. First(r) + j - 1 = r.next - i /\ r.next - i \in 0..(Capacity - 1)
        BY <1>1, <2>1, <3>1 DEF First
      <4> QED BY <1>1, <4>1 DEF Wrap
    <3>2. CASE r.count = Capacity
      <4>1. First(r) + j - 1 = r.next - i + Capacity
        BY <1>1, <2>1, <3>2 DEF First
      <4> QED BY <4>1
    <3> QED BY <1>1, <3>1, <3>2
  <2>4. r.buf[Wrap(First(r) + j - 1)] = r.arrived[j]
    BY <2>1 DEF RingOK
  <2>5. (k - i) + 1 \in 1..k /\ r.count - k + ((k - i) + 1) = j
    BY <1>1, <1>3
  <2>6. newest[(k - i) + 1] = r.arrived[j]
    BY <1>5, <2>5
  <2> QED BY <2>2, <2>3, <2>4, <2>6
<1>7. Recent(r, n) = [i \in 1..k |-> r.buf[(r.next - i + Capacity) % Capacity]]
  BY <1>4 DEF Recent
<1>8. Reverse(newest) = [i \in 1..k |-> newest[(k - i) + 1]]
  BY <1>5 DEF Reverse
<1>9. Recent(r, n) = Reverse(newest)
  BY <1>6, <1>7, <1>8
<1> QED BY <1>9 DEF newest

LEMMA MaxIs ==
  ASSUME NEW S \in SUBSET Nat, NEW m \in S, \A j \in S : j <= m PROVE Max(S) = m
<1>1. \A x \in S : (\A y \in S : x >= y) => x = m
  <2> TAKE x \in S
  <2>1. (\A y \in S : x >= y) => x >= m /\ x <= m
    OBVIOUS
  <2>2. x \in Nat /\ m \in Nat
    OBVIOUS
  <2> QED BY <2>1, <2>2
<1>2. m \in S /\ \A y \in S : m >= y
  OBVIOUS
<1> QED BY <1>1, <1>2 DEF Max

LEMMA PushRing ==
  ASSUME NEW r \in Rings, NEW e \in Nat PROVE Push(r, e) \in Rings
<1>1. /\ r.next \in 0..(Capacity - 1) /\ r.count \in 0..Capacity
      /\ Capacity \in Nat \ {0} /\ r.arrived \in Seq(Nat)
      /\ r.buf \in [0..(Capacity - 1) -> Nat \cup {Nil}]
  BY RecordsAssumption DEF Rings
<1>2. (r.next + 1) % Capacity \in 0..(Capacity - 1)
  <2>1. r.next + 1 \in Nat /\ r.next + 1 < 2 * Capacity
    BY <1>1
  <2> QED BY <2>1, WrapIs, WrapTypes
<1>3. (IF r.count < Capacity THEN r.count + 1 ELSE r.count) \in 0..Capacity
  BY <1>1
<1>4. LastOf(Append(r.arrived, e), Capacity) \in Seq(Nat)
  <2> DEFINE long == Append(r.arrived, e)
  <2>1. long \in Seq(Nat) /\ Len(long) \in Nat
    BY <1>1
  <2> HIDE DEF long
  <2>2. LastOf(long, Capacity) \in Seq(Nat)
    <3>1. CASE Len(long) > Capacity
      BY <1>1, <2>1, <3>1, LastOfLong
    <3>2. CASE Len(long) <= Capacity
      BY <1>1, <2>1, <3>2, LastOfShort
    <3> QED BY <1>1, <2>1, <3>1, <3>2
  <2> QED BY <2>2 DEF long
<1>5. [r.buf EXCEPT ![r.next] = e] \in [0..(Capacity - 1) -> Nat \cup {Nil}]
  BY <1>1
<1> QED BY <1>2, <1>3, <1>4, <1>5 DEF Push, Rings

(* A file read into an empty ring: the ring holds what the file did.       *)
Fills(h, s) ==
  h = [T \in SUBSET (1..Len(s)) |->
         IF T = {} THEN EmptyRing ELSE Push(h[T \ {Max(T)}], s[Max(T)])]

LEMMA FillsExists ==
  ASSUME NEW s \in Seq(Nat)
  PROVE  \E h : Fills(h, s)
<1> DEFINE S == 1..Len(s)
           pick == [T \in SUBSET S |-> Max(T)]
           step == [x \in S |-> [r \in Rings |-> Push(r, s[x])]]
<1>1. IsFiniteSet(S)
  BY FS_Interval
<1>2. \A T \in SUBSET S : T # {} => Max(T) \in T
  <2> TAKE T \in SUBSET S
  <2> HAVE T # {}
  <2>1. PICK m \in T : \A j \in T : j <= m
    <3>1. T \in SUBSET Nat /\ Len(s) \in Nat /\ \A j \in T : j <= Len(s)
      OBVIOUS
    <3> QED BY <3>1, HighestOf
  <2>2. T \in SUBSET Nat
    OBVIOUS
  <2>3. Max(T) = m
    BY <2>1, <2>2, MaxIs
  <2> QED BY <2>3
<1>3. Picks(pick, S)
  BY <1>2 DEF Picks
<1>4. \A x \in S : \A r \in Rings : step[x][r] = Push(r, s[x])
  OBVIOUS
<1>5. Steps(step, S, Rings)
  <2>1. \A x \in S : s[x] \in Nat
    OBVIOUS
  <2> HIDE DEF S, step
  <2> QED BY <1>4, <2>1, PushRing DEF Steps
<1>6. \A T \in SUBSET S : pick[T] = Max(T)
  OBVIOUS
<1>7. EmptyRing \in Rings
  BY EmptyRingOK DEF RingOK
<1> HIDE DEF S, pick, step
<1>8. PICK h \in [SUBSET S -> Rings] : Recursive(h, S, EmptyRing, pick, step)
  BY <1>1, <1>3, <1>5, <1>7, Recursion
<1>9. ASSUME NEW T \in SUBSET S
      PROVE  h[T] = IF T = {} THEN EmptyRing ELSE Push(h[T \ {Max(T)}], s[Max(T)])
  <2>1. h[T] = IF T = {} THEN EmptyRing ELSE step[Max(T)][h[T \ {Max(T)}]]
    BY <1>6, <1>8 DEF Recursive
  <2>2. CASE T # {}
    <3>1. Max(T) \in S /\ T \ {Max(T)} \in SUBSET S
      BY <1>2, <2>2
    <3>2. h[T \ {Max(T)}] \in Rings
      BY <3>1
    <3> QED BY <1>4, <2>1, <2>2, <3>1, <3>2
  <2> QED BY <2>1, <2>2
<1>10. h = [T \in SUBSET S |->
              IF T = {} THEN EmptyRing ELSE Push(h[T \ {Max(T)}], s[Max(T)])]
  BY <1>9
<1> QED BY <1>10 DEF Fills, S

LEMMA FillIs ==
  ASSUME NEW s \in Seq(Nat), Len(s) <= Capacity
  PROVE  LET r == FoldLeft(Push, EmptyRing, s) IN RingOK(r) /\ r.arrived = s
<1> DEFINE D(h) == h = [T \in SUBSET (DOMAIN s) |-> IF T = {} THEN EmptyRing
                          ELSE LET x == Max(T) IN Push(h[T \ {x}], s[x])]
           h == CHOOSE h : D(h)
<1>1. FoldLeft(Push, EmptyRing, s) = h[DOMAIN s]
  BY DEF FoldLeft, MapThenFoldSet
<1>2. DOMAIN s = 1..Len(s) /\ Len(s) \in Nat
  OBVIOUS
<1>3. PICK g : Fills(g, s)
  BY FillsExists
<1>4. D(g)
  BY <1>2, <1>3 DEF Fills
<1>5. D(h)
  BY <1>4
<1> HIDE DEF h
<1>6. ASSUME NEW T \in SUBSET (1..Len(s))
      PROVE  h[T] = IF T = {} THEN EmptyRing ELSE Push(h[T \ {Max(T)}], s[Max(T)])
  BY <1>2, <1>5
<1> HIDE DEF D
<1> DEFINE G == {n \in Nat : n <= Len(s) =>
                    RingOK(h[1..n]) /\ h[1..n].arrived = SubSeq(s, 1, n)}
<1>7. 0 \in G
  <2>1. 1..0 = {} /\ 1..0 \in SUBSET (1..Len(s))
    OBVIOUS
  <2>2. h[1..0] = EmptyRing
    BY <1>6, <2>1
  <2>3. SubSeq(s, 1, 0) = <<>>
    OBVIOUS
  <2> QED BY <2>2, <2>3, EmptyRingOK
<1>8. ASSUME NEW n \in Nat, n \in G PROVE n + 1 \in G
  <2> SUFFICES ASSUME n + 1 <= Len(s)
               PROVE  /\ RingOK(h[1..(n + 1)])
                      /\ h[1..(n + 1)].arrived = SubSeq(s, 1, n + 1)
    OBVIOUS
  <2> DEFINE r == h[1..n]
  <2>1. RingOK(r) /\ r.arrived = SubSeq(s, 1, n)
    BY <1>2, <1>8
  <2>2. Max(1..(n + 1)) = n + 1
    <3>1. 1..(n + 1) \in SUBSET Nat /\ n + 1 \in 1..(n + 1) /\ \A j \in 1..(n + 1) : j <= n + 1
      OBVIOUS
    <3> QED BY <3>1, MaxIs
  <2>3. (1..(n + 1)) \ {n + 1} = 1..n /\ 1..(n + 1) # {} /\ 1..(n + 1) \in SUBSET (1..Len(s))
    <3>1. \A j : j \in (1..(n + 1)) \ {n + 1} <=> j \in 1..n
      OBVIOUS
    <3>2. 1 \in 1..(n + 1)
      OBVIOUS
    <3>3. \A j \in 1..(n + 1) : j \in 1..Len(s)
      BY <1>2
    <3> QED BY <3>1, <3>2, <3>3
  <2>4. h[1..(n + 1)] = Push(r, s[n + 1])
    <3> DEFINE T == 1..(n + 1)
    <3>1. T # {} /\ T \in SUBSET (1..Len(s)) /\ Max(T) = n + 1 /\ T \ {Max(T)} = 1..n
      BY <2>2, <2>3
    <3> HIDE DEF T
    <3>2. h[T] = Push(h[T \ {Max(T)}], s[Max(T)])
      BY <1>6, <3>1
    <3> QED BY <3>1, <3>2 DEF T
  <2> HIDE DEF r
  <2>5. r.count < Capacity
    <3>1. Len(SubSeq(s, 1, n)) = n /\ n < Capacity
      BY <1>2, RecordsAssumption
    <3> QED BY <2>1, <3>1 DEF RingOK
  <2>6. s[n + 1] \in Nat
    BY <1>2
  <2>7. Append(SubSeq(s, 1, n), s[n + 1]) = SubSeq(s, 1, n + 1)
    BY <1>2
  <2> QED BY <2>1, <2>4, <2>5, <2>6, <2>7, PushOK
<1> HIDE DEF G
<1>9. Len(s) \in G
  BY <1>2, <1>7, <1>8, CountUp
<1>10. RingOK(h[1..Len(s)]) /\ h[1..Len(s)].arrived = SubSeq(s, 1, Len(s))
  BY <1>2, <1>9 DEF G
<1>11. SubSeq(s, 1, Len(s)) = s
  OBVIOUS
<1> QED BY <1>1, <1>2, <1>10, <1>11

-----------------------------------------------------------------------------
(* The request log: in memory a ring in order, in the file a list that     *)
(* fits into a ring.                                                       *)
LogOK(contents) ==
  contents # {} => \E s \in Seq(Nat) : Len(s) <= Capacity /\ contents = {s}

FlagTypes ==
  /\ dirty \in [Stores -> BOOLEAN] /\ asleep \in [Stores -> BOOLEAN]
  /\ failed \in [Stores -> BOOLEAN] /\ starting \in [Stores -> Nat]

RingInv ==
  /\ served \in Nat
  /\ FlagTypes
  /\ DOMAIN file = Stores
  /\ LogOK(file["log"])
  /\ ring.buf # Nil => RingOK(ring)
  /\ dirty["log"] => RingOK(ring)

LEMMA StoresAre ==
  /\ "stats" \in Stores /\ "log" \in Stores /\ "stats" # "log"
  /\ \A s \in Stores : s = "stats" \/ s = "log"
BY DEF Stores

LEMMA ReadLog ==
  ASSUME LogOK(file["log"])
  PROVE  Read("log") \in Seq(Nat) /\ Len(Read("log")) <= Capacity
<1>1. CASE file["log"] = {}
  <2>1. Read("log") = <<>>
    BY <1>1 DEF Read, Unreadable
  <2>2. Len(<<>>) = 0 /\ <<>> \in Seq(Nat)
    OBVIOUS
  <2>3. 0 <= Capacity
    BY RecordsAssumption
  <2> QED BY <2>1, <2>2, <2>3
<1>2. CASE file["log"] # {}
  <2>1. PICK s \in Seq(Nat) : Len(s) <= Capacity /\ file["log"] = {s}
    BY <1>2 DEF LogOK
  <2>2. Read("log") = s
    BY <2>1 DEF Read, Unreadable
  <2> QED BY <2>1, <2>2
<1> QED BY <1>1, <1>2

LEMMA LoadedRingIs ==
  ASSUME LogOK(file["log"])
  PROVE  RingOK(LoadedRing) /\ LoadedRing.arrived = Read("log")
BY ReadLog, FillIs DEF LoadedRing

LEMMA RingInit ==
  ASSUME RecInit PROVE RingInv
<1>1. /\ served = 0 /\ ring = NoRing
      /\ dirty = [s \in Stores |-> FALSE] /\ asleep = [s \in Stores |-> FALSE]
      /\ failed = [s \in Stores |-> FALSE] /\ starting = [s \in Stores |-> 0]
  BY DEF RecInit
<1>2. PICK old : file = [s \in Stores |-> IF s = "stats" THEN old ELSE Unreadable]
  BY DEF RecInit
<1>3. DOMAIN file = Stores /\ file["log"] = {}
  BY <1>2, StoresAre DEF Unreadable
<1>4. ring.buf = Nil /\ ~dirty["log"]
  BY <1>1, StoresAre DEF NoRing, EmptyRing
<1>5. FlagTypes
  BY <1>1 DEF FlagTypes
<1> QED BY <1>1, <1>3, <1>4, <1>5 DEF RingInv, LogOK

LEMMA RingRestart ==
  ASSUME RingInv, Restart PROVE RingInv'
<1>1. /\ served' = served /\ ring' = NoRing
      /\ dirty' = [s \in Stores |-> FALSE] /\ asleep' = [s \in Stores |-> FALSE]
      /\ failed' = [s \in Stores |-> FALSE] /\ starting' = [s \in Stores |-> 0]
  BY DEF Restart
<1>2. PICK cut : file' = [s \in Stores |-> IF s \in cut THEN Unreadable ELSE file[s]]
  BY DEF Restart
<1>3. DOMAIN file' = Stores /\ (file'["log"] = {} \/ file'["log"] = file["log"])
  BY <1>2, StoresAre DEF Unreadable
<1>4. ring'.buf = Nil /\ ~dirty'["log"]
  BY <1>1, StoresAre DEF NoRing, EmptyRing
<1>5. FlagTypes'
  BY <1>1 DEF FlagTypes
<1>6. LogOK(file'["log"])
  BY <1>3 DEF RingInv, LogOK
<1> QED BY <1>1, <1>3, <1>4, <1>5, <1>6 DEF RingInv

LEMMA RingRecordLog ==
  ASSUME RingInv, NEW w, NEW c, RecordLog(w, c) PROVE RingInv' /\ RingOK(ring')
<1>1. /\ served' = served + 1 /\ ring' = Push(RingOrNew, served')
      /\ dirty' = [dirty EXCEPT !["log"] = TRUE]
      /\ starting' = [starting EXCEPT !["log"] = @ + 1]
      /\ UNCHANGED <<asleep, file, failed>>
  BY DEF RecordLog, MarkDirty
<1>2. RingOK(RingOrNew)
  BY EmptyRingOK DEF RingOrNew, RingInv
<1>3. served' \in Nat
  BY <1>1 DEF RingInv
<1>4. RingOK(ring')
  BY <1>1, <1>2, <1>3, PushOK
<1>5. FlagTypes'
  BY <1>1, StoresAre DEF RingInv, FlagTypes
<1> QED BY <1>1, <1>3, <1>4, <1>5 DEF RingInv

LEMMA RingFlush ==
  ASSUME RingInv, NEW s \in Stores, Flush(s) PROVE RingInv'
<1>1. /\ asleep' = [asleep EXCEPT ![s] = FALSE]
      /\ dirty' = [dirty EXCEPT ![s] = FALSE]
      /\ file' = (IF dirty[s] THEN [file EXCEPT ![s] = {Content(s)}] ELSE file)
      /\ failed' = [failed EXCEPT ![s] = @ /\ ~dirty[s]]
      /\ UNCHANGED <<served, ring, starting>>
  BY DEF Flush
<1>2. FlagTypes'
  <2>1. (failed[s] /\ ~dirty[s]) \in BOOLEAN
    OBVIOUS
  <2> QED BY <1>1, <2>1 DEF RingInv, FlagTypes
<1>3. DOMAIN file' = Stores
  BY <1>1 DEF RingInv
<1>4. LogOK(file'["log"])
  <2>1. CASE s = "log" /\ dirty["log"]
    <3>1. file'["log"] = {Ordered(ring)}
      BY <1>1, <2>1, StoresAre DEF RingInv, Content
    <3>2. RingOK(ring)
      BY <2>1 DEF RingInv
    <3>3. Ordered(ring) = ring.arrived
      BY <3>2, OrderedIs
    <3>4. ring.arrived \in Seq(Nat) /\ Len(ring.arrived) <= Capacity
      BY <3>2, RecordsAssumption DEF RingOK, Rings
    <3> QED BY <3>1, <3>3, <3>4 DEF LogOK
  <2>2. CASE ~(s = "log" /\ dirty["log"])
    <3>1. file'["log"] = file["log"]
      BY <1>1, <2>2, StoresAre DEF RingInv
    <3> QED BY <3>1 DEF RingInv
  <2> QED BY <2>1, <2>2
<1>5. dirty'["log"] => dirty["log"]
  BY <1>1, StoresAre DEF RingInv, FlagTypes
<1> QED BY <1>1, <1>2, <1>3, <1>4, <1>5 DEF RingInv

LEMMA RingFlushFails ==
  ASSUME RingInv, NEW s \in Stores, FlushFails(s) PROVE RingInv'
<1>1. /\ asleep' = [asleep EXCEPT ![s] = FALSE]
      /\ dirty' = [dirty EXCEPT ![s] = FALSE]
      /\ failed' = [failed EXCEPT ![s] = TRUE]
      /\ UNCHANGED <<served, ring, starting>>
  BY DEF FlushFails
<1>2. PICK left \in {file[s], Unreadable} : file' = [file EXCEPT ![s] = left]
  BY DEF FlushFails
<1>3. FlagTypes'
  BY <1>1 DEF RingInv, FlagTypes
<1>4. DOMAIN file' = Stores /\ (file'["log"] = {} \/ file'["log"] = file["log"])
  BY <1>2, StoresAre DEF RingInv, Unreadable
<1>5. LogOK(file'["log"])
  BY <1>4 DEF RingInv, LogOK
<1>6. dirty'["log"] => dirty["log"]
  BY <1>1, StoresAre DEF RingInv, FlagTypes
<1> QED BY <1>1, <1>3, <1>4, <1>5, <1>6 DEF RingInv

LEMMA RingQueryLog ==
  ASSUME RingInv, QueryLog
  PROVE  RingInv' /\ RingOK(ring')
<1>1. ring' = RingOrLoaded /\ UNCHANGED <<served, dirty, asleep, starting, file, failed>>
  BY DEF QueryLog
<1>2. RingOK(ring')
  BY <1>1, LoadedRingIs DEF RingInv, RingOrLoaded
<1>3. FlagTypes'
  BY <1>1 DEF RingInv, FlagTypes
<1> QED BY <1>1, <1>2, <1>3 DEF RingInv

LEMMA RingStep ==
  ASSUME RingInv, [RecNext]_recVars PROVE RingInv'
<1>1. ASSUME NEW uids, Boot(uids) PROVE RingInv'
  <2>1. /\ UNCHANGED <<served, ring, asleep, starting, failed>>
        /\ file' = file \/ file' = [file EXCEPT !["stats"] = {book'}]
        /\ dirty' = dirty \/ dirty' = [dirty EXCEPT !["stats"] = TRUE]
    BY <1>1 DEF Boot
  <2>2. FlagTypes'
    BY <2>1, StoresAre DEF RingInv, FlagTypes
  <2>3. DOMAIN file' = Stores /\ file'["log"] = file["log"] /\ dirty'["log"] = dirty["log"]
    BY <2>1, StoresAre DEF RingInv, FlagTypes
  <2> QED BY <2>1, <2>2, <2>3 DEF RingInv
<1>2. ASSUME NEW w, RecordStats(w) PROVE RingInv'
  <2>1. /\ UNCHANGED <<served, ring, asleep, file, failed>>
        /\ dirty' = [dirty EXCEPT !["stats"] = TRUE]
        /\ starting' = [starting EXCEPT !["stats"] = @ + 1]
    BY <1>2 DEF RecordStats, MarkDirty
  <2>2. FlagTypes'
    BY <2>1, StoresAre DEF RingInv, FlagTypes
  <2>3. dirty'["log"] = dirty["log"]
    BY <2>1, StoresAre DEF RingInv, FlagTypes
  <2> QED BY <2>1, <2>2, <2>3 DEF RingInv
<1>3. ASSUME NEW s \in Stores, FlushSoon(s) PROVE RingInv'
  <2>1. /\ UNCHANGED <<served, ring, dirty, file, failed>>
        /\ asleep' = [asleep EXCEPT ![s] = TRUE]
        /\ starting[s] > 0 /\ starting' = [starting EXCEPT ![s] = @ - 1]
    BY <1>3 DEF FlushSoon
  <2>2. FlagTypes'
    BY <2>1 DEF RingInv, FlagTypes
  <2> QED BY <2>1, <2>2 DEF RingInv
<1>4. ASSUME UNCHANGED <<served, ring, dirty, asleep, starting, file, failed>>
      PROVE  RingInv'
  BY <1>4 DEF RingInv, FlagTypes
<1>5. CASE QueryStats \/ Tick \/ UNCHANGED recVars
  BY <1>4, <1>5 DEF QueryStats, Tick, recVars
<1> QED BY <1>1, <1>2, <1>3, <1>5, RingRestart, RingRecordLog, RingFlush, RingFlushFails,
           RingQueryLog DEF RecNext

(* The ring in memory holds the last arrivals in the slots before next,    *)
(* and the file of the log, when it can be read, is a list that fits into  *)
(* a ring (reqlog.go recordRequest, persistLocked, loadRequests).          *)
THEOREM RingInvariant == RecSpec => []RingInv
<1>1. RecInit => RingInv
  BY RingInit
<1>2. RingInv /\ [RecNext]_recVars => RingInv'
  BY RingStep
<1> QED BY <1>1, <1>2, PTL DEF RecSpec

(* For every capacity: the page shows the newest calls, newest first, and  *)
(* the file keeps them in the order of time, through every wrap of the     *)
(* ring, restart and reading back (reqlog.go).                             *)
THEOREM RingShowsNewestCorrect == RecSpec => []RingShowsNewest
<1>1. RingInv => RingShowsNewest
  BY OrderedIs, RecentIs DEF RingInv, RingShowsNewest
<1> QED BY <1>1, RingInvariant, PTL

-----------------------------------------------------------------------------
(* The debounce: what differs from the file is dirty and has a flusher.    *)
Here(s) == IF s = "stats" THEN loaded ELSE ring.buf # Nil
Flushing(s) == asleep[s] \/ starting[s] > 0
Unsaved(s) == Here(s) /\ ~failed[s] /\ Content(s) # Read(s)

SavedInv == \A s \in Stores : Unsaved(s) => dirty[s] /\ Flushing(s)

(* A store whose contents, file and flags a step leaves alone.             *)
LEMMA SavedStays ==
  ASSUME NEW s \in Stores, SavedInv,
         Here(s)' => Here(s) /\ Content(s)' = Content(s),
         file'[s] = file[s], failed'[s] = failed[s],
         dirty'[s] = dirty[s], asleep'[s] = asleep[s], starting'[s] = starting[s]
  PROVE  (Unsaved(s) => dirty[s] /\ Flushing(s))'
<1>1. Read(s)' = Read(s)
  BY DEF Read
<1>2. ASSUME Unsaved(s)' PROVE dirty'[s] /\ Flushing(s)'
  <2>1. Unsaved(s)
    BY <1>1, <1>2 DEF Unsaved
  <2>2. dirty[s] /\ Flushing(s)
    BY <2>1 DEF SavedInv
  <2> QED BY <2>2 DEF Flushing
<1> QED BY <1>2

LEMMA StatsContent ==
  /\ Here("stats") = loaded /\ Content("stats") = book
  /\ Here("log") = (ring.buf # Nil) /\ Content("log") = Ordered(ring)
BY StoresAre DEF Here, Content

LEMMA SavedInit ==
  ASSUME RecInit PROVE SavedInv
<1>1. ~loaded /\ ring.buf = Nil
  BY DEF RecInit, NoRing, EmptyRing
<1>2. \A s \in Stores : ~Here(s)
  BY <1>1, StoresAre DEF Here
<1> QED BY <1>2 DEF SavedInv, Unsaved

LEMMA SavedBoot ==
  ASSUME RingInv, SavedInv, NEW uids, Boot(uids) PROVE SavedInv'
<1> DEFINE old == Read("stats")
           fill == Cardinality(uids) = 1 /\ NeedsBackfill(old, uids)
<1>1. /\ loaded' = (Cardinality(uids) = 1)
      /\ book' = IF fill THEN Backfilled(old, uids) ELSE IF Cardinality(uids) = 1 THEN old ELSE book
      /\ file' = IF fill THEN [file EXCEPT !["stats"] = {book'}] ELSE file
      /\ dirty' = IF fill THEN [dirty EXCEPT !["stats"] = TRUE] ELSE dirty
      /\ UNCHANGED <<ring, asleep, starting, failed>>
  BY DEF Boot
<1> HIDE DEF fill
<1>2. DOMAIN file = Stores /\ DOMAIN dirty = Stores
  BY DEF RingInv, FlagTypes
<1>3. (Unsaved("log") => dirty["log"] /\ Flushing("log"))'
  <2>1. file'["log"] = file["log"] /\ dirty'["log"] = dirty["log"]
    BY <1>1, <1>2, StoresAre
  <2>2. Here("log")' = Here("log") /\ Content("log")' = Content("log")
    BY <1>1, StoresAre DEF Here, Content, Ordered
  <2>3. "log" \in Stores
    BY StoresAre
  <2> QED BY <1>1, <2>1, <2>2, <2>3, SavedStays
<1>4. ASSUME Here("stats")' PROVE Content("stats")' = Read("stats")'
  <2>1. Cardinality(uids) = 1 /\ Content("stats")' = book'
    BY <1>1, <1>4, StoresAre DEF Here, Content
  <2>2. CASE fill
    <3>1. file'["stats"] = {book'}
      BY <1>1, <1>2, <2>2, StoresAre
    <3>2. Read("stats")' = book'
      BY <3>1 DEF Read, Unreadable
    <3> QED BY <2>1, <3>2
  <2>3. CASE ~fill
    <3>1. book' = old /\ file' = file
      BY <1>1, <2>1, <2>3
    <3>2. Read("stats")' = old
      BY <3>1 DEF Read
    <3> QED BY <2>1, <3>1, <3>2
  <2> QED BY <2>2, <2>3
<1>5. ~Unsaved("stats")'
  BY <1>4 DEF Unsaved
<1> QED BY <1>3, <1>5, StoresAre DEF SavedInv

LEMMA SavedRestart ==
  ASSUME Restart PROVE SavedInv'
<1>1. ~loaded' /\ ring'.buf = Nil
  BY DEF Restart, NoRing, EmptyRing
<1>2. \A s \in Stores : ~Here(s)'
  BY <1>1, StoresAre DEF Here
<1> QED BY <1>2 DEF SavedInv, Unsaved

(* A record: the store it marks has a new flusher, the other one stays.    *)
LEMMA SavedRecord ==
  ASSUME RingInv, SavedInv, NEW s \in Stores, MarkDirty(s),
         UNCHANGED <<asleep, file, failed>>,
         \A o \in Stores \ {s} : Here(o)' = Here(o) /\ Content(o)' = Content(o)
  PROVE  SavedInv'
<1>1. /\ dirty' = [dirty EXCEPT ![s] = TRUE]
      /\ starting' = [starting EXCEPT ![s] = @ + 1]
  BY DEF MarkDirty
<1>2. dirty \in [Stores -> BOOLEAN] /\ starting \in [Stores -> Nat]
  BY DEF RingInv, FlagTypes
<1>3. dirty'[s] /\ Flushing(s)'
  BY <1>1, <1>2 DEF Flushing
<1>4. ASSUME NEW o \in Stores \ {s} PROVE (Unsaved(o) => dirty[o] /\ Flushing(o))'
  <2>1. dirty'[o] = dirty[o] /\ starting'[o] = starting[o]
    BY <1>1, <1>2
  <2> QED BY <2>1, SavedStays
<1> QED BY <1>3, <1>4 DEF SavedInv

LEMMA SavedFlushSoon ==
  ASSUME RingInv, SavedInv, NEW s \in Stores, FlushSoon(s) PROVE SavedInv'
<1>1. /\ starting' = [starting EXCEPT ![s] = @ - 1]
      /\ asleep' = [asleep EXCEPT ![s] = TRUE]
      /\ UNCHANGED <<loaded, book, ring, dirty, file, failed>>
  BY DEF FlushSoon, statsVars
<1>2. asleep \in [Stores -> BOOLEAN] /\ starting \in [Stores -> Nat]
  BY DEF RingInv, FlagTypes
<1>3. \A o \in Stores : /\ Here(o)' = Here(o) /\ Content(o)' = Content(o)
                        /\ Read(o)' = Read(o)
  BY <1>1 DEF Here, Content, Ordered, Read
<1>4. \A o \in Stores : Unsaved(o)' = Unsaved(o)
  BY <1>1, <1>3 DEF Unsaved
<1>5. \A o \in Stores : Flushing(o) => Flushing(o)'
  BY <1>1, <1>2 DEF Flushing
<1> QED BY <1>1, <1>4, <1>5 DEF SavedInv

LEMMA SavedFlush ==
  ASSUME RingInv, SavedInv, NEW s \in Stores, Flush(s) PROVE SavedInv'
<1>1. /\ asleep' = [asleep EXCEPT ![s] = FALSE]
      /\ dirty' = [dirty EXCEPT ![s] = FALSE]
      /\ file' = (IF dirty[s] THEN [file EXCEPT ![s] = {Content(s)}] ELSE file)
      /\ failed' = [failed EXCEPT ![s] = @ /\ ~dirty[s]]
      /\ UNCHANGED <<loaded, book, ring, starting>>
  BY DEF Flush, statsVars
<1>2. /\ DOMAIN asleep = Stores /\ DOMAIN dirty = Stores /\ DOMAIN file = Stores
      /\ DOMAIN failed = Stores
  BY DEF RingInv, FlagTypes
<1>3. \A o \in Stores : Here(o)' = Here(o) /\ Content(o)' = Content(o)
  BY <1>1 DEF Here, Content, Ordered
<1>4. ASSUME NEW o \in Stores, o # s PROVE (Unsaved(o) => dirty[o] /\ Flushing(o))'
  <2>1. /\ dirty'[o] = dirty[o] /\ asleep'[o] = asleep[o] /\ file'[o] = file[o]
        /\ failed'[o] = failed[o] /\ starting'[o] = starting[o]
    BY <1>1, <1>2, <1>4
  <2> QED BY <1>3, <2>1, SavedStays
<1>5. ~Unsaved(s)'
  <2>1. CASE dirty[s]
    <3>1. file'[s] = {Content(s)}
      BY <1>1, <1>2, <2>1
    <3>2. Read(s)' = Content(s)
      BY <3>1 DEF Read, Unreadable
    <3> QED BY <1>3, <3>2 DEF Unsaved
  <2>2. CASE ~dirty[s]
    <3>1. file'[s] = file[s] /\ (failed[s] => failed'[s])
      BY <1>1, <1>2, <2>2
    <3>2. Read(s)' = Read(s)
      BY <3>1 DEF Read
    <3>3. ~Unsaved(s)
      BY <2>2 DEF SavedInv
    <3> QED BY <1>3, <3>1, <3>2, <3>3 DEF Unsaved
  <2> QED BY <2>1, <2>2
<1> QED BY <1>4, <1>5 DEF SavedInv

LEMMA SavedFlushFails ==
  ASSUME RingInv, SavedInv, NEW s \in Stores, FlushFails(s) PROVE SavedInv'
<1>1. /\ asleep' = [asleep EXCEPT ![s] = FALSE]
      /\ dirty' = [dirty EXCEPT ![s] = FALSE]
      /\ failed' = [failed EXCEPT ![s] = TRUE]
      /\ UNCHANGED <<loaded, book, ring, starting>>
  BY DEF FlushFails, statsVars
<1>2. PICK left : file' = [file EXCEPT ![s] = left]
  BY DEF FlushFails
<1>3. /\ DOMAIN asleep = Stores /\ DOMAIN dirty = Stores /\ DOMAIN file = Stores
      /\ DOMAIN failed = Stores
  BY DEF RingInv, FlagTypes
<1>4. \A o \in Stores : Here(o)' = Here(o) /\ Content(o)' = Content(o)
  BY <1>1 DEF Here, Content, Ordered
<1>5. ASSUME NEW o \in Stores, o # s PROVE (Unsaved(o) => dirty[o] /\ Flushing(o))'
  <2>1. /\ dirty'[o] = dirty[o] /\ asleep'[o] = asleep[o] /\ file'[o] = file[o]
        /\ failed'[o] = failed[o] /\ starting'[o] = starting[o]
    BY <1>1, <1>2, <1>3, <1>5
  <2> QED BY <1>4, <2>1, SavedStays
<1>6. ~Unsaved(s)'
  BY <1>1, <1>3 DEF Unsaved
<1> QED BY <1>5, <1>6 DEF SavedInv

LEMMA SavedQueryLog ==
  ASSUME RingInv, SavedInv, QueryLog PROVE SavedInv'
<1>1. /\ ring' = (IF ring.buf = Nil THEN LoadedRing ELSE ring)
      /\ UNCHANGED <<loaded, book, dirty, asleep, starting, file, failed>>
  BY DEF QueryLog, statsVars, RingOrLoaded
<1>2. \A s \in Stores : Read(s)' = Read(s)
  BY <1>1 DEF Read
<1>3. CASE ring.buf = Nil
  <2>1. Ordered(ring') = Read("log")
    BY <1>1, <1>3, LoadedRingIs, OrderedIs DEF RingInv
  <2>2. ~Unsaved("log")'
    BY <1>2, <2>1, StoresAre DEF Unsaved, Content
  <2>3. (Unsaved("stats") => dirty["stats"] /\ Flushing("stats"))'
    <3>1. Here("stats")' = Here("stats") /\ Content("stats")' = Content("stats")
      BY <1>1 DEF Here, Content
    <3> QED BY <1>1, <3>1, StoresAre, SavedStays
  <2> QED BY <2>2, <2>3, StoresAre DEF SavedInv
<1>4. CASE ring.buf # Nil
  <2>1. \A s \in Stores : Here(s)' = Here(s) /\ Content(s)' = Content(s)
    BY <1>1, <1>4 DEF Here, Content, Ordered
  <2> QED BY <1>1, <2>1, SavedStays DEF SavedInv
<1> QED BY <1>3, <1>4

LEMMA SavedQueryStats ==
  ASSUME RingInv, SavedInv, QueryStats PROVE SavedInv'
<1>1. /\ book' = (IF loaded THEN book ELSE Read("stats")) /\ loaded' = TRUE
      /\ UNCHANGED <<ring, dirty, asleep, starting, file, failed>>
  BY DEF QueryStats, LoadedBook
<1>2. \A s \in Stores : Read(s)' = Read(s)
  BY <1>1 DEF Read
<1>3. (Unsaved("log") => dirty["log"] /\ Flushing("log"))'
  <2>1. Here("log")' = Here("log") /\ Content("log")' = Content("log")
    BY <1>1, StoresAre DEF Here, Content, Ordered
  <2> QED BY <1>1, <2>1, StoresAre, SavedStays
<1>4. (Unsaved("stats") => dirty["stats"] /\ Flushing("stats"))'
  <2>1. CASE loaded
    <3>1. Here("stats") /\ Content("stats")' = Content("stats")
      BY <1>1, <2>1 DEF Here, Content
    <3> QED BY <1>1, <3>1, StoresAre, SavedStays
  <2>2. CASE ~loaded
    <3>1. Content("stats")' = Read("stats")'
      BY <1>1, <1>2, <2>2, StoresAre DEF Content
    <3> QED BY <3>1 DEF Unsaved
  <2> QED BY <2>1, <2>2
<1> QED BY <1>3, <1>4, StoresAre DEF SavedInv

LEMMA SavedStep ==
  ASSUME RingInv, SavedInv, [RecNext]_recVars PROVE SavedInv'
<1>1. ASSUME NEW w, NEW c, RecordLog(w, c) PROVE SavedInv'
  <2>1. MarkDirty("log") /\ UNCHANGED <<loaded, book, asleep, file, failed>>
    BY <1>1 DEF RecordLog, statsVars
  <2>2. \A o \in Stores \ {"log"} : Here(o)' = Here(o) /\ Content(o)' = Content(o)
    BY <2>1, StoresAre DEF Here, Content
  <2> QED BY <2>1, <2>2, StoresAre, SavedRecord
<1>2. ASSUME NEW w, RecordStats(w) PROVE SavedInv'
  <2>1. MarkDirty("stats") /\ UNCHANGED <<ring, asleep, file, failed>>
    BY <1>2 DEF RecordStats
  <2>2. \A o \in Stores \ {"stats"} : Here(o)' = Here(o) /\ Content(o)' = Content(o)
    BY <2>1 DEF Here, Content, Ordered
  <2> QED BY <2>1, <2>2, StoresAre, SavedRecord
<1>3. ASSUME UNCHANGED <<loaded, book, ring, dirty, asleep, starting, file, failed>>
      PROVE  SavedInv'
  <2>1. \A s \in Stores : Here(s)' = Here(s) /\ Content(s)' = Content(s)
    BY <1>3 DEF Here, Content, Ordered
  <2> QED BY <1>3, <2>1, SavedStays DEF SavedInv
<1>4. CASE Tick \/ UNCHANGED recVars
  BY <1>3, <1>4 DEF Tick, recVars, statsVars
<1> QED BY <1>1, <1>2, <1>4, SavedBoot, SavedRestart, SavedFlushSoon, SavedFlush,
           SavedFlushFails, SavedQueryLog, SavedQueryStats DEF RecNext

(* A store that differs from its file, and whose last write was not lost,  *)
(* is dirty and has a flusher: the two go together in every step, which    *)
(* is why the sleeper that finds the store clean may leave it alone.       *)
THEOREM SavedInvariant == RecSpec => []SavedInv
<1>1. RecInit => SavedInv
  BY SavedInit
<1>2. RingInv /\ SavedInv /\ [RecNext]_recVars => SavedInv'
  BY SavedStep
<1> QED BY <1>1, <1>2, RingInvariant, PTL DEF RecSpec

(* For any number of workers: no record is left in memory without a        *)
(* flusher that will write it (stats.go and reqlog.go flushSoon).          *)
THEOREM UnsavedHasFlusherCorrect == RecSpec => []UnsavedHasFlusher
<1>1. SavedInv => UnsavedHasFlusher
  BY DEF SavedInv, Unsaved, Here, Flushing, UnsavedHasFlusher
<1> QED BY <1>1, SavedInvariant, PTL

-----------------------------------------------------------------------------
(* The book: a tree fits a bag of calls when each of its cells counts the  *)
(* calls in the scope of the cell, and there are no cells without calls.   *)
CellUids == {All} \cup {c.uid : c \in Calls} \cup UNION Boots
CellKeys == {All} \cup {c.key : c \in Calls}
CellModels == {All} \cup {c.model : c \in Calls \cup Legacy}

KnownCalls ==
  {c \in [uid : (CellUids \ {All}) \cup {Nil}, key : (CellKeys \ {All}) \cup {Nil},
          model : CellModels \ {All}, err : BOOLEAN] : c.uid = Nil => c.key = Nil}

Cells ==
  {cell \in [uid : CellUids, key : CellKeys, model : CellModels] :
     cell.uid = All => cell.key = All}
Sums == {cell \in Cells : cell.model = All}

CallBag(B) ==
  /\ B \in [DOMAIN B -> Nat] /\ DOMAIN B \subseteq KnownCalls
  /\ IsFiniteSet(DOMAIN B)

Covers(cell, c) ==
  /\ cell.uid \in {All, c.uid} /\ cell.key \in {All, c.key} /\ cell.model \in {All, c.model}

Scope(B, cell) == {c \in DOMAIN B : Covers(cell, c)}
Errors(S) == {c \in S : c.err}
Count(B, S) == [requests |-> Total(B, S), errors |-> Total(B, Errors(S))]

Fits(tree, B, cells) ==
  \A cell \in cells :
    /\ cell \in DOMAIN tree <=> Scope(B, cell) # {}
    /\ CellOf(tree, cell) = Count(B, Scope(B, cell))

NoAccounts(B) == \A c \in DOMAIN B : c.uid = Nil

DayOK(b, d) ==
  /\ d \in DOMAIN b.days /\ DOMAIN b.days[d] \subseteq Cells
  /\ Fits(b.days[d], b.calls[d], Cells)

TotalOK(b) ==
  /\ Fits(b.total, b.ever, Sums)
  /\ \A cell \in DOMAIN b.total :
       cell \in Cells /\ [cell EXCEPT !.model = All] \in DOMAIN b.total

BagsOK(b) ==
  /\ DOMAIN b.days \subseteq DOMAIN b.calls /\ DOMAIN b.calls \subseteq Nat
  /\ CallBag(b.ever)
  /\ \A d \in DOMAIN b.calls :
       CallBag(b.calls[d]) /\ DOMAIN b.calls[d] \subseteq DOMAIN b.ever

BookOK(b, now) ==
  /\ BagsOK(b) /\ TotalOK(b)
  /\ \A d \in DOMAIN b.calls : d > now - KeepDays \/ NoAccounts(b.ever) => DayOK(b, d)

DoingOK(w) ==
  doing[w] # Nil => doing[w].call \in Calls /\ doing[w].day \in {today - 1, today}

BooksInv ==
  /\ today \in Nat \ {0} /\ DOMAIN file = Stores
  /\ DOMAIN doing = Workers /\ \A w \in Workers : DoingOK(w)
  /\ BookOK(book, today) /\ BookOK(Read("stats"), today)

LEMMA NamesAre ==
  /\ Nil \notin CellUids /\ All \in CellUids /\ Nil \notin CellKeys /\ All \in CellKeys
  /\ All \in CellModels /\ All # Nil
BY RecordsAssumption DEF CellUids, CellKeys, CellModels

LEMMA CallIsKnown ==
  ASSUME NEW c \in Calls
  PROVE  c \in KnownCalls /\ c.uid # Nil /\ c.uid \in CellUids \ {All}
<1>1. /\ c = [uid |-> c.uid, key |-> c.key, model |-> c.model, err |-> c.err]
      /\ c.err \in BOOLEAN /\ c.model # All /\ c.uid \notin {All, Nil}
      /\ c.key \notin {All, Nil}
  BY RecordsAssumption
<1>2. c.uid \in CellUids /\ c.key \in CellKeys /\ c.model \in CellModels
  BY DEF CellUids, CellKeys, CellModels
<1> QED BY <1>1, <1>2 DEF KnownCalls

LEMMA OldIsKnown ==
  ASSUME NEW c \in Legacy PROVE c \in KnownCalls /\ c.uid = Nil
<1>1. /\ c = [uid |-> c.uid, key |-> c.key, model |-> c.model, err |-> c.err]
      /\ c.err \in BOOLEAN /\ c.model # All /\ c.uid = Nil /\ c.key = Nil
  BY RecordsAssumption
<1>2. c.model \in CellModels
  BY DEF CellModels
<1> QED BY <1>1, <1>2 DEF KnownCalls

LEMMA KnownIs ==
  ASSUME NEW c \in KnownCalls
  PROVE  /\ c.uid \in CellUids \ {All} \/ c.uid = Nil
         /\ c.key \in CellKeys \ {All} \/ c.key = Nil
         /\ c.model \in CellModels \ {All} /\ c.err \in BOOLEAN
         /\ c.uid = Nil => c.key = Nil
         /\ c.uid # All /\ c.key # All /\ c.model # All
BY NamesAre DEF KnownCalls

LEMMA CellIs ==
  ASSUME NEW cell \in Cells
  PROVE  /\ cell.uid \in CellUids /\ cell.key \in CellKeys /\ cell.model \in CellModels
         /\ cell.uid = All => cell.key = All
         /\ cell = [uid |-> cell.uid, key |-> cell.key, model |-> cell.model]
         /\ cell.uid # Nil /\ cell.key # Nil
BY NamesAre DEF Cells

LEMMA IsCell ==
  ASSUME NEW u \in CellUids, NEW k \in CellKeys, NEW m \in CellModels, u = All => k = All
  PROVE  [uid |-> u, key |-> k, model |-> m] \in Cells
BY DEF Cells

(* A call has the cells that cover it.                                     *)
LEMMA RecordCellsCover ==
  ASSUME NEW c \in KnownCalls, NEW cell \in Cells
  PROVE  cell \in RecordCells(c) <=> Covers(cell, c)
<1>1. ASSUME Covers(cell, c) PROVE cell \in RecordCells(c)
  <2>1. /\ cell.uid \in {All, c.uid} /\ cell.key \in {All, c.key}
        /\ cell.model \in {All, c.model}
    BY <1>1 DEF Covers
  <2>2. /\ cell = [uid |-> cell.uid, key |-> cell.key, model |-> cell.model]
        /\ cell.uid = All => cell.key = All
    BY CellIs
  <2>3. cell \in [uid : {All, c.uid}, key : {All, c.key}, model : {All, c.model}]
    BY <2>1, <2>2
  <2> QED BY <2>2, <2>3 DEF RecordCells
<1>2. ASSUME cell \in RecordCells(c) PROVE Covers(cell, c)
  BY <1>2 DEF RecordCells, Covers
<1> QED BY <1>1, <1>2

LEMMA RecordCellsAre ==
  ASSUME NEW c \in KnownCalls, c.uid # Nil, c.key # Nil PROVE RecordCells(c) \subseteq Cells
<1>1. {All, c.uid} \subseteq CellUids /\ {All, c.key} \subseteq CellKeys
      /\ {All, c.model} \subseteq CellModels
  BY KnownIs, NamesAre
<1> QED BY <1>1 DEF RecordCells, Cells

LEMMA TotalCellsCover ==
  ASSUME NEW c \in KnownCalls, NEW cell \in Sums
  PROVE  cell \in TotalCells(c) <=> Covers(cell, c)
<1>1. cell \in Cells /\ cell.model = All
  BY DEF Sums
<1> QED BY <1>1, RecordCellsCover DEF TotalCells

-----------------------------------------------------------------------------
(* Counting.                                                               *)
LEMMA ScopeIs ==
  ASSUME NEW B, CallBag(B), NEW S \in SUBSET DOMAIN B
  PROVE  /\ IsFiniteSet(S) /\ \A c \in S : B[c] \in Nat
         /\ Total(B, S) \in Nat
         /\ Errors(S) \in SUBSET S
<1>1. IsFiniteSet(S) /\ \A c \in S : B[c] \in Nat
  BY FS_Subset DEF CallBag
<1>2. Total(B, S) \in Nat
  BY <1>1, TotalPick
<1> QED BY <1>1, <1>2 DEF Errors

LEMMA CountNothing ==
  ASSUME NEW B PROVE Count(B, {}) = Zero
<1>1. Errors({}) = {}
  BY DEF Errors
<1>2. Total(B, {}) = 0
  BY TotalEmpty
<1> QED BY <1>1, <1>2 DEF Count, Zero

(* One more call.                                                          *)
LEMMA AddCallIs ==
  ASSUME NEW B, CallBag(B), NEW c \in KnownCalls
  PROVE  /\ DOMAIN AddCall(B, c) = DOMAIN B \cup {c}
         /\ CallBag(AddCall(B, c))
         /\ AddCall(B, c)[c] = (IF c \in DOMAIN B THEN B[c] ELSE 0) + 1
         /\ \A x \in DOMAIN B \ {c} : AddCall(B, c)[x] = B[x]
<1> DEFINE new == AddCall(B, c)
<1>1. new = [x \in DOMAIN B \cup {c} |->
               IF x = c THEN (IF c \in DOMAIN B THEN B[c] ELSE 0) + 1 ELSE B[x]]
  BY DEF AddCall, Put, At
<1>2. \A x \in DOMAIN B : B[x] \in Nat
  BY DEF CallBag
<1>3. DOMAIN B \cup {c} \subseteq KnownCalls /\ IsFiniteSet(DOMAIN B \cup {c})
  BY FS_AddElement DEF CallBag
<1> HIDE DEF new
<1>4. DOMAIN new = DOMAIN B \cup {c}
  BY <1>1
<1>5. new \in [DOMAIN B \cup {c} -> Nat]
  BY <1>1, <1>2
<1>6. CallBag(new)
  BY <1>3, <1>4, <1>5 DEF CallBag
<1>7. new[c] = (IF c \in DOMAIN B THEN B[c] ELSE 0) + 1
      /\ \A x \in DOMAIN B \ {c} : new[x] = B[x]
  BY <1>1
<1> QED BY <1>4, <1>6, <1>7 DEF new

LEMMA TotalAddCall ==
  ASSUME NEW B, CallBag(B), NEW c \in KnownCalls, NEW S \in SUBSET DOMAIN B,
         c \in DOMAIN B => c \in S
  PROVE  Total(AddCall(B, c), S \cup {c}) = Total(B, S) + 1
<1> DEFINE new == AddCall(B, c)
           R == S \ {c}
<1>1. /\ \A x \in S \cup {c} : new[x] \in Nat
      /\ \A x \in R : new[x] = B[x] /\ B[x] \in Nat
      /\ IsFiniteSet(R) /\ IsFiniteSet(S \cup {c}) /\ IsFiniteSet(S)
  <2>1. /\ DOMAIN new = DOMAIN B \cup {c} /\ CallBag(new)
        /\ new[c] = (IF c \in DOMAIN B THEN B[c] ELSE 0) + 1
        /\ \A x \in DOMAIN B \ {c} : new[x] = B[x]
    BY AddCallIs
  <2> HIDE DEF new
  <2>2. \A x \in S \cup {c} : new[x] \in Nat
    BY <2>1 DEF CallBag
  <2>3. IsFiniteSet(S) /\ \A x \in S : B[x] \in Nat
    BY ScopeIs
  <2>4. IsFiniteSet(R) /\ IsFiniteSet(S \cup {c})
    BY <2>3, FS_AddElement, FS_Subset
  <2>5. \A x \in R : new[x] = B[x]
    BY <2>1
  <2> QED BY <2>2, <2>3, <2>4, <2>5
<1>2. Total(new, S \cup {c}) = new[c] + Total(new, (S \cup {c}) \ {c})
  BY <1>1, TotalAny
<1>3. (S \cup {c}) \ {c} = R
  OBVIOUS
<1>4. Total(new, R) = Total(B, R)
  <2> HIDE DEF R, new
  <2> QED BY <1>1, TotalSame
<1>5. Total(B, R) \in Nat
  <2> HIDE DEF R
  <2> QED BY <1>1, TotalPick
<1>6. CASE c \in DOMAIN B
  <2>1. Total(B, S) = B[c] + Total(B, R)
    BY <1>6, ScopeIs, TotalAny
  <2>2. new[c] = B[c] + 1 /\ B[c] \in Nat
    BY <1>6, AddCallIs, ScopeIs
  <2> HIDE DEF new, R
  <2>3. Total(new, S \cup {c}) = (B[c] + 1) + Total(B, R)
    BY <1>2, <1>3, <1>4, <2>2
  <2> QED BY <1>5, <2>1, <2>2, <2>3 DEF new
<1>7. CASE c \notin DOMAIN B
  <2>1. R = S
    BY <1>7
  <2>2. new[c] = 1
    <3>1. new[c] = (IF c \in DOMAIN B THEN B[c] ELSE 0) + 1
      BY AddCallIs
    <3> HIDE DEF new
    <3> QED BY <1>7, <3>1
  <2>3. Total(B, R) = Total(B, S)
    BY <2>1
  <2> HIDE DEF new, R
  <2>4. Total(new, S \cup {c}) = 1 + Total(B, S)
    BY <1>2, <1>3, <1>4, <2>2, <2>3
  <2>5. Total(B, S) \in Nat
    BY <1>5, <2>3
  <2>6. Total(new, S \cup {c}) = Total(B, S) + 1
    BY <2>4, <2>5
  <2> QED BY <2>6 DEF new
<1> QED BY <1>6, <1>7

LEMMA TotalWithoutCall ==
  ASSUME NEW B, CallBag(B), NEW c \in KnownCalls, NEW S \in SUBSET DOMAIN B, c \notin S
  PROVE  Total(AddCall(B, c), S) = Total(B, S)
<1> DEFINE new == AddCall(B, c)
<1>1. \A x \in DOMAIN B \ {c} : new[x] = B[x]
  BY AddCallIs
<1>2. IsFiniteSet(S) /\ \A x \in S : B[x] \in Nat
  BY ScopeIs
<1> HIDE DEF new
<1>3. \A x \in S : B[x] \in Nat /\ B[x] = new[x]
  BY <1>1, <1>2
<1>4. Total(B, S) = Total(new, S)
  BY <1>2, <1>3, TotalSame
<1> QED BY <1>4 DEF new

LEMMA CountAddCall ==
  ASSUME NEW B, CallBag(B), NEW c \in KnownCalls, NEW cell
  PROVE  /\ Scope(AddCall(B, c), cell) # {} <=> Covers(cell, c) \/ Scope(B, cell) # {}
         /\ Count(AddCall(B, c), Scope(AddCall(B, c), cell))
              = IF Covers(cell, c) THEN Plus(Count(B, Scope(B, cell)), Once(c))
                ELSE Count(B, Scope(B, cell))
<1> DEFINE new == AddCall(B, c)
           S == Scope(B, cell)
           N == Scope(new, cell)
<1>1. DOMAIN new = DOMAIN B \cup {c}
  BY AddCallIs
<1>2. S \in SUBSET DOMAIN B /\ Errors(S) \in SUBSET DOMAIN B
  BY DEF Scope, Errors
<1>3. Total(B, S) \in Nat /\ Total(B, Errors(S)) \in Nat
  BY <1>2, ScopeIs
<1>4. c.err \in BOOLEAN
  BY KnownIs
<1>5. CASE Covers(cell, c)
  <2>1. N = S \cup {c}
    <3> HIDE DEF new
    <3> QED BY <1>1, <1>5 DEF Scope
  <2>2. (c \in DOMAIN B => c \in S) /\ (c \in DOMAIN B /\ c.err => c \in Errors(S))
    BY <1>5 DEF Scope, Errors
  <2> HIDE DEF N, S
  <2>3. Total(new, N) = Total(B, S) + 1
    <3>1. Total(new, S \cup {c}) = Total(B, S) + 1
      BY <1>2, <2>2, TotalAddCall
    <3> QED BY <2>1, <3>1
  <2>4. Total(new, Errors(N)) = Total(B, Errors(S)) + (IF c.err THEN 1 ELSE 0)
    <3>1. CASE c.err
      <4>1. Errors(N) = Errors(S) \cup {c}
        BY <2>1, <3>1 DEF Errors
      <4>2. Total(new, Errors(S) \cup {c}) = Total(B, Errors(S)) + 1
        BY <1>2, <2>2, <3>1, TotalAddCall
      <4> QED BY <3>1, <4>1, <4>2
    <3>2. CASE ~c.err
      <4>1. Errors(N) = Errors(S) /\ c \notin Errors(S)
        BY <2>1, <3>2 DEF Errors
      <4>2. Total(new, Errors(S)) = Total(B, Errors(S))
        BY <1>2, <4>1, TotalWithoutCall
      <4> HIDE DEF new
      <4> QED BY <1>3, <3>2, <4>1, <4>2
    <3> QED BY <3>1, <3>2
  <2>5. Count(new, N) = Plus(Count(B, S), Once(c))
    <3> HIDE DEF new
    <3> QED BY <2>3, <2>4 DEF Count, Plus, Once
  <2>6. N # {}
    BY <2>1
  <2> QED BY <1>5, <2>5, <2>6 DEF N, S
<1>6. CASE ~Covers(cell, c)
  <2>1. N = S /\ c \notin S /\ c \notin Errors(S)
    <3> HIDE DEF new
    <3> QED BY <1>1, <1>6 DEF Scope, Errors
  <2> HIDE DEF N, S
  <2>2. Total(new, S) = Total(B, S) /\ Total(new, Errors(S)) = Total(B, Errors(S))
    BY <1>2, <2>1, TotalWithoutCall
  <2>3. Count(new, N) = Count(B, S)
    <3> HIDE DEF new
    <3> QED BY <2>1, <2>2 DEF Count
  <2> QED BY <1>6, <2>1, <2>3 DEF N, S
<1> QED BY <1>5, <1>6

(* A tree that fits, bumped at the cells of one more call.                 *)
LEMMA BumpDomain ==
  \A tree, add, n : DOMAIN Bump(tree, add, n) = DOMAIN tree \cup add
BY DEF Bump

LEMMA BumpCell ==
  \A tree, add, n, cell :
    CellOf(Bump(tree, add, n), cell)
      = IF cell \in add THEN Plus(CellOf(tree, cell), n) ELSE CellOf(tree, cell)
<1> SUFFICES ASSUME NEW tree, NEW add, NEW n, NEW cell
             PROVE  CellOf(Bump(tree, add, n), cell)
                      = IF cell \in add THEN Plus(CellOf(tree, cell), n) ELSE CellOf(tree, cell)
  OBVIOUS
<1> DEFINE new == Bump(tree, add, n)
<1>1. new = [x \in DOMAIN tree \cup add |->
               IF x \in add THEN Plus(CellOf(tree, x), n) ELSE tree[x]]
  BY DEF Bump
<1> HIDE DEF new
<1>2. DOMAIN new = DOMAIN tree \cup add
  BY <1>1
<1>3. CellOf(new, cell)
        = IF cell \in add THEN Plus(CellOf(tree, cell), n) ELSE CellOf(tree, cell)
  BY <1>1, <1>2 DEF CellOf
<1> QED BY <1>3 DEF new

LEMMA FitsAddCall ==
  ASSUME NEW tree, NEW B, CallBag(B), NEW cells, Fits(tree, B, cells),
         NEW c \in KnownCalls, NEW add,
         \A cell \in cells : cell \in add <=> Covers(cell, c)
  PROVE  Fits(Bump(tree, add, Once(c)), AddCall(B, c), cells)
<1> DEFINE new == Bump(tree, add, Once(c))
<1> SUFFICES ASSUME NEW cell \in cells
             PROVE  /\ cell \in DOMAIN new <=> Scope(AddCall(B, c), cell) # {}
                    /\ CellOf(new, cell) = Count(AddCall(B, c), Scope(AddCall(B, c), cell))
  BY DEF Fits
<1>1. /\ cell \in DOMAIN tree <=> Scope(B, cell) # {}
      /\ CellOf(tree, cell) = Count(B, Scope(B, cell))
  BY DEF Fits
<1>2. /\ DOMAIN new = DOMAIN tree \cup add
      /\ CellOf(new, cell)
           = IF cell \in add THEN Plus(CellOf(tree, cell), Once(c)) ELSE CellOf(tree, cell)
  <2>1. DOMAIN new = DOMAIN tree \cup add
    BY BumpDomain
  <2>2. CellOf(new, cell)
          = IF cell \in add THEN Plus(CellOf(tree, cell), Once(c)) ELSE CellOf(tree, cell)
    BY BumpCell
  <2> QED BY <2>1, <2>2
<1> HIDE DEF new
<1>3. cell \in DOMAIN new <=> Scope(AddCall(B, c), cell) # {}
  BY <1>1, <1>2, CountAddCall
<1>4. CellOf(new, cell) = Count(AddCall(B, c), Scope(AddCall(B, c), cell))
  <2>1. Count(AddCall(B, c), Scope(AddCall(B, c), cell))
          = IF Covers(cell, c) THEN Plus(Count(B, Scope(B, cell)), Once(c))
            ELSE Count(B, Scope(B, cell))
    BY CountAddCall
  <2>2. cell \in add <=> Covers(cell, c)
    OBVIOUS
  <2> QED BY <1>1, <1>2, <2>1, <2>2
<1> QED BY <1>3, <1>4

LEMMA FitsNothing ==
  ASSUME NEW cells PROVE Fits(EmptyTree, NoCalls, cells) /\ CallBag(NoCalls)
<1>1. DOMAIN EmptyTree = {} /\ DOMAIN NoCalls = {}
  BY DEF EmptyTree, NoCalls
<1>2. \A cell : Scope(NoCalls, cell) = {} /\ CellOf(EmptyTree, cell) = Zero
  BY <1>1 DEF Scope, CellOf
<1>3. Count(NoCalls, {}) = Zero
  BY CountNothing
<1>4. Fits(EmptyTree, NoCalls, cells)
  BY <1>1, <1>2, <1>3 DEF Fits
<1>5. CallBag(NoCalls)
  BY <1>1, FS_EmptySet DEF CallBag, NoCalls
<1> QED BY <1>4, <1>5

-----------------------------------------------------------------------------
(* The backfill: the calls of no account become those of the only one.     *)
LEMMA GivenCall ==
  ASSUME NEW x \in KnownCalls, NEW u
  PROVE  [x EXCEPT !.uid = u]
           = [uid |-> u, key |-> x.key, model |-> x.model, err |-> x.err]
BY DEF KnownCalls

LEMMA GivenCell ==
  ASSUME NEW x \in Cells, NEW u
  PROVE  [x EXCEPT !.uid = u] = [uid |-> u, key |-> x.key, model |-> x.model]
BY DEF Cells

LEMMA GivenBack ==
  ASSUME NEW x \in KnownCalls, x.uid = Nil, NEW u
  PROVE  [[x EXCEPT !.uid = u] EXCEPT !.uid = Nil] = x
BY DEF KnownCalls

LEMMA RelabelledIs ==
  ASSUME NEW B, CallBag(B), NoAccounts(B), NEW u \in CellUids \ {All}
  PROVE  /\ DOMAIN Relabelled(B, u) = {[x EXCEPT !.uid = u] : x \in DOMAIN B}
         /\ CallBag(Relabelled(B, u))
         /\ \A x \in DOMAIN B : Relabelled(B, u)[[x EXCEPT !.uid = u]] = B[x]
         /\ \A c \in DOMAIN Relabelled(B, u) : c.uid = u /\ c.key = Nil
<1> DEFINE new == Relabelled(B, u)
           D == {[x EXCEPT !.uid = u] : x \in DOMAIN B}
<1>1. new = [c \in D |-> B[[c EXCEPT !.uid = Nil]]]
  BY DEF Relabelled
<1>2. /\ \A x \in DOMAIN B : x \in KnownCalls /\ x.uid = Nil /\ x.key = Nil /\ B[x] \in Nat
      /\ IsFiniteSet(DOMAIN B)
  BY KnownIs DEF CallBag, NoAccounts
<1> HIDE DEF new
<1>3. DOMAIN new = D
  BY <1>1
<1>4. ASSUME NEW x \in DOMAIN B
      PROVE  /\ new[[x EXCEPT !.uid = u]] = B[x]
             /\ [x EXCEPT !.uid = u] \in KnownCalls
             /\ [x EXCEPT !.uid = u].uid = u /\ [x EXCEPT !.uid = u].key = Nil
  <2>1. [[x EXCEPT !.uid = u] EXCEPT !.uid = Nil] = x
    BY <1>2, GivenBack
  <2>2. [x EXCEPT !.uid = u] \in D
    OBVIOUS
  <2>3. [x EXCEPT !.uid = u]
          = [uid |-> u, key |-> Nil, model |-> x.model, err |-> x.err]
    BY <1>2, GivenCall
  <2>4. [uid |-> u, key |-> Nil, model |-> x.model, err |-> x.err] \in KnownCalls
    <3>1. x.model \in CellModels \ {All} /\ x.err \in BOOLEAN
      BY <1>2, KnownIs
    <3> QED BY <3>1 DEF KnownCalls
  <2> DEFINE y == [x EXCEPT !.uid = u]
  <2>5. new[y] = B[[y EXCEPT !.uid = Nil]]
    <3> HIDE DEF y, D
    <3> QED BY <1>1, <2>2 DEF y
  <2>6. new[y] = B[x]
    BY <2>1, <2>5
  <2>7. y \in KnownCalls /\ y.uid = u /\ y.key = Nil
    BY <2>3, <2>4
  <2> QED BY <2>6, <2>7
<1>5. \A c \in D : new[c] \in Nat
  BY <1>2, <1>4
<1>6. D \subseteq KnownCalls /\ \A c \in D : c.uid = u /\ c.key = Nil
  BY <1>4
<1>7. IsFiniteSet(D)
  <2> DEFINE m == [x \in DOMAIN B |-> [x EXCEPT !.uid = u]]
  <2>1. m \in Surjection(DOMAIN B, D)
    BY DEF Surjection
  <2> HIDE DEF m, D
  <2> QED BY <1>2, <2>1, FS_Surjection
<1>8. CallBag(new)
  <2> HIDE DEF D
  <2>1. new \in [D -> Nat]
    BY <1>1, <1>5
  <2> QED BY <1>3, <1>6, <1>7, <2>1 DEF CallBag
<1> QED BY <1>3, <1>4, <1>6, <1>8 DEF new

LEMMA CountRelabelled ==
  ASSUME NEW B, CallBag(B), NoAccounts(B), NEW u \in CellUids \ {All},
         NEW S \in SUBSET DOMAIN B
  PROVE  Count(Relabelled(B, u), {[x EXCEPT !.uid = u] : x \in S}) = Count(B, S)
<1> DEFINE new == Relabelled(B, u)
           m == [x \in DOMAIN B |-> [x EXCEPT !.uid = u]]
           I(T) == {m[x] : x \in T}
<1>1. \A x \in DOMAIN B : new[[x EXCEPT !.uid = u]] = B[x]
  BY RelabelledIs
<1>2. \A x \in DOMAIN B : x \in KnownCalls /\ x.uid = Nil
  BY DEF CallBag, NoAccounts
<1>3. \A x \in DOMAIN B : m[x] = [x EXCEPT !.uid = u]
  OBVIOUS
<1>4. \A x, y \in DOMAIN B : m[x] = m[y] => x = y
  <2> TAKE x \in DOMAIN B, y \in DOMAIN B
  <2>1. x = [[x EXCEPT !.uid = u] EXCEPT !.uid = Nil]
        /\ y = [[y EXCEPT !.uid = u] EXCEPT !.uid = Nil]
    BY <1>2, GivenBack
  <2> QED BY <1>3, <2>1
<1>5. \A x \in DOMAIN B : m[x].err = x.err
  <2> TAKE x \in DOMAIN B
  <2>1. [x EXCEPT !.uid = u]
          = [uid |-> u, key |-> x.key, model |-> x.model, err |-> x.err]
    BY <1>2, GivenCall
  <2>2. m[x] = [uid |-> u, key |-> x.key, model |-> x.model, err |-> x.err]
    BY <1>3, <2>1
  <2> QED BY <2>2
<1> HIDE DEF m, new
<1>6. ASSUME NEW T \in SUBSET DOMAIN B PROVE Total(new, I(T)) = Total(B, T)
  <2>1. IsFiniteSet(T) /\ \A x \in T : B[x] \in Nat
    BY ScopeIs
  <2>2. \A x, y \in T : m[x] = m[y] => x = y
    BY <1>4
  <2>3. \A x \in T : new[m[x]] = B[x]
    BY <1>1, <1>3
  <2> QED BY <2>1, <2>2, <2>3, TotalRenamed
<1>7. Errors(I(S)) = I(Errors(S)) /\ Errors(S) \in SUBSET DOMAIN B
  BY <1>5 DEF Errors
<1>8. Total(new, I(S)) = Total(B, S) /\ Total(new, Errors(I(S))) = Total(B, Errors(S))
  <2>1. Total(new, I(Errors(S))) = Total(B, Errors(S))
    BY <1>6, <1>7
  <2> HIDE DEF I
  <2> QED BY <1>6, <1>7, <2>1
<1>9. I(S) = {[x EXCEPT !.uid = u] : x \in S}
  BY <1>3
<1> HIDE DEF I
<1>10. Count(new, I(S)) = Count(B, S)
  BY <1>8 DEF Count
<1> QED BY <1>9, <1>10 DEF new

(* The cells that the calls of a given account u alone can have, and the   *)
(* site's cell that is copied into each.                                   *)
OfOne(cell, u) == cell.uid \in {All, u} /\ cell.key = All
SiteOf(cell) == [uid |-> All, key |-> All, model |-> cell.model]

LEMMA SiteIs ==
  ASSUME NEW cell \in Cells
  PROVE  /\ SiteOf(cell) \in Cells /\ SiteOf(cell).uid = All
         /\ cell \in Sums => SiteOf(cell) \in Sums
         /\ cell.uid = All => SiteOf(cell) = cell
<1>1. cell.model \in CellModels /\ All \in CellUids /\ All \in CellKeys
  BY CellIs, NamesAre
<1>2. SiteOf(cell) \in Cells
  BY <1>1, IsCell DEF SiteOf
<1>3. SiteOf(cell).uid = All /\ SiteOf(cell).model = cell.model
  BY DEF SiteOf
<1>4. cell \in Sums => SiteOf(cell) \in Sums
  BY <1>2, <1>3 DEF Sums
<1>5. cell.uid = All => SiteOf(cell) = cell
  BY CellIs DEF SiteOf
<1> QED BY <1>2, <1>3, <1>4, <1>5

LEMMA AttributedIs ==
  ASSUME NEW tree, DOMAIN tree \subseteq Cells, ~HasAccounts(tree),
         NEW u \in CellUids \ {All}, NEW cell \in Cells
  PROVE  /\ DOMAIN Attributed(tree, u) \subseteq Cells
         /\ cell \in DOMAIN Attributed(tree, u)
              <=> OfOne(cell, u) /\ SiteOf(cell) \in DOMAIN tree
         /\ CellOf(Attributed(tree, u), cell)
              = IF OfOne(cell, u) THEN CellOf(tree, SiteOf(cell)) ELSE Zero
<1> DEFINE new == Attributed(tree, u)
           site == {x \in DOMAIN tree : x.uid = All}
           copy == {[x EXCEPT !.uid = u] : x \in site}
<1>1. new = [x \in DOMAIN tree \cup copy |->
               IF x \in copy THEN tree[[x EXCEPT !.uid = All]] ELSE tree[x]]
  BY DEF Attributed
<1>2. \A x \in DOMAIN tree : x \in Cells /\ x.uid = All /\ x.key = All /\ SiteOf(x) = x
  BY CellIs, SiteIs DEF HasAccounts
<1>3. site = DOMAIN tree
  BY <1>2
<1>4. \A x \in DOMAIN tree : [x EXCEPT !.uid = u] = [uid |-> u, key |-> All, model |-> x.model]
  BY <1>2, GivenCell
<1>5. copy = {[uid |-> u, key |-> All, model |-> x.model] : x \in DOMAIN tree}
  <2> HIDE DEF site
  <2>1. copy = {[x EXCEPT !.uid = u] : x \in DOMAIN tree}
    BY <1>3
  <2> HIDE DEF copy
  <2> DEFINE given(x) == [x EXCEPT !.uid = u]
             plain(x) == [uid |-> u, key |-> All, model |-> x.model]
  <2>2. \A x \in DOMAIN tree : given(x) = plain(x)
    BY <1>4
  <2>3. copy = {given(x) : x \in DOMAIN tree}
    BY <2>1
  <2> HIDE DEF given, plain
  <2>4. copy = {plain(x) : x \in DOMAIN tree}
    BY <2>2, <2>3
  <2> QED BY <2>4 DEF plain
<1> HIDE DEF new, site, copy
<1>6. DOMAIN new = DOMAIN tree \cup copy
  BY <1>1
<1>7. copy \subseteq Cells /\ \A x \in copy : x.uid = u /\ x.key = All
  <2>1. \A x \in DOMAIN tree : x.model \in CellModels
    BY <1>2, CellIs
  <2>2. \A x \in DOMAIN tree : [uid |-> u, key |-> All, model |-> x.model] \in Cells
    BY <2>1, NamesAre, IsCell
  <2> QED BY <1>5, <2>2
<1>8. DOMAIN new \subseteq Cells
  BY <1>2, <1>6, <1>7
<1>9. cell = [uid |-> cell.uid, key |-> cell.key, model |-> cell.model]
      /\ (cell.uid = All => cell.key = All)
  BY CellIs
<1>10. cell \in copy <=> cell.uid = u /\ cell.key = All /\ SiteOf(cell) \in DOMAIN tree
  <2>1. ASSUME cell \in copy
        PROVE  cell.uid = u /\ cell.key = All /\ SiteOf(cell) \in DOMAIN tree
    <3>1. PICK x \in DOMAIN tree : cell = [uid |-> u, key |-> All, model |-> x.model]
      BY <1>5, <2>1
    <3>2. cell.uid = u /\ cell.key = All /\ cell.model = x.model
      BY <3>1
    <3>3. SiteOf(cell) = SiteOf(x)
      BY <3>2 DEF SiteOf
    <3> QED BY <1>2, <3>2, <3>3
  <2>2. ASSUME cell.uid = u, cell.key = All, SiteOf(cell) \in DOMAIN tree
        PROVE  cell \in copy
    <3>1. SiteOf(cell).model = cell.model
      BY DEF SiteOf
    <3>2. cell = [uid |-> u, key |-> All, model |-> SiteOf(cell).model]
      BY <1>9, <2>2, <3>1
    <3> QED BY <1>5, <2>2, <3>2
  <2> QED BY <2>1, <2>2
<1>11. cell \in DOMAIN tree <=> cell.uid = All /\ SiteOf(cell) \in DOMAIN tree
  BY <1>2, SiteIs
<1>12. CASE cell.uid = All
  <2>1. SiteOf(cell) = cell /\ OfOne(cell, u) /\ cell \notin copy
    BY <1>7, <1>9, <1>12, SiteIs DEF OfOne
  <2>2. cell \in DOMAIN new <=> cell \in DOMAIN tree
    BY <1>6, <2>1
  <2>3. CellOf(new, cell) = CellOf(tree, cell)
    BY <1>1, <2>1, <2>2 DEF CellOf
  <2> QED BY <1>8, <2>1, <2>2, <2>3 DEF new
<1>13. CASE cell.uid # All
  <2>1. cell \in DOMAIN new <=> OfOne(cell, u) /\ SiteOf(cell) \in DOMAIN tree
    BY <1>6, <1>10, <1>11, <1>13 DEF OfOne
  <2>2. ASSUME cell \in DOMAIN new PROVE new[cell] = tree[SiteOf(cell)]
    <3>1. cell \in copy /\ cell.key = All
      BY <1>6, <1>10, <1>11, <1>13, <2>2
    <3>2. [cell EXCEPT !.uid = All] = SiteOf(cell)
      BY <3>1, GivenCell DEF SiteOf
    <3>3. new[cell] = tree[[cell EXCEPT !.uid = All]]
      BY <1>1, <1>6, <2>2, <3>1
    <3> QED BY <3>2, <3>3
  <2>3. CellOf(new, cell) = IF OfOne(cell, u) THEN CellOf(tree, SiteOf(cell)) ELSE Zero
    BY <2>1, <2>2 DEF CellOf
  <2> QED BY <1>8, <2>1, <2>3 DEF new
<1> QED BY <1>12, <1>13

LEMMA AttributedCells ==
  ASSUME NEW tree, DOMAIN tree \subseteq Cells, ~HasAccounts(tree),
         NEW u \in CellUids \ {All}
  PROVE  DOMAIN Attributed(tree, u) \subseteq Cells
<1>1. Cells # {}
  BY NamesAre, IsCell
<1> QED BY <1>1, AttributedIs

LEMMA ScopeOfSite ==
  ASSUME NEW B, CallBag(B), NoAccounts(B), NEW cell \in Cells, Scope(B, cell) # {}
  PROVE  cell.uid = All
<1>1. PICK c \in DOMAIN B : Covers(cell, c)
  BY DEF Scope
<1>2. c.uid = Nil /\ cell.uid \in {All, c.uid}
  BY <1>1 DEF NoAccounts, Covers
<1> QED BY <1>2, CellIs

LEMMA ScopeRelabelled ==
  ASSUME NEW B, CallBag(B), NoAccounts(B), NEW u \in CellUids \ {All}, NEW cell \in Cells
  PROVE  Scope(Relabelled(B, u), cell)
           = IF OfOne(cell, u) THEN {[x EXCEPT !.uid = u] : x \in Scope(B, SiteOf(cell))}
             ELSE {}
<1> DEFINE new == Relabelled(B, u)
<1>1. /\ DOMAIN new = {[x EXCEPT !.uid = u] : x \in DOMAIN B}
      /\ \A c \in DOMAIN new : c.uid = u /\ c.key = Nil
  BY RelabelledIs
<1> HIDE DEF new
<1>2. \A x \in DOMAIN B : [x EXCEPT !.uid = u].model = x.model
  <2> TAKE x \in DOMAIN B
  <2>1. x \in KnownCalls
    BY DEF CallBag
  <2>2. [x EXCEPT !.uid = u] = [uid |-> u, key |-> x.key, model |-> x.model, err |-> x.err]
    BY <2>1, GivenCall
  <2> QED BY <2>2
<1>3. cell.key # Nil /\ cell.uid \in CellUids
  BY CellIs
<1>4. \A c \in DOMAIN new :
        Covers(cell, c) <=> OfOne(cell, u) /\ cell.model \in {All, c.model}
  BY <1>1, <1>3 DEF Covers, OfOne
<1>5. \A x \in DOMAIN B : x \in Scope(B, SiteOf(cell)) <=> cell.model \in {All, x.model}
  BY DEF Scope, Covers, SiteOf
<1>6. CASE OfOne(cell, u)
  <2>1. Scope(new, cell) = {[x EXCEPT !.uid = u] : x \in Scope(B, SiteOf(cell))}
    <3>1. ASSUME NEW c \in Scope(new, cell)
          PROVE  c \in {[x EXCEPT !.uid = u] : x \in Scope(B, SiteOf(cell))}
      <4>1. c \in DOMAIN new /\ cell.model \in {All, c.model}
        BY <1>4, <3>1 DEF Scope
      <4>2. PICK x \in DOMAIN B : c = [x EXCEPT !.uid = u]
        BY <1>1, <4>1
      <4> QED BY <1>2, <1>5, <4>1, <4>2
    <3>2. ASSUME NEW x \in Scope(B, SiteOf(cell)) PROVE [x EXCEPT !.uid = u] \in Scope(new, cell)
      <4>1. x \in DOMAIN B
        BY DEF Scope
      <4>2. [x EXCEPT !.uid = u] \in DOMAIN new
        BY <1>1, <4>1
      <4>3. cell.model \in {All, [x EXCEPT !.uid = u].model}
        BY <1>2, <1>5, <4>1
      <4> QED BY <1>4, <1>6, <4>2, <4>3 DEF Scope
    <3> QED BY <3>1, <3>2
  <2> QED BY <1>6, <2>1 DEF new
<1>7. CASE ~OfOne(cell, u)
  <2>1. Scope(new, cell) = {}
    BY <1>4, <1>7 DEF Scope
  <2> QED BY <1>7, <2>1 DEF new
<1> QED BY <1>6, <1>7

LEMMA FitsRelabelled ==
  ASSUME NEW tree, DOMAIN tree \subseteq Cells, ~HasAccounts(tree),
         NEW B, CallBag(B), NoAccounts(B), NEW u \in CellUids \ {All},
         NEW cells \in {Cells, Sums}, Fits(tree, B, cells)
  PROVE  Fits(Attributed(tree, u), Relabelled(B, u), cells)
<1> DEFINE new == Attributed(tree, u)
           bag == Relabelled(B, u)
<1> SUFFICES ASSUME NEW cell \in cells
             PROVE  /\ cell \in DOMAIN new <=> Scope(bag, cell) # {}
                    /\ CellOf(new, cell) = Count(bag, Scope(bag, cell))
  BY DEF Fits
<1>1. cell \in Cells /\ SiteOf(cell) \in cells
  BY SiteIs DEF Sums
<1>2. /\ SiteOf(cell) \in DOMAIN tree <=> Scope(B, SiteOf(cell)) # {}
      /\ CellOf(tree, SiteOf(cell)) = Count(B, Scope(B, SiteOf(cell)))
  BY <1>1 DEF Fits
<1>3. /\ cell \in DOMAIN new <=> OfOne(cell, u) /\ SiteOf(cell) \in DOMAIN tree
      /\ CellOf(new, cell) = IF OfOne(cell, u) THEN CellOf(tree, SiteOf(cell)) ELSE Zero
  BY <1>1, AttributedIs
<1>4. Scope(bag, cell)
        = IF OfOne(cell, u) THEN {[x EXCEPT !.uid = u] : x \in Scope(B, SiteOf(cell))} ELSE {}
  BY <1>1, ScopeRelabelled
<1> DEFINE S == Scope(B, SiteOf(cell))
           R == {[x EXCEPT !.uid = u] : x \in S}
<1>5. Count(bag, R) = Count(B, S)
  <2>1. S \in SUBSET DOMAIN B
    BY DEF Scope
  <2> HIDE DEF S
  <2> QED BY <2>1, CountRelabelled
<1>6. R # {} <=> S # {}
  OBVIOUS
<1>7. Count(bag, {}) = Zero
  BY CountNothing
<1> HIDE DEF new, bag
<1>8. CASE OfOne(cell, u)
  <2>1. Scope(bag, cell) = R
    BY <1>4, <1>8
  <2> HIDE DEF R
  <2> QED BY <1>2, <1>3, <1>5, <1>6, <1>8, <2>1
<1>9. CASE ~OfOne(cell, u)
  BY <1>3, <1>4, <1>7, <1>9
<1> QED BY <1>8, <1>9

-----------------------------------------------------------------------------
(* The book, step by step.                                                 *)
LEMMA EmptyBookOK ==
  ASSUME NEW now PROVE BookOK(EmptyBook, now)
<1>1. /\ DOMAIN EmptyBook.days = {} /\ DOMAIN EmptyBook.calls = {}
      /\ EmptyBook.total = EmptyTree /\ EmptyBook.ever = NoCalls
      /\ DOMAIN EmptyTree = {}
  BY DEF EmptyBook, EmptyTree
<1>2. TotalOK(EmptyBook)
  BY <1>1, FitsNothing DEF TotalOK
<1>3. BagsOK(EmptyBook)
  BY <1>1, FitsNothing DEF BagsOK
<1> QED BY <1>1, <1>2, <1>3 DEF BookOK

LEMMA BookLater ==
  ASSUME NEW now \in Nat, NEW b, BookOK(b, now) PROVE BookOK(b, now + 1)
<1>1. DOMAIN b.calls \subseteq Nat
  BY DEF BookOK, BagsOK
<1>2. ASSUME NEW d \in DOMAIN b.calls, d > (now + 1) - KeepDays \/ NoAccounts(b.ever)
      PROVE  DayOK(b, d)
  <2>1. d \in Nat /\ KeepDays \in Nat
    BY <1>1, RecordsAssumption
  <2>2. d > now - KeepDays \/ NoAccounts(b.ever)
    BY <1>2, <2>1
  <2> QED BY <2>2 DEF BookOK
<1> QED BY <1>2 DEF BookOK

LEMMA PutDomain == \A f, d, v : DOMAIN Put(f, d, v) = DOMAIN f \cup {d}
BY DEF Put
LEMMA PutThere == \A f, d, v : Put(f, d, v)[d] = v
BY DEF Put
LEMMA PutElsewhere == \A f, d, v : \A x \in DOMAIN f \ {d} : Put(f, d, v)[x] = f[x]
BY DEF Put

LEMMA AddCallDomain == \A B, c : DOMAIN AddCall(B, c) = DOMAIN B \cup {c}
BY PutDomain DEF AddCall
LEMMA AddCallBag == \A B : CallBag(B) => \A c \in KnownCalls : CallBag(AddCall(B, c))
BY AddCallIs

(* What is within the window is not pruned.                                *)
LEMMA KeptDaysKeep ==
  ASSUME NEW now \in Nat, NEW day, day = now \/ day = now - 1, NEW days,
         NEW d \in days, d \in Nat, d > now - KeepDays
  PROVE  d \in KeptDays(days, day)
<1>1. KeepDays \in Nat
  BY RecordsAssumption
<1>2. d >= day - KeepDays + 1
  BY <1>1
<1> QED BY <1>2 DEF KeptDays

LEMMA BagsRecorded ==
  ASSUME NEW b, BagsOK(b), NEW c \in Calls, NEW day \in Nat
  PROVE  BagsOK(Recorded(b, c, day))
<1> DEFINE new == Recorded(b, c, day)
           bag == At(b.calls, day, NoCalls)
           days == Put(b.days, day,
                       Bump(At(b.days, day, EmptyTree), RecordCells(c), Once(c)))
           kept == KeptDays(DOMAIN days, day)
<1>1. /\ new.days = Keep(days, kept)
      /\ new.calls = Put(b.calls, day, AddCall(bag, c))
      /\ new.ever = AddCall(b.ever, c)
  BY DEF Recorded
<1>2. c \in KnownCalls
  BY CallIsKnown
<1>3. /\ DOMAIN b.days \subseteq DOMAIN b.calls /\ DOMAIN b.calls \subseteq Nat
      /\ CallBag(b.ever)
      /\ \A d \in DOMAIN b.calls :
           CallBag(b.calls[d]) /\ DOMAIN b.calls[d] \subseteq DOMAIN b.ever
  BY DEF BagsOK
<1>4. CallBag(bag) /\ DOMAIN bag \subseteq DOMAIN b.ever
  <2>1. CallBag(NoCalls) /\ DOMAIN NoCalls = {}
    BY FitsNothing DEF NoCalls
  <2> QED BY <1>3, <2>1 DEF At
<1>5. DOMAIN days = DOMAIN b.days \cup {day}
  BY PutDomain
<1> HIDE DEF new, bag, days
<1>6. /\ DOMAIN new.calls = DOMAIN b.calls \cup {day}
      /\ new.calls[day] = AddCall(bag, c)
      /\ \A d \in DOMAIN b.calls \ {day} : new.calls[d] = b.calls[d]
  <2>1. DOMAIN new.calls = DOMAIN b.calls \cup {day}
    <3>1. DOMAIN Put(b.calls, day, AddCall(bag, c)) = DOMAIN b.calls \cup {day}
      BY PutDomain
    <3> QED BY <1>1, <3>1
  <2>2. new.calls[day] = AddCall(bag, c)
    BY <1>1, PutThere
  <2>3. \A d \in DOMAIN b.calls \ {day} : new.calls[d] = b.calls[d]
    BY <1>1, PutElsewhere
  <2> QED BY <2>1, <2>2, <2>3
<1>7. DOMAIN new.days \subseteq DOMAIN new.calls /\ DOMAIN new.calls \subseteq Nat
  <2>1. DOMAIN new.days \subseteq DOMAIN days
    BY <1>1 DEF Keep
  <2> QED BY <1>3, <1>5, <1>6, <2>1
<1>8. CallBag(new.ever) /\ DOMAIN new.ever = DOMAIN b.ever \cup {c}
  <2>1. CallBag(AddCall(b.ever, c)) /\ DOMAIN AddCall(b.ever, c) = DOMAIN b.ever \cup {c}
    BY <1>2, <1>3, AddCallBag, AddCallDomain
  <2> QED BY <1>1, <2>1
<1>9. CallBag(AddCall(bag, c)) /\ DOMAIN AddCall(bag, c) = DOMAIN bag \cup {c}
  BY <1>2, <1>4, AddCallBag, AddCallDomain
<1>10. \A d \in DOMAIN new.calls :
         CallBag(new.calls[d]) /\ DOMAIN new.calls[d] \subseteq DOMAIN new.ever
  BY <1>3, <1>4, <1>6, <1>8, <1>9
<1>11. BagsOK(new)
  BY <1>7, <1>8, <1>10 DEF BagsOK
<1> QED BY <1>11 DEF new

LEMMA TotalRecorded ==
  ASSUME NEW b, BagsOK(b), TotalOK(b), NEW c \in Calls, NEW day
  PROVE  TotalOK(Recorded(b, c, day))
<1> DEFINE new == Recorded(b, c, day)
<1>1. new.total = Bump(b.total, TotalCells(c), Once(c)) /\ new.ever = AddCall(b.ever, c)
  BY DEF Recorded
<1>2. c \in KnownCalls /\ c.uid # Nil /\ c.key # Nil
  BY CallIsKnown, RecordsAssumption
<1>3. CallBag(b.ever) /\ Fits(b.total, b.ever, Sums)
      /\ \A cell \in DOMAIN b.total :
           cell \in Cells /\ [cell EXCEPT !.model = All] \in DOMAIN b.total
  BY DEF BagsOK, TotalOK
<1> HIDE DEF new
<1>4. Fits(new.total, new.ever, Sums)
  <2>1. \A cell \in Sums : cell \in TotalCells(c) <=> Covers(cell, c)
    BY <1>2, TotalCellsCover
  <2> QED BY <1>1, <1>2, <1>3, <2>1, FitsAddCall
<1>5. DOMAIN new.total = DOMAIN b.total \cup TotalCells(c)
  BY <1>1, BumpDomain
<1>6. TotalCells(c) \subseteq Cells
  BY <1>2, RecordCellsAre DEF TotalCells
<1>7. \A cell \in TotalCells(c) : [cell EXCEPT !.model = All] \in TotalCells(c)
  <2> TAKE cell \in TotalCells(c)
  <2>1. /\ cell \in [uid : {All, c.uid}, key : {All, c.key}, model : {All, c.model}]
        /\ cell.uid = All => cell.key = All
    BY DEF TotalCells, RecordCells
  <2>2. [cell EXCEPT !.model = All] = [uid |-> cell.uid, key |-> cell.key, model |-> All]
    BY <2>1
  <2>3. cell.uid \in {All, c.uid} /\ cell.key \in {All, c.key}
    BY <2>1
  <2>4. [uid |-> cell.uid, key |-> cell.key, model |-> All] \in TotalCells(c)
    BY <2>1, <2>3 DEF TotalCells, RecordCells
  <2> QED BY <2>2, <2>4
<1>8. TotalOK(new)
  BY <1>3, <1>4, <1>5, <1>6, <1>7 DEF TotalOK
<1> QED BY <1>8 DEF new

LEMMA BookRecorded ==
  ASSUME NEW now \in Nat \ {0}, NEW b, BookOK(b, now), NEW c \in Calls,
         NEW day, day = now \/ day = now - 1
  PROVE  BookOK(Recorded(b, c, day), now)
<1> DEFINE new == Recorded(b, c, day)
           tree == At(b.days, day, EmptyTree)
           bag == At(b.calls, day, NoCalls)
           bumped == Bump(tree, RecordCells(c), Once(c))
           days == Put(b.days, day, bumped)
           kept == KeptDays(DOMAIN days, day)
<1>1. /\ new.days = Keep(days, kept)
      /\ new.calls = Put(b.calls, day, AddCall(bag, c))
      /\ new.ever = AddCall(b.ever, c)
  BY DEF Recorded
<1>2. c \in KnownCalls /\ c.uid # Nil /\ c.key # Nil
  BY CallIsKnown, RecordsAssumption
<1>3. /\ DOMAIN b.days \subseteq DOMAIN b.calls /\ DOMAIN b.calls \subseteq Nat
      /\ CallBag(b.ever) /\ \A d \in DOMAIN b.calls : CallBag(b.calls[d])
      /\ \A d \in DOMAIN b.calls : d > now - KeepDays => DayOK(b, d)
      /\ BagsOK(b) /\ TotalOK(b)
  BY DEF BookOK, BagsOK
<1>4. day \in Nat
  OBVIOUS
<1>5. ~NoAccounts(new.ever)
  <2>1. c \in DOMAIN AddCall(b.ever, c)
    BY AddCallDomain
  <2> HIDE DEF new
  <2> QED BY <1>1, <1>2, <2>1 DEF NoAccounts
<1>6. /\ DOMAIN days = DOMAIN b.days \cup {day}
      /\ days[day] = bumped
      /\ \A x \in DOMAIN b.days \ {day} : days[x] = b.days[x]
  <2> HIDE DEF bumped
  <2>1. DOMAIN days = DOMAIN b.days \cup {day}
    BY PutDomain
  <2>2. days[day] = bumped
    BY PutThere
  <2>3. \A x \in DOMAIN b.days \ {day} : days[x] = b.days[x]
    BY PutElsewhere
  <2> QED BY <2>1, <2>2, <2>3
<1>7. ASSUME day > now - KeepDays
      PROVE  DOMAIN bumped \subseteq Cells /\ Fits(bumped, AddCall(bag, c), Cells)
  <2>1. DOMAIN tree \subseteq Cells /\ CallBag(bag) /\ Fits(tree, bag, Cells)
    <3>1. CASE day \in DOMAIN b.calls
      <4>1. DayOK(b, day)
        BY <1>3, <1>7, <3>1
      <4>2. tree = b.days[day] /\ bag = b.calls[day]
        BY <3>1, <4>1 DEF At, DayOK
      <4> HIDE DEF tree, bag
      <4> QED BY <1>3, <3>1, <4>1, <4>2 DEF DayOK
    <3>2. CASE day \notin DOMAIN b.calls
      <4>1. tree = EmptyTree /\ bag = NoCalls
        BY <1>3, <3>2 DEF At
      <4>2. DOMAIN EmptyTree = {}
        BY DEF EmptyTree
      <4> HIDE DEF tree, bag
      <4> QED BY <4>1, <4>2, FitsNothing
    <3> QED BY <3>1, <3>2
  <2> HIDE DEF tree, bag
  <2>2. \A cell \in Cells : cell \in RecordCells(c) <=> Covers(cell, c)
    BY <1>2, RecordCellsCover
  <2>3. Fits(bumped, AddCall(bag, c), Cells)
    BY <1>2, <2>1, <2>2, FitsAddCall
  <2>4. DOMAIN bumped = DOMAIN tree \cup RecordCells(c)
    BY BumpDomain
  <2> HIDE DEF bumped
  <2> QED BY <1>2, <2>1, <2>3, <2>4, RecordCellsAre
<1> HIDE DEF new, tree, bag, bumped, days
<1>8. /\ DOMAIN new.calls = DOMAIN b.calls \cup {day}
      /\ new.calls[day] = AddCall(bag, c)
      /\ \A d \in DOMAIN b.calls \ {day} : new.calls[d] = b.calls[d]
  <2>1. DOMAIN new.calls = DOMAIN b.calls \cup {day}
    <3>1. DOMAIN Put(b.calls, day, AddCall(bag, c)) = DOMAIN b.calls \cup {day}
      BY PutDomain
    <3> QED BY <1>1, <3>1
  <2>2. new.calls[day] = AddCall(bag, c)
    BY <1>1, PutThere
  <2>3. \A d \in DOMAIN b.calls \ {day} : new.calls[d] = b.calls[d]
    BY <1>1, PutElsewhere
  <2> QED BY <2>1, <2>2, <2>3
<1>9. ASSUME NEW d \in DOMAIN new.calls, d > now - KeepDays PROVE DayOK(new, d)
  <2>1. d \in Nat
    BY <1>3, <1>4, <1>8
  <2>2. d \in DOMAIN days
    <3>1. CASE d = day
      BY <1>6, <3>1
    <3>2. CASE d # day
      BY <1>3, <1>6, <1>8, <1>9, <3>2 DEF DayOK
    <3> QED BY <3>1, <3>2
  <2>3. d \in kept
    BY <1>9, <2>1, <2>2, KeptDaysKeep
  <2> HIDE DEF kept
  <2>4. d \in DOMAIN new.days /\ new.days[d] = days[d]
    BY <1>1, <2>2, <2>3 DEF Keep
  <2>5. CASE d = day
    BY <1>6, <1>7, <1>8, <1>9, <2>4, <2>5 DEF DayOK
  <2>6. CASE d # day
    <3>1. DayOK(b, d) /\ new.calls[d] = b.calls[d]
      BY <1>3, <1>8, <1>9, <2>6
    <3>2. new.days[d] = b.days[d]
      BY <1>6, <2>4, <2>6, <3>1 DEF DayOK
    <3> QED BY <2>4, <3>1, <3>2 DEF DayOK
  <2> QED BY <2>5, <2>6
<1>10. BagsOK(new) /\ TotalOK(new)
  BY <1>3, <1>4, BagsRecorded, TotalRecorded DEF new
<1>11. BookOK(new, now)
  BY <1>5, <1>9, <1>10 DEF BookOK
<1> QED BY <1>11 DEF new

(* The history of before, as it is read.                                   *)
LEMMA SiteCellsCover ==
  ASSUME NEW c \in Legacy, NEW cell \in Cells
  PROVE  cell \in SiteCells(c) <=> Covers(cell, c)
<1>1. c \in KnownCalls /\ c.uid = Nil
  BY OldIsKnown
<1>2. Covers(cell, c) => cell.uid = All
  BY <1>1, CellIs DEF Covers
<1> QED BY <1>1, <1>2, RecordCellsCover DEF SiteCells

LEMMA SiteCellsAre ==
  ASSUME NEW c \in Legacy
  PROVE  SiteCells(c) \subseteq Cells /\ \A cell \in SiteCells(c) : cell.uid = All /\ cell.key = All
<1>1. c.model \in CellModels /\ All \in CellModels
  BY OldIsKnown, KnownIs, NamesAre
<1> SUFFICES ASSUME NEW cell \in SiteCells(c)
             PROVE  cell \in Cells /\ cell.uid = All /\ cell.key = All
  OBVIOUS
<1>2. /\ cell \in [uid : {All, c.uid}, key : {All, c.key}, model : {All, c.model}]
      /\ cell.uid = All /\ cell.key = All
  BY DEF SiteCells, RecordCells
<1>3. cell \in [uid : CellUids, key : CellKeys, model : CellModels]
  BY <1>1, <1>2, NamesAre
<1> QED BY <1>2, <1>3 DEF Cells

LEMMA LegacyBag ==
  /\ CallBag(LegacyCalls) /\ NoAccounts(LegacyCalls)
  /\ DOMAIN LegacyCalls = Legacy
<1>1. DOMAIN LegacyCalls = Legacy /\ LegacyCalls \in [Legacy -> Nat]
  BY DEF LegacyCalls
<1>2. IsFiniteSet(Legacy) /\ Legacy \subseteq KnownCalls /\ \A c \in Legacy : c.uid = Nil
  BY RecordsAssumption, OldIsKnown
<1> QED BY <1>1, <1>2 DEF CallBag, NoAccounts

LEMMA CountedIs ==
  ASSUME NEW B, NEW cell \in Cells
  PROVE  /\ InScope(B, cell.uid, cell.key, cell.model) = Scope(B, cell)
         /\ Counted(B, cell.uid, cell.key, cell.model) = Count(B, Scope(B, cell))
BY DEF InScope, Scope, Covers, Counted, Count, Errors

LEMMA LegacyFits ==
  ASSUME NEW tops \in {Cells, Sums}, NEW cells, cells \subseteq Cells,
         \A cell \in cells : cell.uid = All /\ cell.key = All,
         \A cell \in tops : cell \in cells <=> \E c \in Legacy : Covers(cell, c)
  PROVE  Fits(LegacyTree(cells), LegacyCalls, tops) /\ DOMAIN LegacyTree(cells) = cells
<1> DEFINE tree == LegacyTree(cells)
<1>1. tree = [cell \in cells |-> Counted(LegacyCalls, All, All, cell.model)]
  BY DEF LegacyTree
<1> HIDE DEF tree
<1>2. DOMAIN tree = cells
  BY <1>1
<1>3. ASSUME NEW cell \in tops
      PROVE  /\ cell \in DOMAIN tree <=> Scope(LegacyCalls, cell) # {}
             /\ CellOf(tree, cell) = Count(LegacyCalls, Scope(LegacyCalls, cell))
  <2>1. cell \in Cells
    BY DEF Sums
  <2>2. Scope(LegacyCalls, cell) = {c \in Legacy : Covers(cell, c)}
    BY LegacyBag DEF Scope
  <2>3. cell \in cells <=> Scope(LegacyCalls, cell) # {}
    BY <2>2
  <2>4. CASE cell \in cells
    <3>1. cell.uid = All /\ cell.key = All
      BY <2>4
    <3>2. tree[cell] = Counted(LegacyCalls, All, All, cell.model)
      BY <1>1, <2>4
    <3>3. Counted(LegacyCalls, cell.uid, cell.key, cell.model)
            = Count(LegacyCalls, Scope(LegacyCalls, cell))
      BY <2>1, CountedIs
    <3>4. CellOf(tree, cell) = Count(LegacyCalls, Scope(LegacyCalls, cell))
      BY <1>2, <2>4, <3>1, <3>2, <3>3 DEF CellOf
    <3> QED BY <1>2, <2>3, <3>4
  <2>5. CASE cell \notin cells
    <3>1. CellOf(tree, cell) = Zero
      BY <1>2, <2>5 DEF CellOf
    <3>2. Scope(LegacyCalls, cell) = {}
      BY <2>3, <2>5
    <3> QED BY <1>2, <2>3, <3>1, <3>2, CountNothing
  <2> QED BY <2>4, <2>5
<1>4. Fits(tree, LegacyCalls, tops)
  BY <1>3 DEF Fits
<1> QED BY <1>2, <1>4 DEF tree

LEMMA LegacyBookOK ==
  ASSUME NEW now PROVE BookOK(LegacyBook, now)
<1> DEFINE cells == UNION {SiteCells(c) : c \in Legacy}
           sums == UNION {SiteCells(c) \cap TotalCells(c) : c \in Legacy}
<1>1. /\ DOMAIN LegacyBook.days = {1} /\ LegacyBook.days[1] = LegacyTree(cells)
      /\ LegacyBook.total = LegacyTree(sums)
      /\ DOMAIN LegacyBook.calls = {1} /\ LegacyBook.calls[1] = LegacyCalls
      /\ LegacyBook.ever = LegacyCalls
  BY DEF LegacyBook
<1>2. \A cell : /\ cell \in cells <=> \E c \in Legacy : cell \in SiteCells(c)
                /\ cell \in sums <=> \E c \in Legacy : cell \in SiteCells(c) /\ cell \in TotalCells(c)
  OBVIOUS
<1> HIDE DEF cells, sums
<1>3. cells \subseteq Cells /\ \A cell \in cells : cell.uid = All /\ cell.key = All
  BY <1>2, SiteCellsAre
<1>4. sums \subseteq Sums /\ \A cell \in sums : cell.uid = All /\ cell.key = All
  <2> SUFFICES ASSUME NEW cell \in sums
               PROVE  cell \in Sums /\ cell.uid = All /\ cell.key = All
    OBVIOUS
  <2>1. PICK c \in Legacy : cell \in SiteCells(c) /\ cell \in TotalCells(c)
    BY <1>2
  <2>2. cell \in Cells /\ cell.uid = All /\ cell.key = All
    BY <2>1, SiteCellsAre
  <2> QED BY <2>1, <2>2 DEF TotalCells, Sums
<1>5. Fits(LegacyTree(cells), LegacyCalls, Cells) /\ DOMAIN LegacyTree(cells) = cells
  <2>1. \A cell \in Cells : cell \in cells <=> \E c \in Legacy : Covers(cell, c)
    BY <1>2, SiteCellsCover
  <2> QED BY <1>3, <2>1, LegacyFits
<1>6. Fits(LegacyTree(sums), LegacyCalls, Sums) /\ DOMAIN LegacyTree(sums) = sums
  <2>1. ASSUME NEW cell \in Sums PROVE cell \in sums <=> \E c \in Legacy : Covers(cell, c)
    <3>1. cell \in Cells
      BY DEF Sums
    <3>2. \A c \in Legacy : cell \in TotalCells(c) <=> Covers(cell, c)
      BY OldIsKnown, TotalCellsCover
    <3>3. \A c \in Legacy : cell \in SiteCells(c) <=> Covers(cell, c)
      BY <3>1, SiteCellsCover
    <3> QED BY <1>2, <3>2, <3>3
  <2>2. sums \subseteq Cells
    BY <1>4 DEF Sums
  <2> QED BY <1>4, <2>1, <2>2, LegacyFits
<1>7. DayOK(LegacyBook, 1)
  BY <1>1, <1>3, <1>5 DEF DayOK
<1>8. TotalOK(LegacyBook)
  <2>1. \A cell \in sums : cell \in Cells /\ [cell EXCEPT !.model = All] = cell
    <3> TAKE cell \in sums
    <3>1. cell \in Cells /\ cell.model = All
      BY <1>4 DEF Sums
    <3>2. [cell EXCEPT !.model = All] = cell
      BY <3>1 DEF Cells
    <3> QED BY <3>1, <3>2
  <2> QED BY <1>1, <1>6, <2>1 DEF TotalOK
<1>9. BagsOK(LegacyBook)
  BY <1>1, LegacyBag DEF BagsOK
<1> QED BY <1>1, <1>7, <1>8, <1>9 DEF BookOK

(* The backfill: a book of no account at all becomes one of its account.   *)
LEMMA TotalOfSite ==
  ASSUME NEW b, BagsOK(b), TotalOK(b), ~HasAccounts(b.total) PROVE NoAccounts(b.ever)
<1> SUFFICES ASSUME NEW c \in DOMAIN b.ever, c.uid # Nil PROVE FALSE
  BY DEF NoAccounts
<1>1. c \in KnownCalls /\ c.uid \in CellUids \ {All}
  BY KnownIs DEF BagsOK, CallBag
<1> DEFINE cell == [uid |-> c.uid, key |-> All, model |-> All]
<1>2. cell \in Sums /\ cell.uid = c.uid
  BY <1>1, NamesAre, IsCell DEF Sums
<1>3. c \in Scope(b.ever, cell)
  BY DEF Scope, Covers
<1> HIDE DEF cell
<1>4. cell \in DOMAIN b.total
  BY <1>2, <1>3 DEF TotalOK, Fits
<1> QED BY <1>1, <1>2, <1>4 DEF HasAccounts

LEMMA DayOfSite ==
  ASSUME NEW b, BagsOK(b), NoAccounts(b.ever), NEW d \in DOMAIN b.calls, DayOK(b, d)
  PROVE  NoAccounts(b.calls[d]) /\ ~HasAccounts(b.days[d])
<1>1. NoAccounts(b.calls[d]) /\ CallBag(b.calls[d])
  BY DEF BagsOK, NoAccounts
<1>2. \A cell \in DOMAIN b.days[d] : cell.uid = All
  BY <1>1, ScopeOfSite DEF DayOK, Fits
<1> QED BY <1>1, <1>2 DEF HasAccounts

LEMMA BookBackfilled ==
  ASSUME NEW now, NEW b, BookOK(b, now), NEW uids \in Boots, uids # {},
         ~HasAccounts(b.total)
  PROVE  BookOK(Backfilled(b, uids), now)
<1> DEFINE new == Backfilled(b, uids)
           u == CHOOSE x \in uids : TRUE
<1>1. u \in CellUids \ {All}
  BY RecordsAssumption DEF CellUids
<1>2. /\ BagsOK(b) /\ TotalOK(b) /\ NoAccounts(b.ever)
      /\ CallBag(b.ever) /\ DOMAIN b.calls \subseteq Nat
      /\ DOMAIN b.days \subseteq DOMAIN b.calls
  BY TotalOfSite DEF BookOK, BagsOK
<1>3. \A d \in DOMAIN b.calls : DayOK(b, d)
  BY <1>2 DEF BookOK
<1>4. \A d \in DOMAIN b.calls : NoAccounts(b.calls[d]) /\ ~HasAccounts(b.days[d])
  BY <1>2, <1>3, DayOfSite
<1>5. DOMAIN b.days = DOMAIN b.calls
  BY <1>2, <1>3 DEF DayOK
<1>6. /\ new.days = [d \in DOMAIN b.days |->
            IF ~HasAccounts(b.days[d]) THEN Attributed(b.days[d], u) ELSE b.days[d]]
      /\ new.calls = [d \in DOMAIN b.calls |->
            IF ~HasAccounts(b.days[d]) THEN Relabelled(b.calls[d], u) ELSE b.calls[d]]
      /\ new.total = Attributed(b.total, u) /\ new.ever = Relabelled(b.ever, u)
  BY DEF Backfilled
<1> HIDE DEF new, u
<1>7. /\ DOMAIN new.days = DOMAIN b.calls /\ DOMAIN new.calls = DOMAIN b.calls
      /\ \A d \in DOMAIN b.calls : /\ new.days[d] = Attributed(b.days[d], u)
                                   /\ new.calls[d] = Relabelled(b.calls[d], u)
  BY <1>4, <1>5, <1>6
<1>8. ASSUME NEW d \in DOMAIN b.calls PROVE DayOK(new, d)
  <2>1. DOMAIN b.days[d] \subseteq Cells /\ Fits(b.days[d], b.calls[d], Cells)
    BY <1>3 DEF DayOK
  <2>2. CallBag(b.calls[d])
    BY <1>2 DEF BagsOK
  <2>3. Fits(Attributed(b.days[d], u), Relabelled(b.calls[d], u), Cells)
    BY <1>1, <1>4, <2>1, <2>2, FitsRelabelled
  <2>4. DOMAIN Attributed(b.days[d], u) \subseteq Cells
    BY <1>1, <1>4, <2>1, AttributedCells
  <2> QED BY <1>7, <2>3, <2>4 DEF DayOK
<1>9. TotalOK(new)
  <2>1. /\ Fits(b.total, b.ever, Sums)
        /\ \A cell \in DOMAIN b.total :
             cell \in Cells /\ [cell EXCEPT !.model = All] \in DOMAIN b.total
    BY <1>2 DEF TotalOK
  <2>2. DOMAIN b.total \subseteq Cells
    BY <2>1
  <2>3. Fits(new.total, new.ever, Sums)
    BY <1>1, <1>2, <1>6, <2>1, <2>2, FitsRelabelled
  <2>4. DOMAIN new.total \subseteq Cells
    <3>1. ~HasAccounts(b.total)
      OBVIOUS
    <3>2. DOMAIN Attributed(b.total, u) \subseteq Cells
      BY <1>1, <2>2, <3>1, AttributedCells
    <3> QED BY <1>6, <3>2
  <2>5. ASSUME NEW cell \in DOMAIN new.total PROVE [cell EXCEPT !.model = All] \in DOMAIN new.total
    <3>1. cell \in Cells /\ OfOne(cell, u) /\ SiteOf(cell) \in DOMAIN b.total
      BY <1>1, <1>6, <2>2, <2>4, AttributedIs
    <3> DEFINE top == [uid |-> cell.uid, key |-> cell.key, model |-> All]
    <3>2. [cell EXCEPT !.model = All] = top
      BY <3>1 DEF Cells
    <3>3. top \in Cells /\ OfOne(top, u)
      BY <3>1, CellIs, NamesAre, IsCell DEF OfOne
    <3>4. SiteOf(top) = [SiteOf(cell) EXCEPT !.model = All]
      BY DEF SiteOf
    <3>5. SiteOf(top) \in DOMAIN b.total
      BY <2>1, <3>1, <3>4
    <3> HIDE DEF top
    <3>6. top \in DOMAIN new.total
      BY <1>1, <1>6, <2>2, <3>3, <3>5, AttributedIs
    <3> QED BY <3>2, <3>6
  <2> QED BY <2>3, <2>4, <2>5 DEF TotalOK
<1>10. BagsOK(new)
  <2>1. \A d \in DOMAIN b.calls : CallBag(b.calls[d]) /\ DOMAIN b.calls[d] \subseteq DOMAIN b.ever
    BY <1>2 DEF BagsOK
  <2> DEFINE given(S) == {[x EXCEPT !.uid = u] : x \in S}
  <2>2. \A S, T : S \subseteq T => given(S) \subseteq given(T)
    OBVIOUS
  <2>3. \A B : DOMAIN Relabelled(B, u) = given(DOMAIN B)
    BY DEF Relabelled
  <2> HIDE DEF given
  <2>4. \A B : CallBag(B) /\ NoAccounts(B) => CallBag(Relabelled(B, u))
    BY <1>1, RelabelledIs
  <2>5. CallBag(new.ever)
    BY <1>2, <1>6, <2>4
  <2>6. ASSUME NEW d \in DOMAIN b.calls
        PROVE  CallBag(new.calls[d]) /\ DOMAIN new.calls[d] \subseteq DOMAIN new.ever
    <3>1. CallBag(Relabelled(b.calls[d], u))
      BY <1>4, <2>1, <2>4
    <3>2. given(DOMAIN b.calls[d]) \subseteq given(DOMAIN b.ever)
      BY <2>1, <2>2
    <3>3. DOMAIN Relabelled(b.calls[d], u) \subseteq DOMAIN Relabelled(b.ever, u)
      BY <2>3, <3>2
    <3> QED BY <1>6, <1>7, <3>1, <3>3
  <2> QED BY <1>2, <1>7, <2>5, <2>6 DEF BagsOK
<1>11. BookOK(new, now)
  BY <1>7, <1>8, <1>9, <1>10 DEF BookOK
<1> QED BY <1>11 DEF new

-----------------------------------------------------------------------------
(* The views: a counter of the tree, or a key's counters of all accounts.  *)
Counters == [requests : Nat, errors : Nat]

LEMMA CountUnion ==
  ASSUME NEW B, CallBag(B), NEW S \in SUBSET DOMAIN B, NEW T \in SUBSET DOMAIN B,
         S \cap T = {}
  PROVE  Count(B, S \cup T) = Plus(Count(B, S), Count(B, T))
<1>1. /\ IsFiniteSet(S) /\ IsFiniteSet(T) /\ \A c \in S \cup T : B[c] \in Nat
      /\ IsFiniteSet(Errors(S)) /\ IsFiniteSet(Errors(T))
  BY ScopeIs, FS_Subset
<1>2. /\ Errors(S \cup T) = Errors(S) \cup Errors(T) /\ Errors(S) \cap Errors(T) = {}
      /\ Errors(S) \subseteq S /\ Errors(T) \subseteq T
  BY DEF Errors
<1>3. Total(B, S \cup T) = Total(B, S) + Total(B, T)
  BY <1>1, TotalUnion
<1>4. Total(B, Errors(S) \cup Errors(T)) = Total(B, Errors(S)) + Total(B, Errors(T))
  BY <1>1, <1>2, TotalUnion
<1> QED BY <1>2, <1>3, <1>4 DEF Count, Plus

LEMMA CountIn ==
  ASSUME NEW B, CallBag(B), NEW S \in SUBSET DOMAIN B
  PROVE  Count(B, S) \in Counters
<1>1. Errors(S) \in SUBSET DOMAIN B
  BY DEF Errors
<1>2. Total(B, S) \in Nat /\ Total(B, Errors(S)) \in Nat
  BY <1>1, ScopeIs
<1> QED BY <1>2 DEF Count, Counters

(* A merge over a finite set of scopes exists.                             *)
Merges(h, val, S) ==
  h = [T \in SUBSET S |-> IF T = {} THEN Zero ELSE Plus(h[T \ {AnyOf(T)}], val[AnyOf(T)])]

LEMMA MergesExists ==
  ASSUME NEW S, IsFiniteSet(S), NEW val, \A u \in S : val[u] \in Counters
  PROVE  \E h : Merges(h, val, S)
<1> DEFINE pick == [T \in SUBSET S |-> AnyOf(T)]
           step == [u \in S |-> [a \in Counters |-> Plus(a, val[u])]]
<1>1. Picks(pick, S)
  BY PickIs DEF Picks
<1>2. \A u \in S : \A a \in Counters : step[u][a] = Plus(a, val[u]) /\ Plus(a, val[u]) \in Counters
  BY DEF Plus, Counters
<1>3. Steps(step, S, Counters)
  BY <1>2 DEF Steps
<1>4. \A T \in SUBSET S : pick[T] = AnyOf(T)
  OBVIOUS
<1>5. Zero \in Counters
  BY DEF Zero, Counters
<1> HIDE DEF pick, step
<1>6. PICK h \in [SUBSET S -> Counters] : Recursive(h, S, Zero, pick, step)
  BY <1>1, <1>3, <1>5, Recursion
<1>7. ASSUME NEW T \in SUBSET S
      PROVE  h[T] = IF T = {} THEN Zero ELSE Plus(h[T \ {AnyOf(T)}], val[AnyOf(T)])
  <2>1. h[T] = IF T = {} THEN Zero ELSE step[AnyOf(T)][h[T \ {AnyOf(T)}]]
    BY <1>4, <1>6 DEF Recursive
  <2>2. CASE T # {}
    <3>1. AnyOf(T) \in S /\ T \ {AnyOf(T)} \in SUBSET S
      BY <2>2, PickIs
    <3>2. h[T \ {AnyOf(T)}] \in Counters
      BY <3>1
    <3> QED BY <1>2, <2>1, <2>2, <3>1, <3>2
  <2> QED BY <2>1, <2>2
<1>8. Merges(h, val, S)
  BY <1>7 DEF Merges
<1> QED BY <1>8

KeyCell(u, k, m) == [uid |-> u, key |-> k, model |-> m]
OfKey(B, U, k, m) == {c \in DOMAIN B : c.uid \in U /\ c.key = k /\ m \in {All, c.model}}

LEMMA ViewOfKey ==
  ASSUME NEW tree, NEW B, CallBag(B), NEW k \in CellKeys \ {All}, NEW m \in CellModels,
         IsFiniteSet(UidsOf(tree)),
         \A u \in UidsOf(tree) :
           CellOf(tree, KeyCell(u, k, m)) = Count(B, Scope(B, KeyCell(u, k, m)))
  PROVE  View(tree, All, k, m) = Count(B, OfKey(B, UidsOf(tree), k, m))
<1>0. ~NoEntry(UidsOf(tree), All, k) /\ k # All
  BY DEF NoEntry
<1> DEFINE S == UidsOf(tree)
           val == [u \in S |-> CellOf(tree, KeyCell(u, k, m))]
           D(h) == h = [T \in SUBSET S |-> IF T = {} THEN Zero
                          ELSE LET u == CHOOSE y \in T : TRUE
                               IN  Plus(h[T \ {u}], CellOf(tree, [uid |-> u, key |-> k, model |-> m]))]
           h == CHOOSE h : D(h)
<1>1. View(tree, All, k, m) = h[S]
  BY <1>0 DEF View, FoldSet, MapThenFoldSet
<1>2. All \notin S
  BY DEF UidsOf
<1>3. ASSUME NEW u \in S
      PROVE  /\ val[u] = Count(B, OfKey(B, {u}, k, m))
             /\ val[u] \in Counters
  <2>1. Scope(B, KeyCell(u, k, m)) = OfKey(B, {u}, k, m)
    BY <1>2 DEF Scope, Covers, OfKey, KeyCell
  <2>2. val[u] = Count(B, OfKey(B, {u}, k, m))
    BY <2>1
  <2>3. OfKey(B, {u}, k, m) \in SUBSET DOMAIN B
    BY DEF OfKey
  <2> QED BY <2>2, <2>3, CountIn
<1>4. \A u \in S : val[u] = CellOf(tree, KeyCell(u, k, m))
  OBVIOUS
<1>5. IsFiniteSet(S)
  OBVIOUS
<1> HIDE DEF val, S
<1>6. PICK j : Merges(j, val, S)
  BY <1>3, <1>5, MergesExists
<1>7. \A T \in SUBSET S : T # {} => AnyOf(T) \in S
  BY PickIs
<1>8. D(j)
  <2>1. j = [T \in SUBSET S |-> IF T = {} THEN Zero ELSE Plus(j[T \ {AnyOf(T)}], val[AnyOf(T)])]
    BY <1>6 DEF Merges
  <2>2. \A T \in SUBSET S : T # {} =>
          Plus(j[T \ {AnyOf(T)}], val[AnyOf(T)])
            = Plus(j[T \ {AnyOf(T)}], CellOf(tree, KeyCell(AnyOf(T), k, m)))
    BY <1>4, <1>7
  <2>3. j = [T \in SUBSET S |-> IF T = {} THEN Zero
               ELSE Plus(j[T \ {AnyOf(T)}], CellOf(tree, KeyCell(AnyOf(T), k, m)))]
    BY <2>1, <2>2
  <2> QED BY <2>3 DEF AnyOf, KeyCell
<1>9. D(h)
  BY <1>8
<1> HIDE DEF h
<1>10. \A T \in SUBSET S :
         h[T] = IF T = {} THEN Zero
                ELSE Plus(h[T \ {AnyOf(T)}], CellOf(tree, KeyCell(AnyOf(T), k, m)))
  BY <1>9 DEF AnyOf, KeyCell
<1> DEFINE G == {T \in SUBSET S : h[T] = Count(B, OfKey(B, T, k, m))}
<1>11. ASSUME NEW T \in SUBSET S, \A u \in T : T \ {u} \in G PROVE T \in G
  <2>1. CASE T = {}
    <3>1. OfKey(B, T, k, m) = {}
      BY <2>1 DEF OfKey
    <3> QED BY <1>10, <2>1, <3>1, CountNothing
  <2>2. CASE T # {}
    <3> DEFINE p == AnyOf(T)
               R == OfKey(B, T \ {p}, k, m)
               P == OfKey(B, {p}, k, m)
    <3>1. p \in T /\ p \in S
      BY <2>2, PickIs
    <3>2. h[T] = Plus(h[T \ {p}], CellOf(tree, KeyCell(p, k, m)))
      BY <1>10, <2>2
    <3>3. h[T \ {p}] = Count(B, R)
      BY <1>11, <3>1
    <3>4. CellOf(tree, KeyCell(p, k, m)) = Count(B, P)
      BY <1>3, <1>4, <3>1
    <3>5. OfKey(B, T, k, m) = R \cup P /\ R \cap P = {}
          /\ R \in SUBSET DOMAIN B /\ P \in SUBSET DOMAIN B
      BY <3>1 DEF OfKey
    <3> HIDE DEF p, R, P
    <3>6. Count(B, R \cup P) = Plus(Count(B, R), Count(B, P))
      BY <3>5, CountUnion
    <3>7. h[T] = Count(B, OfKey(B, T, k, m))
      BY <3>2, <3>3, <3>4, <3>5, <3>6
    <3> QED BY <3>7
  <2> QED BY <2>1, <2>2
<1> HIDE DEF G
<1>12. \A T \in SUBSET S : T \in G
  BY <1>5, <1>11, SmallerFirst
<1>13. S \in G
  BY <1>12
<1> QED BY <1>1, <1>13 DEF G, S

UidsFit(tree, B) ==
  UidsOf(tree) = {c.uid : c \in DOMAIN B} \ {Nil} /\ IsFiniteSet(UidsOf(tree))
CellsFit(tree, B, m) ==
  \A cell \in Cells : cell.model = m => CellOf(tree, cell) = Count(B, Scope(B, cell))

LEMMA UidsAre ==
  ASSUME NEW tree, NEW B, CallBag(B),
         \A cell \in DOMAIN tree : \E c \in DOMAIN B : cell.uid \in {All, c.uid},
         \A c \in DOMAIN B : c.uid # Nil => \E cell \in DOMAIN tree : cell.uid = c.uid,
         \A cell \in DOMAIN tree : cell.uid # Nil
  PROVE  UidsFit(tree, B)
<1>1. \A c \in DOMAIN B : c.uid # All
  BY KnownIs DEF CallBag
<1>2. UidsOf(tree) = {c.uid : c \in DOMAIN B} \ {Nil}
  BY <1>1 DEF UidsOf
<1>3. IsFiniteSet({c.uid : c \in DOMAIN B})
  <2> DEFINE f == [c \in DOMAIN B |-> c.uid]
             D == {c.uid : c \in DOMAIN B}
  <2>1. f \in Surjection(DOMAIN B, D)
    BY DEF Surjection
  <2>2. IsFiniteSet(DOMAIN B)
    BY DEF CallBag
  <2> HIDE DEF f, D
  <2>3. IsFiniteSet(D)
    BY <2>1, <2>2, FS_Surjection
  <2> QED BY <2>3 DEF D
<1> QED BY <1>2, <1>3, FS_Subset DEF UidsFit

LEMMA ViewCounts ==
  ASSUME NEW tree, NEW B, CallBag(B),
         NEW uid \in CellUids, NEW key \in CellKeys, NEW m \in CellModels,
         UidsFit(tree, B), CellsFit(tree, B, m), ~NoEntry(UidsOf(tree), uid, key)
  PROVE  View(tree, uid, key, m) = Counted(B, uid, key, m)
<1>0. /\ UidsOf(tree) = {c.uid : c \in DOMAIN B} \ {Nil} /\ IsFiniteSet(UidsOf(tree))
      /\ \A cell \in Cells : cell.model = m => CellOf(tree, cell) = Count(B, Scope(B, cell))
  BY DEF UidsFit, CellsFit
<1>1. CASE uid = All /\ key # All
  <2>1. UidsOf(tree) \subseteq CellUids \ {All}
    BY <1>0, KnownIs DEF CallBag
  <2>2. ASSUME NEW u \in UidsOf(tree)
        PROVE  CellOf(tree, KeyCell(u, key, m)) = Count(B, Scope(B, KeyCell(u, key, m)))
    <3>1. KeyCell(u, key, m) \in Cells /\ KeyCell(u, key, m).model = m
      BY <2>1, IsCell DEF KeyCell
    <3> QED BY <1>0, <3>1
  <2>3. View(tree, All, key, m) = Count(B, OfKey(B, UidsOf(tree), key, m))
    BY <1>0, <1>1, <2>2, ViewOfKey
  <2>4. OfKey(B, UidsOf(tree), key, m) = InScope(B, uid, key, m)
    <3>1. key # Nil
      BY NamesAre
    <3>2. \A c \in DOMAIN B : c.key = key => c.uid \in UidsOf(tree)
      BY <1>0, <3>1, KnownIs DEF CallBag
    <3>3. \A c \in DOMAIN B : key \in {All, c.key} <=> c.key = key
      BY <1>1
    <3> QED BY <1>1, <3>2, <3>3 DEF OfKey, InScope
  <2> QED BY <1>1, <2>3, <2>4 DEF Count, Counted, Errors
<1>2. CASE ~(uid = All /\ key # All)
  <2> DEFINE cell == [uid |-> uid, key |-> key, model |-> m]
  <2>1. cell \in Cells /\ cell.model = m /\ cell.uid = uid /\ cell.key = key
    BY <1>2, IsCell
  <2>2. View(tree, uid, key, m) = CellOf(tree, cell)
    BY <1>2 DEF View
  <2> HIDE DEF cell
  <2>3. Counted(B, cell.uid, cell.key, cell.model) = Count(B, Scope(B, cell))
    BY <2>1, CountedIs
  <2> QED BY <1>0, <2>1, <2>2, <2>3
<1> QED BY <1>1, <1>2

LEMMA ViewIs ==
  ASSUME NEW tree, NEW B, CallBag(B),
         NEW uid \in CellUids, NEW key \in CellKeys, NEW m \in CellModels,
         UidsFit(tree, B), CellsFit(tree, B, m)
  PROVE  View(tree, uid, key, m) = Shown(B, uid, key, m)
<1>1. uid # Nil
  BY NamesAre
<1>2. NoEntry(UidsOf(tree), uid, key) <=> NoEntry({c.uid : c \in DOMAIN B}, uid, key)
  BY <1>1 DEF NoEntry, UidsFit
<1>3. CASE NoEntry(UidsOf(tree), uid, key)
  BY <1>2, <1>3 DEF View, Shown
<1>4. CASE ~NoEntry(UidsOf(tree), uid, key)
  <2>1. View(tree, uid, key, m) = Counted(B, uid, key, m)
    BY <1>4, ViewCounts
  <2> QED BY <1>2, <1>4, <2>1 DEF Shown
<1> QED BY <1>3, <1>4

LEMMA ViewOfDay ==
  ASSUME NEW b, NEW d, CallBag(b.calls[d]), DayOK(b, d),
         NEW uid \in CellUids, NEW key \in CellKeys, NEW m \in CellModels
  PROVE  View(b.days[d], uid, key, m) = Shown(b.calls[d], uid, key, m)
<1> DEFINE tree == b.days[d]
           B == b.calls[d]
<1>1. DOMAIN tree \subseteq Cells /\ Fits(tree, B, Cells) /\ CallBag(B)
  BY DEF DayOK
<1> HIDE DEF tree, B
<1>2. \A cell \in DOMAIN tree : \E c \in DOMAIN B : cell.uid \in {All, c.uid}
  BY <1>1 DEF Fits, Scope, Covers
<1>3. ASSUME NEW c \in DOMAIN B, c.uid # Nil PROVE \E cell \in DOMAIN tree : cell.uid = c.uid
  <2> DEFINE cell == [uid |-> c.uid, key |-> All, model |-> All]
  <2>1. c.uid \in CellUids \ {All}
    BY <1>1, <1>3, KnownIs DEF CallBag
  <2>2. cell \in Cells /\ cell.uid = c.uid
    BY <2>1, NamesAre, IsCell
  <2>3. c \in Scope(B, cell)
    BY DEF Scope, Covers
  <2> HIDE DEF cell
  <2> QED BY <1>1, <2>2, <2>3 DEF Fits
<1>4. \A cell \in DOMAIN tree : cell.uid # Nil
  BY <1>1, CellIs
<1>5. UidsFit(tree, B)
  BY <1>1, <1>2, <1>3, <1>4, UidsAre
<1>6. CellsFit(tree, B, m)
  BY <1>1 DEF Fits, CellsFit
<1>7. View(tree, uid, key, m) = Shown(B, uid, key, m)
  BY <1>1, <1>5, <1>6, ViewIs
<1> QED BY <1>7 DEF tree, B

(* A cell of the total has a sum over the models, which has calls.         *)
LEMMA TotalHasCalls ==
  ASSUME NEW b, TotalOK(b), NEW cell \in DOMAIN b.total
  PROVE  \E c \in DOMAIN b.ever : cell.uid \in {All, c.uid} /\ cell.key \in {All, c.key}
<1> DEFINE top == [cell EXCEPT !.model = All]
<1>1. cell \in Cells /\ top \in DOMAIN b.total
  BY DEF TotalOK
<1>2. top = [uid |-> cell.uid, key |-> cell.key, model |-> All]
  BY <1>1 DEF Cells
<1>3. top \in Cells
  BY <1>1 DEF TotalOK
<1> HIDE DEF top
<1>4. top \in Sums
  BY <1>2, <1>3 DEF Sums
<1>5. Scope(b.ever, top) # {}
  BY <1>1, <1>4 DEF TotalOK, Fits
<1> QED BY <1>2, <1>5 DEF Scope, Covers

LEMMA CallHasTotals ==
  ASSUME NEW b, TotalOK(b), CallBag(b.ever), NEW c \in DOMAIN b.ever, c.uid # Nil
  PROVE  /\ [uid |-> c.uid, key |-> All, model |-> All] \in DOMAIN b.total
         /\ c.key # Nil => [uid |-> c.uid, key |-> c.key, model |-> All] \in DOMAIN b.total
<1>1. /\ c.uid \in CellUids \ {All} /\ c.key \in (CellKeys \ {All}) \cup {Nil}
  BY KnownIs DEF CallBag
<1>2. ASSUME NEW k \in CellKeys, k \in {All, c.key}
      PROVE  [uid |-> c.uid, key |-> k, model |-> All] \in DOMAIN b.total
  <2> DEFINE cell == [uid |-> c.uid, key |-> k, model |-> All]
  <2>1. cell \in Sums
    BY <1>1, NamesAre, IsCell DEF Sums
  <2>2. c \in Scope(b.ever, cell)
    BY <1>2 DEF Scope, Covers
  <2> HIDE DEF cell
  <2>3. cell \in DOMAIN b.total
    BY <2>1, <2>2 DEF TotalOK, Fits
  <2> QED BY <2>3 DEF cell
<1> QED BY <1>1, <1>2, NamesAre

LEMMA ViewOfTotal ==
  ASSUME NEW b, TotalOK(b), CallBag(b.ever), NEW uid \in CellUids, NEW key \in CellKeys
  PROVE  View(b.total, uid, key, All) = Shown(b.ever, uid, key, All)
<1> DEFINE tree == b.total
           B == b.ever
<1>1. \A cell \in DOMAIN tree : \E c \in DOMAIN B : cell.uid \in {All, c.uid}
  BY TotalHasCalls
<1>2. \A c \in DOMAIN B : c.uid # Nil => \E cell \in DOMAIN tree : cell.uid = c.uid
  <2> TAKE c \in DOMAIN B
  <2> HAVE c.uid # Nil
  <2>1. [uid |-> c.uid, key |-> All, model |-> All] \in DOMAIN tree
    BY CallHasTotals
  <2> QED BY <2>1
<1>3. \A cell \in DOMAIN tree : cell.uid # Nil
  BY CellIs DEF TotalOK
<1>4. CallBag(B)
  OBVIOUS
<1>5. CellsFit(tree, B, All)
  BY DEF TotalOK, Fits, Sums, CellsFit
<1> HIDE DEF tree, B
<1>6. UidsFit(tree, B)
  BY <1>1, <1>2, <1>3, <1>4, UidsAre
<1>7. View(tree, uid, key, All) = Shown(B, uid, key, All)
  BY <1>4, <1>5, <1>6, NamesAre, ViewIs
<1> QED BY <1>7 DEF tree, B

LEMMA KeysOfTotal ==
  ASSUME NEW b, TotalOK(b), CallBag(b.ever), NEW uid \in CellUids
  PROVE  DOMAIN KeyAggs(b.total, uid)
           = {c.key : c \in {x \in DOMAIN b.ever : uid \in {All, x.uid}}} \ {Nil}
<1> DEFINE seen == {cell.key : cell \in {x \in DOMAIN b.total : uid \in {All, x.uid}}} \ {All}
           keys == {c.key : c \in {x \in DOMAIN b.ever : uid \in {All, x.uid}}} \ {Nil}
<1>1. DOMAIN KeyAggs(b.total, uid) = seen
  BY DEF KeyAggs
<1>2. ASSUME NEW k \in seen PROVE k \in keys
  <2>1. PICK cell \in DOMAIN b.total : uid \in {All, cell.uid} /\ cell.key = k /\ k # All
    BY <1>2
  <2>2. PICK c \in DOMAIN b.ever : cell.uid \in {All, c.uid} /\ cell.key \in {All, c.key}
    BY TotalHasCalls
  <2>3. cell.uid # All /\ k # Nil
    BY <2>1, CellIs DEF TotalOK
  <2>4. uid \in {All, c.uid} /\ c.key = k
    BY <2>1, <2>2, <2>3
  <2> QED BY <2>3, <2>4
<1>3. ASSUME NEW k \in keys PROVE k \in seen
  <2>1. PICK c \in DOMAIN b.ever : uid \in {All, c.uid} /\ c.key = k /\ k # Nil
    BY <1>3
  <2>2. c.uid # Nil /\ k # All
    BY <2>1, KnownIs DEF CallBag
  <2> DEFINE cell == [uid |-> c.uid, key |-> c.key, model |-> All]
  <2>3. cell \in DOMAIN b.total
    BY <2>1, <2>2, CallHasTotals
  <2>4. cell.uid = c.uid /\ cell.key = k
    BY <2>1
  <2> HIDE DEF cell
  <2> QED BY <2>1, <2>2, <2>3, <2>4
<1> HIDE DEF seen, keys
<1>4. seen = keys
  BY <1>2, <1>3
<1> QED BY <1>1, <1>4 DEF keys

LEMMA ScopesAre ==
  ScopeUids \subseteq CellUids /\ ScopeKeys \subseteq CellKeys /\ ScopeModels \subseteq CellModels
BY DEF ScopeUids, ScopeKeys, ScopeModels, CellUids, CellKeys, CellModels

LEMMA ViewsOK ==
  ASSUME BookOK(book, today) PROVE ViewsCountCalls
<1>1. TotalOK(book) /\ CallBag(book.ever)
  BY DEF BookOK, BagsOK
<1>2. ASSUME NEW d \in DOMAIN book.calls, d > today - KeepDays,
             NEW uid \in ScopeUids, NEW key \in ScopeKeys, NEW m \in ScopeModels
      PROVE  DayView(book, d, uid, key, m) = Shown(book.calls[d], uid, key, m)
  <2>1. DayOK(book, d) /\ CallBag(book.calls[d])
    BY <1>2 DEF BookOK, BagsOK
  <2>2. DayView(book, d, uid, key, m) = View(book.days[d], uid, key, m)
    BY <2>1 DEF DayView, DayOK
  <2>3. uid \in CellUids /\ key \in CellKeys /\ m \in CellModels
    BY ScopesAre
  <2>4. View(book.days[d], uid, key, m) = Shown(book.calls[d], uid, key, m)
    BY <2>1, <2>3, ViewOfDay
  <2> QED BY <2>2, <2>4
<1>3. ASSUME NEW uid \in ScopeUids, NEW key \in ScopeKeys
      PROVE  View(book.total, uid, key, All) = Shown(book.ever, uid, key, All)
  BY <1>1, ScopesAre, ViewOfTotal
<1>4. ASSUME NEW uid \in ScopeUids
      PROVE  DOMAIN KeyAggs(book.total, uid) =
               {c.key : c \in {x \in DOMAIN book.ever : uid \in {All, x.uid}}} \ {Nil}
  BY <1>1, ScopesAre, KeysOfTotal
<1> QED BY <1>2, <1>3, <1>4 DEF ViewsCountCalls

-----------------------------------------------------------------------------
(* Every step keeps the books.                                             *)
LEMMA BooksInit ==
  ASSUME RecInit PROVE BooksInv
<1>1. today = KeepDays /\ doing = [w \in Workers |-> Nil] /\ book = EmptyBook
  BY DEF RecInit
<1>2. PICK old \in {Unreadable, {LegacyBook}} :
        file = [s \in Stores |-> IF s = "stats" THEN old ELSE Unreadable]
  BY DEF RecInit
<1>3. DOMAIN file = Stores /\ file["stats"] = old
  BY <1>2, StoresAre
<1>4. Read("stats") = EmptyBook \/ Read("stats") = LegacyBook
  BY <1>3 DEF Read, Unreadable
<1>5. BookOK(Read("stats"), today) /\ BookOK(book, today)
  BY <1>1, <1>4, EmptyBookOK, LegacyBookOK
<1>6. \A w \in Workers : DoingOK(w)
  BY <1>1 DEF DoingOK
<1>7. today \in Nat \ {0}
  BY <1>1, RecordsAssumption
<1> QED BY <1>1, <1>3, <1>5, <1>6, <1>7 DEF BooksInv

(* A step that leaves the day and what the workers do.                     *)
LEMMA BooksStay ==
  ASSUME BooksInv, UNCHANGED <<today, doing>>, DOMAIN file' = Stores,
         BookOK(book, today)', BookOK(Read("stats"), today)'
  PROVE  BooksInv'
<1>1. \A w \in Workers : DoingOK(w)'
  BY DEF BooksInv, DoingOK
<1> QED BY <1>1 DEF BooksInv

LEMMA ReadSame ==
  ASSUME file'["stats"] = file["stats"] PROVE Read("stats")' = Read("stats")
BY DEF Read

LEMMA ReadTorn ==
  ASSUME file'["stats"] = Unreadable PROVE Read("stats")' = EmptyBook
BY DEF Read

LEMMA ReadBack ==
  ASSUME NEW content, file'["stats"] = {content} PROVE Read("stats")' = content
BY DEF Read, Unreadable

LEMMA BooksBoot ==
  ASSUME BooksInv, NEW uids \in Boots, Boot(uids) PROVE BooksInv'
<1> DEFINE old == Read("stats")
           only == Cardinality(uids) = 1
           fill == only /\ NeedsBackfill(old, uids)
<1>1. /\ book' = IF fill THEN Backfilled(old, uids) ELSE IF only THEN old ELSE book
      /\ file' = IF fill THEN [file EXCEPT !["stats"] = {book'}] ELSE file
      /\ UNCHANGED <<today, doing>>
  BY DEF Boot
<1>2. BookOK(old, today) /\ BookOK(book, today) /\ DOMAIN file = Stores
  BY DEF BooksInv
<1>3. CASE fill
  <2>1. uids # {} /\ ~HasAccounts(old.total)
    BY <1>3, FS_EmptySet DEF NeedsBackfill
  <2>2. BookOK(Backfilled(old, uids), today)
    BY <1>2, <2>1, BookBackfilled
  <2>3. book' = Backfilled(old, uids) /\ file' = [file EXCEPT !["stats"] = {book'}]
    BY <1>1, <1>3
  <2>4. DOMAIN file' = Stores /\ file'["stats"] = {book'}
    BY <1>2, <2>3, StoresAre
  <2>5. Read("stats")' = book'
    BY <2>4 DEF Read, Unreadable
  <2>6. BookOK(book', today')
    BY <1>1, <2>2, <2>3
  <2>7. BookOK(Read("stats")', today')
    BY <2>5, <2>6
  <2> QED BY <1>1, <2>4, <2>6, <2>7, BooksStay
<1>4. CASE ~fill
  <2>1. file' = file /\ (book' = old \/ book' = book)
    BY <1>1, <1>4
  <2>2. Read("stats")' = old
    BY <2>1 DEF Read
  <2> HIDE DEF old
  <2>3. BookOK(book', today') /\ BookOK(Read("stats")', today')
    BY <1>1, <1>2, <2>1, <2>2
  <2> QED BY <1>1, <1>2, <2>1, <2>3, BooksStay
<1> QED BY <1>3, <1>4

LEMMA BooksRestart ==
  ASSUME BooksInv, Restart PROVE BooksInv'
<1>1. PICK cut : file' = [s \in Stores |-> IF s \in cut THEN Unreadable ELSE file[s]]
  BY DEF Restart
<1>2. doing' = [w \in Workers |-> Nil] /\ book' = EmptyBook /\ today' = today
  BY DEF Restart
<1>3. DOMAIN file' = Stores /\ (file'["stats"] = Unreadable \/ file'["stats"] = file["stats"])
  BY <1>1, StoresAre
<1>4. Read("stats")' = EmptyBook \/ Read("stats")' = Read("stats")
  BY <1>3, ReadSame, ReadTorn
<1>5. BookOK(book', today') /\ BookOK(Read("stats")', today')
  BY <1>2, <1>4, EmptyBookOK DEF BooksInv
<1>6. DOMAIN doing' = Workers /\ \A w \in Workers : DoingOK(w)'
  BY <1>2 DEF DoingOK
<1> QED BY <1>2, <1>3, <1>5, <1>6 DEF BooksInv

LEMMA BooksRecordLog ==
  ASSUME BooksInv, NEW w \in Workers, NEW c \in Calls, RecordLog(w, c) PROVE BooksInv'
<1>1. /\ doing' = [doing EXCEPT ![w] = [call |-> c, day |-> today]]
      /\ UNCHANGED <<today, book, file>>
  BY DEF RecordLog, statsVars
<1>2. Read("stats")' = Read("stats")
  BY <1>1 DEF Read
<1>3. ASSUME NEW v \in Workers PROVE DoingOK(v)'
  <2>1. CASE v = w
    <3>1. doing'[v] = [call |-> c, day |-> today]
      BY <1>1, <2>1 DEF BooksInv
    <3> QED BY <1>1, <3>1 DEF DoingOK
  <2>2. CASE v # w
    <3>1. doing'[v] = doing[v] /\ DoingOK(v)
      BY <1>1, <2>2 DEF BooksInv
    <3> QED BY <1>1, <3>1 DEF DoingOK
  <2> QED BY <2>1, <2>2
<1>4. DOMAIN doing' = Workers
  BY <1>1 DEF BooksInv
<1> QED BY <1>1, <1>2, <1>3, <1>4 DEF BooksInv

LEMMA BooksRecordStats ==
  ASSUME BooksInv, NEW w \in Workers, RecordStats(w) PROVE BooksInv'
<1> DEFINE c == doing[w].call
           day == doing[w].day
<1>1. /\ doing[w] # Nil /\ book' = Recorded(LoadedBook, c, day)
      /\ doing' = [doing EXCEPT ![w] = Nil] /\ UNCHANGED <<today, file>>
  BY DEF RecordStats
<1>2. /\ today \in Nat \ {0} /\ DOMAIN doing = Workers
      /\ \A v \in Workers : DoingOK(v)
      /\ BookOK(book, today) /\ BookOK(Read("stats"), today)
  BY DEF BooksInv
<1>3. c \in Calls /\ (day = today \/ day = today - 1)
  BY <1>1, <1>2 DEF DoingOK
<1> HIDE DEF c, day
<1>4. BookOK(LoadedBook, today)
  BY <1>2 DEF LoadedBook
<1>5. BookOK(Recorded(LoadedBook, c, day), today)
  BY <1>2, <1>3, <1>4, BookRecorded
<1>6. BookOK(book', today')
  BY <1>1, <1>5
<1>7. Read("stats")' = Read("stats")
  BY <1>1 DEF Read
<1>8. ASSUME NEW v \in Workers PROVE DoingOK(v)'
  <2>1. CASE v = w
    BY <1>1, <1>2, <2>1 DEF DoingOK
  <2>2. CASE v # w
    <3>1. doing'[v] = doing[v] /\ DoingOK(v)
      BY <1>1, <1>2, <2>2
    <3> QED BY <1>1, <3>1 DEF DoingOK
  <2> QED BY <2>1, <2>2
<1>9. DOMAIN doing' = Workers
  BY <1>1, <1>2
<1> QED BY <1>1, <1>6, <1>7, <1>8, <1>9 DEF BooksInv

LEMMA BooksFlush ==
  ASSUME BooksInv, NEW s \in Stores, Flush(s) \/ FlushFails(s) PROVE BooksInv'
<1>1. /\ UNCHANGED <<today, doing, book>>
      /\ \/ file' = file
         \/ file' = [file EXCEPT ![s] = {Content(s)}]
         \/ file' = [file EXCEPT ![s] = Unreadable]
         \/ file' = [file EXCEPT ![s] = file[s]]
  BY DEF Flush, FlushFails, statsVars
<1>2. DOMAIN file = Stores /\ BookOK(book, today) /\ BookOK(Read("stats"), today)
  BY DEF BooksInv
<1>3. Content("stats") = book
  BY DEF Content
<1>4. DOMAIN file' = Stores
  BY <1>1, <1>2
<1>5. \/ file'["stats"] = file["stats"] \/ file'["stats"] = Unreadable
      \/ file'["stats"] = {book}
  <2>1. CASE s = "stats"
    BY <1>1, <1>2, <1>3, <2>1
  <2>2. CASE s # "stats"
    BY <1>1, <1>2, <2>2, StoresAre
  <2> QED BY <2>1, <2>2
<1>6. \/ Read("stats")' = Read("stats") \/ Read("stats")' = EmptyBook
      \/ Read("stats")' = book
  BY <1>5, ReadSame, ReadTorn, ReadBack
<1> QED BY <1>1, <1>2, <1>4, <1>6, EmptyBookOK, BooksStay

LEMMA BooksTick ==
  ASSUME BooksInv, Tick PROVE BooksInv'
<1>1. /\ today' = today + 1 /\ UNCHANGED <<doing, book, file>>
      /\ \A w \in Workers : doing[w] # Nil => doing[w].day = today
  BY DEF Tick, statsVars
<1>2. /\ today \in Nat /\ BookOK(book, today) /\ BookOK(Read("stats"), today)
      /\ \A w \in Workers : DoingOK(w)
  BY DEF BooksInv
<1>3. Read("stats")' = Read("stats")
  BY <1>1 DEF Read
<1>4. BookOK(book, today + 1) /\ BookOK(Read("stats"), today + 1)
  BY <1>2, BookLater
<1>5. BookOK(book, today)' /\ BookOK(Read("stats"), today)'
  BY <1>1, <1>3, <1>4
<1>6. ASSUME NEW w \in Workers, doing'[w] # Nil
      PROVE  doing'[w].call \in Calls /\ doing'[w].day \in {today' - 1, today'}
  <2>1. doing[w].call \in Calls /\ doing[w].day = today /\ doing' = doing
    BY <1>1, <1>2, <1>6 DEF DoingOK
  <2>2. today' - 1 = today
    BY <1>1, <1>2
  <2> QED BY <2>1, <2>2
<1>7. \A w \in Workers : DoingOK(w)'
  BY <1>6 DEF DoingOK
<1>8. today' \in Nat \ {0}
  BY <1>1, <1>2
<1> QED BY <1>1, <1>5, <1>7, <1>8 DEF BooksInv

LEMMA BooksStep ==
  ASSUME BooksInv, [RecNext]_recVars PROVE BooksInv'
<1>1. ASSUME UNCHANGED <<today, doing, file>>, book' = book \/ book' = Read("stats")
      PROVE  BooksInv'
  <2>1. Read("stats")' = Read("stats")
    BY <1>1 DEF Read
  <2> QED BY <1>1, <2>1, BooksStay DEF BooksInv
<1>2. ASSUME NEW s, FlushSoon(s) PROVE BooksInv'
  BY <1>1, <1>2 DEF FlushSoon, statsVars
<1>3. CASE QueryLog \/ QueryStats \/ UNCHANGED recVars
  BY <1>1, <1>3 DEF QueryLog, QueryStats, LoadedBook, recVars, statsVars
<1> QED BY <1>2, <1>3, BooksBoot, BooksRestart, BooksRecordLog, BooksRecordStats, BooksFlush,
           BooksTick DEF RecNext

(* The book in memory and the book in the file: the tree of each day in    *)
(* the window and the total fit the calls they were made from (stats.go    *)
(* record, BackfillLegacyStats, loadLocked, persistLocked).                *)
THEOREM BooksInvariant == RecSpec => []BooksInv
<1>1. RecInit => BooksInv
  BY BooksInit
<1>2. BooksInv /\ [RecNext]_recVars => BooksInv'
  BY BooksStep
<1> QED BY <1>1, <1>2, PTL DEF RecSpec

(* For all calls, accounts, keys and models: what the page shows of a day  *)
(* of the window or of the total, for any account and key, counts exactly  *)
(* the calls recorded in that scope (stats.go viewOfDay, viewOfTotals,     *)
(* keyAggs).                                                               *)
THEOREM ViewsCountCallsCorrect == RecSpec => []ViewsCountCalls
<1>1. BooksInv => ViewsCountCalls
  BY ViewsOK DEF BooksInv
<1> QED BY <1>1, BooksInvariant, PTL
=============================================================================
