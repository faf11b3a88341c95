--------------------------- MODULE SchedulerProofs ---------------------------
(***************************************************************************)
(* Theorems about Scheduler for any accounts and requests, any plan of     *)
(* hours, and any credits, costs and bonuses.                              *)
(***************************************************************************)
EXTENDS Scheduler, FiniteSetTheorems, WellFoundedInduction, TLAPS

Round == [at : {"idle", "next", "ask", "set", "lift", "write"}, todo : SUBSET Accounts,
          acct : Accounts \cup {NoAccount}, remain : Nat, clean : BOOLEAN,
          rep : [today : BOOLEAN, ok : BOOLEAN]]
Request == [at : {"idle", "served", "refused"}, acct : Accounts \cup {NoAccount}]
Loop == [at : {"asleep", "checkin", "keepalive"}, wait : 0..DayLength,
         fired : 0..(DayLength - 1), lag : Nat]

LoopTypes   == hour \in 0..(DayLength - 1) /\ loop \in Loop
RoundTypes  == /\ rounds \in [Rounds -> Round]
               /\ \A c \in Rounds : rounds[c].at \in {"ask", "set", "lift"}
                                      => rounds[c].acct \in Accounts
               /\ last \in BOOLEAN /\ stored \in BOOLEAN
PoolTypes   == /\ disabled \in [Accounts -> BOOLEAN] /\ cool \in [Accounts -> BOOLEAN]
               /\ credits \in [Accounts -> Nat] /\ frac \in [Accounts -> 0..(Unit - 1)]
               /\ synced \in [Accounts -> BOOLEAN]
ReqTypes    == /\ req \in [Requests -> Request]
               /\ \A r \in Requests : req[r].at # "idle" => req[r].acct \in Accounts
UpTypes     == balance \in [Accounts -> Nat] /\ bonusPaid \in [Accounts -> BOOLEAN]

TypeInv == LoopTypes /\ RoundTypes /\ PoolTypes /\ ReqTypes /\ UpTypes

(* The timer never runs longer than up to the next planned hour.           *)
Until(h, p) == IF p > h THEN p - h ELSE p - h + DayLength
HourInv == loop.at = "asleep" => \A p \in Hours : loop.wait <= Until(hour, p)

(* Whatever says "checked in today", in a round, in memory or on disk, an  *)
(* account has had its bonus.                                              *)
Paid == \E a \in Accounts : bonusPaid[a]
PaidInv ==
  /\ \A c \in Rounds : CheckedInToday(rounds[c].rep) => Paid
  /\ last => Paid
  /\ stored => Paid

(* A balance that nobody has touched since it was asked for is the one in  *)
(* the round; and for a synced account the requests that have not deducted *)
(* yet make up the difference between balance and pool.                    *)
Served(a) == {r \in Requests : req[r].at = "served" /\ req[r].acct = a}
Owed(a) == balance[a] + Cost * Cardinality(Served(a)) - (credits[a] * Unit - frac[a])

Clean(c) == rounds[c].at \in {"set", "lift"} /\ rounds[c].clean
AskedFor(c) == /\ rounds[c].remain = balance[rounds[c].acct] \div Unit
               /\ Served(rounds[c].acct) = {}
AskedInv == \A c \in Rounds : Clean(c) => AskedFor(c)

OwedInv == \A a \in Accounts : synced[a] => Owed(a) \in 0..(2 * (Unit - 1))

-----------------------------------------------------------------------------
(* Numbers.                                                                *)
LEMMA DivMod ==
  ASSUME NEW a \in Nat, NEW b \in Nat \ {0}
  PROVE  /\ a \div b \in Nat /\ a % b \in 0..(b - 1)
         /\ a = b * (a \div b) + (a % b)
<1>1. a \div b \in Int /\ a % b \in 0..(b - 1)
  BY Z3
<1>2. a = b * (a \div b) + (a % b)
  BY Z3
<1>3. a \div b >= 0
  <2>1. ASSUME NEW q \in Int, q <= -1 PROVE b * q <= -b
    BY <2>1
  <2> QED BY <1>1, <1>2, <2>1
<1> QED BY <1>1, <1>2, <1>3

LEMMA MinOfNats ==
  ASSUME NEW S \in SUBSET Nat, S # {}
  PROVE  Min(S) \in S /\ \A y \in S : Min(S) <= y
<1> DEFINE R == {ss \in Nat \X Nat : ss[1] < ss[2]}
<1>1. IsWellFoundedOn(R, Nat)
  BY NatLessThanWellFounded DEF OpToRel
<1>2. \A x, y \in Nat : x < y => <<x, y>> \in R
  OBVIOUS
<1> HIDE DEF R
<1>3. PICK x \in S : \A y \in S : ~(<<y, x>> \in R)
  BY <1>1, WFMin
<1>4. ASSUME NEW y \in S PROVE x <= y
  <2>1. x \in Nat /\ y \in Nat
    OBVIOUS
  <2>2. ~(y < x)
    BY <1>2, <1>3, <2>1
  <2> QED BY <2>1, <2>2
<1>5. \E m \in S : \A y \in S : m <= y
  BY <1>4
<1>6. Min(S) = CHOOSE m \in S : \A y \in S : m <= y
  BY DEF Min
<1> QED BY <1>5, <1>6

LEMMA MaxOfTwo ==
  ASSUME NEW a \in Int, NEW b \in Int
  PROVE  Max({a, b}) = IF a >= b THEN a ELSE b
<1> DEFINE S == {a, b}
<1>1. \E m \in S : \A y \in S : m >= y
  OBVIOUS
<1>2. Max(S) = CHOOSE m \in S : \A y \in S : m >= y
  BY DEF Max
<1>3. Max(S) \in S /\ \A y \in S : Max(S) >= y
  BY <1>1, <1>2
<1> QED BY <1>3

(* nextFire is never later than the next occurrence of any planned hour.   *)
LEMMA NextFireBounds ==
  ASSUME NEW h \in 0..(DayLength - 1)
  PROVE  /\ NextFire(h) \in 1..DayLength
         /\ \A p \in Hours : NextFire(h) <= Until(h, p)
<1> DEFINE Gap(p) == LET d == (p - h) % DayLength IN IF d = 0 THEN DayLength ELSE d
           S == {Gap(p) : p \in Hours}
<1>1. DayLength \in Nat \ {0} /\ Hours \subseteq 0..(DayLength - 1) /\ Hours # {}
  BY SchedAssumption DEF Hours
<1>2. \A p \in Hours : Gap(p) = Until(h, p)
  <2> SUFFICES ASSUME NEW p \in Hours PROVE Gap(p) = Until(h, p)
    OBVIOUS
  <2>1. p \in 0..(DayLength - 1)
    BY <1>1
  <2>2. (p - h) % DayLength = IF p >= h THEN p - h ELSE p - h + DayLength
    BY <1>1, <2>1
  <2> QED BY <1>1, <2>1, <2>2 DEF Until
<1>3. \A p \in Hours : Until(h, p) \in 1..DayLength
  BY <1>1 DEF Until
<1>4. NextFire(h) = Min(S)
  BY DEF NextFire
<1> HIDE DEF Gap
<1>5. S \in SUBSET Nat /\ S # {} /\ S \subseteq 1..DayLength
  <2>1. \A p \in Hours : Gap(p) \in 1..DayLength
    BY <1>2, <1>3
  <2>2. S \subseteq 1..DayLength
    BY <2>1
  <2>3. PICK p \in Hours : TRUE
    BY <1>1
  <2>4. Gap(p) \in S
    OBVIOUS
  <2> HIDE DEF S
  <2> QED BY <1>1, <2>2, <2>4
<1>6. Min(S) \in S /\ \A y \in S : Min(S) <= y
  BY <1>5, MinOfNats
<1> QED BY <1>2, <1>4, <1>5, <1>6

-----------------------------------------------------------------------------
(* Types, and what a step does to the rounds.                              *)
RoundOK(t) == t \in Round /\ (t.at \in {"ask", "set", "lift"} => t.acct \in Accounts)

(* A round is not checked in, or clean, unless it was before.              *)
Follows(t, u) ==
  /\ CheckedInToday(t.rep) => CheckedInToday(u.rep)
  /\ t.at \in {"set", "lift"} /\ t.clean =>
       /\ u.at \in {"set", "lift"} /\ u.clean
       /\ t.remain = u.remain /\ t.acct = u.acct

LEMMA RoundsOK ==
  ASSUME RoundTypes
  PROVE  \A c \in Rounds : RoundOK(rounds[c])
BY DEF RoundTypes, RoundOK

LEMMA NoRoundOK ==
  /\ RoundOK(NoRound) /\ \A u : Follows(NoRound, u)
  /\ NoRound.clean = FALSE /\ NoRound.at = "idle"
<1>1. NoRound \in Round
  BY DEF NoRound, Round
<1>2. NoRound.at = "idle" /\ NoRound.clean = FALSE /\ NoRound.rep.ok = FALSE
  BY DEF NoRound
<1> QED BY <1>1, <1>2 DEF RoundOK, Follows, CheckedInToday

LEMMA NewRoundOK == RoundOK(NewRound) /\ \A u : Follows(NewRound, u)
<1> DEFINE todo == {a \in Accounts : ~disabled[a]}
<1>1. NewRound = [NoRound EXCEPT !.at = "next", !.todo = todo, !.rep.today = TRUE]
  BY DEF NewRound
<1>2. todo \in SUBSET Accounts
  OBVIOUS
<1> HIDE DEF todo
<1>3. NewRound \in Round
  BY <1>1, <1>2 DEF Round, NoRound
<1>4. NewRound.at = "next" /\ NewRound.clean = FALSE /\ NewRound.rep.ok = FALSE
  BY <1>1 DEF NoRound
<1> QED BY <1>3, <1>4 DEF RoundOK, Follows, CheckedInToday

LEMMA SetRound ==
  ASSUME RoundTypes, NEW c \in Rounds, NEW t, RoundOK(t),
         rounds' = [rounds EXCEPT ![c] = t], last' \in BOOLEAN, stored' \in BOOLEAN
  PROVE  /\ RoundTypes'
         /\ rounds'[c] = t
         /\ \A d \in Rounds : d # c => rounds'[d] = rounds[d]
<1>1. rounds'[c] = t /\ \A d \in Rounds : d # c => rounds'[d] = rounds[d]
  BY DEF RoundTypes
<1>2. rounds' \in [Rounds -> Round]
  BY DEF RoundTypes, RoundOK
<1>3. \A d \in Rounds : rounds'[d].at \in {"ask", "set", "lift"}
                          => rounds'[d].acct \in Accounts
  BY <1>1 DEF RoundTypes, RoundOK
<1> QED BY <1>1, <1>2, <1>3 DEF RoundTypes

LEMMA FollowsItself == \A t : Follows(t, t)
BY DEF Follows

(* The other steps of a round, one after the other.                        *)
LEMMA StaleRounds ==
  ASSUME RoundTypes, NEW a
  PROVE  /\ Stale(a) \in [Rounds -> Round]
         /\ \A c \in Rounds :
              /\ RoundOK(Stale(a)[c]) /\ Follows(Stale(a)[c], rounds[c])
              /\ Stale(a)[c].at = rounds[c].at
              /\ Stale(a)[c].todo = rounds[c].todo /\ Stale(a)[c].rep = rounds[c].rep
              /\ Stale(a)[c].clean => rounds[c].acct # a
<1> DEFINE s(c) == IF rounds[c].acct = a THEN [rounds[c] EXCEPT !.clean = FALSE]
                   ELSE rounds[c]
<1>1. ASSUME NEW c \in Rounds
      PROVE  /\ s(c) \in Round
             /\ s(c).at = rounds[c].at /\ s(c).acct = rounds[c].acct
             /\ s(c).remain = rounds[c].remain
             /\ s(c).todo = rounds[c].todo /\ s(c).rep = rounds[c].rep
             /\ s(c).clean => rounds[c].acct # a /\ rounds[c].clean
  <2>1. rounds[c] \in Round
    BY DEF RoundTypes
  <2>2. CASE rounds[c].acct = a
    BY <2>1, <2>2 DEF Round
  <2>3. CASE rounds[c].acct # a
    BY <2>1, <2>3
  <2> QED BY <2>2, <2>3
<1>2. Stale(a) = [c \in Rounds |-> s(c)]
  BY DEF Stale
<1> HIDE DEF s
<1>3. Stale(a) \in [Rounds -> Round]
  BY <1>1, <1>2
<1>4. ASSUME NEW c \in Rounds
      PROVE  RoundOK(s(c)) /\ Follows(s(c), rounds[c])
  BY <1>1 DEF RoundOK, Follows, RoundTypes
<1> QED BY <1>1, <1>2, <1>3, <1>4

LEMMA CheckinRounds ==
  ASSUME RoundTypes, NEW c \in Rounds, NEW a \in Accounts, NEW answered \in BOOLEAN,
         DailyCheckin(c, a, answered)
  PROVE  /\ RoundTypes'
         /\ \A d \in Rounds :
              /\ Follows(rounds'[d], rounds[d]) \/ answered
              /\ rounds'[d].at \in {"set", "lift"} /\ rounds'[d].clean =>
                   /\ Follows(rounds'[d], rounds[d])
                   /\ rounds[d].acct # a
              /\ CheckedInToday(rounds'[d].rep) =>
                   CheckedInToday(rounds[d].rep) \/ (d = c /\ answered)
<1> DEFINE u == Stale(a)[c]
           t == [u EXCEPT !.at = "ask", !.todo = @ \ {a}, !.acct = a,
                          !.rep.ok = @ \/ answered]
<1>1. /\ Stale(a) \in [Rounds -> Round]
      /\ \A d \in Rounds :
           /\ RoundOK(Stale(a)[d]) /\ Follows(Stale(a)[d], rounds[d])
           /\ Stale(a)[d].rep = rounds[d].rep
           /\ Stale(a)[d].clean => rounds[d].acct # a
  BY StaleRounds
<1>2. u \in Round
  BY <1>1
<1>3. /\ rounds' = [Stale(a) EXCEPT ![c] = t]
      /\ UNCHANGED <<last, stored>>
  BY DEF DailyCheckin
<1>4. t \in Round /\ t.at = "ask" /\ t.acct = a
  <2>1. (u.rep.ok \/ answered) \in BOOLEAN
    OBVIOUS
  <2> QED BY <1>2, <2>1 DEF Round
<1>5. t.rep.today = u.rep.today /\ (t.rep.ok <=> u.rep.ok \/ answered)
  BY <1>2 DEF Round
<1> HIDE DEF t
<1>6. rounds'[c] = t /\ \A d \in Rounds : d # c => rounds'[d] = Stale(a)[d]
  BY <1>1, <1>3
<1>7. rounds' \in [Rounds -> Round]
  BY <1>1, <1>3, <1>4
<1>8. RoundTypes'
  BY <1>1, <1>3, <1>4, <1>6, <1>7 DEF RoundTypes, RoundOK
<1>9. ASSUME NEW d \in Rounds, CheckedInToday(rounds'[d].rep)
      PROVE  CheckedInToday(rounds[d].rep) \/ (d = c /\ answered)
  <2>1. CASE d = c
    BY <1>1, <1>5, <1>6, <1>9, <2>1 DEF CheckedInToday
  <2>2. CASE d # c
    BY <1>1, <1>6, <1>9, <2>2
  <2> QED BY <2>1, <2>2
<1>10. ASSUME NEW d \in Rounds, rounds'[d].at \in {"set", "lift"}, rounds'[d].clean
       PROVE  Follows(rounds'[d], rounds[d]) /\ rounds[d].acct # a
  <2>1. d # c
    BY <1>4, <1>6, <1>10
  <2> QED BY <1>1, <1>6, <1>10, <2>1
<1>11. \A d \in Rounds : Follows(rounds'[d], rounds[d]) \/ answered
  BY <1>9, <1>10 DEF Follows
<1> QED BY <1>8, <1>9, <1>10, <1>11

LEMMA AskRounds ==
  ASSUME RoundTypes, UpTypes, NEW c \in Rounds, UserResource(c)
  PROVE  /\ RoundTypes'
         /\ rounds[c].acct \in Accounts
         /\ rounds'[c].acct = rounds[c].acct /\ rounds'[c].rep = rounds[c].rep
         /\ rounds'[c].remain = balance[rounds[c].acct] \div Unit
         /\ rounds'[c].clean <=> ~InFlight(rounds[c].acct)
         /\ \A d \in Rounds : d # c => rounds'[d] = rounds[d]
<1> DEFINE a == rounds[c].acct
           whole == balance[a] \div Unit
           clean == ~InFlight(a)
           t == [rounds[c] EXCEPT !.at = "set", !.remain = whole, !.clean = clean]
<1>1. rounds[c].at = "ask" /\ a \in Accounts /\ rounds[c] \in Round
  BY DEF UserResource, RoundTypes
<1>2. whole \in Nat
  BY <1>1, DivMod, SchedAssumption DEF UpTypes
<1>3. clean \in BOOLEAN
  OBVIOUS
<1>4. rounds' = [rounds EXCEPT ![c].at = "set", ![c].remain = whole, ![c].clean = clean]
      /\ UNCHANGED <<last, stored>>
  BY DEF UserResource
<1> HIDE DEF whole, clean
<1>5. rounds' = [rounds EXCEPT ![c] = t]
  BY <1>4 DEF RoundTypes
<1>6. /\ t \in Round /\ t.acct = a /\ t.rep = rounds[c].rep
      /\ t.remain = whole /\ t.clean = clean
  BY <1>1, <1>2, <1>3 DEF Round
<1>7. RoundOK(t) /\ last' \in BOOLEAN /\ stored' \in BOOLEAN
  BY <1>1, <1>4, <1>6 DEF RoundOK, RoundTypes
<1> HIDE DEF t
<1>8. /\ RoundTypes' /\ rounds'[c] = t
      /\ \A d \in Rounds : d # c => rounds'[d] = rounds[d]
  BY <1>5, <1>7, SetRound
<1> QED BY <1>1, <1>6, <1>8 DEF whole, clean

(* The steps of a round after it.                                          *)
LEMMA LaterRounds ==
  ASSUME RoundTypes, NEW c \in Rounds,
         \/ UserResourceFails(c) \/ SetCredits(c) \/ ReenableIfCredits(c)
         \/ ReportRound(c) \/ PersistState(c)
  PROVE  /\ RoundTypes'
         /\ \A d \in Rounds : Follows(rounds'[d], rounds[d])
         /\ last' => last \/ CheckedInToday(rounds[c].rep)
         /\ stored' => stored \/ CheckedInToday(rounds[c].rep)
<1>1. rounds[c] \in Round /\ CheckedInToday(rounds[c].rep) \in BOOLEAN
      /\ last \in BOOLEAN /\ stored \in BOOLEAN
  <2>1. rounds[c] \in Round /\ last \in BOOLEAN /\ stored \in BOOLEAN
    BY DEF RoundTypes
  <2>2. (rounds[c].rep.today /\ rounds[c].rep.ok) \in BOOLEAN
    OBVIOUS
  <2> QED BY <2>1, <2>2 DEF CheckedInToday
<1>2. /\ last' \in {last, CheckedInToday(rounds[c].rep)}
      /\ stored' \in {stored, CheckedInToday(rounds[c].rep)}
  BY DEF UserResourceFails, SetCredits, ReenableIfCredits, ReportRound, PersistState
<1>3. \E t : /\ RoundOK(t) /\ Follows(t, rounds[c])
             /\ rounds' = [rounds EXCEPT ![c] = t]
  <2>1. CASE UserResourceFails(c)
    <3> DEFINE t == [rounds[c] EXCEPT !.at = "next", !.acct = NoAccount]
    <3>1. rounds' = [rounds EXCEPT ![c] = t]
      BY <2>1 DEF UserResourceFails, RoundTypes
    <3>2. t \in Round /\ t.at = "next" /\ t.rep = rounds[c].rep
      BY <1>1 DEF Round
    <3> HIDE DEF t
    <3>3. RoundOK(t) /\ Follows(t, rounds[c])
      BY <3>2 DEF RoundOK, Follows
    <3> QED BY <3>1, <3>3
  <2>2. CASE SetCredits(c)
    <3> DEFINE t == [rounds[c] EXCEPT !.at = "lift"]
    <3>1. rounds' = [rounds EXCEPT ![c] = t] /\ rounds[c].at = "set"
      BY <2>2 DEF SetCredits, RoundTypes
    <3>2. /\ t \in Round /\ t.acct = rounds[c].acct /\ t.remain = rounds[c].remain
          /\ t.rep = rounds[c].rep /\ t.clean = rounds[c].clean
      BY <1>1 DEF Round
    <3> HIDE DEF t
    <3>3. RoundOK(t) /\ Follows(t, rounds[c])
      BY <3>1, <3>2 DEF RoundOK, Follows, RoundTypes
    <3> QED BY <3>1, <3>3
  <2>3. CASE ReenableIfCredits(c)
    <3> DEFINE t == [rounds[c] EXCEPT !.at = "next", !.acct = NoAccount,
                                      !.remain = 0, !.clean = FALSE]
    <3>1. rounds' = [rounds EXCEPT ![c] = t]
      BY <2>3 DEF ReenableIfCredits, RoundTypes
    <3>2. t \in Round /\ t.at = "next" /\ t.rep = rounds[c].rep
      BY <1>1 DEF Round
    <3> HIDE DEF t
    <3>3. RoundOK(t) /\ Follows(t, rounds[c])
      BY <3>2 DEF RoundOK, Follows
    <3> QED BY <3>1, <3>3
  <2>4. CASE ReportRound(c)
    <3> DEFINE t == [NoRound EXCEPT !.at = "write", !.rep = rounds[c].rep]
    <3>1. rounds' = [rounds EXCEPT ![c] = t]
      BY <2>4 DEF ReportRound
    <3>2. t \in Round /\ t.at = "write" /\ t.rep = rounds[c].rep
      BY <1>1 DEF Round, NoRound
    <3> HIDE DEF t
    <3>3. RoundOK(t) /\ Follows(t, rounds[c])
      BY <3>2 DEF RoundOK, Follows
    <3> QED BY <3>1, <3>3
  <2>5. CASE PersistState(c)
    BY <2>5, NoRoundOK DEF PersistState
  <2> QED BY <2>1, <2>2, <2>3, <2>4, <2>5
<1>4. PICK t : /\ RoundOK(t) /\ Follows(t, rounds[c])
               /\ rounds' = [rounds EXCEPT ![c] = t]
  BY <1>3
<1>5. last' \in BOOLEAN /\ stored' \in BOOLEAN
  BY <1>1, <1>2
<1>6. /\ RoundTypes' /\ rounds'[c] = t
      /\ \A d \in Rounds : d # c => rounds'[d] = rounds[d]
  BY <1>4, <1>5, SetRound
<1>7. \A d \in Rounds : Follows(rounds'[d], rounds[d])
  BY <1>4, <1>6, FollowsItself
<1> QED BY <1>2, <1>6, <1>7

LEMMA StrikeRounds ==
  ASSUME RoundTypes, Strike
  PROVE  /\ RoundTypes'
         /\ \A d \in Rounds : Follows(rounds'[d], rounds[d])
         /\ \/ UNCHANGED <<rounds, last, stored, bonusPaid>>
            \/ /\ ~last' /\ ~stored'
               /\ \A d \in Rounds : ~CheckedInToday(rounds'[d].rep)
<1>1. CASE hour = DayLength - 1
  <2> DEFINE t(d) == [rounds[d] EXCEPT !.rep.today = FALSE]
  <2>1. rounds' = [d \in Rounds |-> t(d)] /\ last' = FALSE /\ stored' = FALSE
    BY <1>1 DEF Strike
  <2>2. ASSUME NEW d \in Rounds
        PROVE  /\ t(d) \in Round /\ t(d).rep.today = FALSE
               /\ t(d).at = rounds[d].at /\ t(d).acct = rounds[d].acct
               /\ t(d).clean = rounds[d].clean /\ t(d).remain = rounds[d].remain
    <3>1. rounds[d] \in Round
      BY DEF RoundTypes
    <3> QED BY <3>1 DEF Round
  <2> HIDE DEF t
  <2>3. RoundTypes'
    BY <2>1, <2>2 DEF RoundTypes
  <2>4. \A d \in Rounds : ~CheckedInToday(rounds'[d].rep)
    BY <2>1, <2>2 DEF CheckedInToday
  <2>5. \A d \in Rounds : Follows(rounds'[d], rounds[d])
    BY <2>1, <2>2, <2>4 DEF Follows
  <2> QED BY <2>1, <2>3, <2>4, <2>5
<1>2. CASE hour # DayLength - 1
  <2>1. UNCHANGED <<rounds, last, stored, bonusPaid>>
    BY <1>2 DEF Strike
  <2> QED BY <2>1, FollowsItself DEF RoundTypes
<1> QED BY <1>1, <1>2

(* Steps that begin a round, drop all rounds, or make a balance stale.     *)
LEMMA OtherRounds ==
  ASSUME RoundTypes, stored' = stored,
         \/ rounds' = rounds
         \/ \E c \in Rounds : rounds' = [rounds EXCEPT ![c] = NewRound]
         \/ rounds' = [c \in Rounds |-> NoRound]
         \/ \E a : rounds' = Stale(a),
         last' \in {last, stored}
  PROVE  RoundTypes' /\ \A d \in Rounds : Follows(rounds'[d], rounds[d])
<1>1. last' \in BOOLEAN /\ stored' \in BOOLEAN
  BY DEF RoundTypes
<1>2. CASE rounds' = rounds
  BY <1>1, <1>2, FollowsItself DEF RoundTypes
<1>3. ASSUME NEW c \in Rounds, rounds' = [rounds EXCEPT ![c] = NewRound]
      PROVE  RoundTypes' /\ \A d \in Rounds : Follows(rounds'[d], rounds[d])
  <2>1. /\ RoundTypes' /\ rounds'[c] = NewRound
        /\ \A d \in Rounds : d # c => rounds'[d] = rounds[d]
    BY <1>1, <1>3, NewRoundOK, SetRound
  <2> QED BY <2>1, NewRoundOK, FollowsItself
<1>4. CASE rounds' = [c \in Rounds |-> NoRound]
  BY <1>1, <1>4, NoRoundOK DEF RoundTypes, RoundOK
<1>5. ASSUME NEW a, rounds' = Stale(a)
      PROVE  RoundTypes' /\ \A d \in Rounds : Follows(rounds'[d], rounds[d])
  BY <1>1, <1>5, StaleRounds DEF RoundTypes, RoundOK
<1> QED BY <1>2, <1>3, <1>4, <1>5

(* All but the answers of check-in and billing service.                    *)
Answered == \E c \in Rounds : \/ UserResource(c)
                              \/ \E a \in Accounts, ok \in BOOLEAN : DailyCheckin(c, a, ok)

LEMMA RoundsFollow ==
  ASSUME RoundTypes, [SchedNext]_schedVars, ~Answered
  PROVE  RoundTypes' /\ \A d \in Rounds : Follows(rounds'[d], rounds[d])
<1> DEFINE Goal == RoundTypes' /\ \A d \in Rounds : Follows(rounds'[d], rounds[d])
<1>1. ASSUME Tick PROVE Goal
  BY <1>1, StrikeRounds DEF Tick
<1>2. ASSUME LoopStep PROVE Goal
  <2>1. \/ rounds' = rounds
        \/ rounds' = [rounds EXCEPT !["scheduled"] = NewRound]
    BY <1>2 DEF LoopStep, Fire, KeepaliveNow, Sleep
  <2>2. "scheduled" \in Rounds /\ last' = last /\ stored' = stored
    BY <1>2 DEF LoopStep, Fire, KeepaliveNow, Sleep, Rounds
  <2> QED BY <2>1, <2>2, OtherRounds
<1>3. ASSUME CheckinNow PROVE Goal
  BY <1>3, OtherRounds DEF CheckinNow, Rounds
<1>4. ASSUME NEW c \in Rounds, RoundStep(c) PROVE Goal
  BY <1>4, LaterRounds DEF RoundStep, Answered
<1>5. ASSUME NEW r \in Requests, RequestStep(r) PROVE Goal
  <2>1. /\ rounds' = rounds \/ \E a : rounds' = Stale(a)
        /\ last' = last /\ stored' = stored
    BY <1>5 DEF RequestStep, Serve, Refuse, DeductCredit, UsageMissing, Cooldown
  <2> QED BY <2>1, OtherRounds
<1>6. ASSUME NEW a \in Accounts, Disable(a) \/ Enable(a) PROVE Goal
  BY <1>6, OtherRounds DEF Disable, Enable
<1>7. ASSUME Restart PROVE Goal
  BY <1>7, OtherRounds DEF Restart
<1>8. ASSUME UNCHANGED schedVars PROVE Goal
  BY <1>8, OtherRounds DEF schedVars
<1> QED BY <1>1, <1>2, <1>3, <1>4, <1>5, <1>6, <1>7, <1>8 DEF SchedNext

LEMMA RoundTypesStep ==
  ASSUME RoundTypes, UpTypes, [SchedNext]_schedVars
  PROVE  RoundTypes'
<1>1. ASSUME NEW c \in Rounds, NEW a \in Accounts, NEW ok \in BOOLEAN,
             DailyCheckin(c, a, ok)
      PROVE  RoundTypes'
  BY <1>1, CheckinRounds
<1>2. ASSUME NEW c \in Rounds, UserResource(c) PROVE RoundTypes'
  BY <1>2, AskRounds
<1> QED BY <1>1, <1>2, RoundsFollow DEF Answered

(* What rounds and requests leave alone.                                   *)
LEMMA RoundFrame ==
  ASSUME NEW c \in Rounds, RoundStep(c)
  PROVE  UNCHANGED <<hour, loop, req, disabled, frac>>
<1>1. ASSUME NEW a \in Accounts, NEW ok \in BOOLEAN, DailyCheckin(c, a, ok)
      PROVE  UNCHANGED <<hour, loop, req, disabled, frac>>
  BY <1>1 DEF DailyCheckin
<1>2. ASSUME UserResource(c) \/ UserResourceFails(c) \/ ReportRound(c) \/ PersistState(c)
      PROVE  UNCHANGED <<hour, loop, req, disabled, frac>>
  BY <1>2 DEF UserResource, UserResourceFails, ReportRound, PersistState, poolPart
<1>3. ASSUME SetCredits(c) \/ ReenableIfCredits(c)
      PROVE  UNCHANGED <<hour, loop, req, disabled, frac>>
  BY <1>3 DEF SetCredits, ReenableIfCredits
<1> QED BY <1>1, <1>2, <1>3 DEF RoundStep

LEMMA RequestFrame ==
  ASSUME NEW r \in Requests, RequestStep(r)
  PROVE  UNCHANGED <<hour, loop, last, stored, disabled, bonusPaid>>
<1>1. ASSUME NEW a \in Accounts, Serve(r, a) \/ Refuse(r, a)
      PROVE  UNCHANGED <<hour, loop, last, stored, disabled, bonusPaid>>
  BY <1>1 DEF Serve, Refuse, poolPart, upPart
<1>2. ASSUME DeductCredit(r) \/ UsageMissing(r) \/ Cooldown(r)
      PROVE  UNCHANGED <<hour, loop, last, stored, disabled, bonusPaid>>
  BY <1>2 DEF DeductCredit, UsageMissing, Cooldown, upPart
<1> QED BY <1>1, <1>2 DEF RequestStep

LEMMA LoopTypesStep ==
  ASSUME LoopTypes, [SchedNext]_schedVars
  PROVE  LoopTypes'
<1>0. DayLength \in Nat \ {0} /\ MaxLag \in Nat /\ hour \in 0..(DayLength - 1)
  BY SchedAssumption DEF LoopTypes
<1>1. ASSUME Tick PROVE LoopTypes'
  <2>1. hour' \in 0..(DayLength - 1)
    <3>1. hour' = (hour + 1) % DayLength
      BY <1>1 DEF Tick, Strike
    <3>2. hour + 1 \in Nat
      BY <1>0
    <3> QED BY <1>0, <3>1, <3>2, DivMod
  <2>2. loop' \in Loop
    <3>1. CASE loop.wait > 0 /\ loop' = [loop EXCEPT !.wait = @ - 1]
      BY <1>0, <3>1 DEF LoopTypes, Loop
    <3>2. CASE loop' = [loop EXCEPT !.lag = @ + 1]
      BY <3>2 DEF LoopTypes, Loop
    <3> QED BY <1>1, <3>1, <3>2 DEF Tick
  <2> QED BY <2>1, <2>2 DEF LoopTypes
<1>2. NextFire(hour) \in 0..DayLength /\ 0 \in 0..(DayLength - 1)
  BY <1>0, NextFireBounds
<1>3. ASSUME Fire PROVE LoopTypes'
  BY <1>3 DEF Fire, LoopTypes, Loop
<1>4. ASSUME KeepaliveNow PROVE LoopTypes'
  BY <1>4 DEF KeepaliveNow, LoopTypes, Loop
<1>5. ASSUME Sleep PROVE LoopTypes'
  BY <1>2, <1>5 DEF Sleep, LoopTypes, Loop
<1>6. ASSUME Restart PROVE LoopTypes'
  BY <1>2, <1>6 DEF Restart, LoopTypes, Loop
<1>7. ASSUME UNCHANGED <<hour, loop>> PROVE LoopTypes'
  BY <1>7 DEF LoopTypes
<1>8. \/ Tick \/ Fire \/ KeepaliveNow \/ Sleep \/ Restart
      \/ UNCHANGED <<hour, loop>>
  BY RoundFrame, RequestFrame
     DEF SchedNext, LoopStep, CheckinNow, Disable, Enable, schedVars
<1> QED BY <1>1, <1>3, <1>4, <1>5, <1>6, <1>7, <1>8

LEMMA SetRequest ==
  ASSUME ReqTypes, NEW r \in Requests, NEW at \in {"idle", "served", "refused"},
         NEW a \in Accounts \cup {NoAccount}, at # "idle" => a \in Accounts,
         req' = [req EXCEPT ![r] = [at |-> at, acct |-> a]]
  PROVE  /\ ReqTypes'
         /\ req'[r] = [at |-> at, acct |-> a]
         /\ \A s \in Requests : s # r => req'[s] = req[s]
<1>1. /\ req'[r] = [at |-> at, acct |-> a]
      /\ \A s \in Requests : s # r => req'[s] = req[s]
  BY DEF ReqTypes
<1>2. [at |-> at, acct |-> a] \in Request
  BY DEF Request
<1>3. req' \in [Requests -> Request]
  BY <1>2 DEF ReqTypes
<1> QED BY <1>1, <1>3 DEF ReqTypes

LEMMA ReqTypesStep ==
  ASSUME ReqTypes, [SchedNext]_schedVars
  PROVE  ReqTypes'
<1> DEFINE Idle == [at |-> "idle", acct |-> NoAccount]
<1>1. ASSUME NEW r \in Requests, RequestStep(r) PROVE ReqTypes'
  <2>1. \E at \in {"idle", "served", "refused"}, a \in Accounts \cup {NoAccount} :
          /\ at # "idle" => a \in Accounts
          /\ req' = [req EXCEPT ![r] = [at |-> at, acct |-> a]]
    BY <1>1 DEF RequestStep, Serve, Refuse, DeductCredit, UsageMissing, Cooldown
  <2> QED BY <2>1, SetRequest
<1>2. ASSUME Restart PROVE ReqTypes'
  <2>1. req' = [r \in Requests |-> Idle] /\ Idle \in Request
    BY <1>2 DEF Restart, Request
  <2> QED BY <2>1 DEF ReqTypes
<1>3. ASSUME UNCHANGED req PROVE ReqTypes'
  BY <1>3 DEF ReqTypes
<1>4. \/ \E r \in Requests : RequestStep(r)
      \/ Restart
      \/ UNCHANGED req
  BY RoundFrame DEF SchedNext, Tick, Strike, LoopStep, Fire, KeepaliveNow, Sleep,
                    CheckinNow, Disable, Enable, schedVars
<1> QED BY <1>1, <1>2, <1>3, <1>4

LEMMA UpTypesStep ==
  ASSUME UpTypes, ReqTypes, [SchedNext]_schedVars
  PROVE  UpTypes'
<1>1. ASSUME Tick PROVE UpTypes'
  <2>1. balance' = balance
        /\ bonusPaid' \in {bonusPaid, [a \in Accounts |-> FALSE]}
    BY <1>1 DEF Tick, Strike
  <2>2. [a \in Accounts |-> FALSE] \in [Accounts -> BOOLEAN]
    OBVIOUS
  <2> QED BY <2>1, <2>2 DEF UpTypes
<1>2. ASSUME NEW c \in Rounds, NEW a \in Accounts, NEW ok \in BOOLEAN,
             DailyCheckin(c, a, ok)
      PROVE  UpTypes'
  <2> DEFINE more == Min({balance[a] + Bonus, MaxBalance})
  <2>1. more \in Nat
    <3>1. balance[a] + Bonus \in Nat /\ MaxBalance \in Nat
      BY SchedAssumption DEF UpTypes
    <3> QED BY <3>1, MinOfNats
  <2>2. \/ bonusPaid' = [bonusPaid EXCEPT ![a] = TRUE]
           /\ balance' = [balance EXCEPT ![a] = more]
        \/ UNCHANGED <<balance, bonusPaid>>
    BY <1>2 DEF DailyCheckin, upPart
  <2> HIDE DEF more
  <2> QED BY <2>1, <2>2 DEF UpTypes
<1>3. ASSUME NEW r \in Requests, NEW a \in Accounts, Serve(r, a) PROVE UpTypes'
  <2>1. /\ balance' = [balance EXCEPT ![a] = @ - Cost]
        /\ balance[a] >= Cost /\ bonusPaid' = bonusPaid
    BY <1>3 DEF Serve
  <2>2. balance[a] - Cost \in Nat
    BY <2>1, SchedAssumption DEF UpTypes
  <2> QED BY <2>1, <2>2 DEF UpTypes
<1>4. ASSUME UNCHANGED <<balance, bonusPaid>> PROVE UpTypes'
  BY <1>4 DEF UpTypes
<1>5. \/ Tick
      \/ \E c \in Rounds : \E a \in Accounts, ok \in BOOLEAN : DailyCheckin(c, a, ok)
      \/ \E r \in Requests : \E a \in Accounts : Serve(r, a)
      \/ UNCHANGED <<balance, bonusPaid>>
  BY DEF SchedNext, LoopStep, Fire, KeepaliveNow, Sleep, CheckinNow, Restart,
         RoundStep, UserResource, UserResourceFails, SetCredits, ReenableIfCredits,
         ReportRound, PersistState, RequestStep, Refuse, DeductCredit, UsageMissing,
         Cooldown, Disable, Enable, schedVars, upPart
<1> QED BY <1>1, <1>2, <1>3, <1>4, <1>5

LEMMA PoolTypesStep ==
  ASSUME PoolTypes, RoundTypes, ReqTypes, [SchedNext]_schedVars
  PROVE  PoolTypes'
<1>0. Unit \in Nat \ {0} /\ Cost \in Nat
  BY SchedAssumption
<1>1. ASSUME NEW c \in Rounds, RoundStep(c) PROVE PoolTypes'
  <2>1. ASSUME SetCredits(c) \/ ReenableIfCredits(c) PROVE PoolTypes'
    <3> DEFINE a == rounds[c].acct
               woken == cool[a] /\ (disabled[a] \/ rounds[c].remain = 0)
    <3>1. a \in Accounts /\ rounds[c].remain \in Nat /\ rounds[c].clean \in BOOLEAN
      BY <2>1 DEF SetCredits, ReenableIfCredits, RoundTypes, Round
    <3>2. woken \in BOOLEAN
      BY <3>1 DEF PoolTypes
    <3>3. /\ credits' = [credits EXCEPT ![a] = rounds[c].remain]
          /\ synced' = [synced EXCEPT ![a] = rounds[c].clean]
          /\ cool' = cool \/ cool' = [cool EXCEPT ![a] = woken]
          /\ UNCHANGED <<disabled, frac>>
      BY <2>1 DEF SetCredits, ReenableIfCredits
    <3> HIDE DEF a, woken
    <3> QED BY <3>1, <3>2, <3>3 DEF PoolTypes
  <2>2. ASSUME NEW a \in Accounts, NEW ok \in BOOLEAN, DailyCheckin(c, a, ok)
        PROVE  PoolTypes'
    BY <2>2 DEF DailyCheckin, PoolTypes
  <2>3. ASSUME UserResource(c) \/ UserResourceFails(c) \/ ReportRound(c) \/ PersistState(c)
        PROVE  PoolTypes'
    BY <2>3 DEF UserResource, UserResourceFails, ReportRound, PersistState,
                poolPart, PoolTypes
  <2> QED BY <1>1, <2>1, <2>2, <2>3 DEF RoundStep
<1>2. ASSUME NEW r \in Requests, RequestStep(r) PROVE PoolTypes'
  <2>1. ASSUME DeductCredit(r) PROVE PoolTypes'
    <3> DEFINE a == req[r].acct
               sum == frac[a] + Cost
               whole == sum \div Unit
    <3>1. a \in Accounts
      BY <2>1 DEF DeductCredit, ReqTypes
    <3>2. sum \in Nat /\ credits[a] \in Nat
      BY <1>0, <3>1 DEF PoolTypes
    <3>3. whole \in Nat /\ sum % Unit \in 0..(Unit - 1)
      BY <1>0, <3>2, DivMod
    <3>4. Max({0, credits[a] - whole}) \in Nat
      BY <3>2, <3>3, MaxOfTwo
    <3>5. /\ frac' = [frac EXCEPT ![a] = sum % Unit]
          /\ credits' = [credits EXCEPT ![a] = Max({0, credits[a] - whole})]
          /\ UNCHANGED <<disabled, cool, synced>>
      BY <2>1 DEF DeductCredit
    <3> HIDE DEF a, sum, whole
    <3> QED BY <3>1, <3>3, <3>4, <3>5 DEF PoolTypes
  <2>2. ASSUME UsageMissing(r) PROVE PoolTypes'
    BY <2>2 DEF UsageMissing, PoolTypes
  <2>3. ASSUME Cooldown(r) PROVE PoolTypes'
    BY <2>3 DEF Cooldown, PoolTypes
  <2>4. ASSUME NEW a \in Accounts, Serve(r, a) \/ Refuse(r, a) PROVE PoolTypes'
    BY <2>4 DEF Serve, Refuse, poolPart, PoolTypes
  <2> QED BY <1>2, <2>1, <2>2, <2>3, <2>4 DEF RequestStep
<1>3. ASSUME NEW a \in Accounts, Disable(a) \/ Enable(a) PROVE PoolTypes'
  BY <1>3 DEF Disable, Enable, PoolTypes
<1>4. ASSUME Restart PROVE PoolTypes'
  <2>1. [a \in Accounts |-> 0] \in [Accounts -> 0..(Unit - 1)]
    BY <1>0
  <2>2. [a \in Accounts |-> FALSE] \in [Accounts -> BOOLEAN]
    OBVIOUS
  <2> QED BY <1>4, <2>1, <2>2 DEF Restart, PoolTypes
<1>5. ASSUME Tick \/ LoopStep \/ CheckinNow \/ UNCHANGED schedVars PROVE PoolTypes'
  BY <1>5 DEF Tick, Strike, LoopStep, Fire, KeepaliveNow, Sleep, CheckinNow,
              schedVars, poolPart, PoolTypes
<1> QED BY <1>1, <1>2, <1>3, <1>4, <1>5 DEF SchedNext

LEMMA TypeStep == TypeInv /\ [SchedNext]_schedVars => TypeInv'
BY LoopTypesStep, RoundTypesStep, PoolTypesStep, ReqTypesStep, UpTypesStep DEF TypeInv

LEMMA TypeInit == SchedInit => TypeInv
<1> SUFFICES ASSUME SchedInit PROVE TypeInv
  OBVIOUS
<1>1. DayLength \in Nat \ {0} /\ Unit \in Nat \ {0} /\ Bonus \in Nat
  BY SchedAssumption
<1>2. NextFire(hour) \in 0..DayLength /\ hour \in 0..(DayLength - 1)
  BY <1>1, NextFireBounds DEF SchedInit
<1>3. loop \in Loop
  BY <1>1, <1>2 DEF SchedInit, Loop
<1>4. RoundTypes
  BY NoRoundOK DEF SchedInit, RoundTypes, RoundOK
<1>5. [a \in Accounts |-> FALSE] \in [Accounts -> BOOLEAN]
  OBVIOUS
<1>6. PoolTypes
  BY <1>1, <1>5 DEF SchedInit, PoolTypes
<1>7. [at |-> "idle", acct |-> NoAccount] \in Request
  BY DEF Request
<1>8. ReqTypes
  BY <1>7 DEF SchedInit, ReqTypes
<1>9. balance \in [Accounts -> Nat]
  BY <1>1 DEF SchedInit
<1> QED BY <1>2, <1>3, <1>4, <1>5, <1>6, <1>8, <1>9
        DEF TypeInv, LoopTypes, UpTypes, SchedInit

LEMMA TypeInvariant == SchedSpec => []TypeInv
BY TypeInit, TypeStep, PTL DEF SchedSpec

-----------------------------------------------------------------------------
(* The plan.                                                               *)
LEMMA TickHours ==
  ASSUME TypeInv, HourInv, Tick
  PROVE  HourInv' /\ (loop.at = "asleep" /\ hour' \in Hours => loop'.wait = 0)
<1>1. /\ DayLength \in Nat \ {0} /\ hour \in 0..(DayLength - 1)
      /\ Hours \subseteq 0..(DayLength - 1)
  BY SchedAssumption DEF TypeInv, LoopTypes, Hours
<1>2. hour' = IF hour = DayLength - 1 THEN 0 ELSE hour + 1
  <2>1. hour' = (hour + 1) % DayLength
    BY DEF Tick, Strike
  <2>2. (hour + 1) % DayLength = IF hour = DayLength - 1 THEN 0 ELSE hour + 1
    BY <1>1
  <2> QED BY <2>1, <2>2
<1>3. CASE loop.at = "asleep"
  <2>1. /\ loop.wait \in 1..DayLength
        /\ loop' = [loop EXCEPT !.wait = @ - 1]
    BY <1>1, <1>3 DEF Tick, TypeInv, LoopTypes, Loop
  <2>2. loop'.wait = loop.wait - 1
    BY <2>1 DEF TypeInv, LoopTypes, Loop
  <2>3. ASSUME NEW p \in Hours
        PROVE  /\ loop'.wait <= Until(hour', p)
               /\ hour' = p => loop'.wait = 0
    <3>1. loop.wait <= Until(hour, p) /\ p \in 0..(DayLength - 1)
      BY <1>1, <1>3 DEF HourInv
    <3>2. CASE hour' = p
      <4>1. Until(hour, p) = 1 /\ Until(hour', p) = DayLength
        BY <1>1, <1>2, <3>1, <3>2 DEF Until
      <4> QED BY <1>1, <2>1, <2>2, <3>1, <4>1
    <3>3. CASE hour' # p
      <4>1. Until(hour', p) = Until(hour, p) - 1
        BY <1>1, <1>2, <3>1, <3>3 DEF Until
      <4>2. Until(hour, p) \in Int
        BY <1>1, <3>1 DEF Until
      <4> QED BY <2>1, <2>2, <3>1, <3>3, <4>1, <4>2
    <3> QED BY <3>2, <3>3
  <2> QED BY <2>3 DEF HourInv
<1>4. CASE loop.at # "asleep"
  <2>1. loop'.at = loop.at
    BY <1>4 DEF Tick, TypeInv, LoopTypes, Loop
  <2> QED BY <1>4, <2>1 DEF HourInv
<1> QED BY <1>3, <1>4

LEMMA HourStep == TypeInv /\ HourInv /\ [SchedNext]_schedVars => HourInv'
<1> SUFFICES ASSUME TypeInv, HourInv, [SchedNext]_schedVars PROVE HourInv'
  OBVIOUS
<1>1. ASSUME Tick PROVE HourInv'
  BY <1>1, TickHours
<1>2. ASSUME Fire \/ KeepaliveNow PROVE HourInv'
  BY <1>2 DEF Fire, KeepaliveNow, HourInv, TypeInv, LoopTypes, Loop
<1>3. ASSUME Sleep \/ Restart PROVE HourInv'
  <2>1. loop'.wait = NextFire(hour) /\ hour' = hour
    BY <1>3 DEF Sleep, Restart, TypeInv, LoopTypes, Loop
  <2>2. \A p \in Hours : NextFire(hour) <= Until(hour, p)
    BY NextFireBounds DEF TypeInv, LoopTypes
  <2> QED BY <2>1, <2>2 DEF HourInv
<1>4. ASSUME UNCHANGED <<hour, loop>> PROVE HourInv'
  BY <1>4 DEF HourInv
<1>5. \/ Tick \/ Fire \/ KeepaliveNow \/ Sleep \/ Restart
      \/ UNCHANGED <<hour, loop>>
  BY RoundFrame, RequestFrame
     DEF SchedNext, LoopStep, CheckinNow, Disable, Enable, schedVars
<1> QED BY <1>1, <1>2, <1>3, <1>4, <1>5

LEMMA HourInvariant == SchedSpec => []HourInv
<1>1. SchedInit => HourInv
  BY NextFireBounds DEF SchedInit, HourInv
<1> QED BY <1>1, HourStep, TypeInvariant, PTL DEF SchedSpec

(* A loop that sleeps wakes up in every planned hour, whatever the plan    *)
(* and whenever it went to sleep or was started.                           *)
THEOREM HourServedCorrect == SchedSpec => HourServed
<1>1. /\ TypeInv /\ HourInv /\ [SchedNext]_schedVars
      => [Tick /\ loop.at = "asleep" /\ hour' \in Hours => loop'.wait = 0]_schedVars
  BY TickHours
<1> QED BY <1>1, TypeInvariant, HourInvariant, PTL DEF SchedSpec, HourServed

-----------------------------------------------------------------------------
(* The day's bonus.                                                        *)
LEMMA PaidStep == TypeInv /\ PaidInv /\ [SchedNext]_schedVars => PaidInv'
<1> SUFFICES ASSUME TypeInv, PaidInv, [SchedNext]_schedVars PROVE PaidInv'
  OBVIOUS
<1>1. RoundTypes /\ PoolTypes /\ ReqTypes /\ UpTypes
  BY DEF TypeInv
<1>2. ASSUME Tick PROVE PaidInv'
  BY <1>1, <1>2, StrikeRounds DEF Tick, PaidInv, Paid
<1>3. ASSUME NEW c \in Rounds, NEW a \in Accounts, NEW ok \in BOOLEAN,
             DailyCheckin(c, a, ok)
      PROVE  PaidInv'
  <2>1. /\ \A d \in Rounds : CheckedInToday(rounds'[d].rep) =>
             CheckedInToday(rounds[d].rep) \/ (d = c /\ ok)
    BY <1>1, <1>3, CheckinRounds
  <2>2. /\ last' = last /\ stored' = stored
        /\ \/ ~bonusPaid[a] /\ bonusPaid' = [bonusPaid EXCEPT ![a] = TRUE]
           \/ (bonusPaid[a] \/ ~ok) /\ bonusPaid' = bonusPaid
    BY <1>3 DEF DailyCheckin, upPart
  <2>3. (Paid => Paid') /\ (ok => Paid')
    BY <1>1, <2>2 DEF Paid, UpTypes
  <2> QED BY <2>1, <2>2, <2>3 DEF PaidInv
<1>4. ASSUME NEW c \in Rounds, UserResource(c) PROVE PaidInv'
  <2>1. \A d \in Rounds : rounds'[d].rep = rounds[d].rep
    BY <1>1, <1>4, AskRounds
  <2>2. UNCHANGED <<last, stored, bonusPaid>>
    BY <1>4 DEF UserResource, upPart
  <2> QED BY <2>1, <2>2 DEF PaidInv, Paid
<1>5. ASSUME NEW c \in Rounds,
             \/ UserResourceFails(c) \/ SetCredits(c) \/ ReenableIfCredits(c)
             \/ ReportRound(c) \/ PersistState(c)
      PROVE  PaidInv'
  <2>1. /\ \A d \in Rounds : Follows(rounds'[d], rounds[d])
        /\ last' => last \/ CheckedInToday(rounds[c].rep)
        /\ stored' => stored \/ CheckedInToday(rounds[c].rep)
    BY <1>1, <1>5, LaterRounds
  <2>2. bonusPaid' = bonusPaid
    BY <1>5 DEF UserResourceFails, SetCredits, ReenableIfCredits, ReportRound,
                PersistState, upPart
  <2> QED BY <2>1, <2>2 DEF PaidInv, Paid, Follows
<1>6. ASSUME \/ LoopStep \/ CheckinNow \/ Restart \/ UNCHANGED schedVars
             \/ \E r \in Requests : RequestStep(r)
             \/ \E a \in Accounts : Disable(a) \/ Enable(a)
      PROVE  PaidInv'
  <2>1. /\ last' \in {last, stored} /\ stored' = stored
        /\ bonusPaid' = bonusPaid
    BY <1>6, RequestFrame
       DEF LoopStep, Fire, KeepaliveNow, Sleep, CheckinNow, Restart, schedVars,
           Disable, Enable, upPart
  <2>2. CASE Answered
    BY <1>3, <1>4, <2>2 DEF Answered
  <2>3. CASE ~Answered
    <3>1. \A d \in Rounds : Follows(rounds'[d], rounds[d])
      BY <1>1, <2>3, RoundsFollow
    <3> QED BY <2>1, <3>1 DEF PaidInv, Paid, Follows
  <2> QED BY <2>2, <2>3
<1> QED BY <1>2, <1>3, <1>4, <1>5, <1>6 DEF SchedNext, RoundStep

(* "Checked in today" is said only on a day on which an account has had    *)
(* its bonus.                                                              *)
THEOREM CheckedInTodayTrueCorrect == SchedSpec => []CheckedInTodayTrue
<1>1. SchedInit => PaidInv
  BY NoRoundOK DEF SchedInit, PaidInv, CheckedInToday, NoRound
<1>2. PaidInv => CheckedInTodayTrue
  BY DEF PaidInv, Paid, CheckedInTodayTrue
<1> QED BY <1>1, <1>2, PaidStep, TypeInvariant, PTL DEF SchedSpec

-----------------------------------------------------------------------------
(* Credits.                                                                *)
LEMMA ServedFinite ==
  \A a : /\ IsFiniteSet(Served(a)) /\ Cardinality(Served(a)) \in Nat
         /\ Served(a) = {} => Cardinality(Served(a)) = 0
<1> SUFFICES ASSUME NEW a
             PROVE  /\ IsFiniteSet(Served(a)) /\ Cardinality(Served(a)) \in Nat
                    /\ Served(a) = {} => Cardinality(Served(a)) = 0
  OBVIOUS
<1>1. Served(a) \subseteq Requests /\ IsFiniteSet(Requests)
  BY SchedAssumption DEF Served
<1>2. IsFiniteSet(Served(a))
  BY <1>1, FS_Subset
<1>3. Cardinality(Served(a)) \in Nat
  BY <1>2, FS_CardinalityType
<1> QED BY <1>2, <1>3, FS_EmptySet

(* A request that begins or ends on an account.                            *)
LEMMA ServedBegins ==
  ASSUME ReqTypes, NEW r \in Requests, NEW a \in Accounts, Serve(r, a)
  PROVE  /\ Cardinality(Served(a))' = Cardinality(Served(a)) + 1
         /\ \A b : b # a => Served(b)' = Served(b)
<1>1. /\ req[r].at = "idle" /\ req'[r] = [at |-> "served", acct |-> a]
      /\ \A s \in Requests : s # r => req'[s] = req[s]
  BY SetRequest DEF Serve
<1>2. Served(a)' = Served(a) \cup {r} /\ r \notin Served(a)
  BY <1>1 DEF Served
<1>3. \A b : b # a => Served(b)' = Served(b)
  BY <1>1 DEF Served
<1>4. Cardinality(Served(a) \cup {r}) = Cardinality(Served(a)) + 1
  BY <1>2, ServedFinite, FS_AddElement
<1> QED BY <1>2, <1>3, <1>4

LEMMA ServedEnds ==
  ASSUME ReqTypes, NEW r \in Requests, NEW a, req[r].at = "served", req[r].acct = a,
         req' = [req EXCEPT ![r] = [at |-> "idle", acct |-> NoAccount]]
  PROVE  /\ Cardinality(Served(a))' = Cardinality(Served(a)) - 1
         /\ Cardinality(Served(a)) >= 1
         /\ \A b : b # a => Served(b)' = Served(b)
<1>1. /\ req'[r] = [at |-> "idle", acct |-> NoAccount]
      /\ \A s \in Requests : s # r => req'[s] = req[s]
  BY SetRequest
<1>2. Served(a)' = Served(a) \ {r} /\ r \in Served(a)
  BY <1>1 DEF Served
<1>3. \A b : b # a => Served(b)' = Served(b)
  BY <1>1 DEF Served
<1>4. Cardinality(Served(a) \ {r}) = Cardinality(Served(a)) - 1
  BY <1>2, ServedFinite, FS_RemoveElement
<1>5. Cardinality(Served(a)) # 0 /\ Cardinality(Served(a)) \in Nat
  BY <1>2, ServedFinite, FS_EmptySet
<1> QED BY <1>2, <1>3, <1>4, <1>5

LEMMA ServedKept ==
  ASSUME ReqTypes, NEW r \in Requests, RequestStep(r),
         req[r].at # "served", req'[r].at # "served"
  PROVE  \A b : Served(b)' = Served(b)
<1>1. \E t : req' = [req EXCEPT ![r] = t]
  BY DEF RequestStep, Serve, Refuse, DeductCredit, UsageMissing, Cooldown
<1>2. \A s \in Requests : s # r => req'[s] = req[s]
  BY <1>1 DEF ReqTypes
<1> QED BY <1>2 DEF Served

(* What deducting does to the numbers of an account.                       *)
LEMMA DeductedNumbers ==
  ASSUME NEW b \in Nat, NEW k \in Nat, NEW cr \in Nat, NEW u \in Nat \ {0},
         NEW f \in 0..(u - 1), NEW cost \in Nat, k >= 1,
         b + cost * k - (cr * u - f) \in 0..(2 * (u - 1))
  PROVE  LET q == (f + cost) \div u
             g == (f + cost) % u
             m == IF 0 >= cr - q THEN 0 ELSE cr - q
         IN  b + cost * (k - 1) - (m * u - g) \in 0..(2 * (u - 1))
<1> DEFINE q == (f + cost) \div u
           g == (f + cost) % u
<1>1. q \in Nat /\ g \in 0..(u - 1) /\ f + cost = (u * q) + g
  <2>1. f + cost \in Nat
    OBVIOUS
  <2> QED BY <2>1, DivMod
<1> HIDE DEF q, g
<1>2. cost * (k - 1) = cost * k - cost /\ cost * k \in Nat /\ cost * (k - 1) \in Nat
  OBVIOUS
<1>3. CASE cr - q >= 0
  <2>1. (cr - q) * u = cr * u - u * q
    BY <1>1
  <2>2. b + cost * (k - 1) - ((cr - q) * u - g) = b + cost * k - (cr * u - f)
    BY <1>1, <1>2, <2>1
  <2>3. cr - q = IF 0 >= cr - q THEN 0 ELSE cr - q
    BY <1>1, <1>3
  <2> QED BY <2>2, <2>3 DEF q, g
<1>4. CASE cr - q < 0
  <2>1. cr * u <= u * q
    BY <1>1, <1>4
  <2>2. b + cost * (k - 1) + g >= 0
    BY <1>1, <1>2
  <2>3. b + cost * (k - 1) + g <= b + cost * k - (cr * u - f)
    BY <1>1, <1>2, <2>1
  <2>4. 0 * u - g = 0 - g
    BY <1>1
  <2>5. b + cost * (k - 1) - (0 * u - g) \in 0..(2 * (u - 1))
    BY <1>1, <1>2, <2>2, <2>3, <2>4
  <2>6. 0 = IF 0 >= cr - q THEN 0 ELSE cr - q
    BY <1>1, <1>4
  <2> QED BY <2>5, <2>6 DEF q, g
<1> QED BY <1>1, <1>3, <1>4

(* The account of a clean round is one that the step leaves alone.         *)
LEMMA AskedKept ==
  ASSUME AskedInv,
         \A d \in Rounds : Clean(d)' =>
           /\ Follows(rounds'[d], rounds[d])
           /\ balance'[rounds[d].acct] = balance[rounds[d].acct]
           /\ \A b : b = rounds[d].acct => Served(b)' = Served(b)
  PROVE  AskedInv'
<1> SUFFICES ASSUME NEW d \in Rounds, Clean(d)'
             PROVE  /\ rounds'[d].remain = balance'[rounds'[d].acct] \div Unit
                    /\ Served(rounds[d].acct)' = {}
  BY DEF AskedInv, AskedFor
<1>1. /\ rounds[d].at \in {"set", "lift"} /\ rounds[d].clean
      /\ rounds'[d].remain = rounds[d].remain /\ rounds'[d].acct = rounds[d].acct
  BY DEF Clean, Follows
<1>2. PICK b : b = rounds[d].acct
  OBVIOUS
<1>3. rounds[d].remain = balance[b] \div Unit /\ Served(b) = {}
  BY <1>1, <1>2 DEF AskedInv, AskedFor, Clean
<1>4. rounds'[d].acct = b /\ balance'[b] = balance[b] /\ Served(b)' = Served(b)
  BY <1>1, <1>2
<1>5. Served(rounds[d].acct)' = Served(b)'
  BY <1>4 DEF Served
<1> QED BY <1>1, <1>3, <1>4, <1>5

LEMMA AskedStep == TypeInv /\ AskedInv /\ [SchedNext]_schedVars => AskedInv'
<1> SUFFICES ASSUME TypeInv, AskedInv, [SchedNext]_schedVars PROVE AskedInv'
  OBVIOUS
<1>1. RoundTypes /\ PoolTypes /\ ReqTypes /\ UpTypes
  BY DEF TypeInv
<1>2. ASSUME NEW c \in Rounds, NEW a \in Accounts, NEW ok \in BOOLEAN,
             DailyCheckin(c, a, ok)
      PROVE  AskedInv'
  <2>1. \A d \in Rounds : Clean(d)' =>
          Follows(rounds'[d], rounds[d]) /\ rounds[d].acct \in Accounts \ {a}
    BY <1>1, <1>2, CheckinRounds DEF Clean, Follows, RoundTypes
  <2>2. req' = req /\ \A b \in Accounts \ {a} : balance'[b] = balance[b]
    <3>1. \/ \E n : balance' = [balance EXCEPT ![a] = n]
          \/ balance' = balance
      BY <1>2 DEF DailyCheckin, upPart
    <3> QED BY <1>1, <1>2, <3>1 DEF DailyCheckin, UpTypes
  <2>3. \A b : Served(b)' = Served(b)
    BY <2>2 DEF Served
  <2> QED BY <2>1, <2>2, <2>3, AskedKept
<1>3. ASSUME NEW c \in Rounds, UserResource(c) PROVE AskedInv'
  <2>1. /\ rounds'[c].acct = rounds[c].acct
        /\ rounds'[c].remain = balance[rounds[c].acct] \div Unit
        /\ rounds'[c].clean <=> ~InFlight(rounds[c].acct)
        /\ \A d \in Rounds : d # c => rounds'[d] = rounds[d]
    BY <1>1, <1>3, AskRounds
  <2>2. balance' = balance /\ req' = req
    BY <1>3 DEF UserResource, upPart
  <2>3. \A b : Served(b)' = Served(b) /\ (~InFlight(b) => Served(b) = {})
    BY <2>2 DEF Served, InFlight
  <2> SUFFICES ASSUME NEW d \in Rounds, Clean(d)' PROVE AskedFor(d)'
    BY DEF AskedInv
  <2>4. PICK b : b = rounds[d].acct
    OBVIOUS
  <2>5. rounds'[d].acct = b
    BY <2>1, <2>4
  <2>6. Served(rounds[d].acct)' = Served(b)
    BY <2>2, <2>5 DEF Served
  <2>7. CASE d = c
    BY <2>1, <2>2, <2>3, <2>4, <2>5, <2>6, <2>7 DEF Clean, AskedFor
  <2>8. CASE d # c
    BY <2>1, <2>2, <2>4, <2>5, <2>6, <2>8 DEF Clean, AskedFor, AskedInv
  <2> QED BY <2>7, <2>8
<1>4. CASE ~Answered
  <2>1. \A d \in Rounds : Follows(rounds'[d], rounds[d])
    BY <1>1, <1>4, RoundsFollow
  <2>2. ASSUME NEW r \in Requests, RequestStep(r) PROVE AskedInv'
    <3>1. ASSUME NEW a \in Accounts, Serve(r, a) PROVE AskedInv'
      <4>1. /\ rounds' = Stale(a)
            /\ \A b \in Accounts \ {a} : balance'[b] = balance[b]
            /\ \A b : b # a => Served(b)' = Served(b)
        BY <1>1, <3>1, ServedBegins DEF Serve, UpTypes
      <4>2. \A d \in Rounds : Clean(d)' => rounds[d].acct \in Accounts \ {a}
        BY <1>1, <2>1, <4>1, StaleRounds DEF Clean, Follows, RoundTypes
      <4> QED BY <2>1, <4>1, <4>2, AskedKept
    <3>2. ASSUME DeductCredit(r) \/ UsageMissing(r) PROVE AskedInv'
      <4>1. PICK a : a = req[r].acct
        OBVIOUS
      <4>2. /\ rounds' = Stale(a) /\ balance' = balance
            /\ req[r].at = "served"
            /\ req' = [req EXCEPT ![r] = [at |-> "idle", acct |-> NoAccount]]
        BY <3>2, <4>1 DEF DeductCredit, UsageMissing, upPart
      <4>3. \A b : b # a => Served(b)' = Served(b)
        BY <1>1, <4>1, <4>2, ServedEnds
      <4>4. \A d \in Rounds : Clean(d)' => rounds[d].acct # a
        BY <1>1, <4>2, StaleRounds DEF Clean
      <4> QED BY <2>1, <4>2, <4>3, <4>4, AskedKept
    <3>3. ASSUME NEW a \in Accounts, Refuse(r, a) PROVE AskedInv'
      <4>1. req[r].at # "served" /\ req'[r].at # "served" /\ balance' = balance
        BY <1>1, <3>3, SetRequest DEF Refuse, upPart
      <4> QED BY <1>1, <2>1, <2>2, <4>1, ServedKept, AskedKept
    <3>4. ASSUME Cooldown(r) PROVE AskedInv'
      <4>1. req[r].at # "served" /\ req'[r].at # "served" /\ balance' = balance
        BY <1>1, <3>4, SetRequest DEF Cooldown, upPart
      <4> QED BY <1>1, <2>1, <2>2, <4>1, ServedKept, AskedKept
    <3> QED BY <2>2, <3>1, <3>2, <3>3, <3>4 DEF RequestStep
  <2>3. ASSUME Restart PROVE AskedInv'
    BY <2>3, NoRoundOK DEF Restart, AskedInv, Clean
  <2>4. ASSUME UNCHANGED <<balance, req>> PROVE AskedInv'
    <3>1. \A b : Served(b)' = Served(b)
      BY <2>4 DEF Served
    <3> QED BY <2>1, <2>4, <3>1, AskedKept
  <2>5. \/ \E r \in Requests : RequestStep(r)
        \/ Restart
        \/ UNCHANGED <<balance, req>>
    <3>1. ASSUME NEW c \in Rounds, RoundStep(c) PROVE UNCHANGED <<balance, req>>
      BY <1>4, <3>1, RoundFrame
         DEF Answered, RoundStep, UserResourceFails, SetCredits, ReenableIfCredits,
             ReportRound, PersistState, upPart
    <3> QED BY <3>1 DEF SchedNext, Tick, Strike, LoopStep, Fire, KeepaliveNow, Sleep,
                        CheckinNow, Disable, Enable, schedVars, upPart
  <2> QED BY <2>2, <2>3, <2>4, <2>5
<1> QED BY <1>2, <1>3, <1>4 DEF Answered

(* An account that the step leaves alone.                                  *)
LEMMA OwedKept ==
  ASSUME NEW a, synced[a] => Owed(a) \in 0..(2 * (Unit - 1)),
         synced'[a] => /\ synced[a] /\ balance'[a] = balance[a]
                       /\ Served(a)' = Served(a)
                       /\ credits'[a] = credits[a] /\ frac'[a] = frac[a]
  PROVE  synced'[a] => Owed(a)' \in 0..(2 * (Unit - 1))
BY DEF Owed

LEMMA OwedStep == TypeInv /\ AskedInv /\ OwedInv /\ [SchedNext]_schedVars => OwedInv'
<1> SUFFICES ASSUME TypeInv, AskedInv, OwedInv, [SchedNext]_schedVars, NEW a \in Accounts
             PROVE  synced'[a] => Owed(a)' \in 0..(2 * (Unit - 1))
  BY DEF OwedInv
<1> DEFINE Goal == synced'[a] => Owed(a)' \in 0..(2 * (Unit - 1))
<1>1. RoundTypes /\ PoolTypes /\ ReqTypes /\ UpTypes
  BY DEF TypeInv
<1>2. /\ Unit \in Nat \ {0} /\ Cost \in Nat \ {0}
      /\ balance[a] \in Nat /\ credits[a] \in Nat /\ frac[a] \in 0..(Unit - 1)
      /\ Cardinality(Served(a)) \in Nat
  BY <1>1, SchedAssumption, ServedFinite DEF PoolTypes, UpTypes
<1>3. synced[a] => Owed(a) \in 0..(2 * (Unit - 1))
  BY DEF OwedInv
<1>4. ASSUME NEW c \in Rounds, SetCredits(c) \/ ReenableIfCredits(c) PROVE Goal
  <2>1. /\ UNCHANGED <<balance, req, frac>>
        /\ rounds[c].at \in {"set", "lift"} /\ rounds[c].acct \in Accounts
        /\ credits' = [credits EXCEPT ![rounds[c].acct] = rounds[c].remain]
        /\ synced' = [synced EXCEPT ![rounds[c].acct] = rounds[c].clean]
    BY <1>1, <1>4 DEF SetCredits, ReenableIfCredits, upPart, RoundTypes
  <2>2. Served(a)' = Served(a)
    BY <2>1 DEF Served
  <2>3. CASE rounds[c].acct = a
    <3> SUFFICES ASSUME synced'[a] PROVE Owed(a)' \in 0..(2 * (Unit - 1))
      OBVIOUS
    <3>1. /\ credits'[a] = balance[a] \div Unit /\ Served(a)' = {}
          /\ balance'[a] = balance[a] /\ frac'[a] = frac[a]
      BY <1>1, <2>1, <2>2, <2>3 DEF AskedInv, AskedFor, Clean, PoolTypes
    <3>2. Cardinality(Served(a))' = 0
      BY <3>1, FS_EmptySet
    <3> DEFINE q == balance[a] \div Unit
               g == balance[a] % Unit
    <3>3. q \in Nat /\ g \in 0..(Unit - 1) /\ balance[a] = Unit * q + g
      BY <1>2, DivMod
    <3>4. Owed(a)' = balance[a] + Cost * 0 - (q * Unit - frac[a])
      BY <3>1, <3>2 DEF Owed
    <3> HIDE DEF q, g
    <3>5. q * Unit = Unit * q /\ Cost * 0 = 0
      BY <1>2, <3>3
    <3>6. Owed(a)' = g + frac[a]
      BY <1>2, <3>3, <3>4, <3>5
    <3> QED BY <1>2, <3>3, <3>6
  <2>4. CASE rounds[c].acct # a
    <3>1. credits'[a] = credits[a] /\ synced'[a] = synced[a]
      BY <1>1, <2>1, <2>4 DEF PoolTypes
    <3> QED BY <1>3, <2>1, <2>2, <3>1, OwedKept
  <2> QED BY <2>3, <2>4
<1>5. ASSUME NEW c \in Rounds, NEW b \in Accounts, NEW ok \in BOOLEAN,
             DailyCheckin(c, b, ok)
      PROVE  Goal
  <2>1. /\ UNCHANGED <<req, credits, frac>>
        /\ \/ UNCHANGED <<balance, synced>>
           \/ /\ synced' = [synced EXCEPT ![b] = FALSE]
              /\ \E n : balance' = [balance EXCEPT ![b] = n]
    BY <1>5 DEF DailyCheckin, upPart
  <2>2. Served(a)' = Served(a)
    BY <2>1 DEF Served
  <2>3. synced'[a] => synced[a] /\ balance'[a] = balance[a]
    BY <1>1, <2>1 DEF PoolTypes, UpTypes
  <2> QED BY <1>3, <2>1, <2>2, <2>3, OwedKept
<1>6. ASSUME NEW r \in Requests, RequestStep(r) PROVE Goal
  <2>1. ASSUME NEW b \in Accounts, Serve(r, b) PROVE Goal
    <3>1. /\ UNCHANGED <<credits, frac, synced>> /\ balance[b] >= Cost
          /\ balance' = [balance EXCEPT ![b] = @ - Cost]
          /\ Cardinality(Served(b))' = Cardinality(Served(b)) + 1
          /\ a # b => Served(a)' = Served(a)
      BY <1>1, <2>1, ServedBegins DEF Serve, poolPart
    <3>2. CASE a = b
      <4>1. balance'[a] = balance[a] - Cost
        BY <1>1, <3>1, <3>2 DEF UpTypes
      <4>2. Cost * (Cardinality(Served(a)) + 1) = Cost * Cardinality(Served(a)) + Cost
            /\ Cost * Cardinality(Served(a)) \in Nat
        BY <1>2
      <4>3. credits[a] * Unit \in Nat
        BY <1>2
      <4>4. Owed(a)' = balance[a] - Cost + Cost * (Cardinality(Served(a)) + 1)
                         - (credits[a] * Unit - frac[a])
        BY <3>1, <3>2, <4>1 DEF Owed
      <4>5. Owed(a)' = Owed(a)
        BY <1>2, <4>2, <4>3, <4>4 DEF Owed
      <4> QED BY <1>3, <3>1, <4>5
    <3>3. CASE a # b
      <4>1. balance'[a] = balance[a]
        BY <1>1, <3>1, <3>3 DEF UpTypes
      <4> QED BY <1>3, <3>1, <3>3, <4>1, OwedKept
    <3> QED BY <3>2, <3>3
  <2>2. ASSUME DeductCredit(r) PROVE Goal
    <3>1. PICK b : b = req[r].acct
      OBVIOUS
    <3>2. /\ UNCHANGED <<balance, synced>> /\ b \in Accounts /\ req[r].at = "served"
          /\ frac' = [frac EXCEPT ![b] = (frac[b] + Cost) % Unit]
          /\ credits' = [credits EXCEPT
                           ![b] = Max({0, credits[b] - (frac[b] + Cost) \div Unit})]
          /\ req' = [req EXCEPT ![r] = [at |-> "idle", acct |-> NoAccount]]
      BY <1>1, <2>2, <3>1 DEF DeductCredit, upPart, ReqTypes
    <3>3. /\ Cardinality(Served(b))' = Cardinality(Served(b)) - 1
          /\ Cardinality(Served(b)) >= 1
          /\ a # b => Served(a)' = Served(a)
      BY <1>1, <3>1, <3>2, ServedEnds
    <3>4. CASE a = b /\ synced'[a]
      <4> DEFINE q == (frac[a] + Cost) \div Unit
                 g == (frac[a] + Cost) % Unit
                 m == IF 0 >= credits[a] - q THEN 0 ELSE credits[a] - q
                 k == Cardinality(Served(a))
      <4>1. q \in Nat
        <5>1. frac[a] + Cost \in Nat
          BY <1>2
        <5> QED BY <1>2, <5>1, DivMod
      <4>2. Max({0, credits[a] - q}) = m
        <5>1. credits[a] - q \in Int
          BY <1>2, <4>1
        <5> QED BY <5>1, MaxOfTwo
      <4>3. credits'[a] = m /\ frac'[a] = g /\ balance'[a] = balance[a]
        BY <1>1, <3>2, <3>4, <4>2 DEF PoolTypes
      <4>4. balance[a] + Cost * k - (credits[a] * Unit - frac[a]) \in 0..(2 * (Unit - 1))
        BY <1>3, <3>2, <3>4 DEF Owed
      <4>5. balance[a] + Cost * (k - 1) - (m * Unit - g) \in 0..(2 * (Unit - 1))
        <5>1. k \in Nat /\ k >= 1
          BY <1>2, <3>3, <3>4
        <5> HIDE DEF k
        <5> QED BY <1>2, <4>4, <5>1, DeductedNumbers
      <4>6. Owed(a)' = balance[a] + Cost * (k - 1) - (m * Unit - g)
        BY <3>3, <3>4, <4>3 DEF Owed
      <4> QED BY <4>5, <4>6
    <3>5. CASE a # b
      <4>1. credits'[a] = credits[a] /\ frac'[a] = frac[a]
        BY <1>1, <3>2, <3>5 DEF PoolTypes
      <4> QED BY <1>3, <3>2, <3>3, <3>5, <4>1, OwedKept
    <3> QED BY <3>4, <3>5
  <2>3. ASSUME UsageMissing(r) PROVE Goal
    <3>1. PICK b : b = req[r].acct
      OBVIOUS
    <3>2. /\ UNCHANGED <<balance, credits, frac>> /\ b \in Accounts
          /\ req[r].at = "served"
          /\ synced' = [synced EXCEPT ![b] = FALSE]
          /\ req' = [req EXCEPT ![r] = [at |-> "idle", acct |-> NoAccount]]
      BY <1>1, <2>3, <3>1 DEF UsageMissing, upPart, ReqTypes
    <3>3. synced'[a] => synced[a] /\ a # b
      BY <1>1, <3>2 DEF PoolTypes
    <3>4. a # b => Served(a)' = Served(a)
      BY <1>1, <3>1, <3>2, ServedEnds
    <3> QED BY <1>3, <3>2, <3>3, <3>4, OwedKept
  <2>4. ASSUME Cooldown(r) PROVE Goal
    <3>1. /\ UNCHANGED <<balance, credits, frac, synced>>
          /\ req[r].at # "served" /\ req'[r].at # "served"
      BY <1>1, <2>4, SetRequest DEF Cooldown, upPart
    <3>2. Served(a)' = Served(a)
      BY <1>1, <1>6, <3>1, ServedKept
    <3> QED BY <1>3, <3>1, <3>2, OwedKept
  <2>5. ASSUME NEW b \in Accounts, Refuse(r, b) PROVE Goal
    <3>1. /\ UNCHANGED <<balance, credits, frac, synced>>
          /\ req[r].at # "served" /\ req'[r].at # "served"
      BY <1>1, <2>5, SetRequest DEF Refuse, upPart, poolPart
    <3>2. Served(a)' = Served(a)
      BY <1>1, <1>6, <3>1, ServedKept
    <3> QED BY <1>3, <3>1, <3>2, OwedKept
  <2> QED BY <1>6, <2>1, <2>2, <2>3, <2>4, <2>5 DEF RequestStep
<1>7. ASSUME Restart PROVE Goal
  BY <1>7 DEF Restart
<1>8. ASSUME UNCHANGED <<balance, req, credits, frac, synced>> PROVE Goal
  <2>1. Served(a)' = Served(a)
    BY <1>8 DEF Served
  <2> QED BY <1>3, <1>8, <2>1, OwedKept
<1>9. ASSUME NEW c \in Rounds,
             \/ UserResource(c) \/ UserResourceFails(c)
             \/ ReportRound(c) \/ PersistState(c)
      PROVE  UNCHANGED <<balance, req, credits, frac, synced>>
  BY <1>9 DEF UserResource, UserResourceFails, ReportRound, PersistState,
              poolPart, upPart
<1>10. ASSUME \/ Tick \/ LoopStep \/ CheckinNow \/ UNCHANGED schedVars
              \/ \E b \in Accounts : Disable(b) \/ Enable(b)
       PROVE  UNCHANGED <<balance, req, credits, frac, synced>>
  BY <1>10 DEF Tick, Strike, LoopStep, Fire, KeepaliveNow, Sleep, CheckinNow,
               Disable, Enable, schedVars, poolPart, upPart
<1> QED BY <1>4, <1>5, <1>6, <1>7, <1>8, <1>9, <1>10 DEF SchedNext, RoundStep

(* A balance that is in the pool and untouched since is right up to two    *)
(* credits, whatever requests cost, however many are in flight and in      *)
(* whatever order they deduct.                                             *)
THEOREM CreditsTrackBalanceCorrect == SchedSpec => []CreditsTrackBalance
<1>1. SchedInit => AskedInv /\ OwedInv
  BY NoRoundOK DEF SchedInit, AskedInv, Clean, OwedInv
<1>2. OwedInv /\ TypeInv => CreditsTrackBalance
  <2> SUFFICES ASSUME OwedInv, TypeInv, NEW a \in Accounts, synced[a], ~InFlight(a)
               PROVE  balance[a] - (credits[a] * Unit - frac[a]) \in 0..(2 * (Unit - 1))
    BY DEF CreditsTrackBalance
  <2>1. Cardinality(Served(a)) = 0
    BY ServedFinite DEF Served, InFlight
  <2>2. Owed(a) \in 0..(2 * (Unit - 1))
    BY DEF OwedInv
  <2>3. Cost * Cardinality(Served(a)) = 0
    BY <2>1, SchedAssumption
  <2>4. balance[a] \in Nat /\ credits[a] * Unit \in Nat /\ frac[a] \in Nat
    BY SchedAssumption DEF TypeInv, UpTypes, PoolTypes
  <2>5. Owed(a) = balance[a] - (credits[a] * Unit - frac[a])
    BY <2>3, <2>4 DEF Owed
  <2> QED BY <2>2, <2>5
<1> QED BY <1>1, <1>2, AskedStep, OwedStep, TypeInvariant, PTL DEF SchedSpec
=============================================================================
