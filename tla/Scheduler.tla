------------------------------ MODULE Scheduler -----------------------------
(***************************************************************************)
(* The rounds of the scheduler (src/internal/scheduler/scheduler.go) and   *)
(* the credits they write into the pool (pool/pool.go).                    *)
(*                                                                         *)
(* The loop Run sleeps until the next hour of its plan and runs the        *)
(* check-in, the keepalive, or both.  The operator may start a check-in    *)
(* at any time.  A round goes through the accounts: it checks in, asks for *)
(* the balance, writes it into the pool and lifts the cooldown, in steps   *)
(* of their own, while chat requests use the credit up, deduct what they   *)
(* used, and meet 402.  What the keepalive does to the tokens is in        *)
(* Credentials, what else picks, cooldowns and breakers do is in Pool.     *)
(*                                                                         *)
(* Time is counted in hours; hour h stands for every moment of it but its  *)
(* first, at which the timer fires.                                        *)
(***************************************************************************)
EXTENDS Integers, FiniteSets, FiniteSetsExt

CONSTANTS
  Accounts, Requests, NoAccount,
  DayLength,       \* hours of a day
  CheckinHours, KeepaliveHours,
  MaxLag,          \* assumption: a round of the loop goes on for so many hours
  Unit,            \* one credit in the smallest fraction that is charged
  Cost,            \* of a request, in that fraction
  Bonus,           \* of a day's check-in, likewise
  MaxBalance       \* bound: balance of an account, likewise

ASSUME SchedAssumption ==
  /\ NoAccount \notin Accounts /\ IsFiniteSet(Requests)
  /\ DayLength \in Nat \ {0}
  /\ CheckinHours \subseteq 0..(DayLength - 1) /\ CheckinHours # {}
  /\ KeepaliveHours \subseteq 0..(DayLength - 1)
  /\ MaxLag \in Nat
  /\ Unit \in Nat \ {0} /\ Cost \in Nat \ {0} /\ Bonus \in Nat \ {0}
  /\ MaxBalance \in Nat

VARIABLES
  hour,      \* of the wall clock
  loop,      \* the local variables of Run
  rounds,    \* those of the rounds of check-in
  last,      \* CheckedInToday of s.last
  stored,    \* and of data/checkin-state.json
  disabled, cool, credits, frac,   \* the pool: cool is a cooldown for lack of credit
  req,       \* the local variables of the requests
  balance,   \* at the upstream, in fractions of a credit
  bonusPaid, \* the upstream has paid today's bonus
  synced     \* what the pool knows comes from the balance, for a property

schedVars == <<hour, loop, rounds, last, stored, disabled, cool, credits, frac,
               req, balance, bonusPaid, synced>>
poolPart == <<disabled, cool, credits, frac, synced>>
upPart   == <<balance, bonusPaid>>

Rounds == {"scheduled", "manual"}
Hours  == CheckinHours \cup KeepaliveHours

(* A report counts only while its date is today, and if somebody           *)
(* succeeded: of a round (rep) and of the reports kept (last, stored) that *)
(* is all there is to tell.                                                *)
NoRound == [at |-> "idle", todo |-> {}, acct |-> NoAccount, remain |-> 0,
            clean |-> FALSE, rep |-> [today |-> FALSE, ok |-> FALSE]]

(* A round begins: Pool.List, the disabled accounts left out. *)
NewRound == [NoRound EXCEPT !.at = "next", !.todo = {a \in Accounts : ~disabled[a]},
                            !.rep.today = TRUE]

-----------------------------------------------------------------------------
(* Fault: the comparison is the wrong way round. *)
NextFireLast(h) ==
  Max({LET d == (p - h) % DayLength IN IF d = 0 THEN DayLength ELSE d : p \in Hours})

(* nextFire: hours from h to the next planned hour, a whole day if h is    *)
(* the only one.                                                           *)
NextFire(h) ==
  Min({LET d == (p - h) % DayLength IN IF d = 0 THEN DayLength ELSE d : p \in Hours})

(* CheckedInToday *)
CheckedInToday(rep) == rep.today /\ rep.ok

-----------------------------------------------------------------------------
SchedInit ==
  /\ hour     \in 0..(DayLength - 1)
  /\ loop     = [at |-> "asleep", wait |-> NextFire(hour), fired |-> 0,
                 lag |-> 0]
  /\ rounds   = [c \in Rounds |-> NoRound]
  /\ last     = FALSE
  /\ stored   = FALSE
  /\ disabled = [a \in Accounts |-> FALSE]
  /\ cool     = [a \in Accounts |-> FALSE]
  /\ credits  = [a \in Accounts |-> 0]
  /\ frac     = [a \in Accounts |-> 0]
  /\ req      = [r \in Requests |-> [at |-> "idle", acct |-> NoAccount]]
  /\ balance  \in [Accounts -> {0, Bonus}]
  /\ bonusPaid = [a \in Accounts |-> FALSE]
  /\ synced   = [a \in Accounts |-> FALSE]

-----------------------------------------------------------------------------
(* The clock strikes; at midnight today's reports become earlier ones, and *)
(* the upstream will pay again.                                            *)
Strike ==
  LET midnight == hour = DayLength - 1 IN
  /\ hour' = (hour + 1) % DayLength
  /\ IF midnight
     THEN /\ rounds' = [c \in Rounds |-> [rounds[c] EXCEPT !.rep.today = FALSE]]
          /\ last'   = FALSE
          /\ stored' = FALSE
          /\ bonusPaid' = [a \in Accounts |-> FALSE]
     ELSE UNCHANGED <<rounds, last, stored, bonusPaid>>
  /\ UNCHANGED <<balance, req, poolPart>>

(* The timer runs, or the round goes on. *)
Tick ==
  /\ \/ /\ loop.at = "asleep" /\ loop.wait > 0
        /\ loop' = [loop EXCEPT !.wait = @ - 1]
     \/ /\ loop.at # "asleep" /\ loop.lag < MaxLag
        /\ loop' = [loop EXCEPT !.lag = @ + 1]
  /\ Strike

(* Run wakes up and looks at the clock. *)
Fire ==
  /\ loop.at = "asleep" /\ loop.wait = 0
  /\ loop' = [loop EXCEPT !.at = "checkin", !.fired = hour]
  /\ IF hour \in CheckinHours
     THEN rounds' = [rounds EXCEPT !["scheduled"] = NewRound]
     ELSE UNCHANGED rounds
  /\ UNCHANGED <<hour, last, stored, req, poolPart, upPart>>

(* The check-in is over: the keepalive, if it is the hour for it. *)
KeepaliveNow ==
  /\ loop.at = "checkin" /\ rounds["scheduled"].at = "idle"
  /\ loop.fired \in KeepaliveHours
  /\ loop' = [loop EXCEPT !.at = "keepalive"]
  /\ UNCHANGED <<hour, rounds, last, stored, req, poolPart, upPart>>

(* Back to sleep until the next planned hour from now on. *)
Sleep ==
  /\ \/ loop.at = "keepalive"
     \/ /\ loop.at = "checkin" /\ rounds["scheduled"].at = "idle"
        /\ loop.fired \notin KeepaliveHours
  /\ loop' = [loop EXCEPT !.at = "asleep", !.wait = NextFire(hour), !.fired = 0, !.lag = 0]
  /\ UNCHANGED <<hour, rounds, last, stored, req, poolPart, upPart>>

-----------------------------------------------------------------------------
(* adminCheckin. *)
CheckinNow ==
  /\ rounds["manual"].at = "idle"
  /\ rounds' = [rounds EXCEPT !["manual"] = NewRound]
  /\ UNCHANGED <<hour, loop, last, stored, req, poolPart, upPart>>

(* What the balance of a was before is not the balance any more. *)
Stale(a) == [c \in Rounds |-> IF rounds[c].acct = a
                              THEN [rounds[c] EXCEPT !.clean = FALSE] ELSE rounds[c]]

(* DailyCheckin pays the bonus, or answers that it was paid today, which   *)
(* counts as success.  Its answer may be lost.                             *)
DailyCheckin(c, a, answered) ==
  /\ rounds[c].at = "next" /\ a \in rounds[c].todo
  /\ \/ /\ ~bonusPaid[a]
        /\ bonusPaid' = [bonusPaid EXCEPT ![a] = TRUE]
        /\ balance' = [balance EXCEPT ![a] = Min({@ + Bonus, MaxBalance})]
        /\ synced' = [synced EXCEPT ![a] = FALSE]
     \/ /\ bonusPaid[a] \/ ~answered
        /\ UNCHANGED <<upPart, synced>>
  /\ rounds' = [Stale(a) EXCEPT ![c].at = "ask", ![c].todo = @ \ {a}, ![c].acct = a,
                                ![c].rep.ok = @ \/ answered]
  /\ UNCHANGED <<hour, loop, last, stored, disabled, cool, credits, frac, req>>

(* Somebody has used credit of a and not yet deducted it. *)
InFlight(a) == \E r \in Requests : req[r].at = "served" /\ req[r].acct = a

(* UserResource answers with whole credits. *)
UserResource(c) ==
  /\ rounds[c].at = "ask"
  /\ rounds' = [rounds EXCEPT ![c].at = "set",
                              ![c].remain = balance[rounds[c].acct] \div Unit,
                              ![c].clean = ~InFlight(rounds[c].acct)]
  /\ UNCHANGED <<hour, loop, last, stored, req, poolPart, upPart>>

(* Or it fails: the pool keeps what it knows. *)
UserResourceFails(c) ==
  /\ rounds[c].at = "ask"
  /\ rounds' = [rounds EXCEPT ![c].at = "next", ![c].acct = NoAccount]
  /\ UNCHANGED <<hour, loop, last, stored, req, poolPart, upPart>>

(* Pool.SetCredits with what was answered. *)
SetCredits(c) ==
  LET a == rounds[c].acct IN
  /\ rounds[c].at = "set"
  /\ credits' = [credits EXCEPT ![a] = rounds[c].remain]
  /\ synced'  = [synced EXCEPT ![a] = rounds[c].clean]
  /\ rounds'  = [rounds EXCEPT ![c].at = "lift"]
  /\ UNCHANGED <<hour, loop, last, stored, disabled, cool, frac, req, upPart>>

(* Fault: only an account that is used up is woken. *)
ReenableIfNone(c) ==
  LET a == rounds[c].acct IN
  /\ rounds[c].at = "lift"
  /\ credits' = [credits EXCEPT ![a] = rounds[c].remain]
  /\ synced'  = [synced EXCEPT ![a] = rounds[c].clean]
  /\ cool'    = [cool EXCEPT ![a] = @ /\ (disabled[a] \/ rounds[c].remain > 0)]
  /\ rounds'  = [rounds EXCEPT ![c].at = "next", ![c].acct = NoAccount,
                               ![c].remain = 0, ![c].clean = FALSE]
  /\ UNCHANGED <<hour, loop, last, stored, disabled, frac, req, upPart>>

(* Pool.ReenableIfCredits: the cooldown is lifted if there was credit.  It *)
(* writes the credits a second time.                                       *)
ReenableIfCredits(c) ==
  LET a == rounds[c].acct IN
  /\ rounds[c].at = "lift"
  /\ credits' = [credits EXCEPT ![a] = rounds[c].remain]
  /\ synced'  = [synced EXCEPT ![a] = rounds[c].clean]
  /\ cool'    = [cool EXCEPT ![a] = @ /\ (disabled[a] \/ rounds[c].remain = 0)]
  /\ rounds'  = [rounds EXCEPT ![c].at = "next", ![c].acct = NoAccount,
                               ![c].remain = 0, ![c].clean = FALSE]
  /\ UNCHANGED <<hour, loop, last, stored, disabled, frac, req, upPart>>

(* Fault: the report is dated when the round is over. *)
ReportDatedAtEnd(c) ==
  /\ rounds[c].at = "next" /\ rounds[c].todo = {}
  /\ last'   = rounds[c].rep.ok
  /\ rounds' = [rounds EXCEPT ![c] = [NoRound EXCEPT !.at = "write", !.rep = rounds[c].rep]]
  /\ UNCHANGED <<hour, loop, stored, req, poolPart, upPart>>

(* All accounts are done: s.last.  persistState takes it for writing; that *)
(* another round may report between the two makes no difference, as that   *)
(* one writes the same.                                                    *)
ReportRound(c) ==
  /\ rounds[c].at = "next" /\ rounds[c].todo = {}
  /\ last'   = CheckedInToday(rounds[c].rep)
  /\ rounds' = [rounds EXCEPT ![c] = [NoRound EXCEPT !.at = "write", !.rep = rounds[c].rep]]
  /\ UNCHANGED <<hour, loop, stored, req, poolPart, upPart>>

(* The file is written without the lock: two rounds may overtake each      *)
(* other.                                                                  *)
PersistState(c) ==
  /\ rounds[c].at = "write"
  /\ stored' = CheckedInToday(rounds[c].rep)
  /\ rounds' = [rounds EXCEPT ![c] = NoRound]
  /\ UNCHANGED <<hour, loop, last, req, poolPart, upPart>>

-----------------------------------------------------------------------------
(* A request on an account that is not cooling uses its credit. *)
Serve(r, a) ==
  /\ req[r].at = "idle" /\ ~disabled[a] /\ ~cool[a]
  /\ balance[a] >= Cost
  /\ balance' = [balance EXCEPT ![a] = @ - Cost]
  /\ req' = [req EXCEPT ![r] = [at |-> "served", acct |-> a]]
  /\ rounds' = Stale(a)
  /\ UNCHANGED <<hour, loop, last, stored, poolPart, bonusPaid>>

(* Fault: the fraction stays when whole credits are deducted. *)
DeductCreditTwice(r) ==
  LET a   == req[r].acct
      sum == frac[a] + Cost
  IN
  /\ req[r].at = "served"
  /\ frac'    = [frac EXCEPT ![a] = Min({sum, 3 * Unit})]
  /\ credits' = [credits EXCEPT ![a] = Max({0, @ - sum \div Unit})]
  /\ req' = [req EXCEPT ![r] = [at |-> "idle", acct |-> NoAccount]]
  /\ rounds' = Stale(a)
  /\ UNCHANGED <<hour, loop, last, stored, disabled, cool, synced, upPart>>

(* Pool.DeductCredit: fractions are kept until they make a whole credit;   *)
(* never below zero.                                                       *)
DeductCredit(r) ==
  LET a   == req[r].acct
      sum == frac[a] + Cost
  IN
  /\ req[r].at = "served"
  /\ frac'    = [frac EXCEPT ![a] = sum % Unit]
  /\ credits' = [credits EXCEPT ![a] = Max({0, @ - sum \div Unit})]
  /\ req' = [req EXCEPT ![r] = [at |-> "idle", acct |-> NoAccount]]
  /\ rounds' = Stale(a)
  /\ UNCHANGED <<hour, loop, last, stored, disabled, cool, synced, upPart>>

(* The answer does not say what it has cost: nothing is deducted. *)
UsageMissing(r) ==
  /\ req[r].at = "served"
  /\ synced' = [synced EXCEPT ![req[r].acct] = FALSE]
  /\ req' = [req EXCEPT ![r] = [at |-> "idle", acct |-> NoAccount]]
  /\ rounds' = Stale(req[r].acct)
  /\ UNCHANGED <<hour, loop, last, stored, disabled, cool, credits, frac, upPart>>

(* 402, and then the cooldown. *)
Refuse(r, a) ==
  /\ req[r].at = "idle" /\ ~disabled[a] /\ ~cool[a]
  /\ balance[a] < Cost
  /\ req' = [req EXCEPT ![r] = [at |-> "refused", acct |-> a]]
  /\ UNCHANGED <<hour, loop, rounds, last, stored, poolPart, upPart>>

Cooldown(r) ==
  /\ req[r].at = "refused"
  /\ cool' = [cool EXCEPT ![req[r].acct] = TRUE]
  /\ req'  = [req EXCEPT ![r] = [at |-> "idle", acct |-> NoAccount]]
  /\ UNCHANGED <<hour, loop, rounds, last, stored, disabled, credits, frac, synced, upPart>>

(* The operator disables the account, or enables it, which ends the        *)
(* cooldown as well.                                                       *)
Disable(a) ==
  /\ disabled' = [disabled EXCEPT ![a] = TRUE]
  /\ UNCHANGED <<hour, loop, rounds, last, stored, cool, credits, frac, req, synced, upPart>>

Enable(a) ==
  /\ disabled' = [disabled EXCEPT ![a] = FALSE]
  /\ cool'     = [cool EXCEPT ![a] = FALSE]
  /\ UNCHANGED <<hour, loop, rounds, last, stored, credits, frac, req, synced, upPart>>

(* The process is started again, with loadState; requests and rounds are   *)
(* gone, and with them what they would have deducted.  The pool's state is *)
(* what state.json has (PoolPersist).                                      *)
Restart ==
  /\ rounds' = [c \in Rounds |-> NoRound]
  /\ req'    = [r \in Requests |-> [at |-> "idle", acct |-> NoAccount]]
  /\ loop'   = [loop EXCEPT !.at = "asleep", !.wait = NextFire(hour), !.fired = 0, !.lag = 0]
  /\ last'   = stored
  /\ frac'   = [a \in Accounts |-> 0]
  /\ synced' = [a \in Accounts |-> FALSE]
  /\ UNCHANGED <<hour, stored, disabled, cool, credits, upPart>>

-----------------------------------------------------------------------------
RoundStep(c) ==
  \/ \E a \in Accounts, answered \in BOOLEAN : DailyCheckin(c, a, answered)
  \/ UserResource(c) \/ UserResourceFails(c)
  \/ SetCredits(c) \/ ReenableIfCredits(c)
  \/ ReportRound(c) \/ PersistState(c)

RequestStep(r) ==
  \/ \E a \in Accounts : Serve(r, a) \/ Refuse(r, a)
  \/ DeductCredit(r) \/ UsageMissing(r) \/ Cooldown(r)

LoopStep == Fire \/ KeepaliveNow \/ Sleep

SchedNext ==
  \/ Tick \/ LoopStep \/ CheckinNow
  \/ \E c \in Rounds : RoundStep(c)
  \/ \E r \in Requests : RequestStep(r)
  \/ \E a \in Accounts : Disable(a) \/ Enable(a)
  \/ Restart

SchedSpec == SchedInit /\ [][SchedNext]_schedVars

(* Time passes, the loop and its rounds go on (every call of the upstream  *)
(* has the time limit of its client), and the billing service answers them *)
(* time and again.                                                         *)
FairSchedSpec ==
  /\ SchedSpec
  /\ WF_schedVars(Tick) /\ WF_schedVars(LoopStep) /\ WF_schedVars(RoundStep("scheduled"))
  /\ SF_schedVars(UserResource("scheduled"))
  /\ SF_schedVars(\E a \in Accounts : DailyCheckin("scheduled", a, TRUE))

-----------------------------------------------------------------------------
(* When a planned hour begins and Run is asleep, its timer is up: an hour  *)
(* is passed over only if a round still runs.                              *)
HourServed ==
  [][Tick /\ loop.at = "asleep" /\ hour' \in Hours => loop'.wait = 0]_schedVars

(* The page says "checked in today" only if an account has had its bonus   *)
(* today, also when a round goes on past midnight and rounds overlap.      *)
CheckedInTodayTrue ==
  last => \E a \in Accounts : bonusPaid[a]

(* The credits the pool knows are those of the upstream, never more and    *)
(* less than two credits fewer, from a round of check-in on that no        *)
(* request has crossed, however many requests deduct what they used since. *)
CreditsTrackBalance ==
  \A a \in Accounts :
    synced[a] /\ ~InFlight(a) =>
      balance[a] - (credits[a] * Unit - frac[a]) \in 0..(2 * (Unit - 1))

(* An account cooling for lack of credit is woken by a check-in sooner or  *)
(* later, although balances may be out of date when they are applied and a *)
(* late 402 may put it to sleep again, unless the process is restarted     *)
(* again and again: a planned hour that has begun is not made up for.      *)
CheckinRevives ==
  <>[][~Restart]_schedVars =>
    \A a \in Accounts : cool[a] ~> ~cool[a] \/ disabled[a]

-----------------------------------------------------------------------------
(* Statements of the comments which the code does not keep. *)

(* Package scheduler: the check-in and the keepalive are run at their      *)
(* hours every day, so Run is asleep and wakes up when one begins, however *)
(* long the round before it took.                                          *)
EveryHourServed ==
  [][Tick /\ hour' \in Hours => loop'.at = "asleep" /\ loop'.wait = 0]_schedVars

(* DeductCredit: the check-in overwrites the credits with the balance and  *)
(* so settles the account: when it has done so and no request is left that *)
(* has to deduct, the pool knows the balance up to the rounding, whatever  *)
(* requests did between the question for the balance and its answer.       *)
CheckinReconciles ==
  [][\A c \in Rounds :
       LET a == rounds[c].acct IN
       ReenableIfCredits(c) /\ ~InFlight(a) =>
         balance[a] - (credits'[a] * Unit - frac[a]) \in 0..(2 * (Unit - 1))]_schedVars
=============================================================================
