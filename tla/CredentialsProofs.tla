-------------------------- MODULE CredentialsProofs -------------------------
(***************************************************************************)
(* Theorems about Credentials for any number of requests, polls, objects   *)
(* and credentials issued.                                                 *)
(***************************************************************************)
EXTENDS Credentials, TLAPS

-----------------------------------------------------------------------------
(* Types. *)

Issued == 0..issued
Object == Objects \cup {Nil}

HeapType ==
  /\ issued   \in Nat
  /\ objs     \in [Objects -> Issued]
  /\ pool     \in Object
  /\ disabled \in BOOLEAN
  /\ file     \in Issued \cup {Nil}
  /\ scan     \in [found : BOOLEAN, is : SUBSET Issued]
  /\ login    \in BOOLEAN
  /\ alive    \in SUBSET Issued

(* Who is past taking an object refers to one. *)
ProcType ==
  /\ proc \in [Procs -> [at   : {"idle", "want", "asking", "save", "dead"},
                         obj  : Object,
                         sent : Issued]]
  /\ \A p \in Procs : proc[p].at # "idle" => proc[p].obj \in Objects

PollType ==
  /\ poll \in [Polls -> [at  : {"idle", "waiting", "asking", "save", "add",
                                "enable"},
                         obj : Object]]
  /\ \A p \in Polls :
       poll[p].at \in {"save", "add", "enable"} => poll[p].obj \in Objects

TypeInv == HeapType /\ ProcType /\ PollType

(* The lock of an object lets one call at a time to the upstream; a        *)
(* refusal stays true of the object it was given for.                      *)
OneAsks ==
  \A p, q \in Procs :
    proc[p].at = "asking" /\ proc[q].at = "asking" /\ p # q
      => proc[p].obj # proc[q].obj

DeadIsDead ==
  \A p \in Procs : proc[p].at = "dead" => objs[proc[p].obj] \notin alive

LockInv == TypeInv /\ OneAsks /\ NeverSpentTwice /\ DeadIsDead

(* The lock of the login session lets one poll in, and that one finds or   *)
(* makes the session's result.                                             *)
InSession(p) == poll[p].at \in {"asking", "save", "add", "enable"}

PollInv ==
  /\ TypeInv
  /\ \A p \in Polls : InSession(p) => login
  /\ \A p, q \in Polls : InSession(p) /\ InSession(q) => p = q

-----------------------------------------------------------------------------
LEMMA CollectHeap ==
  ASSUME NEW S, 0 \in S, NEW heap \in [Objects -> S], Collect(heap)
  PROVE  /\ objs' \in [Objects -> S]
         /\ \A o \in Objects : o \in Referred' => objs'[o] = heap[o]
BY DEF Collect

LEMMA NewIssue ==
  ASSUME TypeInv, issued' = issued + 1
  PROVE  /\ issued' \in Nat /\ Issued \subseteq Issued'
         /\ issued' \in Issued' /\ issued' \notin Issued
BY DEF TypeInv, HeapType, Issued

LEMMA ProcIdle ==
  ASSUME TypeInv, NEW p \in Procs, proc' = [proc EXCEPT ![p] = Idle],
         issued' \in Nat, Issued \subseteq Issued'
  PROVE  ProcType'
BY DEF TypeInv, HeapType, ProcType, Idle, Object, Issued

LEMMA ProcGoesOn ==
  ASSUME TypeInv, NEW p \in Procs, proc[p].obj \in Objects,
         issued' \in Nat, Issued \subseteq Issued',
         NEW a \in {"want", "asking", "save", "dead"}, NEW t \in Issued,
         proc' = [proc EXCEPT ![p].at = a, ![p].sent = t]
  PROVE  ProcType'
BY DEF TypeInv, HeapType, ProcType, Object

LEMMA ZeroIssued == TypeInv => 0 \in Issued
BY DEF TypeInv, HeapType, Issued

LEMMA InitType == CredInit => TypeInv
<1> SUFFICES ASSUME CredInit PROVE TypeInv
  OBVIOUS
<1>1. issued = 1 /\ 0 \in Issued /\ 1 \in Issued
  BY DEF CredInit, Issued
<1>2. ProcType /\ PollType
  BY <1>1 DEF CredInit, ProcType, PollType, Object, Idle, PollIdle
<1>3. scan \in [found : BOOLEAN, is : SUBSET Issued]
  BY DEF CredInit, NotScanned
<1>4. objs \in [Objects -> Issued]
  BY <1>1 DEF CredInit
<1>5. alive = {1} /\ file = 1
  BY DEF CredInit
<1>6. alive \in SUBSET Issued /\ file \in Issued \cup {Nil}
  BY <1>1, <1>5
<1>7. disabled \in BOOLEAN /\ login \in BOOLEAN
  BY DEF CredInit
<1>8. issued \in Nat /\ pool \in Object
  BY <1>1 DEF CredInit, Object
<1> QED BY <1>2, <1>3, <1>4, <1>6, <1>7, <1>8 DEF TypeInv, HeapType

LEMMA ProcStepType ==
  ASSUME TypeInv, NEW p \in Procs, ProcStep(p)
  PROVE  TypeInv'
<1>1. ProcType /\ PollType /\ HeapType /\ 0 \in Issued
  BY ZeroIssued DEF TypeInv
<1>2. proc[p].at # "idle" => proc[p].obj \in Objects
  BY <1>1 DEF ProcType
<1>3. UNCHANGED issued => Issued' = Issued /\ issued' \in Nat
  BY <1>1 DEF Issued, HeapType
<1>4. UNCHANGED <<issued, poll>> => PollType'
  BY <1>1 DEF PollType
<1>5. CASE Take(p)
  <2>1. ProcType'
    BY <1>1, <1>3, <1>5 DEF Take, ProcType, HeapType, Object
  <2> QED BY <1>1, <1>3, <1>4, <1>5, <2>1 DEF TypeInv, Take, HeapType
<1>6. CASE Ask(p)
  <2>1. objs[proc[p].obj] \in Issued
    BY <1>1, <1>2, <1>6 DEF Ask, HeapType
  <2>2. ProcType'
    BY <1>2, <1>3, <1>6, <2>1, ProcGoesOn DEF Ask
  <2> QED BY <1>1, <1>3, <1>4, <1>6, <2>2 DEF TypeInv, Ask, HeapType
<1>7. CASE Exchange(p)
  <2>1. /\ issued' \in Nat /\ Issued \subseteq Issued'
        /\ issued' \in Issued' /\ issued' \notin Issued
    BY <1>7, NewIssue DEF Exchange
  <2>2. ProcType'
    BY <1>1, <1>2, <1>7, <2>1, ProcGoesOn DEF Exchange
  <2>3. PollType'
    BY <1>1, <1>7 DEF Exchange, PollType
  <2>4. alive' \in SUBSET Issued'
    BY <1>1, <1>7, <2>1 DEF Exchange, HeapType
  <2>5. objs' \in [Objects -> Issued']
    BY <1>1, <1>7, <2>1 DEF Exchange, HeapType
  <2>6. scan' \in [found : BOOLEAN, is : SUBSET Issued']
    BY <1>1, <1>7, <2>1 DEF Exchange, HeapType
  <2>7. file' \in Issued' \cup {Nil}
    BY <1>1, <1>7, <2>1 DEF Exchange, HeapType
  <2> QED
    BY <1>1, <1>7, <2>1, <2>2, <2>3, <2>4, <2>5, <2>6, <2>7
       DEF TypeInv, Exchange, HeapType
<1>8. CASE RefreshFails(p)
  <2>1. ProcType'
    BY <1>3, <1>8, ProcIdle DEF RefreshFails
  <2>2. objs' \in [Objects -> Issued]
    BY <1>1, <1>8, CollectHeap DEF RefreshFails, HeapType
  <2> QED BY <1>1, <1>3, <1>4, <1>8, <2>1, <2>2
          DEF TypeInv, RefreshFails, HeapType
<1>9. CASE AnswerLost(p)
  <2>1. /\ issued' \in Nat /\ Issued \subseteq Issued'
        /\ issued' \in Issued' /\ issued' \notin Issued
    BY <1>9, NewIssue DEF AnswerLost
  <2>2. ProcType'
    BY <1>9, <2>1, ProcIdle DEF AnswerLost
  <2>3. PollType'
    BY <1>1, <1>9 DEF AnswerLost, PollType
  <2>4. alive' \in SUBSET Issued'
    BY <1>1, <1>9, <2>1 DEF AnswerLost, HeapType
  <2>5. objs' \in [Objects -> Issued']
    <3>1. objs' \in [Objects -> Issued]
      BY <1>1, <1>9, CollectHeap DEF AnswerLost, HeapType
    <3> QED BY <2>1, <3>1
  <2>6. scan' \in [found : BOOLEAN, is : SUBSET Issued']
    BY <1>1, <1>9, <2>1 DEF AnswerLost, HeapType
  <2>7. file' \in Issued' \cup {Nil}
    BY <1>1, <1>9, <2>1 DEF AnswerLost, HeapType
  <2> QED
    BY <1>1, <1>9, <2>1, <2>2, <2>3, <2>4, <2>5, <2>6, <2>7
       DEF TypeInv, AnswerLost, HeapType
<1>10. CASE Refused(p)
  <2>1. ProcType'
    BY <1>1, <1>2, <1>3, <1>10, ProcGoesOn DEF Refused
  <2> QED BY <1>1, <1>3, <1>4, <1>10, <2>1 DEF TypeInv, Refused, HeapType
<1>11. CASE Verdict(p)
  <2>1. ProcType'
    BY <1>3, <1>11, ProcIdle DEF Verdict
  <2>2. objs' \in [Objects -> Issued]
    BY <1>1, <1>11, CollectHeap DEF Verdict, HeapType
  <2>3. disabled' \in BOOLEAN
    BY <1>1, <1>11 DEF Verdict, HeapType
  <2> QED BY <1>1, <1>3, <1>4, <1>11, <2>1, <2>2, <2>3
          DEF TypeInv, Verdict, HeapType
<1>12. CASE Save(p)
  <2>1. ProcType'
    BY <1>3, <1>12, ProcIdle DEF Save
  <2>2. objs' \in [Objects -> Issued]
    BY <1>1, <1>12, CollectHeap DEF Save, HeapType
  <2>3. file' \in Issued \cup {Nil}
    BY <1>1, <1>2, <1>12 DEF Save, HeapType
  <2> QED BY <1>1, <1>3, <1>4, <1>12, <2>1, <2>2, <2>3
          DEF TypeInv, Save, HeapType
<1> QED
  BY <1>5, <1>6, <1>7, <1>8, <1>9, <1>10, <1>11, <1>12 DEF ProcStep

LEMMA PollStepType ==
  ASSUME TypeInv, NEW p \in Polls, PollStep(p)
  PROVE  TypeInv'
<1>1. ProcType /\ PollType /\ HeapType /\ 0 \in Issued
  BY ZeroIssued DEF TypeInv
<1>2. poll[p].at \in {"save", "add", "enable"} => poll[p].obj \in Objects
  BY <1>1 DEF PollType
<1>3. UNCHANGED issued => Issued' = Issued /\ issued' \in Nat
  BY <1>1 DEF Issued, HeapType
<1>4. UNCHANGED <<issued, proc>> => ProcType'
  BY <1>1, <1>3 DEF ProcType
<1>5. ASSUME poll' = [poll EXCEPT ![p] = PollIdle]
      PROVE  PollType'
  BY <1>1, <1>5 DEF PollType, PollIdle, Object
<1>6. CASE PollBegin(p) \/ PollEnter(p)
  <2>1. PollType'
    BY <1>1, <1>6 DEF PollBegin, PollEnter, PollType
  <2> QED BY <1>1, <1>3, <1>4, <1>6, <2>1
          DEF TypeInv, PollBegin, PollEnter, HeapType
<1>7. CASE PollAnswer(p)
  <2>1. CASE /\ poll' = [poll EXCEPT ![p] = PollIdle]
             /\ login' \in {login, FALSE}
             /\ UNCHANGED <<objs, issued, alive>>
    <3>1. login' \in BOOLEAN
      BY <1>1, <2>1 DEF HeapType
    <3> QED BY <1>1, <1>3, <1>4, <1>5, <1>7, <2>1, <3>1
            DEF TypeInv, PollAnswer, HeapType
  <2>2. ASSUME NEW o \in Objects,
               issued' = issued + 1,
               alive'  = alive \cup {issued'},
               objs' = [objs EXCEPT ![o] = issued'],
               poll' = [poll EXCEPT ![p] = [at |-> "save", obj |-> o]],
               UNCHANGED login
        PROVE  TypeInv'
    <3>1. /\ issued' \in Nat /\ Issued \subseteq Issued'
          /\ issued' \in Issued' /\ issued' \notin Issued
      BY <2>2, NewIssue
    <3>2. PollType'
      BY <1>1, <2>2 DEF PollType, Object
    <3>3. UNCHANGED proc
      BY <1>7 DEF PollAnswer
    <3>4. ProcType'
      BY <1>1, <3>1, <3>3 DEF ProcType
    <3>5. alive' \in SUBSET Issued'
      BY <1>1, <2>2, <3>1 DEF HeapType
    <3>6. objs' \in [Objects -> Issued']
      BY <1>1, <2>2, <3>1 DEF HeapType
    <3>7. scan' \in [found : BOOLEAN, is : SUBSET Issued']
      BY <1>1, <1>7, <3>1 DEF PollAnswer, HeapType
    <3>8. file' \in Issued' \cup {Nil}
      BY <1>1, <1>7, <3>1 DEF PollAnswer, HeapType
    <3> QED
      BY <1>1, <1>7, <2>2, <3>1, <3>2, <3>4, <3>5, <3>6, <3>7, <3>8
         DEF TypeInv, PollAnswer, HeapType
  <2> QED BY <1>7, <2>1, <2>2 DEF PollAnswer
<1>8. CASE PollSave(p)
  <2>1. PollType'
    BY <1>1, <1>2, <1>5, <1>8 DEF PollSave, PollType
  <2>2. objs' \in [Objects -> Issued]
    BY <1>1, <1>8, CollectHeap DEF PollSave, HeapType
  <2>3. file' \in Issued \cup {Nil} /\ login' \in BOOLEAN
    BY <1>1, <1>2, <1>8 DEF PollSave, HeapType
  <2> QED BY <1>1, <1>3, <1>4, <1>8, <2>1, <2>2, <2>3
          DEF TypeInv, PollSave, HeapType
<1>9. CASE PollAdd(p)
  <2>1. PollType'
    BY <1>1, <1>2, <1>9 DEF PollAdd, PollType
  <2>2. objs' \in [Objects -> Issued]
    BY <1>1, <1>9, CollectHeap DEF PollAdd, HeapType
  <2>3. pool' \in Object /\ disabled' \in BOOLEAN
    BY <1>1, <1>2, <1>9 DEF PollAdd, HeapType, Object
  <2> QED BY <1>1, <1>3, <1>4, <1>9, <2>1, <2>2, <2>3
          DEF TypeInv, PollAdd, HeapType
<1>10. CASE PollEnable(p)
  <2>1. objs' \in [Objects -> Issued]
    BY <1>1, <1>10, CollectHeap DEF PollEnable, HeapType
  <2> QED BY <1>1, <1>3, <1>4, <1>5, <1>10, <2>1
          DEF TypeInv, PollEnable, HeapType
<1> QED BY <1>6, <1>7, <1>8, <1>9, <1>10 DEF PollStep

LEMMA OperatorType ==
  ASSUME TypeInv,
         Operator \/ Restart \/ \E t \in Tokens : Revoke(t)
  PROVE  TypeInv'
<1>1. ProcType /\ PollType /\ HeapType /\ 0 \in Issued
  BY ZeroIssued DEF TypeInv
<1>2. UNCHANGED issued => Issued' = Issued /\ issued' \in Nat
  BY <1>1 DEF Issued, HeapType
<1>3. UNCHANGED <<issued, proc, poll>> => ProcType' /\ PollType'
  BY <1>1, <1>2 DEF ProcType, PollType
<1>4. ASSUME LoginStart \/ LoginExpires \/ MoveFile
             \/ \E mark \in BOOLEAN : Switch(mark)
      PROVE  TypeInv'
  BY <1>1, <1>2, <1>3, <1>4
     DEF LoginStart, LoginExpires, MoveFile, Switch, TypeInv, HeapType
<1>5. CASE LoadDir
  <2>1. scan' \in [found : BOOLEAN, is : SUBSET Issued]
    BY <1>1, <1>5 DEF LoadDir, Scanned, HeapType
  <2> QED BY <1>1, <1>2, <1>3, <1>5, <2>1 DEF LoadDir, TypeInv, HeapType
<1>6. CASE SyncToDir
  <2>1. scan' \in [found : BOOLEAN, is : SUBSET Issued]
    BY <1>6 DEF SyncToDir, NotScanned
  <2>2. objs' \in [Objects -> Issued] /\ pool' \in Object
    <3>1. CASE pool' = Nil /\ Collect(objs)
      BY <1>1, <3>1, CollectHeap DEF HeapType, Object
    <3>2. ASSUME NEW c \in scan.is, NEW o \in Objects \ Referred,
                 pool' = o, Collect([objs EXCEPT ![o] = c])
          PROVE  objs' \in [Objects -> Issued] /\ pool' \in Object
      <4>1. [objs EXCEPT ![o] = c] \in [Objects -> Issued]
        BY <1>1, <3>2 DEF HeapType
      <4>2. objs' \in [Objects -> Issued]
        BY <1>1, <3>2, <4>1, CollectHeap
      <4> QED BY <3>2, <4>2 DEF Object
    <3> QED BY <1>6, <3>1, <3>2 DEF SyncToDir
  <2>3. disabled' \in BOOLEAN
    BY <1>1, <1>6 DEF SyncToDir, HeapType
  <2> QED BY <1>1, <1>2, <1>3, <1>6, <2>1, <2>2, <2>3
          DEF SyncToDir, TypeInv, HeapType
<1>7. CASE Restart
  <2>1. ProcType' /\ PollType'
    BY <1>1, <1>2, <1>7
       DEF Restart, ProcType, PollType, Idle, PollIdle, Object
  <2>2. scan' \in [found : BOOLEAN, is : SUBSET Issued]
    BY <1>7 DEF Restart, NotScanned
  <2>3. objs' \in [Objects -> Issued]
    <3>1. CASE file \in Issued
      <4>1. [o \in Objects |-> file] \in [Objects -> Issued]
        BY <3>1
      <4> QED BY <1>1, <1>7, <4>1, CollectHeap DEF Restart
    <3>2. CASE file = Nil
      <4>1. Referred' \cap Objects = {}
        BY <1>7, <3>2, CredAssumption DEF Restart, Referred, Idle, PollIdle
      <4> QED BY <1>1, <1>7, <4>1 DEF Restart, Collect
    <3> QED BY <1>1, <3>1, <3>2 DEF HeapType
  <2>4. pool' \in Object /\ disabled' \in BOOLEAN
    BY <1>1, <1>7 DEF Restart, HeapType, Object
  <2>5. /\ file' \in Issued' \cup {Nil} /\ alive' \in SUBSET Issued'
        /\ login' \in BOOLEAN
    BY <1>1, <1>2, <1>7 DEF Restart, HeapType
  <2> QED BY <1>1, <1>2, <1>7, <2>1, <2>2, <2>3, <2>4, <2>5
          DEF Restart, TypeInv, HeapType
<1>8. ASSUME NEW t \in Tokens, Revoke(t)
      PROVE  TypeInv'
  BY <1>1, <1>2, <1>3, <1>8 DEF Revoke, TypeInv, HeapType
<1> QED BY <1>4, <1>5, <1>6, <1>7, <1>8 DEF Operator

LEMMA StepType == TypeInv /\ [CredNext]_credVars => TypeInv'
<1>1. ASSUME TypeInv, UNCHANGED credVars
      PROVE  TypeInv'
  BY <1>1 DEF credVars, TypeInv, HeapType, ProcType, PollType, Issued
<1> QED BY <1>1, ProcStepType, PollStepType, OperatorType DEF CredNext

-----------------------------------------------------------------------------
(* One refresh at a time. *)

(* The objects in use by the requests and the round keep their contents.   *)
LEMMA LockFrame ==
  ASSUME LockInv, TypeInv',
         \A p \in Procs : proc[p].at \in {"asking", "dead"}
                           => objs'[proc[p].obj] = objs[proc[p].obj],
         \A p \in Procs :
           proc'[p].at \in {"asking", "dead"} => proc'[p] = proc[p],
         \A t \in alive' : t \in alive \/ t \notin Issued
  PROVE  LockInv'
<1>1. \A p \in Procs :
        proc[p].at = "dead" => objs[proc[p].obj] \in Issued
  BY DEF LockInv, TypeInv, HeapType, ProcType
<1> QED BY <1>1 DEF LockInv, OneAsks, NeverSpentTwice, DeadIsDead

(* A collection keeps the objects that are still referred to. *)
LEMMA CollectKeeps ==
  ASSUME NEW heap, Collect(heap), NEW p \in Procs, proc'[p].obj \in Objects
  PROVE  objs'[proc'[p].obj] = heap[proc'[p].obj]
BY DEF Collect, Referred

LEMMA InitLock == CredInit => LockInv
BY InitType
   DEF CredInit, Idle, LockInv, OneAsks, NeverSpentTwice, DeadIsDead

(* The process that takes a step leaves the upstream call or none.         *)
LEMMA ProcStepLock ==
  ASSUME LockInv, TypeInv', NEW p \in Procs, ProcStep(p)
  PROVE  LockInv'
<1>1. /\ proc \in [Procs -> [at   : {"idle", "want", "asking", "save", "dead"},
                             obj  : Object,
                             sent : Issued]]
      /\ objs \in [Objects -> Issued]
      /\ \A q \in Procs : proc[q].at # "idle" => proc[q].obj \in Objects
  BY DEF LockInv, TypeInv, HeapType, ProcType
<1>2. CASE Take(p)
  <2>1. \A q \in Procs :
          proc'[q].at \in {"asking", "dead"} => proc'[q] = proc[q]
    BY <1>1, <1>2 DEF Take
  <2> QED BY <1>2, <2>1, LockFrame DEF Take
<1>3. CASE Ask(p)
  <2>1. /\ proc'[p].at = "asking" /\ proc'[p].obj = proc[p].obj
        /\ proc'[p].sent = objs[proc[p].obj]
        /\ \A q \in Procs : q # p => proc'[q] = proc[q]
    BY <1>1, <1>3 DEF Ask
  <2>2. \A q \in Procs : proc[q].at = "asking" => proc[q].obj # proc[p].obj
    BY <1>3 DEF Ask, Locked
  <2>3. UNCHANGED <<objs, alive>>
    BY <1>3 DEF Ask
  <2>4. OneAsks'
    BY <2>1, <2>2 DEF LockInv, OneAsks
  <2>5. NeverSpentTwice' /\ DeadIsDead'
    BY <2>1, <2>3 DEF LockInv, NeverSpentTwice, DeadIsDead
  <2> QED BY <2>4, <2>5 DEF LockInv
<1>4. CASE Exchange(p)
  <2>1. proc'[p].at = "save" /\ \A q \in Procs : q # p => proc'[q] = proc[q]
    BY <1>1, <1>4 DEF Exchange
  <2>2. proc[p].at = "asking" /\ objs[proc[p].obj] \in alive
    BY <1>4 DEF Exchange, LockInv, NeverSpentTwice
  <2>3. \A q \in Procs :
          q # p /\ proc[q].at \in {"asking", "dead"}
            => proc[q].obj # proc[p].obj
    BY <2>2 DEF LockInv, OneAsks, DeadIsDead
  <2>4. \A o \in Objects : o # proc[p].obj => objs'[o] = objs[o]
    BY <1>1, <1>4 DEF Exchange
  <2>5. \A t \in alive' : t \in alive \/ t \notin Issued
    BY <1>4, NewIssue DEF Exchange, LockInv
  <2>6. \A q \in Procs :
          proc[q].at = "dead" => objs[proc[q].obj] \in Issued
    BY <1>1
  <2>7. OneAsks'
    BY <2>1 DEF LockInv, OneAsks
  <2>8. NeverSpentTwice' /\ DeadIsDead'
    BY <1>1, <2>1, <2>3, <2>4, <2>5, <2>6
       DEF LockInv, NeverSpentTwice, DeadIsDead
  <2> QED BY <2>7, <2>8 DEF LockInv
<1>5. ASSUME proc' = [proc EXCEPT ![p] = Idle], Collect(objs),
             \A t \in alive' : t \in alive \/ t \notin Issued
      PROVE  LockInv'
  <2>1. proc'[p].at = "idle" /\ \A q \in Procs : q # p => proc'[q] = proc[q]
    BY <1>1, <1>5 DEF Idle
  <2>2. \A q \in Procs :
          q # p /\ proc[q].at # "idle"
            => objs'[proc[q].obj] = objs[proc[q].obj]
    BY <1>1, <1>5, <2>1, CollectKeeps
  <2>3. \A q \in Procs :
          proc[q].at = "dead" => objs[proc[q].obj] \in Issued
    BY <1>1
  <2>4. OneAsks'
    BY <2>1 DEF LockInv, OneAsks
  <2>5. NeverSpentTwice' /\ DeadIsDead'
    BY <1>5, <2>1, <2>2, <2>3 DEF LockInv, NeverSpentTwice, DeadIsDead
  <2> QED BY <2>4, <2>5 DEF LockInv
<1>6. CASE RefreshFails(p) \/ Verdict(p) \/ Save(p)
  BY <1>5, <1>6 DEF RefreshFails, Verdict, Save
<1>7. CASE AnswerLost(p)
  BY <1>5, <1>7, NewIssue DEF AnswerLost, LockInv
<1>8. CASE Refused(p)
  <2>1. /\ proc'[p].at = "dead" /\ proc'[p].obj = proc[p].obj
        /\ \A q \in Procs : q # p => proc'[q] = proc[q]
    BY <1>1, <1>8 DEF Refused
  <2>2. objs[proc[p].obj] \notin alive
    BY <1>8 DEF Refused, LockInv, NeverSpentTwice
  <2>3. UNCHANGED <<objs, alive>>
    BY <1>8 DEF Refused
  <2>4. OneAsks'
    BY <2>1 DEF LockInv, OneAsks
  <2>5. NeverSpentTwice' /\ DeadIsDead'
    BY <2>1, <2>2, <2>3 DEF LockInv, NeverSpentTwice, DeadIsDead
  <2> QED BY <2>4, <2>5 DEF LockInv
<1> QED
  BY <1>2, <1>3, <1>4, <1>6, <1>7, <1>8 DEF ProcStep

LEMMA OtherStepLock ==
  ASSUME LockInv, TypeInv',
         \/ \E p \in Polls : PollStep(p)
         \/ Operator
         \/ \E t \in Tokens : Revoke(t)
         \/ Restart
         \/ UNCHANGED credVars
  PROVE  LockInv'
<1>1. /\ objs \in [Objects -> Issued]
      /\ \A q \in Procs : proc[q].at # "idle" => proc[q].obj \in Objects
  BY DEF LockInv, TypeInv, HeapType, ProcType
<1>2. ASSUME UNCHANGED <<objs, proc>>, alive' \subseteq alive
      PROVE  LockInv'
  BY <1>2 DEF LockInv, OneAsks, NeverSpentTwice, DeadIsDead
(* A new object, and those nobody refers to collected. *)
<1>3. ASSUME UNCHANGED <<proc, alive>>, NEW heap, Collect(heap),
             \A o \in Objects : o \in Referred => heap[o] = objs[o]
      PROVE  LockInv'
  <2>1. \A q \in Procs :
          proc[q].at # "idle" => objs'[proc[q].obj] = objs[proc[q].obj]
    BY <1>1, <1>3, CollectKeeps DEF Referred
  <2> QED BY <1>3, <2>1 DEF LockInv, OneAsks, NeverSpentTwice, DeadIsDead
<1>4. ASSUME NEW p \in Polls, PollBegin(p) \/ PollEnter(p)
      PROVE  LockInv'
  BY <1>2, <1>4 DEF PollBegin, PollEnter
<1>5. ASSUME NEW p \in Polls, PollAnswer(p)
      PROVE  LockInv'
  <2>1. CASE UNCHANGED <<objs, issued, alive>>
    BY <1>2, <1>5, <2>1 DEF PollAnswer
  <2>2. ASSUME NEW o \in Objects \ Referred,
               issued' = issued + 1, alive' = alive \cup {issued'},
               objs' = [objs EXCEPT ![o] = issued']
        PROVE  LockInv'
    <3>1. UNCHANGED proc
      BY <1>5 DEF PollAnswer
    <3>2. \A q \in Procs :
            proc[q].at # "idle" => objs'[proc[q].obj] = objs[proc[q].obj]
      BY <1>1, <2>2 DEF Referred
    <3>3. \A t \in alive' : t \in alive \/ t \notin Issued
      BY <2>2, NewIssue DEF LockInv
    <3> QED BY <3>1, <3>2, <3>3, LockFrame
  <2> QED BY <1>5, <2>1, <2>2 DEF PollAnswer
<1>6. ASSUME NEW p \in Polls, PollSave(p) \/ PollAdd(p) \/ PollEnable(p)
      PROVE  LockInv'
  BY <1>3, <1>6 DEF PollSave, PollAdd, PollEnable
<1>7. CASE LoginStart \/ LoginExpires \/ MoveFile \/ LoadDir
           \/ \E mark \in BOOLEAN : Switch(mark)
  BY <1>2, <1>7 DEF LoginStart, LoginExpires, MoveFile, LoadDir, Switch
<1>8. CASE SyncToDir
  <2>1. CASE Collect(objs)
    BY <1>3, <1>8, <2>1 DEF SyncToDir
  <2>2. ASSUME NEW c, NEW o \in Objects \ Referred,
               Collect([objs EXCEPT ![o] = c])
        PROVE  LockInv'
    <3>1. \A x \in Objects :
            x \in Referred => [objs EXCEPT ![o] = c][x] = objs[x]
      BY <1>1, <2>2
    <3> QED BY <1>3, <1>8, <2>2, <3>1 DEF SyncToDir
  <2> QED BY <1>8, <2>1, <2>2 DEF SyncToDir
<1>9. CASE \E t \in Tokens : Revoke(t)
  BY <1>2, <1>9 DEF Revoke
<1>10. CASE Restart
  <2>1. \A p \in Procs : proc'[p].at = "idle"
    BY <1>10 DEF Restart, Idle
  <2> QED BY <2>1 DEF LockInv, OneAsks, NeverSpentTwice, DeadIsDead
<1>11. CASE UNCHANGED credVars
  BY <1>2, <1>11 DEF credVars
<1> QED
  BY <1>4, <1>5, <1>6, <1>7, <1>8, <1>9, <1>10, <1>11 DEF PollStep, Operator

LEMMA StepLock == LockInv /\ [CredNext]_credVars => LockInv'
BY StepType, ProcStepLock, OtherStepLock DEF CredNext, LockInv

(* Nobody sends a refresh token that somebody else has exchanged through   *)
(* the same object.                                                        *)
THEOREM NeverSpentTwiceCorrect == CredSpec => []NeverSpentTwice
<1>1. LockInv => NeverSpentTwice
  BY DEF LockInv
<1> QED BY <1>1, InitLock, StepLock, PTL DEF CredSpec

-----------------------------------------------------------------------------
(* What disables the account. *)

LEMMA DisabledBy ==
  ASSUME LockInv, [CredNext]_credVars, ~disabled, disabled'
  PROVE  \/ Switch(TRUE)
         \/ \E p \in Procs : Verdict(p)
<1>1. ASSUME NEW p \in Procs, ProcStep(p)
      PROVE  Verdict(p)
  BY <1>1
     DEF ProcStep, Take, Ask, Exchange, RefreshFails, AnswerLost, Refused, Save
<1>2. ASSUME NEW p \in Polls
      PROVE  ~PollStep(p)
  BY DEF PollStep, PollBegin, PollEnter, PollAnswer, PollSave, PollAdd,
         PollEnable
<1>3. ~LoginStart /\ ~LoginExpires /\ ~MoveFile /\ ~LoadDir /\ ~SyncToDir
  BY DEF LoginStart, LoginExpires, MoveFile, LoadDir, SyncToDir
<1>4. ASSUME NEW mark \in BOOLEAN, Switch(mark)
      PROVE  Switch(TRUE)
  BY <1>4 DEF Switch
<1>5. /\ \A t \in Tokens : ~Revoke(t)
      /\ ~Restart
      /\ ~UNCHANGED credVars
  BY DEF Revoke, Restart, credVars
<1> QED BY <1>1, <1>2, <1>3, <1>4, <1>5 DEF CredNext, Operator

(* A working account is disabled by the operator, or by a verdict on an    *)
(* object that was replaced meanwhile.                                     *)
THEOREM DisabledOnlyIfDeadCorrect == CredSpec => DisabledOnlyIfDead
<1>1. LockInv /\ [CredNext]_credVars =>
        [pool # Nil /\ ~disabled /\ disabled' /\ Current \in alive =>
           \/ Switch(TRUE)
           \/ \E p \in Procs : Verdict(p) /\ proc[p].obj # pool]_credVars
  <2> SUFFICES ASSUME LockInv, [CredNext]_credVars, ~disabled, disabled',
                      Current \in alive
               PROVE  \/ Switch(TRUE)
                      \/ \E p \in Procs : Verdict(p) /\ proc[p].obj # pool
    OBVIOUS
  <2>1. ASSUME NEW p \in Procs, Verdict(p)
        PROVE  proc[p].obj # pool
    BY <2>1 DEF Verdict, LockInv, DeadIsDead, Current
  <2> QED BY <2>1, DisabledBy
<1> QED BY <1>1, InitLock, StepLock, PTL DEF CredSpec, DisabledOnlyIfDead

-----------------------------------------------------------------------------
(* One login per session. *)

LEMMA InitPoll == CredInit => PollInv
BY InitType DEF CredInit, PollIdle, PollInv, InSession

(* Poll p is in the session or leaves it; the others are not in it, and    *)
(* stay out.                                                               *)
LEMMA PollFrame ==
  ASSUME PollInv, TypeInv', NEW p \in Polls,
         \A q \in Polls : q # p => ~InSession(q) /\ poll'[q] = poll[q],
         InSession(p)' => login'
  PROVE  PollInv'
BY DEF PollInv, InSession

LEMMA StepPoll == PollInv /\ [CredNext]_credVars => PollInv'
<1> SUFFICES ASSUME PollInv, [CredNext]_credVars
             PROVE  PollInv'
  OBVIOUS
<1>1. TypeInv'
  BY StepType DEF PollInv
<1>2. poll \in [Polls -> [at  : {"idle", "waiting", "asking", "save", "add",
                                "enable"},
                         obj : Object]]
  BY DEF PollInv, TypeInv, PollType
<1>3. ASSUME UNCHANGED <<poll, login>>
      PROVE  PollInv'
  BY <1>1, <1>3 DEF PollInv, InSession
<1>4. ASSUME NEW p \in Polls, InSession(p)
      PROVE  login /\ \A q \in Polls : q # p => ~InSession(q)
  BY <1>4 DEF PollInv
<1>5. ASSUME NEW p \in Polls, PollBegin(p)
      PROVE  PollInv'
  <2>1. /\ ~InSession(p)' /\ UNCHANGED login
        /\ \A q \in Polls : q # p => poll'[q] = poll[q]
    BY <1>2, <1>5 DEF PollBegin, InSession
  <2> QED BY <1>1, <2>1 DEF PollInv, InSession
<1>6. ASSUME NEW p \in Polls, PollEnter(p)
      PROVE  PollInv'
  <2>1. /\ poll'[p].at = (IF login THEN "asking" ELSE "idle")
        /\ \A q \in Polls : q # p => poll'[q] = poll[q]
    BY <1>2, <1>6 DEF PollEnter
  <2>2. \A q \in Polls : ~InSession(q)
    BY <1>2, <1>6 DEF PollEnter, PollLocked, InSession
  <2>3. InSession(p)' => login'
    BY <1>6, <2>1 DEF PollEnter, InSession
  <2> QED BY <1>1, <2>1, <2>2, <2>3, PollFrame
<1>7. ASSUME NEW p \in Polls, PollAnswer(p)
      PROVE  PollInv'
  <2>1. InSession(p)
    BY <1>7 DEF PollAnswer, InSession
  <2>2. \A q \in Polls : q # p => poll'[q] = poll[q]
    BY <1>2, <1>7 DEF PollAnswer
  <2>3. InSession(p)' => login'
    <3>1. CASE poll' = [poll EXCEPT ![p] = PollIdle]
      BY <1>2, <3>1 DEF InSession, PollIdle
    <3>2. CASE UNCHANGED login
      BY <1>4, <2>1, <3>2
    <3> QED BY <1>7, <3>1, <3>2 DEF PollAnswer
  <2> QED BY <1>1, <1>4, <2>1, <2>2, <2>3, PollFrame
<1>8. ASSUME NEW p \in Polls, PollSave(p) \/ PollAdd(p) \/ PollEnable(p)
      PROVE  PollInv'
  <2>1. InSession(p)
    BY <1>8 DEF PollSave, PollAdd, PollEnable, InSession
  <2>2. \A q \in Polls : q # p => poll'[q] = poll[q]
    BY <1>2, <1>8 DEF PollSave, PollAdd, PollEnable
  <2>3. InSession(p)' => login'
    <3>1. CASE poll' = [poll EXCEPT ![p] = PollIdle]
      BY <1>2, <3>1 DEF InSession, PollIdle
    <3>2. CASE UNCHANGED login
      BY <1>4, <2>1, <3>2
    <3> QED BY <1>8, <3>1, <3>2 DEF PollSave, PollAdd, PollEnable
  <2> QED BY <1>1, <1>4, <2>1, <2>2, <2>3, PollFrame
<1>9. CASE LoginStart \/ LoginExpires
  <2>1. \A p \in Polls : ~InSession(p)
    BY <1>9 DEF LoginStart, LoginExpires, InSession
  <2> QED BY <1>1, <1>9, <2>1 DEF LoginStart, LoginExpires, PollInv, InSession
<1>10. CASE Restart
  BY <1>1, <1>10 DEF Restart, PollIdle, PollInv, InSession
<1>11. ASSUME NEW p \in Procs, ProcStep(p)
       PROVE  PollInv'
  BY <1>3, <1>11
     DEF ProcStep, Take, Ask, Exchange, RefreshFails, AnswerLost, Refused,
         Verdict, Save
<1>12. CASE \/ MoveFile \/ LoadDir \/ SyncToDir
            \/ \E mark \in BOOLEAN : Switch(mark)
            \/ \E t \in Tokens : Revoke(t)
            \/ UNCHANGED credVars
  BY <1>3, <1>12 DEF MoveFile, LoadDir, SyncToDir, Switch, Revoke, credVars
<1> QED
  BY <1>5, <1>6, <1>7, <1>8, <1>9, <1>10, <1>11, <1>12
     DEF CredNext, PollStep, Operator

(* Once a session has its result, no poll makes other credentials of it.   *)
THEOREM OneLoginPerSessionCorrect == CredSpec => OneLoginPerSession
<1>1. PollInv /\ [CredNext]_credVars =>
        [\A p \in Polls :
           /\ ~login
           /\ poll'[p].at = "save"
           => poll[p].at = "save"]_credVars
  <2> SUFFICES ASSUME PollInv, [CredNext]_credVars, NEW p \in Polls, ~login
               PROVE  poll'[p].at # "save"
    BY DEF PollInv, InSession
  <2>1. poll \in [Polls -> [at  : {"idle", "waiting", "asking", "save", "add",
                                  "enable"},
                           obj : Object]]
    BY DEF PollInv, TypeInv, PollType
  <2>2. \A q \in Polls : ~InSession(q)
    BY DEF PollInv
  <2>3. ASSUME UNCHANGED poll
        PROVE  poll'[p].at # "save"
    BY <2>2, <2>3 DEF InSession
  <2>4. ASSUME NEW q \in Polls, PollStep(q)
        PROVE  poll'[p].at # "save"
    <3>1. PollBegin(q) \/ PollEnter(q)
      BY <2>2, <2>4
         DEF PollStep, PollAnswer, PollSave, PollAdd, PollEnable, InSession
    <3> QED BY <2>1, <2>2, <3>1 DEF PollBegin, PollEnter, InSession
  <2>5. CASE Restart
    BY <2>5 DEF Restart, PollIdle
  <2>6. ASSUME NEW q \in Procs, ProcStep(q)
        PROVE  UNCHANGED poll
    BY <2>6
       DEF ProcStep, Take, Ask, Exchange, RefreshFails, AnswerLost, Refused,
           Verdict, Save
  <2>7. ASSUME Operator \/ (\E t \in Tokens : Revoke(t)) \/ UNCHANGED credVars
        PROVE  UNCHANGED poll
    BY <2>7
       DEF Operator, LoginStart, LoginExpires, MoveFile, LoadDir, SyncToDir,
           Switch, Revoke, credVars
  <2> QED BY <2>3, <2>4, <2>5, <2>6, <2>7 DEF CredNext
<1> QED BY <1>1, InitPoll, StepPoll, PTL DEF CredSpec, OneLoginPerSession

-----------------------------------------------------------------------------
(* The file. *)

(* A step that leaves pool, file, the contents of the pool's object and    *)
(* whatever is to be written as they are.                                  *)
LEMMA DiskFrame ==
  ASSUME OnDisk, UNCHANGED <<pool, file>>,
         pool # Nil => objs'[pool] = objs[pool],
         SavePending => SavePending'
  PROVE  OnDisk'
BY DEF OnDisk, Current

LEMMA PoolKept ==
  ASSUME NEW heap, Collect(heap), pool' \in Objects
  PROVE  objs'[pool'] = heap[pool']
BY DEF Collect, Referred

LEMMA ProcStepDisk ==
  ASSUME TypeInv, NEW p \in Procs, ProcStep(p), OnDisk
  PROVE  \/ OnDisk'
         \/ Save(p) /\ (file' = file \/ proc[p].obj # pool)
<1>1. /\ proc \in [Procs -> [at   : {"idle", "want", "asking", "save", "dead"},
                             obj  : Object,
                             sent : Issued]]
      /\ objs \in [Objects -> Issued]
      /\ pool \in Objects \cup {Nil}
      /\ \A q \in Procs : proc[q].at # "idle" => proc[q].obj \in Objects
  BY DEF TypeInv, HeapType, ProcType, Object
<1>2. ASSUME proc[p].at # "save", UNCHANGED poll,
             \A q \in Procs : q # p => proc'[q] = proc[q]
      PROVE  SavePending /\ UNCHANGED pool => SavePending'
  BY <1>2 DEF SavePending
<1>3. ASSUME NEW q \in Procs, q # p, proc' = [proc EXCEPT ![p] = Idle]
      PROVE  proc'[q] = proc[q]
  BY <1>1, <1>3
<1>4. CASE Take(p) \/ Ask(p) \/ Refused(p)
  <2>1. /\ proc[p].at # "save"
        /\ UNCHANGED <<poll, pool, file, objs>>
        /\ \A q \in Procs : q # p => proc'[q] = proc[q]
    BY <1>1, <1>4 DEF Take, Ask, Refused
  <2> QED BY <1>2, <2>1, DiskFrame
<1>5. CASE Exchange(p)
  <2>1. /\ proc[p].at # "save"
        /\ UNCHANGED <<poll, pool, file>>
        /\ \A q \in Procs : q # p => proc'[q] = proc[q]
        /\ proc'[p].at = "save" /\ proc'[p].obj = proc[p].obj
    BY <1>1, <1>5 DEF Exchange
  <2>2. CASE proc[p].obj = pool
    BY <2>1, <2>2 DEF OnDisk, SavePending
  <2>3. CASE proc[p].obj # pool
    <3>1. pool # Nil => objs'[pool] = objs[pool]
      BY <1>1, <1>5, <2>3 DEF Exchange
    <3> QED BY <1>2, <2>1, <3>1, DiskFrame
  <2> QED BY <2>2, <2>3
<1>6. CASE RefreshFails(p) \/ AnswerLost(p) \/ Verdict(p)
  <2>1. /\ proc[p].at # "save"
        /\ UNCHANGED <<poll, pool, file>>
        /\ proc' = [proc EXCEPT ![p] = Idle]
        /\ Collect(objs)
    BY <1>6 DEF RefreshFails, AnswerLost, Verdict
  <2>2. pool # Nil => objs'[pool] = objs[pool]
    BY <1>1, <2>1, PoolKept
  <2> QED BY <1>2, <1>3, <2>1, <2>2, DiskFrame
<1>7. CASE Save(p)
  <2>1. UNCHANGED pool /\ Collect(objs)
    BY <1>7 DEF Save
  <2>2. pool # Nil => objs'[pool] = objs[pool]
    BY <1>1, <2>1, PoolKept
  <2>3. CASE file' = objs[proc[p].obj] /\ proc[p].obj = pool
    BY <2>1, <2>2, <2>3 DEF OnDisk, Current
  <2> QED BY <1>7, <2>3 DEF Save
<1> QED BY <1>4, <1>5, <1>6, <1>7 DEF ProcStep

LEMMA PollStepDisk ==
  ASSUME TypeInv, NEW p \in Polls, PollStep(p), OnDisk
  PROVE  \/ OnDisk'
         \/ PollAdd(p) /\ file # objs[poll[p].obj]
<1>1. /\ poll \in [Polls -> [at  : {"idle", "waiting", "asking", "save", "add",
                                    "enable"},
                             obj : Object]]
      /\ objs \in [Objects -> Issued]
      /\ pool \in Objects \cup {Nil}
      /\ poll[p].at \in {"save", "add", "enable"} => poll[p].obj \in Objects
  BY DEF TypeInv, HeapType, PollType, Object
<1>2. UNCHANGED proc
  BY DEF PollStep, PollBegin, PollEnter, PollAnswer, PollSave, PollAdd,
         PollEnable
<1>3. ASSUME poll[p].at # "add", UNCHANGED pool,
             \A q \in Polls : q # p => poll'[q] = poll[q]
      PROVE  SavePending => SavePending'
  BY <1>2, <1>3 DEF SavePending
<1>4. CASE PollBegin(p) \/ PollEnter(p)
  <2>1. /\ poll[p].at # "add" /\ UNCHANGED <<pool, file, objs>>
        /\ \A q \in Polls : q # p => poll'[q] = poll[q]
    BY <1>1, <1>4 DEF PollBegin, PollEnter
  <2> QED BY <1>3, <2>1, DiskFrame
<1>5. CASE PollAnswer(p)
  <2>1. /\ poll[p].at # "add" /\ UNCHANGED <<pool, file>>
        /\ \A q \in Polls : q # p => poll'[q] = poll[q]
    BY <1>1, <1>5 DEF PollAnswer
  <2>2. pool # Nil => objs'[pool] = objs[pool]
    BY <1>1, <1>5 DEF PollAnswer, Referred
  <2> QED BY <1>3, <2>1, <2>2, DiskFrame
<1>6. CASE PollEnable(p)
  <2>1. /\ poll[p].at # "add" /\ UNCHANGED <<pool, file>> /\ Collect(objs)
        /\ \A q \in Polls : q # p => poll'[q] = poll[q]
    BY <1>1, <1>6 DEF PollEnable
  <2>2. pool # Nil => objs'[pool] = objs[pool]
    BY <1>1, <2>1, PoolKept
  <2> QED BY <1>3, <2>1, <2>2, DiskFrame
<1>7. CASE PollSave(p)
  <2>1. CASE poll' = [poll EXCEPT ![p].at = "add"]
    <3>1. poll'[p].at = "add"
      BY <1>1, <2>1
    <3> QED BY <3>1 DEF OnDisk, SavePending
  <2>2. CASE poll' = [poll EXCEPT ![p] = PollIdle] /\ UNCHANGED file
    <3>1. /\ poll[p].at # "add" /\ UNCHANGED pool /\ Collect(objs)
          /\ \A q \in Polls : q # p => poll'[q] = poll[q]
      BY <1>1, <1>7, <2>2 DEF PollSave
    <3>2. pool # Nil => objs'[pool] = objs[pool]
      BY <1>1, <3>1, PoolKept
    <3> QED BY <1>3, <2>2, <3>1, <3>2, DiskFrame
  <2> QED BY <1>7, <2>1, <2>2 DEF PollSave
<1>8. CASE PollAdd(p)
  <2>1. objs'[pool'] = objs[poll[p].obj] /\ UNCHANGED file
    BY <1>1, <1>8, PoolKept DEF PollAdd
  <2> QED BY <1>8, <2>1 DEF OnDisk, Current
<1> QED BY <1>4, <1>5, <1>6, <1>7, <1>8 DEF PollStep

LEMMA OtherStepDisk ==
  ASSUME TypeInv, OnDisk,
         \/ Operator
         \/ \E t \in Tokens : Revoke(t)
         \/ Restart
         \/ UNCHANGED credVars
  PROVE  \/ OnDisk'
         \/ MoveFile
         \/ SyncToDir /\ scan.is # {file}
<1>1. ASSUME UNCHANGED <<objs, pool, file, proc, poll>>
      PROVE  OnDisk'
  BY <1>1 DEF OnDisk, SavePending, Current
<1>2. CASE LoginStart \/ LoginExpires \/ LoadDir
           \/ \E mark \in BOOLEAN : Switch(mark)
  BY <1>1, <1>2 DEF LoginStart, LoginExpires, LoadDir, Switch
<1>3. CASE (\E t \in Tokens : Revoke(t)) \/ UNCHANGED credVars
  BY <1>1, <1>3 DEF Revoke, credVars
<1>4. CASE SyncToDir
  <2>1. CASE pool' = Nil
    BY <2>1 DEF OnDisk
  <2>2. ASSUME NEW c \in scan.is, NEW o \in Objects \ Referred, pool' = o,
               Collect([objs EXCEPT ![o] = c]), scan.is = {file}
        PROVE  OnDisk'
    <3>1. objs'[pool'] = [objs EXCEPT ![o] = c][o]
      BY <2>2, PoolKept
    <3>2. objs'[pool'] = file /\ UNCHANGED file
      BY <1>4, <2>2, <3>1 DEF TypeInv, HeapType, SyncToDir
    <3> QED BY <3>2 DEF OnDisk, Current
  <2> QED BY <1>4, <2>1, <2>2 DEF SyncToDir
<1>5. CASE Restart
  <2>1. CASE pool' = Nil
    BY <2>1 DEF OnDisk
  <2>2. CASE pool' \in Objects /\ file # Nil
    <3>1. objs'[pool'] = [o \in Objects |-> file][pool']
      BY <1>5, <2>2, PoolKept DEF Restart
    <3> QED BY <1>5, <2>2, <3>1 DEF Restart, OnDisk, Current
  <2> QED BY <1>5, <2>1, <2>2 DEF Restart
<1> QED BY <1>2, <1>3, <1>4, <1>5 DEF Operator

(* Tokens in use that are not on disk and that nobody is about to write    *)
(* come from one of the listed steps only.                                 *)
THEOREM DiskDivergesOnlyByCorrect == CredSpec => DiskDivergesOnlyBy
<1>1. TypeInv /\ [CredNext]_credVars =>
        [OnDisk /\ ~OnDisk' =>
           \/ \E p \in Procs : Save(p) /\ (file' = file \/ proc[p].obj # pool)
           \/ MoveFile
           \/ SyncToDir /\ scan.is # {file}
           \/ \E p \in Polls : PollAdd(p) /\ file # objs[poll[p].obj]]_credVars
  BY ProcStepDisk, PollStepDisk, OtherStepDisk DEF CredNext
<1> QED BY <1>1, InitType, StepType, PTL DEF CredSpec, DiskDivergesOnlyBy
=============================================================================
