----------------------------- MODULE Credentials ----------------------------
(***************************************************************************)
(* The tokens of one account: the Auth objects in memory, the credential   *)
(* file and the refresh tokens the upstream accepts                        *)
(* (src/internal/auth/auth.go, RefreshToken of upstream/client.go).        *)
(*                                                                         *)
(* Chat requests (server/handler.go) and the keepalive round               *)
(* (scheduler/scheduler.go) take the pool's object, refresh its tokens     *)
(* under the lock of the object, and save them under the same lock in a    *)
(* second critical section.  Meanwhile the operator logs in again, which   *)
(* puts a new object into the pool, or deletes this or another account,    *)
(* which scans the directory and replaces every object by what it found    *)
(* there (server/admin_login.go); those who took the old object go on      *)
(* with it.                                                                *)
(*                                                                         *)
(* Accounts share nothing here but the scan.  Credentials (access token,   *)
(* refresh token, expiry) are the number of their issue; alive are those   *)
(* whose refresh token the upstream accepts.  How soon an access token     *)
(* expires is left open: whoever asks may find it fresh or about to end,   *)
(* or ended, as a token can be of any age by then.                         *)
(***************************************************************************)
EXTENDS Integers, FiniteSets

CONSTANTS
  Requests,   \* chat requests
  Keepalive,  \* the round of the scheduler
  Polls,      \* requests for the state of a login
  Objects,    \* addresses of Auth objects, reused when nobody refers to one
  Nil,        \* no object, no file
  MaxTokens   \* bound: credentials issued

ASSUME CredAssumption ==
  /\ Keepalive \notin Requests
  /\ Nil \notin Objects
  /\ MaxTokens \in Nat \ {0}

VARIABLES
  objs,      \* the credentials in each object
  pool,      \* the object of the account's entry in the pool
  disabled,  \* the entry's mark
  file,      \* those in the credential file
  scan,      \* what a deletion's LoadDir has found and not yet applied
  proc,      \* the local variables of requests and keepalive
  login,     \* the login session waits for the user, or not
  poll,      \* the local variables of its polls
  issued,    \* number of credentials issued
  alive      \* those the upstream accepts

credVars == <<objs, pool, disabled, file, scan, proc, login, poll, issued, alive>>

Procs  == Requests \cup {Keepalive}
Tokens == 1..MaxTokens

(* Found by a scan: nothing scanned, no file, or its contents. *)
NotScanned == [found |-> FALSE, is |-> {}]
Scanned(f) == [found |-> TRUE, is |-> IF f = Nil THEN {} ELSE {f}]

Idle     == [at |-> "idle", obj |-> Nil, sent |-> 0]
PollIdle == [at |-> "idle", obj |-> Nil]

-----------------------------------------------------------------------------
Current == objs[pool]

(* The lock of the object is held for the whole call of the upstream. *)
Locked(o) == \E p \in Procs : proc[p].at = "asking" /\ proc[p].obj = o

(* The objects somebody refers to, and the heap without the others. *)
Referred ==
  {pool} \cup {proc[p].obj : p \in Procs} \cup {poll[p].obj : p \in Polls}

Collect(heap) ==
  objs' = [o \in Objects |-> IF o \in Referred' THEN heap[o] ELSE 0]

-----------------------------------------------------------------------------
(* main: LoadDir finds the file of the account. *)
CredInit ==
  /\ pool \in Objects
  /\ objs     = [o \in Objects |-> IF o = pool THEN 1 ELSE 0]
  /\ disabled = FALSE
  /\ file     = 1
  /\ scan     = NotScanned
  /\ proc     = [p \in Procs |-> Idle]
  /\ login    = FALSE
  /\ poll     = [p \in Polls |-> PollIdle]
  /\ issued   = 1
  /\ alive    = {1}

-----------------------------------------------------------------------------
(* A request has a lease on the account and NeedsRefresh finds its token   *)
(* about to expire; the keepalive round comes to the account, whatever its *)
(* age.                                                                    *)
Take(p) ==
  /\ proc[p].at = "idle"
  /\ pool # Nil /\ ~disabled
  /\ proc' = [proc EXCEPT ![p] = [at |-> "want", obj |-> pool, sent |-> 0]]
  /\ UNCHANGED <<objs, pool, disabled, file, scan, login, poll, issued, alive>>

(* Fault: the lock is only taken to store the answer. *)
AskUnlocked(p) ==
  /\ proc[p].at = "want"
  /\ proc' = [proc EXCEPT ![p].at = "asking",
                          ![p].sent = objs[proc[p].obj]]
  /\ UNCHANGED <<objs, pool, disabled, file, scan, login, poll, issued, alive>>

(* RefreshToken: takes the lock and sends the object's refresh token. *)
Ask(p) ==
  /\ proc[p].at = "want" /\ ~Locked(proc[p].obj)
  /\ proc' = [proc EXCEPT ![p].at = "asking",
                          ![p].sent = objs[proc[p].obj]]
  /\ UNCHANGED <<objs, pool, disabled, file, scan, login, poll, issued, alive>>

(* The upstream exchanges the token.  The object takes what the answer     *)
(* has; it keeps its refresh token if the answer has none, and its expiry  *)
(* likewise.  The upstream may go on accepting the old refresh token.      *)
Exchange(p) ==
  /\ proc[p].at = "asking" /\ proc[p].sent \in alive /\ issued < MaxTokens
  /\ issued' = issued + 1
  /\ \E old \in {{}, {proc[p].sent}} : alive' = (alive \ old) \cup {issued'}
  /\ objs' = [objs EXCEPT ![proc[p].obj] = issued']
  /\ proc' = [proc EXCEPT ![p].at = "save", ![p].sent = 0]
  /\ UNCHANGED <<pool, disabled, file, scan, login, poll>>

(* Fault: whatever goes wrong, the refresh token is taken for dead. *)
RefreshFailsDead(p) ==
  /\ proc[p].at = "asking"
  /\ proc' = [proc EXCEPT ![p].at = "dead"]
  /\ UNCHANGED <<objs, pool, disabled, file, scan, login, poll, issued, alive>>

(* Transport error, server error or timeout: the request counts it against *)
(* the account (NoteError, in Pool) and rotates, the round goes on.        *)
RefreshFails(p) ==
  /\ proc[p].at = "asking"
  /\ proc' = [proc EXCEPT ![p] = Idle]
  /\ UNCHANGED <<pool, disabled, file, scan, login, poll, issued, alive>>
  /\ Collect(objs)

(* The upstream has exchanged the token but its answer is lost. *)
AnswerLost(p) ==
  /\ proc[p].at = "asking" /\ proc[p].sent \in alive /\ issued < MaxTokens
  /\ issued' = issued + 1
  /\ alive'  = (alive \ {proc[p].sent}) \cup {issued'}
  /\ proc'   = [proc EXCEPT ![p] = Idle]
  /\ UNCHANGED <<pool, disabled, file, scan, login, poll>>
  /\ Collect(objs)

(* Session dead (12153): the refresh token is not accepted any more. *)
Refused(p) ==
  /\ proc[p].at = "asking" /\ proc[p].sent \notin alive
  /\ proc' = [proc EXCEPT ![p].at = "dead", ![p].sent = 0]
  /\ UNCHANGED <<objs, pool, disabled, file, scan, login, poll, issued, alive>>

(* The verdict is applied to the account, whose object may be another one  *)
(* by now.  The keepalive leaves it enabled (NoteReason) if the access     *)
(* token of the object it asked for has not expired.                       *)
Verdict(p) ==
  /\ proc[p].at = "dead"
  /\ \/ disabled' = (disabled \/ pool # Nil)
     \/ p = Keepalive /\ UNCHANGED disabled
  /\ proc' = [proc EXCEPT ![p] = Idle]
  /\ UNCHANGED <<pool, file, scan, login, poll, issued, alive>>
  /\ Collect(objs)

(* SaveAtomic writes the present contents of the object, in a file that    *)
(* replaces the old one, also if that was moved away; or fails, which is   *)
(* only logged.                                                            *)
Save(p) ==
  /\ proc[p].at = "save" /\ ~Locked(proc[p].obj)
  /\ \/ file' = objs[proc[p].obj]
     \/ UNCHANGED file
  /\ proc' = [proc EXCEPT ![p] = Idle]
  /\ UNCHANGED <<pool, disabled, scan, login, poll, issued, alive>>
  /\ Collect(objs)

-----------------------------------------------------------------------------
(* adminLoginStart: a new session, on which nobody polls yet.  A session   *)
(* that has its result or error only repeats it, as one that is not there  *)
(* answers with an error.                                                  *)
LoginStart ==
  /\ ~login
  /\ \A p \in Polls : poll[p].at = "idle"
  /\ login' = TRUE
  /\ UNCHANGED <<objs, pool, disabled, file, scan, proc, poll, issued, alive>>

(* adminLoginPoll looks the session up. *)
PollBegin(p) ==
  /\ poll[p].at = "idle" /\ login
  /\ poll' = [poll EXCEPT ![p].at = "waiting"]
  /\ UNCHANGED <<objs, pool, disabled, file, scan, proc, login, issued, alive>>

(* The lock of the session is held to the end of the poll. *)
PollLocked == \E p \in Polls : poll[p].at \notin {"idle", "waiting"}

(* Fault: whether there is a result is not looked at under the lock. *)
PollEnterBlind(p) ==
  /\ poll[p].at = "waiting" /\ ~PollLocked
  /\ poll' = [poll EXCEPT ![p].at = "asking"]
  /\ UNCHANGED <<objs, pool, disabled, file, scan, proc, login, issued, alive>>

(* A session with a result or an error answers that again. *)
PollEnter(p) ==
  /\ poll[p].at = "waiting" /\ ~PollLocked
  /\ poll' = [poll EXCEPT ![p].at = IF login THEN "asking" ELSE "idle"]
  /\ UNCHANGED <<objs, pool, disabled, file, scan, proc, login, issued, alive>>

(* flow.Poll: pending; an error, which ends the session; or credentials. *)
PollAnswer(p) ==
  /\ poll[p].at = "asking"
  /\ \/ /\ poll' = [poll EXCEPT ![p] = PollIdle]
        /\ login' \in {login, FALSE}
        /\ UNCHANGED <<objs, issued, alive>>
     \/ /\ issued < MaxTokens
        /\ issued' = issued + 1
        /\ alive'  = alive \cup {issued'}
        /\ \E o \in Objects \ Referred :
             /\ objs' = [objs EXCEPT ![o] = issued']
             /\ poll' = [poll EXCEPT ![p] = [at |-> "save", obj |-> o]]
        /\ UNCHANGED login
  /\ UNCHANGED <<pool, disabled, file, scan, proc>>

(* saveLoginAuth: the file, which may fail. *)
PollSave(p) ==
  /\ poll[p].at = "save"
  /\ \/ /\ file'  = objs[poll[p].obj]
        /\ poll'  = [poll EXCEPT ![p].at = "add"]
        /\ UNCHANGED login
     \/ /\ login' = FALSE
        /\ poll'  = [poll EXCEPT ![p] = PollIdle]
        /\ UNCHANGED file
  /\ UNCHANGED <<pool, disabled, scan, proc, issued, alive>>
  /\ Collect(objs)

(* Fault: an account that is in the pool keeps its object. *)
PollAddKeeps(p) ==
  /\ poll[p].at = "add"
  /\ pool' = IF pool = Nil THEN poll[p].obj ELSE pool
  /\ disabled' = IF pool = Nil THEN FALSE ELSE disabled
  /\ poll' = [poll EXCEPT ![p].at = "enable"]
  /\ UNCHANGED <<file, scan, proc, login, issued, alive>>
  /\ Collect(objs)

(* Pool.Add: only the object of an entry that exists is replaced. *)
PollAdd(p) ==
  /\ poll[p].at = "add"
  /\ pool' = poll[p].obj
  /\ disabled' = IF pool = Nil THEN FALSE ELSE disabled
  /\ poll' = [poll EXCEPT ![p].at = "enable"]
  /\ UNCHANGED <<file, scan, proc, login, issued, alive>>
  /\ Collect(objs)

(* Pool.Enable; then the session has its result. *)
PollEnable(p) ==
  /\ poll[p].at = "enable"
  /\ disabled' = FALSE
  /\ login' = FALSE
  /\ poll' = [poll EXCEPT ![p] = PollIdle]
  /\ UNCHANGED <<pool, file, scan, proc, issued, alive>>
  /\ Collect(objs)

(* loginSessionTTL is over.  A poll under way goes on with the session it  *)
(* has looked up, as if it were still there.                               *)
LoginExpires ==
  /\ login
  /\ \A p \in Polls : poll[p].at = "idle"
  /\ login' = FALSE
  /\ UNCHANGED <<objs, pool, disabled, file, scan, proc, poll, issued, alive>>

-----------------------------------------------------------------------------
(* adminAccountDelete: the file goes to the trash, then LoadDir. *)
MoveFile ==
  /\ pool # Nil /\ file # Nil
  /\ file' = Nil
  /\ UNCHANGED <<objs, pool, disabled, scan, proc, login, poll, issued, alive>>

(* LoadDir of the deletion of this or of another account. *)
LoadDir ==
  /\ ~scan.found
  /\ scan' = Scanned(file)
  /\ UNCHANGED <<objs, pool, disabled, file, proc, login, poll, issued, alive>>

(* Pool.SyncToDir with what the scan has found: every object is replaced,  *)
(* an account without file is dropped.                                     *)
SyncToDir ==
  /\ scan.found
  /\ scan' = NotScanned
  /\ UNCHANGED <<file, proc, login, poll, issued, alive>>
  /\ \/ /\ scan.is = {}
        /\ pool' = Nil /\ disabled' = FALSE
        /\ Collect(objs)
     \/ \E c \in scan.is, o \in Objects \ Referred :
          /\ pool' = o
          /\ disabled' = IF pool = Nil THEN FALSE ELSE disabled
          /\ Collect([objs EXCEPT ![o] = c])

(* adminAccountDisable, adminAccountEnable. *)
Switch(mark) ==
  /\ pool # Nil
  /\ disabled' = mark
  /\ UNCHANGED <<objs, pool, file, scan, proc, login, poll, issued, alive>>

(* The user logs out elsewhere, or the session ends upstream. *)
Revoke(t) ==
  /\ t \in alive
  /\ alive' = alive \ {t}
  /\ UNCHANGED <<objs, pool, disabled, file, scan, proc, login, poll, issued>>

(* The process dies and starts again from the directory; state.json keeps  *)
(* the mark of an account (PoolPersist).                                   *)
Restart ==
  /\ proc' = [p \in Procs |-> Idle]
  /\ poll' = [p \in Polls |-> PollIdle]
  /\ login' = FALSE
  /\ scan' = NotScanned
  /\ \/ /\ file = Nil
        /\ pool' = Nil /\ disabled' = FALSE
     \/ /\ file # Nil
        /\ pool' \in Objects
        /\ UNCHANGED disabled
  /\ Collect([o \in Objects |-> file])
  /\ UNCHANGED <<file, issued, alive>>

-----------------------------------------------------------------------------
ProcStep(p) ==
  \/ Take(p) \/ Ask(p) \/ Exchange(p) \/ RefreshFails(p) \/ AnswerLost(p)
  \/ Refused(p) \/ Verdict(p) \/ Save(p)

PollStep(p) ==
  \/ PollBegin(p) \/ PollEnter(p) \/ PollAnswer(p)
  \/ PollSave(p) \/ PollAdd(p) \/ PollEnable(p)

Operator ==
  \/ LoginStart \/ LoginExpires
  \/ MoveFile \/ LoadDir \/ SyncToDir
  \/ \E mark \in BOOLEAN : Switch(mark)

CredNext ==
  \/ \E p \in Procs : ProcStep(p)
  \/ \E p \in Polls : PollStep(p)
  \/ Operator
  \/ \E t \in Tokens : Revoke(t)
  \/ Restart

CredSpec == CredInit /\ [][CredNext]_credVars

-----------------------------------------------------------------------------
(* However many requests and rounds see the same token expire, none sends  *)
(* a refresh token that another one has exchanged through the same object: *)
(* that would be answered with session dead and disable a working account. *)
NeverSpentTwice ==
  \A p \in Procs : proc[p].at = "asking" => proc[p].sent = objs[proc[p].obj]

(* Somebody is about to write what the pool has. *)
SavePending ==
  \/ \E p \in Procs : proc[p].at = "save" /\ proc[p].obj = pool
  \/ \E p \in Polls : poll[p].at = "add"

OnDisk == pool = Nil \/ SavePending \/ file = Current

(* The tokens in use are on disk, or somebody is about to write them, in   *)
(* whichever order refreshes and saves of several requests overtake each   *)
(* other: only a failed write, the late save of an object that was         *)
(* replaced, a deletion, and two logins or scans that overtake a save      *)
(* make the file differ.                                                   *)
DiskDivergesOnlyBy ==
  [][OnDisk /\ ~OnDisk' =>
       \/ \E p \in Procs : Save(p) /\ (file' = file \/ proc[p].obj # pool)
       \/ MoveFile
       \/ SyncToDir /\ scan.is # {file}
       \/ \E p \in Polls : PollAdd(p) /\ file # objs[poll[p].obj]]_credVars

(* An account whose refresh token works is disabled only by the operator,  *)
(* or by a verdict on an object that was replaced while it was asked for.  *)
DisabledOnlyIfDead ==
  [][pool # Nil /\ ~disabled /\ disabled' /\ Current \in alive =>
       \/ Switch(TRUE)
       \/ \E p \in Procs : Verdict(p) /\ proc[p].obj # pool]_credVars

(* A login session yields one login however many polls run at once: once   *)
(* it has its result no poll makes other credentials of it.                *)
OneLoginPerSession ==
  [][\A p \in Polls :
       /\ ~login
       /\ poll'[p].at = "save"
       => poll[p].at = "save"]_credVars

-----------------------------------------------------------------------------
(* A statement of the CHANGELOG which the code does not keep. *)

(* The file of a deleted account is in the trash until somebody moves it   *)
(* back or the account is logged in again: a refresh that was under way    *)
(* when it was deleted does not bring it back.                             *)
DeletedStaysDeleted ==
  [][file = Nil /\ file' # Nil => \E p \in Polls : PollSave(p)]_credVars
=============================================================================
