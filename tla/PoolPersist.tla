---------------------------- MODULE PoolPersist ----------------------------
(***************************************************************************)
(* How the account pool survives restarts: the local state.json, the       *)
(* dirty flag and its flusher, the copy mirrored to Redis, the choice      *)
(* between the two at start-up, and the alignment with the directory of    *)
(* credential files (src/internal/pool/pool.go, cmd/server/main.go,        *)
(* server/admin_login.go, redisstore/redisstore.go).                       *)
(*                                                                         *)
(* What a record holds (credits, cooldown, disabled mark, counters) is     *)
(* abstracted to a number that identifies the change that produced it; 0   *)
(* is the record of zero values of an account just added.  The pool, a     *)
(* saved file and a mirrored snapshot are functions from the accounts they *)
(* know to such numbers.                                                   *)
(*                                                                         *)
(* Every save happens under p.mu and counts as one instant: the mtime of   *)
(* the file and the saved_at of the snapshot made from it, which the code  *)
(* takes right after the rename.  Two saves are assumed to be further      *)
(* apart than the resolution of the file system's mtime.                   *)
(***************************************************************************)
EXTENDS Naturals, FiniteSets

CONSTANTS
  Accounts,     \* uids
  NoAccount,    \* no login under way
  MaxChanges,   \* bound: changes of records, logins and deletions
  MaxRestarts   \* bound: how often the process ends

ASSUME PersistAssumption ==
  /\ NoAccount \notin Accounts
  /\ MaxChanges \in Nat
  /\ MaxRestarts \in Nat

VARIABLES
  proc,      \* where the process is between start-up and exit
  mem,       \* byUID
  dirty,     \* the dirty flag
  failing,   \* persistFails > 0: the last save failed
  disk,      \* state.json; mtime 0: there is none
  mirror,    \* the snapshot in Redis; savedAt 0: there is none
  writes,    \* snapshots handed to SaveState that have not reached Redis
  files,     \* the accounts with a credential file
  listing,   \* {S} while LoadDir has returned S to the deletion (or the
             \* start-up) under way, {} while there is none
  login,     \* the account whose credentials are saved but not yet added
  instant,   \* the number of saves so far
  changes,   \* the number of changes so far
  restarts

persistVars == <<proc, mem, dirty, failing, disk, mirror, writes, files,
                 listing, login, instant, changes, restarts>>
records == <<mem, dirty, failing, disk, writes, instant>>

Contents == UNION {[S -> 0..MaxChanges] : S \in SUBSET Accounts}
NoRecords == [a \in {} |-> 0]

Starting == {"loaded", "restored"}
Serving  == {"running", "stopping", "closed"}

(* Every record of c that says something is in d. *)
Covers(d, c) ==
  \A a \in DOMAIN c : c[a] > 0 => a \in DOMAIN d /\ d[a] = c[a]

Saved == Covers(disk.accounts, mem)

-----------------------------------------------------------------------------
PersistInit ==
  /\ proc     = "down"
  /\ mem      = NoRecords
  /\ dirty    = FALSE
  /\ failing  = FALSE
  /\ disk     = [accounts |-> NoRecords, mtime |-> 0]
  /\ mirror   = [accounts |-> NoRecords, savedAt |-> 0]
  /\ writes   = {}
  /\ files    \in SUBSET Accounts
  /\ listing  = {}
  /\ login    = NoAccount
  /\ instant  = 0
  /\ changes  = 0
  /\ restarts = 0

-----------------------------------------------------------------------------
(* Fault: the snapshot is not stamped. *)
SaveUnstamped(c) ==
  \/ /\ instant' = instant + 1
     /\ disk'    = [accounts |-> c, mtime |-> instant']
     /\ writes'  = writes \cup {[accounts |-> c, savedAt |-> 0]}
     /\ failing' = FALSE
  \/ /\ failing' = TRUE
     /\ UNCHANGED <<disk, writes, instant>>

(* saveLocked with the pool's contents c: the temporary file is written    *)
(* and renamed, then the snapshot goes to Redis in the background; when    *)
(* any step fails the old file stays and nothing is mirrored.              *)
SaveLocked(c) ==
  \/ /\ instant' = instant + 1
     /\ disk'    = [accounts |-> c, mtime |-> instant']
     /\ writes'  = writes \cup {[accounts |-> c, savedAt |-> instant']}
     /\ failing' = FALSE
  \/ /\ failing' = TRUE
     /\ UNCHANGED <<disk, writes, instant>>

(* Flush, also the body of the flusher's tick: the flag is taken down      *)
(* before the save.                                                        *)
Flush ==
  IF dirty
  THEN dirty' = FALSE /\ SaveLocked(mem)
  ELSE UNCHANGED <<dirty, failing, disk, writes, instant>>

(* A tick already due may still run while Close is stopping the flusher.   *)
Flusher ==
  /\ proc # "down"
  /\ dirty
  /\ Flush
  /\ UNCHANGED <<proc, mem, mirror, files, listing, login, changes, restarts>>

(* Fault: the flag is forgotten when the record is one that was new. *)
ChangeForgets(a) ==
  /\ proc \in Serving
  /\ a \in DOMAIN mem
  /\ changes < MaxChanges
  /\ changes' = changes + 1
  /\ mem'     = [mem EXCEPT ![a] = changes']
  /\ dirty'   = (dirty \/ mem[a] > 0)
  /\ UNCHANGED <<proc, failing, disk, mirror, writes, files, listing, login,
                 instant, restarts>>

(* Any method that changes what is saved of an account: SetCredits,        *)
(* DeductCredit, Cooldown, Disable, Enable, NoteReason,                    *)
(* ReenableIfCredits, NoteError, NoteSuccess.                              *)
Change(a) ==
  /\ proc \in Serving
  /\ a \in DOMAIN mem
  /\ changes < MaxChanges
  /\ changes' = changes + 1
  /\ mem'     = [mem EXCEPT ![a] = changes']
  /\ dirty'   = TRUE
  /\ UNCHANGED <<proc, failing, disk, mirror, writes, files, listing, login,
                 instant, restarts>>

-----------------------------------------------------------------------------
(* The records of the accounts in S; the new ones among them are zero. *)
Upsert(S) == [a \in S |-> IF a \in DOMAIN mem THEN mem[a] ELSE 0]

(* Fault: an entry that goes is left to the flusher, like any change. *)
SyncToDirLater(S) ==
  /\ mem'   = Upsert(S)
  /\ UNCHANGED <<dirty, failing, disk, writes, instant>>

(* SyncToDir: the pool becomes the listing; a save follows at once if an   *)
(* account went, and the dirty flag is left as it is.                      *)
SyncToDir(S) ==
  /\ mem'  = Upsert(S)
  /\ UNCHANGED dirty
  /\ IF DOMAIN mem \subseteq S
     THEN UNCHANGED <<failing, disk, writes, instant>>
     ELSE SaveLocked(mem')

(* saveLoginAuth: the credentials are written to a file, then Add puts the *)
(* account into the pool and Enable marks it changed.                      *)
SaveLogin(a) ==
  /\ proc \in Serving /\ login = NoAccount
  /\ changes < MaxChanges
  /\ changes' = changes + 1
  /\ files'   = files \cup {a}
  /\ login'   = a
  /\ UNCHANGED <<proc, records, mirror, listing, restarts>>

AddLogin ==
  /\ proc \in Serving /\ login # NoAccount
  /\ mem'   = Upsert(DOMAIN mem \cup {login})
  /\ dirty' = TRUE
  /\ login' = NoAccount
  /\ UNCHANGED <<proc, failing, disk, mirror, writes, files, listing,
                 instant, changes, restarts>>

(* adminAccountDelete: the file goes to the trash and the directory is     *)
(* read; then the pool is aligned with what was read.                      *)
DeleteFile(a) ==
  /\ proc \in Serving /\ listing = {}
  /\ a \in DOMAIN mem
  /\ changes < MaxChanges
  /\ changes' = changes + 1
  /\ files'   = files \ {a}
  /\ listing' = {files'}
  /\ UNCHANGED <<proc, records, mirror, login, restarts>>

DeleteSync ==
  /\ proc \in Serving
  /\ \E S \in listing : SyncToDir(S)
  /\ listing' = {}
  /\ UNCHANGED <<proc, mirror, files, login, changes, restarts>>

-----------------------------------------------------------------------------
(* Start-up.  main reads the directory, New loads state.json and starts    *)
(* the flusher, RestoreFromSnapshot chooses, SyncToDir aligns.             *)
Load ==
  /\ proc = "down"
  /\ proc'    = "loaded"
  /\ mem'     = disk.accounts
  /\ listing' = {files}
  /\ UNCHANGED <<dirty, failing, disk, mirror, writes, files, login, instant,
                 changes, restarts>>

(* Fault: the newer of the two is not looked for. *)
RestoreAny ==
  /\ proc = "loaded"
  /\ proc' = "restored"
  /\ IF disk.mtime > 0 /\ mirror.savedAt > 0
     THEN mem' = mirror.accounts /\ dirty' = TRUE
     ELSE UNCHANGED <<mem, dirty>>
  /\ UNCHANGED <<failing, disk, mirror, writes, files, listing, login,
                 instant, changes, restarts>>

(* The snapshot is taken if it can be read and is not older than a local   *)
(* file that is there.                                                     *)
RestoreFromSnapshot ==
  /\ proc = "loaded"
  /\ proc' = "restored"
  /\ \/ /\ disk.mtime > 0 /\ mirror.savedAt >= disk.mtime
        /\ mem' = mirror.accounts /\ dirty' = TRUE
     \/ UNCHANGED <<mem, dirty>>
  /\ UNCHANGED <<failing, disk, mirror, writes, files, listing, login,
                 instant, changes, restarts>>

StartSync ==
  /\ proc = "restored"
  /\ proc' = "running"
  /\ \E S \in listing : SyncToDir(S)
  /\ listing' = {}
  /\ UNCHANGED <<mirror, files, login, changes, restarts>>

(* SIGTERM: the pool is flushed first. *)
Signal ==
  /\ proc = "running"
  /\ proc' = "stopping"
  /\ Flush
  /\ UNCHANGED <<mem, mirror, files, listing, login, changes, restarts>>

(* Close, deferred by main; main returns as soon as the listener is        *)
(* closed, so the handlers under way go on until the process is gone.      *)
Close ==
  /\ proc = "stopping"
  /\ proc' = "closed"
  /\ Flush
  /\ UNCHANGED <<mem, mirror, files, listing, login, changes, restarts>>

(* The process is gone, after Close or by a crash: what was only in memory *)
(* is lost.  Writes on their way to Redis may still arrive.                *)
Gone ==
  /\ restarts' = restarts + 1
  /\ proc'     = "down"
  /\ mem'      = NoRecords
  /\ dirty'    = FALSE
  /\ failing'  = FALSE
  /\ listing'  = {}
  /\ login'    = NoAccount
  /\ UNCHANGED <<disk, mirror, writes, files, instant, changes>>

Exit  == proc = "closed" /\ Gone
Crash == proc # "down" /\ restarts < MaxRestarts /\ Gone

(* The background goroutines of SaveState finish in any order, or fail.    *)
Mirror(w) ==
  /\ mirror' = w
  /\ writes' = writes \ {w}
  /\ UNCHANGED <<proc, mem, dirty, failing, disk, files, listing, login,
                 instant, changes, restarts>>

LoseMirror(w) ==
  /\ writes' = writes \ {w}
  /\ UNCHANGED <<proc, mem, dirty, failing, disk, mirror, files, listing,
                 login, instant, changes, restarts>>

-----------------------------------------------------------------------------
PersistNext ==
  \/ Flusher
  \/ \E a \in Accounts : Change(a) \/ SaveLogin(a) \/ DeleteFile(a)
  \/ AddLogin
  \/ DeleteSync
  \/ Load
  \/ RestoreFromSnapshot
  \/ StartSync
  \/ Signal /\ restarts < MaxRestarts
  \/ Close
  \/ Exit
  \/ Crash
  \/ \E w \in writes : Mirror(w) \/ LoseMirror(w)

PersistSpec == PersistInit /\ [][PersistNext]_persistVars

(* The flusher's ticker fires every 5 s until Close stops it, and a        *)
(* process that is past Close ends.                                        *)
FairPersistSpec ==
  /\ PersistSpec
  /\ WF_persistVars(proc # "closed" /\ Flusher)
  /\ WF_persistVars(Exit)

-----------------------------------------------------------------------------
(* Every variable holds values of its kind. *)
PersistTypeOK ==
  /\ proc \in {"down"} \cup Starting \cup Serving
  /\ mem \in Contents
  /\ dirty \in BOOLEAN
  /\ failing \in BOOLEAN
  /\ disk.accounts \in Contents /\ disk.mtime \in 0..instant
  /\ mirror.accounts \in Contents /\ mirror.savedAt \in 0..instant
  /\ \A w \in writes : w.accounts \in Contents /\ w.savedAt \in 1..instant
  /\ files \in SUBSET Accounts
  /\ listing \in {{}} \cup {{S} : S \in SUBSET Accounts}
  /\ login \in Accounts \cup {NoAccount}
  /\ changes \in 0..MaxChanges
  /\ restarts \in 0..MaxRestarts

(* Until it is aligned with the directory, a restarted pool is what was    *)
(* saved last, whichever of the mirrored snapshots arrived, in whatever    *)
(* order and however late.                                                 *)
RestoresLatest == proc \in Starting => mem = disk.accounts

(* A deleted account is not on disk any more, unless saving fails: if it   *)
(* is logged in again after a restart it starts from a clean record.       *)
DeletedNotOnDisk ==
  proc # "down" /\ ~failing => DOMAIN disk.accounts \subseteq DOMAIN mem

(* The flag is down only when all there is to save is saved, as long as    *)
(* saving works.                                                           *)
CleanMeansSaved == proc # "down" /\ ~dirty /\ ~failing => Saved

(* If saving never fails, every change gets to disk unless the process     *)
(* ends before.                                                            *)
EventuallySaved ==
  [](~failing) => ((proc # "down" /\ ~Saved) ~> (proc = "down" \/ Saved))

-----------------------------------------------------------------------------
(* A statement of the comments which the code does not keep. *)

(* notePersistFail: while the disk is full the flusher tries every 5 s, so *)
(* what a failed save did not write is still marked as to be written.      *)
FailedSaveRetried == proc # "down" /\ failing /\ ~Saved => dirty

(* saveLoginAuth and CHANGELOG: a login is hot, no restart is needed.  An  *)
(* account whose login is over is in the pool as long as its file is       *)
(* there; what a deletion under way does to the pool is waited for.        *)
LoggedInServes ==
  proc = "running" /\ listing = {} /\ login = NoAccount =>
    files \subseteq DOMAIN mem
=============================================================================
