---------------------------- MODULE PersistProofs ----------------------------
(***************************************************************************)
(* Theorems about PoolPersist for every set of accounts and every number   *)
(* of changes and restarts.                                                *)
(***************************************************************************)
EXTENDS PoolPersist, TLAPS

-----------------------------------------------------------------------------
(* Lemmas about what the pool, a file and a snapshot hold. *)

LEMMA ContentsElement ==
  ASSUME NEW S \in SUBSET Accounts, NEW f \in [S -> 0..MaxChanges]
  PROVE  f \in Contents
BY DEF Contents

LEMMA ContentsIs ==
  ASSUME NEW f \in Contents
  PROVE  /\ DOMAIN f \in SUBSET Accounts
         /\ f \in [DOMAIN f -> 0..MaxChanges]
BY DEF Contents

LEMMA NoRecordsIs == NoRecords \in Contents
<1>1. NoRecords \in [{} -> 0..MaxChanges]
  BY DEF NoRecords
<1> QED BY <1>1, ContentsElement

LEMMA CoversItself ==
  ASSUME NEW c
  PROVE  Covers(c, c)
BY DEF Covers

LEMMA UpsertIs ==
  ASSUME mem \in Contents, NEW S \in SUBSET Accounts
  PROVE  /\ Upsert(S) \in Contents
         /\ DOMAIN Upsert(S) = S
<1>1. Upsert(S) \in [S -> 0..MaxChanges]
  BY ContentsIs, PersistAssumption DEF Upsert
<1> QED BY <1>1, ContentsElement

(* Aligning a pool with a listing that has all its accounts adds nothing   *)
(* that would have to be saved.                                            *)
LEMMA UpsertCovered ==
  ASSUME NEW d, Covers(d, mem), NEW S, DOMAIN mem \subseteq S
  PROVE  Covers(d, Upsert(S))
<1>1. \A a \in S : Upsert(S)[a] = IF a \in DOMAIN mem THEN mem[a] ELSE 0
  BY DEF Upsert
<1>2. DOMAIN Upsert(S) = S
  BY DEF Upsert
<1> QED BY <1>1, <1>2 DEF Covers

LEMMA ChangeIs ==
  ASSUME mem \in Contents, NEW a \in DOMAIN mem, NEW n \in 0..MaxChanges
  PROVE  [mem EXCEPT ![a] = n] \in Contents
<1>1. [mem EXCEPT ![a] = n] \in [DOMAIN mem -> 0..MaxChanges]
  BY ContentsIs
<1> QED BY <1>1, ContentsIs, ContentsElement

-----------------------------------------------------------------------------
(* Types.  The number of saves is a natural number, and a process that is  *)
(* stopping has not used up its restarts.                                  *)

TypeInv ==
  /\ PersistTypeOK
  /\ instant \in Nat
  /\ proc \in {"stopping", "closed"} => restarts < MaxRestarts

(* What a save may change. *)
SaveType ==
  /\ failing \in BOOLEAN
  /\ disk.accounts \in Contents /\ disk.mtime \in 0..instant
  /\ \A w \in writes : w.accounts \in Contents /\ w.savedAt \in 1..instant
  /\ instant \in Nat
  /\ mirror.savedAt \in 0..instant

LEMMA SaveLockedType ==
  ASSUME TypeInv, NEW c \in Contents, SaveLocked(c), mirror' = mirror
  PROVE  SaveType'
<1>1. CASE /\ instant' = instant + 1
           /\ disk'    = [accounts |-> c, mtime |-> instant']
           /\ writes'  = writes \cup {[accounts |-> c, savedAt |-> instant']}
           /\ failing' = FALSE
  <2>1. \A w \in writes' : w.accounts \in Contents /\ w.savedAt \in 1..instant'
    BY <1>1 DEF TypeInv, PersistTypeOK
  <2>2. disk'.accounts = c /\ disk'.mtime = instant'
    BY <1>1
  <2>3. instant \in Nat /\ mirror'.savedAt \in 0..instant
    BY DEF TypeInv, PersistTypeOK
  <2>4. instant' \in Nat /\ instant' \in 0..instant' /\ mirror'.savedAt \in 0..instant'
    BY <1>1, <2>3
  <2> QED BY <1>1, <2>1, <2>2, <2>4 DEF SaveType
<1>2. CASE failing' = TRUE /\ UNCHANGED <<disk, writes, instant>>
  BY <1>2 DEF TypeInv, PersistTypeOK, SaveType
<1> QED BY <1>1, <1>2 DEF SaveLocked

LEMMA FlushType ==
  ASSUME TypeInv, Flush, mirror' = mirror
  PROVE  SaveType' /\ dirty' \in BOOLEAN
<1>1. CASE dirty
  BY <1>1, SaveLockedType DEF Flush, TypeInv, PersistTypeOK
<1>2. CASE ~dirty
  BY <1>2 DEF Flush, TypeInv, PersistTypeOK, SaveType
<1> QED BY <1>1, <1>2

LEMMA SyncToDirType ==
  ASSUME TypeInv, NEW S \in SUBSET Accounts, SyncToDir(S), mirror' = mirror
  PROVE  SaveType' /\ dirty' \in BOOLEAN /\ mem' \in Contents
<1>1. mem' \in Contents
  BY UpsertIs DEF SyncToDir, TypeInv, PersistTypeOK
<1>2. CASE DOMAIN mem \subseteq S
  BY <1>1, <1>2 DEF SyncToDir, TypeInv, PersistTypeOK, SaveType
<1>3. CASE ~(DOMAIN mem \subseteq S)
  BY <1>1, <1>3, SaveLockedType DEF SyncToDir, TypeInv, PersistTypeOK
<1> QED BY <1>1, <1>2, <1>3

(* No listing is under way, or one that has found a set of accounts. *)
LEMMA ListingKind ==
  /\ {} \in {{}} \cup {{S} : S \in SUBSET Accounts}
  /\ \A T \in SUBSET Accounts :
       {T} \in {{}} \cup {{S} : S \in SUBSET Accounts}
OBVIOUS

LEMMA InitType == PersistInit => TypeInv
<1> SUFFICES ASSUME PersistInit
             PROVE  TypeInv
  OBVIOUS
<1>1. disk.accounts \in Contents /\ mirror.accounts \in Contents
  BY NoRecordsIs DEF PersistInit
<1>2. disk.mtime \in 0..instant /\ mirror.savedAt \in 0..instant
  BY DEF PersistInit
<1>3. mem \in Contents
  BY NoRecordsIs DEF PersistInit
<1>4. listing \in {{}} \cup {{S} : S \in SUBSET Accounts}
  BY ListingKind DEF PersistInit
<1>5. changes \in 0..MaxChanges /\ restarts \in 0..MaxRestarts
  BY PersistAssumption DEF PersistInit
<1> QED
  BY <1>1, <1>2, <1>3, <1>4, <1>5 DEF PersistInit, TypeInv, PersistTypeOK

LEMMA StepType == TypeInv /\ [PersistNext]_persistVars => TypeInv'
<1> SUFFICES ASSUME TypeInv, [PersistNext]_persistVars
             PROVE  TypeInv'
  OBVIOUS
<1> USE DEF TypeInv, PersistTypeOK, Starting, Serving
<1>1. CASE Flusher
  <2>1. SaveType' /\ dirty' \in BOOLEAN
    BY <1>1, FlushType DEF Flusher
  <2> QED BY <1>1, <2>1 DEF Flusher, SaveType
<1>2. ASSUME NEW a \in Accounts, Change(a)
      PROVE  TypeInv'
  <2>1. changes' \in 0..MaxChanges
    BY <1>2, PersistAssumption DEF Change
  <2>2. mem' \in Contents
    BY <1>2, <2>1, ChangeIs DEF Change
  <2> QED BY <1>2, <2>1, <2>2 DEF Change
<1>3. ASSUME NEW a \in Accounts, SaveLogin(a)
      PROVE  TypeInv'
  BY <1>3, PersistAssumption DEF SaveLogin, records
<1>4. ASSUME NEW a \in Accounts, DeleteFile(a)
      PROVE  TypeInv'
  <2>1. listing' \in {{}} \cup {{S} : S \in SUBSET Accounts}
    BY <1>4, ListingKind DEF DeleteFile
  <2> QED BY <1>4, <2>1, PersistAssumption DEF DeleteFile, records
<1>5. CASE AddLogin
  <2>1. DOMAIN mem \cup {login} \in SUBSET Accounts
    BY <1>5, ContentsIs DEF AddLogin
  <2>2. mem' \in Contents
    BY <1>5, <2>1, UpsertIs DEF AddLogin
  <2> QED BY <1>5, <2>2 DEF AddLogin
<1>6. CASE DeleteSync
  <2>1. PICK S \in listing : SyncToDir(S)
    BY <1>6 DEF DeleteSync
  <2>2. SaveType' /\ dirty' \in BOOLEAN /\ mem' \in Contents
    BY <1>6, <2>1, SyncToDirType DEF DeleteSync
  <2> QED BY <1>6, <2>2 DEF DeleteSync, SaveType
<1>7. CASE Load
  BY <1>7 DEF Load
<1>8. CASE RestoreFromSnapshot
  BY <1>8 DEF RestoreFromSnapshot
<1>9. CASE StartSync
  <2>1. PICK S \in listing : SyncToDir(S)
    BY <1>9 DEF StartSync
  <2>2. SaveType' /\ dirty' \in BOOLEAN /\ mem' \in Contents
    BY <1>9, <2>1, SyncToDirType DEF StartSync
  <2> QED BY <1>9, <2>2 DEF StartSync, SaveType
<1>10. CASE Signal /\ restarts < MaxRestarts
  <2>1. SaveType' /\ dirty' \in BOOLEAN
    BY <1>10, FlushType DEF Signal
  <2> QED BY <1>10, <2>1 DEF Signal, SaveType
<1>11. CASE Close
  <2>1. SaveType' /\ dirty' \in BOOLEAN
    BY <1>11, FlushType DEF Close
  <2> QED BY <1>11, <2>1 DEF Close, SaveType
<1>12. CASE Exit \/ Crash
  <2>1. restarts < MaxRestarts /\ Gone
    BY <1>12 DEF Exit, Crash
  <2>2. listing' \in {{}} \cup {{S} : S \in SUBSET Accounts}
    BY <2>1, ListingKind DEF Gone
  <2>3. restarts' \in 0..MaxRestarts
    BY <2>1, PersistAssumption DEF Gone
  <2> QED BY <2>1, <2>2, <2>3, NoRecordsIs DEF Gone
<1>13. ASSUME NEW w \in writes, Mirror(w) \/ LoseMirror(w)
       PROVE  TypeInv'
  BY <1>13 DEF Mirror, LoseMirror
<1>14. CASE UNCHANGED persistVars
  BY <1>14 DEF persistVars
<1> QED
  BY <1>1, <1>2, <1>3, <1>4, <1>5, <1>6, <1>7, <1>8, <1>9, <1>10, <1>11,
     <1>12, <1>13, <1>14 DEF PersistNext

(* Every variable keeps to values of its kind, through saves that fail,    *)
(* snapshots that arrive late, crashes and restarts.                       *)
THEOREM PersistTypeCorrect == PersistSpec => []PersistTypeOK
<1>1. TypeInv => PersistTypeOK
  BY DEF TypeInv
<1> QED BY <1>1, InitType, StepType, PTL DEF PersistSpec

-----------------------------------------------------------------------------
(* Safety.  The file is the work of the last save, and a snapshot as new   *)
(* as the file, still under way or in Redis, has what the file has.  From  *)
(* that follows what a start-up restores, and with it the rest.            *)

NewestAgree ==
  /\ disk.mtime = instant
  /\ \A w \in writes \cup {mirror} :
       w.savedAt = instant => w.accounts = disk.accounts

SafeInv ==
  /\ TypeInv
  /\ NewestAgree
  /\ RestoresLatest
  /\ DeletedNotOnDisk
  /\ CleanMeansSaved

(* A save has saved c, or has failed and left the file alone; either way   *)
(* the newest still agree.                                                 *)
LEMMA SaveLockedEffect ==
  ASSUME TypeInv, NewestAgree, NEW c, SaveLocked(c), mirror' = mirror
  PROVE  /\ NewestAgree'
         /\ \/ disk'.accounts = c
            \/ failing' /\ disk' = disk
<1>1. CASE /\ instant' = instant + 1
           /\ disk'    = [accounts |-> c, mtime |-> instant']
           /\ writes'  = writes \cup {[accounts |-> c, savedAt |-> instant']}
           /\ failing' = FALSE
  <2>1. \A w \in writes \cup {mirror} : w.savedAt < instant'
    BY <1>1 DEF TypeInv, PersistTypeOK
  <2>2. disk'.accounts = c /\ disk'.mtime = instant'
    BY <1>1
  <2>3. \A w \in writes' \cup {mirror'} :
          w.savedAt = instant' => w.accounts = disk'.accounts
    BY <1>1, <2>1, <2>2
  <2> QED BY <2>2, <2>3 DEF NewestAgree
<1>2. CASE failing' = TRUE /\ UNCHANGED <<disk, writes, instant>>
  BY <1>2 DEF NewestAgree
<1> QED BY <1>1, <1>2 DEF SaveLocked

(* A flush keeps all of it: what the pool has is saved, or known not to be. *)
LEMMA FlushSafe ==
  ASSUME SafeInv, TypeInv', Flush, UNCHANGED <<mem, mirror>>, proc # "down",
         proc' \in Starting => proc \in Starting
  PROVE  SafeInv'
<1> USE DEF SafeInv
<1>1. CASE dirty
  <2>1. SaveLocked(mem)
    BY <1>1 DEF Flush
  <2>2. NewestAgree' /\ (disk'.accounts = mem \/ (failing' /\ disk' = disk))
    BY <2>1, SaveLockedEffect
  <2>3. CASE disk'.accounts = mem
    BY <2>2, <2>3, CoversItself
       DEF RestoresLatest, DeletedNotOnDisk, CleanMeansSaved, Saved
  <2>4. CASE failing' /\ disk' = disk
    BY <2>2, <2>4 DEF RestoresLatest, DeletedNotOnDisk, CleanMeansSaved
  <2> QED BY <2>2, <2>3, <2>4
<1>2. CASE ~dirty
  <2>1. UNCHANGED <<mem, mirror, dirty, failing, disk, writes, instant>>
    BY <1>2 DEF Flush
  <2> QED
    BY <2>1 DEF NewestAgree, RestoresLatest, DeletedNotOnDisk,
                CleanMeansSaved, Saved
<1> QED BY <1>1, <1>2

(* So does the alignment with a listing, by a deletion or at start-up.     *)
LEMMA SyncToDirSafe ==
  ASSUME SafeInv, TypeInv', NEW S \in SUBSET Accounts, SyncToDir(S),
         mirror' = mirror, proc # "down", proc' \notin Starting
  PROVE  SafeInv'
<1> USE DEF SafeInv
<1>1. mem' = Upsert(S) /\ DOMAIN mem' = S /\ dirty' = dirty
  BY UpsertIs DEF SyncToDir, TypeInv, PersistTypeOK
<1>2. RestoresLatest'
  BY DEF RestoresLatest
<1>3. CASE DOMAIN mem \subseteq S
  <2>1. UNCHANGED <<failing, disk, writes, instant>>
    BY <1>3 DEF SyncToDir
  <2>2. NewestAgree' /\ DeletedNotOnDisk'
    BY <1>1, <1>3, <2>1 DEF NewestAgree, DeletedNotOnDisk
  <2>3. ASSUME Covers(disk.accounts, mem)
        PROVE  Covers(disk'.accounts, mem')
    BY <1>1, <1>3, <2>1, <2>3, UpsertCovered
  <2>4. CleanMeansSaved'
    BY <1>1, <2>1, <2>3 DEF CleanMeansSaved, Saved
  <2> QED BY <1>2, <2>2, <2>4
<1>4. CASE ~(DOMAIN mem \subseteq S)
  <2>1. SaveLocked(mem')
    BY <1>4 DEF SyncToDir
  <2>2. NewestAgree' /\ (disk'.accounts = mem' \/ (failing' /\ disk' = disk))
    BY <2>1, SaveLockedEffect
  <2> QED
    BY <1>2, <2>2, CoversItself DEF DeletedNotOnDisk, CleanMeansSaved, Saved
<1> QED BY <1>3, <1>4

LEMMA InitSafe == PersistInit => SafeInv
<1> SUFFICES ASSUME PersistInit
             PROVE  SafeInv
  OBVIOUS
<1>1. NewestAgree
  BY DEF PersistInit, NewestAgree
<1>2. RestoresLatest /\ DeletedNotOnDisk /\ CleanMeansSaved
  BY DEF PersistInit, RestoresLatest, Starting, DeletedNotOnDisk,
         CleanMeansSaved
<1> QED BY <1>1, <1>2, InitType DEF SafeInv

LEMMA StepSafe == SafeInv /\ [PersistNext]_persistVars => SafeInv'
<1> SUFFICES ASSUME SafeInv, [PersistNext]_persistVars
             PROVE  SafeInv'
  OBVIOUS
<1>1. TypeInv'
  BY StepType DEF SafeInv
<1> USE DEF Starting, Serving
<1>2. CASE Flusher
  BY <1>1, <1>2, FlushSafe DEF Flusher
<1>3. ASSUME NEW a \in Accounts, Change(a)
      PROVE  SafeInv'
  <2>1. DOMAIN mem' = DOMAIN mem /\ dirty'
    BY <1>3 DEF Change
  <2> QED
    BY <1>1, <1>3, <2>1
       DEF Change, SafeInv, NewestAgree, RestoresLatest, DeletedNotOnDisk,
           CleanMeansSaved
<1>4. ASSUME NEW a \in Accounts, SaveLogin(a) \/ DeleteFile(a)
      PROVE  SafeInv'
  <2>1. UNCHANGED <<proc, mem, dirty, failing, disk, mirror, writes, instant>>
    BY <1>4 DEF SaveLogin, DeleteFile, records
  <2> QED
    BY <1>1, <2>1
       DEF SafeInv, NewestAgree, RestoresLatest, DeletedNotOnDisk,
           CleanMeansSaved, Saved
<1>5. CASE AddLogin
  <2>1. DOMAIN mem' = DOMAIN mem \cup {login} /\ dirty'
    BY <1>5 DEF AddLogin, Upsert
  <2> QED
    BY <1>1, <1>5, <2>1
       DEF AddLogin, SafeInv, NewestAgree, RestoresLatest, DeletedNotOnDisk,
           CleanMeansSaved
<1>6. CASE DeleteSync \/ StartSync
  <2>1. PICK S \in listing : SyncToDir(S)
    BY <1>6 DEF DeleteSync, StartSync
  <2>2. S \in SUBSET Accounts
    BY <2>1 DEF SafeInv, TypeInv, PersistTypeOK
  <2> QED
    BY <1>1, <1>6, <2>1, <2>2, SyncToDirSafe DEF DeleteSync, StartSync
<1>7. CASE Load
  <2>1. mem' = disk'.accounts
    BY <1>7 DEF Load
  <2> QED
    BY <1>1, <1>7, <2>1, CoversItself
       DEF Load, SafeInv, NewestAgree, RestoresLatest, DeletedNotOnDisk,
           CleanMeansSaved, Saved
<1>8. CASE RestoreFromSnapshot
  <2>1. mem = disk.accounts /\ proc # "down"
    BY <1>8 DEF RestoreFromSnapshot, SafeInv, RestoresLatest
  <2>2. mem' = disk.accounts
    BY <1>8, <2>1
       DEF RestoreFromSnapshot, SafeInv, NewestAgree, TypeInv, PersistTypeOK
  <2>3. UNCHANGED <<disk, mirror, writes, instant, failing>>
    BY <1>8 DEF RestoreFromSnapshot
  <2> QED
    BY <1>1, <2>2, <2>3, CoversItself
       DEF SafeInv, NewestAgree, RestoresLatest, DeletedNotOnDisk,
           CleanMeansSaved, Saved
<1>9. CASE Signal \/ Close
  BY <1>1, <1>9, FlushSafe DEF Signal, Close
<1>10. CASE Exit \/ Crash
  BY <1>1, <1>10
     DEF Exit, Crash, Gone, SafeInv, NewestAgree, RestoresLatest,
         DeletedNotOnDisk, CleanMeansSaved
<1>11. ASSUME NEW w \in writes, Mirror(w) \/ LoseMirror(w)
       PROVE  SafeInv'
  BY <1>1, <1>11
     DEF Mirror, LoseMirror, SafeInv, NewestAgree, RestoresLatest,
         DeletedNotOnDisk, CleanMeansSaved, Saved
<1>12. CASE UNCHANGED persistVars
  BY <1>1, <1>12
     DEF persistVars, SafeInv, NewestAgree, RestoresLatest, DeletedNotOnDisk,
         CleanMeansSaved, Saved
<1> QED
  BY <1>2, <1>3, <1>4, <1>5, <1>6, <1>7, <1>8, <1>9, <1>10, <1>11, <1>12
     DEF PersistNext

(* However late and in whatever order the mirrored snapshots arrive, a     *)
(* start-up restores what was saved last.                                  *)
THEOREM RestoresLatestCorrect == PersistSpec => []RestoresLatest
<1>1. SafeInv => RestoresLatest
  BY DEF SafeInv
<1> QED BY <1>1, InitSafe, StepSafe, PTL DEF PersistSpec

(* As long as saving works the file has no account the pool has dropped.   *)
THEOREM DeletedNotOnDiskCorrect == PersistSpec => []DeletedNotOnDisk
<1>1. SafeInv => DeletedNotOnDisk
  BY DEF SafeInv
<1> QED BY <1>1, InitSafe, StepSafe, PTL DEF PersistSpec

(* As long as saving works a pool that is not marked is saved.             *)
THEOREM CleanMeansSavedCorrect == PersistSpec => []CleanMeansSaved
<1>1. SafeInv => CleanMeansSaved
  BY DEF SafeInv
<1> QED BY <1>1, InitSafe, StepSafe, PTL DEF PersistSpec
=============================================================================
