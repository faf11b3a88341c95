----------------------------- MODULE AdminProofs -----------------------------
(***************************************************************************)
(* Theorems about AdminConfig for any number of handlers, keys, allowlists *)
(* and changes.                                                            *)
(***************************************************************************)
EXTENDS AdminConfig, TLAPS

-----------------------------------------------------------------------------
(* Types: a configuration has a value of its kind in every field, and so   *)
(* has a call for the field it changes.                                    *)
Sound(c) == c \in Configs /\ \A f \in Fields : c[f] \in Value(f)

SoundCall(c) ==
    /\ c \in Calls
    /\ c.value \in Value(c.field)
    /\ c.read # Nil => Sound(c.read)
    /\ c.at # "read" => c.read # Nil

ConfTypeOK ==
    /\ up \in BOOLEAN
    /\ Sound(cfg)
    /\ file # Torn => Sound(file)
    /\ call \in [Admins -> Calls \cup {Nil}]
    /\ \A p \in Active : SoundCall(call[p])
    /\ created \in 0..MaxIds
    /\ changes \in Nat
    /\ mixed \in [Admins -> BOOLEAN]
    /\ tainted \in [Fields -> BOOLEAN]
    /\ spoiled \in BOOLEAN
    /\ gone \in SUBSET Ids
    /\ ~up => Active = {}

(* A handler that is not mixed runs alone: nobody has come between its     *)
(* steps, so the file is what it wrote.                                    *)
AloneInv ==
    /\ ConfTypeOK
    /\ \A p, q \in Active : p # q => mixed[p]
    /\ \A p \in Active :
        ~mixed[p] => /\ ~call[p].late
                     /\ call[p].at = "assign" => file = NewConfig(p)

(* A field whose last change ran alone, with nobody between the write and  *)
(* the assignment of that field.                                           *)
Settled(f) ==
    /\ ~tainted[f] /\ ~Overridden(f)
    /\ \A p \in Active : call[p].field = f => call[p].at # "assign"

(* Then the file, and every copy of it that a handler has read, agree with *)
(* the memory.                                                             *)
AgreeInv ==
    up => \A f \in Fields : Settled(f) =>
            /\ file # Torn => file[f] = cfg[f]
            /\ \A p \in Active : call[p].read # Nil => call[p].read[f] = cfg[f]

(* Without an overlap or a failed write, a file that is cut off is just    *)
(* being written.                                                          *)
TornInv ==
    up /\ ~spoiled =>
        /\ \A p \in Active : ~mixed[p]
        /\ file = Torn => \E p \in Active : call[p].at = "write"

MatchInv == AloneInv /\ AgreeInv /\ TornInv

(* Nowhere in memory, on disk, in what a handler has read or is about to   *)
(* set is there a key that was deleted, or one that is yet to be created.  *)
Live == (1..created) \ gone

KeysOfCall(p) ==
    LET c == call[p] IN
    /\ c.read # Nil => DOMAIN c.read["api_keys"] \subseteq Live
    /\ c.field = "api_keys" => DOMAIN c.value \subseteq Live
    /\ c.deletes # Nil => /\ c.field = "api_keys"
                          /\ c.deletes \in (1..created) \ DOMAIN c.value

KeysInv ==
    /\ AloneInv
    /\ gone \subseteq 1..created
    /\ DOMAIN cfg["api_keys"] \subseteq Live
    /\ file # Torn => DOMAIN file["api_keys"] \subseteq Live
    /\ \A p \in Active : KeysOfCall(p)

-----------------------------------------------------------------------------
LEMMA CallsNotNil == \A c \in Calls : c # Nil
BY ConfAssumption

LEMMA InitFile == ConfInit => /\ Sound(file) /\ file # Torn
                              /\ file["api_keys"] = NoKeys
<1> SUFFICES ASSUME ConfInit PROVE /\ Sound(file) /\ file # Torn
                                   /\ file["api_keys"] = NoKeys
  OBVIOUS
<1>1. NoKeys \in KeyLists
  BY DEF NoKeys, KeyLists
<1>2. PICK key \in MainKeys \cup {Unset}, list \in Allowlists :
        file = [f \in Fields |-> IF f = "api_key" THEN key
                                 ELSE IF f = "api_keys" THEN NoKeys ELSE list]
  BY DEF ConfInit
<1>3. \A f \in Fields : file[f] \in Value(f)
  BY <1>1, <1>2 DEF Fields, Value
<1>4. Sound(file)
  BY <1>2, <1>3 DEF Sound, Configs
<1>5. file # Torn
  BY <1>4, ConfAssumption DEF Sound
<1>6. file["api_keys"] = NoKeys
  BY <1>2 DEF Fields
<1> QED BY <1>4, <1>5, <1>6

LEMMA InitTypes == ConfInit => ConfTypeOK
<1> SUFFICES ASSUME ConfInit PROVE ConfTypeOK
  OBVIOUS
<1>1. Sound(file)
  BY InitFile
<1>2. Sound(cfg)
  <2>1. CASE EnvKey = Nil
    BY <1>1, <2>1 DEF ConfInit, LoadedConfig
  <2>2. CASE EnvKey # Nil
    <3>1. cfg = [file EXCEPT !["api_key"] = EnvKey]
      BY <2>2 DEF ConfInit, LoadedConfig
    <3>2. \A f \in Fields : cfg[f] \in Value(f)
      BY <1>1, <3>1 DEF Sound, Configs, Value
    <3>3. cfg = [f \in Fields |-> cfg[f]]
      BY <1>1, <3>1 DEF Sound, Configs
    <3> QED BY <3>2, <3>3 DEF Sound, Configs
  <2> QED BY <2>1, <2>2
<1>3. Active = {} /\ call \in [Admins -> Calls \cup {Nil}]
  BY DEF ConfInit, Active
<1>4. /\ up \in BOOLEAN /\ spoiled \in BOOLEAN
      /\ mixed \in [Admins -> BOOLEAN] /\ tainted \in [Fields -> BOOLEAN]
  BY DEF ConfInit
<1>5. created \in 0..MaxIds /\ changes \in Nat /\ gone \in SUBSET Ids
  BY ConfAssumption DEF ConfInit
<1> QED BY <1>1, <1>2, <1>3, <1>4, <1>5 DEF ConfTypeOK

(* What a restart loads is sound. *)
LEMMA LoadedSound ==
  ASSUME file # Torn, Sound(file)
  PROVE  Sound(LoadedConfig)
<1>1. CASE EnvKey = Nil
  BY <1>1 DEF LoadedConfig
<1>2. CASE EnvKey # Nil
  <2> DEFINE c == [file EXCEPT !["api_key"] = EnvKey]
  <2>1. \A f \in Fields : c[f] \in Value(f)
    BY DEF Sound, Configs, Value
  <2>2. c = [f \in Fields |-> c[f]]
    BY DEF Sound, Configs
  <2>3. Sound(c)
    <3> HIDE DEF c
    <3> QED BY <2>1, <2>2 DEF Sound, Configs
  <2> QED BY <1>2, <2>3 DEF LoadedConfig
<1> QED BY <1>1, <1>2

(* A configuration with one field replaced is sound. *)
LEMMA NewConfigSound ==
  ASSUME ConfTypeOK, NEW p \in Active, call[p].read # Nil
  PROVE  /\ Sound(NewConfig(p)) /\ NewConfig(p) # Torn
         /\ \A f \in Fields : NewConfig(p)[f] = IF f = call[p].field
                                                THEN call[p].value
                                                ELSE call[p].read[f]
<1> DEFINE c == NewConfig(p)
<1>1. /\ Sound(call[p].read) /\ call[p].field \in Fields
      /\ call[p].value \in Value(call[p].field)
  BY DEF ConfTypeOK, SoundCall, Calls
<1>2. \A f \in Fields : c[f] = IF f = call[p].field THEN call[p].value
                                                    ELSE call[p].read[f]
  BY <1>1 DEF Sound, Configs, NewConfig
<1>3. c = [f \in Fields |-> c[f]]
  BY <1>1 DEF Sound, Configs, NewConfig
<1>4. \A f \in Fields : c[f] \in Value(f)
  BY <1>1, <1>2 DEF Sound
<1> HIDE DEF c
<1>5. Sound(c)
  BY <1>3, <1>4 DEF Sound, Configs
<1>6. c # Torn
  BY <1>5, ConfAssumption DEF Sound
<1> QED BY <1>2, <1>5, <1>6 DEF c

LEMMA BeginTypes ==
  ASSUME ConfTypeOK, NEW p \in Admins, NEW field \in Fields,
         NEW value \in Value(field), NEW deletes \in Ids \cup {Nil},
         Begin(p, field, value, deletes), created' \in 0..MaxIds
  PROVE  /\ ConfTypeOK'
         /\ call'[p] = [field |-> field, value |-> value, at |-> "read",
                        read |-> Nil, late |-> FALSE, deletes |-> deletes]
         /\ Active' = Active \cup {p}
         /\ p \notin Active
         /\ \A q \in Active : call'[q] = call[q]
<1> DEFINE c == [field |-> field, value |-> value, at |-> "read",
                 read |-> Nil, late |-> FALSE, deletes |-> deletes]
<1>1. c \in Calls
  BY DEF Calls
<1>2. SoundCall(c)
  BY <1>1 DEF SoundCall
<1>3. call' = [call EXCEPT ![p] = c]
  BY DEF Begin
<1> HIDE DEF c
<1>4. call' \in [Admins -> Calls \cup {Nil}]
  BY <1>1, <1>3 DEF ConfTypeOK
<1>5. call'[p] = c /\ \A q \in Admins : q # p => call'[q] = call[q]
  BY <1>3 DEF ConfTypeOK
<1>6. Active' = Active \cup {p} /\ p \notin Active
  BY <1>1, <1>5, CallsNotNil DEF Begin, Active
<1>7. \A q \in Active' : SoundCall(call'[q])
  BY <1>2, <1>5, <1>6 DEF ConfTypeOK, Active
<1>8. mixed' \in [Admins -> BOOLEAN]
  BY DEF Begin, ConfTypeOK
<1>9. spoiled' \in BOOLEAN
  BY DEF Begin, ConfTypeOK
<1>10. changes' \in Nat
  BY DEF Begin, ConfTypeOK
<1>11. UNCHANGED <<up, cfg, file, tainted, gone>> /\ up
  BY DEF Begin
<1>12. ConfTypeOK'
  BY <1>4, <1>7, <1>8, <1>9, <1>10, <1>11 DEF ConfTypeOK
<1>13. \A q \in Active : call'[q] = call[q]
  BY <1>5, <1>6 DEF Active
<1> QED BY <1>5, <1>6, <1>12, <1>13 DEF c

(* The five handlers start alike, and what they are to set is made of the  *)
(* memory and of at most one new key.                                      *)
Asks(p) ==
    \/ \E key \in MainKeys : SetKey(p, key)
    \/ \E list \in Allowlists : SetModels(p, list)
    \/ CreateKey(p)
    \/ \E id \in Ids : \/ \E enabled \in BOOLEAN : UpdateKey(p, id, enabled)
                       \/ DeleteKey(p, id)

LEMMA AsksBegins ==
  ASSUME ConfTypeOK, NEW p \in Admins, Asks(p)
  PROVE  \E field \in Fields : \E value \in Value(field), deletes \in Ids \cup {Nil} :
           /\ Begin(p, field, value, deletes)
           /\ created' \in created..MaxIds
           /\ field = "api_keys" =>
                DOMAIN value \subseteq DOMAIN cfg["api_keys"] \cup ((created + 1)..created')
           /\ deletes # Nil =>
                field = "api_keys" /\ deletes \in DOMAIN cfg["api_keys"] \ DOMAIN value
<1> DEFINE Goal(field, value, deletes) ==
      /\ Begin(p, field, value, deletes)
      /\ created' \in created..MaxIds
      /\ field = "api_keys" =>
           DOMAIN value \subseteq DOMAIN cfg["api_keys"] \cup ((created + 1)..created')
      /\ deletes # Nil =>
           field = "api_keys" /\ deletes \in DOMAIN cfg["api_keys"] \ DOMAIN value
<1> DEFINE keys == cfg["api_keys"]
<1> SUFFICES \E field \in Fields : \E value \in Value(field), deletes \in Ids \cup {Nil} :
               Goal(field, value, deletes)
  OBVIOUS
<1>1. created \in 0..MaxIds /\ MaxIds \in Nat
  BY ConfAssumption DEF ConfTypeOK
<1>2. keys \in KeyLists
  BY DEF ConfTypeOK, Sound, Fields, Value
<1>3. keys \in [DOMAIN keys -> BOOLEAN] /\ DOMAIN keys \in SUBSET Ids
  BY <1>2 DEF KeyLists
<1>4. "api_key" \in Fields /\ "api_keys" \in Fields /\ "model_allowlist" \in Fields
  BY DEF Fields
<1>5. ASSUME NEW key \in MainKeys, SetKey(p, key)
      PROVE  Goal("api_key", key, Nil) /\ key \in Value("api_key")
  BY <1>1, <1>5 DEF SetKey, Value
<1>6. ASSUME NEW list \in Allowlists, SetModels(p, list)
      PROVE  Goal("model_allowlist", list, Nil) /\ list \in Value("model_allowlist")
  BY <1>1, <1>6 DEF SetModels, Value
<1>7. ASSUME CreateKey(p)
      PROVE  \E value \in Value("api_keys") : Goal("api_keys", value, Nil)
  <2> DEFINE id == created + 1
             ids == DOMAIN keys \cup {id}
             value == [i \in ids |-> IF i = id THEN TRUE ELSE keys[i]]
  <2>1. created' = id /\ created < MaxIds /\ Begin(p, "api_keys", value, Nil)
    BY <1>7 DEF CreateKey
  <2>2. ids \in SUBSET Ids
    BY <1>1, <1>3, <2>1 DEF Ids
  <2>3. value \in [ids -> BOOLEAN]
    BY <1>3
  <2>4. value \in KeyLists
    <3> HIDE DEF value, ids
    <3> QED BY <2>2, <2>3 DEF KeyLists
  <2>5. DOMAIN value = ids /\ id \in (created + 1)..created'
    BY <1>1, <2>1
  <2>6. created' \in created..MaxIds
    BY <1>1, <2>1
  <2> HIDE DEF value
  <2> QED BY <2>1, <2>4, <2>5, <2>6 DEF Value
<1>8. ASSUME NEW i \in Ids, NEW enabled \in BOOLEAN, UpdateKey(p, i, enabled)
      PROVE  \E value \in Value("api_keys") : Goal("api_keys", value, Nil)
  <2> DEFINE value == [keys EXCEPT ![i] = enabled]
  <2>1. i \in DOMAIN keys /\ created' = created /\ Begin(p, "api_keys", value, Nil)
    BY <1>8 DEF UpdateKey
  <2>2. value \in [DOMAIN keys -> BOOLEAN]
    BY <1>3
  <2>3. DOMAIN value = DOMAIN keys
    OBVIOUS
  <2> HIDE DEF value
  <2>4. value \in KeyLists
    BY <1>3, <2>2 DEF KeyLists
  <2> QED BY <1>1, <2>1, <2>3, <2>4 DEF Value
<1>9. ASSUME NEW i \in Ids, DeleteKey(p, i)
      PROVE  \E value \in Value("api_keys") : Goal("api_keys", value, i)
  <2> DEFINE ids == DOMAIN keys \ {i}
             value == Restrict(keys, ids)
  <2>1. i \in DOMAIN keys /\ created' = created /\ Begin(p, "api_keys", value, i)
    BY <1>9 DEF DeleteKey
  <2>2. value = [j \in ids |-> keys[j]]
    BY DEF Restrict
  <2>3. value \in [ids -> BOOLEAN] /\ DOMAIN value = ids
    BY <1>3, <2>2
  <2> HIDE DEF value
  <2>4. value \in KeyLists
    BY <1>3, <2>3 DEF KeyLists
  <2>5. i \notin DOMAIN value
    BY <2>3
  <2> QED BY <1>1, <2>1, <2>3, <2>4, <2>5 DEF Value
<1> HIDE DEF Goal
<1> QED BY <1>4, <1>5, <1>6, <1>7, <1>8, <1>9 DEF Asks

(* What a step of a handler does to the calls: it goes on, or it ends; the *)
(* others stay as they are, but for the mark of a late write.              *)
LEMMA GoesOnTypes ==
  ASSUME ConfTypeOK, NEW p \in Active, NEW c \in Calls, SoundCall(c),
         call' = [call EXCEPT ![p] = c]
  PROVE  /\ Active' = Active
         /\ call' \in [Admins -> Calls \cup {Nil}]
         /\ call'[p] = c /\ \A q \in Active : q # p => call'[q] = call[q]
         /\ \A q \in Active' : SoundCall(call'[q])
<1>1. p \in Admins /\ call[p] # Nil
  BY DEF Active
<1>2. call' \in [Admins -> Calls \cup {Nil}]
  BY DEF ConfTypeOK
<1>3. call'[p] = c /\ \A q \in Admins : q # p => call'[q] = call[q]
  BY <1>1 DEF ConfTypeOK
<1>4. Active' = Active
  BY <1>1, <1>3, CallsNotNil DEF Active
<1>5. \A q \in Active' : SoundCall(call'[q])
  BY <1>3, <1>4 DEF ConfTypeOK, Active
<1> QED BY <1>2, <1>3, <1>4, <1>5 DEF Active

LEMMA EndsTypes ==
  ASSUME ConfTypeOK, NEW p \in Active, call' = [call EXCEPT ![p] = Nil]
  PROVE  /\ Active' = Active \ {p}
         /\ call' \in [Admins -> Calls \cup {Nil}]
         /\ \A q \in Active' : call'[q] = call[q] /\ SoundCall(call'[q])
<1>1. p \in Admins
  BY DEF Active
<1>2. call' \in [Admins -> Calls \cup {Nil}]
  BY DEF ConfTypeOK
<1>3. call'[p] = Nil /\ \A q \in Admins : q # p => call'[q] = call[q]
  BY <1>1 DEF ConfTypeOK
<1>4. Active' = Active \ {p}
  BY <1>3 DEF Active
<1>5. \A q \in Active' : call'[q] = call[q] /\ SoundCall(call'[q])
  BY <1>3, <1>4 DEF ConfTypeOK, Active
<1> QED BY <1>2, <1>4, <1>5

LEMMA ReadTypes ==
  ASSUME ConfTypeOK, NEW p \in Admins, ReadConfig(p)
  PROVE  /\ ConfTypeOK' /\ p \in Active /\ call[p].at = "read"
         /\ \/ /\ file = Torn /\ Active' = Active \ {p}
               /\ \A q \in Active' : call'[q] = call[q]
            \/ /\ file # Torn /\ Active' = Active
               /\ call'[p] = [call[p] EXCEPT !.at = "truncate", !.read = file]
               /\ \A q \in Active : q # p => call'[q] = call[q]
<1>1. /\ p \in Active /\ call[p].at = "read" /\ call[p] \in Calls
      /\ UNCHANGED <<up, cfg, file, created, changes, mixed, tainted, spoiled, gone>>
  BY DEF ReadConfig, At, Active, ConfTypeOK, SoundCall, ghosts
<1>2. CASE file = Torn
  <2>1. call' = [call EXCEPT ![p] = Nil]
    BY <1>2 DEF ReadConfig, Fail
  <2>2. /\ Active' = Active \ {p} /\ call' \in [Admins -> Calls \cup {Nil}]
        /\ \A q \in Active' : call'[q] = call[q] /\ SoundCall(call'[q])
    BY <1>1, <2>1, EndsTypes
  <2>3. ConfTypeOK'
    BY <1>1, <2>2 DEF ConfTypeOK
  <2> QED BY <1>1, <1>2, <2>2, <2>3
<1>3. CASE file # Torn
  <2> DEFINE c == [call[p] EXCEPT !.at = "truncate", !.read = file]
  <2>1. call' = [call EXCEPT ![p] = c]
    BY <1>1, <1>3 DEF ReadConfig, ConfTypeOK
  <2>2. Sound(file) /\ file # Nil
    BY <1>3, ConfAssumption DEF ConfTypeOK, Sound
  <2>3. c \in Calls
    BY <1>1, <2>2 DEF Calls, Sound
  <2>4. c.read = file /\ c.value = call[p].value /\ c.field = call[p].field
    BY <1>1 DEF Calls
  <2> HIDE DEF c
  <2>5. SoundCall(c)
    BY <1>1, <2>2, <2>3, <2>4 DEF SoundCall, ConfTypeOK
  <2>6. /\ Active' = Active /\ call' \in [Admins -> Calls \cup {Nil}]
        /\ call'[p] = c /\ \A q \in Active : q # p => call'[q] = call[q]
        /\ \A q \in Active' : SoundCall(call'[q])
    BY <1>1, <2>1, <2>3, <2>5, GoesOnTypes
  <2>7. ConfTypeOK'
    BY <1>1, <2>6 DEF ConfTypeOK
  <2> QED BY <1>1, <1>3, <2>6, <2>7 DEF c
<1> QED BY <1>2, <1>3

LEMMA TruncateTypes ==
  ASSUME ConfTypeOK, NEW p \in Admins, Truncate(p)
  PROVE  /\ ConfTypeOK' /\ p \in Active /\ call[p].at = "truncate"
         /\ Active' = Active
         /\ call'[p] = [call[p] EXCEPT !.at = "write"]
         /\ \A q \in Active : q # p => call'[q] = call[q]
<1> DEFINE c == [call[p] EXCEPT !.at = "write"]
<1>1. /\ p \in Active /\ call[p].at = "truncate" /\ call[p] \in Calls
      /\ UNCHANGED <<up, cfg, created, changes, mixed, tainted, spoiled, gone>>
      /\ file' = Torn
  BY DEF Truncate, At, Active, ConfTypeOK, SoundCall, ghosts
<1>2. call' = [call EXCEPT ![p] = c]
  BY <1>1 DEF Truncate, ConfTypeOK
<1>3. c \in Calls
  BY <1>1 DEF Calls
<1>4. c.read = call[p].read /\ c.value = call[p].value /\ c.field = call[p].field
  BY <1>1 DEF Calls
<1> HIDE DEF c
<1>5. SoundCall(c)
  BY <1>1, <1>3, <1>4 DEF SoundCall, ConfTypeOK
<1>6. /\ Active' = Active /\ call' \in [Admins -> Calls \cup {Nil}]
      /\ call'[p] = c /\ \A q \in Active : q # p => call'[q] = call[q]
      /\ \A q \in Active' : SoundCall(call'[q])
  BY <1>1, <1>2, <1>3, <1>5, GoesOnTypes
<1>7. ConfTypeOK'
  BY <1>1, <1>6 DEF ConfTypeOK
<1> QED BY <1>1, <1>6, <1>7 DEF c

LEMMA WriteTypes ==
  ASSUME ConfTypeOK, NEW p \in Admins, Write(p)
  PROVE  /\ ConfTypeOK' /\ p \in Active /\ call[p].at = "write"
         /\ Active' = Active
         /\ call'[p] = [call[p] EXCEPT !.at = "assign"]
         /\ \A q \in Active : q # p =>
              call'[q] = IF call[q].at = "write" THEN [call[q] EXCEPT !.late = TRUE]
                         ELSE call[q]
<1> DEFINE After(q) == IF q = p THEN [call[p] EXCEPT !.at = "assign"]
                       ELSE IF call[q].at = "write" THEN [call[q] EXCEPT !.late = TRUE]
                       ELSE call[q]
<1>1. /\ p \in Active /\ call[p].at = "write" /\ call[p].read # Nil
      /\ UNCHANGED <<up, cfg, created, changes, mixed, tainted, spoiled, gone>>
      /\ file' \in {NewConfig(p)} \cup (IF call[p].late THEN {Torn} ELSE {})
  BY DEF Write, At, Active, ConfTypeOK, SoundCall, ghosts
<1>2. \A q \in Active : call'[q] = After(q)
  BY DEF Write, At, Active
<1>3. \A q \in Admins : q \notin Active => call'[q] = Nil
  BY <1>1 DEF Write, At, Active
<1>4. \A q \in Active :
        /\ After(q) \in Calls
        /\ After(q).value = call[q].value /\ After(q).field = call[q].field
        /\ After(q).read = call[q].read
        /\ call[q].at = "read" => After(q).at = "read"
  BY <1>1 DEF ConfTypeOK, SoundCall, Calls
<1>5. \A q \in Active : SoundCall(After(q))
  <2> HIDE DEF After
  <2>1. \A q \in Active : SoundCall(call[q])
    BY DEF ConfTypeOK
  <2>2. ASSUME NEW q \in Active PROVE After(q).at # "read" => call[q].read # Nil
    BY <1>4, <2>1 DEF SoundCall
  <2> QED BY <1>4, <2>1, <2>2 DEF SoundCall
<1> HIDE DEF After
<1>6. Active' = Active
  BY <1>2, <1>3, <1>4, CallsNotNil DEF Active
<1>7. call' \in [Admins -> Calls \cup {Nil}]
  <2>1. \A q \in Admins : call'[q] \in Calls \cup {Nil}
    BY <1>2, <1>3, <1>4
  <2>2. call' = [q \in Admins |-> call'[q]]
    BY DEF Write
  <2> QED BY <2>1, <2>2
<1>8. file' # Torn => Sound(file')
  BY <1>1, NewConfigSound
<1>9. \A q \in Active' : SoundCall(call'[q])
  BY <1>2, <1>5, <1>6
<1>10. ConfTypeOK'
  BY <1>1, <1>6, <1>7, <1>8, <1>9 DEF ConfTypeOK
<1> QED BY <1>1, <1>2, <1>6, <1>10 DEF After

LEMMA WriteFailsTypes ==
  ASSUME ConfTypeOK, NEW p \in Admins, WriteFails(p)
  PROVE  /\ ConfTypeOK' /\ p \in Active
         /\ Active' = Active \ {p}
         /\ \A q \in Active' : call'[q] = call[q]
<1>1. /\ p \in Active /\ spoiled' = TRUE /\ call' = [call EXCEPT ![p] = Nil]
      /\ UNCHANGED <<up, cfg, file, created, changes, mixed, tainted, gone>>
  BY DEF WriteFails, At, Active, Fail
<1>2. /\ Active' = Active \ {p} /\ call' \in [Admins -> Calls \cup {Nil}]
      /\ \A q \in Active' : call'[q] = call[q] /\ SoundCall(call'[q])
  BY <1>1, EndsTypes
<1>3. ConfTypeOK'
  BY <1>1, <1>2 DEF ConfTypeOK
<1> QED BY <1>1, <1>2, <1>3

LEMMA AssignTypes ==
  ASSUME ConfTypeOK, NEW p \in Admins, Assign(p)
  PROVE  /\ ConfTypeOK' /\ p \in Active /\ call[p].at = "assign"
         /\ Active' = Active \ {p}
         /\ \A q \in Active' : call'[q] = call[q]
         /\ \A f \in Fields : /\ cfg'[f] = IF f = call[p].field THEN call[p].value
                                                               ELSE cfg[f]
                              /\ tainted'[f] = IF f = call[p].field THEN mixed[p]
                                                                   ELSE tainted[f]
<1> DEFINE f == call[p].field
<1>1. /\ p \in Active /\ call[p].at = "assign"
      /\ cfg' = [cfg EXCEPT ![f] = call[p].value]
      /\ tainted' = [tainted EXCEPT ![f] = mixed[p]]
      /\ call' = [call EXCEPT ![p] = Nil]
      /\ UNCHANGED <<up, file, created, changes, mixed, spoiled>>
  BY DEF Assign, At, Active
<1>2. /\ Active' = Active \ {p} /\ call' \in [Admins -> Calls \cup {Nil}]
      /\ \A q \in Active' : call'[q] = call[q] /\ SoundCall(call'[q])
  BY <1>1, EndsTypes
<1>3. /\ call[p] \in Calls /\ f \in Fields /\ call[p].value \in Value(f)
      /\ call[p].deletes \in Ids \cup {Nil}
  BY <1>1 DEF ConfTypeOK, SoundCall, Calls
<1>4. \A g \in Fields : cfg'[g] = IF g = f THEN call[p].value ELSE cfg[g]
  BY <1>1, <1>3 DEF ConfTypeOK, Sound, Configs
<1>5. cfg' = [g \in Fields |-> cfg'[g]]
  BY <1>1 DEF ConfTypeOK, Sound, Configs
<1>6. \A g \in Fields : cfg'[g] \in Value(g)
  BY <1>3, <1>4 DEF ConfTypeOK, Sound
<1>7. Sound(cfg')
  BY <1>5, <1>6 DEF Sound, Configs
<1>8. tainted' \in [Fields -> BOOLEAN]
      /\ \A g \in Fields : tainted'[g] = IF g = f THEN mixed[p] ELSE tainted[g]
  <2>1. mixed[p] \in BOOLEAN
    BY DEF ConfTypeOK
  <2> QED BY <1>1, <1>3, <2>1 DEF ConfTypeOK
<1>9. gone' \in SUBSET Ids
  BY <1>3 DEF Assign, ConfTypeOK
<1>10. ConfTypeOK'
  BY <1>1, <1>2, <1>7, <1>8, <1>9 DEF ConfTypeOK
<1> QED BY <1>1, <1>2, <1>4, <1>8, <1>10

LEMMA ExitTypes ==
  ASSUME ConfTypeOK, Exit
  PROVE  ConfTypeOK' /\ Active' = {}
<1>1. Active' = {}
  BY DEF Exit, Active
<1>2. call' \in [Admins -> Calls \cup {Nil}] /\ mixed' \in [Admins -> BOOLEAN]
  BY DEF Exit
<1> QED BY <1>1, <1>2 DEF Exit, ConfTypeOK

LEMMA StartTypes ==
  ASSUME ConfTypeOK, Start
  PROVE  /\ ConfTypeOK' /\ Active = {} /\ Active' = {}
         /\ \A f \in Fields : ~Overridden(f) => cfg'[f] = file[f]
<1>1. Active = {} /\ call' = call /\ Active' = {} /\ file # Torn
  BY DEF Start, ConfTypeOK, Active
<1>2. Sound(cfg')
  BY <1>1, LoadedSound DEF Start, ConfTypeOK
<1>3. tainted' \in [Fields -> BOOLEAN]
  BY DEF Start
<1>4. ConfTypeOK'
  BY <1>1, <1>2, <1>3 DEF Start, ConfTypeOK
<1>5. \A f \in Fields : ~Overridden(f) => cfg'[f] = file[f]
  BY <1>1 DEF Start, LoadedConfig, Overridden, ConfTypeOK, Sound, Configs
<1> QED BY <1>1, <1>4, <1>5

-----------------------------------------------------------------------------
(* What a change starts with.                                              *)
LEMMA AsksMixes ==
  ASSUME AloneInv, NEW p \in Admins, Asks(p)
  PROVE  /\ AloneInv' /\ UNCHANGED <<up, cfg, file, tainted, gone>> /\ up
         /\ p \notin Active /\ Active' = Active \cup {p}
         /\ \A q \in Active : call'[q] = call[q]
         /\ call'[p].at = "read" /\ call'[p].read = Nil
         /\ Active = {} => ~mixed'[p]
         /\ ~spoiled' => Active = {} /\ ~spoiled
         /\ created' \in created..MaxIds
         /\ call'[p].field = "api_keys" =>
              DOMAIN call'[p].value
                \subseteq DOMAIN cfg["api_keys"] \cup ((created + 1)..created')
         /\ call'[p].deletes # Nil =>
              /\ call'[p].field = "api_keys"
              /\ call'[p].deletes \in DOMAIN cfg["api_keys"] \ DOMAIN call'[p].value
<1>1. ConfTypeOK
  BY DEF AloneInv
<1>2. PICK field \in Fields : \E value \in Value(field), deletes \in Ids \cup {Nil} :
           /\ Begin(p, field, value, deletes)
           /\ created' \in created..MaxIds
           /\ field = "api_keys" =>
                DOMAIN value \subseteq DOMAIN cfg["api_keys"] \cup ((created + 1)..created')
           /\ deletes # Nil =>
                field = "api_keys" /\ deletes \in DOMAIN cfg["api_keys"] \ DOMAIN value
  BY <1>1, AsksBegins
<1>3. PICK value \in Value(field), deletes \in Ids \cup {Nil} :
           /\ Begin(p, field, value, deletes)
           /\ created' \in created..MaxIds
           /\ field = "api_keys" =>
                DOMAIN value \subseteq DOMAIN cfg["api_keys"] \cup ((created + 1)..created')
           /\ deletes # Nil =>
                field = "api_keys" /\ deletes \in DOMAIN cfg["api_keys"] \ DOMAIN value
  BY <1>2
<1>4. created' \in 0..MaxIds
  BY <1>1, <1>3, ConfAssumption DEF ConfTypeOK
<1>5. /\ ConfTypeOK'
      /\ call'[p] = [field |-> field, value |-> value, at |-> "read",
                     read |-> Nil, late |-> FALSE, deletes |-> deletes]
      /\ Active' = Active \cup {p}
      /\ p \notin Active
      /\ \A q \in Active : call'[q] = call[q]
  BY <1>1, <1>3, <1>4, BeginTypes
<1>6. /\ call'[p].at = "read" /\ call'[p].read = Nil /\ call'[p].late = FALSE
      /\ call'[p].field = field /\ call'[p].value = value /\ call'[p].deletes = deletes
  BY <1>5
<1>7. /\ UNCHANGED <<up, cfg, file, tainted, gone>> /\ up
      /\ spoiled' = (spoiled \/ Active # {})
      /\ mixed' = [q \in Admins |-> IF q = p THEN Active # {}
                                    ELSE mixed[q] \/ q \in Active]
  BY <1>3 DEF Begin
<1>8. mixed'[p] <=> Active # {}
  BY <1>7
<1>9. \A q \in Active : mixed'[q]
  BY <1>5, <1>7 DEF Active
<1>10. \A q, r \in Active' : q # r => mixed'[q]
  BY <1>5, <1>8, <1>9
<1>11. \A q \in Active' : ~mixed'[q] => ~call'[q].late /\ call'[q].at # "assign"
  BY <1>5, <1>6, <1>9
<1>12. AloneInv'
  BY <1>5, <1>10, <1>11 DEF AloneInv
<1>13. ~spoiled' => Active = {} /\ ~spoiled
  BY <1>7
<1>14. Active = {} => ~mixed'[p]
  BY <1>8
<1> QED BY <1>3, <1>5, <1>6, <1>7, <1>12, <1>13, <1>14

(* Handlers that go on or end keep it.                                     *)
LEMMA AloneKept ==
  ASSUME AloneInv, ConfTypeOK', UNCHANGED mixed, Active' \subseteq Active,
         NEW p \in Active,
         p \in Active' /\ ~mixed[p] =>
           ~(call'[p].late) /\ (call'[p].at = "assign" => file' = NewConfig(p)')
  PROVE  AloneInv'
<1>1. \A q, r \in Active' : q # r => mixed'[q]
  BY DEF AloneInv
<1>2. ASSUME NEW q \in Active', ~mixed'[q] PROVE q = p
  BY <1>2 DEF AloneInv
<1>3. \A q \in Active' :
        ~mixed'[q] => ~(call'[q].late)
                      /\ (call'[q].at = "assign" => file' = NewConfig(q)')
  BY <1>2
<1> QED BY <1>1, <1>3 DEF AloneInv

LEMMA AloneStep ==
  ASSUME AloneInv, [ConfNext]_confVars
  PROVE  AloneInv'
<1>1. ConfTypeOK
  BY DEF AloneInv
<1>2. ASSUME NEW p \in Admins, Asks(p) PROVE AloneInv'
  BY <1>2, AsksMixes
<1>3. ASSUME NEW p \in Admins, ReadConfig(p) PROVE AloneInv'
  <2>1. /\ ConfTypeOK' /\ p \in Active /\ Active' \subseteq Active /\ call[p].at = "read"
        /\ UNCHANGED mixed
    BY <1>1, <1>3, ReadTypes DEF ReadConfig, ghosts
  <2>2. p \in Active' => call'[p] = [call[p] EXCEPT !.at = "truncate", !.read = file]
    BY <1>1, <1>3, ReadTypes
  <2>3. call[p] \in Calls
    BY <1>1, <2>1 DEF ConfTypeOK, SoundCall
  <2>4. p \in Active' => call'[p].late = call[p].late /\ call'[p].at = "truncate"
    BY <2>2, <2>3 DEF Calls
  <2>5. p \in Active' /\ ~mixed[p] =>
          ~(call'[p].late) /\ (call'[p].at = "assign" => file' = NewConfig(p)')
    BY <2>1, <2>4 DEF AloneInv
  <2> QED BY <2>1, <2>5, AloneKept
<1>4. ASSUME NEW p \in Admins, Truncate(p) PROVE AloneInv'
  <2>1. /\ ConfTypeOK' /\ p \in Active /\ Active' \subseteq Active
        /\ UNCHANGED mixed
        /\ call'[p] = [call[p] EXCEPT !.at = "write"]
    BY <1>1, <1>4, TruncateTypes DEF Truncate, ghosts
  <2>2. call[p] \in Calls
    BY <1>1, <2>1 DEF ConfTypeOK, SoundCall
  <2>3. call'[p].late = call[p].late /\ call'[p].at = "write"
    BY <2>1, <2>2 DEF Calls
  <2>4. p \in Active' /\ ~mixed[p] =>
          ~(call'[p].late) /\ (call'[p].at = "assign" => file' = NewConfig(p)')
    BY <2>1, <2>3 DEF AloneInv
  <2> QED BY <2>1, <2>4, AloneKept
<1>5. ASSUME NEW p \in Admins, Write(p) PROVE AloneInv'
  <2>1. /\ ConfTypeOK' /\ p \in Active /\ Active' \subseteq Active
        /\ UNCHANGED mixed
        /\ call'[p] = [call[p] EXCEPT !.at = "assign"]
        /\ file' \in {NewConfig(p)} \cup (IF call[p].late THEN {Torn} ELSE {})
    BY <1>1, <1>5, WriteTypes DEF Write, ghosts
  <2>2. call[p] \in Calls
    BY <1>1, <2>1 DEF ConfTypeOK, SoundCall
  <2>3. /\ call'[p].late = call[p].late /\ call'[p].read = call[p].read
        /\ call'[p].field = call[p].field /\ call'[p].value = call[p].value
    BY <2>1, <2>2 DEF Calls
  <2>4. NewConfig(p)' = NewConfig(p)
    BY <2>3 DEF NewConfig
  <2>5. p \in Active' /\ ~mixed[p] =>
          ~(call'[p].late) /\ (call'[p].at = "assign" => file' = NewConfig(p)')
    BY <2>1, <2>3, <2>4 DEF AloneInv
  <2> QED BY <2>1, <2>5, AloneKept
<1>6. ASSUME NEW p \in Admins, WriteFails(p) PROVE AloneInv'
  <2>1. /\ ConfTypeOK' /\ p \in Active /\ p \notin Active' /\ Active' \subseteq Active
        /\ UNCHANGED mixed
    BY <1>1, <1>6, WriteFailsTypes DEF WriteFails
  <2> QED BY <2>1, AloneKept
<1>7. ASSUME NEW p \in Admins, Assign(p) PROVE AloneInv'
  <2>1. /\ ConfTypeOK' /\ p \in Active /\ p \notin Active' /\ Active' \subseteq Active
        /\ UNCHANGED mixed
    BY <1>1, <1>7, AssignTypes DEF Assign
  <2> QED BY <2>1, AloneKept
<1>8. CASE Exit
  BY <1>1, <1>8, ExitTypes DEF AloneInv
<1>9. CASE Start
  BY <1>1, <1>9, StartTypes DEF AloneInv
<1>10. CASE UNCHANGED confVars
  BY <1>10 DEF AloneInv, ConfTypeOK, confVars, ghosts, Active, NewConfig
<1> QED BY <1>2, <1>3, <1>4, <1>5, <1>6, <1>7, <1>8, <1>9, <1>10
        DEF ConfNext, Asks

(* The agreement of file and memory, step by step.                         *)
LEMMA MatchStep ==
  ASSUME MatchInv, [ConfNext]_confVars
  PROVE  MatchInv'
<1>1. AloneInv /\ ConfTypeOK /\ AloneInv'
  BY AloneStep DEF MatchInv, AloneInv
<1>2. \A q \in Active : call[q] \in Calls /\ call[q].field \in Fields
  BY <1>1 DEF ConfTypeOK, SoundCall, Calls
<1>3. ASSUME NEW p \in Admins, Asks(p) PROVE AgreeInv' /\ TornInv'
  <2>1. /\ UNCHANGED <<up, cfg, file, tainted, gone>> /\ up
        /\ p \notin Active /\ Active' = Active \cup {p}
        /\ \A q \in Active : call'[q] = call[q]
        /\ call'[p].at = "read" /\ call'[p].read = Nil
        /\ Active = {} => ~mixed'[p]
        /\ ~spoiled' => Active = {} /\ ~spoiled
    BY <1>1, <1>3, AsksMixes
  <2>2. \A f \in Fields : Settled(f)' => Settled(f)
    BY <2>1 DEF Settled, Overridden
  <2>3. AgreeInv'
    BY <2>1, <2>2 DEF MatchInv, AgreeInv
  <2>4. TornInv'
    BY <2>1 DEF MatchInv, TornInv
  <2> QED BY <2>3, <2>4
<1>4. ASSUME NEW p \in Admins, ReadConfig(p) PROVE AgreeInv' /\ TornInv'
  <2>1. /\ p \in Active /\ Active' \subseteq Active /\ call[p].at = "read"
        /\ UNCHANGED <<up, cfg, file, mixed, tainted, spoiled>>
        /\ file = Torn \/ Active' = Active
        /\ \A q \in Active' : q # p => call'[q] = call[q]
    BY <1>1, <1>4, ReadTypes DEF ReadConfig, ghosts
  <2>2. p \in Active' => /\ file # Torn
                         /\ call'[p] = [call[p] EXCEPT !.at = "truncate", !.read = file]
    BY <1>1, <1>4, ReadTypes
  <2>3. p \in Active' => /\ file # Torn /\ call'[p].read = file
                         /\ call'[p].at = "truncate"
    BY <1>2, <2>1, <2>2 DEF Calls
  <2>4. \A f \in Fields : Settled(f)' => Settled(f)
    <3> SUFFICES ASSUME NEW f \in Fields, Settled(f)', NEW q \in Active,
                        call[q].field = f, call[q].at = "assign"
                 PROVE  FALSE
      BY <2>1 DEF Settled, Overridden
    <3>1. q # p
      BY <2>1
    <3>2. q \in Active'
      BY <1>1, <1>4, <3>1, ReadTypes
    <3> QED BY <2>1, <3>1, <3>2 DEF Settled
  <2>5. AgreeInv'
    BY <2>1, <2>3, <2>4 DEF MatchInv, AgreeInv
  <2>6. up /\ ~spoiled => file # Torn
    BY <1>1, <2>1 DEF MatchInv, TornInv, AloneInv
  <2>7. TornInv'
    BY <2>1, <2>6 DEF MatchInv, TornInv
  <2> QED BY <2>5, <2>7
<1>5. ASSUME NEW p \in Admins, Truncate(p) PROVE AgreeInv' /\ TornInv'
  <2>1. /\ p \in Active /\ Active' = Active /\ call[p].at = "truncate" /\ file' = Torn
        /\ UNCHANGED <<up, cfg, mixed, tainted, spoiled>>
        /\ call'[p] = [call[p] EXCEPT !.at = "write"]
        /\ \A q \in Active : q # p => call'[q] = call[q]
    BY <1>1, <1>5, TruncateTypes DEF Truncate, ghosts
  <2>2. call'[p].at = "write" /\ call'[p].read = call[p].read
    BY <1>2, <2>1 DEF Calls
  <2>3. \A f \in Fields : Settled(f)' => Settled(f)
    BY <2>1 DEF Settled, Overridden
  <2>4. \A q \in Active : call'[q].read = call[q].read
    BY <2>1, <2>2
  <2>5. AgreeInv'
    BY <2>1, <2>3, <2>4 DEF MatchInv, AgreeInv
  <2>6. TornInv'
    BY <2>1, <2>2 DEF MatchInv, TornInv
  <2> QED BY <2>5, <2>6
<1>6. ASSUME NEW p \in Admins, Write(p) PROVE AgreeInv' /\ TornInv'
  <2>1. /\ p \in Active /\ Active' = Active /\ call[p].at = "write"
        /\ UNCHANGED <<up, cfg, mixed, tainted, spoiled>>
        /\ call'[p] = [call[p] EXCEPT !.at = "assign"]
        /\ \A q \in Active : q # p =>
             call'[q] = IF call[q].at = "write" THEN [call[q] EXCEPT !.late = TRUE]
                        ELSE call[q]
        /\ file' \in {NewConfig(p)} \cup (IF call[p].late THEN {Torn} ELSE {})
    BY <1>1, <1>6, WriteTypes DEF Write, ghosts
  <2>2. \A q \in Active : /\ call'[q].read = call[q].read
                          /\ call'[q].field = call[q].field
                          /\ q # p => call'[q].at = call[q].at
    <3>1. ASSUME NEW q \in Active, q # p
          PROVE  /\ call'[q].read = call[q].read /\ call'[q].field = call[q].field
                 /\ call'[q].at = call[q].at
      <4>1. call'[q] = [call[q] EXCEPT !.late = TRUE] \/ call'[q] = call[q]
        BY <2>1, <3>1
      <4> QED BY <1>2, <4>1 DEF Calls
    <3>2. call'[p].read = call[p].read /\ call'[p].field = call[p].field
      BY <1>2, <2>1 DEF Calls
    <3> QED BY <3>1, <3>2
  <2>3. call'[p].at = "assign"
    BY <1>2, <2>1 DEF Calls
  <2>4. \A f \in Fields : Settled(f)' => Settled(f) /\ f # call[p].field
    BY <2>1, <2>2, <2>3 DEF Settled, Overridden
  <2>5. /\ call[p].read # Nil /\ NewConfig(p) # Torn
        /\ \A f \in Fields : NewConfig(p)[f] = IF f = call[p].field THEN call[p].value
                                                                   ELSE call[p].read[f]
    <3>1. call[p].read # Nil
      BY <1>1, <2>1 DEF ConfTypeOK, SoundCall
    <3> QED BY <1>1, <2>1, <3>1, NewConfigSound
  <2>6. \A f \in Fields : up /\ Settled(f)' /\ file' # Torn => file'[f] = cfg'[f]
    BY <2>1, <2>4, <2>5 DEF MatchInv, AgreeInv
  <2>7. AgreeInv'
    BY <2>1, <2>2, <2>4, <2>6 DEF MatchInv, AgreeInv
  <2>8. up /\ ~spoiled => file' # Torn
    BY <1>1, <2>1, <2>5 DEF MatchInv, TornInv, AloneInv
  <2>9. TornInv'
    BY <2>1, <2>8 DEF MatchInv, TornInv
  <2> QED BY <2>7, <2>9
<1>7. ASSUME NEW p \in Admins, WriteFails(p) PROVE AgreeInv' /\ TornInv'
  <2>1. /\ p \in Active /\ call[p].at = "write" /\ Active' = Active \ {p}
        /\ \A q \in Active' : call'[q] = call[q]
        /\ UNCHANGED <<up, cfg, file, mixed, tainted>> /\ spoiled' = TRUE
    BY <1>1, <1>7, WriteFailsTypes DEF WriteFails, At
  <2>2. \A f \in Fields : Settled(f)' => Settled(f)
    BY <2>1 DEF Settled, Overridden
  <2>3. AgreeInv'
    BY <2>1, <2>2 DEF MatchInv, AgreeInv
  <2> QED BY <2>1, <2>3 DEF TornInv
<1>8. ASSUME NEW p \in Admins, Assign(p) PROVE AgreeInv' /\ TornInv'
  <2> DEFINE field == call[p].field
  <2>1. /\ p \in Active /\ call[p].at = "assign" /\ Active' = Active \ {p}
        /\ \A q \in Active' : call'[q] = call[q]
        /\ UNCHANGED <<up, file, mixed, spoiled>>
        /\ \A f \in Fields : /\ cfg'[f] = IF f = field THEN call[p].value ELSE cfg[f]
                             /\ tainted'[f] = IF f = field THEN mixed[p] ELSE tainted[f]
    BY <1>1, <1>8, AssignTypes DEF Assign
  <2>2. /\ call[p].read # Nil
        /\ \A f \in Fields : NewConfig(p)[f] = IF f = field THEN call[p].value
                                                           ELSE call[p].read[f]
    <3>1. call[p].read # Nil
      BY <1>1, <2>1 DEF ConfTypeOK, SoundCall
    <3> QED BY <1>1, <2>1, <3>1, NewConfigSound
  <2>3. ASSUME NEW f \in Fields, up, Settled(f)'
        PROVE  /\ file # Torn => file[f] = cfg'[f]
               /\ \A q \in Active' : call'[q].read # Nil => call'[q].read[f] = cfg'[f]
    <3>1. CASE f = field
      <4>1. ~mixed[p]
        BY <2>1, <2>3, <3>1 DEF Settled
      <4>2. Active' = {} /\ file = NewConfig(p)
        BY <1>1, <2>1, <4>1 DEF AloneInv
      <4> QED BY <2>1, <2>2, <3>1, <4>2
    <3>2. CASE f # field
      <4>1. Settled(f)
        BY <2>1, <2>3, <3>2 DEF Settled, Overridden
      <4> QED BY <2>1, <2>3, <3>2, <4>1 DEF MatchInv, AgreeInv
    <3> QED BY <3>1, <3>2
  <2>4. AgreeInv'
    BY <2>1, <2>3 DEF AgreeInv
  <2>5. up /\ ~spoiled => file # Torn
    BY <1>1, <2>1 DEF MatchInv, TornInv, AloneInv
  <2>6. TornInv'
    BY <2>1, <2>5 DEF MatchInv, TornInv
  <2> QED BY <2>4, <2>6
<1>9. ASSUME Exit PROVE AgreeInv' /\ TornInv'
  BY <1>9 DEF Exit, AgreeInv, TornInv
<1>10. ASSUME Start PROVE AgreeInv' /\ TornInv'
  <2>1. /\ Active' = {} /\ file # Torn /\ file' = file
        /\ \A f \in Fields : ~Overridden(f) => cfg'[f] = file[f]
    BY <1>1, <1>10, StartTypes DEF Start
  <2>2. AgreeInv'
    BY <2>1 DEF AgreeInv, Settled, Overridden
  <2> QED BY <2>1, <2>2 DEF TornInv
<1>11. ASSUME UNCHANGED confVars PROVE AgreeInv' /\ TornInv'
  <2>1. UNCHANGED <<Active, up, cfg, file, call, mixed, tainted, spoiled>>
    BY <1>11 DEF confVars, ghosts, Active
  <2>2. \A f \in Fields : Settled(f)' = Settled(f)
    BY <2>1 DEF Settled, Overridden
  <2> QED BY <2>1, <2>2 DEF MatchInv, AgreeInv, TornInv
<1>12. AgreeInv' /\ TornInv'
  BY <1>3, <1>4, <1>5, <1>6, <1>7, <1>8, <1>9, <1>10, <1>11 DEF ConfNext, Asks
<1> QED BY <1>1, <1>12 DEF MatchInv

LEMMA MatchInit == ConfInit => MatchInv
<1> SUFFICES ASSUME ConfInit PROVE MatchInv
  OBVIOUS
<1>1. ConfTypeOK
  BY InitTypes
<1>2. Active = {}
  BY DEF ConfInit, Active
<1>3. file \in Configs /\ file # Torn
  BY InitFile DEF Sound
<1>4. \A f \in Fields : ~Overridden(f) => file[f] = cfg[f]
  BY <1>3 DEF ConfInit, LoadedConfig, Overridden, Configs
<1> QED BY <1>1, <1>2, <1>3, <1>4
        DEF MatchInv, AloneInv, AgreeInv, TornInv, Settled

LEMMA MatchInvariant == ConfSpec => []MatchInv
<1>1. ConfInit => MatchInv
  BY MatchInit
<1>2. MatchInv /\ [ConfNext]_confVars => MatchInv'
  BY MatchStep
<1> QED BY <1>1, <1>2, PTL DEF ConfSpec

(* When no change is under way, config.json holds what the memory holds,   *)
(* but for a field whose last change overlapped another, and it parses     *)
(* unless an overlap or a failed write has been since the start.           *)
THEOREM FileMatchesMemoryCorrect == ConfSpec => []FileMatchesMemory
<1>1. MatchInv => FileMatchesMemory
  <2> SUFFICES ASSUME MatchInv, up, Active = {} PROVE FileMatchesMemory
    BY DEF FileMatchesMemory
  <2>1. file = Torn => spoiled
    BY DEF MatchInv, TornInv
  <2>2. ASSUME file # Torn, NEW f \in Fields, ~tainted[f], ~Overridden(f)
        PROVE  LoadedConfig[f] = cfg[f]
    <3>1. file[f] = cfg[f]
      BY <2>2 DEF MatchInv, AgreeInv, Settled
    <3>2. LoadedConfig[f] = file[f]
      BY <2>2 DEF LoadedConfig, Overridden, MatchInv, AloneInv, ConfTypeOK,
                  Sound, Configs
    <3> QED BY <3>1, <3>2
  <2> QED BY <2>1, <2>2 DEF FileMatchesMemory
<1> QED BY <1>1, MatchInvariant, PTL

-----------------------------------------------------------------------------
LEMMA KeysKept ==
  ASSUME KeysInv, AloneInv', UNCHANGED <<created, gone, cfg>>,
         Active' \subseteq Active,
         \A q \in Active' : /\ call'[q].field = call[q].field
                            /\ call'[q].value = call[q].value
                            /\ call'[q].deletes = call[q].deletes
                            /\ call'[q].read # Nil => \/ call'[q].read = call[q].read
                                                      \/ call'[q].read = file /\ file # Torn,
         file' # Torn => DOMAIN file'["api_keys"] \subseteq Live
  PROVE  KeysInv'
<1>1. UNCHANGED Live
  BY DEF Live
<1>2. \A q \in Active' : KeysOfCall(q)'
  <2> SUFFICES ASSUME NEW q \in Active' PROVE KeysOfCall(q)'
    OBVIOUS
  <2>1. KeysOfCall(q)
    BY DEF KeysInv, KeysOfCall
  <2> QED BY <1>1, <2>1 DEF KeysInv, KeysOfCall
<1> QED BY <1>1, <1>2 DEF KeysInv, KeysOfCall

LEMMA KeysStep ==
  ASSUME KeysInv, [ConfNext]_confVars
  PROVE  KeysInv'
<1>1. AloneInv /\ ConfTypeOK /\ AloneInv' /\ created \in Nat
  BY AloneStep, ConfAssumption DEF KeysInv, AloneInv, ConfTypeOK
<1>2. \A q \in Active : call[q] \in Calls
  BY <1>1 DEF ConfTypeOK, SoundCall
<1>3. \A q \in Active : KeysOfCall(q)
  BY DEF KeysInv, KeysOfCall
<1>4. "api_keys" \in Fields /\ ~Overridden("api_keys")
  BY DEF Fields, Overridden
<1>5. ASSUME NEW p \in Admins, Asks(p) PROVE KeysInv'
  <2>1. /\ UNCHANGED <<cfg, file, gone>>
        /\ p \notin Active /\ Active' = Active \cup {p}
        /\ \A q \in Active : call'[q] = call[q]
        /\ call'[p].read = Nil
        /\ created' \in created..MaxIds
        /\ call'[p].field = "api_keys" =>
             DOMAIN call'[p].value
               \subseteq DOMAIN cfg["api_keys"] \cup ((created + 1)..created')
        /\ call'[p].deletes # Nil =>
             /\ call'[p].field = "api_keys"
             /\ call'[p].deletes \in DOMAIN cfg["api_keys"] \ DOMAIN call'[p].value
    BY <1>1, <1>5, AsksMixes
  <2>2. created' \in Nat /\ created <= created' /\ MaxIds \in Nat
    BY <1>1, <2>1, ConfAssumption
  <2>3. 1..created \subseteq 1..created'
    BY <1>1, <2>2
  <2>4. Live \cup ((created + 1)..created') \subseteq Live'
    BY <1>1, <2>1, <2>2 DEF Live, KeysInv
  <2>5. Live \subseteq 1..created
    BY DEF Live
  <2>6. \A q \in Active : KeysOfCall(q)'
    <3> SUFFICES ASSUME NEW q \in Active PROVE KeysOfCall(q)'
      OBVIOUS
    <3>1. KeysOfCall(q)
      BY <1>3
    <3> QED BY <2>1, <2>3, <2>4, <3>1 DEF KeysOfCall
  <2>7. KeysOfCall(p)'
    BY <2>1, <2>3, <2>4, <2>5 DEF KeysOfCall, KeysInv
  <2>8. \A q \in Active' : KeysOfCall(q)'
    BY <2>1, <2>6, <2>7
  <2> QED BY <1>1, <2>1, <2>3, <2>4, <2>8 DEF KeysInv, KeysOfCall
<1>6. ASSUME NEW p \in Admins, ReadConfig(p) PROVE KeysInv'
  <2>1. /\ p \in Active /\ Active' \subseteq Active
        /\ UNCHANGED <<cfg, file, created, gone>>
        /\ \A q \in Active' : q # p => call'[q] = call[q]
    BY <1>1, <1>6, ReadTypes DEF ReadConfig, ghosts
  <2>2. p \in Active' => /\ file # Torn
                         /\ call'[p] = [call[p] EXCEPT !.at = "truncate", !.read = file]
    BY <1>1, <1>6, ReadTypes
  <2>3. p \in Active' => /\ file # Torn /\ call'[p].read = file
                         /\ call'[p].field = call[p].field
                         /\ call'[p].value = call[p].value
                         /\ call'[p].deletes = call[p].deletes
    BY <1>2, <2>1, <2>2 DEF Calls
  <2>4. file' # Torn => DOMAIN file'["api_keys"] \subseteq Live
    BY <2>1 DEF KeysInv
  <2> QED BY <1>1, <2>1, <2>3, <2>4, KeysKept
<1>7. ASSUME NEW p \in Admins, Truncate(p) PROVE KeysInv'
  <2>1. /\ p \in Active /\ Active' = Active /\ file' = Torn
        /\ UNCHANGED <<cfg, created, gone>>
        /\ call'[p] = [call[p] EXCEPT !.at = "write"]
        /\ \A q \in Active : q # p => call'[q] = call[q]
    BY <1>1, <1>7, TruncateTypes DEF Truncate, ghosts
  <2>2. /\ call'[p].read = call[p].read /\ call'[p].field = call[p].field
        /\ call'[p].value = call[p].value /\ call'[p].deletes = call[p].deletes
    BY <1>2, <2>1 DEF Calls
  <2> QED BY <1>1, <2>1, <2>2, KeysKept
<1>8. ASSUME NEW p \in Admins, Write(p) PROVE KeysInv'
  <2>1. /\ p \in Active /\ Active' = Active
        /\ UNCHANGED <<cfg, created, gone>>
        /\ call'[p] = [call[p] EXCEPT !.at = "assign"]
        /\ \A q \in Active : q # p =>
             call'[q] = IF call[q].at = "write" THEN [call[q] EXCEPT !.late = TRUE]
                        ELSE call[q]
        /\ file' \in {NewConfig(p)} \cup (IF call[p].late THEN {Torn} ELSE {})
    BY <1>1, <1>8, WriteTypes DEF Write, ghosts
  <2>2. ASSUME NEW q \in Active
        PROVE  /\ call'[q].read = call[q].read /\ call'[q].field = call[q].field
               /\ call'[q].value = call[q].value /\ call'[q].deletes = call[q].deletes
    <3>1. \/ call'[q] = [call[q] EXCEPT !.late = TRUE]
          \/ call'[q] = [call[q] EXCEPT !.at = "assign"]
          \/ call'[q] = call[q]
      BY <2>1
    <3> QED BY <1>2, <3>1 DEF Calls
  <2>3. /\ call[p].read # Nil
        /\ \A f \in Fields : NewConfig(p)[f] = IF f = call[p].field THEN call[p].value
                                                                   ELSE call[p].read[f]
    <3>1. call[p].read # Nil
      BY <1>1, <1>8 DEF ConfTypeOK, SoundCall, Write, At, Active
    <3> QED BY <1>1, <2>1, <3>1, NewConfigSound
  <2>4. KeysOfCall(p)
    BY <1>3, <2>1
  <2>5. DOMAIN NewConfig(p)["api_keys"] \subseteq Live
    BY <1>4, <2>3, <2>4 DEF KeysOfCall
  <2> QED BY <1>1, <2>1, <2>2, <2>5, KeysKept
<1>9. ASSUME NEW p \in Admins, WriteFails(p) PROVE KeysInv'
  <2>1. /\ p \in Active /\ Active' \subseteq Active
        /\ \A q \in Active' : call'[q] = call[q]
        /\ UNCHANGED <<cfg, file, created, gone>>
    BY <1>1, <1>9, WriteFailsTypes DEF WriteFails
  <2>2. file' # Torn => DOMAIN file'["api_keys"] \subseteq Live
    BY <2>1 DEF KeysInv
  <2> QED BY <1>1, <2>1, <2>2, KeysKept
<1>10. ASSUME NEW p \in Admins, Assign(p) PROVE KeysInv'
  <2> DEFINE c == call[p]
  <2>1. /\ p \in Active /\ Active' = Active \ {p}
        /\ \A q \in Active' : call'[q] = call[q]
        /\ UNCHANGED <<up, file, created>>
        /\ \A f \in Fields : cfg'[f] = IF f = c.field THEN c.value ELSE cfg[f]
        /\ gone' = IF c.deletes # Nil /\ ~mixed[p] THEN gone \cup {c.deletes} ELSE gone
    BY <1>1, <1>10, AssignTypes DEF Assign
  <2>2. KeysOfCall(p)
    BY <1>3, <2>1
  <2>3. CASE c.deletes # Nil /\ ~mixed[p]
    <3>1. Active' = {} /\ file = NewConfig(p)
      BY <1>1, <1>10, <2>1, <2>3 DEF AloneInv, Assign, At
    <3>2. c.read # Nil
      BY <1>1, <1>10 DEF ConfTypeOK, SoundCall, Assign, At, Active
    <3>3. c.field = "api_keys" /\ c.deletes \in (1..created) \ DOMAIN c.value
          /\ DOMAIN c.value \subseteq Live
      BY <2>2, <2>3 DEF KeysOfCall
    <3>4. cfg'["api_keys"] = c.value /\ file["api_keys"] = c.value
      BY <1>1, <1>4, <2>1, <3>1, <3>2, <3>3, NewConfigSound
    <3>5. gone' \subseteq 1..created'
      BY <2>1, <2>3, <3>3 DEF KeysInv
    <3>6. DOMAIN c.value \subseteq Live'
      BY <2>1, <2>3, <3>3 DEF Live
    <3> QED BY <1>1, <2>1, <3>1, <3>4, <3>5, <3>6 DEF KeysInv
  <2>4. CASE ~(c.deletes # Nil /\ ~mixed[p])
    <3>1. gone' = gone /\ Live' = Live
      BY <2>1, <2>4 DEF Live
    <3>2. \A q \in Active' : KeysOfCall(q)'
      <4> SUFFICES ASSUME NEW q \in Active' PROVE KeysOfCall(q)'
        OBVIOUS
      <4>1. KeysOfCall(q)
        BY <1>3, <2>1
      <4> QED BY <2>1, <3>1, <4>1 DEF KeysOfCall
    <3>3. DOMAIN cfg'["api_keys"] \subseteq Live'
      BY <1>4, <2>1, <2>2, <3>1 DEF KeysInv, KeysOfCall
    <3> QED BY <1>1, <2>1, <3>1, <3>2, <3>3 DEF KeysInv, KeysOfCall
  <2> QED BY <2>3, <2>4
<1>11. CASE Exit
  <2>1. Active' = {} /\ UNCHANGED <<cfg, file, created, gone>>
    BY <1>1, <1>11, ExitTypes DEF Exit
  <2> QED BY <1>1, <2>1 DEF KeysInv, Live
<1>12. CASE Start
  <2>1. /\ Active' = {} /\ UNCHANGED <<file, created, gone>> /\ file # Torn
        /\ cfg'["api_keys"] = file["api_keys"]
    BY <1>1, <1>4, <1>12, StartTypes DEF Start
  <2> QED BY <1>1, <2>1 DEF KeysInv, Live
<1>13. CASE UNCHANGED confVars
  BY <1>1, <1>13 DEF KeysInv, KeysOfCall, Live, Active, confVars, ghosts
<1> QED BY <1>5, <1>6, <1>7, <1>8, <1>9, <1>10, <1>11, <1>12, <1>13
        DEF ConfNext, Asks

LEMMA KeysInit == ConfInit => KeysInv
<1> SUFFICES ASSUME ConfInit PROVE KeysInv
  OBVIOUS
<1>1. AloneInv /\ Active = {}
  BY MatchInit DEF MatchInv, ConfInit, Active
<1>2. file["api_keys"] = NoKeys /\ file \in Configs
  BY InitFile DEF Sound
<1>3. cfg["api_keys"] = NoKeys
  <2>1. CASE EnvKey = Nil
    BY <1>2, <2>1 DEF ConfInit, LoadedConfig
  <2>2. CASE EnvKey # Nil
    <3>1. cfg = [file EXCEPT !["api_key"] = EnvKey]
      BY <2>2 DEF ConfInit, LoadedConfig
    <3>2. "api_keys" \in DOMAIN file
      BY <1>2 DEF Configs, Fields
    <3> QED BY <1>2, <3>1, <3>2
  <2> QED BY <2>1, <2>2
<1>4. DOMAIN NoKeys = {}
  BY DEF NoKeys
<1> QED BY <1>1, <1>2, <1>3, <1>4 DEF KeysInv, ConfInit

(* A key whose deletion was answered, with no other change under way from  *)
(* its start to its answer, is not accepted again as long as there is a    *)
(* main key: not by the process that deleted it, whatever other changes do *)
(* meanwhile or later, and not by one that was started from the file.      *)
THEOREM GoneKeyRefusedCorrect == ConfSpec => []GoneKeyRefused
<1>1. ConfInit => KeysInv
  BY KeysInit
<1>2. KeysInv /\ [ConfNext]_confVars => KeysInv'
  BY KeysStep
<1>3. KeysInv => GoneKeyRefused
  <2> SUFFICES ASSUME KeysInv, cfg["api_key"] # Unset PROVE gone \cap Accepted = {}
    BY DEF GoneKeyRefused
  <2>1. cfg["api_key"] \in MainKeys \cup {EnvKey} /\ gone \subseteq Ids
    BY DEF KeysInv, AloneInv, ConfTypeOK, Sound, Fields, Value
  <2>2. gone \cap DOMAIN cfg["api_keys"] = {}
    BY DEF KeysInv, Live
  <2> QED BY <2>1, <2>2, ConfAssumption DEF Accepted
<1> QED BY <1>1, <1>2, <1>3, PTL DEF ConfSpec
=============================================================================
