----------------------------- MODULE AdminConfig -----------------------------
(***************************************************************************)
(* The configuration as the admin page changes it (admin.go, keys.go): the *)
(* main API key, the additional keys and the model allowlist.  A handler   *)
(* computes the new value of its field from memory, reads config.json,     *)
(* writes it back with the field replaced and then replaces the field in   *)
(* memory.  No lock is held: handlers overlap at every one of these steps. *)
(* os.WriteFile truncates the file and then writes it, and does not write  *)
(* a shorter text over the rest of a longer one that came in between.      *)
(*                                                                         *)
(* The additional keys are a function from ids to Enabled; their names and *)
(* secrets never change after creation.  Assigning a field is one step:    *)
(* what a reader that races with it sees of a slice header is left out.    *)
(*                                                                         *)
(* Ghosts: mixed[p] says that another handler ran at the same time as p,   *)
(* tainted[f] that the last change of f was such a one, spoiled that an    *)
(* overlap or a failed write happened since the start, and gone holds the  *)
(* keys whose deletion was answered and did not overlap another change.    *)
(***************************************************************************)
EXTENDS Integers, FiniteSets, Functions

CONSTANTS
    Admins,       \* concurrent handlers of the admin API
    MainKeys,     \* values api_key may be set to
    Unset,        \* an api_key that is empty: no authentication
    Allowlists,   \* values of model_allowlist
    EnvKey,       \* WB2A_API_KEY, or Nil
    Nil,          \* no call, nothing read, not set
    Torn,         \* a file that does not parse
    MaxIds,       \* bound: additional keys ever created
    MaxChanges    \* bound: changes asked for

Fields == {"api_key", "api_keys", "model_allowlist"}
Ids == 1..MaxIds
NoKeys == [i \in {} |-> TRUE]
KeyLists == UNION {[ids -> BOOLEAN] : ids \in SUBSET Ids}

\* What a field may be set to, the configurations, and what a handler knows.
Value(f) == IF f = "api_key" THEN MainKeys \cup {Unset, EnvKey}
            ELSE IF f = "api_keys" THEN KeyLists ELSE Allowlists

Configs == [Fields -> UNION {Value(f) : f \in Fields}]

Calls == [field   : Fields,
          value   : UNION {Value(f) : f \in Fields},
          at      : {"read", "truncate", "write", "assign"},
          read    : Configs \cup {Nil},
          late    : BOOLEAN,
          deletes : Ids \cup {Nil}]

ASSUME ConfAssumption ==
    /\ MaxIds \in Nat /\ MaxChanges \in Nat
    /\ Torn \notin Configs
    /\ Nil \notin Configs \cup Calls \cup Ids
    /\ Unset \notin MainKeys \cup {EnvKey}
    /\ (MainKeys \cup {EnvKey}) \cap Ids = {}

VARIABLES
    up,           \* the process serves
    cfg,          \* the configuration in memory: field -> value
    file,         \* config.json: field -> value, or Torn
    call,         \* handler -> what it is doing
    created,      \* how many ids newAPIKeyEntry has given out
    changes,      \* how many changes were asked for
    mixed, tainted, spoiled, gone

ghosts == <<mixed, tainted, spoiled, gone>>
confVars == <<up, cfg, file, call, created, changes, ghosts>>

Active == {p \in Admins : call[p] # Nil}

\* What a request may come with: a key that is or was in use, or none.
Presented == MainKeys \cup Ids \cup {Unset}

\* withAuth: a request is admitted with the main key or an enabled one; while
\* the main key is empty nothing is checked, whatever keys there are.
Accepted ==
    IF cfg["api_key"] = Unset THEN Presented
    ELSE {cfg["api_key"]} \cup {i \in DOMAIN cfg["api_keys"] : cfg["api_keys"][i]}

\* Load: the file, with the environment's key put over it.
LoadedConfig ==
    IF EnvKey = Nil THEN file ELSE [file EXCEPT !["api_key"] = EnvKey]

\* Whatever the admin API sets, the environment has its way at the next start.
Overridden(f) == f = "api_key" /\ EnvKey # Nil

ConfInit ==
    /\ up = TRUE
    /\ \E key \in MainKeys \cup {Unset}, list \in Allowlists :
        file = [f \in Fields |-> IF f = "api_key" THEN key
                                 ELSE IF f = "api_keys" THEN NoKeys ELSE list]
    /\ cfg = LoadedConfig
    /\ call = [p \in Admins |-> Nil]
    /\ created = 0 /\ changes = 0
    /\ mixed = [p \in Admins |-> FALSE] /\ tainted = [f \in Fields |-> FALSE]
    /\ spoiled = FALSE /\ gone = {}

(***************************************************************************)
(* The five handlers, up to writeConfigField                               *)
(***************************************************************************)
\* A handler starts with the value its field is to get, taken from memory.
Begin(p, field, value, deletes) ==
    LET overlap == Active # {}
    IN  /\ up /\ call[p] = Nil /\ changes < MaxChanges
        /\ changes' = changes + 1
        /\ call' = [call EXCEPT ![p] = [field |-> field, value |-> value, at |-> "read",
                                        read |-> Nil, late |-> FALSE,
                                        deletes |-> deletes]]
        /\ mixed' = [q \in Admins |-> IF q = p THEN overlap
                                      ELSE mixed[q] \/ q \in Active]
        /\ spoiled' = (spoiled \/ overlap)
        /\ UNCHANGED <<up, cfg, file, tainted, gone>>

SetKey(p, key) == Begin(p, "api_key", key, Nil) /\ UNCHANGED created

SetModels(p, list) == Begin(p, "model_allowlist", list, Nil) /\ UNCHANGED created

\* newAPIKeyEntry draws a random id; two alike are left out.
CreateKey(p) ==
    LET id == created + 1
    IN  /\ created < MaxIds
        /\ created' = id
        /\ Begin(p, "api_keys", [i \in DOMAIN cfg["api_keys"] \cup {id} |->
                                    IF i = id THEN TRUE ELSE cfg["api_keys"][i]], Nil)

\* Fault: a key that is not in the list is added to it.
UpdateKeyAdds(p, id, enabled) ==
    /\ id <= created
    /\ Begin(p, "api_keys", [i \in DOMAIN cfg["api_keys"] \cup {id} |->
                                IF i = id THEN enabled ELSE cfg["api_keys"][i]], Nil)
    /\ UNCHANGED created

UpdateKey(p, id, enabled) ==
    /\ id \in DOMAIN cfg["api_keys"]
    /\ Begin(p, "api_keys", [cfg["api_keys"] EXCEPT ![id] = enabled], Nil)
    /\ UNCHANGED created

DeleteKey(p, id) ==
    /\ id \in DOMAIN cfg["api_keys"]
    /\ Begin(p, "api_keys", Restrict(cfg["api_keys"], DOMAIN cfg["api_keys"] \ {id}), id)
    /\ UNCHANGED created

(***************************************************************************)
(* writeConfigField and what the handlers do after it                      *)
(***************************************************************************)
At(p, step) == call[p] # Nil /\ call[p].at = step

\* A handler answers with an error: memory keeps the field.
Fail(p) == call' = [call EXCEPT ![p] = Nil]

ReadConfig(p) ==
    /\ At(p, "read")
    /\ IF file = Torn THEN Fail(p)
       ELSE call' = [call EXCEPT ![p].at = "truncate", ![p].read = file]
    /\ UNCHANGED <<up, cfg, file, created, changes, ghosts>>

\* Fault: the additional keys are not among the fields written back.
NewConfigNoKeys(p) ==
    [f \in Fields |-> IF f = call[p].field THEN call[p].value
                      ELSE IF f = "api_keys" THEN NoKeys ELSE call[p].read[f]]

NewConfig(p) == [call[p].read EXCEPT ![call[p].field] = call[p].value]

Truncate(p) ==
    /\ At(p, "truncate")
    /\ file' = Torn
    /\ call' = [call EXCEPT ![p].at = "write"]
    /\ UNCHANGED <<up, cfg, created, changes, ghosts>>

\* A write that another one overtook after the truncation may leave the end
\* of the other text behind its own.
Write(p) ==
    /\ At(p, "write")
    /\ file' \in {NewConfig(p)} \cup (IF call[p].late THEN {Torn} ELSE {})
    /\ call' = [q \in Admins |->
                  IF q = p THEN [call[p] EXCEPT !.at = "assign"]
                  ELSE IF At(q, "write") THEN [call[q] EXCEPT !.late = TRUE] ELSE call[q]]
    /\ UNCHANGED <<up, cfg, created, changes, ghosts>>

\* The disk refuses: the file stays cut off.
WriteFails(p) ==
    /\ At(p, "write")
    /\ Fail(p)
    /\ spoiled' = TRUE
    /\ UNCHANGED <<up, cfg, file, created, changes, mixed, tainted, gone>>

\* The field is replaced in memory and the change is answered.
Assign(p) ==
    LET c == call[p]
    IN  /\ At(p, "assign")
        /\ cfg' = [cfg EXCEPT ![c.field] = c.value]
        /\ call' = [call EXCEPT ![p] = Nil]
        /\ tainted' = [tainted EXCEPT ![c.field] = mixed[p]]
        /\ gone' = IF c.deletes # Nil /\ ~mixed[p] THEN gone \cup {c.deletes} ELSE gone
        /\ UNCHANGED <<up, file, created, changes, mixed, spoiled>>

(***************************************************************************)
(* Restart                                                                 *)
(***************************************************************************)
\* adminRestart, or a crash: the handlers under way are cut off.
Exit ==
    /\ up
    /\ up' = FALSE
    /\ call' = [p \in Admins |-> Nil]
    /\ mixed' = [p \in Admins |-> FALSE]
    /\ UNCHANGED <<cfg, file, created, changes, tainted, spoiled, gone>>

\* The watchdog starts the process again; with a file that does not parse
\* Load fails and main exits.
Start ==
    /\ ~up /\ file # Torn
    /\ up' = TRUE
    /\ cfg' = LoadedConfig
    /\ tainted' = [f \in Fields |-> FALSE] /\ spoiled' = FALSE
    /\ UNCHANGED <<file, call, created, changes, mixed, gone>>

ConfNext ==
    \/ \E p \in Admins :
        \/ \E key \in MainKeys : SetKey(p, key)
        \/ \E list \in Allowlists : SetModels(p, list)
        \/ CreateKey(p)
        \/ \E id \in Ids : \/ \E enabled \in BOOLEAN : UpdateKey(p, id, enabled)
                           \/ DeleteKey(p, id)
        \/ ReadConfig(p) \/ Truncate(p) \/ Write(p) \/ WriteFails(p) \/ Assign(p)
    \/ Exit
    \/ Start

ConfSpec == ConfInit /\ [][ConfNext]_confVars
-----------------------------------------------------------------------------
\* When no change is under way, what memory answers with is what a restart
\* would load, field by field: a field differs only when its last change
\* overlapped another one, or when the environment overrides it at the start,
\* and the file is cut off only by an overlap or a failed write.  A later
\* change of the field that runs alone repairs it (admin.go writeConfigField
\* and the assignments after it).
FileMatchesMemory ==
    up /\ Active = {} =>
        /\ file = Torn => spoiled
        /\ file # Torn => \A f \in Fields :
             ~tainted[f] /\ ~Overridden(f) => LoadedConfig[f] = cfg[f]

\* "delete an additional key, effective at once" (admin.go adminDeleteKey): a
\* key whose deletion was answered is not accepted again while keys are asked
\* for, also not after a restart, unless the deletion overlapped another change.
GoneKeyRefused ==
    up /\ cfg["api_key"] # Unset => gone \cap Accepted = {}

\* writeConfigField replaces one field and keeps the others, says its comment:
\* when no change is under way, a restart loads what memory answers with,
\* also after changes that overlapped.
AnsweredChangesSaved ==
    up /\ Active = {} /\ file # Torn =>
        \A f \in Fields : ~Overridden(f) => LoadedConfig[f] = cfg[f]
=============================================================================
