------------------------------ MODULE Upstream ------------------------------
(***************************************************************************)
(* What the proxy does to a chat request before it goes upstream           *)
(* (payload.go, tool_pairing.go) and what it makes of an error answer      *)
(* (Classify in client.go).  These are functions of their input: this      *)
(* module defines them, ChatStream runs them.                              *)
(*                                                                         *)
(* A message is [pos, role, calls, id]: its place in the client's history, *)
(* its role, the ids an assistant message calls and the id a tool result   *)
(* answers (NoId when there is none).  Texts are left out.                 *)
(***************************************************************************)
EXTENDS Integers, Sequences, FiniteSets, FiniteSetsExt, TLC

CONSTANTS
    Ids,      \* the ids of tool calls
    NoId,     \* none of them
    Absent,   \* a field the client did not send
    Unknown,  \* an effort that is none of the known levels
    NotJSON   \* a body that is no JSON object

\* A role the code does not look for counts as a user's.
Roles == {"user", "system", "developer", "assistant", "tool"}

Message == [pos : Nat, role : Roles, calls : SUBSET Ids, id : Ids \cup {NoId}]

\* A client's history numbers its messages.
Histories == {h \in Seq(Message) : \A j \in DOMAIN h : h[j].pos = j}

Positions(msgs) == DOMAIN msgs

(***************************************************************************)
(* tool_pairing.go                                                         *)
(***************************************************************************)
IsNotice(m) == m.role \in {"system", "developer"}
IsResultOf(m, asst) == m.role = "tool" /\ m.id # NoId /\ m.id \in asst.calls

Calling(msgs) == {i \in Positions(msgs) : msgs[i].role = "assistant" /\ msgs[i].calls # {}}

\* The block of a calling message: its results and the notices among them, up
\* to the first message that is neither.
InBlock(msgs, i, j) ==
    /\ i < j
    /\ \A k \in (i + 1)..j : IsNotice(msgs[k]) \/ IsResultOf(msgs[k], msgs[i])

HasResults(msgs, i) ==
    \E j \in Positions(msgs) : InBlock(msgs, i, j) /\ msgs[j].role = "tool"

\* The calling message whose block a message stands in, if the block has results.
Owners(msgs, j) == {i \in Calling(msgs) : InBlock(msgs, i, j) /\ HasResults(msgs, i)}

\* The members of S from the one with the smallest place on.
InOrder(S, place) ==
    [n \in 1..Cardinality(S) |->
        CHOOSE j \in S : Cardinality({k \in S : place[k] <= place[j]}) = n]

\* repackToolResultBlocks: within a block that has results, the results come
\* first and the notices after them; everything else stays.
Rank(msgs, j) ==
    IF Owners(msgs, j) = {} THEN 3 * j
    ELSE 3 * (CHOOSE i \in Owners(msgs, j) : TRUE) + (IF IsNotice(msgs[j]) THEN 2 ELSE 1)

Places(msgs) == [j \in Positions(msgs) |-> Rank(msgs, j) * (Len(msgs) + 1) + j]

Repacked(msgs) ==
    LET order == InOrder(Positions(msgs), Places(msgs))
    IN  [n \in Positions(msgs) |-> msgs[order[n]]]

CallIds(msgs) == UNION {msgs[i].calls : i \in Calling(msgs)}
ResultIds(msgs) ==
    {msgs[i].id : i \in {j \in Positions(msgs) : msgs[j].role = "tool"}} \ {NoId}

\* The ids in use; without any, the history is left as it is.
Traffic(msgs) == CallIds(msgs) \cup ResultIds(msgs)

\* The ids that are called and answered.
AnsweredIds(msgs) == CallIds(msgs) \cap ResultIds(msgs)

\* The messages that stay: all but results nobody asked for.
Kept(msgs) ==
    LET stays(m) == m.role = "tool" => m.id \in AnsweredIds(msgs)
        kept == {j \in Positions(msgs) : stays(msgs[j])}
    IN  InOrder(kept, [j \in kept |-> j])

\* Fault: a batch of calls is dropped whole when one of them has no result.
CleanedByBatch(msgs) ==
    LET pruned(m) == IF m.role = "assistant" /\ ~(m.calls \subseteq AnsweredIds(msgs))
                     THEN [m EXCEPT !.calls = {}] ELSE m
        kept == Kept(msgs)
    IN  IF Traffic(msgs) = {} THEN msgs
        ELSE [n \in DOMAIN kept |-> pruned(msgs[kept[n]])]

\* cleanupOrphanToolCalls: by the ids of the whole history, a call without a
\* result and a result without a call are dropped.
Cleaned(msgs) ==
    LET pruned(m) == IF m.role = "assistant"
                     THEN [m EXCEPT !.calls = @ \cap AnsweredIds(msgs)] ELSE m
        kept == Kept(msgs)
    IN  IF Traffic(msgs) = {} THEN msgs
        ELSE [n \in DOMAIN kept |-> pruned(msgs[kept[n]])]

(***************************************************************************)
(* payload.go: a body is [stream, messages, choice, tools, alias, max,     *)
(* effort, image].                                                         *)
(***************************************************************************)
Bodies ==
    [stream : BOOLEAN, messages : Histories, tools : BOOLEAN,
     choice : {Absent, "auto", "required", "f", "none", "{none}", "{auto}", "{function}",
               "{required}", "{function:f}", "{other}"},
     alias : Nat \cup {Absent}, max : Nat \cup {Absent},
     effort : Nat \cup {Absent, Unknown},
     image : {Absent, "url", "{url}"}]

\* normalizeRoles
NormalRoles(msgs) ==
    [j \in Positions(msgs) |->
        IF msgs[j].role = "developer" THEN [msgs[j] EXCEPT !.role = "system"] ELSE msgs[j]]

\* normalizeToolChoice: the upstream takes a string only, and "none" goes
\* together with the tools.
ToolChoice(b) ==
    CASE b.choice \in {"none", "{none}"}     -> [b EXCEPT !.choice = Absent, !.tools = FALSE]
      [] b.choice \in {"{auto}", "{function}"} -> [b EXCEPT !.choice = "auto"]
      [] b.choice = "{required}"             -> [b EXCEPT !.choice = "required"]
      [] b.choice = "{function:f}"           -> [b EXCEPT !.choice = "f"]
      [] b.choice = "{other}"                -> [b EXCEPT !.choice = Absent]
      [] OTHER                               -> b

\* translateMaxCompletionTokens: the alias always goes, and becomes max_tokens
\* when it is a positive whole number (0 stands for any other value) and
\* max_tokens was not given.
MaxTokens(b) ==
    [b EXCEPT !.alias = Absent,
              !.max = IF @ = Absent /\ b.alias \notin {Absent, 0} THEN b.alias ELSE @]

\* normalizeImageURL: an address given as a string becomes an object.
ImageURL(b) == [b EXCEPT !.image = IF @ = "url" THEN "{url}" ELSE @]

\* normalizeReasoningEffort, on ranks: the highest supported level up to the
\* one asked for, else the lowest; a model without known levels takes any, and
\* what is no level (no string, or an unknown one) is left as it is.
Effort(b, supported) ==
    LET upTo == {e \in supported : e <= b.effort}
    IN  IF b.effort \in {Absent, Unknown} \/ supported = {} THEN b
        ELSE [b EXCEPT !.effort = IF upTo # {} THEN Max(upTo) ELSE Min(supported)]

\* What becomes of a JSON object.
Rewritten(b, supported) ==
    LET f == ImageURL(ToolChoice(MaxTokens([b EXCEPT !.stream = TRUE])))
    IN  Effort([f EXCEPT !.messages = Cleaned(Repacked(NormalRoles(@)))], supported)

\* PrepareBodyOptWithEfforts: what is no object goes out as it came.  The
\* fingerprint sanitizing of texts is left out.
Prepared(b, supported) == IF b = NotJSON THEN b ELSE Rewritten(b, supported)

(***************************************************************************)
(* What the upstream asks of a history                                     *)
(***************************************************************************)
\* Every call is answered right after its message and every result answers a
\* call before it, with nothing in between.
InSequence(msgs) ==
    /\ \A i \in Calling(msgs) :
         LET n == Cardinality(msgs[i].calls)
         IN  /\ i + n <= Len(msgs)
             /\ {msgs[j].id : j \in (i + 1)..(i + n)} = msgs[i].calls
             /\ \A j \in (i + 1)..(i + n) : msgs[j].role = "tool"
    /\ \A j \in Positions(msgs) : msgs[j].role = "tool" =>
         \E i \in Calling(msgs) : /\ i < j /\ j <= i + Cardinality(msgs[i].calls)

\* No id is called twice or answered twice.
UniqueIds(msgs) ==
    /\ \A i, j \in Calling(msgs) : i # j => msgs[i].calls \cap msgs[j].calls = {}
    /\ \A i, j \in Positions(msgs) :
         i # j /\ msgs[i].role = "tool" /\ msgs[j].role = "tool" => msgs[i].id # msgs[j].id

\* Each result stands behind its call, and only notices and results of the
\* same message stand between them.
Interrupted(msgs) ==
    \E i \in Calling(msgs), j \in Positions(msgs) :
        IsResultOf(msgs[j], msgs[i]) /\ ~InBlock(msgs, i, j)

\* Every call with an id has a result and every result a call.
Paired(msgs) ==
    Traffic(msgs) # {} =>
        /\ CallIds(msgs) = ResultIds(msgs)
        /\ \A j \in Positions(msgs) : msgs[j].role = "tool" => msgs[j].id # NoId

(***************************************************************************)
(* Classify: an answer is a status and the markers its body holds.         *)
(***************************************************************************)
\* The rules in the order they are tried; the first that applies decides.
Rules(status, marks) ==
    LET is4xx == status \in 400..499
    IN  << <<status = 402,                  "hard_credit">>,
           <<"session" \in marks,           "session_dead">>,
           <<status = 429,                  "soft_rate">>,
           <<"hard" \in marks,              "hard_credit">>,
           <<is4xx /\ "request" \in marks,  "request">>,
           <<is4xx /\ "channel" \in marks,  "channel">>,
           <<status = 404,                  "not_found">>,
           <<status >= 500,                 "server">>,
           <<status >= 400,                 "client">>,
           <<TRUE,                          "none">> >>

Classify(status, marks) ==
    LET rules == Rules(status, marks)
    IN  rules[Min({n \in DOMAIN rules : rules[n][1]})][2]

\* What the upstream answers when something is wrong: the same words turn up
\* under several statuses, and a rate limit speaks of quota too.
Answers(cause) ==
    CASE cause = "hard_credit"  -> ({402} \X SUBSET {"hard", "channel"}) \cup {<<403, {"hard"}>>}
      [] cause = "session_dead" -> {401, 403, 429} \X {{"session"}, {"session", "hard"}}
      [] cause = "soft_rate"    -> {429} \X SUBSET {"hard", "channel"}
      [] cause = "request"      -> {400, 404} \X {{"request"}, {"request", "channel"}}
      [] cause = "channel"      -> {400, 403} \X {{"channel"}}
      [] cause = "not_found"    -> {<<404, {}>>}
      [] cause = "server"       -> {500, 503} \X SUBSET {"request", "channel"}

Causes ==
    {"hard_credit", "session_dead", "soft_rate", "request", "channel", "not_found", "server"}
=============================================================================
