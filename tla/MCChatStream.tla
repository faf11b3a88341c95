---------------------------- MODULE MCChatStream ----------------------------
(* Instances of ChatStream for TLC. *)
EXTENDS ChatStream

(* Messages of a user, a client's notices, single and parallel calls, and  *)
(* results with and without an id.                                         *)
MCMessages ==
    {[pos |-> 0, role |-> r, calls |-> {}, id |-> NoId] : r \in {"user", "developer"}}
    \cup {[pos |-> 0, role |-> "assistant", calls |-> c, id |-> NoId] :
             c \in {{"c1"}, {"c1", "c2"}}}
    \cup {[pos |-> 0, role |-> "tool", calls |-> {}, id |-> i] : i \in {"c1", "c2", NoId}}

MCPlain == [stream |-> FALSE, messages |-> <<>>, choice |-> Absent, tools |-> TRUE,
            alias |-> Absent, max |-> Absent, effort |-> Absent, image |-> Absent]

(* No rule looks at two of the groups, so one varies at a time.            *)
MCVariants ==
    {[MCPlain EXCEPT !.choice = c] : c \in {"none", "{none}", "{auto}", "{function}",
                                            "{required}", "{function:f}", "{other}"}}
    \cup {[MCPlain EXCEPT !.alias = a, !.max = m] : a \in {0, 5}, m \in {Absent, 7}}
    \cup {[MCPlain EXCEPT !.effort = e, !.image = "url"] : e \in 0..3 \cup {Unknown}}
    \cup {NotJSON}
=============================================================================
