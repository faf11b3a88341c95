----------------------------- MODULE ChatStream -----------------------------
(***************************************************************************)
(* One call of the upstream, from the request body to the end of the       *)
(* answer to the client: ChatStreamWithMeta (client.go), the idle watchdog *)
(* (idle.go), Stream and Aggregate (sse.go) and the end of the chat        *)
(* handler (handler.go), which charges the account.                        *)
(*                                                                         *)
(* Four parties take steps: the handler, the watchdog goroutine, the       *)
(* upstream, which may send, break off, end or fall silent whenever it     *)
(* likes, and the client, which may stop taking its answer and may leave.  *)
(* Time passes while the handler waits for one of them; its own steps take *)
(* none.  The upstream's frames are numbered in the order sent; of a frame *)
(* the model keeps what the code looks at.                                 *)
(***************************************************************************)
EXTENDS Upstream

CONSTANTS
    Messages,          \* the kinds of messages of a history
    MaxMessages,       \* longest history, a bound
    Plain,             \* a request with the usual fields and no message yet
    Variants,          \* requests with other fields
    Supported,         \* the efforts the model supports
    HeaderTimeout,     \* longest wait for the response header
    IdleTimeout,       \* longest silence of a stream
    MaxFrames          \* frames the upstream sends, a bound

ASSUME StreamAssumption ==
    /\ HeaderTimeout \in Nat \ {0} /\ IdleTimeout \in Nat \ {0}
    /\ MaxFrames \in Nat /\ MaxMessages \in Nat
    /\ Absent \notin Causes \cup {"client", "none", "timeout", "transport"}

ASSUME EffortAssumption == Absent \notin Nat /\ Unknown \notin Nat

ASSUME RequestAssumption ==
    /\ IsFiniteSet(Ids) /\ NoId \notin Ids
    /\ Messages \subseteq Message
    /\ Plain \in Bodies /\ Variants \subseteq Bodies \cup {NotJSON}
    /\ Supported \subseteq Nat

VARIABLES
    pc,        \* where the handler is
    mode,      \* "stream" or "sync", as the client asked
    asked,     \* the client's request until it is sent (for the properties)
    body,      \* what is sent
    cause,     \* what is wrong at the upstream (for the properties)
    answer,    \* an error answer: <<status, markers>>
    verdict,   \* what the call made of an error
    sent,      \* the frames the upstream has sent
    ended,     \* how the upstream ended its answer: "no", "eof" or "reset"
    filled,    \* how many frames are in the handler's buffer or further
    taken,     \* how many of them the handler has dealt with
    valid,     \* validFrames / validEvents
    merged,    \* what Aggregate has put together: [text, calls]
    credit,    \* the credit seen, the number of its usage frame standing for it; 0: none
    failed,    \* the stream was not read to its end
    out,       \* what the client got
    status,    \* the status recorded for the request
    charged,   \* what DeductCredit took from the account
    client,    \* "reading", "stuck" or "gone"
    cancelled, \* the context of the upstream request
    watch,     \* the watchdog goroutine
    waited,    \* time since the request was sent
    silence,   \* time since lastRead
    quiet,     \* time since the upstream sent anything (for the properties)
    excused    \* since lastRead the upstream was quiet too long or the client
               \* held the handler up (likewise)

request == <<mode, asked, body>>
verdicts == <<cause, answer, verdict>>
upstream == <<sent, ended>>
reading == <<filled, taken, valid, merged, credit, failed>>
given == <<out, status, charged>>
timers == <<waited, silence, quiet, excused>>
streamVars == <<pc, request, verdicts, upstream, reading, given, client, cancelled, watch, timers>>

(***************************************************************************)
(* Frames.  A JSON frame may hold a piece of text, a piece of the tool     *)
(* call of an index and the usage, with a credit ("paid") or without       *)
(* ("free"); noise is what the client must not see (empty strings, fields  *)
(* that are no standard ones).                                             *)
(***************************************************************************)
NoIndex == 2
Data(text, index, usage) ==
    [kind |-> "data", text |-> text, index |-> index, usage |-> usage, noise |-> TRUE]
Done == [kind |-> "done"]
Other == [kind |-> "other"]       \* a comment, or a data line that is no JSON
ErrorFrame == [kind |-> "error"]  \* the proxy's own

Frames == {Data(TRUE, NoIndex, "none"), Data(FALSE, 1, "none"), Data(FALSE, 0, "none"),
           Data(FALSE, NoIndex, "free"), Data(FALSE, NoIndex, "paid"), Done, Other}

\* The credit after frame n: parseSSELine keeps the last one there was,
\* Aggregate takes the last usage as it is, with a credit or without.
CreditAfter(f, n) ==
    IF f.kind # "data" \/ f.usage = "none" THEN credit
    ELSE IF f.usage = "paid" THEN n
    ELSE IF mode = "stream" THEN credit ELSE 0

\* normalizeFrame: the frame built anew from the standard fields.
Normalized(f) == [f EXCEPT !.noise = FALSE]

\* The merging in Aggregate and mergeToolCallDelta: frame number n.
Merge(m, f, n) ==
    [text  |-> IF f.text THEN Append(m.text, n) ELSE m.text,
     calls |-> [i \in {0, 1} |-> IF f.index = i THEN Append(m.calls[i], n) ELSE m.calls[i]]]

Nothing == [text |-> <<>>, calls |-> [i \in {0, 1} |-> <<>>]]

\* A history with the places of its messages.
Numbered(h) == [j \in DOMAIN h |-> [h[j] EXCEPT !.pos = j]]

StreamInit ==
    /\ pc = "prepare" /\ mode \in {"stream", "sync"}
    /\ \/ asked \in Variants
       \/ \E n \in 0..MaxMessages : \E h \in [1..n -> Messages] :
            asked = [Plain EXCEPT !.messages = Numbered(h)]
    /\ body = Absent
    /\ cause = Absent /\ answer = Absent /\ verdict = Absent
    /\ sent = <<>> /\ ended = "no"
    /\ filled = 0 /\ taken = 0 /\ valid = 0 /\ merged = Nothing /\ credit = 0
    /\ failed = FALSE
    /\ out = <<>> /\ status = 0 /\ charged = 0
    /\ client = "reading" /\ cancelled = FALSE /\ watch = "off"
    /\ waited = 0 /\ silence = 0 /\ quiet = 0 /\ excused = FALSE

(***************************************************************************)
(* ChatStreamWithMeta                                                      *)
(***************************************************************************)
Prepare ==
    /\ pc = "prepare"
    /\ body' = Prepared(asked, Supported)
    /\ pc' = "send"
    /\ UNCHANGED <<mode, asked, verdicts, upstream, reading, given, client, cancelled, watch, timers>>

Send ==
    /\ pc = "send"
    /\ asked' = Absent /\ body' = Absent
    /\ pc' = "wait"
    /\ UNCHANGED <<mode, verdicts, upstream, reading, given, client, cancelled, watch, timers>>

\* The call fails before there is an answer: the header is late, the
\* connection breaks, or the client has left.
TransportFails ==
    /\ pc = "wait"
    /\ verdict' = IF waited = HeaderTimeout /\ ~cancelled THEN "timeout" ELSE "transport"
    /\ cancelled' = TRUE
    /\ pc' = "done"
    /\ UNCHANGED <<request, cause, answer, upstream, reading, given, client, watch, timers>>

\* The header of a good answer: the watchdog starts.
Answered ==
    /\ pc = "wait" /\ ~cancelled /\ waited < HeaderTimeout
    /\ watch' = "on" /\ silence' = 0 /\ quiet' = 0
    /\ pc' = "read"
    /\ UNCHANGED <<request, verdicts, upstream, reading, given, client, cancelled, waited, excused>>

\* The header of an error answer; the body follows, or does not.
AnsweredError ==
    /\ pc = "wait" /\ ~cancelled /\ waited < HeaderTimeout
    /\ \E c \in Causes : cause' = c /\ \E a \in Answers(c) : answer' = a
    /\ pc' = "errbody"
    /\ UNCHANGED <<request, verdict, upstream, reading, given, client, cancelled, watch, timers>>

\* Its body is read to the end, then classified; nothing but the end of the
\* body or of the context ends the reading, and a part of a body is no error.
ReadErrorBody ==
    /\ pc = "errbody" /\ (ended # "no" \/ cancelled)
    /\ \E marks \in {answer[2]} \cup (IF ended = "eof" THEN {} ELSE {{}}) :
         verdict' = Classify(answer[1], marks)
    /\ cancelled' = TRUE
    /\ pc' = "done"
    /\ UNCHANGED <<request, cause, answer, upstream, reading, given, client, watch, timers>>

(***************************************************************************)
(* MonitorBody and idleMonitoringBody                                      *)
(***************************************************************************)
\* Fault: data that arrives is no sign of life.
FillUnnoticed ==
    /\ pc = "read" /\ taken = filled /\ filled < Len(sent)
    /\ filled' = Len(sent)
    /\ excused' = FALSE
    /\ UNCHANGED <<pc, request, verdicts, upstream, taken, valid, merged, credit, failed,
                   given, client, cancelled, watch, waited, silence, quiet>>

\* Read: the buffer takes what has arrived, and lastRead is set.
Fill ==
    /\ pc = "read" /\ taken = filled /\ filled < Len(sent)
    /\ filled' = Len(sent)
    /\ silence' = 0 /\ excused' = FALSE
    /\ UNCHANGED <<pc, request, verdicts, upstream, taken, valid, merged, credit, failed,
                   given, client, cancelled, watch, waited, quiet>>

\* A tick of the watchdog finds the stream idle for too long ...
FoundIdle ==
    /\ watch = "on" /\ silence > IdleTimeout
    /\ watch' = "cutting"
    /\ UNCHANGED <<pc, request, verdicts, upstream, reading, given, client, cancelled, timers>>

\* Fault: the watchdog ends without cancelling.
CutNothing ==
    /\ watch = "cutting"
    /\ watch' = "fired"
    /\ UNCHANGED <<pc, request, verdicts, upstream, reading, given, client, cancelled, timers>>

\* ... and cancels the request.
Cut ==
    /\ watch = "cutting"
    /\ watch' = "fired" /\ cancelled' = TRUE
    /\ UNCHANGED <<pc, request, verdicts, upstream, reading, given, client, timers>>

(***************************************************************************)
(* Stream and Aggregate: both read line by line until [DONE], the end or   *)
(* an error.  The sync handler closes the stream when Aggregate returns,   *)
(* the streaming one after it has charged the account.                     *)
(***************************************************************************)
ReadingEnds(badly) ==
    /\ failed' = badly
    /\ IF mode = "sync"
       THEN pc' = "reply" /\ watch' = "stopped" /\ cancelled' = TRUE
       ELSE pc' = (IF badly THEN "close" ELSE "finish") /\ UNCHANGED <<watch, cancelled>>

ReadFails ==
    /\ pc = "read" /\ taken = filled
    /\ cancelled \/ (ended = "reset" /\ filled = Len(sent))
    /\ ReadingEnds(TRUE)
    /\ status' = IF mode = "stream" THEN 200 ELSE status
    /\ UNCHANGED <<request, verdicts, upstream, filled, taken, valid, merged, credit, out, charged,
                   client, timers>>

EndOfStream ==
    /\ pc = "read" /\ taken = Len(sent) /\ ended = "eof"
    /\ ReadingEnds(FALSE)
    /\ UNCHANGED <<request, verdicts, upstream, filled, taken, valid, merged, credit, given,
                   client, timers>>

\* Fault: a [DONE] does not end the reading.
TakeDoneGoesOn ==
    /\ pc = "read" /\ taken < filled /\ sent[taken + 1] = Done
    /\ taken' = taken + 1
    /\ UNCHANGED <<pc, request, verdicts, upstream, filled, valid, merged, credit, failed, given,
                   client, cancelled, watch, timers>>

\* [DONE]: what comes after it is not looked at.
TakeDone ==
    /\ pc = "read" /\ taken < filled /\ sent[taken + 1] = Done
    /\ taken' = taken + 1
    /\ ReadingEnds(FALSE)
    /\ UNCHANGED <<request, verdicts, upstream, filled, valid, merged, credit, given, client, timers>>

\* Any other line: its usage is seen, then Stream writes the line and Aggregate
\* merges it.
TakeLine ==
    /\ pc = "read" /\ taken < filled /\ sent[taken + 1] # Done
    /\ taken' = taken + 1
    /\ LET f == sent[taken + 1]
           isData == f.kind = "data"
       IN  /\ credit' = CreditAfter(f, taken + 1)
           /\ IF mode = "stream"
              THEN pc' = "write" /\ UNCHANGED <<valid, merged>>
              ELSE /\ valid' = IF isData THEN valid + 1 ELSE valid
                   /\ merged' = IF isData THEN Merge(merged, f, taken + 1) ELSE merged
                   /\ UNCHANGED pc
    /\ UNCHANGED <<request, verdicts, upstream, filled, failed, given, client, cancelled, watch, timers>>

\* The line goes to the client, JSON frames in the standard form.
WriteLine ==
    /\ pc = "write" /\ client = "reading"
    /\ LET f == sent[taken]
       IN  /\ out' = Append(out, IF f.kind = "data" THEN Normalized(f) ELSE f)
           /\ valid' = IF f.kind = "data" THEN valid + 1 ELSE valid
    /\ pc' = "read"
    /\ UNCHANGED <<request, verdicts, upstream, filled, taken, merged, credit, failed,
                   status, charged, client, cancelled, watch, timers>>

\* The client has left: the write fails and ends Stream, or it still goes
\* into a buffer nobody reads.
WriteFails ==
    /\ pc = "write" /\ client = "gone"
    /\ pc' = "close" /\ failed' = TRUE /\ status' = 200
    /\ UNCHANGED <<request, verdicts, upstream, filled, taken, valid, merged, credit, out,
                   charged, client, cancelled, watch, timers>>

WriteLost ==
    /\ pc = "write" /\ client = "gone"
    /\ valid' = IF sent[taken].kind = "data" THEN valid + 1 ELSE valid
    /\ pc' = "read"
    /\ UNCHANGED <<request, verdicts, upstream, filled, taken, merged, credit, failed, given,
                   client, cancelled, watch, timers>>

\* A stream without a valid frame ends with an error frame.
Apologise ==
    /\ pc = "finish" /\ valid = 0 /\ client # "stuck"
    /\ out' = IF client = "reading" THEN Append(out, ErrorFrame) ELSE out
    /\ pc' = "last"
    /\ UNCHANGED <<request, verdicts, upstream, reading, status, charged, client, cancelled,
                   watch, timers>>

\* The one [DONE] of the stream.  The header said 200 long ago; a stream
\* without a valid frame is recorded as 502, unless this write fails too.
WriteDone ==
    /\ pc = (IF valid = 0 THEN "last" ELSE "finish") /\ client # "stuck"
    /\ out' = IF client = "reading" THEN Append(out, Done) ELSE out
    /\ status' \in {IF valid = 0 THEN 502 ELSE 200} \cup (IF client = "gone" THEN {200} ELSE {})
    /\ pc' = "close"
    /\ UNCHANGED <<request, verdicts, upstream, reading, charged, client, cancelled, watch, timers>>

\* After Stream, however it ended: the usage seen is charged, the body closed.
ChargeAndClose ==
    /\ pc = "close"
    /\ charged' = credit
    /\ watch' = "stopped" /\ cancelled' = TRUE
    /\ pc' = "done"
    /\ UNCHANGED <<request, verdicts, upstream, reading, out, status, client, timers>>

\* The tool calls of a response, in the order of their indexes.
Present(pieces) == IF pieces = <<>> THEN <<>> ELSE <<pieces>>
Response(m) == [text |-> m.text, calls |-> Present(m.calls[0]) \o Present(m.calls[1])]

\* After Aggregate: one answer, or an error for a stream that broke off or
\* held no valid frame.
Reply ==
    /\ pc = "reply" /\ client # "stuck"
    /\ LET good == ~failed /\ valid > 0
       IN  /\ out' = IF client = "gone" THEN out
                     ELSE <<IF good THEN Response(merged) ELSE ErrorFrame>>
           /\ status' = IF good THEN 200 ELSE 502
           /\ charged' = IF good THEN credit ELSE 0
    /\ pc' = "done"
    /\ UNCHANGED <<request, verdicts, upstream, reading, client, cancelled, watch, timers>>

(***************************************************************************)
(* The upstream, the client and time                                       *)
(***************************************************************************)
SendFrame ==
    /\ pc \in {"read", "write"} /\ ended = "no" /\ ~cancelled /\ Len(sent) < MaxFrames
    /\ \E f \in Frames : sent' = Append(sent, f)
    /\ quiet' = 0
    /\ UNCHANGED <<pc, request, verdicts, ended, reading, given, client, cancelled, watch,
                   waited, silence, excused>>

\* An empty line, or a part of one: data for the watchdog, nothing for the
\* handler.  No bound keeps an upstream from sending it for ever.
SendBlank ==
    /\ pc = "read" /\ taken = Len(sent) /\ ended = "no" /\ ~cancelled
    /\ silence' = 0 /\ quiet' = 0 /\ excused' = FALSE
    /\ UNCHANGED <<pc, request, verdicts, upstream, reading, given, client, cancelled, watch,
                   waited>>

EndAnswer ==
    /\ pc \in {"read", "write", "errbody"} /\ ended = "no" /\ ~cancelled
    /\ ended' \in {"eof", "reset"}
    /\ UNCHANGED <<pc, request, verdicts, sent, reading, given, client, cancelled, watch, timers>>

\* The handler writes to the client.
Writing == pc \in {"write", "finish", "last", "reply"}

ClientStalls ==
    /\ Writing /\ client = "reading"
    /\ client' = "stuck"
    /\ UNCHANGED <<pc, request, verdicts, upstream, reading, given, cancelled, watch, timers>>

ClientGoesOn ==
    /\ client = "stuck"
    /\ client' = "reading"
    /\ UNCHANGED <<pc, request, verdicts, upstream, reading, given, cancelled, watch, timers>>

\* The server notices that the connection is gone and cancels the request.
ClientLeaves ==
    /\ pc \notin {"prepare", "send", "done"} /\ client # "gone"
    /\ client' = "gone" /\ cancelled' = TRUE
    /\ UNCHANGED <<pc, request, verdicts, upstream, reading, given, watch, timers>>

\* The handler has nothing to do but wait.
Waiting ==
    \/ pc \in {"wait", "errbody"} /\ ~cancelled
    \/ pc = "read" /\ taken = Len(sent) /\ ended = "no" /\ ~cancelled
    \/ Writing /\ client = "stuck"

Capped(n, cap) == IF n > cap THEN n ELSE n + 1

Tick ==
    /\ Waiting
    /\ pc = "wait" => waited < HeaderTimeout
    /\ waited' = IF pc = "wait" THEN waited + 1 ELSE waited
    /\ silence' = IF watch = "on" THEN Capped(silence, IdleTimeout) ELSE silence
    /\ quiet' = IF watch = "on" THEN Capped(quiet, IdleTimeout) ELSE quiet
    /\ excused' = (excused \/ quiet' > IdleTimeout \/ client = "stuck")
    /\ UNCHANGED <<pc, request, verdicts, upstream, reading, given, client, cancelled, watch>>

HandlerNext ==
    \/ Prepare \/ Send \/ TransportFails \/ ReadErrorBody
    \/ Fill \/ ReadFails \/ EndOfStream \/ TakeDone \/ TakeLine
    \/ WriteLine \/ WriteFails \/ WriteLost \/ Apologise \/ WriteDone \/ ChargeAndClose \/ Reply

WatchdogNext == FoundIdle \/ Cut

StreamNext ==
    \/ HandlerNext \/ WatchdogNext
    \/ Answered \/ AnsweredError \/ SendFrame \/ SendBlank \/ EndAnswer
    \/ ClientStalls \/ ClientGoesOn \/ ClientLeaves
    \/ Tick

StreamSpec == StreamInit /\ [][StreamNext]_streamVars

(***************************************************************************)
(* The goroutines run and time passes; a network failure need not happen.  *)
(* Nothing is assumed of the upstream, nor of the client: one that has     *)
(* stopped taking its answer may keep the handler for ever, for the server *)
(* sets no write timeout.                                                  *)
(***************************************************************************)
Sent == pc \notin {"prepare", "send"}
HeaderMayCome == pc = "wait" /\ ~cancelled /\ waited < HeaderTimeout

FairStreamSpec ==
    /\ StreamSpec
    /\ WF_streamVars(Sent /\ ~HeaderMayCome /\ HandlerNext)
    /\ WF_streamVars(WatchdogNext) /\ WF_streamVars(Tick)

-----------------------------------------------------------------------------
(***************************************************************************)
(* Properties                                                              *)
(***************************************************************************)
Stays(msgs, pos) == \E j \in Positions(msgs) : msgs[j].pos = pos

\* What goes out is what the upstream takes and still what the client said:
\* calls and results are paired by id, whatever the history; a history with
\* its results in place has them right behind their calls, also when notices
\* stand among them; nothing but a result nobody asked for is dropped, only
\* notices move, and only behind results, and no answered call is lost.  A
\* known effort becomes one the model supports, no higher than asked for if it
\* can be, any other stays, as does a body that is no JSON object.
WireContract ==
    pc = "send" => IF asked = NotJSON THEN body = asked ELSE
        LET in == asked.messages
            wire == body.messages
        IN  /\ Paired(wire)
            /\ UniqueIds(in) /\ ~Interrupted(in) /\ Traffic(in) # {} => InSequence(wire)
            /\ InSequence(in) => [j \in DOMAIN wire |-> wire[j].pos] = [j \in DOMAIN in |-> j]
            /\ \A j \in Positions(in) :
                 Stays(wire, j) \/ (in[j].role = "tool" /\ in[j].id \notin CallIds(in))
            /\ CallIds(wire) = CallIds(in) \cap ResultIds(in)
            /\ \A a, b \in Positions(wire) : a < b /\ wire[a].pos > wire[b].pos
                 => wire[a].role = "tool" /\ IsNotice(wire[b])
            /\ \A j \in Positions(wire) : wire[j].role # "developer"
            /\ body.stream /\ body.alias = Absent
            /\ body.choice \in {Absent, "auto", "required", "f"}
            /\ body.max = Absent <=> (asked.max = Absent /\ asked.alias \in {Absent, 0})
            /\ asked.effort \notin Nat => body.effort = asked.effort
            /\ asked.effort \in Nat /\ Supported # {} =>
                 /\ body.effort \in Supported
                 /\ \A e \in Supported : e <= asked.effort => e <= body.effort /\ body.effort <= asked.effort

\* A sequence lists the numbers of a set in their order.
Lists(s, S) == /\ {s[j] : j \in DOMAIN s} = S
               /\ \A i, j \in DOMAIN s : i < j => s[i] < s[j]

\* The lines read before a [DONE], and those of them that hold data or usage.
DoneRead == taken > 0 /\ sent[taken] = Done
LastLine == IF DoneRead THEN taken - 1 ELSE taken
Lines == 1..LastLine
DataLines == {j \in Lines : sent[j].kind = "data"}
UsageLines == {j \in DataLines : sent[j].usage # "none"}
PaidLines == {j \in DataLines : sent[j].usage = "paid"}
Answerable == mode = "stream" \/ (~failed /\ DataLines # {})

ReadToDone == \A j \in Lines : sent[j] # Done

Latest(S) == IF S = {} THEN 0 ELSE Max(S)
LastUsage == IF Latest(UsageLines) \in PaidLines THEN Latest(UsageLines) ELSE 0

\* A stream is charged the last credit any usage gave, an answer put together
\* the credit of its last usage, if that has one.
Charged ==
    charged = CASE ~Answerable      -> 0
                [] mode = "stream"  -> Latest(PaidLines)
                [] OTHER            -> LastUsage

\* The first n lines as the client gets them.
Passed(n) == [j \in 1..n |-> IF sent[j].kind = "data" THEN Normalized(sent[j]) ELSE sent[j]]

Streamed ==
    mode = "stream" /\ client # "gone" =>
        /\ out = Passed(LastLine)
                   \o (CASE failed                     -> <<>>
                         [] ~failed /\ DataLines = {} -> <<ErrorFrame, Done>>
                         [] OTHER                      -> <<Done>>)
        /\ status = IF ~failed /\ DataLines = {} THEN 502 ELSE 200

\* An answer holds every piece of the text and of each tool call, in the order
\* they came, and the calls in the order of their indexes.
TextLines == {j \in DataLines : sent[j].text}
CallLines(i) == {j \in DataLines : sent[j].index = i}
Called == {i \in {0, 1} : CallLines(i) # {}}
Place(i) == IF i = 1 /\ 0 \in Called THEN 2 ELSE 1

Aggregated ==
    mode = "sync" /\ client # "gone" =>
        /\ Len(out) = 1
        /\ ~Answerable => out[1] = ErrorFrame
        /\ Answerable => /\ Lists(out[1].text, TextLines)
                         /\ DOMAIN out[1].calls = {Place(i) : i \in Called}
                         /\ \A i \in Called : Lists(out[1].calls[Place(i)], CallLines(i))

SyncRecorded == mode = "sync" => status = IF Answerable THEN 200 ELSE 502

ErrorBlamed == cause # Absent /\ ended = "eof" => verdict = cause

\* However the stream went, client, records and account agree about it.  A
\* client that stayed got every line read so far, free of noise, and a stream
\* that ended, with or without a [DONE] of the upstream, has one [DONE], the
\* last, after an error frame only if no frame was valid, which is when 502 is
\* recorded; [DONE] is missing only when the stream was cut off or the client
\* left.  A sync client got 200 with exactly what a streaming one would put
\* together, or 502.  The account is charged the last credit read, which for a
\* sync answer must be that of its last usage, and nothing for one that failed.
\* An error answer that came whole is blamed on what was wrong.
CallWellEnded ==
    pc = "done" =>
        IF verdict # Absent THEN ErrorBlamed
        ELSE ReadToDone /\ Charged /\ Streamed /\ Aggregated /\ SyncRecorded

\* The watchdog cuts a stream only when the upstream has sent nothing for
\* longer than the idle timeout, or when the client has kept the handler from
\* reading: a stream that flows is never cut, however long it is.
CutOnlyWhenIdle ==
    [][watch = "on" /\ watch' = "cutting" => excused]_streamVars

\* Every call sent ends once the upstream has fallen silent, which it need not
\* say: a late header, a stream that just stops, at whatever place, and a client
\* that stalled for a while or left are all got over.  An upstream that drips
\* and a client that takes nothing for ever do keep the call, there being no
\* other limit; so does the body of an error answer.
FallsSilent == <>[][~(SendFrame \/ SendBlank)]_streamVars
TakesItsAnswer == <>[](client # "stuck")

ResponseEnds ==
    FallsSilent /\ TakesItsAnswer => (pc = "wait" ~> pc \in {"done", "errbody"})

\* logging.go says that the credit is that of the last usage frame.
LastUsageCharged ==
    pc = "done" /\ verdict = Absent /\ mode = "stream" => charged = LastUsage

\* sse.go says that Stream writes at least one [DONE]: a client that reads to
\* the end is told that it is one, also where the upstream breaks off.
DoneAlwaysWritten ==
    pc = "done" /\ verdict = Absent /\ mode = "stream" /\ client # "gone" =>
        Done \in {out[i] : i \in DOMAIN out}

\* client.go says that header and idle timeout catch every upstream that hangs.
ErrorAnswerEnds == pc = "errbody" ~> pc = "done"
=============================================================================
