----------------------------- MODULE StreamProofs -----------------------------
(***************************************************************************)
(* Theorems about ChatStream for any time limits, any number of frames and *)
(* any requests.                                                           *)
(***************************************************************************)
EXTENDS ChatStream, SequenceTheorems, FiniteSetTheorems, WellFoundedInduction, TLAPS

Before  == {"prepare", "send", "wait", "errbody"}
Reading == {"read", "write"}
Stages  == Before \cup Reading \cup {"finish", "last", "close", "reply", "done"}

TypeInv ==
  /\ pc \in Stages
  /\ mode \in {"stream", "sync"}
  /\ sent \in Seq(Frames)
  /\ filled \in Nat /\ filled <= Len(sent)
  /\ taken \in Nat /\ taken <= filled
  /\ valid \in Nat
  /\ watch \in {"off", "on", "cutting", "fired", "stopped"}
  /\ silence \in Nat /\ quiet \in Nat
  /\ pc \in {"write", "finish", "last", "close"} => mode = "stream"
  /\ pc = "reply" => mode = "sync"
  /\ pc = "write" => taken >= 1

(* As long as all that was sent is in the buffer, the stream is silent for *)
(* the handler no longer than it is quiet at the upstream.                 *)
WatchInv ==
  /\ pc \in Before => watch = "off"
  /\ watch = "on" => /\ filled = Len(sent) => silence <= quiet
                     /\ ~excused => silence <= IdleTimeout

-----------------------------------------------------------------------------
LEMMA TypeInit == StreamInit => TypeInv
<1> SUFFICES ASSUME StreamInit PROVE TypeInv
  OBVIOUS
<1>1. sent = <<>> /\ Len(sent) = 0 /\ sent \in Seq(Frames)
  BY DEF StreamInit
<1>2. /\ pc = "prepare" /\ mode \in {"stream", "sync"} /\ watch = "off"
      /\ filled = 0 /\ taken = 0 /\ valid = 0 /\ silence = 0 /\ quiet = 0
  BY DEF StreamInit
<1> QED BY <1>1, <1>2 DEF TypeInv, Stages, Before, Reading

LEMMA TypeStep == TypeInv /\ [StreamNext]_streamVars => TypeInv'
<1> SUFFICES ASSUME TypeInv, [StreamNext]_streamVars PROVE TypeInv'
  OBVIOUS
<1> USE DEF TypeInv, Stages, Before, Reading
<1>1. CASE Prepare \/ Send \/ TransportFails \/ ReadErrorBody \/ Answered \/ AnsweredError
  BY <1>1 DEF Prepare, Send, TransportFails, ReadErrorBody, Answered, AnsweredError,
              upstream, reading, timers, request
<1>2. CASE Fill
  <2>1. UNCHANGED <<pc, mode, sent, taken, valid, watch, quiet>>
    BY <1>2 DEF Fill, upstream, request
  <2>2. filled' = Len(sent) /\ taken = filled /\ Len(sent) \in Nat
    BY <1>2 DEF Fill
  <2>3. silence' = 0
    BY <1>2 DEF Fill
  <2> QED BY <2>1, <2>2, <2>3
<1>3. CASE ReadFails \/ EndOfStream
  <2>1. UNCHANGED <<mode, sent, filled, taken, valid, silence, quiet>>
    BY <1>3 DEF ReadFails, EndOfStream, upstream, timers, request
  <2>2. \E badly \in BOOLEAN : ReadingEnds(badly)
    BY <1>3 DEF ReadFails, EndOfStream
  <2> QED BY <2>1, <2>2 DEF ReadingEnds
<1>4. CASE TakeDone
  <2>1. UNCHANGED <<mode, sent, filled, valid, silence, quiet>>
    BY <1>4 DEF TakeDone, upstream, timers, request
  <2>2. taken' = taken + 1 /\ taken < filled /\ ReadingEnds(FALSE)
    BY <1>4 DEF TakeDone
  <2> QED BY <2>1, <2>2 DEF ReadingEnds
<1>5. CASE TakeLine
  <2>1. UNCHANGED <<mode, sent, filled, silence, quiet, watch>>
    BY <1>5 DEF TakeLine, upstream, timers, request
  <2>2. taken' = taken + 1 /\ taken < filled
    BY <1>5 DEF TakeLine
  <2>3. valid' \in Nat
    BY <1>5 DEF TakeLine
  <2>4. pc' = IF mode = "stream" THEN "write" ELSE "read"
    BY <1>5 DEF TakeLine
  <2> QED BY <2>1, <2>2, <2>3, <2>4
<1>6. CASE WriteLine \/ WriteFails \/ WriteLost
  <2>1. UNCHANGED <<mode, sent, filled, taken, silence, quiet, watch>>
    BY <1>6 DEF WriteLine, WriteFails, WriteLost, upstream, timers, request
  <2>2. valid' \in Nat
    BY <1>6 DEF WriteLine, WriteFails, WriteLost, reading
  <2>3. mode = "stream" /\ pc' \in {"read", "close"}
    BY <1>6 DEF WriteLine, WriteFails, WriteLost
  <2> QED BY <2>1, <2>2, <2>3
<1>7. CASE Apologise \/ WriteDone \/ ChargeAndClose \/ Reply
  BY <1>7 DEF Apologise, WriteDone, ChargeAndClose, Reply, upstream, reading, timers, request
<1>8. CASE FoundIdle \/ Cut
  BY <1>8 DEF FoundIdle, Cut, upstream, reading, timers, request
<1>9. CASE SendFrame
  BY <1>9 DEF SendFrame, reading, request
<1>13. CASE SendBlank
  BY <1>13 DEF SendBlank, upstream, reading, request
<1>10. CASE EndAnswer \/ ClientStalls \/ ClientGoesOn \/ ClientLeaves
  BY <1>10 DEF EndAnswer, ClientStalls, ClientGoesOn, ClientLeaves, upstream, reading,
               timers, request
<1>11. CASE Tick
  BY <1>11 DEF Tick, Capped, upstream, reading, request
<1>12. CASE UNCHANGED streamVars
  BY <1>12 DEF streamVars, upstream, reading, timers, request
<1> QED
  BY <1>1, <1>2, <1>3, <1>4, <1>5, <1>6, <1>7, <1>8, <1>9, <1>10, <1>11, <1>12, <1>13
     DEF StreamNext, HandlerNext, WatchdogNext

LEMMA TypeInvariant == StreamSpec => []TypeInv
BY TypeInit, TypeStep, PTL DEF StreamSpec

(* The watchdog is started with both clocks at zero; from then on a clock  *)
(* is only advanced or set back with the stream, and the only steps that   *)
(* let the handler's run ahead of the upstream's leave a frame unread.     *)
LEMMA WatchStep ==
  TypeInv /\ TypeInv' /\ WatchInv /\ [StreamNext]_streamVars => WatchInv'
<1> SUFFICES ASSUME TypeInv, TypeInv', WatchInv, [StreamNext]_streamVars PROVE WatchInv'
  OBVIOUS
<1> USE StreamAssumption DEF TypeInv, WatchInv, Before
<1>1. CASE Prepare \/ Send \/ TransportFails \/ ReadErrorBody \/ AnsweredError
  BY <1>1 DEF Prepare, Send, TransportFails, ReadErrorBody, AnsweredError,
              upstream, reading, timers
<1>2. CASE Answered
  BY <1>2 DEF Answered, upstream, reading
<1>3. CASE Fill
  BY <1>3 DEF Fill, upstream
<1>4. CASE ReadFails \/ EndOfStream \/ TakeDone \/ TakeLine
  BY <1>4 DEF ReadFails, EndOfStream, TakeDone, TakeLine, ReadingEnds, upstream, timers
<1>5. CASE \/ WriteLine \/ WriteFails \/ WriteLost
           \/ Apologise \/ WriteDone \/ ChargeAndClose \/ Reply
  BY <1>5 DEF WriteLine, WriteFails, WriteLost, Apologise, WriteDone, ChargeAndClose, Reply,
              upstream, reading, timers
<1>6. CASE FoundIdle \/ Cut
  BY <1>6 DEF FoundIdle, Cut, upstream, reading, timers
<1>7. CASE SendFrame \/ SendBlank
  BY <1>7 DEF SendFrame, SendBlank, upstream, reading
<1>8. CASE EndAnswer \/ ClientStalls \/ ClientGoesOn \/ ClientLeaves
  BY <1>8 DEF EndAnswer, ClientStalls, ClientGoesOn, ClientLeaves, upstream, reading, timers
<1>9. CASE Tick
  <2> SUFFICES ASSUME watch = "on"
               PROVE  /\ watch' = "on" /\ pc' \notin Before
                      /\ filled' = Len(sent') => silence' <= quiet'
                      /\ ~excused' => silence' <= IdleTimeout
    BY <1>9 DEF Tick
  <2>1. UNCHANGED <<watch, pc, filled, taken, sent>>
    BY <1>9 DEF Tick, reading, upstream
  <2>2. silence' = Capped(silence, IdleTimeout) /\ quiet' = Capped(quiet, IdleTimeout)
    BY <1>9 DEF Tick
  <2>3. silence <= quiet => silence' <= quiet'
    BY <2>2 DEF Capped
  <2>4. client # "stuck" => filled = Len(sent)
    BY <1>9 DEF Tick, Waiting, Writing
  <2>5. (client = "stuck" \/ quiet' > IdleTimeout) => excused'
    BY <1>9 DEF Tick
  <2>6. quiet' \in Nat /\ silence' \in Nat
    BY <2>2 DEF Capped
  <2> QED BY <2>1, <2>3, <2>4, <2>5, <2>6
<1>10. CASE UNCHANGED streamVars
  BY <1>10 DEF streamVars, upstream, reading, timers
<1> QED
  BY <1>1, <1>2, <1>3, <1>4, <1>5, <1>6, <1>7, <1>8, <1>9, <1>10
     DEF StreamNext, HandlerNext, WatchdogNext

LEMMA WatchInvariant == StreamSpec => [](TypeInv /\ WatchInv)
<1>1. StreamInit => WatchInv
  BY DEF StreamInit, WatchInv, Before
<1> QED BY <1>1, WatchStep, TypeInvariant, PTL DEF StreamSpec

(* The watchdog cuts a stream only when the upstream has sent nothing for  *)
(* longer than the idle timeout, or when the client has kept the handler   *)
(* from reading, whatever the timeout and however long the stream.         *)
THEOREM CutOnlyWhenIdleCorrect == StreamSpec => CutOnlyWhenIdle
<1>1. /\ TypeInv /\ WatchInv /\ [StreamNext]_streamVars
      => (watch = "on" /\ watch' = "cutting" => excused)
  <2> SUFFICES ASSUME TypeInv, WatchInv, [StreamNext]_streamVars,
                      watch = "on", watch' = "cutting"
               PROVE  excused
    OBVIOUS
  <2>1. FoundIdle
    BY DEF StreamNext, HandlerNext, WatchdogNext, Prepare, Send, TransportFails, ReadErrorBody,
           Fill, ReadFails, EndOfStream, TakeDone, TakeLine, ReadingEnds, WriteLine, WriteFails,
           WriteLost, Apologise, WriteDone, ChargeAndClose, Reply, Cut, Answered, AnsweredError,
           SendFrame, SendBlank, EndAnswer, ClientStalls, ClientGoesOn, ClientLeaves, Tick, streamVars
  <2> QED BY <2>1, StreamAssumption DEF FoundIdle, WatchInv, TypeInv
<1> QED BY <1>1, WatchInvariant, PTL DEF StreamSpec, CutOnlyWhenIdle

-----------------------------------------------------------------------------
(* Of the lines taken only the last is a [DONE], and none while reading    *)
(* goes on.                                                                *)
DoneLast == \A j \in 1..taken : sent[j] = Done => j = taken /\ pc \notin Reading

(* The credit is the last one among them, or that of the last usage.       *)
IsLast(S, n) == IF S = {} THEN n = 0 ELSE n \in S /\ \A j \in S : j <= n

CreditSeen ==
  IF mode = "stream" THEN IsLast(PaidLines, credit)
  ELSE \E n \in Nat : IsLast(UsageLines, n) /\ credit = IF n \in PaidLines THEN n ELSE 0

(* A frame is valid exactly if there is data among the lines dealt with; a *)
(* line whose writing is still on does not count.                          *)
ValidSeen ==
  \/ mode = "stream" /\ client = "gone"
  \/ valid > 0 <=> (IF pc = "write" THEN DataLines \ {taken} ELSE DataLines) # {}

(* The lines read before a [DONE], and all but the last one, as the client *)
(* gets them; what a client that stays has got at each stage of a stream.  *)
Got       == Passed(LastLine)
GotBefore == Passed(taken - 1)

GivenSoFar ==
  /\ pc \in {"read", "finish"} => out = Got
  /\ pc = "write" => out = GotBefore
  /\ pc = "last" => out = Append(Got, ErrorFrame) /\ valid = 0
  /\ pc \in {"finish", "last"} => ~failed

(* What is known at each stage of a call, up to its end.                   *)
AnswerInv ==
  /\ client \in {"reading", "stuck", "gone"}
  /\ DoneLast /\ CreditSeen /\ ValidSeen
  /\ pc \in Before => taken = 0 /\ credit = 0 /\ valid = 0 /\ out = <<>>
  /\ pc # "done" => verdict = Absent
  /\ mode = "stream" /\ client # "gone" => GivenSoFar
  /\ pc \in {"close", "done"} /\ verdict = Absent => Streamed
  /\ pc = "done" /\ verdict = Absent => Charged /\ SyncRecorded


-----------------------------------------------------------------------------
(* Lemmas about the lines taken.                                           *)
LEMMA DoneIsNoData == Done.kind # "data"
BY DEF Done

LEMMA PassedAppend ==
  ASSUME NEW n \in Nat
  PROVE  Passed(n + 1) =
           Append(Passed(n),
                  IF sent[n + 1].kind = "data" THEN Normalized(sent[n + 1]) ELSE sent[n + 1])
<1> DEFINE line(j) == IF sent[j].kind = "data" THEN Normalized(sent[j]) ELSE sent[j]
           p == [j \in 1..n |-> line(j)]
<1>1. Passed(n) = p /\ Passed(n + 1) = [j \in 1..(n + 1) |-> line(j)]
  BY DEF Passed
<1> HIDE DEF line
<1>2. p \in Seq({line(j) : j \in 1..(n + 1)}) /\ Len(p) = n
  OBVIOUS
<1>3. Append(p, line(n + 1)) = [j \in 1..(n + 1) |-> line(j)]
  BY <1>2
<1> QED BY <1>1, <1>3 DEF line

(* The last line is followed by the end of the answer.                     *)
LEMMA PassedEnds ==
  ASSUME NEW n \in Nat
  PROVE  /\ Passed(n) \o <<>> = Passed(n)
         /\ Append(Passed(n), Done) = Passed(n) \o <<Done>>
         /\ Append(Append(Passed(n), ErrorFrame), Done) = Passed(n) \o <<ErrorFrame, Done>>
<1> DEFINE S == {Passed(n)[j] : j \in 1..n} \cup {Done, ErrorFrame}
           p == Passed(n)
<1>1. p \in Seq(S)
  BY DEF Passed
<1>2. Done \in S /\ ErrorFrame \in S
  OBVIOUS
<1> HIDE DEF S, p
<1>3. p \o <<>> = p
  BY <1>1, ConcatEmptySeq
<1>4. Append(p, Done) = p \o <<Done>>
  BY <1>1, <1>2, AppendIsConcat
<1>5. Append(Append(p, ErrorFrame), Done) = p \o <<ErrorFrame, Done>>
  BY <1>1, <1>2
<1> QED BY <1>3, <1>4, <1>5 DEF p

(* A set of numbers has a smallest member, and a bounded one a largest.    *)
LEMMA LowestOf ==
  ASSUME NEW S \in SUBSET Nat, S # {} PROVE \E m \in S : \A k \in S : m <= k
<1> DEFINE R == {ss \in Nat \X Nat : ss[1] < ss[2]}
<1>1. IsWellFoundedOn(R, Nat)
  BY NatLessThanWellFounded DEF OpToRel
<1>2. \A x, y \in Nat : x < y => <<x, y>> \in R
  OBVIOUS
<1> HIDE DEF R
<1>3. PICK m \in S : \A k \in S : ~(<<k, m>> \in R)
  BY <1>1, WFMin
<1>4. \A k \in S : m <= k
  <2> TAKE k \in S
  <2>1. m \in Nat /\ k \in Nat /\ ~(k < m)
    BY <1>2, <1>3
  <2> QED BY <2>1
<1> QED BY <1>4

LEMMA HighestOf ==
  ASSUME NEW S \in SUBSET Nat, S # {}, NEW top \in Nat, \A k \in S : k <= top
  PROVE  \E m \in S : \A k \in S : k <= m
<1> DEFINE E == {top - k : k \in S}
<1>1. E \in SUBSET Nat /\ E # {}
  <2>1. \A k \in S : k \in Nat /\ top - k \in Nat
    OBVIOUS
  <2>2. E \subseteq Nat
    BY <2>1
  <2>3. PICK k \in S : TRUE
    OBVIOUS
  <2>4. top - k \in E
    OBVIOUS
  <2> QED BY <2>2, <2>4
<1> HIDE DEF E
<1>2. PICK e \in E : \A x \in E : e <= x
  BY <1>1, LowestOf
<1>3. PICK m \in S : e = top - m
  BY <1>2 DEF E
<1>4. \A k \in S : k <= m
  <2> TAKE k \in S
  <2>1. top - k \in E
    BY DEF E
  <2>2. top - m <= top - k /\ m \in Nat /\ k \in Nat
    BY <1>2, <1>3, <2>1
  <2> QED BY <2>2
<1> QED BY <1>4

LEMMA MaxIs ==
  ASSUME NEW S \in SUBSET Nat, NEW m \in S, \A j \in S : j <= m PROVE Max(S) = m
<1>1. \A x \in S : (\A y \in S : x >= y) => x = m
  <2> TAKE x \in S
  <2>1. (\A y \in S : x >= y) => x >= m /\ x <= m
    OBVIOUS
  <2>2. x \in Nat /\ m \in Nat
    OBVIOUS
  <2> QED BY <2>1, <2>2
<1>2. m \in S /\ \A y \in S : m >= y
  OBVIOUS
<1> QED BY <1>1, <1>2 DEF Max

LEMMA LatestIs ==
  ASSUME NEW S \in SUBSET Nat, NEW n, IsLast(S, n) PROVE Latest(S) = n
<1>1. CASE S = {}
  BY <1>1 DEF Latest, IsLast
<1>2. CASE S # {}
  <2>1. n \in S /\ \A j \in S : j <= n
    BY <1>2 DEF IsLast
  <2>2. Max(S) = n
    BY <2>1, MaxIs
  <2> QED BY <1>2, <2>2 DEF Latest
<1> QED BY <1>1, <1>2

(* A step that takes no line leaves the lines as they are.                 *)
LEMMA LinesKept ==
  ASSUME TypeInv, taken' = taken, \A j \in 1..taken : sent'[j] = sent[j]
  PROVE  /\ DoneRead' <=> DoneRead
         /\ LastLine' = LastLine /\ LastLine \in 0..taken
         /\ DataLines' = DataLines /\ UsageLines' = UsageLines /\ PaidLines' = PaidLines
         /\ Got' = Got /\ GotBefore' = GotBefore
<1>1. DoneRead' <=> DoneRead
  BY DEF DoneRead, TypeInv
<1>2. LastLine' = LastLine /\ LastLine \in 0..taken
  BY <1>1 DEF LastLine, DoneRead, TypeInv
<1>3. \A j \in Lines : sent'[j] = sent[j]
  BY <1>2 DEF Lines, TypeInv
<1>4. DataLines' = DataLines
  BY <1>2, <1>3 DEF DataLines, Lines
<1>5. UsageLines' = UsageLines /\ PaidLines' = PaidLines
  BY <1>3, <1>4 DEF UsageLines, PaidLines, DataLines
<1>6. Got' = Got
  <2>1. \A j \in 1..LastLine : sent'[j] = sent[j]
    BY <1>2 DEF TypeInv
  <2> QED BY <1>2, <2>1 DEF Got, Passed
<1>7. GotBefore' = GotBefore
  <2>1. \A j \in 1..(taken - 1) : sent'[j] = sent[j]
    BY DEF TypeInv
  <2> QED BY <2>1 DEF GotBefore, Passed
<1> QED BY <1>1, <1>2, <1>4, <1>5, <1>6, <1>7

LEMMA LinesTaken ==
  ASSUME TypeInv, DoneLast
  PROVE  /\ pc \in Reading => ~DoneRead /\ LastLine = taken
         /\ DataLines = {j \in 1..taken : sent[j].kind = "data"}
         /\ UsageLines = {j \in DataLines : sent[j].usage # "none"}
         /\ PaidLines = {j \in DataLines : sent[j].usage = "paid"}
         /\ UsageLines \in SUBSET Nat /\ PaidLines \in SUBSET Nat
<1>1. pc \in Reading => ~DoneRead /\ LastLine = taken
  BY DEF DoneLast, DoneRead, LastLine, TypeInv
<1>2. DataLines = {j \in 1..taken : sent[j].kind = "data"}
  <2>1. CASE DoneRead
    <3>1. LastLine = taken - 1 /\ sent[taken].kind # "data"
      BY <2>1, DoneIsNoData DEF LastLine, DoneRead
    <3> QED BY <3>1 DEF DataLines, Lines, TypeInv
  <2>2. CASE ~DoneRead
    BY <2>2 DEF LastLine, DataLines, Lines
  <2> QED BY <2>1, <2>2
<1>3. DataLines \in SUBSET Nat
  BY <1>2 DEF TypeInv
<1> QED BY <1>1, <1>2, <1>3 DEF UsageLines, PaidLines


-----------------------------------------------------------------------------
(* A step that takes no line, moves the handler nowhere and gives nothing  *)
(* to the client keeps the invariant.                                      *)
LEMMA AnswerKept ==
  ASSUME TypeInv, AnswerInv,
         UNCHANGED <<pc, mode, taken, valid, credit, failed, out, status, charged, verdict>>,
         \A j \in 1..taken : sent'[j] = sent[j],
         client' \in {"reading", "stuck", "gone"},
         client = "gone" => client' = "gone"
  PROVE  AnswerInv'
<1>1. /\ LastLine' = LastLine /\ DataLines' = DataLines
      /\ UsageLines' = UsageLines /\ PaidLines' = PaidLines
      /\ Got' = Got /\ GotBefore' = GotBefore
  BY LinesKept
<1>2. DoneLast' /\ CreditSeen' /\ ValidSeen'
  BY <1>1 DEF AnswerInv, DoneLast, CreditSeen, ValidSeen, TypeInv
<1>3. mode = "stream" /\ client' # "gone" => GivenSoFar'
  BY <1>1 DEF AnswerInv, GivenSoFar
<1>4. Streamed => Streamed'
  BY <1>1 DEF Streamed, Got
<1>5. Charged /\ SyncRecorded => Charged' /\ SyncRecorded'
  BY <1>1 DEF Charged, LastUsage, SyncRecorded, Answerable
<1> QED BY <1>2, <1>3, <1>4, <1>5 DEF AnswerInv


(* One more line: what is new among the lines taken.                       *)
HasUsage(f)  == f.kind = "data" /\ f.usage # "none"
HasCredit(f) == f.kind = "data" /\ f.usage = "paid"

LEMMA TakenMore ==
  ASSUME TypeInv, DoneLast, pc \in Reading, sent' = sent, taken' = taken + 1, taken < filled
  PROVE  /\ sent[taken'] = Done =>
              /\ LastLine' = taken /\ DataLines' = DataLines
              /\ UsageLines' = UsageLines /\ PaidLines' = PaidLines
              /\ Got' = Got
         /\ sent[taken'] # Done =>
              /\ LastLine' = taken'
              /\ DataLines' = DataLines \cup {j \in {taken'} : sent[j].kind = "data"}
              /\ UsageLines' = UsageLines \cup {j \in {taken'} : HasUsage(sent[j])}
              /\ PaidLines' = PaidLines \cup {j \in {taken'} : HasCredit(sent[j])}
              /\ GotBefore' = Got
<1>1. LastLine = taken
  BY LinesTaken
<1>2. CASE sent[taken'] = Done
  <2>1. LastLine' = taken
    BY <1>2 DEF LastLine, DoneRead, TypeInv
  <2>2. DataLines' = DataLines
    BY <1>1, <2>1 DEF DataLines, Lines
  <2>3. UsageLines' = UsageLines /\ PaidLines' = PaidLines
    BY <2>2 DEF UsageLines, PaidLines
  <2>4. Got' = Got
    BY <1>1, <2>1 DEF Got, Passed
  <2> QED BY <1>2, <2>1, <2>2, <2>3, <2>4
<1>3. CASE sent[taken'] # Done
  <2>1. LastLine' = taken'
    BY <1>3 DEF LastLine, DoneRead, TypeInv
  <2>2. 1..taken' = 1..taken \cup {taken'}
    BY DEF TypeInv
  <2>3. DataLines' = DataLines \cup {j \in {taken'} : sent[j].kind = "data"}
    BY <1>1, <2>1, <2>2 DEF DataLines, Lines
  <2>4. /\ UsageLines' = UsageLines \cup {j \in {taken'} : HasUsage(sent[j])}
        /\ PaidLines' = PaidLines \cup {j \in {taken'} : HasCredit(sent[j])}
    BY <2>3 DEF UsageLines, PaidLines, HasUsage, HasCredit
  <2>5. GotBefore' = Got
    <3>1. taken' - 1 = taken
      BY DEF TypeInv
    <3> QED BY <1>1, <3>1 DEF GotBefore, Got, Passed
  <2> QED BY <1>3, <2>1, <2>3, <2>4, <2>5
<1> QED BY <1>2, <1>3

(* The line just taken is what the client gets next.                       *)
LEMMA GotNext ==
  ASSUME TypeInv, DoneLast, pc \in Reading, taken >= 1
  PROVE  Got = Append(GotBefore, IF sent[taken].kind = "data" THEN Normalized(sent[taken])
                                 ELSE sent[taken])
<1>1. LastLine = taken
  BY LinesTaken
<1>2. PICK n \in Nat : n = taken - 1
  BY DEF TypeInv
<1>3. n + 1 = taken
  BY <1>2 DEF TypeInv
<1> QED BY <1>1, <1>2, <1>3, PassedAppend DEF Got, GotBefore

LEMMA TakeDoneKeeps == TypeInv /\ AnswerInv /\ TakeDone => AnswerInv'
<1> SUFFICES ASSUME TypeInv, AnswerInv, TakeDone PROVE AnswerInv'
  OBVIOUS
<1>1. /\ pc = "read" /\ sent' = sent /\ taken' = taken + 1 /\ taken < filled
      /\ sent[taken'] = Done
      /\ UNCHANGED <<mode, verdict, valid, credit, out, status, charged, client>>
  BY DEF TakeDone, upstream, given, request, verdicts
<1>2. /\ failed' = FALSE
      /\ pc' = IF mode = "sync" THEN "reply" ELSE "finish"
  BY DEF TakeDone, ReadingEnds
<1>3. /\ LastLine' = taken /\ DataLines' = DataLines /\ Got' = Got
      /\ UsageLines' = UsageLines /\ PaidLines' = PaidLines
  BY <1>1, TakenMore DEF AnswerInv, Reading
<1>4. DoneLast'
  BY <1>1, <1>2 DEF AnswerInv, DoneLast, Reading, TypeInv
<1>5. CreditSeen' /\ ValidSeen'
  BY <1>1, <1>2, <1>3 DEF AnswerInv, CreditSeen, ValidSeen
<1>6. mode = "stream" /\ client # "gone" => GivenSoFar'
  BY <1>1, <1>2, <1>3 DEF AnswerInv, GivenSoFar
<1> QED BY <1>1, <1>2, <1>4, <1>5, <1>6 DEF AnswerInv, Before

LEMMA TakeLineKeeps == TypeInv /\ AnswerInv /\ TakeLine => AnswerInv'
<1> SUFFICES ASSUME TypeInv, AnswerInv, TakeLine PROVE AnswerInv'
  OBVIOUS
<1>1. /\ pc = "read" /\ sent' = sent /\ taken' = taken + 1 /\ taken < filled
      /\ sent[taken'] # Done
      /\ UNCHANGED <<mode, verdict, failed, out, status, charged, client>>
  BY DEF TakeLine, upstream, given, request, verdicts
<1>2. /\ credit' = CreditAfter(sent[taken'], taken')
      /\ pc' = IF mode = "stream" THEN "write" ELSE "read"
      /\ valid' = IF mode = "sync" /\ sent[taken'].kind = "data" THEN valid + 1 ELSE valid
  BY <1>1 DEF TakeLine, TypeInv
<1>3. /\ LastLine' = taken'
      /\ DataLines' = DataLines \cup {j \in {taken'} : sent[j].kind = "data"}
      /\ UsageLines' = UsageLines \cup {j \in {taken'} : HasUsage(sent[j])}
      /\ PaidLines' = PaidLines \cup {j \in {taken'} : HasCredit(sent[j])}
      /\ GotBefore' = Got
  BY <1>1, TakenMore DEF AnswerInv, Reading
<1>4. DataLines \subseteq 1..taken /\ UsageLines \subseteq 1..taken /\ PaidLines \subseteq UsageLines
  BY LinesTaken DEF AnswerInv
<1>5. DoneLast'
  BY <1>1 DEF AnswerInv, DoneLast, Reading, TypeInv
<1>6. CreditSeen'
  <2>1. CASE HasCredit(sent[taken'])
    <3>1. /\ UsageLines' = UsageLines \cup {taken'} /\ PaidLines' = PaidLines \cup {taken'}
          /\ credit' = taken'
      BY <1>2, <1>3, <2>1 DEF CreditAfter, HasUsage, HasCredit
    <3>2. taken' \in Nat /\ \A j \in UsageLines' : j <= taken'
      BY <1>1, <1>4, <3>1 DEF TypeInv
    <3>3. IsLast(UsageLines', taken') /\ IsLast(PaidLines', taken')
      BY <1>4, <3>1, <3>2 DEF IsLast
    <3> QED BY <3>1, <3>2, <3>3 DEF CreditSeen
  <2>2. CASE ~HasUsage(sent[taken'])
    <3>1. ~HasCredit(sent[taken'])
      BY <2>2 DEF HasUsage, HasCredit
    <3>2. UsageLines' = UsageLines /\ PaidLines' = PaidLines /\ credit' = credit
      BY <1>2, <1>3, <2>2, <3>1 DEF CreditAfter, HasUsage
    <3> QED BY <1>1, <3>2 DEF CreditSeen, AnswerInv
  <2>3. CASE HasUsage(sent[taken']) /\ ~HasCredit(sent[taken'])
    <3>1. /\ UsageLines' = UsageLines \cup {taken'} /\ PaidLines' = PaidLines
          /\ credit' = IF mode = "stream" THEN credit ELSE 0
      BY <1>2, <1>3, <2>3 DEF CreditAfter, HasUsage, HasCredit
    <3>2. CASE mode = "stream"
      BY <1>1, <3>1, <3>2 DEF CreditSeen, AnswerInv
    <3>3. CASE mode # "stream"
      <4>1. taken' \in Nat /\ taken' \notin 1..taken /\ \A j \in UsageLines' : j <= taken'
        BY <1>1, <1>4, <3>1 DEF TypeInv
      <4>2. IsLast(UsageLines', taken') /\ taken' \notin PaidLines'
        BY <1>4, <3>1, <4>1 DEF IsLast
      <4> QED BY <1>1, <3>1, <3>3, <4>1, <4>2 DEF CreditSeen
    <3> QED BY <3>2, <3>3
  <2> QED BY <2>1, <2>2, <2>3
<1>7. ValidSeen'
  <2>1. taken' \notin DataLines
    BY <1>1, <1>4 DEF TypeInv
  <2>2. CASE mode = "stream"
    <3>1. DataLines' \ {taken'} = DataLines /\ valid' = valid /\ pc' = "write"
      BY <1>2, <1>3, <2>1, <2>2
    <3> QED BY <1>1, <3>1 DEF AnswerInv, ValidSeen
  <2>3. CASE mode = "sync"
    <3>1. (valid > 0 <=> DataLines # {}) /\ valid \in Nat
      BY <1>1, <2>3 DEF AnswerInv, ValidSeen, TypeInv
    <3>2. DataLines' # {} <=> (DataLines # {} \/ sent[taken'].kind = "data")
      BY <1>3
    <3> QED BY <1>2, <2>3, <3>1, <3>2 DEF ValidSeen
  <2> QED BY <2>2, <2>3 DEF TypeInv
<1>8. mode = "stream" /\ client # "gone" => GivenSoFar'
  BY <1>1, <1>2, <1>3 DEF AnswerInv, GivenSoFar
<1> QED BY <1>1, <1>2, <1>5, <1>6, <1>7, <1>8 DEF AnswerInv, Before


(* The steps that only move the handler on, or give to the client, leave   *)
(* the lines alone.                                                        *)
LEMMA LinesStay ==
  ASSUME TypeInv, AnswerInv, UNCHANGED <<mode, sent, taken, credit>>,
         pc \in Reading \/ pc' \notin Reading
  PROVE  /\ LastLine' = LastLine /\ DataLines' = DataLines
         /\ UsageLines' = UsageLines /\ PaidLines' = PaidLines
         /\ Got' = Got /\ GotBefore' = GotBefore
         /\ DoneLast' /\ CreditSeen'
<1>1. /\ LastLine' = LastLine /\ DataLines' = DataLines
      /\ UsageLines' = UsageLines /\ PaidLines' = PaidLines
      /\ Got' = Got /\ GotBefore' = GotBefore
  BY LinesKept
<1>2. DoneLast'
  BY DEF AnswerInv, DoneLast
<1>3. CreditSeen'
  BY <1>1 DEF AnswerInv, CreditSeen
<1> QED BY <1>1, <1>2, <1>3

LEMMA ReadEndsKeeps == TypeInv /\ AnswerInv /\ (ReadFails \/ EndOfStream) => AnswerInv'
<1> SUFFICES ASSUME TypeInv, AnswerInv, ReadFails \/ EndOfStream PROVE AnswerInv'
  OBVIOUS
<1>1. /\ pc = "read"
      /\ UNCHANGED <<mode, verdict, sent, taken, valid, credit, out, charged, client>>
  BY DEF ReadFails, EndOfStream, upstream, given, request, verdicts
<1>2. pc' \in {"reply", "finish", "close"}
  BY DEF ReadFails, EndOfStream, ReadingEnds
<1>3. /\ LastLine' = LastLine /\ DataLines' = DataLines /\ Got' = Got
      /\ DoneLast' /\ CreditSeen'
  BY <1>1, LinesStay DEF Reading
<1>4. ValidSeen'
  BY <1>1, <1>2, <1>3 DEF AnswerInv, ValidSeen
<1>5. CASE EndOfStream
  <2>1. failed' = FALSE /\ pc' \in {"reply", "finish"}
    BY <1>5 DEF EndOfStream, ReadingEnds
  <2>2. mode = "stream" /\ client # "gone" => GivenSoFar'
    BY <1>1, <1>3, <2>1 DEF AnswerInv, GivenSoFar
  <2> QED BY <1>1, <1>3, <1>4, <2>1, <2>2 DEF AnswerInv, Before
<1>6. CASE ReadFails
  <2>1. /\ failed' = TRUE
        /\ mode = "stream" => pc' = "close" /\ status' = 200
        /\ mode = "sync" => pc' = "reply"
    BY <1>6 DEF ReadFails, ReadingEnds, TypeInv
  <2>2. mode = "stream" /\ client # "gone" => out = Got /\ Got \o <<>> = Got
    <3>1. mode = "stream" /\ client # "gone" => out = Got
      BY <1>1 DEF AnswerInv, GivenSoFar
    <3>2. PICK n \in Nat : n = LastLine
      BY <1>1, LinesTaken DEF AnswerInv, TypeInv, Reading
    <3> QED BY <3>1, <3>2, PassedEnds DEF Got
  <2>3. Streamed'
    <3>1. mode = "stream" /\ client # "gone" => out' = Got' \o <<>> /\ status' = 200
      BY <1>1, <1>3, <2>1, <2>2
    <3>2. failed'
      BY <2>1
    <3> QED BY <1>1, <3>1, <3>2 DEF Streamed, Got
  <2>4. mode = "stream" /\ client # "gone" => GivenSoFar'
    BY <1>1, <2>1 DEF GivenSoFar
  <2> QED BY <1>1, <1>2, <1>3, <1>4, <2>1, <2>3, <2>4 DEF AnswerInv, Before, TypeInv
<1> QED BY <1>5, <1>6

LEMMA WriteKeeps == TypeInv /\ AnswerInv /\ (WriteLine \/ WriteFails \/ WriteLost) => AnswerInv'
<1> SUFFICES ASSUME TypeInv, AnswerInv, WriteLine \/ WriteFails \/ WriteLost PROVE AnswerInv'
  OBVIOUS
<1>1. /\ pc = "write" /\ mode = "stream" /\ taken >= 1
      /\ UNCHANGED <<mode, verdict, sent, taken, credit, charged, client>>
      /\ pc' \in {"read", "close"}
  BY DEF WriteLine, WriteFails, WriteLost, upstream, given, request, verdicts, reading, TypeInv
<1>2. /\ LastLine' = LastLine /\ DataLines' = DataLines /\ Got' = Got
      /\ DoneLast' /\ CreditSeen'
  BY <1>1, LinesStay DEF Reading
<1>3. CASE client = "gone"
  <2>1. ValidSeen' /\ Streamed'
    BY <1>1, <1>3 DEF ValidSeen, Streamed
  <2> QED BY <1>1, <1>2, <1>3, <2>1 DEF AnswerInv, Before
<1>4. CASE client # "gone"
  <2>1. /\ pc' = "read"
        /\ out' = Append(out, IF sent[taken].kind = "data" THEN Normalized(sent[taken])
                              ELSE sent[taken])
        /\ valid' = IF sent[taken].kind = "data" THEN valid + 1 ELSE valid
    BY <1>4 DEF WriteLine, WriteFails, WriteLost
  <2>2. out' = Got
    <3>1. out = GotBefore
      BY <1>1, <1>4 DEF AnswerInv, GivenSoFar
    <3> QED BY <1>1, <2>1, <3>1, GotNext DEF AnswerInv, Reading
  <2>3. ValidSeen'
    <3>1. (valid > 0 <=> DataLines \ {taken} # {}) /\ valid \in Nat
      BY <1>1, <1>4 DEF AnswerInv, ValidSeen, TypeInv
    <3>2. taken \in DataLines <=> sent[taken].kind = "data"
      BY <1>1, LinesTaken DEF AnswerInv, TypeInv
    <3>3. DataLines # {} <=> (DataLines \ {taken} # {} \/ taken \in DataLines)
      OBVIOUS
    <3>4. valid' > 0 <=> DataLines # {}
      BY <2>1, <3>1, <3>2, <3>3
    <3> QED BY <1>2, <2>1, <3>4 DEF ValidSeen
  <2>4. GivenSoFar'
    BY <1>2, <2>1, <2>2 DEF GivenSoFar
  <2> QED BY <1>1, <1>2, <2>1, <2>3, <2>4 DEF AnswerInv, Before
<1> QED BY <1>3, <1>4

(* The end of a stream: an error frame if no frame was valid, and [DONE].  *)
LEMMA FinishKeeps ==
  TypeInv /\ AnswerInv /\ (Apologise \/ WriteDone) => AnswerInv'
<1> SUFFICES ASSUME TypeInv, AnswerInv, Apologise \/ WriteDone PROVE AnswerInv'
  OBVIOUS
<1>1. /\ pc \in {"finish", "last"} /\ pc' \in {"last", "close"} /\ mode = "stream"
      /\ client # "stuck"
      /\ UNCHANGED <<mode, verdict, sent, taken, valid, credit, failed, charged, client>>
  BY DEF Apologise, WriteDone, upstream, request, verdicts, reading, TypeInv
<1>2. /\ LastLine' = LastLine /\ DataLines' = DataLines /\ Got' = Got
      /\ DoneLast' /\ CreditSeen'
  BY <1>1, LinesStay DEF Reading
<1>3. ValidSeen'
  BY <1>1, <1>2 DEF AnswerInv, ValidSeen
<1>4. CASE client = "gone"
  <2>1. Streamed'
    BY <1>1, <1>4 DEF Streamed
  <2> QED BY <1>1, <1>2, <1>3, <1>4, <2>1 DEF AnswerInv, Before
<1>5. CASE client # "gone"
  <2>1. client = "reading" /\ GivenSoFar
    BY <1>1, <1>5 DEF AnswerInv
  <2>2. ~failed /\ (valid > 0 <=> DataLines # {})
    BY <1>1, <1>5, <2>1 DEF AnswerInv, ValidSeen, GivenSoFar
  <2>3. CASE Apologise
    <3>1. pc = "finish" /\ valid = 0 /\ out' = Append(out, ErrorFrame) /\ pc' = "last"
      BY <2>1, <2>3 DEF Apologise
    <3>2. GivenSoFar'
      BY <1>1, <1>2, <2>1, <2>2, <3>1 DEF GivenSoFar
    <3> QED BY <1>1, <1>2, <1>3, <3>1, <3>2 DEF AnswerInv, Before
  <2>4. CASE WriteDone
    <3>1. /\ pc = (IF valid = 0 THEN "last" ELSE "finish") /\ out' = Append(out, Done)
          /\ pc' = "close" /\ status' = IF valid = 0 THEN 502 ELSE 200
      BY <2>1, <2>4 DEF WriteDone
    <3>2. PICK n \in Nat : n = LastLine
      BY LinesKept, <1>1 DEF TypeInv
    <3>3. /\ Append(Got, Done) = Got \o <<Done>>
          /\ Append(Append(Got, ErrorFrame), Done) = Got \o <<ErrorFrame, Done>>
      BY <3>2, PassedEnds DEF Got
    <3>4. valid = 0 <=> DataLines = {}
      BY <2>2 DEF TypeInv
    <3>5. out' = Got \o (IF DataLines = {} THEN <<ErrorFrame, Done>> ELSE <<Done>>)
      BY <2>1, <3>1, <3>3, <3>4 DEF GivenSoFar
    <3>6. Streamed'
      BY <1>1, <1>2, <2>2, <3>1, <3>4, <3>5 DEF Streamed, Got
    <3>7. GivenSoFar'
      BY <3>1 DEF GivenSoFar
    <3> QED BY <1>1, <1>2, <1>3, <3>1, <3>6, <3>7 DEF AnswerInv, Before
  <2> QED BY <2>3, <2>4
<1> QED BY <1>4, <1>5


(* After the stream: the account is charged the last credit there was.     *)
LEMMA ChargeKeeps == TypeInv /\ AnswerInv /\ ChargeAndClose => AnswerInv'
<1> SUFFICES ASSUME TypeInv, AnswerInv, ChargeAndClose PROVE AnswerInv'
  OBVIOUS
<1>1. /\ pc = "close" /\ pc' = "done" /\ mode = "stream" /\ charged' = credit
      /\ UNCHANGED <<mode, verdict, sent, taken, valid, credit, failed, out, status, client>>
  BY DEF ChargeAndClose, upstream, request, verdicts, reading, TypeInv
<1>2. /\ LastLine' = LastLine /\ DataLines' = DataLines
      /\ UsageLines' = UsageLines /\ PaidLines' = PaidLines
      /\ Got' = Got /\ DoneLast' /\ CreditSeen'
  BY <1>1, LinesStay DEF Reading
<1>3. ValidSeen'
  BY <1>1, <1>2 DEF AnswerInv, ValidSeen
<1>4. Streamed'
  BY <1>1, <1>2 DEF AnswerInv, Streamed, Got
<1>5. Charged'
  <2>1. Latest(PaidLines) = credit
    <3>1. PaidLines \in SUBSET Nat
      BY LinesTaken DEF AnswerInv
    <3>2. IsLast(PaidLines, credit)
      BY <1>1 DEF AnswerInv, CreditSeen
    <3> QED BY <3>1, <3>2, LatestIs
  <2>2. Answerable'
    BY <1>1 DEF Answerable
  <2> QED BY <1>1, <1>2, <2>1, <2>2 DEF Charged
<1>6. SyncRecorded' /\ GivenSoFar'
  BY <1>1 DEF SyncRecorded, GivenSoFar
<1> QED BY <1>1, <1>2, <1>3, <1>4, <1>5, <1>6 DEF AnswerInv, Before

LEMMA ReplyKeeps == TypeInv /\ AnswerInv /\ Reply => AnswerInv'
<1> SUFFICES ASSUME TypeInv, AnswerInv, Reply PROVE AnswerInv'
  OBVIOUS
<1>1. /\ pc = "reply" /\ pc' = "done" /\ mode = "sync"
      /\ UNCHANGED <<mode, verdict, sent, taken, valid, credit, failed, client>>
      /\ status' = IF ~failed /\ valid > 0 THEN 200 ELSE 502
      /\ charged' = IF ~failed /\ valid > 0 THEN credit ELSE 0
  BY DEF Reply, upstream, request, verdicts, reading, TypeInv
<1>2. /\ LastLine' = LastLine /\ DataLines' = DataLines
      /\ UsageLines' = UsageLines /\ PaidLines' = PaidLines
      /\ DoneLast' /\ CreditSeen'
  BY <1>1, LinesStay DEF Reading
<1>3. valid > 0 <=> DataLines # {}
  BY <1>1 DEF AnswerInv, ValidSeen
<1>4. ValidSeen' /\ Streamed'
  BY <1>1, <1>2, <1>3 DEF ValidSeen, Streamed
<1>5. Answerable' <=> (~failed /\ valid > 0)
  BY <1>1, <1>2, <1>3 DEF Answerable
<1>6. SyncRecorded'
  BY <1>1, <1>5 DEF SyncRecorded
<1>7. Charged'
  <2>1. LastUsage = credit
    <3>1. UsageLines \in SUBSET Nat
      BY LinesTaken DEF AnswerInv
    <3>2. PICK n \in Nat : IsLast(UsageLines, n) /\ credit = IF n \in PaidLines THEN n ELSE 0
      BY <1>1 DEF AnswerInv, CreditSeen
    <3>3. Latest(UsageLines) = n
      BY <3>1, <3>2, LatestIs
    <3> QED BY <3>2, <3>3 DEF LastUsage
  <2>2. LastUsage' = LastUsage
    BY <1>2 DEF LastUsage
  <2> QED BY <1>1, <1>5, <2>1, <2>2 DEF Charged
<1> QED BY <1>1, <1>2, <1>4, <1>6, <1>7 DEF AnswerInv, Before

(* Until the header has come there is nothing to give.                     *)
LEMMA BeforeKeeps ==
  /\ TypeInv /\ AnswerInv /\ pc \in Before /\ pc' \in Before \cup {"read"}
  /\ UNCHANGED <<mode, verdict, upstream, reading, given, client>>
  => AnswerInv'
<1> SUFFICES ASSUME TypeInv, AnswerInv, pc \in Before, pc' \in Before \cup {"read"},
                    UNCHANGED <<mode, verdict, upstream, reading, given, client>>
             PROVE  AnswerInv'
  OBVIOUS
<1>1. /\ taken = 0 /\ credit = 0 /\ valid = 0 /\ out = <<>>
      /\ UNCHANGED <<sent, taken, credit, valid, failed, out, status, charged>>
  BY DEF AnswerInv, upstream, reading, given
<1>2. LastLine = 0 /\ DataLines = {} /\ UsageLines = {} /\ PaidLines = {}
  <2>1. LastLine = 0
    BY <1>1 DEF LastLine, DoneRead
  <2>2. Lines = {}
    BY <2>1 DEF Lines
  <2> QED BY <2>1, <2>2 DEF DataLines, UsageLines, PaidLines
<1>3. /\ LastLine' = LastLine /\ DataLines' = DataLines
      /\ UsageLines' = UsageLines /\ PaidLines' = PaidLines /\ Got' = Got
  BY <1>1, LinesKept
<1>4. DoneLast' /\ CreditSeen' /\ ValidSeen'
  BY <1>1, <1>2, <1>3 DEF DoneLast, CreditSeen, IsLast, ValidSeen
<1>5. Got = <<>>
  BY <1>2 DEF Got, Passed
<1>6. GivenSoFar'
  BY <1>1, <1>3, <1>5 DEF GivenSoFar, Before
<1>7. pc' # "done" /\ pc' # "close" /\ pc # "done"
  BY DEF Before
<1>8. verdict' = Absent /\ client' \in {"reading", "stuck", "gone"}
  BY <1>7 DEF AnswerInv
<1> QED BY <1>1, <1>4, <1>6, <1>7, <1>8 DEF AnswerInv

-----------------------------------------------------------------------------
(* Classify: the first rule that applies decides.                          *)
LEMMA FirstOf ==
  ASSUME NEW S \in SUBSET (1..10), NEW n \in S, \A m \in S : n <= m PROVE Min(S) = n
<1>1. \A x \in S : (\A y \in S : x <= y) => x = n
  <2> TAKE x \in S
  <2>1. (\A y \in S : x <= y) => x >= n /\ x <= n
    OBVIOUS
  <2>2. x \in Int /\ n \in Int
    OBVIOUS
  <2> QED BY <2>1, <2>2
<1> QED BY <1>1 DEF Min

LEMMA MinOfRules ==
  ASSUME NEW S \in SUBSET (1..10), 10 \in S PROVE Min(S) \in S
<1>1. S \in SUBSET Nat /\ S # {}
  OBVIOUS
<1>2. PICK x \in S : \A y \in S : x <= y
  BY <1>1, LowestOf
<1> QED BY <1>2, FirstOf

LEMMA ClassifyIs ==
  ASSUME NEW code, NEW marks, NEW n \in 1..10,
         Rules(code, marks)[n][1], \A m \in 1..(n - 1) : ~Rules(code, marks)[m][1]
  PROVE  Classify(code, marks) = Rules(code, marks)[n][2]
<1> DEFINE rules == Rules(code, marks)
           S == {m \in DOMAIN rules : rules[m][1]}
<1>1. DOMAIN rules = 1..10
  BY DEF Rules
<1> HIDE DEF rules
<1>2. n \in S /\ S \subseteq 1..10 /\ \A m \in S : n <= m
  BY <1>1 DEF rules
<1>3. Min(S) = n
  BY <1>2, FirstOf
<1> QED BY <1>3 DEF Classify, rules


LEMMA ClassifyRange ==
  ASSUME NEW code, NEW marks PROVE Classify(code, marks) \in Causes \cup {"client", "none"}
<1> DEFINE rules == Rules(code, marks)
           S == {m \in DOMAIN rules : rules[m][1]}
<1>1. DOMAIN rules = 1..10 /\ rules[10][1]
  BY DEF Rules
<1>2. \A n \in 1..10 : rules[n][2] \in Causes \cup {"client", "none"}
  <2> TAKE n \in 1..10
  <2>1. n \in {1, 2, 3, 4, 5, 6, 7, 8, 9, 10}
    OBVIOUS
  <2> QED BY <2>1 DEF Rules, Causes
<1> HIDE DEF rules
<1>3. 10 \in S /\ S \in SUBSET (1..10)
  BY <1>1
<1>4. Min(S) \in 1..10
  BY <1>3, MinOfRules
<1> QED BY <1>2, <1>4 DEF Classify, rules

(* The rules one by one.                                                   *)
LEMMA RuleFacts ==
  ASSUME NEW code, NEW marks
  PROVE  LET r == Rules(code, marks)
         IN  /\ r[1][1] <=> code = 402
             /\ r[2][1] <=> "session" \in marks
             /\ r[3][1] <=> code = 429
             /\ r[4][1] <=> "hard" \in marks
             /\ r[5][1] <=> (code \in 400..499 /\ "request" \in marks)
             /\ r[6][1] <=> (code \in 400..499 /\ "channel" \in marks)
             /\ r[7][1] <=> code = 404
             /\ r[8][1] <=> code >= 500
<1>1. Rules(code, marks)[1][1] <=> code = 402
  BY DEF Rules
<1>2. Rules(code, marks)[2][1] <=> "session" \in marks
  BY DEF Rules
<1>3. Rules(code, marks)[3][1] <=> code = 429
  BY DEF Rules
<1>4. Rules(code, marks)[4][1] <=> "hard" \in marks
  BY DEF Rules
<1>5. Rules(code, marks)[5][1] <=> (code \in 400..499 /\ "request" \in marks)
  BY DEF Rules
<1>6. Rules(code, marks)[6][1] <=> (code \in 400..499 /\ "channel" \in marks)
  BY DEF Rules
<1>7. Rules(code, marks)[7][1] <=> code = 404
  BY DEF Rules
<1>8. Rules(code, marks)[8][1] <=> code >= 500
  BY DEF Rules
<1> QED BY <1>1, <1>2, <1>3, <1>4, <1>5, <1>6, <1>7, <1>8


LEMMA Classified ==
  ASSUME NEW code \in Int, NEW marks
  PROVE
    /\ code = 402
       => Classify(code, marks) = "hard_credit"
    /\ code # 402 /\ "session" \in marks
       => Classify(code, marks) = "session_dead"
    /\ code = 429 /\ "session" \notin marks
       => Classify(code, marks) = "soft_rate"
    /\ code \notin {402, 429} /\ "session" \notin marks /\ "hard" \in marks
       => Classify(code, marks) = "hard_credit"
    /\ /\ code \in 400..499 /\ code \notin {402, 429} /\ "session" \notin marks
       /\ "hard" \notin marks /\ "request" \in marks
       => Classify(code, marks) = "request"
    /\ code \in {400, 403} /\ marks = {"channel"}
       => Classify(code, marks) = "channel"
    /\ code = 404 /\ marks = {}
       => Classify(code, marks) = "not_found"
    /\ code \in {500, 503} /\ "session" \notin marks /\ "hard" \notin marks
       => Classify(code, marks) = "server"
<1> DEFINE r == Rules(code, marks)
<1>0. \A n \in 1..10 : r[n][1] /\ (\A m \in 1..(n - 1) : ~r[m][1])
                        => Classify(code, marks) = r[n][2]
  BY ClassifyIs
<1>1. ASSUME code = 402
     PROVE  Classify(code, marks) = "hard_credit"
  <2>1. r[1][2] = "hard_credit"
    BY DEF Rules
  <2>2. r[1][1]
    BY <1>1, RuleFacts
  <2> HIDE DEF r
  <2>3. \A m \in 1..(1 - 1) : ~r[m][1]
    OBVIOUS
  <2> QED BY <1>0, <2>1, <2>2, <2>3
<1>2. ASSUME code # 402 /\ "session" \in marks
     PROVE  Classify(code, marks) = "session_dead"
  <2>1. r[2][2] = "session_dead"
    BY DEF Rules
  <2>2. r[2][1] /\ ~r[1][1]
    BY <1>2, RuleFacts
  <2> HIDE DEF r
  <2>3. \A m \in 1..(2 - 1) : m = 1
    OBVIOUS
  <2> QED BY <1>0, <2>1, <2>2, <2>3
<1>3. ASSUME code = 429 /\ "session" \notin marks
     PROVE  Classify(code, marks) = "soft_rate"
  <2>1. r[3][2] = "soft_rate"
    BY DEF Rules
  <2>2. r[3][1] /\ ~r[1][1] /\ ~r[2][1]
    BY <1>3, RuleFacts
  <2> HIDE DEF r
  <2>3. \A m \in 1..(3 - 1) : m = 1 \/ m = 2
    OBVIOUS
  <2> QED BY <1>0, <2>1, <2>2, <2>3
<1>4. ASSUME code \notin {402, 429} /\ "session" \notin marks /\ "hard" \in marks
     PROVE  Classify(code, marks) = "hard_credit"
  <2>1. r[4][2] = "hard_credit"
    BY DEF Rules
  <2>2. r[4][1] /\ ~r[1][1] /\ ~r[2][1] /\ ~r[3][1]
    BY <1>4, RuleFacts
  <2> HIDE DEF r
  <2>3. \A m \in 1..(4 - 1) : m = 1 \/ m = 2 \/ m = 3
    OBVIOUS
  <2> QED BY <1>0, <2>1, <2>2, <2>3
<1>5. ASSUME /\ code \in 400..499 /\ code \notin {402, 429} /\ "session" \notin marks
            /\ "hard" \notin marks /\ "request" \in marks
     PROVE  Classify(code, marks) = "request"
  <2>1. r[5][2] = "request"
    BY DEF Rules
  <2>2. r[5][1] /\ ~r[1][1] /\ ~r[2][1] /\ ~r[3][1] /\ ~r[4][1]
    BY <1>5, RuleFacts
  <2> HIDE DEF r
  <2>3. \A m \in 1..(5 - 1) : m = 1 \/ m = 2 \/ m = 3 \/ m = 4
    OBVIOUS
  <2> QED BY <1>0, <2>1, <2>2, <2>3
<1>6. ASSUME code \in {400, 403} /\ marks = {"channel"}
     PROVE  Classify(code, marks) = "channel"
  <2>1. r[6][2] = "channel"
    BY DEF Rules
  <2>2. r[6][1] /\ ~r[1][1] /\ ~r[2][1] /\ ~r[3][1] /\ ~r[4][1] /\ ~r[5][1]
    BY <1>6, RuleFacts
  <2> HIDE DEF r
  <2>3. \A m \in 1..(6 - 1) : m = 1 \/ m = 2 \/ m = 3 \/ m = 4 \/ m = 5
    OBVIOUS
  <2> QED BY <1>0, <2>1, <2>2, <2>3
<1>7. ASSUME code = 404 /\ marks = {}
     PROVE  Classify(code, marks) = "not_found"
  <2>1. r[7][2] = "not_found"
    BY DEF Rules
  <2>2. r[7][1] /\ ~r[1][1] /\ ~r[2][1] /\ ~r[3][1] /\ ~r[4][1] /\ ~r[5][1] /\ ~r[6][1]
    BY <1>7, RuleFacts
  <2> HIDE DEF r
  <2>3. \A m \in 1..(7 - 1) : m = 1 \/ m = 2 \/ m = 3 \/ m = 4 \/ m = 5 \/ m = 6
    OBVIOUS
  <2> QED BY <1>0, <2>1, <2>2, <2>3
<1>8. ASSUME code \in {500, 503} /\ "session" \notin marks /\ "hard" \notin marks
     PROVE  Classify(code, marks) = "server"
  <2>1. r[8][2] = "server"
    BY DEF Rules
  <2>2. r[8][1] /\ ~r[1][1] /\ ~r[2][1] /\ ~r[3][1] /\ ~r[4][1] /\ ~r[5][1] /\ ~r[6][1] /\ ~r[7][1]
    BY <1>8, RuleFacts
  <2> HIDE DEF r
  <2>3. \A m \in 1..(8 - 1) : m = 1 \/ m = 2 \/ m = 3 \/ m = 4 \/ m = 5 \/ m = 6 \/ m = 7
    OBVIOUS
  <2> QED BY <1>0, <2>1, <2>2, <2>3
<1> QED BY <1>1, <1>2, <1>3, <1>4, <1>5, <1>6, <1>7, <1>8


(* What the upstream answers for a cause is classified as that cause.      *)
LEMMA ClassifyBlames ==
  ASSUME NEW c \in Causes, NEW a \in Answers(c) PROVE Classify(a[1], a[2]) = c
<1> USE Classified
<1>1. CASE c = "hard_credit"
  <2>1. Answers(c) = ({402} \X SUBSET {"hard", "channel"}) \cup {<<403, {"hard"}>>}
    BY <1>1 DEF Answers
  <2>2. CASE a \in {402} \X SUBSET {"hard", "channel"}
    BY <1>1, <2>2
  <2>3. CASE a = <<403, {"hard"}>>
    BY <1>1, <2>3
  <2> QED BY <2>1, <2>2, <2>3
<1>2. CASE c = "session_dead"
  <2>1. Answers(c) = {401, 403, 429} \X {{"session"}, {"session", "hard"}}
    BY <1>2 DEF Answers
  <2>2. a[1] \in {401, 403, 429} /\ "session" \in a[2]
    BY <2>1
  <2> QED BY <1>2, <2>2
<1>3. CASE c = "soft_rate"
  <2>1. Answers(c) = {429} \X SUBSET {"hard", "channel"}
    BY <1>3 DEF Answers
  <2>2. a[1] = 429 /\ "session" \notin a[2]
    BY <2>1
  <2> QED BY <1>3, <2>2
<1>4. CASE c = "request"
  <2>1. Answers(c) = {400, 404} \X {{"request"}, {"request", "channel"}}
    BY <1>4 DEF Answers
  <2>2. /\ a[1] \in {400, 404} /\ "request" \in a[2]
        /\ "session" \notin a[2] /\ "hard" \notin a[2]
    BY <2>1
  <2> QED BY <1>4, <2>2
<1>5. CASE c = "channel"
  <2>1. Answers(c) = {400, 403} \X {{"channel"}}
    BY <1>5 DEF Answers
  <2> QED BY <1>5, <2>1
<1>6. CASE c = "not_found"
  <2>1. Answers(c) = {<<404, {}>>}
    BY <1>6 DEF Answers
  <2> QED BY <1>6, <2>1
<1>7. CASE c = "server"
  <2>1. Answers(c) = {500, 503} \X SUBSET {"request", "channel"}
    BY <1>7 DEF Answers
  <2>2. a[1] \in {500, 503} /\ "session" \notin a[2] /\ "hard" \notin a[2]
    BY <2>1
  <2> QED BY <1>7, <2>2
<1> QED BY <1>1, <1>2, <1>3, <1>4, <1>5, <1>6, <1>7 DEF Causes


-----------------------------------------------------------------------------
LEMMA AnswerInit == StreamInit => AnswerInv
<1> SUFFICES ASSUME StreamInit PROVE AnswerInv
  OBVIOUS
<1>1. /\ pc = "prepare" /\ taken = 0 /\ credit = 0 /\ valid = 0 /\ out = <<>>
      /\ verdict = Absent /\ client = "reading"
  BY DEF StreamInit
<1>2. DataLines = {} /\ UsageLines = {} /\ PaidLines = {}
  BY <1>1 DEF DataLines, UsageLines, PaidLines, Lines, LastLine, DoneRead
<1>3. CreditSeen
  BY <1>1, <1>2 DEF CreditSeen, IsLast
<1> QED BY <1>1, <1>2, <1>3 DEF AnswerInv, DoneLast, ValidSeen, GivenSoFar, Before

(* A call that failed before there was a good answer has a verdict.        *)
LEMMA FailureKeeps ==
  TypeInv /\ AnswerInv /\ (TransportFails \/ ReadErrorBody) => AnswerInv'
<1> SUFFICES ASSUME TypeInv, AnswerInv, TransportFails \/ ReadErrorBody PROVE AnswerInv'
  OBVIOUS
<1>1. /\ pc \in Before /\ pc' = "done"
      /\ UNCHANGED <<mode, sent, taken, valid, credit, out, client>>
  BY DEF TransportFails, ReadErrorBody, Before, request, upstream, reading, given
<1>2. verdict' # Absent
  <2>1. CASE TransportFails
    BY <2>1, StreamAssumption DEF TransportFails
  <2>2. CASE ReadErrorBody
    <3>1. PICK marks : verdict' = Classify(answer[1], marks)
      BY <2>2 DEF ReadErrorBody
    <3> QED BY <3>1, ClassifyRange, StreamAssumption
  <2> QED BY <2>1, <2>2
<1>3. /\ DataLines' = DataLines /\ DoneLast' /\ CreditSeen'
  BY <1>1, LinesStay DEF Before, Reading
<1>4. ValidSeen'
  BY <1>1, <1>3 DEF AnswerInv, ValidSeen, Before
<1>5. GivenSoFar'
  BY <1>1 DEF GivenSoFar
<1> QED BY <1>1, <1>2, <1>3, <1>4, <1>5 DEF AnswerInv, Before

LEMMA AnswerStep == TypeInv /\ AnswerInv /\ [StreamNext]_streamVars => AnswerInv'
<1> SUFFICES ASSUME TypeInv, AnswerInv, [StreamNext]_streamVars PROVE AnswerInv'
  OBVIOUS
<1>1. CASE Prepare \/ Send \/ Answered \/ AnsweredError
  <2>1. /\ pc \in Before /\ pc' \in Before \cup {"read"}
        /\ UNCHANGED <<mode, verdict, upstream, reading, given, client>>
    BY <1>1 DEF Prepare, Send, Answered, AnsweredError, Before, request, verdicts
  <2> QED BY <2>1, BeforeKeeps
<1>2. CASE TransportFails \/ ReadErrorBody
  BY <1>2, FailureKeeps
<1>3. CASE SendFrame
  <2>1. PICK f \in Frames : sent' = Append(sent, f)
    BY <1>3 DEF SendFrame
  <2>2. \A j \in 1..taken : sent'[j] = sent[j]
    BY <2>1 DEF TypeInv
  <2>3. /\ UNCHANGED <<pc, mode, taken, valid, credit, failed, out, status, charged, verdict>>
        /\ client' = client
    BY <1>3 DEF SendFrame, reading, given, request, verdicts
  <2> QED BY <2>2, <2>3, AnswerKept DEF AnswerInv
<1>4. CASE \/ Fill \/ FoundIdle \/ Cut \/ SendBlank \/ EndAnswer \/ ClientStalls
           \/ ClientGoesOn \/ ClientLeaves \/ Tick \/ UNCHANGED streamVars
  <2>1. /\ UNCHANGED <<pc, mode, taken, valid, credit, failed, out, status, charged, verdict>>
        /\ sent' = sent
    BY <1>4 DEF Fill, FoundIdle, Cut, SendBlank, EndAnswer, ClientStalls, ClientGoesOn, ClientLeaves, Tick,
                streamVars, upstream, reading, given, request, verdicts
  <2>2. client' = client \/ client' = "stuck" \/ client' = "reading" \/ client' = "gone"
    BY <1>4 DEF Fill, FoundIdle, Cut, SendBlank, EndAnswer, ClientStalls, ClientGoesOn, ClientLeaves, Tick,
                streamVars
  <2>3. client = "gone" => client' = "gone"
    BY <1>4 DEF Fill, FoundIdle, Cut, SendBlank, EndAnswer, ClientStalls, ClientGoesOn, ClientLeaves, Tick,
                streamVars
  <2> QED BY <2>1, <2>2, <2>3, AnswerKept DEF AnswerInv
<1>5. CASE ReadFails \/ EndOfStream \/ TakeDone \/ TakeLine
  BY <1>5, ReadEndsKeeps, TakeDoneKeeps, TakeLineKeeps
<1>6. CASE \/ WriteLine \/ WriteFails \/ WriteLost
           \/ Apologise \/ WriteDone \/ ChargeAndClose \/ Reply
  BY <1>6, WriteKeeps, FinishKeeps, ChargeKeeps, ReplyKeeps
<1> QED BY <1>1, <1>2, <1>3, <1>4, <1>5, <1>6 DEF StreamNext, HandlerNext, WatchdogNext


-----------------------------------------------------------------------------
(* What Aggregate has put together lists the pieces among the lines taken. *)
MergedInv ==
  mode = "sync" =>
    /\ merged.text \in Seq(Nat) /\ Lists(merged.text, TextLines)
    /\ \A i \in {0, 1} : /\ merged.calls[i] \in Seq(Nat)
                         /\ Lists(merged.calls[i], CallLines(i))

AggregatedInv == pc = "done" /\ verdict = Absent => Aggregated

LEMMA ListsMore ==
  ASSUME NEW s \in Seq(Nat), NEW S \in SUBSET Nat, Lists(s, S),
         NEW n \in Nat, \A j \in S : j < n
  PROVE  Append(s, n) \in Seq(Nat) /\ Lists(Append(s, n), S \cup {n})
<1> DEFINE t == Append(s, n)
<1>1. /\ t \in Seq(Nat) /\ Len(t) = Len(s) + 1 /\ Len(s) \in Nat
      /\ DOMAIN s = 1..Len(s) /\ DOMAIN t = 1..(Len(s) + 1)
      /\ \A j \in 1..Len(s) : t[j] = s[j]
      /\ t[Len(s) + 1] = n
  OBVIOUS
<1> HIDE DEF t
<1>2. \A j \in DOMAIN s : s[j] \in S
  BY DEF Lists
<1>3. {t[j] : j \in DOMAIN t} = S \cup {n}
  <2>1. 1..(Len(s) + 1) = DOMAIN s \cup {Len(s) + 1}
    BY <1>1
  <2>2. {t[j] : j \in DOMAIN t} = {s[j] : j \in DOMAIN s} \cup {n}
    BY <1>1, <2>1
  <2> QED BY <2>2 DEF Lists
<1>4. ASSUME NEW i \in DOMAIN t, NEW j \in DOMAIN t, i < j PROVE t[i] < t[j]
  <2>1. i \in 1..Len(s) /\ t[i] = s[i]
    BY <1>1, <1>4
  <2>2. CASE j = Len(s) + 1
    BY <1>1, <1>2, <2>1, <2>2
  <2>3. CASE j # Len(s) + 1
    <3>1. j \in 1..Len(s) /\ t[j] = s[j]
      BY <1>1, <2>3
    <3> QED BY <1>1, <1>4, <2>1, <3>1 DEF Lists
  <2> QED BY <2>2, <2>3
<1> QED BY <1>1, <1>3, <1>4 DEF Lists, t

(* Every step takes a line, takes a [DONE] or leaves the lines alone.      *)
LEMMA StepsOfLines ==
  TypeInv /\ [StreamNext]_streamVars =>
    \/ TakeLine
    \/ TakeDone /\ UNCHANGED <<mode, merged>>
    \/ /\ UNCHANGED <<mode, merged, taken>>
       /\ \A j \in 1..taken : sent'[j] = sent[j]
<1> SUFFICES ASSUME TypeInv, [StreamNext]_streamVars, ~TakeLine
             PROVE  \/ TakeDone /\ UNCHANGED <<mode, merged>>
                    \/ /\ UNCHANGED <<mode, merged, taken>>
                       /\ \A j \in 1..taken : sent'[j] = sent[j]
  OBVIOUS
<1>1. CASE SendFrame
  <2>1. PICK f \in Frames : sent' = Append(sent, f)
    BY <1>1 DEF SendFrame
  <2>2. \A j \in 1..taken : sent'[j] = sent[j]
    BY <2>1 DEF TypeInv
  <2> QED BY <1>1, <2>2 DEF SendFrame, reading, request
<1>2. CASE TakeDone
  BY <1>2 DEF TakeDone, request
<1>3. CASE Prepare \/ Send \/ Answered \/ AnsweredError \/ TransportFails \/ ReadErrorBody
  BY <1>3 DEF Prepare, Send, Answered, AnsweredError, TransportFails, ReadErrorBody,
              upstream, reading, request
<1>4. CASE \/ Fill \/ FoundIdle \/ Cut \/ SendBlank \/ EndAnswer \/ ClientStalls
           \/ ClientGoesOn \/ ClientLeaves \/ Tick \/ UNCHANGED streamVars
  BY <1>4 DEF Fill, FoundIdle, Cut, SendBlank, EndAnswer, ClientStalls, ClientGoesOn, ClientLeaves, Tick,
              streamVars, upstream, reading, request
<1>5. CASE ReadFails \/ EndOfStream \/ WriteLine \/ WriteFails \/ WriteLost
  BY <1>5 DEF ReadFails, EndOfStream, WriteLine, WriteFails, WriteLost, upstream, request
<1>6. CASE Apologise \/ WriteDone \/ ChargeAndClose \/ Reply
  BY <1>6 DEF Apologise, WriteDone, ChargeAndClose, Reply, upstream, reading, request
<1> QED BY <1>1, <1>2, <1>3, <1>4, <1>5, <1>6 DEF StreamNext, HandlerNext, WatchdogNext

LEMMA PiecesKept ==
  ASSUME DataLines' = DataLines, \A j \in DataLines : sent'[j] = sent[j]
  PROVE  TextLines' = TextLines /\ \A i \in {0, 1} : CallLines(i)' = CallLines(i)
BY DEF TextLines, CallLines

LEMMA MergedStep ==
  TypeInv /\ AnswerInv /\ MergedInv /\ [StreamNext]_streamVars => MergedInv'
<1> SUFFICES ASSUME TypeInv, AnswerInv, MergedInv, [StreamNext]_streamVars, mode' = "sync"
             PROVE  /\ merged'.text \in Seq(Nat) /\ Lists(merged'.text, TextLines')
                    /\ \A i \in {0, 1} : /\ merged'.calls[i] \in Seq(Nat)
                                         /\ Lists(merged'.calls[i], CallLines(i)')
  BY DEF MergedInv
<1>0. DataLines \subseteq 1..taken
  BY LinesTaken DEF AnswerInv
<1>1. ASSUME DataLines' = DataLines, \A j \in 1..taken : sent'[j] = sent[j],
             UNCHANGED <<mode, merged>>
      PROVE  /\ merged'.text \in Seq(Nat) /\ Lists(merged'.text, TextLines')
             /\ \A i \in {0, 1} : /\ merged'.calls[i] \in Seq(Nat)
                                  /\ Lists(merged'.calls[i], CallLines(i)')
  <2>1. TextLines' = TextLines /\ \A i \in {0, 1} : CallLines(i)' = CallLines(i)
    BY <1>0, <1>1, PiecesKept
  <2> QED BY <1>1, <2>1 DEF MergedInv
<1>2. CASE TakeDone /\ UNCHANGED <<mode, merged>>
  <2>1. /\ pc = "read" /\ sent' = sent /\ taken' = taken + 1 /\ taken < filled
        /\ sent[taken'] = Done
    BY <1>2 DEF TakeDone, upstream
  <2>2. DataLines' = DataLines
    BY <2>1, TakenMore DEF AnswerInv, Reading
  <2> QED BY <1>1, <1>2, <2>1, <2>2
<1>3. CASE UNCHANGED <<mode, merged, taken>> /\ \A j \in 1..taken : sent'[j] = sent[j]
  BY <1>1, <1>3, LinesKept
<1>4. CASE TakeLine
  <2>1. /\ pc = "read" /\ sent' = sent /\ taken' = taken + 1 /\ taken < filled
        /\ sent[taken'] # Done /\ mode = "sync"
    BY <1>4 DEF TakeLine, upstream, request
  <2>2. merged' = IF sent[taken'].kind = "data" THEN Merge(merged, sent[taken'], taken')
                  ELSE merged
    BY <1>4, <2>1 DEF TakeLine
  <2>3. DataLines' = DataLines \cup {j \in {taken'} : sent[j].kind = "data"}
    BY <2>1, TakenMore DEF AnswerInv, Reading
  <2>4. CASE sent[taken'].kind # "data"
    <3>1. DataLines' = DataLines /\ merged' = merged
      BY <2>2, <2>3, <2>4
    <3> QED BY <1>1, <2>1, <3>1
  <2>5. CASE sent[taken'].kind = "data"
    <3> DEFINE f == sent[taken']
               n == taken'
    <3>1. /\ merged'.text = IF f.text THEN Append(merged.text, n) ELSE merged.text
          /\ \A i \in {0, 1} : merged'.calls[i] =
               IF f.index = i THEN Append(merged.calls[i], n) ELSE merged.calls[i]
      BY <2>2, <2>5 DEF Merge
    <3>2. /\ TextLines' = IF f.text THEN TextLines \cup {n} ELSE TextLines
          /\ \A i \in {0, 1} : CallLines(i)' =
               IF f.index = i THEN CallLines(i) \cup {n} ELSE CallLines(i)
      BY <2>1, <2>3, <2>5 DEF TextLines, CallLines
    <3>3. n \in Nat /\ \A j \in DataLines : j \in Nat /\ j < n
      BY <1>0, <2>1 DEF TypeInv
    <3>4. /\ TextLines \subseteq DataLines
          /\ \A i \in {0, 1} : CallLines(i) \subseteq DataLines
      BY DEF TextLines, CallLines
    <3>5. /\ merged.text \in Seq(Nat) /\ Lists(merged.text, TextLines)
          /\ \A i \in {0, 1} : /\ merged.calls[i] \in Seq(Nat)
                               /\ Lists(merged.calls[i], CallLines(i))
      BY <2>1 DEF MergedInv
    <3> HIDE DEF f, n
    <3>6. merged'.text \in Seq(Nat) /\ Lists(merged'.text, TextLines')
      <4>1. CASE f.text
        <5>1. /\ Append(merged.text, n) \in Seq(Nat)
              /\ Lists(Append(merged.text, n), TextLines \cup {n})
          BY <3>3, <3>4, <3>5, ListsMore
        <5> QED BY <3>1, <3>2, <4>1, <5>1
      <4>2. CASE ~f.text
        BY <3>1, <3>2, <3>5, <4>2
      <4> QED BY <4>1, <4>2
    <3>7. ASSUME NEW i \in {0, 1}
          PROVE  merged'.calls[i] \in Seq(Nat) /\ Lists(merged'.calls[i], CallLines(i)')
      <4>1. CASE f.index = i
        <5>1. /\ Append(merged.calls[i], n) \in Seq(Nat)
              /\ Lists(Append(merged.calls[i], n), CallLines(i) \cup {n})
          BY <3>3, <3>4, <3>5, ListsMore
        <5> QED BY <3>1, <3>2, <4>1, <5>1
      <4>2. CASE f.index # i
        BY <3>1, <3>2, <3>5, <4>2
      <4> QED BY <4>1, <4>2
    <3> QED BY <3>6, <3>7
  <2> QED BY <2>4, <2>5
<1> QED BY <1>2, <1>3, <1>4, StepsOfLines


LEMMA ReplyAggregates ==
  TypeInv /\ AnswerInv /\ MergedInv /\ Reply => Aggregated'
<1> SUFFICES ASSUME TypeInv, AnswerInv, MergedInv, Reply, client' # "gone" PROVE Aggregated'
  BY DEF Aggregated
<1> DEFINE good == ~failed /\ valid > 0
           c0 == merged.calls[0]
           c1 == merged.calls[1]
           a == out'[1]
<1>1. /\ mode = "sync" /\ pc = "reply" /\ pc' = "done" /\ client # "gone"
      /\ UNCHANGED <<mode, sent, taken, failed, credit>>
      /\ out' = <<IF good THEN Response(merged) ELSE ErrorFrame>>
  BY DEF Reply, TypeInv, upstream, reading, request
<1>2. LastLine' = LastLine /\ DataLines' = DataLines
  BY <1>1, LinesStay DEF Reading
<1>3. Answerable' <=> good
  BY <1>1, <1>2 DEF AnswerInv, ValidSeen, Answerable
<1>4. TextLines' = TextLines /\ \A i \in {0, 1} : CallLines(i)' = CallLines(i)
  BY <1>1, <1>2, PiecesKept
<1>5. /\ Lists(merged.text, TextLines)
      /\ c0 \in Seq(Nat) /\ Lists(c0, CallLines(0))
      /\ c1 \in Seq(Nat) /\ Lists(c1, CallLines(1))
  BY <1>1 DEF MergedInv
<1>6. Called' = Called
  BY <1>4 DEF Called
<1>7. Len(out') = 1 /\ out'[1] = IF good THEN Response(merged) ELSE ErrorFrame
  BY <1>1
<1>8. ASSUME good
      PROVE  /\ Lists(a.text, TextLines)
             /\ DOMAIN a.calls = {Place(i) : i \in Called}
             /\ \A i \in Called : Lists(a.calls[Place(i)], CallLines(i))
  <2>1. a.text = merged.text /\ a.calls = Present(c0) \o Present(c1)
    BY <1>7, <1>8 DEF Response
  <2>2. /\ c0 = <<>> <=> CallLines(0) = {}
        /\ c1 = <<>> <=> CallLines(1) = {}
    <3>1. ASSUME NEW s \in Seq(Nat), NEW S, Lists(s, S) PROVE s = <<>> <=> S = {}
      BY <3>1 DEF Lists
    <3> QED BY <1>5, <3>1
  <2>3. Called = {i \in {0, 1} : (i = 0 /\ c0 # <<>>) \/ (i = 1 /\ c1 # <<>>)}
    BY <2>2 DEF Called
  <2> HIDE DEF a, c0, c1
  <2>4. CASE c0 = <<>> /\ c1 = <<>>
    <3>1. a.calls = <<>> /\ Called = {}
      BY <2>1, <2>3, <2>4 DEF Present
    <3> QED BY <1>5, <2>1, <3>1
  <2>5. CASE c0 # <<>> /\ c1 = <<>>
    <3>1. a.calls = <<c0>> /\ Called = {0} /\ Place(0) = 1
      BY <2>1, <2>3, <2>5 DEF Present, Place
    <3> QED BY <1>5, <2>1, <3>1
  <2>6. CASE c0 = <<>> /\ c1 # <<>>
    <3>1. a.calls = <<c1>> /\ Called = {1} /\ Place(1) = 1
      BY <2>1, <2>3, <2>6 DEF Present, Place
    <3> QED BY <1>5, <2>1, <3>1
  <2>7. CASE c0 # <<>> /\ c1 # <<>>
    <3>1. Called = {0, 1} /\ Place(0) = 1 /\ Place(1) = 2
      BY <2>3, <2>7 DEF Place
    <3>2. a.calls = <<c0>> \o <<c1>>
      BY <2>1, <2>7 DEF Present
    <3>3. /\ DOMAIN (<<c0>> \o <<c1>>) = 1..2
          /\ (<<c0>> \o <<c1>>)[1] = c0 /\ (<<c0>> \o <<c1>>)[2] = c1
      <4>1. <<c0>> \in Seq({c0, c1}) /\ <<c1>> \in Seq({c0, c1})
        OBVIOUS
      <4> QED BY <4>1, ConcatProperties
    <3>4. 1..2 = {Place(i) : i \in Called}
      BY <3>1
    <3> QED BY <1>5, <2>1, <3>1, <3>2, <3>3, <3>4
  <2> QED BY <2>4, <2>5, <2>6, <2>7
<1> HIDE DEF good
<1>9. \A i \in {0, 1} : Place(i)' = Place(i)
  BY <1>6 DEF Place
<1>10. Called \subseteq {0, 1}
  BY DEF Called
<1>11. Answerable' => /\ Lists(out'[1].text, TextLines')
                      /\ DOMAIN out'[1].calls = {Place(i)' : i \in Called'}
                      /\ \A i \in Called' : Lists(out'[1].calls[Place(i)'], CallLines(i)')
  <2> SUFFICES ASSUME good
               PROVE  /\ Lists(out'[1].text, TextLines)
                      /\ DOMAIN out'[1].calls = {Place(i)' : i \in Called}
                      /\ \A i \in Called : Lists(out'[1].calls[Place(i)'], CallLines(i)')
    BY <1>3, <1>4, <1>6
  <2> QED BY <1>4, <1>8, <1>9, <1>10
<1> QED BY <1>3, <1>7, <1>11 DEF Aggregated

LEMMA AggregatedStep ==
  TypeInv /\ AnswerInv /\ MergedInv /\ AggregatedInv /\ [StreamNext]_streamVars
    => AggregatedInv'
<1> SUFFICES ASSUME TypeInv, AnswerInv, MergedInv, AggregatedInv, [StreamNext]_streamVars,
                    pc' = "done", verdict' = Absent
             PROVE  Aggregated'
  BY DEF AggregatedInv
<1>1. CASE Reply
  BY <1>1, ReplyAggregates
<1>2. CASE ChargeAndClose
  BY <1>2 DEF ChargeAndClose, TypeInv, Aggregated, request
<1>3. CASE TransportFails \/ ReadErrorBody
  <2>1. CASE TransportFails
    BY <2>1, StreamAssumption DEF TransportFails
  <2>2. CASE ReadErrorBody
    <3>1. PICK marks : verdict' = Classify(answer[1], marks)
      BY <2>2 DEF ReadErrorBody
    <3> QED BY <3>1, ClassifyRange, StreamAssumption
  <2> QED BY <1>3, <2>1, <2>2
<1>4. CASE pc = "done"
  <2>1. /\ UNCHANGED <<pc, mode, sent, taken, verdict, failed, out>>
        /\ client' = "gone" \/ (client # "gone" /\ client' # "gone")
    BY <1>4 DEF StreamNext, HandlerNext, WatchdogNext, Prepare, Send, TransportFails,
           ReadErrorBody, Fill, ReadFails, EndOfStream, TakeDone, TakeLine, WriteLine, WriteFails,
           WriteLost, Apologise, WriteDone, ChargeAndClose, Reply, FoundIdle, Cut, Answered,
           AnsweredError, SendFrame, SendBlank, EndAnswer, ClientStalls, ClientGoesOn, ClientLeaves, Tick,
           Waiting, Writing, streamVars, request, verdicts, upstream, reading, given
  <2>2. DataLines' = DataLines
    BY <2>1, LinesKept
  <2>3. TextLines' = TextLines /\ \A i \in {0, 1} : CallLines(i)' = CallLines(i)
    BY <2>1, <2>2, PiecesKept
  <2>4. Called' = Called /\ (\A i \in {0, 1} : Place(i)' = Place(i)) /\ Called \subseteq {0, 1}
    BY <2>3 DEF Called, Place
  <2>5. Answerable' <=> Answerable
    BY <2>1, <2>2 DEF Answerable
  <2>6. Aggregated
    BY <1>4, <2>1 DEF AggregatedInv
  <2> QED BY <2>1, <2>3, <2>4, <2>5, <2>6 DEF Aggregated
<1>5. pc = "done" \/ Reply \/ ChargeAndClose \/ TransportFails \/ ReadErrorBody
  BY DEF StreamNext, HandlerNext, WatchdogNext, Prepare, Send,
         Fill, ReadFails, EndOfStream, ReadingEnds, TakeDone, TakeLine, WriteLine, WriteFails,
         WriteLost, Apologise, WriteDone, FoundIdle, Cut, Answered,
         AnsweredError, SendFrame, SendBlank, EndAnswer, ClientStalls, ClientGoesOn, ClientLeaves, Tick,
         streamVars
<1> QED BY <1>1, <1>2, <1>3, <1>4, <1>5


-----------------------------------------------------------------------------
(* An error answer is one the upstream gives for its cause, and the blame  *)
(* for one that came whole is on that cause.                               *)
BlameInv ==
  /\ pc \notin {"errbody", "done"} => cause = Absent
  /\ pc = "errbody" => cause \in Causes /\ answer \in Answers(cause)
  /\ pc = "done" => ErrorBlamed

LEMMA BlameStep == BlameInv /\ [StreamNext]_streamVars => BlameInv'
<1> SUFFICES ASSUME BlameInv, [StreamNext]_streamVars PROVE BlameInv'
  OBVIOUS
<1>1. CASE ReadErrorBody
  <2>1. /\ pc = "errbody" /\ pc' = "done" /\ UNCHANGED <<cause, ended>>
        /\ \E marks \in {answer[2]} \cup (IF ended = "eof" THEN {} ELSE {{}}) :
             verdict' = Classify(answer[1], marks)
    BY <1>1 DEF ReadErrorBody, upstream
  <2>2. ended = "eof" => verdict' = Classify(answer[1], answer[2])
    BY <2>1
  <2>3. Classify(answer[1], answer[2]) = cause
    BY <2>1, ClassifyBlames DEF BlameInv
  <2> QED BY <2>1, <2>2, <2>3 DEF BlameInv, ErrorBlamed
<1>2. CASE AnsweredError
  BY <1>2 DEF AnsweredError, BlameInv
<1>3. CASE TransportFails \/ ChargeAndClose \/ Reply
  <2>1. cause = Absent /\ cause' = cause /\ pc' = "done"
    BY <1>3 DEF TransportFails, ChargeAndClose, Reply, BlameInv, verdicts
  <2> QED BY <2>1 DEF BlameInv, ErrorBlamed
<1>4. CASE EndAnswer
  BY <1>4 DEF EndAnswer, BlameInv, verdicts
<1>5. CASE Prepare \/ Send \/ Answered \/ Fill \/ ReadFails \/ EndOfStream \/ TakeDone \/ TakeLine
  <2>1. pc \notin {"errbody", "done"} /\ pc' \notin {"errbody", "done"} /\ cause' = cause
    BY <1>5 DEF Prepare, Send, Answered, Fill, ReadFails, EndOfStream, TakeDone, TakeLine,
                ReadingEnds, verdicts
  <2> QED BY <2>1 DEF BlameInv
<1>6. CASE WriteLine \/ WriteFails \/ WriteLost \/ Apologise \/ WriteDone
  <2>1. pc \notin {"errbody", "done"} /\ pc' \notin {"errbody", "done"} /\ cause' = cause
    BY <1>6 DEF WriteLine, WriteFails, WriteLost, Apologise, WriteDone, verdicts
  <2> QED BY <2>1 DEF BlameInv
<1>7. CASE \/ FoundIdle \/ Cut \/ SendFrame \/ SendBlank \/ ClientStalls \/ ClientGoesOn \/ ClientLeaves
           \/ Tick \/ UNCHANGED streamVars
  <2>1. UNCHANGED <<pc, cause, answer, verdict, ended>>
    BY <1>7 DEF FoundIdle, Cut, SendFrame, SendBlank, ClientStalls, ClientGoesOn, ClientLeaves, Tick,
                streamVars, verdicts, upstream
  <2> QED BY <2>1 DEF BlameInv, ErrorBlamed
<1> QED BY <1>1, <1>2, <1>3, <1>4, <1>5, <1>6, <1>7 DEF StreamNext, HandlerNext, WatchdogNext

(* However the stream went, whatever was sent, in whatever pieces it was   *)
(* read and whenever it broke off, the client, the records and the account *)
(* agree about it in the end, and an error answer that came whole is       *)
(* blamed on its cause.                                                    *)
THEOREM CallWellEndedCorrect == StreamSpec => []CallWellEnded
<1>1. StreamInit => MergedInv /\ AggregatedInv /\ BlameInv
  <2> SUFFICES ASSUME StreamInit PROVE MergedInv /\ AggregatedInv /\ BlameInv
    OBVIOUS
  <2>1. /\ pc = "prepare" /\ taken = 0 /\ cause = Absent
        /\ merged.text = <<>> /\ merged.calls[0] = <<>> /\ merged.calls[1] = <<>>
    BY DEF StreamInit, Nothing
  <2>2. TextLines = {} /\ \A i \in {0, 1} : CallLines(i) = {}
    BY <2>1 DEF TextLines, CallLines, DataLines, Lines, LastLine, DoneRead
  <2>3. MergedInv
    <3>1. <<>> \in Seq(Nat) /\ Lists(<<>>, {})
      BY DEF Lists
    <3>2. \A i \in {0, 1} : merged.calls[i] = <<>>
      BY <2>1
    <3> QED BY <2>1, <2>2, <3>1, <3>2 DEF MergedInv
  <2> QED BY <2>1, <2>3 DEF AggregatedInv, BlameInv
<1>2. AnswerInv /\ TypeInv /\ AggregatedInv /\ BlameInv => CallWellEnded
  <2> SUFFICES ASSUME AnswerInv, TypeInv, AggregatedInv, BlameInv, pc = "done"
               PROVE  IF verdict # Absent THEN ErrorBlamed
                      ELSE ReadToDone /\ Charged /\ Streamed /\ Aggregated /\ SyncRecorded
    BY DEF CallWellEnded
  <2>1. ErrorBlamed
    BY DEF BlameInv
  <2>2. ReadToDone
    <3> SUFFICES ASSUME NEW j \in Lines, sent[j] = Done PROVE FALSE
      BY DEF ReadToDone
    <3>1. j = taken
      BY DEF AnswerInv, DoneLast, Lines, LastLine, TypeInv
    <3>2. j > 0 /\ j <= LastLine
      BY <3>1 DEF Lines, TypeInv
    <3>3. LastLine = taken - 1
      BY <3>1, <3>2 DEF LastLine, DoneRead
    <3> QED BY <3>1, <3>2, <3>3 DEF TypeInv
  <2> QED BY <2>1, <2>2 DEF AnswerInv, AggregatedInv
<1> QED BY <1>1, <1>2, AnswerInit, AnswerStep, MergedStep, AggregatedStep, BlameStep,
           TypeInvariant, PTL DEF StreamSpec

-----------------------------------------------------------------------------
(* InOrder lists a finite set by distinct places: the member at n is the   *)
(* one with n members up to its place.                                     *)
LEMMA CountUpTo ==
  ASSUME NEW S, IsFiniteSet(S), NEW place \in [S -> Nat], NEW a \in S, NEW b \in S,
         place[a] < place[b]
  PROVE  Cardinality({k \in S : place[k] <= place[a]}) < Cardinality({k \in S : place[k] <= place[b]})
<1> DEFINE A == {k \in S : place[k] <= place[a]}
           B == {k \in S : place[k] <= place[b]}
<1>1. IsFiniteSet(B)
  <2>1. B \in SUBSET S
    OBVIOUS
  <2> QED BY <2>1, FS_Subset
<1>2. A \in SUBSET B /\ A # B
  <2>1. \A k \in S : place[k] <= place[a] => place[k] <= place[b]
    BY \A k \in S : place[k] \in Nat
  <2>2. b \in B /\ b \notin A
    BY \A k \in S : place[k] \in Nat
  <2> QED BY <2>1, <2>2
<1>3. Cardinality(A) <= Cardinality(B) /\ Cardinality(A) # Cardinality(B)
  BY <1>1, <1>2, FS_Subset
<1>4. Cardinality(A) \in Nat /\ Cardinality(B) \in Nat
  BY <1>1, <1>2, FS_Subset, FS_CardinalityType
<1> QED BY <1>3, <1>4

LEMMA InOrderIs ==
  ASSUME NEW S, IsFiniteSet(S), NEW place \in [S -> Nat],
         \A a, b \in S : place[a] = place[b] => a = b
  PROVE  /\ Cardinality(S) \in Nat
         /\ InOrder(S, place) \in [1..Cardinality(S) -> S]
         /\ \A j \in S : \E n \in 1..Cardinality(S) : InOrder(S, place)[n] = j
         /\ \A m, n \in 1..Cardinality(S) :
              m < n => place[InOrder(S, place)[m]] < place[InOrder(S, place)[n]]
<1> DEFINE upTo(j) == {k \in S : place[k] <= place[j]}
           count == [j \in S |-> Cardinality(upTo(j))]
           N == Cardinality(S)
           o == InOrder(S, place)
<1>1. N \in Nat
  BY FS_CardinalityType
<1>2. \A j \in S : count[j] \in 1..N
  <2> TAKE j \in S
  <2>1. upTo(j) \in SUBSET S /\ j \in upTo(j)
    BY place[j] \in Nat
  <2>2. IsFiniteSet(upTo(j)) /\ Cardinality(upTo(j)) <= N
    BY <2>1, FS_Subset
  <2>3. Cardinality(upTo(j)) \in Nat /\ Cardinality(upTo(j)) # 0
    BY <2>1, <2>2, FS_CardinalityType, FS_EmptySet
  <2> QED BY <1>1, <2>2, <2>3
<1>3. \A a, b \in S : place[a] < place[b] => count[a] < count[b]
  BY CountUpTo
<1>4. \A a, b \in S : place[a] < place[b] \/ place[b] < place[a] \/ a = b
  BY \A k \in S : place[k] \in Nat
<1> HIDE DEF upTo
<1>5. count \in [S -> 1..N]
  BY <1>2
<1>6. \A a, b \in S : count[a] = count[b] => a = b
  <2> TAKE a, b \in S
  <2>1. count[a] \in Nat /\ count[b] \in Nat
    BY <1>1, <1>2
  <2>2. place[a] < place[b] => count[a] < count[b]
    BY <1>3
  <2>3. place[b] < place[a] => count[b] < count[a]
    BY <1>3
  <2> HIDE DEF count
  <2> QED BY <1>4, <2>1, <2>2, <2>3
<1>7. \A n \in 1..N : \E j \in S : count[j] = n
  <2> HIDE DEF count
  <2>1. count \in Injection(S, 1..N)
    BY <1>5, <1>6 DEF Injection, IsInjective
  <2>2. IsFiniteSet(1..N) /\ Cardinality(1..N) = N
    BY <1>1, FS_Interval
  <2>3. count \in Surjection(S, 1..N)
    BY <2>1, <2>2, FS_Injection
  <2> QED BY <2>3 DEF Surjection
<1>8. o = [n \in 1..N |-> CHOOSE j \in S : Cardinality(upTo(j)) = n]
  BY DEF InOrder, upTo
<1>9. \A n \in 1..N : o[n] \in S /\ count[o[n]] = n
  <2> TAKE n \in 1..N
  <2>1. \E j \in S : Cardinality(upTo(j)) = n
    BY <1>7
  <2>2. o[n] = CHOOSE j \in S : Cardinality(upTo(j)) = n
    BY <1>8
  <2>3. o[n] \in S /\ Cardinality(upTo(o[n])) = n
    BY <2>1, <2>2
  <2> QED BY <2>3
<1> HIDE DEF count, o
<1>10. o \in [1..N -> S]
  BY <1>8, <1>9
<1>11. \A j \in S : \E n \in 1..N : o[n] = j
  <2> TAKE j \in S
  <2>1. o[count[j]] \in S /\ count[o[count[j]]] = count[j] /\ count[j] \in 1..N
    BY <1>2, <1>9
  <2> QED BY <1>6, <2>1
<1>12. \A m, n \in 1..N : m < n => place[o[m]] < place[o[n]]
  <2> SUFFICES ASSUME NEW m \in 1..N, NEW n \in 1..N, m < n PROVE place[o[m]] < place[o[n]]
    OBVIOUS
  <2>1. o[m] \in S /\ o[n] \in S /\ count[o[m]] = m /\ count[o[n]] = n
    BY <1>9
  <2>2. o[m] # o[n]
    BY <2>1
  <2>3. place[o[n]] < place[o[m]] => n < m
    BY <1>3, <2>1
  <2> QED BY <1>1, <1>4, <2>1, <2>2, <2>3
<1> QED BY <1>1, <1>10, <1>11, <1>12 DEF o

-----------------------------------------------------------------------------
(* Where the messages of a history go.                                     *)
LEMMA PlaceOrder ==
  ASSUME NEW r \in Nat, NEW s \in Nat, NEW N \in Nat, NEW j \in 0..N, NEW k \in 0..N
  PROVE  /\ r < s => r * (N + 1) + j < s * (N + 1) + k
         /\ r * (N + 1) + j \in Nat
<1>1. r * (N + 1) + j \in Nat /\ r * (N + 1) \in Nat /\ s * (N + 1) \in Nat
  OBVIOUS
<1>2. ASSUME r < s PROVE r * (N + 1) + j < s * (N + 1) + k
  <2>1. s - r \in Nat /\ s - r >= 1
    BY <1>2
  <2>2. s * (N + 1) = r * (N + 1) + (s - r) * (N + 1)
    OBVIOUS
  <2>3. (s - r) * (N + 1) >= N + 1
    <3>1. \A d \in Nat : d >= 1 => d * (N + 1) >= N + 1
      <4> TAKE d \in Nat
      <4> HAVE d >= 1
      <4>1. PICK e \in Nat : d = e + 1
        BY d - 1 \in Nat
      <4>2. d * (N + 1) = e * (N + 1) + (N + 1) /\ e * (N + 1) \in Nat
        BY <4>1
      <4> QED BY <4>2
    <3> QED BY <2>1, <3>1
  <2>4. (s - r) * (N + 1) \in Nat
    BY <2>1
  <2> DEFINE x == r * (N + 1)
             y == s * (N + 1)
             z == (s - r) * (N + 1)
  <2>5. x \in Nat /\ y \in Nat /\ z \in Nat /\ y = x + z /\ z >= N + 1
    BY <1>1, <2>2, <2>3, <2>4
  <2> HIDE DEF x, y, z
  <2>6. x + j < y + k
    BY <2>5
  <2> QED BY <2>6 DEF x, y
<1> QED BY <1>1, <1>2

(* A message stands in the block of at most one calling message, no        *)
(* calling message stands in a block, and a block has no holes.            *)
LEMMA OwnerFacts ==
  ASSUME NEW msgs \in Seq(Message), NEW i \in Calling(msgs), NEW j \in Positions(msgs),
         InBlock(msgs, i, j)
  PROVE  /\ i \in Nat /\ j \in Nat /\ i < j /\ j <= Len(msgs)
         /\ IsNotice(msgs[j]) \/ IsResultOf(msgs[j], msgs[i])
         /\ msgs[j].role # "assistant" /\ j \notin Calling(msgs)
         /\ \A k \in Calling(msgs) : InBlock(msgs, k, j) => k = i
         /\ \A k \in Positions(msgs) : i < k /\ k < j => InBlock(msgs, i, k)
<1>1. /\ i \in 1..Len(msgs) /\ j \in 1..Len(msgs) /\ i < j /\ Len(msgs) \in Nat
      /\ Positions(msgs) = 1..Len(msgs)
  BY DEF Calling, Positions, InBlock
<1>2. j \in (i + 1)..j
  BY <1>1
<1>3. IsNotice(msgs[j]) \/ IsResultOf(msgs[j], msgs[i])
  BY <1>2 DEF InBlock
<1>4. \A k \in (i + 1)..j : msgs[k].role # "assistant"
  BY DEF InBlock, IsNotice, IsResultOf
<1>5. \A k \in (i + 1)..j : k \notin Calling(msgs)
  BY <1>4 DEF Calling
<1>6. ASSUME NEW k \in Calling(msgs), InBlock(msgs, k, j) PROVE k = i
  <2>1. k \in 1..Len(msgs) /\ k < j
    BY <1>1, <1>6 DEF Calling, InBlock
  <2>2. \A l \in (k + 1)..j : msgs[l].role # "assistant"
    BY <1>6 DEF InBlock, IsNotice, IsResultOf
  <2>3. msgs[i].role = "assistant"
    BY DEF Calling
  <2>4. ~(k < i)
    BY <1>1, <2>1, <2>2, <2>3
  <2>5. ~(i < k)
    BY <1>1, <1>5, <2>1
  <2> QED BY <1>1, <2>1, <2>4, <2>5
<1>7. ASSUME NEW k \in Positions(msgs), i < k, k < j PROVE InBlock(msgs, i, k)
  <2>1. (i + 1)..k \subseteq (i + 1)..j
    BY <1>1, <1>7
  <2> QED BY <1>7, <2>1 DEF InBlock
<1>8. msgs[j].role # "assistant" /\ j \notin Calling(msgs)
  BY <1>2, <1>4, <1>5
<1> QED BY <1>1, <1>3, <1>6, <1>7, <1>8

(* The rank of a message: three times its own position, or, in the block   *)
(* of i with results, 3i + 1 for a result and 3i + 2 for a notice.         *)
LEMMA RankIs ==
  ASSUME NEW msgs \in Seq(Message), NEW j \in Positions(msgs)
  PROVE  /\ Owners(msgs, j) = {} => Rank(msgs, j) = 3 * j
         /\ \A i \in Owners(msgs, j) :
              Rank(msgs, j) = 3 * i + (IF IsNotice(msgs[j]) THEN 2 ELSE 1)
         /\ Rank(msgs, j) \in Nat
<1>1. \A i, k \in Owners(msgs, j) : i = k
  BY OwnerFacts DEF Owners
<1>2. j \in Nat
  BY DEF Positions
<1>3. ASSUME NEW i \in Owners(msgs, j) PROVE i \in Nat
  BY <1>3, OwnerFacts DEF Owners
<1>4. ASSUME NEW i \in Owners(msgs, j)
      PROVE  Rank(msgs, j) = 3 * i + (IF IsNotice(msgs[j]) THEN 2 ELSE 1)
  <2>1. (CHOOSE k \in Owners(msgs, j) : TRUE) = i
    BY <1>1, <1>4
  <2> QED BY <1>4, <2>1 DEF Rank
<1>5. CASE Owners(msgs, j) = {}
  <2>1. Rank(msgs, j) = 3 * j
    BY <1>5 DEF Rank
  <2> QED BY <1>2, <1>5, <2>1
<1>6. CASE Owners(msgs, j) # {}
  <2>1. PICK i \in Owners(msgs, j) : TRUE
    BY <1>6
  <2>2. Rank(msgs, j) \in Nat
    BY <1>3, <1>4
  <2> QED BY <1>4, <1>6, <2>2
<1> QED BY <1>5, <1>6

(* Ranks follow the history except that a notice gives way to the results  *)
(* behind it in the same block.                                            *)
LEMMA RankOrder ==
  ASSUME NEW msgs \in Seq(Message), NEW a \in Positions(msgs), NEW b \in Positions(msgs), a < b,
         Rank(msgs, b) < Rank(msgs, a)
  PROVE  \E i \in Calling(msgs) :
           /\ InBlock(msgs, i, a) /\ InBlock(msgs, i, b)
           /\ IsNotice(msgs[a]) /\ ~IsNotice(msgs[b]) /\ IsResultOf(msgs[b], msgs[i])
<1>1. a \in Nat /\ b \in Nat
  BY DEF Positions
<1>2. \A i \in Owners(msgs, a) : i \in Calling(msgs) /\ InBlock(msgs, i, a) /\ i \in Nat /\ i < a
  BY OwnerFacts DEF Owners
<1>3. \A i \in Owners(msgs, b) : i \in Calling(msgs) /\ InBlock(msgs, i, b) /\ i \in Nat /\ i < b
  BY OwnerFacts DEF Owners
<1>4. CASE Owners(msgs, b) = {}
  <2>1. Rank(msgs, b) = 3 * b
    BY <1>4, RankIs
  <2>2. CASE Owners(msgs, a) = {}
    <3>1. Rank(msgs, a) = 3 * a
      BY <2>2, RankIs
    <3> QED BY <1>1, <2>1, <3>1
  <2>3. CASE Owners(msgs, a) # {}
    <3>1. PICK i \in Owners(msgs, a) : TRUE
      BY <2>3
    <3>2. Rank(msgs, a) = 3 * i + (IF IsNotice(msgs[a]) THEN 2 ELSE 1)
      BY RankIs
    <3>3. i \in Nat /\ i < a
      BY <1>2
    <3> QED BY <1>1, <2>1, <3>2, <3>3
  <2> QED BY <2>2, <2>3
<1>5. ASSUME NEW i \in Owners(msgs, b)
      PROVE  /\ IsNotice(msgs[a]) /\ ~IsNotice(msgs[b])
             /\ InBlock(msgs, i, a)
  <2>1. i \in Calling(msgs) /\ InBlock(msgs, i, b) /\ i \in Nat /\ i < b
    BY <1>3
  <2>2. Rank(msgs, b) = 3 * i + (IF IsNotice(msgs[b]) THEN 2 ELSE 1)
    BY RankIs
  <2>3. CASE i < a
    <3>1. InBlock(msgs, i, a)
      BY <2>1, <2>3, OwnerFacts
    <3>2. i \in Owners(msgs, a)
      BY <2>1, <3>1 DEF Owners
    <3>3. Rank(msgs, a) = 3 * i + (IF IsNotice(msgs[a]) THEN 2 ELSE 1)
      BY <3>2, RankIs
    <3> QED BY <2>1, <2>2, <3>1, <3>3
  <2>4. CASE ~(i < a) /\ Owners(msgs, a) = {}
    <3>1. Rank(msgs, a) = 3 * a
      BY <2>4, RankIs
    <3> QED BY <1>1, <2>1, <2>2, <2>4, <3>1
  <2>5. CASE ~(i < a) /\ Owners(msgs, a) # {}
    <3>1. PICK k \in Owners(msgs, a) : TRUE
      BY <2>5
    <3>2. Rank(msgs, a) = 3 * k + (IF IsNotice(msgs[a]) THEN 2 ELSE 1)
      BY RankIs
    <3>3. k \in Nat /\ k < a
      BY <1>2
    <3> QED BY <1>1, <2>1, <2>2, <2>5, <3>2, <3>3
  <2> QED BY <2>3, <2>4, <2>5
<1>6. CASE Owners(msgs, b) # {}
  <2>1. PICK i \in Owners(msgs, b) : TRUE
    BY <1>6
  <2>2. i \in Calling(msgs) /\ InBlock(msgs, i, b)
    BY <1>3
  <2>3. IsResultOf(msgs[b], msgs[i])
    BY <1>5, <2>2, OwnerFacts
  <2> QED BY <1>5, <2>2, <2>3
<1> QED BY <1>4, <1>6

(* The places are distinct and follow the ranks, then the history.         *)
LEMMA PlacesAre ==
  ASSUME NEW msgs \in Seq(Message)
  PROVE  /\ Places(msgs) \in [Positions(msgs) -> Nat]
         /\ \A a, b \in Positions(msgs) :
              /\ Rank(msgs, a) < Rank(msgs, b) => Places(msgs)[a] < Places(msgs)[b]
              /\ a < b /\ ~(Rank(msgs, b) < Rank(msgs, a)) => Places(msgs)[a] < Places(msgs)[b]
              /\ Places(msgs)[a] = Places(msgs)[b] => a = b
<1> DEFINE N == Len(msgs)
<1>1. N \in Nat /\ Positions(msgs) = 1..N
  BY DEF Positions
<1>2. \A j \in 1..N : Rank(msgs, j) \in Nat /\ j \in 0..N
  BY <1>1, RankIs
<1>3. \A j \in 1..N : Places(msgs)[j] = Rank(msgs, j) * (N + 1) + j
  BY <1>1 DEF Places
<1>4. \A j \in 1..N : Places(msgs)[j] \in Nat
  BY <1>1, <1>2, <1>3, PlaceOrder
<1>5. Places(msgs) \in [1..N -> Nat]
  <2>1. Places(msgs) = [j \in 1..N |-> Places(msgs)[j]]
    BY <1>1 DEF Places
  <2> QED BY <1>4, <2>1
<1>6. \A a, b \in 1..N : Rank(msgs, a) < Rank(msgs, b) => Places(msgs)[a] < Places(msgs)[b]
  <2> TAKE a, b \in 1..N
  <2>1. Rank(msgs, a) \in Nat /\ Rank(msgs, b) \in Nat /\ a \in 0..N /\ b \in 0..N
    BY <1>2
  <2>2. Rank(msgs, a) < Rank(msgs, b) => Rank(msgs, a) * (N + 1) + a < Rank(msgs, b) * (N + 1) + b
    BY <1>1, <2>1, PlaceOrder
  <2> QED BY <1>3, <2>2
<1>7. \A a, b \in 1..N : a < b /\ Rank(msgs, a) = Rank(msgs, b) => Places(msgs)[a] < Places(msgs)[b]
  <2> SUFFICES ASSUME NEW a \in 1..N, NEW b \in 1..N, a < b, Rank(msgs, a) = Rank(msgs, b)
               PROVE  Places(msgs)[a] < Places(msgs)[b]
    OBVIOUS
  <2> DEFINE x == Rank(msgs, a) * (N + 1)
  <2>1. x \in Nat
    BY <1>1, <1>2
  <2>2. Places(msgs)[a] = x + a /\ Places(msgs)[b] = x + b
    BY <1>3
  <2> HIDE DEF x
  <2> QED BY <1>1, <2>1, <2>2
<1>8. \A a, b \in 1..N :
        a < b /\ ~(Rank(msgs, b) < Rank(msgs, a)) => Places(msgs)[a] < Places(msgs)[b]
  BY <1>2, <1>6, <1>7
<1>9. \A a, b \in 1..N : Places(msgs)[a] = Places(msgs)[b] => a = b
  <2> SUFFICES ASSUME NEW a \in 1..N, NEW b \in 1..N, Places(msgs)[a] = Places(msgs)[b]
               PROVE  a = b
    OBVIOUS
  <2>1. ~(Rank(msgs, a) < Rank(msgs, b)) /\ ~(Rank(msgs, b) < Rank(msgs, a))
    BY <1>4, <1>6
  <2>2. ~(a < b) /\ ~(b < a)
    BY <1>4, <1>8, <2>1
  <2> QED BY <1>1, <2>2
<1> QED BY <1>1, <1>5, <1>6, <1>8, <1>9

-----------------------------------------------------------------------------
(* What becomes of a history: the messages that stay, the calls they keep, *)
(* and w lists them by their places, the one at n being the t[n]-th of h.  *)
Staying(h) ==
  {j \in Positions(h) : Traffic(h) = {} \/ h[j].role # "tool" \/ h[j].id \in AnsweredIds(h)}

CallsLeft(h, j) ==
  IF h[j].role = "assistant" THEN h[j].calls \cap AnsweredIds(h) ELSE h[j].calls

WireOf(h, w, t) ==
  /\ w \in Seq(Message)
  /\ t \in [1..Len(w) -> Staying(h)]
  /\ \A j \in Staying(h) : \E n \in 1..Len(w) : t[n] = j
  /\ \A m, n \in 1..Len(w) : m < n => Places(h)[t[m]] < Places(h)[t[n]]
  /\ \A n \in 1..Len(w) :
       /\ w[n].role = h[t[n]].role /\ w[n].id = h[t[n]].id /\ w[n].pos = h[t[n]].pos
       /\ w[n].calls = CallsLeft(h, t[n])

LEMMA RepackedIs ==
  ASSUME NEW h \in Seq(Message), NEW order, order = InOrder(Positions(h), Places(h))
  PROVE  /\ order \in [1..Len(h) -> 1..Len(h)]
         /\ \A j \in 1..Len(h) : \E n \in 1..Len(h) : order[n] = j
         /\ \A m, n \in 1..Len(h) : m < n => Places(h)[order[m]] < Places(h)[order[n]]
         /\ Repacked(h) \in Seq(Message) /\ Len(Repacked(h)) = Len(h)
         /\ \A n \in 1..Len(h) : Repacked(h)[n] = h[order[n]]
         /\ CallIds(Repacked(h)) = CallIds(h) /\ ResultIds(Repacked(h)) = ResultIds(h)
<1> DEFINE N == Len(h)
           R == Repacked(h)
<1>1. N \in Nat /\ Positions(h) = 1..N
  BY DEF Positions
<1>2. IsFiniteSet(1..N) /\ Cardinality(1..N) = N
  BY <1>1, FS_Interval
<1>3. /\ order \in [1..N -> 1..N]
      /\ \A j \in 1..N : \E n \in 1..N : order[n] = j
      /\ \A m, n \in 1..N : m < n => Places(h)[order[m]] < Places(h)[order[n]]
  <2> DEFINE P == Places(h)
             S == 1..N
  <2>1. P \in [S -> Nat] /\ (\A a, b \in S : P[a] = P[b] => a = b)
    BY <1>1, PlacesAre
  <2>2. order = InOrder(S, P)
    BY <1>1
  <2>3. IsFiniteSet(S) /\ Cardinality(S) = N
    BY <1>2
  <2> HIDE DEF S, P
  <2>4. /\ order \in [1..Cardinality(S) -> S]
        /\ \A j \in S : \E n \in 1..Cardinality(S) : order[n] = j
        /\ \A m, n \in 1..Cardinality(S) : m < n => P[order[m]] < P[order[n]]
    BY <2>1, <2>2, <2>3, InOrderIs
  <2> QED BY <2>3, <2>4 DEF S, P
<1>4. R = [n \in 1..N |-> h[order[n]]]
  BY <1>1 DEF Repacked
<1>5. \A n \in 1..N : h[order[n]] \in Message
  <2>1. \A n \in 1..N : order[n] \in 1..N
    BY <1>3
  <2>2. \A j \in 1..N : h[j] \in Message
    OBVIOUS
  <2> QED BY <2>1, <2>2
<1>6. R \in Seq(Message) /\ Len(R) = N
  BY <1>1, <1>4, <1>5
<1>7. \A n \in 1..N : R[n] = h[order[n]]
  BY <1>4
<1> HIDE DEF R
<1>8. Positions(R) = 1..N
  BY <1>4 DEF Positions
<1>9. \A n \in 1..N : n \in Calling(R) <=> order[n] \in Calling(h)
  BY <1>1, <1>3, <1>7, <1>8 DEF Calling
<1>10. CallIds(R) = CallIds(h)
  <2>1. \A c : c \in CallIds(R) <=> \E n \in Calling(R) : c \in R[n].calls
    BY DEF CallIds
  <2>2. \A c : c \in CallIds(h) <=> \E i \in Calling(h) : c \in h[i].calls
    BY DEF CallIds
  <2>3. Calling(R) \subseteq 1..N /\ Calling(h) \subseteq 1..N
    BY <1>1, <1>8 DEF Calling
  <2>4. ASSUME NEW c \in CallIds(R) PROVE c \in CallIds(h)
    <3>1. PICK n \in Calling(R) : c \in R[n].calls
      BY <2>1, <2>4
    <3>2. n \in 1..N
      BY <2>3, <3>1
    <3>3. order[n] \in Calling(h) /\ R[n] = h[order[n]]
      BY <1>7, <1>9, <3>1, <3>2
    <3> QED BY <2>2, <3>1, <3>3
  <2>5. ASSUME NEW c \in CallIds(h) PROVE c \in CallIds(R)
    <3>1. PICK i \in Calling(h) : c \in h[i].calls
      BY <2>2, <2>5
    <3>2. i \in 1..N
      BY <2>3, <3>1
    <3>3. PICK n \in 1..N : order[n] = i
      BY <1>3, <3>2
    <3>4. n \in Calling(R) /\ R[n] = h[i]
      BY <1>7, <1>9, <3>1, <3>3
    <3> QED BY <2>1, <3>1, <3>4
  <2> QED BY <2>4, <2>5
<1>11. ResultIds(R) = ResultIds(h)
  <2>1. \A c : c \in ResultIds(R) <=> \E n \in 1..N : R[n].role = "tool" /\ R[n].id = c /\ c # NoId
    BY <1>8 DEF ResultIds
  <2>2. \A c : c \in ResultIds(h) <=> \E j \in 1..N : h[j].role = "tool" /\ h[j].id = c /\ c # NoId
    BY <1>1 DEF ResultIds
  <2>3. ASSUME NEW c \in ResultIds(R) PROVE c \in ResultIds(h)
    <3>1. PICK n \in 1..N : R[n].role = "tool" /\ R[n].id = c /\ c # NoId
      BY <2>1, <2>3
    <3>2. order[n] \in 1..N /\ R[n] = h[order[n]]
      BY <1>3, <1>7
    <3> QED BY <2>2, <3>1, <3>2
  <2>4. ASSUME NEW c \in ResultIds(h) PROVE c \in ResultIds(R)
    <3>1. PICK j \in 1..N : h[j].role = "tool" /\ h[j].id = c /\ c # NoId
      BY <2>2, <2>4
    <3>2. PICK n \in 1..N : order[n] = j
      BY <1>3
    <3>3. R[n] = h[j]
      BY <1>7, <3>2
    <3> QED BY <2>1, <3>1, <3>3
  <2> QED BY <2>3, <2>4
<1> QED BY <1>3, <1>6, <1>7, <1>10, <1>11 DEF R

LEMMA NumbersInOrder ==
  ASSUME NEW S \in SUBSET Nat, IsFiniteSet(S)
  PROVE  LET o == InOrder(S, [j \in S |-> j])
         IN  /\ Cardinality(S) \in Nat
             /\ o \in [1..Cardinality(S) -> S]
             /\ \A j \in S : \E n \in 1..Cardinality(S) : o[n] = j
             /\ \A m, n \in 1..Cardinality(S) : m < n => o[m] < o[n]
<1> DEFINE place == [j \in S |-> j]
           o == InOrder(S, place)
<1>1. \A j \in S : place[j] = j /\ place[j] \in Nat
  OBVIOUS
<1>2. place \in [S -> Nat] /\ (\A a, b \in S : place[a] = place[b] => a = b)
  OBVIOUS
<1>3. o = InOrder(S, place) /\ o = InOrder(S, [j \in S |-> j])
  OBVIOUS
<1> HIDE DEF place, o
<1>4. /\ Cardinality(S) \in Nat
      /\ o \in [1..Cardinality(S) -> S]
      /\ \A j \in S : \E n \in 1..Cardinality(S) : o[n] = j
      /\ \A m, n \in 1..Cardinality(S) : m < n => place[o[m]] < place[o[n]]
  <2> HIDE DEF o
  <2>1. place \in [S -> Nat]
    BY <1>2
  <2>2. \A a, b \in S : place[a] = place[b] => a = b
    BY <1>2
  <2>3. /\ Cardinality(S) \in Nat
        /\ InOrder(S, place) \in [1..Cardinality(S) -> S]
        /\ \A j \in S : \E n \in 1..Cardinality(S) : InOrder(S, place)[n] = j
        /\ \A m, n \in 1..Cardinality(S) :
             m < n => place[InOrder(S, place)[m]] < place[InOrder(S, place)[n]]
    BY <2>1, <2>2, InOrderIs
  <2> QED BY <1>3, <2>3
<1>5. \A m \in 1..Cardinality(S) : o[m] \in S /\ place[o[m]] = o[m]
  BY <1>1, <1>4
<1> QED BY <1>3, <1>4, <1>5

Wanted(R) == {n \in 1..Len(R) : R[n].role = "tool" => R[n].id \in AnsweredIds(R)}

LEMMA CleanedIs ==
  ASSUME NEW R \in Seq(Message), Traffic(R) # {}
  PROVE  LET w == Cleaned(R)
             L == Len(w)
             kept == Kept(R)
         IN  /\ kept \in [1..L -> Wanted(R)]
             /\ \A j \in Wanted(R) : \E n \in 1..L : kept[n] = j
             /\ \A m, n \in 1..L : m < n => kept[m] < kept[n]
             /\ w \in Seq(Message)
             /\ \A n \in 1..L :
                  /\ w[n].role = R[kept[n]].role
                  /\ w[n].id = R[kept[n]].id
                  /\ w[n].pos = R[kept[n]].pos
                  /\ w[n].calls = CallsLeft(R, kept[n])
<1> DEFINE kept == Kept(R)
           L == Len(Cleaned(R))
           S == {n \in 1..Len(R) : R[n].role = "tool" => R[n].id \in AnsweredIds(R)}
           pruned(m) == IF m.role = "assistant"
                        THEN [m EXCEPT !.calls = @ \cap AnsweredIds(R)] ELSE m
           C == Cardinality(S)
<1>1. S \in SUBSET (1..Len(R)) /\ Len(R) \in Nat
  OBVIOUS
<1>0. S = Wanted(R)
  BY DEF Wanted
<1> HIDE DEF S
<1>2. IsFiniteSet(S)
  <2>1. IsFiniteSet(1..Len(R))
    BY <1>1, FS_Interval
  <2> QED BY <1>1, <2>1, FS_Subset
<1>5. kept = InOrder(S, [j \in S |-> j])
  <2> DEFINE stays(m) == m.role = "tool" => m.id \in AnsweredIds(R)
             K == {j \in Positions(R) : stays(R[j])}
  <2>1. Kept(R) = InOrder(K, [j \in K |-> j])
    BY DEF Kept
  <2>2. Positions(R) = 1..Len(R)
    BY DEF Positions
  <2>3. K = S
    BY <2>2 DEF S
  <2> HIDE DEF K
  <2> QED BY <2>1, <2>3
<1> HIDE DEF kept
<1>6. /\ C \in Nat
      /\ kept \in [1..C -> S]
      /\ \A j \in S : \E n \in 1..C : kept[n] = j
      /\ \A m, n \in 1..C : m < n => kept[m] < kept[n]
  <2>1. S \in SUBSET Nat
    BY <1>1
  <2> QED BY <1>2, <1>5, <2>1, NumbersInOrder
<1> HIDE DEF C
<1>7. DOMAIN kept = 1..C
  BY <1>6
<1>8. Cleaned(R) = [n \in 1..C |-> pruned(R[kept[n]])]
  <2>1. DOMAIN Kept(R) = 1..C /\ kept = Kept(R)
    BY <1>7 DEF kept
  <2>2. Cleaned(R) = [n \in DOMAIN Kept(R) |-> pruned(R[Kept(R)[n]])]
    BY DEF Cleaned
  <2> HIDE DEF pruned
  <2> QED BY <2>1, <2>2
<1>9. \A m \in Message :
        /\ pruned(m) \in Message
        /\ pruned(m).role = m.role /\ pruned(m).id = m.id /\ pruned(m).pos = m.pos
        /\ pruned(m).calls = IF m.role = "assistant" THEN m.calls \cap AnsweredIds(R) ELSE m.calls
  BY DEF Message
<1>10. \A n \in 1..C : kept[n] \in S /\ kept[n] \in 1..Len(R) /\ R[kept[n]] \in Message
  <2> TAKE n \in 1..C
  <2>1. kept[n] \in S
    BY <1>6
  <2>2. kept[n] \in 1..Len(R)
    BY <1>1, <2>1
  <2> QED BY <2>1, <2>2
<1> HIDE DEF pruned
<1>11. Cleaned(R) \in Seq(Message) /\ Len(Cleaned(R)) = C
  <2>1. \A n \in 1..C : pruned(R[kept[n]]) \in Message
    BY <1>9, <1>10
  <2> QED BY <1>6, <1>8, <2>1
<1>12. L = C
  BY <1>11
<1>13. \A n \in 1..C : Cleaned(R)[n] = pruned(R[kept[n]])
  BY <1>8
<1>15. \A n \in 1..C :
              /\ Cleaned(R)[n].role = R[kept[n]].role
              /\ Cleaned(R)[n].id = R[kept[n]].id
              /\ Cleaned(R)[n].pos = R[kept[n]].pos
              /\ Cleaned(R)[n].calls = CallsLeft(R, kept[n])
  <2> TAKE n \in 1..C
  <2>1. R[kept[n]] \in Message /\ Cleaned(R)[n] = pruned(R[kept[n]])
    BY <1>10, <1>13
  <2> QED BY <1>9, <2>1 DEF CallsLeft
<1> QED BY <1>0, <1>6, <1>11, <1>12, <1>15 DEF kept

LEMMA WireIs ==
  ASSUME NEW h \in Seq(Message)
  PROVE  \E t : WireOf(h, Cleaned(Repacked(h)), t)
<1> DEFINE N == Len(h)
           P == Places(h)
           R == Repacked(h)
           w == Cleaned(R)
           A == AnsweredIds(h)
           order == InOrder(Positions(h), P)
<1>1. /\ order \in [1..N -> 1..N]
      /\ \A j \in 1..N : \E n \in 1..N : order[n] = j
      /\ \A m, n \in 1..N : m < n => P[order[m]] < P[order[n]]
      /\ R \in Seq(Message) /\ Len(R) = N
      /\ \A n \in 1..N : R[n] = h[order[n]]
      /\ CallIds(R) = CallIds(h) /\ ResultIds(R) = ResultIds(h)
  BY RepackedIs
<1>2. AnsweredIds(R) = A /\ Traffic(R) = Traffic(h)
  BY <1>1 DEF AnsweredIds, Traffic
<1>3. Positions(h) = 1..N /\ N \in Nat
  BY DEF Positions
<1> HIDE DEF order, R, P
<1>4. \A n \in 1..N : order[n] \in 1..N /\ R[n] = h[order[n]]
  BY <1>1
<1>5. CASE Traffic(h) = {}
  <2>1. w = R
    BY <1>2, <1>5 DEF Cleaned
  <2>2. Staying(h) = 1..N
    BY <1>3, <1>5 DEF Staying
  <2>3. \A j \in 1..N : CallsLeft(h, j) = h[j].calls
    <3> SUFFICES ASSUME NEW j \in 1..N, h[j].role = "assistant"
                 PROVE  h[j].calls \cap A = h[j].calls
      BY DEF CallsLeft
    <3>1. CallIds(h) = {}
      BY <1>5 DEF Traffic
    <3>2. h[j].calls # {} => j \in Calling(h)
      BY <1>3 DEF Calling
    <3>3. j \in Calling(h) => h[j].calls \subseteq CallIds(h)
      BY DEF CallIds
    <3> QED BY <3>1, <3>2, <3>3
  <2>4. WireOf(h, R, order)
    <3>1. Len(R) = N /\ order \in [1..N -> Staying(h)]
      BY <1>1, <2>2
    <3>2. \A n \in 1..N : CallsLeft(h, order[n]) = R[n].calls
      BY <1>4, <2>3
    <3>3. \A m, n \in 1..N : m < n => Places(h)[order[m]] < Places(h)[order[n]]
      BY <1>1 DEF P
    <3>4. \A j \in Staying(h) : \E n \in 1..Len(R) : order[n] = j
      BY <1>1, <2>2
    <3>5. \A n \in 1..Len(R) :
            /\ R[n].role = h[order[n]].role /\ R[n].id = h[order[n]].id
            /\ R[n].pos = h[order[n]].pos /\ R[n].calls = CallsLeft(h, order[n])
      BY <1>4, <3>1, <3>2
    <3>6. \A m, n \in 1..Len(R) : m < n => Places(h)[order[m]] < Places(h)[order[n]]
      BY <3>1, <3>3
    <3>7. R \in Seq(Message) /\ order \in [1..Len(R) -> Staying(h)]
      BY <1>1, <3>1
    <3> QED BY <3>4, <3>5, <3>6, <3>7 DEF WireOf
  <2> QED BY <2>1, <2>4 DEF R
<1>6. CASE Traffic(h) # {}
  <2> DEFINE kept == Kept(R)
             L == Len(w)
             S == {n \in 1..N : R[n].role = "tool" => R[n].id \in A}
             t == [n \in 1..L |-> order[kept[n]]]
  <2>1. /\ kept \in [1..L -> S]
        /\ \A j \in S : \E n \in 1..L : kept[n] = j
        /\ \A m, n \in 1..L : m < n => kept[m] < kept[n]
        /\ w \in Seq(Message)
        /\ \A n \in 1..L :
             /\ w[n].role = R[kept[n]].role
             /\ w[n].id = R[kept[n]].id
             /\ w[n].pos = R[kept[n]].pos
             /\ w[n].calls = CallsLeft(R, kept[n])
    <3>1. S = {n \in 1..Len(R) : R[n].role = "tool" => R[n].id \in AnsweredIds(R)}
      BY <1>1, <1>2
    <3>2. Traffic(R) # {} /\ R \in Seq(Message)
      BY <1>1, <1>2, <1>6
    <3>3. S = Wanted(R)
      BY <3>1 DEF Wanted
    <3> HIDE DEF S
    <3> QED BY <3>2, <3>3, CleanedIs
  <2> HIDE DEF kept, w, L
  <2>2. \A n \in 1..L : kept[n] \in S /\ kept[n] \in 1..N /\ t[n] = order[kept[n]]
    BY <2>1
  <2>3. \A n \in S : order[n] \in Staying(h)
    BY <1>3, <1>4 DEF Staying
  <2>4. t \in [1..L -> Staying(h)]
    BY <2>2, <2>3
  <2>5. \A j \in Staying(h) : \E n \in 1..L : t[n] = j
    <3> TAKE j \in Staying(h)
    <3>1. j \in 1..N /\ (h[j].role = "tool" => h[j].id \in A)
      BY <1>3, <1>6 DEF Staying
    <3>2. PICK m \in 1..N : order[m] = j
      BY <1>1, <3>1
    <3>3. m \in S
      BY <1>4, <3>1, <3>2
    <3>4. PICK n \in 1..L : kept[n] = m
      BY <2>1, <3>3
    <3> QED BY <2>2, <3>2, <3>4
  <2>6. \A m, n \in 1..L : m < n => P[t[m]] < P[t[n]]
    <3> SUFFICES ASSUME NEW m \in 1..L, NEW n \in 1..L, m < n PROVE P[t[m]] < P[t[n]]
      OBVIOUS
    <3>1. kept[m] < kept[n] /\ kept[m] \in 1..N /\ kept[n] \in 1..N
      BY <2>1, <2>2
    <3>2. P[order[kept[m]]] < P[order[kept[n]]]
      BY <1>1, <3>1
    <3> QED BY <2>2, <3>2
  <2>7. \A n \in 1..N : CallsLeft(R, n) = CallsLeft(h, order[n])
    BY <1>2, <1>4 DEF CallsLeft
  <2>8. \A n \in 1..L :
          /\ w[n].role = h[t[n]].role /\ w[n].id = h[t[n]].id /\ w[n].pos = h[t[n]].pos
          /\ w[n].calls = CallsLeft(h, t[n])
    BY <1>4, <2>1, <2>2, <2>7
  <2> HIDE DEF t
  <2>9. WireOf(h, w, t)
    BY <2>1, <2>4, <2>5, <2>6, <2>8 DEF WireOf, L, P
  <2> QED BY <2>9 DEF w, R
<1> QED BY <1>5, <1>6 DEF R

-----------------------------------------------------------------------------
(* What holds of the messages that go out, by WireOf.                      *)
LEMMA WireIds ==
  ASSUME NEW h \in Histories, NoId \notin Ids, NEW w, NEW t, WireOf(h, w, t)
  PROVE  /\ CallIds(w) = AnsweredIds(h)
         /\ Traffic(h) # {} => ResultIds(w) = AnsweredIds(h)
         /\ Traffic(h) # {} => \A n \in 1..Len(w) : w[n].role = "tool" => w[n].id \in AnsweredIds(h)
         /\ Paired(w)
<1> DEFINE N == Len(h)
           L == Len(w)
           A == AnsweredIds(h)
<1>1. /\ h \in Seq(Message) /\ N \in Nat /\ Positions(h) = 1..N
      /\ w \in Seq(Message) /\ L \in Nat /\ Positions(w) = 1..L
  BY DEF WireOf, Histories, Positions
<1>2. \A n \in 1..L : /\ t[n] \in Staying(h) /\ t[n] \in 1..N
                      /\ w[n].role = h[t[n]].role /\ w[n].id = h[t[n]].id
                      /\ w[n].calls = CallsLeft(h, t[n])
  BY <1>1 DEF WireOf, Staying
<1>3. \A j \in Staying(h) : \E n \in 1..L : t[n] = j
  BY DEF WireOf
<1>4. \A c : c \in A <=> /\ \E i \in 1..N : h[i].role = "assistant" /\ c \in h[i].calls
                         /\ \E j \in 1..N : h[j].role = "tool" /\ h[j].id = c /\ c # NoId
  BY <1>1 DEF AnsweredIds, CallIds, ResultIds, Calling
<1>5. \A c : c \in CallIds(w) <=> \E n \in 1..L : w[n].role = "assistant" /\ c \in w[n].calls
  BY <1>1 DEF CallIds, Calling
<1>6. \A c : c \in ResultIds(w) <=> \E n \in 1..L : w[n].role = "tool" /\ w[n].id = c /\ c # NoId
  BY <1>1 DEF ResultIds
<1>7. CallIds(w) = A
  <2>1. ASSUME NEW c \in CallIds(w) PROVE c \in A
    <3>1. PICK n \in 1..L : w[n].role = "assistant" /\ c \in w[n].calls
      BY <1>5, <2>1
    <3>2. h[t[n]].role = "assistant" /\ c \in CallsLeft(h, t[n])
      BY <1>2, <3>1
    <3> QED BY <3>2 DEF CallsLeft
  <2>2. ASSUME NEW c \in A PROVE c \in CallIds(w)
    <3>1. PICK i \in 1..N : h[i].role = "assistant" /\ c \in h[i].calls
      BY <1>4, <2>2
    <3>2. i \in Staying(h) /\ c \in CallsLeft(h, i)
      BY <1>1, <2>2, <3>1 DEF Staying, CallsLeft
    <3>3. PICK n \in 1..L : t[n] = i
      BY <1>3, <3>2
    <3> QED BY <1>2, <1>5, <3>1, <3>2, <3>3
  <2> QED BY <2>1, <2>2
<1>8. ASSUME Traffic(h) # {}
      PROVE  /\ ResultIds(w) = A
             /\ \A n \in 1..L : w[n].role = "tool" => w[n].id \in A
  <2>1. \A n \in 1..L : w[n].role = "tool" => w[n].id \in A
    BY <1>2, <1>8 DEF Staying
  <2>2. ASSUME NEW c \in ResultIds(w) PROVE c \in A
    BY <1>6, <2>1, <2>2
  <2>3. ASSUME NEW c \in A PROVE c \in ResultIds(w)
    <3>1. PICK j \in 1..N : h[j].role = "tool" /\ h[j].id = c /\ c # NoId
      BY <1>4, <2>3
    <3>2. j \in Staying(h)
      BY <1>1, <2>3, <3>1 DEF Staying
    <3>3. PICK n \in 1..L : t[n] = j
      BY <1>3, <3>2
    <3> QED BY <1>2, <1>6, <3>1, <3>3
  <2> QED BY <2>1, <2>2, <2>3
<1>9. Paired(w)
  <2> SUFFICES ASSUME Traffic(w) # {}
               PROVE  /\ CallIds(w) = ResultIds(w)
                      /\ \A n \in 1..L : w[n].role = "tool" => w[n].id # NoId
    BY <1>1 DEF Paired
  <2>1. Traffic(h) # {}
    <3>1. \A c : c \in ResultIds(h) <=> \E j \in 1..N : h[j].role = "tool" /\ h[j].id = c /\ c # NoId
      BY <1>1 DEF ResultIds
    <3>2. ResultIds(w) \subseteq ResultIds(h)
      <4> SUFFICES ASSUME NEW c \in ResultIds(w) PROVE c \in ResultIds(h)
        OBVIOUS
      <4>1. PICK n \in 1..L : w[n].role = "tool" /\ w[n].id = c /\ c # NoId
        BY <1>6
      <4> QED BY <1>2, <3>1, <4>1
    <3>3. CallIds(w) \subseteq CallIds(h)
      BY <1>7 DEF AnsweredIds
    <3> QED BY <3>2, <3>3 DEF Traffic
  <2>2. \A c \in A : c # NoId
    BY <1>4
  <2> QED BY <1>7, <1>8, <2>1, <2>2
<1> QED BY <1>7, <1>8, <1>9

LEMMA WireStays ==
  ASSUME NEW h \in Histories, NoId \notin Ids, NEW w, NEW t, WireOf(h, w, t), NEW j \in Positions(h)
  PROVE  Stays(w, j) \/ (h[j].role = "tool" /\ h[j].id \notin CallIds(h))
<1>1. h \in Seq(Message) /\ h[j] \in Message /\ h[j].pos = j /\ w \in Seq(Message)
  BY DEF WireOf, Histories, Positions
<1>2. CASE j \in Staying(h)
  <2>1. PICK n \in 1..Len(w) : t[n] = j
    BY <1>2 DEF WireOf
  <2>2. w[n].pos = j
    BY <1>1, <2>1 DEF WireOf
  <2>3. n \in Positions(w)
    BY <1>1 DEF Positions
  <2> QED BY <2>2, <2>3 DEF Stays
<1>3. CASE j \notin Staying(h)
  <2>1. h[j].role = "tool" /\ h[j].id \notin AnsweredIds(h)
    BY <1>3 DEF Staying
  <2>2. h[j].id # NoId => h[j].id \in ResultIds(h)
    BY <2>1 DEF ResultIds
  <2>3. NoId \notin CallIds(h)
    <3>1. \A i \in Calling(h) : h[i] \in Message
      BY <1>1 DEF Calling, Positions
    <3>2. \A i \in Calling(h) : h[i].calls \subseteq Ids
      BY <3>1 DEF Message
    <3> QED BY <3>2 DEF CallIds
  <2> QED BY <2>1, <2>2, <2>3 DEF AnsweredIds
<1> QED BY <1>2, <1>3

LEMMA WireOrder ==
  ASSUME NEW h \in Histories, NEW w, NEW t, WireOf(h, w, t),
         NEW a \in Positions(w), NEW b \in Positions(w), a < b, w[a].pos > w[b].pos
  PROVE  w[a].role = "tool" /\ IsNotice(w[b])
<1> DEFINE P == Places(h)
<1>1. h \in Seq(Message) /\ w \in Seq(Message) /\ Positions(h) = 1..Len(h) /\ Len(h) \in Nat
  BY DEF WireOf, Histories, Positions
<1>2. a \in 1..Len(w) /\ b \in 1..Len(w)
  BY <1>1 DEF Positions
<1>3. t[a] \in Positions(h) /\ t[b] \in Positions(h)
  BY <1>2 DEF WireOf, Staying
<1>4. w[a].pos = t[a] /\ w[b].pos = t[b] /\ w[a].role = h[t[a]].role /\ w[b].role = h[t[b]].role
  BY <1>2, <1>3 DEF WireOf, Histories, Positions
<1>5. P[t[a]] < P[t[b]]
  BY <1>2 DEF WireOf
<1>6. P[t[a]] \in Nat /\ P[t[b]] \in Nat
  BY <1>1, <1>3, PlacesAre
<1>7. t[b] < t[a]
  BY <1>1, <1>3, <1>4
<1>8. ~(Rank(h, t[a]) < Rank(h, t[b])) => P[t[b]] < P[t[a]]
  <2>1. ~(Rank(h, t[a]) < Rank(h, t[b])) => Places(h)[t[b]] < Places(h)[t[a]]
    BY <1>1, <1>3, <1>7, PlacesAre
  <2> QED BY <2>1
<1> HIDE DEF P
<1>9. Rank(h, t[a]) < Rank(h, t[b])
  BY <1>5, <1>6, <1>8
<1>10. PICK i \in Calling(h) : IsNotice(h[t[b]]) /\ IsResultOf(h[t[a]], h[i])
  BY <1>1, <1>3, <1>7, <1>9, RankOrder
<1> QED BY <1>4, <1>10 DEF IsNotice, IsResultOf

(* A strictly increasing map of 1..N into itself is the identity.          *)
LEMMA IncreasingIsIdentity ==
  ASSUME NEW N \in Nat, NEW t \in [1..N -> 1..N], \A m, n \in 1..N : m < n => t[m] < t[n]
  PROVE  \A n \in 1..N : t[n] = n
<1>1. \A m, n \in 1..N : t[m] = t[n] => m = n
  <2> TAKE m, n \in 1..N
  <2>1. t[m] \in 1..N /\ t[n] \in 1..N
    OBVIOUS
  <2>2. (m < n => t[m] < t[n]) /\ (n < m => t[n] < t[m])
    OBVIOUS
  <2> QED BY <2>1, <2>2
<1> SUFFICES ASSUME NEW n \in 1..N PROVE t[n] = n
  OBVIOUS
<1>2. n <= t[n]
  <2> DEFINE f == [m \in 1..n |-> t[m]]
  <2>1. \A m \in 1..n : t[m] \in 1..t[n]
    <3> TAKE m \in 1..n
    <3>1. m \in 1..N /\ t[m] \in 1..N /\ t[n] \in 1..N /\ (m < n => t[m] < t[n])
      OBVIOUS
    <3>2. m = n \/ m < n
      OBVIOUS
    <3>3. 1 <= t[m] /\ t[m] \in Int /\ t[n] \in Int
      BY <3>1
    <3>4. CASE m = n
      BY <3>3, <3>4
    <3>5. CASE m < n
      BY <3>1, <3>3, <3>5
    <3> QED BY <3>2, <3>4, <3>5
  <2>2. f \in [1..n -> 1..t[n]]
    BY <2>1
  <2>3. \A l, m \in 1..n : f[l] = f[m] => l = m
    <3> TAKE l, m \in 1..n
    <3>1. l \in 1..N /\ m \in 1..N /\ f[l] = t[l] /\ f[m] = t[m]
      OBVIOUS
    <3> QED BY <1>1, <3>1
  <2> HIDE DEF f
  <2>4. f \in Injection(1..n, 1..t[n])
    BY <2>2, <2>3 DEF Injection, IsInjective
  <2>5. t[n] \in Nat /\ t[n] >= 1
    OBVIOUS
  <2>6. Cardinality(1..n) = n
    BY FS_Interval
  <2>7. Cardinality(1..t[n]) = t[n] /\ IsFiniteSet(1..t[n])
    BY <2>5, FS_Interval
  <2>8. Cardinality(1..n) <= Cardinality(1..t[n])
    BY <2>4, <2>7, FS_Injection
  <2> QED BY <2>6, <2>7, <2>8
<1>3. t[n] <= n
  <2> DEFINE f == [m \in n..N |-> t[m]]
  <2>1. \A m \in n..N : t[m] \in t[n]..N
    <3> TAKE m \in n..N
    <3>1. m \in 1..N /\ t[m] \in 1..N /\ t[n] \in 1..N /\ (n < m => t[n] < t[m])
      OBVIOUS
    <3>2. n = m \/ n < m
      OBVIOUS
    <3>3. t[m] <= N /\ t[m] \in Int /\ t[n] \in Int
      BY <3>1
    <3>4. CASE n = m
      BY <3>3, <3>4
    <3>5. CASE n < m
      BY <3>1, <3>3, <3>5
    <3> QED BY <3>2, <3>4, <3>5
  <2>2. f \in [n..N -> t[n]..N]
    BY <2>1
  <2>3. \A l, m \in n..N : f[l] = f[m] => l = m
    <3> TAKE l, m \in n..N
    <3>1. l \in 1..N /\ m \in 1..N /\ f[l] = t[l] /\ f[m] = t[m]
      OBVIOUS
    <3> QED BY <1>1, <3>1
  <2> HIDE DEF f
  <2>4. f \in Injection(n..N, t[n]..N)
    BY <2>2, <2>3 DEF Injection, IsInjective
  <2>5. t[n] \in 1..N
    OBVIOUS
  <2>6. Cardinality(n..N) = N - n + 1
    BY FS_Interval
  <2>7. Cardinality(t[n]..N) = N - t[n] + 1 /\ IsFiniteSet(t[n]..N)
    BY <2>5, FS_Interval
  <2>8. Cardinality(n..N) <= Cardinality(t[n]..N)
    BY <2>4, <2>7, FS_Injection
  <2> QED BY <2>5, <2>6, <2>7, <2>8
<1> QED BY <1>2, <1>3

(* A history in sequence goes out as it is.                                *)
LEMMA WireKept ==
  ASSUME NEW h \in Histories, NoId \notin Ids, IsFiniteSet(Ids), NEW w, NEW t, WireOf(h, w, t),
         InSequence(h)
  PROVE  Len(w) = Len(h) /\ \A n \in 1..Len(w) : w[n].pos = n
<1> DEFINE N == Len(h)
           L == Len(w)
           P == Places(h)
           end(i) == i + Cardinality(h[i].calls)
<1>1. /\ h \in Seq(Message) /\ N \in Nat /\ Positions(h) = 1..N
      /\ w \in Seq(Message) /\ L \in Nat
  BY DEF WireOf, Histories, Positions
<1>2. \A j \in 1..N : h[j].role = "tool" => \E i \in Calling(h) : i < j /\ j <= end(i)
  BY <1>1 DEF InSequence
<1>3. \A i \in Calling(h) :
         /\ i \in 1..N /\ h[i].role = "assistant" /\ h[i].calls \subseteq Ids /\ end(i) \in Nat
         /\ {h[j].id : j \in (i + 1)..end(i)} = h[i].calls
         /\ \A j \in (i + 1)..end(i) : h[j].role = "tool"
  <2> TAKE i \in Calling(h)
  <2>1. i \in 1..N /\ h[i].role = "assistant"
    BY <1>1 DEF Calling
  <2>2. h[i].calls \subseteq Ids
    <3>1. h[i] \in Message
      BY <1>1, <2>1
    <3> QED BY <3>1 DEF Message
  <2>3. Cardinality(h[i].calls) \in Nat
    BY <2>2, FS_Subset, FS_CardinalityType
  <2> QED BY <2>1, <2>2, <2>3 DEF InSequence
<1>4. \A i \in Calling(h), j \in 1..N :
         i < j /\ j <= end(i) => h[j].id \in h[i].calls /\ h[j].role = "tool"
  <2> TAKE i \in Calling(h), j \in 1..N
  <2> HAVE i < j /\ j <= end(i)
  <2>1. j \in (i + 1)..end(i)
    <3> HIDE DEF end
    <3> QED BY <1>3
  <2> HIDE DEF end
  <2> QED BY <1>3, <2>1
<1> HIDE DEF end
<1>5. Staying(h) = 1..N
  <2> SUFFICES ASSUME NEW j \in 1..N, h[j].role = "tool" PROVE h[j].id \in AnsweredIds(h)
    BY <1>1 DEF Staying
  <2>1. PICK i \in Calling(h) : h[j].id \in h[i].calls
    BY <1>2, <1>4
  <2>2. h[j].id \in CallIds(h)
    BY <2>1 DEF CallIds
  <2>3. h[j].id # NoId
    BY <1>3, <2>1
  <2>4. h[j].id \in ResultIds(h)
    BY <1>1, <2>3 DEF ResultIds
  <2> QED BY <2>2, <2>4 DEF AnsweredIds
<1>6. ASSUME NEW a \in 1..N, NEW b \in 1..N, a < b PROVE ~(Rank(h, b) < Rank(h, a))
  <2> SUFFICES ASSUME Rank(h, b) < Rank(h, a) PROVE FALSE
    OBVIOUS
  <2>1. PICK i \in Calling(h) :
          /\ InBlock(h, i, a) /\ InBlock(h, i, b) /\ IsNotice(h[a]) /\ IsResultOf(h[b], h[i])
    BY <1>1, <1>6, RankOrder
  <2>2. h[b].role = "tool" /\ h[a].role \notin {"tool", "assistant"}
    BY <2>1 DEF IsResultOf, IsNotice
  <2>3. PICK k \in Calling(h) : k < b /\ b <= end(k)
    BY <1>2, <2>2
  <2>4. k \in 1..N /\ h[k].role = "assistant" /\ end(k) \in Nat
    BY <1>3
  <2>5. ~(k < a)
    <3> SUFFICES ASSUME k < a PROVE FALSE
      OBVIOUS
    <3>1. a <= end(k)
      BY <1>1, <1>6, <2>3, <2>4
    <3> QED BY <1>4, <2>2, <3>1
  <2>6. k # a
    BY <2>2, <2>4
  <2>7. i < a /\ i \in 1..N
    BY <1>3, <2>1 DEF InBlock
  <2>8. i < k /\ k < b
    BY <1>1, <2>3, <2>4, <2>5, <2>6, <2>7
  <2>9. InBlock(h, i, k)
    BY <1>1, <2>1, <2>4, <2>8, OwnerFacts
  <2> QED BY <1>1, <2>4, <2>9, OwnerFacts
<1>7. \A a, b \in 1..N : P[a] \in Nat /\ (a < b => P[a] < P[b])
  BY <1>1, <1>6, PlacesAre
<1> HIDE DEF P
<1>8. t \in [1..L -> 1..N] /\ (\A m, n \in 1..L : m < n => P[t[m]] < P[t[n]])
  BY <1>5 DEF WireOf, P
<1>9. \A j \in 1..N : \E n \in 1..L : t[n] = j
  BY <1>5 DEF WireOf
<1>10. \A m, n \in 1..L : m < n => t[m] < t[n]
  <2> SUFFICES ASSUME NEW m \in 1..L, NEW n \in 1..L, m < n PROVE t[m] < t[n]
    OBVIOUS
  <2>1. t[m] \in 1..N /\ t[n] \in 1..N /\ P[t[m]] < P[t[n]]
    BY <1>8
  <2>2. t[n] < t[m] => P[t[n]] < P[t[m]]
    BY <1>7, <2>1
  <2>3. P[t[n]] \in Nat /\ P[t[m]] \in Nat
    BY <1>7, <2>1
  <2>4. t[m] # t[n]
    BY <2>1, <2>3
  <2> QED BY <1>1, <2>1, <2>2, <2>3, <2>4
<1>11. L = N
  <2> HIDE DEF L, N
  <2>1. t \in Surjection(1..L, 1..N)
    BY <1>8, <1>9 DEF Surjection
  <2>2. \A m, n \in 1..L : t[m] = t[n] => m = n
    <3> TAKE m, n \in 1..L
    <3>1. t[m] \in 1..N /\ t[n] \in 1..N /\ (m < n => t[m] < t[n]) /\ (n < m => t[n] < t[m])
      BY <1>8, <1>10
    <3> QED BY <1>1, <3>1
  <2>3. t \in Injection(1..L, 1..N)
    BY <1>8, <2>2 DEF Injection, IsInjective
  <2>4. IsFiniteSet(1..L) /\ Cardinality(1..L) = L
    BY <1>1, FS_Interval
  <2>5. Cardinality(1..N) = N
    BY <1>1, FS_Interval
  <2>6. Cardinality(1..N) = Cardinality(1..L)
    BY <2>1, <2>3, <2>4, FS_Surjection
  <2> QED BY <2>4, <2>5, <2>6
<1>12. \A n \in 1..N : t[n] = n
  <2>1. t \in [1..N -> 1..N] /\ (\A m, n \in 1..N : m < n => t[m] < t[n])
    BY <1>8, <1>10, <1>11
  <2> HIDE DEF N
  <2> QED BY <1>1, <2>1, IncreasingIsIdentity
<1>13. \A n \in 1..L : w[n].pos = h[t[n]].pos
  BY DEF WireOf
<1>14. \A n \in 1..N : h[n].pos = n
  BY <1>1 DEF Histories
<1> QED BY <1>11, <1>12, <1>13, <1>14

(* A finite set of numbers above n, closed downwards to n, is an interval. *)
LEMMA SegmentIs ==
  ASSUME NEW n \in Nat, NEW L \in Nat, NEW T \in SUBSET ((n + 1)..L), T # {},
         \A m \in T : \A k \in (n + 1)..m : k \in T
  PROVE  /\ Cardinality(T) \in Nat /\ n + Cardinality(T) <= L
         /\ T = (n + 1)..(n + Cardinality(T))
<1>1. T \in SUBSET Nat /\ \A m \in T : m <= L
  OBVIOUS
<1>2. PICK M \in T : \A m \in T : m <= M
  BY <1>1, HighestOf
<1>3. M \in Nat /\ M >= n + 1 /\ M <= L
  OBVIOUS
<1>4. T = (n + 1)..M
  <2>1. ASSUME NEW m \in T PROVE m \in (n + 1)..M
    BY <1>2, <1>3
  <2>2. ASSUME NEW m \in (n + 1)..M PROVE m \in T
    BY <2>2
  <2> QED BY <2>1, <2>2
<1>5. Cardinality((n + 1)..M) = M - (n + 1) + 1
  <2>1. n + 1 \in Int /\ M \in Int /\ ~(n + 1 > M)
    BY <1>3
  <2> QED BY <2>1, FS_Interval
<1>6. Cardinality(T) = M - n
  BY <1>3, <1>4, <1>5
<1> QED BY <1>3, <1>4, <1>6

(* A history whose results stand behind their calls with nothing but       *)
(* notices and results of the same message between them goes out in        *)
(* sequence: the results of a call fill the places right behind it.        *)
LEMMA WireBlocks ==
  ASSUME NEW h \in Histories, NoId \notin Ids, IsFiniteSet(Ids), NEW w, NEW t, WireOf(h, w, t),
         UniqueIds(h), ~Interrupted(h), Traffic(h) # {},
         NEW n \in 1..Len(w), w[n].role = "assistant", w[n].calls # {}
  PROVE  LET d == Cardinality(w[n].calls)
         IN  /\ d \in Nat /\ n + d <= Len(w)
             /\ {w[m].id : m \in (n + 1)..(n + d)} = w[n].calls
             /\ \A m \in (n + 1)..(n + d) : w[m].role = "tool"
             /\ \A m \in 1..Len(w) : w[m].role = "tool" /\ w[m].id \in w[n].calls => m \in (n + 1)..(n + d)
<1> DEFINE N == Len(h)
           L == Len(w)
           P == Places(h)
           A == AnsweredIds(h)
           i == t[n]
           Calls == w[n].calls
           Results == {j \in 1..N : h[j].role = "tool" /\ h[j].id \in Calls}
           T == {m \in 1..L : t[m] \in Results}
<1>1. /\ h \in Seq(Message) /\ N \in Nat /\ Positions(h) = 1..N
      /\ w \in Seq(Message) /\ L \in Nat
  BY DEF WireOf, Histories, Positions
<1>2. \A m \in 1..L : /\ t[m] \in Staying(h) /\ t[m] \in 1..N
                      /\ w[m].role = h[t[m]].role /\ w[m].id = h[t[m]].id
                      /\ w[m].calls = CallsLeft(h, t[m])
  BY <1>1 DEF WireOf, Staying
<1>3. \A j \in Staying(h) : \E m \in 1..L : t[m] = j
  BY DEF WireOf
<1>4. \A l, m \in 1..L : l < m => P[t[l]] < P[t[m]]
  BY DEF WireOf
<1>5. /\ \A j \in 1..N : P[j] \in Nat
      /\ \A a, b \in 1..N : Rank(h, a) < Rank(h, b) => P[a] < P[b]
      /\ \A a, b \in 1..N : P[a] = P[b] => a = b
  BY <1>1, PlacesAre
<1>6. i \in Calling(h) /\ i \in 1..N /\ Calls = h[i].calls \cap A /\ h[i] \in Message
  <2>1. i \in 1..N /\ h[i].role = "assistant" /\ Calls = h[i].calls \cap A
    BY <1>2 DEF CallsLeft
  <2>2. i \in Calling(h)
    BY <1>1, <2>1 DEF Calling
  <2> QED BY <1>1, <2>1, <2>2
<1>7. IsFiniteSet(Calls) /\ NoId \notin Calls /\ Cardinality(Calls) \in Nat
  <2>1. Calls \in SUBSET Ids
    BY <1>6 DEF Message
  <2> QED BY <2>1, FS_Subset, FS_CardinalityType
<1> HIDE DEF P, i, Calls
<1>8. \A j \in Results :
        /\ j \in 1..N /\ IsResultOf(h[j], h[i]) /\ InBlock(h, i, j) /\ i \in Owners(h, j)
        /\ Rank(h, j) = 3 * i + 1 /\ j \in Staying(h)
  <2> TAKE j \in Results
  <2>1. IsResultOf(h[j], h[i])
    BY <1>6, <1>7 DEF IsResultOf
  <2>2. InBlock(h, i, j)
    BY <1>1, <1>6, <2>1 DEF Interrupted
  <2>3. i \in Owners(h, j)
    BY <1>1, <1>6, <2>2 DEF Owners, HasResults
  <2>4. ~IsNotice(h[j])
    BY DEF IsNotice
  <2>5. Rank(h, j) = 3 * i + 1
    BY <1>1, <2>3, <2>4, RankIs
  <2>6. j \in Staying(h)
    BY <1>1, <1>6 DEF Staying
  <2> QED BY <2>1, <2>2, <2>3, <2>5, <2>6
<1>9. Rank(h, i) = 3 * i
  <2>1. Owners(h, i) = {}
    BY <1>1, <1>6, OwnerFacts DEF Owners
  <2> QED BY <1>1, <1>6, <2>1, RankIs
<1>10. \A j \in 1..N : Rank(h, j) \in 3 * i .. 3 * i + 1 /\ j # i /\ j \in Staying(h) => j \in Results
  <2> SUFFICES ASSUME NEW j \in 1..N, Rank(h, j) \in 3 * i .. 3 * i + 1, j # i, j \in Staying(h)
               PROVE  j \in Results
    OBVIOUS
  <2>1. Owners(h, j) # {}
    <3>1. Owners(h, j) = {} => Rank(h, j) = 3 * j
      BY <1>1, RankIs
    <3> QED BY <1>1, <1>6, <3>1
  <2>2. PICK k \in Owners(h, j) : TRUE
    BY <2>1
  <2>3. k \in Calling(h) /\ InBlock(h, k, j) /\ k \in Nat
    BY <1>1, <2>2, OwnerFacts DEF Owners
  <2>4. Rank(h, j) = 3 * k + (IF IsNotice(h[j]) THEN 2 ELSE 1)
    BY <1>1, <2>2, RankIs
  <2>5. k = i /\ ~IsNotice(h[j])
    BY <1>1, <1>6, <2>3, <2>4
  <2>6. IsResultOf(h[j], h[i])
    BY <1>1, <2>3, <2>5, OwnerFacts
  <2>7. h[j].role = "tool" /\ h[j].id \in h[i].calls
    BY <2>6 DEF IsResultOf
  <2>8. h[j].id \in A
    BY <2>7, Traffic(h) # {} DEF Staying
  <2> QED BY <1>6, <2>7, <2>8
<1>11. T \in SUBSET ((n + 1)..L)
  <2> SUFFICES ASSUME NEW m \in T PROVE m \in (n + 1)..L
    OBVIOUS
  <2>0. m \in 1..L /\ t[m] \in Results
    OBVIOUS
  <2>1. t[m] \in 1..N /\ Rank(h, t[m]) = 3 * i + 1
    BY <1>8, <2>0
  <2>2. P[i] < P[t[m]]
    BY <1>5, <1>6, <1>9, <2>1
  <2>3. m < n => P[t[m]] < P[i]
    BY <1>4, <2>0 DEF i
  <2>4. m # n
    BY <1>5, <1>6, <2>2 DEF i
  <2>5. P[i] \in Nat /\ P[t[m]] \in Nat
    BY <1>5, <1>6, <2>1
  <2> QED BY <1>1, <2>0, <2>2, <2>3, <2>4, <2>5
<1>12. \A m \in T : \A k \in (n + 1)..m : k \in T
  <2> SUFFICES ASSUME NEW m \in T, NEW k \in (n + 1)..m, k # m PROVE t[k] \in Results /\ k \in 1..L
    BY <1>1, <1>11
  <2>1. m \in 1..L /\ k \in 1..L /\ n < k /\ k < m
    BY <1>1, <1>11
  <2>2. t[k] \in 1..N /\ t[k] \in Staying(h) /\ t[m] \in 1..N /\ Rank(h, t[m]) = 3 * i + 1
    BY <1>2, <1>8, <2>1
  <2>3. P[i] < P[t[k]] /\ P[t[k]] < P[t[m]]
    BY <1>4, <2>1 DEF i
  <2>4. P[i] \in Nat /\ P[t[k]] \in Nat /\ P[t[m]] \in Nat
    BY <1>5, <1>6, <2>2
  <2>5. ~(Rank(h, t[k]) < Rank(h, i)) /\ ~(Rank(h, t[m]) < Rank(h, t[k]))
    <3>1. ~(P[t[k]] < P[i]) /\ ~(P[t[m]] < P[t[k]])
      <4> HIDE DEF P
      <4> QED BY <2>3, <2>4
    <3>2. Rank(h, t[k]) < Rank(h, i) => P[t[k]] < P[i]
      BY <1>5, <1>6, <2>2
    <3>3. Rank(h, t[m]) < Rank(h, t[k]) => P[t[m]] < P[t[k]]
      BY <1>5, <2>2
    <3> QED BY <3>1, <3>2, <3>3
  <2>6. Rank(h, t[k]) \in Nat /\ i \in Nat
    <3>1. i \in Nat /\ t[k] \in 1..N
      BY <1>1, <1>6, <2>2
    <3>2. Rank(h, t[k]) \in Nat
      BY <1>1, <3>1, RankIs
    <3> QED BY <3>1, <3>2
  <2>7. Rank(h, t[k]) \in 3 * i .. 3 * i + 1
    BY <1>9, <2>2, <2>5, <2>6
  <2>8. t[k] # i
    BY <2>3, <2>4
  <2> QED BY <1>10, <2>1, <2>2, <2>7, <2>8
<1>13. Calls = {w[m].id : m \in T} /\ Cardinality(T) = Cardinality(Calls)
  <2> DEFINE f == [m \in T |-> w[m].id]
  <2>1. \A m \in T : m \in 1..L /\ t[m] \in Results /\ f[m] = h[t[m]].id /\ w[m].id = h[t[m]].id
    BY <1>2
  <2>2. \A m \in T : f[m] \in Calls
    BY <2>1
  <2>3. \A c \in Calls : \E m \in T : f[m] = c
    <3> TAKE c \in Calls
    <3>1. c \in ResultIds(h)
      BY <1>6 DEF AnsweredIds
    <3>2. PICK j \in 1..N : h[j].role = "tool" /\ h[j].id = c
      BY <1>1, <3>1 DEF ResultIds
    <3>3. j \in Results
      BY <3>2
    <3>4. PICK m \in 1..L : t[m] = j
      BY <1>3, <1>8, <3>3
    <3> QED BY <2>1, <3>2, <3>3, <3>4
  <2>4. \A l, m \in T : f[l] = f[m] => l = m
    <3> SUFFICES ASSUME NEW l \in T, NEW m \in T, f[l] = f[m] PROVE l = m
      OBVIOUS
    <3>1. h[t[l]].id = h[t[m]].id /\ t[l] \in Results /\ t[m] \in Results
      BY <2>1
    <3>2. t[l] = t[m]
      BY <1>1, <3>1 DEF UniqueIds
    <3>3. l \in 1..L /\ m \in 1..L /\ P[t[m]] \in Nat
      BY <1>5, <3>1
    <3> QED BY <1>1, <1>4, <3>2, <3>3
  <2>5. f \in [T -> Calls]
    BY <2>2
  <2> HIDE DEF f, T
  <2>6. f \in Surjection(T, Calls)
    BY <2>3, <2>5 DEF Surjection
  <2>7. f \in Injection(T, Calls)
    BY <2>4, <2>5 DEF Injection, IsInjective
  <2>8. Cardinality(T) = Cardinality(Calls)
    BY <1>7, <2>6, <2>7, FS_Injection
  <2>9. Calls = {w[m].id : m \in T}
    BY <2>1, <2>2, <2>3
  <2> QED BY <2>8, <2>9
<1>14. T # {}
  BY <1>13 DEF Calls
<1>15. /\ n + Cardinality(T) <= L /\ T = (n + 1)..(n + Cardinality(T))
  <2> HIDE DEF T, L
  <2>1. n \in Nat
    BY DEF L
  <2> QED BY <1>1, <1>11, <1>12, <1>14, <2>1, SegmentIs
<1>16. \A m \in T : w[m].role = "tool"
  BY <1>2
<1>17. \A m \in 1..L : w[m].role = "tool" /\ w[m].id \in Calls => m \in T
  BY <1>2
<1> HIDE DEF T
<1> QED BY <1>7, <1>13, <1>15, <1>16, <1>17 DEF Calls

LEMMA WireSequence ==
  ASSUME NEW h \in Histories, NoId \notin Ids, IsFiniteSet(Ids), NEW w, NEW t, WireOf(h, w, t),
         UniqueIds(h), ~Interrupted(h), Traffic(h) # {}
  PROVE  InSequence(w)
<1> DEFINE d(n) == Cardinality(w[n].calls)
<1>1. w \in Seq(Message) /\ Positions(w) = 1..Len(w) /\ Len(w) \in Nat
  BY DEF WireOf, Positions
<1>2. ASSUME NEW n \in Calling(w)
      PROVE  /\ n \in 1..Len(w) /\ d(n) \in Nat /\ n + d(n) <= Len(w)
             /\ {w[m].id : m \in (n + 1)..(n + d(n))} = w[n].calls
             /\ \A m \in (n + 1)..(n + d(n)) : w[m].role = "tool"
             /\ \A m \in 1..Len(w) :
                  w[m].role = "tool" /\ w[m].id \in w[n].calls => m \in (n + 1)..(n + d(n))
  <2>1. n \in 1..Len(w) /\ w[n].role = "assistant" /\ w[n].calls # {}
    BY <1>1 DEF Calling
  <2> QED BY <2>1, WireBlocks
<1>3. ASSUME NEW m \in 1..Len(w), w[m].role = "tool"
      PROVE  \E n \in Calling(w) : n < m /\ m <= n + d(n)
  <2>1. w[m].id \in CallIds(w)
    BY <1>3, WireIds
  <2>2. PICK n \in Calling(w) : w[m].id \in w[n].calls
    BY <2>1 DEF CallIds
  <2>3. m \in (n + 1)..(n + d(n)) /\ n \in 1..Len(w) /\ d(n) \in Nat
    BY <1>2, <1>3, <2>2
  <2> HIDE DEF d
  <2>4. n < m /\ m <= n + d(n)
    BY <1>1, <2>3
  <2> QED BY <2>4
<1> QED BY <1>1, <1>2, <1>3 DEF InSequence

(* normalizeRoles changes nothing the pairing looks at.                    *)
LEMMA NormalIs ==
  ASSUME NEW msgs \in Histories, NEW h, h = NormalRoles(msgs)
  PROVE  /\ h \in Histories /\ Len(h) = Len(msgs)
         /\ \A j \in 1..Len(msgs) :
              /\ h[j].pos = msgs[j].pos /\ h[j].id = msgs[j].id /\ h[j].calls = msgs[j].calls
              /\ h[j].role = IF msgs[j].role = "developer" THEN "system" ELSE msgs[j].role
<1>1. msgs \in Seq(Message) /\ Len(msgs) \in Nat /\ Positions(msgs) = 1..Len(msgs)
  BY DEF Histories, Positions
<1>2. \A m \in Message :
        /\ [m EXCEPT !.role = "system"] \in Message
        /\ [m EXCEPT !.role = "system"].pos = m.pos
        /\ [m EXCEPT !.role = "system"].id = m.id
        /\ [m EXCEPT !.role = "system"].calls = m.calls
        /\ [m EXCEPT !.role = "system"].role = "system"
  <2> TAKE m \in Message
  <2>1. "system" \in Roles
    BY DEF Roles
  <2>2. m.pos \in Nat /\ m.calls \in SUBSET Ids /\ m.id \in Ids \cup {NoId}
    BY DEF Message
  <2>3. [m EXCEPT !.role = "system"] =
          [pos |-> m.pos, role |-> "system", calls |-> m.calls, id |-> m.id]
    BY DEF Message
  <2>4. [pos |-> m.pos, role |-> "system", calls |-> m.calls, id |-> m.id] \in Message
    BY <2>1, <2>2 DEF Message
  <2> QED BY <2>3, <2>4
<1> DEFINE new(m) == IF m.role = "developer" THEN [m EXCEPT !.role = "system"] ELSE m
<1>3. \A m \in Message :
        /\ new(m) \in Message /\ new(m).pos = m.pos /\ new(m).id = m.id /\ new(m).calls = m.calls
        /\ new(m).role = IF m.role = "developer" THEN "system" ELSE m.role
  <2> TAKE m \in Message
  <2>1. CASE m.role = "developer"
    BY <1>2, <2>1
  <2>2. CASE m.role # "developer"
    BY <2>2
  <2> QED BY <2>1, <2>2
<1>4. h = [j \in 1..Len(msgs) |-> new(msgs[j])]
  BY <1>1 DEF NormalRoles
<1> HIDE DEF new
<1>5. \A j \in 1..Len(msgs) : msgs[j] \in Message /\ h[j] = new(msgs[j])
  <2>1. \A j \in 1..Len(msgs) : msgs[j] \in Message
    BY <1>1
  <2>2. \A j \in 1..Len(msgs) : h[j] = new(msgs[j])
    BY <1>4
  <2> QED BY <2>1, <2>2
<1>6. h \in Seq(Message) /\ Len(h) = Len(msgs) /\ DOMAIN h = 1..Len(msgs)
  <2>1. \A j \in 1..Len(msgs) : new(msgs[j]) \in Message
    BY <1>3, <1>5
  <2> QED BY <1>1, <1>4, <2>1
<1>7. \A j \in 1..Len(msgs) :
        /\ h[j].pos = msgs[j].pos /\ h[j].id = msgs[j].id /\ h[j].calls = msgs[j].calls
        /\ h[j].role = IF msgs[j].role = "developer" THEN "system" ELSE msgs[j].role
  BY <1>3, <1>5
<1>8. \A j \in 1..Len(msgs) : msgs[j].pos = j
  BY <1>1 DEF Histories
<1>9. h \in Histories
  BY <1>6, <1>7, <1>8 DEF Histories
<1> QED BY <1>6, <1>7, <1>9

LEMMA NormalSame ==
  ASSUME NEW msgs \in Histories, IsFiniteSet(Ids), NEW h, h = NormalRoles(msgs)
  PROVE  /\ Calling(h) = Calling(msgs)
         /\ CallIds(h) = CallIds(msgs) /\ ResultIds(h) = ResultIds(msgs)
         /\ UniqueIds(msgs) => UniqueIds(h)
         /\ ~Interrupted(msgs) => ~Interrupted(h)
         /\ InSequence(msgs) => InSequence(h)
<1> DEFINE N == Len(msgs)
<1>1. /\ N \in Nat /\ Positions(msgs) = 1..N /\ Positions(h) = 1..N /\ Len(h) = N
      /\ \A j \in 1..N :
           /\ h[j].id = msgs[j].id /\ h[j].calls = msgs[j].calls
           /\ h[j].role = IF msgs[j].role = "developer" THEN "system" ELSE msgs[j].role
  <2>1. h \in Seq(Message) /\ msgs \in Seq(Message)
    BY NormalIs DEF Histories
  <2> QED BY <2>1, NormalIs DEF Positions
<1>2. \A j \in 1..N : /\ h[j].role = "tool" <=> msgs[j].role = "tool"
                      /\ h[j].role = "assistant" <=> msgs[j].role = "assistant"
                      /\ IsNotice(h[j]) <=> IsNotice(msgs[j])
  BY <1>1 DEF IsNotice
<1>3. Calling(h) = Calling(msgs) /\ Calling(h) \subseteq 1..N
  BY <1>1, <1>2 DEF Calling
<1>4. CallIds(h) = CallIds(msgs)
  BY <1>1, <1>3 DEF CallIds
<1>5. ResultIds(h) = ResultIds(msgs)
  <2>1. \A c : c \in ResultIds(h) <=> \E j \in 1..N : h[j].role = "tool" /\ h[j].id = c /\ c # NoId
    BY <1>1 DEF ResultIds
  <2>2. \A c : c \in ResultIds(msgs) <=>
                 \E j \in 1..N : msgs[j].role = "tool" /\ msgs[j].id = c /\ c # NoId
    BY <1>1 DEF ResultIds
  <2>3. \A c : c \in ResultIds(h) <=> c \in ResultIds(msgs)
    BY <1>1, <1>2, <2>1, <2>2
  <2> QED BY <2>3
<1>6. UniqueIds(msgs) => UniqueIds(h)
  BY <1>1, <1>2, <1>3 DEF UniqueIds
<1>7. \A i, j \in 1..N : IsResultOf(h[j], h[i]) <=> IsResultOf(msgs[j], msgs[i])
  BY <1>1, <1>2 DEF IsResultOf
<1>8. \A i, j \in 1..N : InBlock(msgs, i, j) <=> InBlock(h, i, j)
  <2> TAKE i, j \in 1..N
  <2>1. (i + 1)..j \subseteq 1..N
    BY <1>1
  <2> QED BY <1>2, <1>7, <2>1 DEF InBlock
<1>9. ~Interrupted(msgs) => ~Interrupted(h)
  BY <1>1, <1>3, <1>7, <1>8 DEF Interrupted
<1>10. ASSUME InSequence(msgs) PROVE InSequence(h)
  <2> DEFINE n(i) == Cardinality(msgs[i].calls)
  <2>1. \A i \in Calling(msgs) :
          /\ i \in 1..N /\ h[i].calls = msgs[i].calls /\ i + n(i) <= N
          /\ {msgs[j].id : j \in (i + 1)..(i + n(i))} = msgs[i].calls
          /\ \A j \in (i + 1)..(i + n(i)) : msgs[j].role = "tool"
    BY <1>1, <1>3, <1>10 DEF InSequence
  <2>2. \A i \in Calling(msgs) : (i + 1)..(i + n(i)) \subseteq 1..N
    <3> TAKE i \in Calling(msgs)
    <3>1. i \in 1..N /\ i + n(i) <= N
      BY <2>1
    <3>2. n(i) \in Nat
      <4>1. msgs[i] \in Message
        BY <3>1 DEF Histories
      <4>2. msgs[i].calls \in SUBSET Ids
        BY <4>1 DEF Message
      <4> QED BY <4>2, FS_Subset, FS_CardinalityType
    <3> HIDE DEF n
    <3> SUFFICES ASSUME NEW j \in (i + 1)..(i + n(i)) PROVE j \in 1..N
      OBVIOUS
    <3> QED BY <1>1, <3>1, <3>2
  <2>3. \A i \in Calling(h) :
          /\ i + n(i) <= N
          /\ {h[j].id : j \in (i + 1)..(i + n(i))} = h[i].calls
          /\ \A j \in (i + 1)..(i + n(i)) : h[j].role = "tool"
    <3> TAKE i \in Calling(h)
    <3>1. \A j \in (i + 1)..(i + n(i)) :
            j \in 1..N /\ h[j].id = msgs[j].id /\ (h[j].role = "tool" <=> msgs[j].role = "tool")
      BY <1>1, <1>2, <1>3, <2>2
    <3> HIDE DEF n
    <3> QED BY <1>3, <2>1, <3>1
  <2>4. \A i \in Calling(h) : Cardinality(h[i].calls) = n(i)
    BY <1>3, <2>1
  <2>5. \A j \in 1..N : h[j].role = "tool" => \E i \in Calling(h) : i < j /\ j <= i + n(i)
    BY <1>1, <1>2, <1>3, <1>10 DEF InSequence
  <2> HIDE DEF n
  <2> QED BY <1>1, <2>3, <2>4, <2>5 DEF InSequence
<1> QED BY <1>3, <1>4, <1>5, <1>6, <1>9, <1>10

-----------------------------------------------------------------------------
(* The other fields of a request, step by step; M stands for the histories.*)
Shape(M) ==
  [stream : BOOLEAN, messages : M, tools : BOOLEAN,
   choice : {Absent, "auto", "required", "f", "none", "{none}", "{auto}", "{function}",
             "{required}", "{function:f}", "{other}"},
   alias : Nat \cup {Absent}, max : Nat \cup {Absent}, effort : Nat \cup {Absent, Unknown},
   image : {Absent, "url", "{url}"}]

LEMMA MaxTokensIs ==
  ASSUME NEW M, NEW b \in Shape(M), NEW c, c = MaxTokens(b)
  PROVE  /\ c \in Shape(M) /\ c.alias = Absent
         /\ c.max = Absent <=> (b.max = Absent /\ b.alias \in {Absent, 0})
         /\ c.stream = b.stream /\ c.messages = b.messages /\ c.effort = b.effort
BY DEF Shape, MaxTokens

LEMMA ToolChoiceIs ==
  ASSUME NEW M, NEW b \in Shape(M), NEW c, c = ToolChoice(b)
  PROVE  /\ c \in Shape(M) /\ c.choice \in {Absent, "auto", "required", "f"}
         /\ c.stream = b.stream /\ c.messages = b.messages /\ c.effort = b.effort
         /\ c.alias = b.alias /\ c.max = b.max
<1>1. CASE b.choice \in {"none", "{none}"}
  BY <1>1 DEF Shape, ToolChoice
<1>2. CASE b.choice \in {"{auto}", "{function}"}
  BY <1>2 DEF Shape, ToolChoice
<1>3. CASE b.choice = "{required}"
  BY <1>3 DEF Shape, ToolChoice
<1>4. CASE b.choice = "{function:f}"
  BY <1>4 DEF Shape, ToolChoice
<1>5. CASE b.choice = "{other}"
  BY <1>5 DEF Shape, ToolChoice
<1>6. CASE b.choice \notin {"none", "{none}", "{auto}", "{function}", "{required}",
                            "{function:f}", "{other}"}
  BY <1>6 DEF Shape, ToolChoice
<1> QED BY <1>1, <1>2, <1>3, <1>4, <1>5, <1>6

LEMMA ImageURLIs ==
  ASSUME NEW M, NEW b \in Shape(M), NEW c, c = ImageURL(b)
  PROVE  /\ c \in Shape(M) /\ c.choice = b.choice
         /\ c.stream = b.stream /\ c.messages = b.messages /\ c.effort = b.effort
         /\ c.alias = b.alias /\ c.max = b.max
BY DEF Shape, ImageURL

LEMMA EffortIs ==
  ASSUME NEW M, NEW b \in Shape(M), NEW S \in SUBSET Nat, NEW c, c = Effort(b, S)
  PROVE  /\ c.choice = b.choice /\ c.stream = b.stream /\ c.messages = b.messages
         /\ c.alias = b.alias /\ c.max = b.max
         /\ b.effort \notin Nat => c.effort = b.effort
         /\ b.effort \in Nat /\ S # {} =>
              /\ c.effort \in S
              /\ \A e \in S : e <= b.effort => e <= c.effort /\ c.effort <= b.effort
<1> DEFINE upTo == {e \in S : e <= b.effort}
           new == IF upTo # {} THEN Max(upTo) ELSE Min(S)
<1>1. CASE b.effort \notin Nat \/ S = {}
  <2>1. b.effort \in {Absent, Unknown} \/ S = {}
    BY <1>1 DEF Shape
  <2>2. c = b
    BY <2>1 DEF Effort
  <2> QED BY <1>1, <2>2
<1>2. CASE b.effort \in Nat /\ S # {}
  <2>1. c = [b EXCEPT !.effort = new]
    BY <1>2, EffortAssumption DEF Effort
  <2>2. b.effort \in Nat
    BY <1>2
  <2> HIDE DEF new
  <2>3. /\ c.choice = b.choice /\ c.stream = b.stream /\ c.messages = b.messages
        /\ c.alias = b.alias /\ c.max = b.max /\ c.effort = new
    BY <2>1 DEF Shape
  <2>4. CASE upTo = {}
    <3>1. PICK m \in S : \A k \in S : m <= k
      BY <1>2, LowestOf
    <3>2. Min(S) \in S
      BY <3>1 DEF Min
    <3>3. new = Min(S) /\ \A e \in S : ~(e <= b.effort)
      BY <2>4 DEF new
    <3> QED BY <1>2, <2>3, <3>2, <3>3
  <2>5. CASE upTo # {}
    <3>1. upTo \in SUBSET Nat /\ \A k \in upTo : k <= b.effort
      OBVIOUS
    <3>2. PICK m \in upTo : \A k \in upTo : k <= m
      <4> HIDE DEF upTo
      <4> QED BY <2>2, <2>5, <3>1, HighestOf
    <3>3. Max(upTo) = m
      <4> HIDE DEF upTo
      <4> QED BY <3>1, <3>2, MaxIs
    <3>4. new = m
      BY <2>5, <3>3 DEF new
    <3>5. new \in S /\ \A e \in S : e <= b.effort => e <= new /\ new <= b.effort
      <4>1. m \in S /\ m <= b.effort
        OBVIOUS
      <4>2. \A e \in S : e <= b.effort => e <= m
        BY <3>2
      <4> QED BY <3>4, <4>1, <4>2
    <3> QED BY <1>2, <2>3, <3>5
  <2> QED BY <2>4, <2>5
<1> QED BY <1>1, <1>2

LEMMA RewrittenIs ==
  ASSUME NEW b \in Bodies, NEW S \in SUBSET Nat, NEW p, p = Rewritten(b, S)
  PROVE  /\ p.messages = Cleaned(Repacked(NormalRoles(b.messages)))
         /\ p.stream /\ p.alias = Absent
         /\ p.choice \in {Absent, "auto", "required", "f"}
         /\ p.max = Absent <=> (b.max = Absent /\ b.alias \in {Absent, 0})
         /\ b.effort \notin Nat => p.effort = b.effort
         /\ b.effort \in Nat /\ S # {} =>
              /\ p.effort \in S
              /\ \A e \in S : e <= b.effort => e <= p.effort /\ p.effort <= b.effort
<1> DEFINE w == Cleaned(Repacked(NormalRoles(b.messages)))
           M == Histories \cup {w}
           b1 == [b EXCEPT !.stream = TRUE]
           b2 == MaxTokens(b1)
           b3 == ToolChoice(b2)
           b4 == ImageURL(b3)
           b5 == [b4 EXCEPT !.messages = w]
<1> HIDE DEF w
<1>1. /\ b1 \in Shape(M) /\ b1.stream /\ b1.messages = b.messages /\ b1.effort = b.effort
      /\ b1.max = b.max /\ b1.alias = b.alias
  BY DEF Bodies, Shape
<1> HIDE DEF M, b1
<1>2. /\ b2 \in Shape(M) /\ b2.alias = Absent
      /\ b2.max = Absent <=> (b1.max = Absent /\ b1.alias \in {Absent, 0})
      /\ b2.stream = b1.stream /\ b2.messages = b1.messages /\ b2.effort = b1.effort
  BY <1>1, MaxTokensIs
<1> HIDE DEF b2
<1>3. /\ b3 \in Shape(M) /\ b3.choice \in {Absent, "auto", "required", "f"}
      /\ b3.stream = b2.stream /\ b3.messages = b2.messages /\ b3.effort = b2.effort
      /\ b3.alias = b2.alias /\ b3.max = b2.max
  BY <1>2, ToolChoiceIs
<1> HIDE DEF b3
<1>4. /\ b4 \in Shape(M) /\ b4.choice = b3.choice
      /\ b4.stream = b3.stream /\ b4.messages = b3.messages /\ b4.effort = b3.effort
      /\ b4.alias = b3.alias /\ b4.max = b3.max
  BY <1>3, ImageURLIs
<1>5. p = Effort([b4 EXCEPT !.messages = Cleaned(Repacked(NormalRoles(@)))], S)
  BY DEF Rewritten, b1, b2, b3
<1> HIDE DEF b4
<1>6. p = Effort(b5, S)
  BY <1>1, <1>2, <1>3, <1>4, <1>5 DEF w
<1>7. /\ b5 \in Shape(M) /\ b5.messages = w
      /\ b5.choice = b4.choice /\ b5.stream = b4.stream /\ b5.effort = b4.effort
      /\ b5.alias = b4.alias /\ b5.max = b4.max
  BY <1>4 DEF Shape, M
<1> HIDE DEF b5
<1>8. /\ p.choice = b5.choice /\ p.stream = b5.stream /\ p.messages = b5.messages
      /\ p.alias = b5.alias /\ p.max = b5.max
      /\ b5.effort \notin Nat => p.effort = b5.effort
      /\ b5.effort \in Nat /\ S # {} =>
           /\ p.effort \in S
           /\ \A e \in S : e <= b5.effort => e <= p.effort /\ p.effort <= b5.effort
  BY <1>6, <1>7, EffortIs
<1> QED BY <1>1, <1>2, <1>3, <1>4, <1>7, <1>8 DEF w

-----------------------------------------------------------------------------
(* The request is one the client can send until it is prepared, and what   *)
(* is sent is what Prepared makes of it.                                   *)
RequestInv ==
  /\ pc \in {"prepare", "send"} => asked \in Bodies \cup {NotJSON}
  /\ pc = "send" => body = Prepared(asked, Supported)

LEMMA NumberedIs ==
  ASSUME NEW n \in Nat, NEW h \in [1..n -> Messages] PROVE Numbered(h) \in Histories
<1>1. \A j \in 1..n : h[j] \in Message
  BY RequestAssumption
<1>2. \A m \in Message, j \in Nat : [m EXCEPT !.pos = j] \in Message /\ [m EXCEPT !.pos = j].pos = j
  BY DEF Message
<1>3. Numbered(h) = [j \in 1..n |-> [h[j] EXCEPT !.pos = j]]
  BY DEF Numbered
<1>4. \A j \in 1..n : [h[j] EXCEPT !.pos = j] \in Message /\ [h[j] EXCEPT !.pos = j].pos = j
  BY <1>1, <1>2
<1>5. Numbered(h) \in Seq(Message) /\ DOMAIN Numbered(h) = 1..n
  <2>1. Numbered(h) \in [1..n -> Message]
    BY <1>3, <1>4
  <2> QED BY <2>1
<1>6. \A j \in 1..n : Numbered(h)[j].pos = j
  BY <1>3, <1>4
<1> QED BY <1>5, <1>6 DEF Histories

LEMMA RequestInit == StreamInit => RequestInv
<1> SUFFICES ASSUME StreamInit PROVE asked \in Bodies \cup {NotJSON} /\ pc = "prepare"
  BY DEF RequestInv
<1>1. pc = "prepare"
  BY DEF StreamInit
<1>2. CASE asked \in Variants
  <2>1. Variants \subseteq Bodies \cup {NotJSON}
    BY RequestAssumption
  <2> QED BY <1>1, <1>2, <2>1
<1>3. CASE \E n \in 0..MaxMessages : \E h \in [1..n -> Messages] :
             asked = [Plain EXCEPT !.messages = Numbered(h)]
  <2>1. PICK n \in 0..MaxMessages : \E h \in [1..n -> Messages] :
               asked = [Plain EXCEPT !.messages = Numbered(h)]
    BY <1>3
  <2>2. PICK h \in [1..n -> Messages] : asked = [Plain EXCEPT !.messages = Numbered(h)]
    BY <2>1
  <2>3. n \in Nat
    BY <2>1, StreamAssumption
  <2>4. Numbered(h) \in Histories
    BY <2>3, NumberedIs
  <2>5. Plain \in Bodies
    BY RequestAssumption
  <2>6. \A b \in Bodies, m \in Histories : [b EXCEPT !.messages = m] \in Bodies
    BY DEF Bodies
  <2> QED BY <1>1, <2>2, <2>4, <2>5, <2>6
<1> QED BY <1>1, <1>2, <1>3 DEF StreamInit

LEMMA RequestStep == RequestInv /\ [StreamNext]_streamVars => RequestInv'
<1> SUFFICES ASSUME RequestInv, [StreamNext]_streamVars PROVE RequestInv'
  OBVIOUS
<1> DEFINE Over == pc' \notin {"prepare", "send"}
           Same == UNCHANGED <<pc, asked, body>>
<1>0. Over \/ Same => RequestInv'
  BY DEF RequestInv
<1>1. CASE Prepare
  BY <1>1 DEF Prepare, RequestInv
<1>2. CASE Send \/ TransportFails \/ ReadErrorBody \/ Answered \/ AnsweredError
  <2>1. Over
    BY <1>2 DEF Send, TransportFails, ReadErrorBody, Answered, AnsweredError
  <2> QED BY <1>0, <2>1
<1>3. CASE Fill \/ FoundIdle \/ Cut \/ SendFrame \/ SendBlank \/ EndAnswer
  <2>1. Same
    BY <1>3 DEF Fill, FoundIdle, Cut, SendFrame, SendBlank, EndAnswer, request
  <2> QED BY <1>0, <2>1
<1>4. CASE ReadFails \/ EndOfStream \/ TakeDone
  <2>1. Over
    BY <1>4 DEF ReadFails, EndOfStream, TakeDone, ReadingEnds
  <2> QED BY <1>0, <2>1
<1>5. CASE TakeLine
  <2>1. Over
    BY <1>5 DEF TakeLine
  <2> QED BY <1>0, <2>1
<1>6. CASE WriteLine \/ WriteFails \/ WriteLost \/ Apologise \/ WriteDone \/ ChargeAndClose \/ Reply
  <2>1. Over
    BY <1>6 DEF WriteLine, WriteFails, WriteLost, Apologise, WriteDone, ChargeAndClose, Reply
  <2> QED BY <1>0, <2>1
<1>7. CASE ClientStalls \/ ClientGoesOn \/ ClientLeaves \/ Tick \/ UNCHANGED streamVars
  <2>1. Same
    BY <1>7 DEF ClientStalls, ClientGoesOn, ClientLeaves, Tick, streamVars, request
  <2> QED BY <1>0, <2>1
<1> QED
  BY <1>1, <1>2, <1>3, <1>4, <1>5, <1>6, <1>7 DEF StreamNext, HandlerNext, WatchdogNext

LEMMA WireInvariant == RequestInv => WireContract
<1> SUFFICES ASSUME RequestInv, pc = "send", asked # NotJSON PROVE WireContract
  <2> SUFFICES ASSUME RequestInv, pc = "send", asked = NotJSON PROVE body = asked
    BY DEF WireContract
  <2> QED BY DEF RequestInv, Prepared
<1> DEFINE in == asked.messages
           h == NormalRoles(in)
           wire == body.messages
           N == Len(in)
<1>1. asked \in Bodies /\ body = Rewritten(asked, Supported)
  BY DEF RequestInv, Prepared
<1>2. NoId \notin Ids /\ IsFiniteSet(Ids) /\ Supported \in SUBSET Nat
  BY RequestAssumption
<1>3. in \in Histories
  BY <1>1 DEF Bodies
<1>4. /\ wire = Cleaned(Repacked(h))
      /\ body.stream /\ body.alias = Absent
      /\ body.choice \in {Absent, "auto", "required", "f"}
      /\ body.max = Absent <=> (asked.max = Absent /\ asked.alias \in {Absent, 0})
      /\ asked.effort \notin Nat => body.effort = asked.effort
      /\ asked.effort \in Nat /\ Supported # {} =>
           /\ body.effort \in Supported
           /\ \A e \in Supported : e <= asked.effort => e <= body.effort /\ body.effort <= asked.effort
  BY <1>1, <1>2, RewrittenIs
<1>5. /\ h \in Histories /\ Len(h) = N
      /\ \A j \in 1..N : /\ h[j].id = in[j].id
                         /\ h[j].role = IF in[j].role = "developer" THEN "system" ELSE in[j].role
  BY <1>3, NormalIs
<1>6. /\ CallIds(h) = CallIds(in) /\ ResultIds(h) = ResultIds(in)
      /\ UniqueIds(in) => UniqueIds(h)
      /\ ~Interrupted(in) => ~Interrupted(h)
      /\ InSequence(in) => InSequence(h)
  BY <1>2, <1>3, NormalSame
<1>7. /\ in \in Seq(Message) /\ h \in Seq(Message) /\ N \in Nat
      /\ Positions(in) = 1..N /\ Positions(h) = 1..N
  BY <1>3, <1>5 DEF Histories, Positions
<1> HIDE DEF in, h, wire
<1>8. PICK t : WireOf(h, wire, t)
  BY <1>4, <1>7, WireIs
<1>9. wire \in Seq(Message) /\ Len(wire) \in Nat /\ Positions(wire) = 1..Len(wire)
  BY <1>8 DEF WireOf, Positions
<1>10. Paired(wire) /\ CallIds(wire) = CallIds(in) \cap ResultIds(in)
  BY <1>2, <1>5, <1>6, <1>8, WireIds DEF AnsweredIds
<1>11. UniqueIds(in) /\ ~Interrupted(in) /\ Traffic(in) # {} => InSequence(wire)
  <2>1. Traffic(h) = Traffic(in)
    BY <1>6 DEF Traffic
  <2> QED BY <1>2, <1>5, <1>6, <1>8, <2>1, WireSequence
<1>12. InSequence(in) => [j \in DOMAIN wire |-> wire[j].pos] = [j \in DOMAIN in |-> j]
  <2> SUFFICES ASSUME InSequence(in)
               PROVE  [j \in DOMAIN wire |-> wire[j].pos] = [j \in DOMAIN in |-> j]
    OBVIOUS
  <2>1. Len(wire) = N /\ \A n \in 1..Len(wire) : wire[n].pos = n
    BY <1>2, <1>5, <1>6, <1>8, WireKept
  <2>2. DOMAIN wire = 1..N /\ DOMAIN in = 1..N
    BY <1>7, <1>9, <2>1
  <2> QED BY <2>1, <2>2
<1>13. \A j \in Positions(in) :
         Stays(wire, j) \/ (in[j].role = "tool" /\ in[j].id \notin CallIds(in))
  <2> TAKE j \in Positions(in)
  <2>1. Stays(wire, j) \/ (h[j].role = "tool" /\ h[j].id \notin CallIds(h))
    BY <1>2, <1>5, <1>7, <1>8, WireStays
  <2> QED BY <1>5, <1>6, <1>7, <2>1
<1>14. \A a, b \in Positions(wire) : a < b /\ wire[a].pos > wire[b].pos
         => wire[a].role = "tool" /\ IsNotice(wire[b])
  BY <1>5, <1>8, WireOrder
<1>15. \A j \in Positions(wire) : wire[j].role # "developer"
  <2> TAKE j \in Positions(wire)
  <2>1. t[j] \in 1..N /\ wire[j].role = h[t[j]].role
    BY <1>7, <1>8, <1>9 DEF WireOf, Staying
  <2> QED BY <1>5, <2>1
<1> QED
  BY <1>4, <1>10, <1>11, <1>12, <1>13, <1>14, <1>15 DEF WireContract, in, wire

(* Whatever the history, what goes out is what the upstream takes and      *)
(* still what the client said: calls and results are paired, those that    *)
(* stood together go out together, nothing else is dropped or moved, and a *)
(* known effort becomes a supported one.  An effort that is none of the    *)
(* levels goes out as it came, and so does a body that is no JSON object.  *)
THEOREM WireContractCorrect == StreamSpec => []WireContract
BY RequestInit, RequestStep, WireInvariant, PTL DEF StreamSpec
=============================================================================
