------------------------------ MODULE Records ------------------------------
(***************************************************************************)
(* What the proxy writes down about a chat request when it ends:           *)
(* chatStat.done puts an entry into the request log (reqlog.go), a ring of *)
(* fixed capacity, and then adds the call to the statistics (stats.go), a  *)
(* tree of counters per day, account, key and model.  Both stores have a   *)
(* lock of their own and are written to a file by the same debounce: every *)
(* record starts a goroutine, the first one sleeps, the others leave, and  *)
(* the sleeper writes the file if the store is still dirty.                *)
(*                                                                         *)
(* A counter of the tree is addressed by a cell [uid, key, model], where   *)
(* All stands for "summed over"; a Go map without the entry is a tree      *)
(* without the cell.  Tokens, credits and first-byte times move exactly as *)
(* the number of requests does and are left out; errors are kept, because  *)
(* they do not.                                                            *)
(*                                                                         *)
(* Ghosts: a book carries the bag of calls it was made from, by day        *)
(* (calls) and all together (ever), the log carries its arrivals           *)
(* (arrived), and failed says that the last write of a store was lost.     *)
(***************************************************************************)
EXTENDS Integers, Sequences, FiniteSets, FiniteSetsExt, SequencesExt

CONSTANTS
    Workers,      \* the goroutines that serve chat requests
    Calls,        \* the calls they serve: [uid, key, model, err]
    Boots,        \* the sets of accounts the pool may hold when it starts
    Legacy,       \* the calls of a stats.json older than the account tree
    All,          \* "", the scope of every account, key or model
    Nil,          \* no call, no account, no key, no ring
    KeepDays,     \* statsKeepDays
    Capacity,     \* reqlogCapacity
    MaxDay,       \* bound: the last day
    MaxCalls,     \* bound: the calls served
    MaxFaults     \* bound: restarts and lost writes

VARIABLES
    today,        \* the local date
    up,           \* main has come to serving
    served,       \* how many calls were served so far
    doing,        \* worker -> the call it is writing down, with its day
    book,         \* statsStore: Days and Total, with the ghosts calls, ever
    loaded,       \* statsStore.loaded
    ring,         \* reqlogStore: buf, next, count, with the ghost arrived
    dirty,        \* store -> dirty
    asleep,       \* store -> flushing: a flusher sleeps its two seconds
    starting,     \* store -> flushers that have not yet taken the lock
    file,         \* store -> what can be read of its file: {contents} or Unreadable
    failed,       \* store -> ghost: the last write was lost
    faults        \* how many faults happened so far

statsVars == <<book, loaded>>
recVars == <<today, up, served, doing, statsVars, ring, dirty, asleep, starting,
             file, failed, faults>>

Stores == {"stats", "log"}

\* A missing file, or one whose writing was cut off, which is not valid JSON.
Unreadable == {}

\* A call that is counted has an account and a key ("-" where there is none);
\* the history of before has neither.
ASSUME RecordsAssumption ==
    /\ Capacity \in Nat \ {0} /\ KeepDays \in Nat \ {0}
    /\ All # Nil /\ IsFiniteSet(Legacy)
    /\ \A c \in Calls \cup Legacy :
         /\ c = [uid |-> c.uid, key |-> c.key, model |-> c.model, err |-> c.err]
         /\ c.err \in BOOLEAN /\ c.model # All
    /\ \A c \in Calls : {c.uid, c.key} \cap {All, Nil} = {}
    /\ \A c \in Legacy : c.uid = Nil /\ c.key = Nil
    /\ \A uids \in Boots : uids \cap {All, Nil} = {}

(***************************************************************************)
(* The statistics                                                          *)
(***************************************************************************)
Once(c) == [requests |-> 1, errors |-> IF c.err THEN 1 ELSE 0]
Zero == [requests |-> 0, errors |-> 0]
Plus(a, b) == [requests |-> a.requests + b.requests,
               errors |-> a.errors + b.errors]

\* Fault: an error answer is not counted for the key, only for its account.
RecordCellsNoKey(c) ==
    {cell \in [uid : {All, c.uid}, key : {All, c.key}, model : {All, c.model}] :
        /\ cell.uid = All => cell.key = All
        /\ c.err => cell.key = All}

\* The counters a call is added to: its day or the total, its account, its
\* account's key, and the models of each.
RecordCells(c) ==
    {cell \in [uid : {All, c.uid}, key : {All, c.key}, model : {All, c.model}] :
        cell.uid = All => cell.key = All}

\* The total keeps no models of its own, only those of its accounts.
TotalCells(c) == {cell \in RecordCells(c) : cell.uid = All => cell.model = All}

CellOf(tree, cell) == IF cell \in DOMAIN tree THEN tree[cell] ELSE Zero

Bump(tree, cells, n) ==
    [cell \in DOMAIN tree \cup cells |->
        IF cell \in cells THEN Plus(CellOf(tree, cell), n) ELSE tree[cell]]

At(f, d, none) == IF d \in DOMAIN f THEN f[d] ELSE none
Put(f, d, v) == [x \in DOMAIN f \cup {d} |-> IF x = d THEN v ELSE f[x]]
Keep(f, days) == [d \in DOMAIN f \cap days |-> f[d]]

\* A bag of calls: how often each was made.
NoCalls == [c \in {} |-> 0]
AddCall(bag, c) == Put(bag, c, At(bag, c, 0) + 1)
Total(bag, calls) == MapThenSumSet(LAMBDA c : bag[c], calls)

\* What a bag of calls amounts to in a scope.
InScope(bag, uid, key, model) ==
    {c \in DOMAIN bag : /\ uid \in {All, c.uid}
                        /\ key \in {All, c.key}
                        /\ model \in {All, c.model}}
Counted(bag, uid, key, model) ==
    LET scope == InScope(bag, uid, key, model)
    IN  [requests |-> Total(bag, scope), errors |-> Total(bag, {c \in scope : c.err})]

EmptyTree == [cell \in {} |-> Zero]
EmptyBook == [days |-> [d \in {} |-> EmptyTree], total |-> EmptyTree,
              calls |-> [d \in {} |-> NoCalls], ever |-> NoCalls]

\* pruneLocked: with more than KeepDays buckets, those before the window that
\* ends on the record's own day go.
KeptDays(days, now) ==
    IF Cardinality(days) <= KeepDays THEN days
    ELSE {d \in days : d >= now - KeepDays + 1}

\* statsStore.record under the lock, for a call whose date was read before.
Recorded(b, c, day) ==
    LET days == Put(b.days, day,
                    Bump(At(b.days, day, EmptyTree), RecordCells(c), Once(c)))
        kept == KeptDays(DOMAIN days, day)
    IN  [days |-> Keep(days, kept),
         total |-> Bump(b.total, TotalCells(c), Once(c)),
         calls |-> Put(b.calls, day, AddCall(At(b.calls, day, NoCalls), c)),
         ever |-> AddCall(b.ever, c)]

\* A book written before the account tree existed: the site's counters only.
SiteCells(c) == {cell \in RecordCells(c) : cell.uid = All}
LegacyCalls == [c \in Legacy |-> 1]
LegacyTree(cells) == [cell \in cells |-> Counted(LegacyCalls, All, All, cell.model)]
LegacyBook ==
    [days |-> [d \in {1} |-> LegacyTree(UNION {SiteCells(c) : c \in Legacy})],
     total |-> LegacyTree(UNION {SiteCells(c) \cap TotalCells(c) : c \in Legacy}),
     calls |-> [d \in {1} |-> LegacyCalls], ever |-> LegacyCalls]

HasAccounts(tree) == \E cell \in DOMAIN tree : cell.uid # All

\* The site's counters of a tree, copied to the account u.
Attributed(tree, u) ==
    LET moved(cell) == [cell EXCEPT !.uid = u]
        site == {cell \in DOMAIN tree : cell.uid = All}
        copy == {moved(cell) : cell \in site}
    IN  [cell \in DOMAIN tree \cup copy |->
            IF cell \in copy THEN tree[[cell EXCEPT !.uid = All]] ELSE tree[cell]]

\* The calls of no account, given to the account u.
Relabelled(bag, u) ==
    [c \in {[x EXCEPT !.uid = u] : x \in DOMAIN bag} |-> bag[[c EXCEPT !.uid = Nil]]]

\* BackfillLegacyStats: the history of before is given to the only account.
NeedsBackfill(b, uids) ==
    /\ Cardinality(uids) = 1
    /\ ~HasAccounts(b.total)
    /\ b.total # EmptyTree \/ DOMAIN b.days # {}

Backfilled(b, uids) ==
    LET u == CHOOSE x \in uids : TRUE
        legacy(d) == ~HasAccounts(b.days[d])
    IN  [days |-> [d \in DOMAIN b.days |->
                     IF legacy(d) THEN Attributed(b.days[d], u) ELSE b.days[d]],
         total |-> Attributed(b.total, u),
         calls |-> [d \in DOMAIN b.calls |->
                     IF legacy(d) THEN Relabelled(b.calls[d], u) ELSE b.calls[d]],
         ever |-> Relabelled(b.ever, u)]

(***************************************************************************)
(* What adminStats shows: counters per scope <<uid, key>>                  *)
(***************************************************************************)
UidsOf(tree) == {cell.uid : cell \in DOMAIN tree} \ {All}
KeysOf(tree) == {cell.key : cell \in DOMAIN tree} \ {All}

\* One key of one account is looked up in the account's entry: where there is
\* none, the nil acctStat is dereferenced and the page gets no answer.
Panic == [requests |-> -1, errors |-> -1]
NoEntry(uids, uid, key) == uid # All /\ key # All /\ uid \notin uids

\* viewOfDay and viewOfTotals, for one model or All: a key of every account
\* is merged over the accounts, the rest is one counter of the tree.
View(tree, uid, key, model) ==
    LET cell(u) == CellOf(tree, [uid |-> u, key |-> key, model |-> model])
    IN  IF NoEntry(UidsOf(tree), uid, key) THEN Panic
        ELSE IF uid = All /\ key # All
        THEN FoldSet(LAMBDA u, sum : Plus(sum, cell(u)), Zero, UidsOf(tree))
        ELSE cell(uid)

\* viewOfDay of a date: a day without a bucket is a nil dayStat.
DayView(b, d, uid, key, model) ==
    IF d \in DOMAIN b.days THEN View(b.days[d], uid, key, model) ELSE Zero

\* keyAggs: the keys of a scope with their totals.
KeyAggs(tree, uid) ==
    LET seen == {cell.key : cell \in {x \in DOMAIN tree : uid \in {All, x.uid}}} \ {All}
    IN  [k \in seen |-> View(tree, uid, k, All)]

(***************************************************************************)
(* The ring of the request log                                             *)
(***************************************************************************)
EmptyRing == [buf |-> [i \in 0..(Capacity - 1) |-> Nil], next |-> 0, count |-> 0,
              arrived |-> <<>>]
NoRing == [EmptyRing EXCEPT !.buf = Nil]

LastOf(s, n) == SubSeq(s, IF Len(s) > n THEN Len(s) - n + 1 ELSE 1, Len(s))

Push(r, e) ==
    [buf |-> [r.buf EXCEPT ![r.next] = e],
     next |-> (r.next + 1) % Capacity,
     count |-> IF r.count < Capacity THEN r.count + 1 ELSE r.count,
     arrived |-> LastOf(Append(r.arrived, e), Capacity)]

\* Fault: a full ring is written from its first slot.
OrderedFromZero(r) == [i \in 1..r.count |-> r.buf[i - 1]]

\* persistLocked: the ring in the order of time.
Ordered(r) ==
    LET from == IF r.count < Capacity THEN 0 ELSE r.next
    IN  [i \in 1..r.count |-> r.buf[(from + i - 1) % Capacity]]

\* recentRequests: the newest n, newest first.
Recent(r, n) ==
    [i \in 1..Min({n, r.count}) |-> r.buf[(r.next - i + Capacity) % Capacity]]

\* What a file gives back: a missing or a torn one is as good as empty.
Read(s) ==
    IF file[s] = Unreadable THEN IF s = "stats" THEN EmptyBook ELSE <<>>
    ELSE CHOOSE content \in file[s] : TRUE

LoadedRing == FoldLeft(Push, EmptyRing, Read("log"))
LoadedBook == IF loaded THEN book ELSE Read("stats")
RingOrLoaded == IF ring.buf = Nil THEN LoadedRing ELSE ring
RingOrNew == IF ring.buf = Nil THEN EmptyRing ELSE ring

-----------------------------------------------------------------------------
(***************************************************************************)
(* Start and restart; the old history is of the window's first day         *)
(***************************************************************************)
RecInit ==
    /\ today = KeepDays /\ up = FALSE /\ served = 0 /\ faults = 0
    /\ doing = [w \in Workers |-> Nil]
    /\ \E old \in {Unreadable, {LegacyBook}} :
        file = [s \in Stores |-> IF s = "stats" THEN old ELSE Unreadable]
    /\ book = EmptyBook /\ loaded = FALSE /\ ring = NoRing
    /\ dirty = [s \in Stores |-> FALSE]
    /\ asleep = [s \in Stores |-> FALSE]
    /\ starting = [s \in Stores |-> 0]
    /\ failed = [s \in Stores |-> FALSE]

\* main: the accounts are loaded, then the old history is given to the only
\* one, which saves the statistics at once and leaves them dirty.
Boot(uids) ==
    LET only == Cardinality(uids) = 1
        old == Read("stats")
        fill == only /\ NeedsBackfill(old, uids)
    IN  /\ ~up
        /\ up' = TRUE
        /\ loaded' = only
        /\ book' = IF fill THEN Backfilled(old, uids) ELSE IF only THEN old ELSE book
        /\ file' = IF fill THEN [file EXCEPT !["stats"] = {book'}] ELSE file
        /\ dirty' = IF fill THEN [dirty EXCEPT !["stats"] = TRUE] ELSE dirty
        /\ UNCHANGED <<today, served, doing, ring, asleep, starting, failed, faults>>

\* The process ends: neither store is written at exit.  A flusher may be cut
\* off between the truncation of a file and the end of its writing.
Restart ==
    /\ up /\ faults < MaxFaults
    /\ faults' = faults + 1
    /\ up' = FALSE
    /\ \E cut \in SUBSET {s \in Stores : asleep[s] /\ dirty[s]} :
        file' = [s \in Stores |-> IF s \in cut THEN Unreadable ELSE file[s]]
    /\ doing' = [w \in Workers |-> Nil]
    /\ book' = EmptyBook /\ loaded' = FALSE /\ ring' = NoRing
    /\ dirty' = [s \in Stores |-> FALSE]
    /\ asleep' = [s \in Stores |-> FALSE]
    /\ starting' = [s \in Stores |-> 0]
    /\ failed' = [s \in Stores |-> FALSE]
    /\ UNCHANGED <<today, served>>

(***************************************************************************)
(* The end of a request: chatStat.done                                     *)
(***************************************************************************)
\* Fault: a store that is dirty already is left to the flusher it must have.
MarkDirtyOnce(s) ==
    /\ dirty' = [dirty EXCEPT ![s] = TRUE]
    /\ starting' = [starting EXCEPT ![s] = IF dirty[s] THEN @ ELSE @ + 1]

\* Every record marks its store and starts a flusher.
MarkDirty(s) ==
    /\ dirty' = [dirty EXCEPT ![s] = TRUE]
    /\ starting' = [starting EXCEPT ![s] = @ + 1]

\* recordRequest: a ring that was never read from its file starts empty.  The
\* date of the statistics is read next, before their lock is taken: here.
RecordLog(w, c) ==
    /\ up /\ served < MaxCalls /\ doing[w] = Nil
    /\ served' = served + 1
    /\ doing' = [doing EXCEPT ![w] = [call |-> c, day |-> today]]
    /\ ring' = Push(RingOrNew, served')
    /\ MarkDirty("log")
    /\ UNCHANGED <<today, up, statsVars, asleep, file, failed, faults>>

\* statsStore.record, under its own lock and with the date read before.
RecordStats(w) ==
    /\ doing[w] # Nil
    /\ book' = Recorded(LoadedBook, doing[w].call, doing[w].day)
    /\ loaded' = TRUE
    /\ doing' = [doing EXCEPT ![w] = Nil]
    /\ MarkDirty("stats")
    /\ UNCHANGED <<today, up, served, ring, asleep, file, failed, faults>>

(***************************************************************************)
(* The debounce, the same in both stores: flushSoon                        *)
(***************************************************************************)
\* A flusher takes the lock: the first one sleeps, the others leave.
FlushSoon(s) ==
    /\ starting[s] > 0
    /\ starting' = [starting EXCEPT ![s] = @ - 1]
    /\ asleep' = [asleep EXCEPT ![s] = TRUE]
    /\ UNCHANGED <<today, up, served, doing, statsVars, ring, dirty, file,
                   failed, faults>>

\* What persistLocked writes.
Content(s) == IF s = "stats" THEN book ELSE Ordered(ring)

\* The sleeper wakes with the lock: a clean store is left alone.
Flush(s) ==
    /\ asleep[s]
    /\ asleep' = [asleep EXCEPT ![s] = FALSE]
    /\ dirty' = [dirty EXCEPT ![s] = FALSE]
    /\ file' = IF dirty[s] THEN [file EXCEPT ![s] = {Content(s)}] ELSE file
    /\ failed' = [failed EXCEPT ![s] = @ /\ ~dirty[s]]
    /\ UNCHANGED <<today, up, served, doing, statsVars, ring, starting, faults>>

\* The same, when os.WriteFile fails: the error is dropped, the store counts
\* as clean, and the file is as it was or cut off.
FlushFails(s) ==
    /\ asleep[s] /\ dirty[s] /\ faults < MaxFaults
    /\ faults' = faults + 1
    /\ asleep' = [asleep EXCEPT ![s] = FALSE]
    /\ dirty' = [dirty EXCEPT ![s] = FALSE]
    /\ \E left \in {file[s], Unreadable} : file' = [file EXCEPT ![s] = left]
    /\ failed' = [failed EXCEPT ![s] = TRUE]
    /\ UNCHANGED <<today, up, served, doing, statsVars, ring, starting>>

(***************************************************************************)
(* The admin page asks; the day goes by                                    *)
(***************************************************************************)
\* recentRequests loads the file only into a ring that was never used.
QueryLog ==
    /\ up
    /\ ring' = RingOrLoaded
    /\ UNCHANGED <<today, up, served, doing, statsVars, dirty, asleep, starting,
                   file, failed, faults>>

QueryStats ==
    /\ up
    /\ book' = LoadedBook
    /\ loaded' = TRUE
    /\ UNCHANGED <<today, up, served, doing, ring, dirty, asleep, starting,
                   file, failed, faults>>

\* No request waits for the lock longer than a day.
Tick ==
    /\ today < MaxDay
    /\ \A w \in Workers : doing[w] # Nil => doing[w].day = today
    /\ today' = today + 1
    /\ UNCHANGED <<up, served, doing, statsVars, ring, dirty, asleep, starting,
                   file, failed, faults>>

RecNext ==
    \/ \E uids \in Boots : Boot(uids)
    \/ Restart
    \/ \E w \in Workers : \/ \E c \in Calls : RecordLog(w, c)
                          \/ RecordStats(w)
    \/ \E s \in Stores : FlushSoon(s) \/ Flush(s) \/ FlushFails(s)
    \/ QueryLog
    \/ QueryStats
    \/ Tick

RecSpec == RecInit /\ [][RecNext]_recVars
-----------------------------------------------------------------------------
ScopeUids == {All} \cup {c.uid : c \in Calls}
ScopeKeys == {All} \cup {c.key : c \in Calls}
ScopeModels == {All} \cup {c.model : c \in Calls}

\* What a scope shows of a bag of calls: its calls, or nothing at all.
Shown(bag, uid, key, model) ==
    IF NoEntry({c.uid : c \in DOMAIN bag}, uid, key) THEN Panic
    ELSE Counted(bag, uid, key, model)

\* Whatever account and key the page is filtered by, each day of the last
\* KeepDays, the total and the list of keys count exactly the calls that were
\* recorded in that scope and not lost with a file: the six counters a call
\* is added to, the merge over accounts, the attribution of old history and
\* the pruning of old days never count a call twice or leave one out, and the
\* page fails in one case only: a key of an account without a call there
\* (stats.go record, viewOfDay, viewOfTotals, keyAggs, BackfillLegacyStats).
ViewsCountCalls ==
    \A uid \in ScopeUids :
        /\ DOMAIN KeyAggs(book.total, uid) =
              {c.key : c \in {x \in DOMAIN book.ever : uid \in {All, x.uid}}} \ {Nil}
        /\ \A key \in ScopeKeys :
            /\ View(book.total, uid, key, All) = Shown(book.ever, uid, key, All)
            /\ \A d \in DOMAIN book.calls, m \in ScopeModels :
                 d > today - KeepDays =>
                    DayView(book, d, uid, key, m) = Shown(book.calls[d], uid, key, m)

\* The page can be filtered by an account and any key listed for it: every day
\* it shows then has an answer (stats.go adminStats).
OfferedScopesAnswered ==
    \A uid \in ScopeUids, d \in DOMAIN book.days :
        \A key \in DOMAIN KeyAggs(book.total, uid) :
            DayView(book, d, uid, key, All) # Panic

\* What is in memory and not in the file has a flusher that will write it,
\* unless the last write failed: two flushers never leave each other the work
\* (stats.go and reqlog.go flushSoon).
UnsavedHasFlusher ==
    \A s \in Stores :
        LET here == IF s = "stats" THEN loaded ELSE ring.buf # Nil
        IN  here /\ ~failed[s] /\ Content(s) # Read(s) => asleep[s] \/ starting[s] > 0

\* The page shows the newest calls, newest first, and the file keeps them in
\* the order of time, also once the ring has wrapped around and after it was
\* read back (reqlog.go persistLocked, recentRequests, loadRequests).
RingShowsNewest ==
    ring.buf # Nil =>
        /\ Ordered(ring) = ring.arrived
        /\ \A n \in 1..Capacity : Recent(ring, n) = Reverse(LastOf(ring.arrived, n))

\* loadRequests says that the newest entries are kept across restarts: a file
\* with room for more never loses one when the log is written again.
EarlierCallsKept ==
    [][\A old \in file["log"], new \in file'["log"] :
         Len(new) < Capacity => Range(old) \subseteq Range(new)]_recVars
=============================================================================
