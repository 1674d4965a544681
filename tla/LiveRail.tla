----------------------------------- MODULE LiveRail ----------------------------------
(***************************************************************************)
(* The rail of running traces: runningTraces (lib/live-list.ts), which     *)
(* caches the promise of a query, the query itself, and the tabs that poll *)
(* it (LiveTraceRail.tsx) above the table of traces.  Traces are numbered      *)
(* in the order of their first start times; they land in any order.        *)
(***************************************************************************)
EXTENDS Integers, FiniteSets, Sequences

CONSTANTS
    RailTabs,   \* open trace lists
    RailTraces, \* traces, numbered in the order in which they started
    Old,        \* those of them that started more than LOOKBACK_HOURS ago
    MaxRunning, \* MAX_RUNNING_TRACES
    RailTtl,    \* CACHE_TTL_MS
    MaxQueries, \* bound: queries sent
    MaxFlaws    \* bound: queries that fail

VARIABLES
    stored,     \* traces of which a span has landed
    lively,     \* those with a span but the root ingested within RUNNING_STALE_MS
    done,       \* those whose root has landed
    doneFor,    \* history: how long ago the root landed, up to RailTtl
    age,        \* how long ago the last query was sent, up to RailTtl
    window,     \* cache: the query whose promise it holds, or 0
    queries,    \* queries[q]: its state, what it reads; history: done when it was sent
    visible,    \* tabs that are open and visible: only these poll
    polls,      \* polls[t]: the queries that t's unaborted polls wait for
    known,      \* known[t]: the list t shows (traces, knownIds)
    due,        \* tabs that have asked for a refresh of their page
    page,       \* page[t]: the table as rendered: its rows, and those complete
    shown,      \* history: shown[t]: traces t ever showed as running
    closed,     \* history: closed[t]: traces that were done when they left t's rail
    over,       \* history: over[t]: traces done a TTL or more ago when t last asked
    flaws       \* failures so far

railTraces == <<stored, lively, done, doneFor>>
railCache  == <<age, window, queries>>
list       == <<known, due, page, shown, closed>>
requests   == <<polls, over>>
railVars   == <<railTraces, railCache, visible, requests, list, flaws>>

Expired == window = 0 \/ age >= RailTtl

RailInit ==
    /\ stored = {} /\ lively = {} /\ done = {} /\ doneFor = [i \in RailTraces |-> 0]
    /\ age = 0 /\ window = 0 /\ queries = <<>> /\ flaws = 0
    /\ visible = {} /\ due = {}
    /\ polls = [t \in RailTabs |-> {}]
    /\ known = [t \in RailTabs |-> {}]
    /\ page = [t \in RailTabs |-> [rows |-> {}, done |-> {}]]
    /\ shown = [t \in RailTabs |-> {}] /\ closed = [t \in RailTabs |-> {}]
    /\ over = [t \in RailTabs |-> {}]

\* A span that is no root lands: its trace begins, or shows activity again.
SpanLands(i) ==
    /\ i \notin lively
    /\ stored' = stored \cup {i} /\ lively' = lively \cup {i}
    /\ UNCHANGED <<done, doneFor, railCache, visible, requests, list, flaws>>

\* A trace's root span lands, after its other spans or before them.
Finish(i) ==
    /\ i \notin done
    /\ stored' = stored \cup {i} /\ done' = done \cup {i}
    /\ UNCHANGED <<lively, doneFor, railCache, visible, requests, list, flaws>>

\* Nothing of trace i has landed for RUNNING_STALE_MS.
FallsQuiet(i) ==
    /\ lively' = lively \ {i}
    /\ UNCHANGED <<stored, done, doneFor, railCache, visible, requests, list, flaws>>

Later(n) == IF n < RailTtl THEN n + 1 ELSE n

Elapse ==
    /\ age' = Later(age)
    /\ doneFor' = [i \in RailTraces |-> IF i \in done THEN Later(doneFor[i]) ELSE doneFor[i]]
    /\ UNCHANGED <<stored, lively, done, window, queries, visible, requests, list, flaws>>

SendQuery ==
    /\ Len(queries) < MaxQueries
    /\ queries' = Append(queries, [state |-> "open", reads |-> {}, past |-> done])
    /\ window' = Len(queries) + 1
    /\ age' = 0

\* runningTraces: an open window's promise is shared, else a query opens a new one.
RunningTraces == IF Expired THEN SendQuery ELSE UNCHANGED railCache

\* poll() aborts the poll under way and asks the route.
Ask(t) ==
    /\ RunningTraces
    /\ polls' = [polls EXCEPT ![t] = {window'}]
    /\ over' = [over EXCEPT ![t] = {i \in done : doneFor[i] >= RailTtl}]

Poll(t) ==
    /\ t \in visible
    /\ Ask(t)
    /\ UNCHANGED <<railTraces, visible, list, flaws>>

\* ORDER BY min(start_time) DESC LIMIT.
Newest(S) == {i \in S : Cardinality({j \in S : j > i}) < MaxRunning}

\* RUNNING_TRACES_QUERY: the newest active traces that have no root.  Of an old one it
\* looks at the spans that started within LOOKBACK_HOURS, which may leave out the root,
\* or those that landed lately: any of the old ones may be listed, or may not.
StillRunning(olds) == Newest((lively \ (done \cup Old)) \cup olds)

\* ClickHouse reads at any time between a query and its answer.
QueryReads(q) ==
    /\ queries[q].state = "open"
    /\ \E olds \in SUBSET (lively \cap Old) :
           queries' = [queries EXCEPT ![q].state = "read", ![q].reads = StillRunning(olds)]
    /\ UNCHANGED <<railTraces, age, window, visible, requests, list, flaws>>

QueryOk(q) ==
    /\ queries[q].state = "read"
    /\ queries' = [queries EXCEPT ![q].state = "ok"]
    /\ UNCHANGED <<railTraces, age, window, visible, requests, list, flaws>>

\* Faulty variant: any failure clears the window.
WindowCleared(q) == 0

\* A failed query leaves the cache, if it is still the one in it.
WindowAfter(q) == IF window = q THEN 0 ELSE window

QueryFails(q) ==
    /\ flaws < MaxFlaws
    /\ queries[q].state \in {"open", "read"}
    /\ queries' = [queries EXCEPT ![q].state = "failed"]
    /\ window' = WindowAfter(q)
    /\ flaws' = flaws + 1
    /\ UNCHANGED <<railTraces, age, visible, requests, list>>

\* The answer replaces the list; if a trace has left it, a refresh is asked for.
Apply(t, q) ==
    /\ q \in polls[t]
    /\ queries[q].state = "ok"
    /\ polls' = [polls EXCEPT ![t] = @ \ {q}]
    /\ known' = [known EXCEPT ![t] = queries[q].reads]
    /\ due' = IF known[t] \subseteq queries[q].reads THEN due ELSE due \cup {t}
    /\ shown' = [shown EXCEPT ![t] = @ \cup queries[q].reads]
    /\ closed' = [closed EXCEPT ![t] = @ \cup ((known[t] \ queries[q].reads) \cap done)]
    /\ UNCHANGED <<railTraces, railCache, visible, over, page, flaws>>

\* A failed query, answered 500, or a lost answer: the list stays.
Fruitless(t, q) ==
    /\ q \in polls[t]
    /\ queries[q].state \in {"ok", "failed"}
    /\ polls' = [polls EXCEPT ![t] = @ \ {q}]
    /\ UNCHANGED <<railTraces, railCache, visible, over, list, flaws>>

\* router.refresh(): the page is rendered anew.
Refresh(t) ==
    /\ t \in due
    /\ page' = [page EXCEPT ![t] = [rows |-> stored, done |-> done]]
    /\ due' = due \ {t}
    /\ UNCHANGED <<railTraces, railCache, visible, requests, known, shown, closed, flaws>>

\* stop(): the timer is cleared, the poll under way aborted.
HideTab(t) ==
    /\ t \in visible
    /\ visible' = visible \ {t}
    /\ polls' = [polls EXCEPT ![t] = {}]
    /\ UNCHANGED <<railTraces, railCache, over, list, flaws>>

\* start(): on mounting, and when the tab becomes visible again.
ShowTab(t) ==
    /\ t \notin visible
    /\ visible' = visible \cup {t}
    /\ Ask(t)
    /\ UNCHANGED <<railTraces, list, flaws>>

RailNext ==
    \/ Elapse
    \/ \E i \in RailTraces : SpanLands(i) \/ Finish(i) \/ FallsQuiet(i)
    \/ \E t \in RailTabs : Poll(t) \/ HideTab(t) \/ ShowTab(t) \/ Refresh(t)
    \/ \E t \in RailTabs : \E q \in polls[t] : Apply(t, q) \/ Fruitless(t, q)
    \/ \E q \in DOMAIN queries : QueryReads(q) \/ QueryOk(q) \/ QueryFails(q)

RailSpec == RailInit /\ [][RailNext]_railVars

(***************************************************************************)
(* Properties.                                                             *)
(***************************************************************************)

\* Type invariant.
RailTypeOK ==
    /\ stored \subseteq RailTraces /\ lively \subseteq stored /\ done \subseteq stored
    /\ doneFor \in [RailTraces -> 0 .. RailTtl] /\ age \in 0 .. RailTtl
    /\ flaws \in 0 .. MaxFlaws
    /\ queries \in Seq([state : {"open", "read", "ok", "failed"},
                        reads : SUBSET RailTraces, past : SUBSET RailTraces])
    /\ window \in 0 .. Len(queries)
    /\ visible \subseteq RailTabs /\ due \subseteq RailTabs
    /\ \A t \in RailTabs : polls[t] \subseteq DOMAIN queries
    /\ known \in [RailTabs -> SUBSET RailTraces] /\ shown \in [RailTabs -> SUBSET RailTraces]
    /\ closed \in [RailTabs -> SUBSET RailTraces] /\ over \in [RailTabs -> SUBSET RailTraces]
    /\ page \in [RailTabs -> [rows : SUBSET RailTraces, done : SUBSET RailTraces]]

\* A trace the rail showed is in the rail or, once the refresh is through, in the table
\* below it, and it is complete there if it was when it left the rail.
TraceNeverVanishes ==
    \A t \in RailTabs \ due :
        /\ shown[t] \ known[t] \subseteq page[t].rows
        /\ closed[t] \subseteq page[t].done

\* "Any number of dashboard tabs polling the rail costs at most one ClickHouse
\* query per TTL": a second one within the TTL only after the first one failed,
\* and a failure that comes late does not void the window of its successor.
OneQueryPerTtl ==
    Len(queries') > Len(queries) /\ queries # <<>>
        => age >= RailTtl \/ queries[Len(queries)].state = "failed"

\* A failure answers the requests that wait for it and none that come later.
FailureNotCached ==
    \A t \in RailTabs : \A q \in polls'[t] \ polls[t] : queries'[q].state # "failed"

\* However late the answer and whoever sent its query, it lists no trace whose root had
\* landed a TTL or more before the tab asked, unless the trace is an old one.
FinishedStaysAway ==
    \A t \in RailTabs : \A q \in polls[t] : queries[q].reads \cap over[t] \subseteq Old

\* The rail is shared and honest: tabs cost one query per TTL, none gets a stale
\* failure or a list staler than the TTL, and no trace is lost between rail and table.
RailHonest == [][/\ RailTypeOK' /\ TraceNeverVanishes' /\ FinishedStaysAway'
                 /\ OneQueryPerTtl /\ FailureNotCached]_railVars

================================================================================
