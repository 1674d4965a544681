--------------------------------- MODULE TraceViews ----------------------------------
(***************************************************************************)
(* What the dashboard says of one trace, in three places: the list         *)
(* (lib/clickhouse.ts, app/traces/page.tsx), the trace page as it is       *)
(* loaded (lib/traces.ts), and the same page after deltas (lib/live.ts);   *)
(* and of one of its spans, in the panel.  Which deltas come when is       *)
(* LiveBroker's; here a delta re-reads from anywhere up to the cursor, and *)
(* is what a query of that moment returns.                                 *)
(***************************************************************************)
EXTENDS Integers, FiniteSets, FiniteSetsExt

CONSTANTS
    TraceSpans, \* spans of the trace, naturals
    Of,         \* Of[s]: what the SDK recorded for s; start in hours, others as they are
    SpanCap,    \* TRACE_SPAN_CAP
    EventCap,   \* SPAN_EVENT_CAP
    MaxRows,    \* bound: rows of the trace, the copies of retried batches included
    MaxNow      \* bound: hours

\* Starts are UNIX time, and the caps are the code's constants.
ASSUME ViewAssumption ==
    /\ TraceSpans \subseteq Nat
    /\ Of \in [TraceSpans -> [start : Nat, duration : Nat, error : BOOLEAN, tokens : Nat,
                              model : STRING, root : BOOLEAN, events : Nat]]
    /\ SpanCap \in Nat \ {0} /\ EventCap \in Nat \ {0} /\ MaxRows \in Nat

VARIABLES
    spanRows,       \* spans: [span, ms], numbered as they land
    contentRows,    \* span_events: [span, index, ms]
    hour,           \* the hour
    livePage        \* LiveTraceState of the open page, or NoPage

viewVars == <<spanRows, contentRows, hour, livePage>>

NoPage == [starts |-> <<>>, cursor |-> 0, root |-> FALSE]

LatestMs(R)    == Max({0} \cup {r.ms : r \in R})
Ids(R)         == {r.span : r \in R}
EndOf(s)       == Of[s].start + Of[s].duration
Models(S)      == {Of[s].model : s \in S} \ {""}
FailedSpans(S) == {s \in S : Of[s].error}
TokensOf(S)    == MapThenSumSet(LAMBDA s : Of[s].tokens, S)

(***************************************************************************)
(* The trace page.  LIMIT 1 BY span_id: a span counts once; the first      *)
(* SpanCap of them by start; offsets count from the earliest of those.     *)
(***************************************************************************)
StartsBefore(s, q) == Of[s].start < Of[q].start \/ (Of[s].start = Of[q].start /\ s < q)

FetchedSpans(R) ==
    {s \in Ids(R) : Cardinality({q \in Ids(R) : StartsBefore(q, s)}) < SpanCap}
Truncated(R)    == FetchedSpans(R) # Ids(R)

\* getTraceDetail
Detail(R) ==
    LET S == FetchedSpans(R)
        anchor == Min({Of[s].start : s \in S})
        offset == [s \in S |-> Of[s].start - anchor] IN
    [offset   |-> offset,
     start    |-> anchor,
     duration |-> Max({offset[s] + Of[s].duration : s \in S}),
     spanCount |-> Cardinality(S),
     errors   |-> Cardinality(FailedSpans(S)),
     tokens   |-> TokensOf(S),
     models   |-> Models(S),
     root     |-> \E s \in S : Of[s].root]

(***************************************************************************)
(* The live page: seedLiveState, applyDelta and deriveTraceView.  It keeps *)
(* absolute starts, so that a span that lands late but started early moves *)
(* the anchor of all the others.                                           *)
(***************************************************************************)
\* Of a span that landed twice, either copy may be the one the query returns.
Copies(R) == {C \in SUBSET R : Ids(C) = Ids(R) /\ Cardinality(C) = Cardinality(Ids(R))}

Seeded(C) ==
    LET d == Detail(C) IN
    [starts |-> [s \in DOMAIN d.offset |-> d.start + d.offset[s]],
     cursor |-> LatestMs({r \in C : r.span \in DOMAIN d.offset}),
     root   |-> FALSE]

Merged(p, R) ==
    [p EXCEPT
       !.starts = [s \in DOMAIN @ \cup Ids(R) |-> IF s \in DOMAIN @ THEN @[s] ELSE Of[s].start],
       !.cursor = Max({@, LatestMs(R)}),
       !.root   = @ \/ \E s \in Ids(R) : Of[s].root]

Derived(p) ==
    LET S == DOMAIN p.starts
        anchor == Min({p.starts[s] : s \in S})
        offset == [s \in S |-> p.starts[s] - anchor] IN
    [offset   |-> offset,
     start    |-> anchor,
     duration |-> Max({offset[s] + Of[s].duration : s \in S}),
     spanCount |-> Cardinality(S),
     errors   |-> Cardinality(FailedSpans(S)),
     tokens   |-> TokensOf(S),
     models   |-> Models(S),
     root     |-> p.root]

(***************************************************************************)
(* The list.  The time window is in WHERE, what concerns the trace as a    *)
(* whole in HAVING; every row counts, a retried batch's copies too.        *)
(***************************************************************************)
\* parseFilters: blank, zero, negative and unreadable numbers are no filter, and
\* hours are cut to whole ones (here given in halves).
Whole(h) == IF h <= 0 THEN {} ELSE {h \div 2}

Windowed(hours) == {r \in spanRows : \A w \in hours : Of[r.span].start >= hour - w}

ListRow(R) ==
    LET S == Ids(R) IN
    [started   |-> Max({Of[s].start : s \in S}),
     latency   |-> Max({EndOf(s) : s \in S}) - Min({Of[s].start : s \in S}),
     spanCount |-> Cardinality(R),
     tokens    |-> MapThenSumSet(LAMBDA r : Of[r.span].tokens, R),
     status    |-> IF FailedSpans(S) # {} THEN "error" ELSE "ok"]

\* Faulty variant: the model's spans only, as a condition in WHERE would do.
ListedByModel(filter) ==
    LET R == {r \in Windowed(Whole(filter.hours)) :
                 filter.model # "absent" => Of[r.span].model = filter.model} IN
    /\ R # {}
    /\ filter.status # "absent" => ListRow(R).status = filter.status
    /\ filter.minLatency > 0 => ListRow(R).latency >= filter.minLatency
    /\ filter.minTokens > 0 => ListRow(R).tokens >= filter.minTokens

\* buildTraceListQuery: whether the trace is in the answer.
Listed(filter) ==
    LET R == Windowed(Whole(filter.hours)) IN
    /\ R # {}
    /\ filter.model # "absent" => filter.model \in Models(Ids(R))
    /\ filter.status # "absent" => ListRow(R).status = filter.status
    /\ filter.minLatency > 0 => ListRow(R).latency >= filter.minLatency
    /\ filter.minTokens > 0 => ListRow(R).tokens >= filter.minTokens

(***************************************************************************)
(* The panel (getSpanDetail): the newest copy of the span, and each event  *)
(* once (LIMIT 1 BY event_index), in order, whichever copy it is from.     *)
(***************************************************************************)
Shown(s) ==
    {c \in {e.index : e \in {x \in contentRows : x.span = s}} :
        Cardinality({i \in {e.index : e \in {x \in contentRows : x.span = s}} : i < c}) < EventCap}

Panel(s) == [row |-> Max({r.ms : r \in {x \in spanRows : x.span = s}}), events |-> Shown(s)]

--------------------------------------------------------------------------------
ViewInit ==
    /\ spanRows = {} /\ contentRows = {}
    /\ hour = 0
    /\ livePage = NoPage

\* A span that has ended lands, for the first time or again; its content follows,
\* unless that insert failed.
LandRow(s) ==
    LET ms == LatestMs(spanRows) + 1 IN
    /\ EndOf(s) <= hour
    /\ Cardinality(spanRows) < MaxRows
    /\ spanRows' = spanRows \cup {[span |-> s, ms |-> ms]}
    /\ \/ contentRows' = contentRows
                         \cup {[span |-> s, index |-> i, ms |-> ms] : i \in 1 .. Of[s].events}
       \/ contentRows' = contentRows
    /\ UNCHANGED <<hour, livePage>>

NextHour ==
    /\ hour < MaxNow
    /\ hour' = hour + 1
    /\ UNCHANGED <<spanRows, contentRows, livePage>>

\* The page of a trace that is running: no root yet.  (Another page shows what was
\* loaded, and takes no deltas.)
OpenPage ==
    /\ livePage = NoPage /\ spanRows # {} /\ ~ Detail(spanRows).root
    /\ \E C \in Copies(spanRows) : livePage' = Seeded(C)
    /\ UNCHANGED <<spanRows, contentRows, hour>>

\* A delta read from lo on, overlapping what the page holds.
ReadDelta(lo) ==
    /\ livePage # NoPage /\ lo <= livePage.cursor
    /\ livePage' = Merged(livePage, {r \in spanRows : r.ms >= lo})
    /\ UNCHANGED <<spanRows, contentRows, hour>>

ViewNext ==
    \/ \E s \in TraceSpans : LandRow(s)
    \/ NextHour \/ OpenPage
    \/ \E lo \in 0 .. MaxRows : ReadDelta(lo)

ViewSpec == ViewInit /\ [][ViewNext]_viewVars

(***************************************************************************)
(* Properties.                                                             *)
(***************************************************************************)
ByThen(ms) == {r \in spanRows : r.ms <= ms}

\* The live page always shows what loading it anew would have shown at the moment
\* of its cursor: the same offsets, duration and totals, whatever re-anchoring,
\* overlap and copies there were on the way (as long as the trace is not cut off
\* at SpanCap, when the loaded page shows the first spans only).
LiveIsReload ==
    livePage # NoPage /\ ~ Truncated(spanRows)
        => Derived(livePage) = Detail(ByThen(livePage.cursor))

\* Offsets are what the waterfall draws: from 0, and inside the trace's duration.
BarsInside ==
    spanRows # {} =>
        LET d == Detail(spanRows) IN
        /\ \E s \in DOMAIN d.offset : d.offset[s] = 0
        /\ \A s \in DOMAIN d.offset : 0 <= d.offset[s] /\ d.offset[s] + Of[s].duration <= d.duration

ListFilters == [hours : {0, 1, 2, 6}, model : {"absent"} \cup Models(TraceSpans),
            status : {"absent", "ok", "error"}, minLatency : {0, 2}, minTokens : {0, 3}]

\* The list and the page agree: a trace no part of which is outside the window,
\* and no part of which landed twice, is listed under the filters that hold of
\* the page, and with the page's numbers.  Copies change the counts and totals of
\* the list only, and never its latency or its status.
ListAgrees ==
    spanRows # {} /\ ~ Truncated(spanRows) =>
        LET d == Detail(spanRows)
            all == ListRow(spanRows) IN
        /\ all.latency = d.duration
        /\ all.status = "error" <=> d.errors > 0
        /\ Cardinality(spanRows) = Cardinality(Ids(spanRows)) =>
               /\ all.spanCount = d.spanCount /\ all.tokens = d.tokens
               /\ \A f \in ListFilters :
                      (\A w \in Whole(f.hours) : d.start >= hour - w) =>
                          (Listed(f) <=>
                              /\ f.model # "absent" => f.model \in d.models
                              /\ f.status # "absent" => (f.status = "error" <=> d.errors > 0)
                              /\ d.duration >= f.minLatency
                              /\ d.tokens >= f.minTokens)

\* The panel of a span on the page shows the copy of the span that landed last
\* and the span's content once, if its content ever landed.
PanelWhole ==
    \A s \in Ids(spanRows) :
        /\ \A r \in spanRows : r.span = s => r.ms <= Panel(s).row
        /\ Panel(s).events \in {{}, 1 .. Min({Of[s].events, EventCap})}

\* The list, the page, the live page and the panel tell one story of a trace.
ViewsAgree == LiveIsReload /\ BarsInside /\ ListAgrees /\ PanelWhole

================================================================================
