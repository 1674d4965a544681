------------------------------- MODULE LiveBroker -------------------------------
(***************************************************************************)
(* The live path of the dashboard: the SSE route and the fan-out broker    *)
(* (lib/live-broker.ts), the delta reads (lib/live-deltas.ts) and the      *)
(* browser's merged state (lib/live.ts, useLiveTrace.ts), over the two     *)
(* append-only tables the collector and the evaluators write.              *)
(*                                                                         *)
(* A row is [item, ver, ms]: a span (ver is always 1) or an eval result    *)
(* (item is the (eval, span) pair, ver its eval_version), visible since    *)
(* millisecond ms.  JavaScript code between two awaits is one action.      *)
(***************************************************************************)
EXTENDS Naturals, FiniteSets, FiniteSetsExt

CONSTANTS
    Traces,             \* trace ids
    Items,              \* Items[k]: ids of the spans / (eval, span) pairs, naturals
    TraceOf,            \* TraceOf[k][i]: the trace an item belongs to
    Roots,              \* span items whose parent_span_id is ''
    MaxVer,             \* MaxVer[k]: highest version (1 for spans)
    Cap,                \* Cap[k]: DELTA_SPAN_CAP, DELTA_EVAL_CAP
    Clients,            \* browser tabs
    Watches,            \* Watches[c]: the trace tab c shows
    Conns,              \* bound: connections the server handles at a time
    Pollers,            \* bound: TracePoller objects at a time
    MaxSubscribers,     \* maxSubscribers
    MaxPerTrace,        \* maxSubscribersPerTrace
    MaxErrors,          \* maxConsecutiveErrors
    MaxStrikes,         \* MAX_BACKPRESSURE_STRIKES
    MaxMs,              \* bound: milliseconds at which rows land
    MaxRows,            \* bound: rows per table
    SharedMs,           \* whether two batches may share a millisecond
    Faults,             \* environment faults considered, a subset of FaultKinds
    MaxFaults           \* bound: faults that happen

Kinds      == {"span", "eval"}
FaultKinds == {"fetch", "catchup", "drop", "hide", "slow", "unnoticed"}
None       == "none"

ASSUME ShapeAssumption ==
    /\ Faults \subseteq FaultKinds
    /\ MaxPerTrace <= MaxSubscribers
    /\ \A k \in Kinds : Cap[k] \in Nat \ {0} /\ TraceOf[k] \in [Items[k] -> Traces]
    /\ MaxVer["span"] = 1
    /\ Roots \subseteq Items["span"]

ASSUME SizeAssumption ==
    /\ IsFiniteSet(Conns) /\ None \notin Pollers /\ None \notin Clients
    /\ MaxSubscribers \in Nat /\ MaxPerTrace \in Nat \ {0}
    /\ MaxErrors \in Nat \ {0} /\ MaxStrikes \in Nat
    /\ MaxMs \in Nat /\ MaxRows \in Nat /\ MaxFaults \in Nat
    /\ \A k \in Kinds : MaxVer[k] \in Nat
    /\ Watches \in [Clients -> Traces]

VARIABLES
    table,      \* table[k]: visible rows of spans / eval_results
    clock,      \* clock[k]: the latest millisecond rows landed at
    poller,     \* poller[p]: a TracePoller
    registry,   \* LiveBroker.pollers, a map from trace to poller
    count,      \* LiveBroker.subscriberCount
    conn,       \* conn[n]: one SSE connection, seen from the server
    client,     \* client[c]: one tab's useLiveTrace
    faults      \* faults so far

vars == <<table, clock, poller, registry, count, conn, client, faults>>

Zero      == [k \in Kinds |-> 0]
NoRows    == [k \in Kinds |-> {}]
NoDelta   == [rows |-> NoRows, cursor |-> Zero, root |-> FALSE]
FreeConn  == [state |-> "free", client |-> None, poller |-> None, strikes |-> 0,
              catchUp |-> "none", from |-> Zero, result |-> NoDelta]
NoPoller  == [trace |-> None, stopped |-> TRUE, phase |-> "idle", subs |-> {},
              head |-> Zero, boundary |-> NoRows, root |-> FALSE, quiet |-> 0,
              errors |-> 0, result |-> NoDelta]
NewClient == [status |-> "unloaded", cursor |-> Zero, resume |-> Zero,
              view |-> [k \in Kinds |-> [i \in Items[k] |-> 0]], root |-> FALSE,
              reason |-> None]

RowsOf(k, t)       == {r \in table[k] : TraceOf[k][r.item] = t}
MaxMsOf(rows, lo)  == Max({lo} \cup {r.ms : r \in rows})
MaxCursor(a, b)    == [k \in Kinds |-> IF a[k] > b[k] THEN a[k] ELSE b[k]]
Behind(a, b)       == \E k \in Kinds : a[k] < b[k]
HasData(delta)     == delta.rows # NoRows
RowKey(r)          == <<r.item, r.ver>>

(***************************************************************************)
(* The store.  Spans are appended by the collector's one writer, so rows   *)
(* become visible in ms order (a retried span may land twice);             *)
(* eval_results is read FINAL: a rewritten (item, ver) replaces the old.   *)
(***************************************************************************)
Insert(k) ==
    \E i \in Items[k], v \in 1 .. MaxVer[k], m \in clock[k] .. clock[k] + 1 :
        LET r == [item |-> i, ver |-> v, ms |-> m] IN
        /\ 1 <= m /\ m <= MaxMs
        /\ SharedMs \/ m > clock[k]
        /\ table' = [table EXCEPT ![k] = {r} \cup
               (IF k = "span" THEN @ ELSE {q \in @ : RowKey(q) # RowKey(r)})]
        /\ Cardinality(table'[k]) <= MaxRows
        /\ clock' = [clock EXCEPT ![k] = m]
        /\ UNCHANGED <<poller, registry, count, conn, client, faults>>

(***************************************************************************)
(* fetchTraceDeltas: rows at or past the cursor (inclusive), the earliest  *)
(* row of each span, the first Cap in order.  The two tables are read by   *)
(* two queries whose instants do not matter: each has its own watermark.   *)
(***************************************************************************)
Past(k, t, lo) ==
    LET rows == {r \in RowsOf(k, t) : r.ms >= lo} IN
    IF k = "eval" THEN rows
    ELSE {r \in rows : \A q \in rows : q.item = r.item => r.ms <= q.ms}

\* Faulty variant: the capped query ordered by span_id alone.
BeforeById(k, r, q) == r.item < q.item

\* ORDER BY ingested_at, span_id; eval results of one ms come in any order.
Before(k, r, q) == r.ms < q.ms \/ (k = "span" /\ r.ms = q.ms /\ r.item < q.item)

Firsts(k, rows) ==
    IF Cardinality(rows) <= Cap[k] THEN {rows}
    ELSE {S \in kSubset(Cap[k], rows) :
             \A r \in S, q \in rows \ S : ~ Before(k, q, r)}

FetchDeltas(t, cursor) ==
    {[rows   |-> [k \in Kinds |-> IF k = "span" THEN S ELSE E],
      cursor |-> [k \in Kinds |-> MaxMsOf(IF k = "span" THEN S ELSE E, cursor[k])],
      root   |-> \E r \in S : r.item \in Roots] :
        S \in Firsts("span", Past("span", t, cursor["span"])),
        E \in Firsts("eval", Past("eval", t, cursor["eval"]))}

(***************************************************************************)
(* The client: applyDelta merges by item, keeping the highest version; the *)
(* browser remembers the event id of the last message for reconnecting.    *)
(***************************************************************************)
Merge(view, rows) ==
    [k \in Kinds |-> [i \in Items[k] |->
        Max({view[k][i]} \cup {r.ver : r \in {q \in rows[k] : q.item = i}})]]

\* Faulty variants: the cursor follows the last delta even when it is behind;
\* the event id carries one watermark for both tables.
ApplyDeltaRegress(c, delta) ==
    [c EXCEPT !.view = Merge(@, delta.rows), !.cursor = delta.cursor,
              !.root = @ \/ delta.root, !.resume = delta.cursor]
ApplyDeltaOneMark(c, delta) ==
    [c EXCEPT !.view = Merge(@, delta.rows), !.cursor = MaxCursor(@, delta.cursor),
              !.root = @ \/ delta.root,
              !.resume = [k \in Kinds |-> Max({delta.cursor[j] : j \in Kinds})]]

ApplyDelta(c, delta) ==
    [c EXCEPT !.view   = Merge(@, delta.rows),
              !.cursor = MaxCursor(@, delta.cursor),
              !.root   = @ \/ delta.root,
              !.resume = delta.cursor]

\* Frames reach the tab only while both ends hold the connection.
Reached(S) == {n \in S : conn[n].state = "open"}
ClientsOf(S) == {conn[n].client : n \in S}

Deliver(S, delta) ==
    [c \in Clients |-> IF c \in ClientsOf(Reached(S))
                       THEN ApplyDelta(client[c], delta) ELSE client[c]]

\* The server closed these connections without an end message.
Cut(cl, S) ==
    [c \in Clients |-> IF c \in ClientsOf(Reached(S))
                       THEN [cl[c] EXCEPT !.status = "reconnecting"] ELSE cl[c]]

Ended(cl, S, why) ==
    [c \in Clients |-> IF c \in ClientsOf(Reached(S))
                       THEN [cl[c] EXCEPT !.status = "ended", !.reason = why] ELSE cl[c]]

Freed(cn, S) == [n \in Conns |-> IF n \in S THEN FreeConn ELSE cn[n]]

(***************************************************************************)
(* TracePoller.detach for every subscriber in S, from poller record q; the *)
(* last one out stops the poller: its timer is cleared and it leaves the   *)
(* registry if it is the registered one.                                   *)
(***************************************************************************)
Detached(q, S) ==
    LET left == q.subs \ S IN
    IF S = {} \/ left # {} THEN [q EXCEPT !.subs = left]
    ELSE [q EXCEPT !.subs = {}, !.stopped = TRUE,
                   !.phase = IF @ = "timer" THEN "idle" ELSE @]

\* A stopped poller with no fetch in flight is garbage.
Collected(q) == IF q.stopped /\ q.phase = "idle" THEN NoPoller ELSE q

Unregistered(p, q) ==
    [t \in Traces |-> IF q.stopped /\ registry[t] = p THEN None ELSE registry[t]]

\* Faulty variant: one decrement however many subscribers leave.
SetPollerOnce(p, q) ==
    /\ poller' = [poller EXCEPT ![p] = Collected(q)]
    /\ registry' = Unregistered(p, q)
    /\ count' = IF q.subs = poller[p].subs THEN count ELSE count - 1

SetPoller(p, q) ==
    /\ poller' = [poller EXCEPT ![p] = Collected(q)]
    /\ registry' = Unregistered(p, q)
    /\ count' = count - Cardinality(poller[p].subs \ q.subs)

--------------------------------------------------------------------------------
Init ==
    /\ table = NoRows
    /\ clock = Zero
    /\ poller = [p \in Pollers |-> NoPoller]
    /\ registry = [t \in Traces |-> None]
    /\ count = 0
    /\ conn = [n \in Conns |-> FreeConn]
    /\ client = [c \in Clients |-> NewClient]
    /\ faults = 0

Fault(f) == f \in Faults /\ faults < MaxFaults /\ faults' = faults + 1

(***************************************************************************)
(* Tabs.                                                                   *)
(***************************************************************************)

\* What the page's queries return: one copy of each span, the highest version
\* of each eval result.
Snapshots(k, t) ==
    {S \in SUBSET RowsOf(k, t) :
        \A r \in RowsOf(k, t) : \E q \in S :
            /\ q.item = r.item /\ q.ver >= r.ver
            /\ \A x \in S : x.item = q.item => x = q}

\* The server renders a running trace (getTraceDetail) and the page connects at
\* the highest millisecond it rendered.
Load(c) ==
    /\ client[c].status = "unloaded"
    /\ \E S \in Snapshots("span", Watches[c]), E \in Snapshots("eval", Watches[c]) :
        LET rows == [k \in Kinds |-> IF k = "span" THEN S ELSE E]
            cur  == [k \in Kinds |-> MaxMsOf(rows[k], 0)] IN
        /\ S # {}
        /\ \A r \in S : r.item \notin Roots
        /\ client' = [client EXCEPT ![c] =
               [@ EXCEPT !.status = "connecting", !.cursor = cur, !.resume = cur,
                         !.view = Merge(client[c].view, rows)]]
    /\ UNCHANGED <<table, clock, poller, registry, count, conn, faults>>

CanAccept(t) ==
    /\ count < MaxSubscribers
    /\ registry[t] # None => Cardinality(poller[registry[t]].subs) < MaxPerTrace

Wanting(c) == client[c].status \in {"connecting", "reconnecting"}

\* Unless the fault is considered, the server has noticed the loss of a tab's
\* previous connection before the tab connects again.
NoticedAll(c) ==
    "unnoticed" \in Faults \/ \A n \in Conns : conn[n].client # c

\* Faulty variant: never catch up.
NeedsCatchUpNever(from, head) == FALSE

\* attach(): strictly behind the head in either dimension.
NeedsCatchUp(from, head) == Behind(from, head)

\* LiveBroker.subscribe and TracePoller.attach: join the trace's poller (with a
\* catch-up when its head is past the cursor) or start one at the cursor.
Subscribe(c) ==
    LET t == Watches[c]
        from == client[c].resume IN
    /\ Wanting(c)
    /\ NoticedAll(c)
    /\ CanAccept(t)
    /\ \E n \in Conns :
        /\ conn[n].state = "free"
        /\ client' = [client EXCEPT ![c].status = "live"]
        /\ count' = count + 1
        /\ \/ /\ registry[t] # None
              /\ LET p == registry[t] IN
                 /\ poller' = [poller EXCEPT ![p].subs = @ \cup {n}]
                 /\ conn' = [conn EXCEPT ![n] = [FreeConn EXCEPT
                        !.state = "open", !.client = c, !.poller = p,
                        !.catchUp = IF NeedsCatchUp(from, poller[p].head) THEN "asked" ELSE "none",
                        !.from = IF NeedsCatchUp(from, poller[p].head) THEN from ELSE Zero]]
              /\ UNCHANGED registry
           \/ /\ registry[t] = None
              /\ \E p \in Pollers :
                 /\ poller[p] = NoPoller
                 /\ poller' = [poller EXCEPT ![p] = [NoPoller EXCEPT
                        !.trace = t, !.stopped = FALSE, !.phase = "timer",
                        !.subs = {n}, !.head = from]]
                 /\ registry' = [registry EXCEPT ![t] = p]
                 /\ conn' = [conn EXCEPT ![n] = [FreeConn EXCEPT
                        !.state = "open", !.client = c, !.poller = p]]
    /\ UNCHANGED <<table, clock, faults>>

\* A non-200 answer (capacity 503): EventSource gives up.
Rejected(c) ==
    /\ Wanting(c)
    /\ ~ CanAccept(Watches[c])
    /\ client' = [client EXCEPT ![c].status = "unavailable"]
    /\ UNCHANGED <<table, clock, poller, registry, count, conn, faults>>

Broken(c) == [n \in Conns |-> IF conn[n].client = c /\ conn[n].state = "open"
                              THEN [conn[n] EXCEPT !.state = "dead"] ELSE conn[n]]

\* The network drops the stream: EventSource retries with Last-Event-ID.
Drop(c) ==
    /\ Fault("drop")
    /\ client[c].status = "live"
    /\ conn' = Broken(c)
    /\ client' = [client EXCEPT ![c].status = "reconnecting"]
    /\ UNCHANGED <<table, clock, poller, registry, count>>

\* onVisibilityChange: a hidden tab closes the stream ...
Hide(c) ==
    /\ Fault("hide")
    /\ client[c].status \in {"live", "reconnecting", "connecting", "unavailable"}
    /\ conn' = Broken(c)
    /\ client' = [client EXCEPT ![c].status = "paused"]
    /\ UNCHANGED <<table, clock, poller, registry, count>>

\* ... and a visible one opens a new stream at the merged cursor.
Show(c) ==
    /\ client[c].status = "paused"
    /\ client' = [client EXCEPT ![c].status = "connecting",
                                ![c].resume = client[c].cursor]
    /\ UNCHANGED <<table, clock, poller, registry, count, conn, faults>>

\* The route notices a lost consumer (abort, cancel or a failing enqueue).
Notice(n) ==
    /\ conn[n].state = "dead"
    /\ LET p == conn[n].poller IN SetPoller(p, Detached(poller[p], {n}))
    /\ conn' = Freed(conn, {n})
    /\ UNCHANGED <<table, clock, client, faults>>

(***************************************************************************)
(* Sending.  A stalled consumer collects strikes and is dropped on the one *)
(* after MaxStrikes; one that keeps up is forgiven.                        *)
(***************************************************************************)
Overrun(slow) == {n \in slow : conn[n].strikes >= MaxStrikes}
Struck(S, slow) ==
    [n \in Conns |-> IF n \notin S THEN conn[n]
                     ELSE [conn[n] EXCEPT !.strikes = IF n \in slow THEN @ + 1 ELSE 0]]

SlowOnes(S) ==
    IF "slow" \in Faults /\ faults < MaxFaults THEN SUBSET S ELSE {{}}

CountSlow(slow) == faults' = IF slow = {} THEN faults ELSE faults + 1

(***************************************************************************)
(* TracePoller.tick.  The timer fires and the two queries read the store.  *)
(***************************************************************************)
TickRead(p) ==
    /\ poller[p].phase = "timer"
    /\ \E d \in FetchDeltas(poller[p].trace, poller[p].head) :
           poller' = [poller EXCEPT ![p].phase = "polling", ![p].result = d]
    /\ UNCHANGED <<table, clock, registry, count, conn, client, faults>>

\* Faulty variant: replays are not trimmed.
TrimmedNothing(q) == q.result.rows

\* trimBoundaryReplays: what the poller delivered at its watermark is not sent
\* again, and the rows now at the watermark are remembered.
Trimmed(q) == [k \in Kinds |->
    {r \in q.result.rows[k] : r.ms > q.head[k] \/ RowKey(r) \notin q.boundary[k]}]

\* Faulty variant: everything now visible at the watermark counts as delivered.
NextBoundaryWholeMs(q) == [k \in Kinds |->
    {RowKey(r) : r \in {x \in RowsOf(k, q.trace) : x.ms = q.result.cursor[k]}}]

NextBoundary(q) == [k \in Kinds |->
    (IF q.result.cursor[k] = q.head[k] THEN q.boundary[k] ELSE {}) \cup
        {RowKey(r) : r \in {x \in q.result.rows[k] : x.ms = q.result.cursor[k]}}]

\* Faulty variant: silence settles a trace whether or not its root landed.
VerdictRootless(q) ==
    CASE q.stopped    -> "stopped"
      [] q.quiet >= 1 -> "complete"
      [] OTHER        -> "again"

\* The end of tick(): stop on settled or dead traces, or schedule the next poll.
\* quiet is 1 from settledEndMs on and 2 from deadEndMs on.
Verdict(q) ==
    CASE q.stopped                               -> "stopped"
      [] ~ q.stopped /\ q.root /\ q.quiet >= 1   -> "complete"
      [] ~ q.stopped /\ ~ q.root /\ q.quiet >= 2 -> "idle"
      [] OTHER                                   -> "again"

\* Finish the tick of poller record q, after cl and cn reflect what it sent.
Conclude(p, q, cl, cn) ==
    LET v == Verdict(q) IN
    \/ /\ v \in {"complete", "idle"}
       /\ client' = Ended(cl, q.subs, v)
       /\ conn' = Freed(cn, q.subs)
       /\ SetPoller(p, Detached(q, q.subs))
    \/ /\ v \in {"again", "stopped"}
       /\ client' = cl
       /\ conn' = cn
       /\ SetPoller(p, IF v = "again" THEN [q EXCEPT !.phase = "timer"] ELSE q)

TickDone(p) ==
    LET q == poller[p]
        delta == [q.result EXCEPT !.rows = Trimmed(q)]
        fresh == HasData(delta)
        read == [q EXCEPT !.phase = "idle", !.result = NoDelta, !.errors = 0,
                          !.head = delta.cursor, !.boundary = NextBoundary(q),
                          !.root = @ \/ delta.root,
                          !.quiet = IF fresh THEN 0 ELSE @] IN
    /\ q.phase = "polling"
    /\ \E slow \in IF fresh THEN SlowOnes(q.subs) ELSE {{}} :
        LET gone == Overrun(slow)
            sent == IF fresh THEN q.subs \ gone ELSE {} IN
        /\ CountSlow(slow)
        /\ Conclude(p, Detached(read, gone), Cut(Deliver(sent, delta), gone),
                    Freed(Struck(sent, slow), gone))
    /\ UNCHANGED <<table, clock>>

\* The fetch failed.  The breaker closes every stream after MaxErrors in a row;
\* below it the tick still ends like any other.
TickFail(p) ==
    LET q == [poller[p] EXCEPT !.phase = "idle", !.errors = @ + 1] IN
    /\ poller[p].phase = "timer"
    /\ Fault("fetch")
    /\ \/ /\ q.errors >= MaxErrors
          /\ client' = Cut(client, q.subs)
          /\ conn' = Freed(conn, q.subs)
          /\ SetPoller(p, Detached(q, q.subs))
       \/ /\ q.errors < MaxErrors
          /\ Conclude(p, q, client, conn)
    /\ UNCHANGED <<table, clock>>

\* Wall-clock time without data passes.
Quieten(p) ==
    /\ ~ poller[p].stopped
    /\ poller[p].quiet < 2
    /\ poller' = [poller EXCEPT ![p].quiet = @ + 1]
    /\ UNCHANGED <<table, clock, registry, count, conn, client, faults>>

(***************************************************************************)
(* TracePoller.catchUp: one fetch from the subscriber's own cursor, sent   *)
(* to it alone if it is still attached.                                    *)
(***************************************************************************)
CatchUpRead(n) ==
    /\ conn[n].catchUp = "asked"
    /\ \E d \in FetchDeltas(poller[conn[n].poller].trace, conn[n].from) :
           conn' = [conn EXCEPT ![n].catchUp = "read", ![n].from = Zero, ![n].result = d]
    /\ UNCHANGED <<table, clock, poller, registry, count, client, faults>>

CatchUpDone(n) ==
    LET d == conn[n].result
        p == conn[n].poller
        done == [conn EXCEPT ![n].catchUp = "none", ![n].result = NoDelta] IN
    /\ conn[n].catchUp = "read"
    /\ \/ /\ ~ HasData(d)
          /\ conn' = done
          /\ UNCHANGED <<poller, registry, count, client, faults>>
       \/ /\ HasData(d)
          /\ \E slow \in SlowOnes({n}) :
              /\ CountSlow(slow)
              /\ IF Overrun(slow) = {}
                 THEN /\ client' = Deliver({n}, d)
                      /\ conn' = [done EXCEPT ![n].strikes = IF n \in slow THEN @ + 1 ELSE 0]
                      /\ UNCHANGED <<poller, registry, count>>
                 ELSE /\ client' = Cut(client, {n})
                      /\ conn' = Freed(conn, {n})
                      /\ SetPoller(p, Detached(poller[p], {n}))
    /\ UNCHANGED <<table, clock>>

CatchUpFail(n) ==
    /\ Fault("catchup")
    /\ conn[n].catchUp = "asked"
    /\ client' = Cut(client, {n})
    /\ conn' = Freed(conn, {n})
    /\ LET p == conn[n].poller IN SetPoller(p, Detached(poller[p], {n}))
    /\ UNCHANGED <<table, clock>>

--------------------------------------------------------------------------------
Next ==
    \/ \E k \in Kinds : Insert(k)
    \/ \E c \in Clients : Load(c) \/ Subscribe(c) \/ Rejected(c)
                              \/ Drop(c) \/ Hide(c) \/ Show(c)
    \/ \E n \in Conns : Notice(n) \/ CatchUpRead(n) \/ CatchUpDone(n) \/ CatchUpFail(n)
    \/ \E p \in Pollers : TickRead(p) \/ TickDone(p) \/ TickFail(p) \/ Quieten(p)

(***************************************************************************)
(* Fairness: timers fire, queries return (the driver times out), broken    *)
(* sockets are noticed (heartbeats every 15 s) and EventSource retries.    *)
(* Writers, tabs, faults and the passing of quiet minutes are not fair.    *)
(***************************************************************************)
Fairness ==
    /\ \A p \in Pollers : /\ WF_vars(TickRead(p) \/ TickFail(p))
                          /\ WF_vars(TickDone(p))
    /\ \A n \in Conns : /\ WF_vars(Notice(n))
                        /\ WF_vars(CatchUpRead(n) \/ CatchUpFail(n))
                        /\ WF_vars(CatchUpDone(n))
    /\ \A c \in Clients : WF_vars(Subscribe(c) \/ Rejected(c))

Spec     == Init /\ [][Next]_vars
FairSpec == Spec /\ Fairness

(***************************************************************************)
(* Properties.                                                             *)
(***************************************************************************)
Cursors == [Kinds -> 0 .. MaxMs]
Row(k)  == [item : Items[k], ver : 1 .. MaxVer[k], ms : 1 .. MaxMs]

IsDelta(d) ==
    /\ DOMAIN d = {"rows", "cursor", "root"}
    /\ \A k \in Kinds : d.rows[k] \subseteq Row(k)
    /\ d.cursor \in Cursors /\ d.root \in BOOLEAN

\* Type invariant.
TypeOK ==
    /\ \A k \in Kinds : table[k] \subseteq Row(k) /\ clock[k] \in 0 .. MaxMs
    /\ \A p \in Pollers :
           /\ poller[p].phase \in {"idle", "timer", "polling"}
           /\ poller[p].subs \subseteq Conns
           /\ poller[p].head \in Cursors
           /\ poller[p].quiet \in 0 .. 2
           /\ poller[p].errors \in 0 .. MaxErrors - 1
           /\ IsDelta(poller[p].result)
    /\ registry \in [Traces -> Pollers \cup {None}]
    /\ count \in Nat
    /\ \A n \in Conns :
           /\ conn[n].state \in {"free", "open", "dead"}
           /\ conn[n].catchUp \in {"none", "asked", "read"}
           /\ conn[n].strikes \in 0 .. MaxStrikes
           /\ conn[n].from \in Cursors /\ IsDelta(conn[n].result)
    /\ \A c \in Clients :
           /\ client[c].status \in {"unloaded", "connecting", "live", "reconnecting",
                                    "paused", "ended", "unavailable"}
           /\ client[c].cursor \in Cursors /\ client[c].resume \in Cursors
           /\ client[c].reason \in {None, "complete", "idle"}
    /\ faults \in 0 .. MaxFaults

\* One loop per watched trace, and no orphans: the poller of a trace is the one
\* unstopped poller of that trace, it has subscribers and is either waiting for
\* its timer or in a fetch; a stopped poller has neither timer nor subscriber.
OneLoopPerTrace ==
    \A p \in Pollers :
        IF poller[p].stopped
        THEN poller[p].phase # "timer" /\ poller[p].subs = {}
        ELSE /\ registry[poller[p].trace] = p
             /\ poller[p].subs # {}
             /\ poller[p].phase # "idle"

\* The capacity counters are true: subscriberCount is the number of attached
\* connections over all pollers, and both caps hold, however connections end
\* (unsubscribe, drop, end, breaker; several can fire for one connection).
SubscribersCounted ==
    /\ count = Cardinality({n \in Conns : conn[n].state # "free"})
    /\ \A p \in Pollers :
           /\ poller[p].subs = {n \in Conns : conn[n].poller = p}
           /\ Cardinality(poller[p].subs) <= MaxPerTrace
    /\ count <= MaxSubscribers

\* The broker's books are true after any order of connections, ends and faults:
\* loops, subscribers and counters agree.
BrokerBooks == TypeOK /\ OneLoopPerTrace /\ SubscribersCounted

Received(c, k, r) == client[c].view[k][r.item] >= r.ver
CatchingUp(c) ==
    \E n \in Conns : conn[n].client = c /\ conn[n].state = "open" /\ conn[n].catchUp # "none"

\* The cursor never gets ahead of the data: a tab that may still read or resume
\* holds every row that landed before its resume position, unless a catch-up
\* that will bring it is still running (D23: "can overlap but never gap").
NoGap ==
    \A c \in Clients, k \in Kinds : client[c].status \notin {"unloaded", "ended"} =>
        \A r \in RowsOf(k, Watches[c]) :
            r.ms < client[c].resume[k] => Received(c, k, r) \/ CatchingUp(c)

\* Rows the poller trims as already delivered have reached every attached tab.
BoundaryDelivered ==
    \A n \in Conns, k \in Kinds : conn[n].state = "open" /\ conn[n].catchUp = "none" =>
        \A r \in RowsOf(k, Watches[conn[n].client]) :
            RowKey(r) \in poller[conn[n].poller].boundary[k]
                => Received(conn[n].client, k, r)

\* A stream that ends 'complete' has delivered the root ("trace settled",
\* lib/live.ts), with the catch-up of a late subscriber ("attach-first, so
\* nothing published in between is missed", lib/live-broker.ts) like any other.
CompleteMeansRoot ==
    \A c \in Clients : client[c].reason = "complete" => client[c].root

\* A tab misses nothing, however it drops, hides, stalls and comes back: what lies
\* before its resume position it holds or is being sent, and a stream that tells
\* it the trace is complete has shown it the root.
NothingMissed == NoGap /\ CompleteMeansRoot

\* The root's part for tabs that are not catching up when the poller ends.
SettledTabsHaveRoot ==
    [][\A c \in Clients :
         client'[c].reason = "complete" /\ client[c].reason = None /\ ~ CatchingUp(c)
             => client'[c].root]_vars

\* Reading only moves forward: a poller's watermark never goes back while it
\* lives, and neither does what a tab has seen.
ReadingAdvances ==
    [][/\ \A p \in Pollers : poller'[p] # NoPoller /\ poller[p] # NoPoller =>
             ~ Behind(poller'[p].head, poller[p].head)
       /\ \A c \in Clients : ~ Behind(client'[c].cursor, client[c].cursor)]_vars

\* Every poller ends itself once time passes (quiet minutes keep adding up while
\* it lives): writers being what they are, silence is observed, so a finished or
\* abandoned trace does not cost polling for ever.
PollersEnd ==
    (\A p \in Pollers : WF_vars(Quieten(p)))
        => \A p \in Pollers : ~ poller[p].stopped ~> poller[p].stopped

\* A row that has landed reaches every tab that stays connected.  Quiet minutes
\* need not pass, so the end of the stream is no way out.
RowsArrive ==
    \A c \in Clients, k \in Kinds : \A i \in Items[k], v \in 1 .. MaxVer[k] :
        (client[c].status = "live" /\ \E r \in table[k] : r.item = i /\ r.ver = v
                                   /\ TraceOf[k][i] = Watches[c])
            ~> (client[c].view[k][i] >= v \/ client[c].status # "live")

================================================================================
