------------------------------- MODULE Collector -------------------------------
(***************************************************************************)
(* The collector (apps/collector): OTLP requests are converted and put on  *)
(* a bounded channel; one writer task batches rows and inserts them into   *)
(* two ClickHouse tables.  A "post" <<r, n>> is the n-th HTTP attempt to   *)
(* deliver export request r: the OTLP exporter (not in this repository)    *)
(* sends the same request again when the answer is retryable or missing.   *)
(* Rows are tracked per post: the t-rows of a post travel together.        *)
(***************************************************************************)
EXTENDS Naturals, Sequences, FiniteSets, FiniteSetsExt

CONSTANTS
    Requests,       \* export requests the clients deliver
    MaxAttempts,    \* bound: attempts a client makes for one request
    RowCount,       \* RowCount[t][r]: rows request r converts to, per table
    Malformed,      \* requests refused outright: too large, wrong content type, undecodable
    Capacity,       \* TRACEBLOOM_CHANNEL_CAPACITY
    MaxRows,        \* TRACEBLOOM_BATCH_MAX_ROWS
    MaxFailures,    \* bound: failing inserts
    MaxCrashes      \* bound: crashes of the process

Tables == {"spans", "span_events"}
Posts  == Requests \X (1 .. MaxAttempts)

ASSUME BoundsAssumption ==
    /\ MaxAttempts \in Nat \ {0}
    /\ Capacity \in Nat \ {0}
    /\ MaxRows \in Nat
    /\ MaxFailures \in Nat
    /\ MaxCrashes \in Nat

\* convert() pushes an event only while it pushes the event's span.
ASSUME RowsAssumption ==
    /\ RowCount \in [Tables -> [Requests -> Nat]]
    /\ Malformed \subseteq Requests
    /\ \A r \in Requests :
           RowCount["span_events"][r] > 0 => RowCount["spans"][r] > 0

VARIABLES
    server,     \* "serving", "stopping", "closed", "exited" or "down"
    reply,      \* reply[p]: what the client of post p knows
    accepted,   \* history: posts whose rows the channel took
    channel,    \* the bounded mpsc channel, a sequence of posts
    buf,        \* buf[t]: posts whose t-rows are in the writer's buffer
    writer,     \* "select", "spans", "span_events" or "stopped"
    draining,   \* the flush under way is the last one
    stored,     \* stored[t]: posts whose t-rows are in ClickHouse
    dropped,    \* dropped[t]: posts whose t-rows a failed insert discarded
    lost,       \* lost[t]: posts whose t-rows a crash took away
    failures,   \* inserts that failed
    crashes     \* crashes so far

vars == <<server, reply, accepted, channel, buf, writer, draining, stored,
          dropped, lost, failures, crashes>>

Replies   == {"unsent", "inflight", "ok", "full", "unavailable", "refused", "none"}
Retryable == {"full", "unavailable", "none"}
NoPosts   == [t \in Tables |-> {}]

HasRows(t, p) == RowCount[t][p[1]] > 0
IsEmpty(p)    == \A t \in Tables : ~ HasRows(t, p)
Queued        == {channel[i] : i \in DOMAIN channel}
RowsIn(t, S)    == MapThenSumSet(LAMBDA p : RowCount[t][p[1]], S)

Init ==
    /\ server = "serving"
    /\ reply = [p \in Posts |-> "unsent"]
    /\ accepted = {}
    /\ channel = <<>>
    /\ buf = NoPosts
    /\ writer = "select"
    /\ draining = FALSE
    /\ stored = NoPosts
    /\ dropped = NoPosts
    /\ lost = NoPosts
    /\ failures = 0
    /\ crashes = 0

(***************************************************************************)
(* Clients.                                                                *)
(***************************************************************************)

\* A client opens the request; a further attempt only follows a retryable or
\* missing answer.  While stopping, the listener takes no new connection.
Send(p) ==
    /\ server = "serving"
    /\ reply[p] = "unsent"
    /\ p[2] > 1 => reply[<<p[1], p[2] - 1>>] \in Retryable
    /\ reply' = [reply EXCEPT ![p] = "inflight"]
    /\ UNCHANGED <<server, accepted, channel, buf, writer, draining, stored,
                   dropped, lost, failures, crashes>>

\* The connection breaks before the whole request was read.
Disconnect(p) ==
    /\ reply[p] = "inflight"
    /\ reply' = [reply EXCEPT ![p] = "none"]
    /\ UNCHANGED <<server, accepted, channel, buf, writer, draining, stored,
                   dropped, lost, failures, crashes>>

(***************************************************************************)
(* ingest_traces.  Between reading the body and answering there is no      *)
(* await, so decode, convert and try_send are one step; the answer itself  *)
(* may not reach the client ("none").                                      *)
(***************************************************************************)
Answer(p, a) == \E heard \in {a, "none"} : reply' = [reply EXCEPT ![p] = heard]

Refuse(p) ==
    /\ reply[p] = "inflight"
    /\ p[1] \in Malformed
    /\ Answer(p, "refused")
    /\ UNCHANGED <<accepted, channel>>

AckEmpty(p) ==
    /\ reply[p] = "inflight"
    /\ p[1] \notin Malformed
    /\ IsEmpty(p)
    /\ Answer(p, "ok")
    /\ UNCHANGED <<accepted, channel>>

EnqueueOk(p) ==
    /\ reply[p] = "inflight"
    /\ p[1] \notin Malformed
    /\ ~ IsEmpty(p)
    /\ writer # "stopped"
    /\ Len(channel) < Capacity
    /\ channel' = Append(channel, p)
    /\ accepted' = accepted \cup {p}
    /\ Answer(p, "ok")

\* Faulty variant: the post is queued and the client is told it was not.
EnqueueRejectedYetQueued(p) ==
    /\ reply[p] = "inflight"
    /\ p[1] \notin Malformed
    /\ ~ IsEmpty(p)
    /\ Len(channel) = Capacity
    /\ channel' = Append(channel, p)
    /\ accepted' = accepted \cup {p}
    /\ Answer(p, "full")

\* try_send failed: 429 when the channel is full, 503 when the writer is gone.
EnqueueRejected(p) ==
    /\ reply[p] = "inflight"
    /\ p[1] \notin Malformed
    /\ ~ IsEmpty(p)
    /\ writer = "stopped" \/ Len(channel) = Capacity
    /\ Answer(p, IF writer = "stopped" THEN "unavailable" ELSE "full")
    /\ UNCHANGED <<accepted, channel>>

Handle(p) ==
    /\ Refuse(p) \/ AckEmpty(p) \/ EnqueueOk(p) \/ EnqueueRejected(p)
    /\ UNCHANGED <<server, buf, writer, draining, stored, dropped, lost,
                   failures, crashes>>

\* Faulty variants of Receive: the batch replaces the buffer; the size check is
\* off by one.
ReceiveReplacing ==
    /\ writer = "select"
    /\ channel # <<>>
    /\ LET p == Head(channel) IN
           buf' = [t \in Tables |-> IF HasRows(t, p) THEN {p} ELSE buf[t]]
    /\ channel' = Tail(channel)
    /\ writer' = IF \E t \in Tables : RowsIn(t, buf'[t]) >= MaxRows
                 THEN "spans" ELSE "select"
    /\ UNCHANGED <<server, reply, accepted, draining, stored, dropped, lost,
                   failures, crashes>>

ReceiveOffByOne ==
    /\ writer = "select"
    /\ channel # <<>>
    /\ LET p == Head(channel) IN
           buf' = [t \in Tables |-> IF HasRows(t, p) THEN buf[t] \cup {p} ELSE buf[t]]
    /\ channel' = Tail(channel)
    /\ writer' = IF \E t \in Tables : RowsIn(t, buf'[t]) > MaxRows
                 THEN "spans" ELSE "select"
    /\ UNCHANGED <<server, reply, accepted, draining, stored, dropped, lost,
                   failures, crashes>>

(***************************************************************************)
(* writer_loop.  A flush awaits one insert per table, spans first; while   *)
(* it does the task neither receives nor sees ticks.                       *)
(***************************************************************************)
Receive ==
    /\ writer = "select"
    /\ channel # <<>>
    /\ LET p == Head(channel) IN
           buf' = [t \in Tables |-> IF HasRows(t, p) THEN buf[t] \cup {p} ELSE buf[t]]
    /\ channel' = Tail(channel)
    /\ writer' = IF \E t \in Tables : RowsIn(t, buf'[t]) >= MaxRows
                 THEN "spans" ELSE "select"
    /\ UNCHANGED <<server, reply, accepted, draining, stored, dropped, lost,
                   failures, crashes>>

\* Faulty variants of Tick: events are written before spans; the ticker only
\* flushes full buffers.
TickEventsFirst ==
    /\ writer = "select"
    /\ buf # NoPosts
    /\ writer' = "span_events"
    /\ UNCHANGED <<server, reply, accepted, channel, buf, draining, stored,
                   dropped, lost, failures, crashes>>

TickWhenFull ==
    /\ writer = "select"
    /\ \E t \in Tables : RowsIn(t, buf[t]) >= MaxRows
    /\ writer' = "spans"
    /\ UNCHANGED <<server, reply, accepted, channel, buf, draining, stored,
                   dropped, lost, failures, crashes>>

\* A tick with empty buffers changes nothing and is left out.
Tick ==
    /\ writer = "select"
    /\ buf # NoPosts
    /\ writer' = "spans"
    /\ UNCHANGED <<server, reply, accepted, channel, buf, draining, stored,
                   dropped, lost, failures, crashes>>

\* recv() yields None once every sender is gone and the channel is empty.
Drain ==
    /\ writer = "select"
    /\ channel = <<>>
    /\ server = "closed"
    /\ writer' = "spans"
    /\ draining' = TRUE
    /\ UNCHANGED <<server, reply, accepted, channel, buf, stored, dropped,
                   lost, failures, crashes>>

\* Faulty variants: the loop is not left after the last flush; the last flush
\* writes spans only.
AfterInsertNoBreak(t) ==
    writer' = IF t = "spans" THEN "span_events" ELSE "select"
AfterInsertSpansOnly(t) ==
    writer' = CASE draining -> "stopped"
                [] t = "spans" /\ ~ draining -> "span_events"
                [] OTHER -> "select"

AfterInsert(t) ==
    writer' = CASE t = "spans" -> "span_events"
                [] t = "span_events" /\ draining -> "stopped"
                [] OTHER -> "select"

InsertOk(t) ==
    /\ writer = t
    /\ stored' = [stored EXCEPT ![t] = @ \cup buf[t]]
    /\ buf' = [buf EXCEPT ![t] = {}]
    /\ AfterInsert(t)
    /\ UNCHANGED <<server, reply, accepted, channel, draining, dropped, lost,
                   failures, crashes>>

\* Faulty variant of InsertErr: the buffer is kept.
InsertErrKeepingBuffer(t) ==
    /\ writer = t
    /\ buf[t] # {}
    /\ failures < MaxFailures
    /\ failures' = failures + 1
    /\ dropped' = [dropped EXCEPT ![t] = @ \cup buf[t]]
    /\ AfterInsert(t)
    /\ UNCHANGED <<server, reply, accepted, channel, buf, draining, stored, lost,
                   crashes>>

\* insert_rows returned Err: the error is logged and the buffer cleared.  The
\* server may nevertheless have applied the insert before the error was seen.
InsertErr(t) ==
    /\ writer = t
    /\ buf[t] # {}
    /\ failures < MaxFailures
    /\ failures' = failures + 1
    /\ \/ /\ dropped' = [dropped EXCEPT ![t] = @ \cup buf[t]]
          /\ UNCHANGED stored
       \/ /\ stored' = [stored EXCEPT ![t] = @ \cup buf[t]]
          /\ UNCHANGED dropped
    /\ buf' = [buf EXCEPT ![t] = {}]
    /\ AfterInsert(t)
    /\ UNCHANGED <<server, reply, accepted, channel, draining, lost, crashes>>

(***************************************************************************)
(* Process lifetime: run(), shutdown_signal(), and crashes.                *)
(***************************************************************************)
Inflight == {p \in Posts : reply[p] = "inflight"}

Signal ==
    /\ server = "serving"
    /\ server' = "stopping"
    /\ UNCHANGED <<reply, accepted, channel, buf, writer, draining, stored,
                   dropped, lost, failures, crashes>>

\* axum::serve returns after the in-flight requests; the router, and with it
\* the last sender, is dropped.
ServeReturns ==
    /\ server = "stopping"
    /\ Inflight = {}
    /\ server' = "closed"
    /\ UNCHANGED <<reply, accepted, channel, buf, writer, draining, stored,
                   dropped, lost, failures, crashes>>

\* writer.await in run() returns and the process exits.
Exit ==
    /\ server = "closed"
    /\ writer = "stopped"
    /\ server' = "exited"
    /\ UNCHANGED <<reply, accepted, channel, buf, writer, draining, stored,
                   dropped, lost, failures, crashes>>

\* The process dies: everything in memory is gone, in-flight requests are cut
\* off, and an insert under way may or may not have been applied.
Crash ==
    /\ server \in {"serving", "stopping", "closed"}
    /\ crashes < MaxCrashes
    /\ crashes' = crashes + 1
    /\ server' = "down"
    /\ reply' = [p \in Posts |-> IF reply[p] = "inflight" THEN "none" ELSE reply[p]]
    /\ \E applied \in SUBSET ({writer} \cap Tables) :
           /\ stored' = [t \in Tables |-> IF t \in applied THEN stored[t] \cup buf[t] ELSE stored[t]]
           /\ lost' = [t \in Tables |->
                  lost[t] \cup {p \in Queued : HasRows(t, p)}
                          \cup (IF t \in applied THEN {} ELSE buf[t])]
    /\ channel' = <<>>
    /\ buf' = NoPosts
    /\ writer' = "stopped"
    /\ UNCHANGED <<accepted, draining, dropped, failures>>

\* The supervisor starts the process again: run() builds a new channel and
\* spawns a new writer.
Restart ==
    /\ server \in {"down", "exited"}
    /\ server' = "serving"
    /\ writer' = "select"
    /\ draining' = FALSE
    /\ UNCHANGED <<reply, accepted, channel, buf, stored, dropped, lost,
                   failures, crashes>>

Writing == Receive \/ Tick \/ Drain \/ \E t \in Tables : InsertOk(t) \/ InsertErr(t)

Next ==
    \/ \E p \in Posts : Send(p) \/ Disconnect(p) \/ Handle(p)
    \/ Writing
    \/ Signal \/ ServeReturns \/ Exit \/ Crash \/ Restart

(***************************************************************************)
(* Fairness.  The runtime keeps polling a runnable task (handlers, writer, *)
(* run()); request bodies arrive or the connection breaks, and ClickHouse  *)
(* calls return, with success or error (the code has no timeout on either, *)
(* so the network has to provide it).  tokio::select polls its branches in *)
(* random order, so neither the channel nor the ticker is passed over for  *)
(* ever: strong fairness.  Clients, signals, crashes and restarts are not  *)
(* fair.                                                                   *)
(***************************************************************************)
Fairness ==
    /\ \A p \in Posts : WF_vars(Handle(p))
    /\ SF_vars(Receive)
    /\ SF_vars(Tick)
    /\ WF_vars(Drain)
    /\ \A t \in Tables : WF_vars(InsertOk(t) \/ InsertErr(t))
    /\ WF_vars(ServeReturns)
    /\ WF_vars(Exit)

Spec     == Init /\ [][Next]_vars
FairSpec == Spec /\ Fairness

(***************************************************************************)
(* Properties.                                                             *)
(***************************************************************************)

\* Type invariant.
TypeOK ==
    /\ server \in {"serving", "stopping", "closed", "exited", "down"}
    /\ reply \in [Posts -> Replies]
    /\ accepted \subseteq Posts
    /\ channel \in Seq(Posts)
    /\ buf \in [Tables -> SUBSET Posts]
    /\ writer \in {"select", "spans", "span_events", "stopped"}
    /\ draining \in BOOLEAN
    /\ stored \in [Tables -> SUBSET Posts]
    /\ dropped \in [Tables -> SUBSET Posts]
    /\ lost \in [Tables -> SUBSET Posts]
    /\ failures \in 0 .. MaxFailures
    /\ crashes \in 0 .. MaxCrashes

\* Row accounting: the rows of an accepted post are in exactly one place (the
\* channel, the writer's buffer, ClickHouse, a dropped batch, or a crash), for
\* each table separately, so a row is neither forgotten by a flush nor
\* inserted a second time; rows nobody accepted are nowhere.  The channel holds
\* a post at most once.
Accounted ==
    /\ \A t \in Tables :
           /\ {p \in accepted : HasRows(t, p)} =
                  {p \in Queued : HasRows(t, p)}
                      \cup buf[t] \cup stored[t] \cup dropped[t] \cup lost[t]
           /\ Queued \cap buf[t] = {}
           /\ (Queued \cup buf[t]) \cap (stored[t] \cup dropped[t] \cup lost[t]) = {}
           /\ stored[t] \cap (dropped[t] \cup lost[t]) = {}
           /\ dropped[t] \cap lost[t] = {}
    /\ \A i, j \in DOMAIN channel : channel[i] = channel[j] => i = j

\* Content never overtakes its span: an event row is inserted or given up only
\* once the insert of its span has been decided, and outside a flush no event
\* waits in the buffer after its span has gone.  Readers that join span_events
\* to spans rely on the gap lasting one flush.
SpanBeforeContent ==
    \A p \in Posts : HasRows("span_events", p) =>
        /\ p \in stored["span_events"] \cup dropped["span_events"]
               => p \in stored["spans"] \cup dropped["spans"]
        /\ writer = "select" /\ p \in buf["span_events"] => p \in buf["spans"]

\* Backpressure is honest: a client that was told 429 or 503 may retry without
\* creating duplicates; two attempts of one request are both taken only when
\* the answer to the earlier one never arrived.
RetriesDoNotDuplicate ==
    \A r \in Requests : \A m, n \in 1 .. MaxAttempts :
        m < n /\ <<r, m>> \in accepted /\ <<r, n>> \in accepted
            => reply[<<r, m>>] = "none"

\* Memory stays bounded: between flushes each buffer is below MaxRows, and the
\* channel never exceeds its capacity, whatever ClickHouse does.
MemoryBounded ==
    /\ Len(channel) <= Capacity
    /\ MaxRows > 0 /\ writer = "select" =>
           \A t \in Tables : RowsIn(t, buf[t]) < MaxRows

\* Shutdown order: the writer outlives every request handler, so no client is
\* ever answered 503 by EnqueueError::Closed.
WriterOutlivesHandlers == \A p \in Posts : reply[p] # "unavailable"

\* A graceful stop flushes: when the process has exited nothing it accepted is
\* still in the channel or in a buffer.
DrainedOnExit == server = "exited" => channel = <<>> /\ buf = NoPosts

\* Every accepted row leaves memory: it is inserted, or visibly given up.
RowsLeaveMemory ==
    \A p \in Posts :
        (p \in Queued \/ \E t \in Tables : p \in buf[t])
            ~> ~ (p \in Queued \/ \E t \in Tables : p \in buf[t])

\* A shutdown signal is obeyed whether or not the inserts of the last flush
\* succeed, provided that requests and inserts under way do end.
StopTerminates == server = "stopping" ~> server \in {"exited", "down"}

\* The collector implements Ingest: at-most-once insertion of every accepted
\* row through queueing, batching, failed inserts, crashes and restarts.
RowState(t, p) ==
    CASE p \in stored[t]                 -> "stored"
      [] p \in dropped[t] \cup lost[t]   -> "gone"
      [] p \in buf[t] \cup Queued        -> "held"
      [] OTHER                           -> "absent"

PostRows(p) == {<<t, p>> : t \in {u \in Tables : HasRows(u, p)}}

Abstract == INSTANCE Ingest WITH
    Deliveries <- Posts,
    RowsOf     <- PostRows,
    row        <- [x \in UNION {PostRows(p) : p \in Posts} |-> RowState(x[1], x[2])]

ImplementsIngest == Abstract!Spec

\* What routes.rs says of the collector ("buffers through brief ClickHouse
\* blips"): no acknowledged row is given up because one insert failed.
BuffersThroughBlips ==
    \A p \in Posts, t \in Tables : reply[p] = "ok" => p \notin dropped[t]

================================================================================
