--------------------------------- MODULE StatusCache ---------------------------------
(***************************************************************************)
(* GET /api/status (apps/dashboard/app/api/status/route.ts): three checks  *)
(* fanned out to ClickHouse, Postgres and the collector, their outcome     *)
(* kept for a while in one variable of the process.  The handler awaits    *)
(* between reading that variable and writing it.                           *)
(***************************************************************************)
EXTENDS Integers, FiniteSets

CONSTANTS
    Readers,    \* clients, each with one request at a time
    Ttl,        \* CACHE_TTL_MS
    Timeout,    \* CHECK_TIMEOUT_MS
    MaxClock    \* bound: the clock

Never == 0
Verdicts == {"ok", "error"}

VARIABLES
    now,        \* Date.now()
    healthy,    \* do the three services answer
    cached,     \* the cached payload: when it was asked for, and its verdict
    asking,     \* asking[r]: when r's fan-out started, or Never
    outcome,    \* outcome[r]: the verdict of r's checks so far
    since,      \* history: when a service last went down or came back
    served      \* history: the last answer, and when it was given

statusVars == <<now, healthy, cached, asking, outcome, since, served>>

Empty   == [at |-> Never, verdict |-> "ok"]
Asking  == {r \in Readers : asking[r] # Never}
Started == {asking[r] : r \in Asking}

StatusInit ==
    /\ now = 1
    /\ healthy = TRUE
    /\ cached = Empty
    /\ asking = [r \in Readers |-> Never]
    /\ outcome = [r \in Readers |-> "ok"]
    /\ since = Never
    /\ served = [verdict |-> "ok", when |-> Never]

\* A check is over, one way or the other, CHECK_TIMEOUT_MS after it started.
CheckTick ==
    /\ now < MaxClock
    /\ \A at \in Started : now < at + Timeout
    /\ now' = now + 1
    /\ UNCHANGED <<healthy, cached, asking, outcome, since, served>>

\* A service goes down, or comes back.  The checks under way may notice: each
\* fan-out's verdict is settled by what it met between its start and its end.
Flip ==
    /\ healthy' = ~healthy
    /\ \E met \in SUBSET Asking :
           outcome' = [r \in Readers |-> IF r \notin met THEN outcome[r]
                                      ELSE IF healthy THEN "error" ELSE "ok"]
    /\ since' = now
    /\ UNCHANGED <<now, cached, asking, served>>

Fresh == cached.at # Never /\ now - cached.at <= Ttl

\* A hit answers at once.
Hit(r) ==
    /\ r \notin Asking
    /\ Fresh
    /\ served' = [verdict |-> cached.verdict, when |-> now]
    /\ UNCHANGED <<now, healthy, cached, asking, outcome, since>>

\* A miss fans out and awaits; requests that come meanwhile miss as well.
Miss(r) ==
    /\ r \notin Asking
    /\ ~Fresh
    /\ asking' = [asking EXCEPT ![r] = now]
    /\ outcome' = [outcome EXCEPT ![r] = IF healthy THEN "ok" ELSE "error"]
    /\ UNCHANGED <<now, healthy, cached, since, served>>

\* Faulty variant: the payload is stamped when it is stored.
StoreStampedLate(r) ==
    /\ r \in Asking
    /\ cached' = [at |-> now, verdict |-> outcome[r]]
    /\ served' = [verdict |-> outcome[r], when |-> now]
    /\ asking' = [asking EXCEPT ![r] = Never]
    /\ UNCHANGED <<now, healthy, outcome, since>>

\* The checks are over: the payload, stamped with the time of the request, takes
\* the cache whatever is in it by now, and is the answer.
Store(r) ==
    /\ r \in Asking
    /\ cached' = [at |-> asking[r], verdict |-> outcome[r]]
    /\ served' = [verdict |-> outcome[r], when |-> now]
    /\ asking' = [asking EXCEPT ![r] = Never]
    /\ UNCHANGED <<now, healthy, outcome, since>>

StatusNext == CheckTick \/ Flip \/ \E r \in Readers : Hit(r) \/ Miss(r) \/ Store(r)

StatusSpec == StatusInit /\ [][StatusNext]_statusVars

(***************************************************************************)
(* Properties.                                                             *)
(***************************************************************************)

\* Type invariant.
StatusTypeOK ==
    /\ now \in 1 .. MaxClock /\ since \in 0 .. MaxClock
    /\ cached \in [at : 0 .. MaxClock, verdict : Verdicts]
    /\ asking \in [Readers -> 0 .. MaxClock]
    /\ outcome \in [Readers -> Verdicts]
    /\ served \in [verdict : Verdicts, when : 0 .. MaxClock]

\* The verdict served is the truth if that has not changed for longer than the TTL.
Reported == now - since > Ttl => (served'.verdict = "ok" <=> healthy)

\* A dashboard that has been up, or down, for longer than the TTL is reported as
\* such, whichever of several overlapping fan-outs wrote the cache last.
OutageReported == [][Reported]_served

================================================================================
