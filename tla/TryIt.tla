------------------------------------ MODULE TryIt ------------------------------------
(***************************************************************************)
(* The "Run a live agent" path: the button (TryItButton.tsx), the route    *)
(* (api/try-it) and the sandbox it starts runs in (lib/sandbox.ts).  One   *)
(* visitor's click makes at most one request; a visitor stands for its own *)
(* request and the run it starts.  The limiter in front of the route is    *)
(* TokenBucket; here it may refuse whenever it likes.                      *)
(***************************************************************************)
EXTENDS Integers, FiniteSets

CONSTANTS
    Visitors,       \* clicks on the button, each by one visitor
    MaxConcurrent,  \* SANDBOX_LIMITS.maxConcurrent
    DailyBudget,    \* SANDBOX_LIMITS.dailyBudget
    Tries,          \* FIRST_SPAN_POLL_TRIES
    MaxDay,         \* bound: UTC days
    MaxRestarts     \* bound: restarts of the dashboard

VARIABLES
    endpointOk,     \* TRACEBLOOM_ENDPOINT is a URL the exporter accepts
    initialized,    \* SandboxState.initialized
    active,         \* SandboxState.active
    counted,        \* SandboxState.day and runsToday
    today,          \* the UTC day
    button,         \* button[v]: phase
    tries,          \* tries[v]: polls made for the first span
    run,            \* run[v]: none, unrooted, rooted; over, or stillborn: no root came
    started,        \* history: started[d]: runs started on day d
    restarts        \* restarts so far

tryVars == <<endpointOk, initialized, active, counted, today, button, tries, run,
          started, restarts>>
process == <<initialized, active, counted, started>>
environment == <<endpointOk, today, restarts>>

Days     == 1 .. MaxDay
OpenRuns == {v \in Visitors : run[v] \in {"unrooted", "rooted"}}
NoCounts == [day |-> 0, runs |-> 0]

TryInit ==
    /\ endpointOk \in BOOLEAN
    /\ initialized = FALSE
    /\ active = 0
    /\ counted = NoCounts
    /\ today = 1
    /\ button = [v \in Visitors |-> "idle"]
    /\ tries = [v \in Visitors |-> 0]
    /\ run = [v \in Visitors |-> "none"]
    /\ started = [d \in Days |-> 0]
    /\ restarts = 0

Ended(v)   == IF run[v] = "rooted" THEN "over" ELSE "stillborn"
ShowButton(v, p) == button' = [button EXCEPT ![v] = p]

\* The button is disabled while a request is under way, and busy.current guards it.
Click(v) ==
    /\ button[v] = "idle"
    /\ ShowButton(v, "posting")
    /\ UNCHANGED <<process, environment, tries, run>>

\* 429: the visitor's bucket is empty.
Limited(v) ==
    /\ button[v] = "posting"
    /\ run[v] = "none"
    /\ ShowButton(v, "error")
    /\ UNCHANGED <<process, environment, tries, run>>

\* The request or its answer is lost, whatever the route did with it.
LoseAnswer(v) ==
    /\ button[v] \in {"posting", "polling"}
    /\ ShowButton(v, "error")
    /\ UNCHANGED <<process, environment, tries, run>>

Counts == IF counted.day = today THEN counted ELSE [day |-> today, runs |-> 0]

\* ensureSandboxSdk returns.
Begun == initialized \/ endpointOk

\* startSandboxRun up to its first await.  The slot and the budget are taken
\* before ensureSandboxSdk, which throws when the exporter refuses the endpoint;
\* the route then answers 500.
StartRun(v) ==
    /\ button[v] = "posting"
    /\ run[v] = "none"
    /\ active < MaxConcurrent
    /\ Counts.runs < DailyBudget
    /\ active' = active + 1
    /\ counted' = [Counts EXCEPT !.runs = @ + 1]
    /\ IF Begun
       THEN /\ initialized' = TRUE
            /\ run' = [run EXCEPT ![v] = "unrooted"]
            /\ started' = [started EXCEPT ![today] = @ + 1]
            /\ UNCHANGED button
       ELSE /\ ShowButton(v, "error")
            /\ UNCHANGED <<initialized, run, started>>
    /\ UNCHANGED <<environment, tries>>

\* 503: every slot is busy, or the budget of the day is spent.
Refuse(v) ==
    /\ button[v] = "posting"
    /\ run[v] = "none"
    /\ active >= MaxConcurrent \/ Counts.runs >= DailyBudget
    /\ counted' = Counts
    /\ ShowButton(v, "error")
    /\ UNCHANGED <<initialized, active, started, environment, tries, run>>

\* onRunStart: the root span exists and traceIdReady resolves.
RunRooted(v) ==
    /\ run[v] = "unrooted"
    /\ run' = [run EXCEPT ![v] = "rooted"]
    /\ UNCHANGED <<process, environment, button, tries>>

\* Faulty variant: the slot is kept when the run fails before its root.
RunOverKeepingSlot(v) ==
    /\ v \in OpenRuns
    /\ run' = [run EXCEPT ![v] = Ended(v)]
    /\ active' = IF run[v] = "rooted" THEN active - 1 ELSE active
    /\ UNCHANGED <<initialized, counted, started, environment, button, tries>>

\* The script ends, fails, or the watchdog aborts it; finally gives the slot back.
RunOver(v) ==
    /\ v \in OpenRuns
    /\ run' = [run EXCEPT ![v] = Ended(v)]
    /\ active' = active - 1
    /\ UNCHANGED <<initialized, counted, started, environment, button, tries>>

\* Faulty variant: only the root is awaited.
AnswerClickRootOnly(v) ==
    /\ button[v] = "posting"
    /\ run[v] \in {"rooted", "over"}
    /\ ShowButton(v, "polling")
    /\ UNCHANGED <<process, environment, tries, run>>

\* Promise.race: 202 with the trace id as soon as there is a root, or 503 when
\* the run is over and there was none.
AnswerClick(v) ==
    /\ button[v] = "posting"
    /\ run[v] \in {"rooted", "over", "stillborn"}
    /\ ShowButton(v, IF run[v] = "stillborn" THEN "error" ELSE "polling")
    /\ UNCHANGED <<process, environment, tries, run>>

\* The poll finds the trace, or finds nothing; after the last one the button gives up.
Probe(v) ==
    /\ button[v] = "polling"
    /\ \/ ShowButton(v, "viewing") /\ UNCHANGED tries
       \/ tries[v] + 1 = Tries /\ ShowButton(v, "error") /\ UNCHANGED tries
       \/ /\ tries[v] + 1 < Tries
          /\ tries' = [tries EXCEPT ![v] = @ + 1]
          /\ UNCHANGED button
    /\ UNCHANGED <<process, environment, run>>

Midnight ==
    /\ today < MaxDay
    /\ today' = today + 1
    /\ UNCHANGED <<endpointOk, restarts, process, button, tries, run>>

\* The counters live in the process; so do the runs and the open requests.
RestartDashboard ==
    /\ restarts < MaxRestarts
    /\ restarts' = restarts + 1
    /\ initialized' = FALSE /\ active' = 0 /\ counted' = NoCounts
    /\ run' = [v \in Visitors |-> IF v \in OpenRuns THEN Ended(v) ELSE run[v]]
    /\ button' = [v \in Visitors |-> IF button[v] = "posting" THEN "error" ELSE button[v]]
    /\ UNCHANGED <<endpointOk, today, tries, started>>

Serve(v) ==
    \/ Limited(v) \/ StartRun(v) \/ Refuse(v) \/ RunRooted(v) \/ RunOver(v)
    \/ AnswerClick(v) \/ Probe(v)

TryNext ==
    \/ \E v \in Visitors : Click(v) \/ LoseAnswer(v) \/ Serve(v)
    \/ Midnight \/ RestartDashboard

\* The process runs its promises and timers, and the script is finite: a run that
\* outlives maxRunMs is aborted.  Nobody need click.
TryFairness == \A v \in Visitors : WF_tryVars(Serve(v))
TrySpec == TryInit /\ [][TryNext]_tryVars /\ TryFairness

(***************************************************************************)
(* Properties.                                                             *)
(***************************************************************************)

\* Type invariant.
TryTypeOK ==
    /\ active \in Int
    /\ counted \in [day : 0 .. MaxDay, runs : 0 .. DailyBudget]
    /\ button \in [Visitors -> {"idle", "posting", "polling", "viewing", "error"}]
    /\ tries \in [Visitors -> 0 .. Tries]
    /\ run \in [Visitors -> {"none", "unrooted", "rooted", "over", "stillborn"}]

\* active is the number of simultaneous runs ("simultaneous sandbox runs across
\* all visitors"), whichever way runs end and days and processes change, where
\* the exporter accepts the endpoint.
SlotsMatchRuns == endpointOk => active = Cardinality(OpenRuns)

\* Both caps hold: no more runs than slots, and no more runs on a day than its
\* budget for each process that served that day; and slots do not leak, so that
\* a dashboard that has served for long still serves.
CapsHonoured ==
    /\ SlotsMatchRuns
    /\ Cardinality(OpenRuns) <= MaxConcurrent
    /\ \A d \in Days : started[d] <= DailyBudget * (1 + restarts)

\* The button never stays in "Starting agent...": each click ends at the viewer
\* or with a message, also when the run fails before its first span.
ClicksSettle ==
    \A v \in Visitors :
        button[v] \in {"posting", "polling"} ~> button[v] \in {"viewing", "error"}

================================================================================
