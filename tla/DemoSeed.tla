----------------------------------- MODULE DemoSeed ----------------------------------
(***************************************************************************)
(* The demo's one-shot seeder (apps/demo/src/seed.ts, store.ts): `seed`    *)
(* loads the curated corpus where there is none, `reset` replaces it.  A   *)
(* run may fail between any two of its statements and be started again.    *)
(* The corpus is the same function of the clock every time, ids included;  *)
(* rows are numbered by the timeline (the run) they belong to.             *)
(***************************************************************************)
EXTENDS DemoCorpus

CONSTANTS
    MaxRuns,        \* bound: runs of the seeder
    MaxAge          \* bound: hours since the corpus' nowMs

VARIABLES
    pc,             \* the statement the run is at, or "idle"
    force,          \* options.force
    seedRun,        \* runs so far
    doomed,         \* deleteDemoTelemetry: traceIds
    spans, events,  \* rows: [trace, timeline], of the corpus or a hero trace
    evalResults,    \* timelines with rows in eval_results
    flight,         \* hero traces the SDK exported and the collector has not stored
    hours           \* hours since the newest timeline's now

seedVars == <<pc, force, seedRun, doomed, spans, events, evalResults, flight, hours>>

Corpus(n) == [trace |-> "corpus", timeline |-> n]
Hero(n)   == [trace |-> "hero", timeline |-> n]

\* Rows with the trace id of x: corpora share theirs, a hero trace has its own.
SameTrace(x, y) == x.trace = y.trace /\ (x.trace = "hero" => x = y)

SeedInit ==
    /\ pc = "idle" /\ force = FALSE /\ seedRun = 0
    /\ doomed = {} /\ spans = {} /\ events = {} /\ evalResults = {} /\ flight = {}
    /\ hours = 0

Start(forced) ==
    /\ pc = "idle" /\ seedRun < MaxRuns
    /\ seedRun' = seedRun + 1 /\ force' = forced /\ pc' = "count"
    /\ UNCHANGED <<doomed, spans, events, evalResults, flight, hours>>

\* Demo data and no --force: there is nothing to do.  Otherwise the config rows in
\* Postgres come first, which are upserts.
CountSpans ==
    /\ pc = "count"
    /\ pc' = IF spans = {} THEN "spans" ELSE IF force THEN "resolve" ELSE "idle"
    /\ UNCHANGED <<force, seedRun, doomed, spans, events, evalResults, flight, hours>>

ResolveTraces ==
    /\ pc = "resolve" /\ pc' = "delete events"
    /\ doomed' = spans
    /\ UNCHANGED <<force, seedRun, spans, events, evalResults, flight, hours>>

\* Faulty variant: the spans, by which events are found, go before the events.
DeleteSpansFirst ==
    \/ /\ pc = "resolve" /\ pc' = "delete events"
       /\ spans' = {}
       /\ UNCHANGED <<force, seedRun, doomed, events, evalResults, flight, hours>>
    \/ /\ pc = "delete spans" /\ pc' = "spans"
       /\ UNCHANGED <<force, seedRun, doomed, spans, events, evalResults, flight, hours>>

DeleteEvents ==
    /\ pc = "delete events" /\ pc' = "delete results"
    /\ events' = {e \in events : ~\E x \in doomed : SameTrace(e, x)}
    /\ UNCHANGED <<force, seedRun, doomed, spans, evalResults, flight, hours>>

DeleteResults ==
    /\ pc = "delete results" /\ pc' = "delete spans"
    /\ evalResults' = {}
    /\ UNCHANGED <<force, seedRun, doomed, spans, events, flight, hours>>

\* The last delete; clearEvalRunnerState follows it.
DeleteSpans ==
    /\ pc = "delete spans" /\ pc' = "spans"
    /\ spans' = {}
    /\ UNCHANGED <<force, seedRun, doomed, events, evalResults, flight, hours>>

\* generateCorpus starts the timeline at the current time.
InsertSpans ==
    /\ pc = "spans" /\ pc' = "events"
    /\ spans' = spans \cup {Corpus(seedRun)}
    /\ hours' = 0
    /\ UNCHANGED <<force, seedRun, doomed, events, evalResults, flight>>

InsertEvents ==
    /\ pc = "events" /\ pc' = "results"
    /\ events' = events \cup {Corpus(seedRun)}
    /\ UNCHANGED <<force, seedRun, doomed, spans, evalResults, flight, hours>>

\* A row of an earlier timeline has the same key and gives way.  With --skip-hero
\* the run ends here.
InsertResults ==
    /\ pc = "results" /\ pc' \in {"hero", "idle"}
    /\ evalResults' = {seedRun}
    /\ UNCHANGED <<force, seedRun, doomed, spans, events, flight, hours>>

EmitHero ==
    /\ pc = "hero" /\ pc' = "landing"
    /\ flight' = flight \cup {Hero(seedRun)}
    /\ UNCHANGED <<force, seedRun, doomed, spans, events, evalResults, hours>>

\* The collector stores a hero trace, which may outlive the run that sent it.
HeroLands(hero) ==
    /\ hero \in flight /\ flight' = flight \ {hero}
    /\ spans' = spans \cup {hero} /\ events' = events \cup {hero}
    /\ UNCHANGED <<pc, force, seedRun, doomed, evalResults, hours>>

\* runHeroTrace has counted the hero trace's spans.
SeedDone ==
    /\ pc = "landing" /\ Hero(seedRun) \in spans
    /\ pc' = "idle"
    /\ UNCHANGED <<force, seedRun, doomed, spans, events, evalResults, flight, hours>>

\* A statement fails, the hero trace does not land in time, or the process dies.
Crash ==
    /\ pc # "idle" /\ pc' = "idle"
    /\ doomed' = {}
    /\ UNCHANGED <<force, seedRun, spans, events, evalResults, flight, hours>>

Hour ==
    /\ pc = "idle" /\ hours < MaxAge /\ hours' = hours + 1
    /\ UNCHANGED <<pc, force, seedRun, doomed, spans, events, evalResults, flight>>

Delete == ResolveTraces \/ DeleteEvents \/ DeleteResults \/ DeleteSpans
Insert == InsertSpans \/ InsertEvents \/ InsertResults \/ EmitHero
SeedNext == \/ \E forced \in BOOLEAN : Start(forced)
          \/ CountSpans \/ Delete \/ Insert \/ SeedDone \/ Crash \/ Hour
          \/ \E hero \in flight : HeroLands(hero)
SeedSpec == SeedInit /\ [][SeedNext]_seedVars

(***************************************************************************)
(* The A/B story of the corpus: its newest twelve traces of each variant,  *)
(* numbered from the newest (traceSpecs).                                  *)
(***************************************************************************)

\* The minutes of trace i's start before now, at the earliest or the latest draw.
StartedAgo(variant, i, late) ==
    30 + 114 * i + IF variant = "v1" THEN (IF late THEN 20 ELSE 0) ELSE (IF late THEN 45 ELSE 5)

Refusal(variant, i)     == IF variant = "v1" THEN i = 7 ELSE i \in {0, 2, 3, 5, 8, 9, 11}
HardFailure(variant, i) == IF variant = "v1" THEN i = 4 ELSE i = 6

\* Plan, draft and summary; a hard failure stops after the plan.
ModelCalls(variant, i) == IF HardFailure(variant, i) THEN 1 ELSE 3

\* The traces still in the last day's window, and the `no-refusal` results of these.
Recent(variant, late) == {i \in 0 .. 11 : StartedAgo(variant, i, late) + 60 * hours < 1440}
VerdictCount(variant, late) ==
    MapThenSumSet(LAMBDA i : ModelCalls(variant, i), Recent(variant, late))
PassedOf(variant, late) ==
    VerdictCount(variant, late)
        - Cardinality({i \in Recent(variant, late) : Refusal(variant, i) /\ ~HardFailure(variant, i)})

(***************************************************************************)
(* Properties.                                                             *)
(***************************************************************************)

\* A `reset` that comes to its end leaves one whole corpus, wherever the runs
\* before it failed: its spans, their events and their results, of one timeline.
ResetDone == force /\ (SeedDone \/ (InsertResults /\ pc' = "idle"))
ResetLeavesOneCorpus ==
    ResetDone => LET One(table) == {x \in table : x.trace = "corpus"} = {Corpus(seedRun)} IN
                 One(spans') /\ One(events') /\ evalResults' = {seedRun}

\* No run, complete or not, leaves content of the corpus without the spans it
\* belongs to, which no later run could find to delete.
NoOrphanContent ==
    \A e \in events : e.trace = "corpus" => \E s \in spans : SameTrace(e, s)

\* `seed` may be repeated: the corpus is never there twice, on two timelines.
OneTimeline == Cardinality({s \in spans : s.trace = "corpus"}) <= 1

\* The corpus tells its story for as long as seventeen hours: there are the samples
\* that detection and verifyDemo ask for, and v2's pass rate is lower by more than
\* the threshold of 0.1, however the start times were drawn.
RegressionVisible ==
    evalResults # {} /\ hours <= 17 =>
        \A late1, late2 \in BOOLEAN :
            LET n1 == VerdictCount("v1", late1)  p1 == PassedOf("v1", late1)
                n2 == VerdictCount("v2", late2)  p2 == PassedOf("v2", late2)
            IN  /\ n1 >= 10 /\ n2 >= 10
                /\ 10 * (p1 * n2 - p2 * n1) > n1 * n2

\* Seeding may be repeated and may fail: the demo has one corpus or a part of one.
CorpusWhole == ResetLeavesOneCorpus /\ NoOrphanContent' /\ OneTimeline' /\ RegressionVisible'

\* The demo's data are those of a real agent, and there once: every trace looks
\* recorded, and the seeder leaves one corpus, wherever a run of it fails.
DemoDataSound == [][LooksRecorded' /\ CorpusWhole]_<<corpusVars, seedVars>>

================================================================================
