--------------------------------- MODULE EvalRunner ---------------------------------
(***************************************************************************)
(* The eval runner (apps/eval-runner): one definition, the runners that    *)
(* score landed spans against it, the dashboard's edits of it and the      *)
(* regression signals raised from its results.  Definitions share no state *)
(* with one another, so one stands for each.                               *)
(*                                                                         *)
(* Every await of runEval ends an action: what was read before it may be   *)
(* stale when it is used.                                                  *)
(***************************************************************************)
EXTENDS Integers, FiniteSets, FiniteSetsExt

CONSTANTS
    Spans,          \* spans that match the definition's selector
    Start,          \* Start[s]: start_time, a positive instant
    Contents,       \* contents (input and output) that spans may capture
    Content,        \* Content[s]: what s captures, or None
    Sampled,        \* spans that sampleDecision lets in: a function of the id
    Configs,        \* evaluator configurations
    FirstConfig,    \* the one the definition is created with
    Keys,           \* (variant, metric) pairs that may regress
    BatchLimit,     \* batchLimit
    Overlap,        \* watermarkOverlapMs
    Lookback,       \* lookbackMs
    Window,         \* regressionWindowMs
    Runners,        \* eval-runner processes
    Editors,        \* dashboard requests that edit the definition
    MaxVersion,     \* bound: versions of the definition
    MaxTime,        \* bound: the clock
    MaxAborts       \* bound: failed or killed runs

None == "none"
Err  == "error"

ASSUME EvalAssumption ==
    /\ Start \in [Spans -> 1 .. MaxTime]
    /\ Content \in [Spans -> Contents \cup {None}]
    /\ Sampled \subseteq Spans
    /\ FirstConfig \in Configs
    /\ {None, Err} \cap (Configs \cup Contents) = {}
    /\ {BatchLimit, MaxVersion, MaxTime} \subseteq Nat \ {0}
    /\ {Overlap, Lookback, Window, MaxAborts} \subseteq Nat

VARIABLES
    clock,      \* now
    stage,      \* stage[s]: absent, bare (no events yet), intime or late
    def,        \* eval_definitions: version, config, enabled
    editor,     \* editor[e]: the version an edit has read, or 0
    results,    \* eval_results: results[v][s], the config that scored it, Err or None
    mark,       \* eval_state.watermark, 0 for none
    signals,    \* eval_regressions
    runner,     \* runner[r]: the run in progress
    aborts      \* runs aborted so far

vars == <<clock, stage, def, editor, results, mark, signals, runner, aborts>>

Versions == 1 .. MaxVersion
NoScores == [h \in Contents |-> None]
NoSignal == [key |-> None, at |-> 0, copy |-> 0, notified |-> FALSE]
Resting  == [pc |-> "idle", ver |-> 1, config |-> FirstConfig, now |-> 0, since |-> 0,
             newest |-> 0, rows |-> {}, scores |-> NoScores, found |-> {},
             raised |-> NoSignal]

Init ==
    /\ clock = 1
    /\ stage = [s \in Spans |-> "absent"]
    /\ def = [version |-> 1, config |-> FirstConfig, enabled |-> TRUE]
    /\ editor = [e \in Editors |-> 0]
    /\ results = [v \in Versions |-> [s \in Spans |-> None]]
    /\ mark = 0
    /\ signals = {}
    /\ runner = [r \in Runners |-> Resting]
    /\ aborts = 0

(***************************************************************************)
(* The environment: time, and the collector, which makes a span visible    *)
(* first and its content events afterwards.                                *)
(***************************************************************************)
Tick ==
    /\ clock < MaxTime
    /\ clock' = clock + 1
    /\ UNCHANGED <<stage, def, editor, results, mark, signals, runner, aborts>>

LandSpan(s) ==
    /\ stage[s] = "absent"
    /\ Start[s] <= clock
    /\ stage' = [stage EXCEPT ![s] = "bare"]
    /\ UNCHANGED <<clock, def, editor, results, mark, signals, runner, aborts>>

LandContent(s) ==
    /\ stage[s] = "bare"
    /\ Content[s] # None
    /\ stage' = [stage EXCEPT ![s] = IF clock - Start[s] < Overlap THEN "intime" ELSE "late"]
    /\ UNCHANGED <<clock, def, editor, results, mark, signals, runner, aborts>>

Visible    == {s \in Spans : stage[s] # "absent"}
HasContent == {s \in Spans : stage[s] \in {"intime", "late"}}

(***************************************************************************)
(* The dashboard: updateEvalConfig reads the row, validates and writes the *)
(* successor of the version it read; the watermark is not touched.         *)
(***************************************************************************)
EditRead(e) ==
    /\ editor[e] = 0
    /\ editor' = [editor EXCEPT ![e] = def.version]
    /\ UNCHANGED <<clock, stage, def, results, mark, signals, runner, aborts>>

\* Faulty variant: the version is not bumped.
EditWriteInPlace(e) ==
    /\ editor[e] # 0
    /\ \E g \in Configs : def' = [def EXCEPT !.config = g]
    /\ editor' = [editor EXCEPT ![e] = 0]
    /\ UNCHANGED <<clock, stage, results, mark, signals, runner, aborts>>

EditWrite(e) ==
    /\ editor[e] # 0
    /\ editor[e] < MaxVersion
    /\ \E g \in Configs : def' = [def EXCEPT !.config = g, !.version = editor[e] + 1]
    /\ editor' = [editor EXCEPT ![e] = 0]
    /\ UNCHANGED <<clock, stage, results, mark, signals, runner, aborts>>

\* validateConfig throws.
EditInvalid(e) ==
    /\ editor[e] # 0
    /\ editor' = [editor EXCEPT ![e] = 0]
    /\ UNCHANGED <<clock, stage, def, results, mark, signals, runner, aborts>>

SetEnabled ==
    /\ def' = [def EXCEPT !.enabled = ~ @]
    /\ UNCHANGED <<clock, stage, editor, results, mark, signals, runner, aborts>>

(***************************************************************************)
(* runOnce and runEval, one action per await.                              *)
(***************************************************************************)
Goto(r, pc, run) == runner' = [runner EXCEPT ![r] = [run EXCEPT !.pc = pc]]

\* runOnce lists the enabled definitions.
List(r) ==
    /\ runner[r].pc = "idle"
    /\ def.enabled
    /\ Goto(r, "listed", [Resting EXCEPT !.ver = def.version, !.config = def.config])
    /\ UNCHANGED <<clock, stage, def, editor, results, mark, signals, aborts>>

\* Faulty variant: no overlap.
ReadStateExact(r) ==
    /\ runner[r].pc = "listed"
    /\ Goto(r, "scan", [runner[r] EXCEPT !.now = clock,
           !.since = IF mark # 0 THEN mark ELSE clock - Lookback])
    /\ UNCHANGED <<clock, stage, def, editor, results, mark, signals, aborts>>

\* The window starts below the watermark, or a lookback ago on the first run; it
\* ends at the time the run began, which the clock may have left behind by Scan.
ReadState(r) ==
    /\ runner[r].pc = "listed"
    /\ Goto(r, "scan", [runner[r] EXCEPT !.now = clock,
           !.since = IF mark # 0 THEN mark - Overlap ELSE clock - Lookback])
    /\ UNCHANGED <<clock, stage, def, editor, results, mark, signals, aborts>>

\* ORDER BY start_time LIMIT batchLimit; ties come in any order.
Pages(rows) ==
    IF Cardinality(rows) <= BatchLimit THEN {rows}
    ELSE {P \in kSubset(BatchLimit, rows) : \A s \in P, q \in rows \ P : Start[s] <= Start[q]}

Newest(page) == Max({Start[s] : s \in page})

\* selectCandidateSpans; an empty window leaves the watermark alone.
Scan(r) ==
    LET run == runner[r]
        window == {s \in Visible : run.since < Start[s] /\ Start[s] <= run.now} IN
    /\ run.pc = "scan"
    /\ \E page \in Pages(window) :
           IF page = {} THEN Goto(r, "detect", [run EXCEPT !.since = 0])
           ELSE Goto(r, "existing", [run EXCEPT !.since = 0, !.rows = page,
                                                !.newest = Newest(page)])
    /\ UNCHANGED <<clock, stage, def, editor, results, mark, signals, aborts>>

\* Faulty variant: spans already scored are scored again.
ExistingIgnored(r) ==
    LET run == runner[r]
        fresh == run.rows \cap Sampled IN
    /\ run.pc = "existing"
    /\ Goto(r, IF fresh = {} THEN "save" ELSE "events", [run EXCEPT !.rows = fresh])
    /\ UNCHANGED <<clock, stage, def, editor, results, mark, signals, aborts>>

\* Sampling, then fetchExistingSpanIds: errored rows count as scored.
Existing(r) ==
    LET run == runner[r]
        fresh == {s \in run.rows \cap Sampled : results[run.ver][s] = None} IN
    /\ run.pc = "existing"
    /\ Goto(r, IF fresh = {} THEN "save" ELSE "events", [run EXCEPT !.rows = fresh])
    /\ UNCHANGED <<clock, stage, def, editor, results, mark, signals, aborts>>

\* fetchSpanEvents; spans without content are skipped.
Events(r) ==
    /\ runner[r].pc = "events"
    /\ Goto(r, "cache", [runner[r] EXCEPT !.rows = @ \cap HasContent])
    /\ UNCHANGED <<clock, stage, def, editor, results, mark, signals, aborts>>

HashesOf(rows) == {Content[s] : s \in rows}

\* Successful results of version v for content h (not necessarily of the same span).
Scored(v, h) == {results[v][s] : s \in {q \in Spans : Content[q] = h}} \cap Configs

\* fetchContentCache: one successful result per content, any of them.
Cache(r) ==
    LET run == runner[r] IN
    /\ run.pc = "cache"
    /\ \E hits \in [Contents -> Configs \cup {None}] :
        /\ \A h \in Contents :
               IF h \in HashesOf(run.rows) /\ Scored(run.ver, h) # {}
               THEN hits[h] \in Scored(run.ver, h) ELSE hits[h] = None
        /\ Goto(r, "judge", [run EXCEPT !.scores = hits])
    /\ UNCHANGED <<clock, stage, def, editor, results, mark, signals, aborts>>

Unscored(run) == {h \in HashesOf(run.rows) : run.scores[h] = None}

\* One unique content is scored; a failure is an outcome like any other.
Judge(r) ==
    LET run == runner[r] IN
    /\ run.pc = "judge"
    /\ \E h \in Unscored(run), outcome \in {run.config, Err} :
           Goto(r, "judge", [run EXCEPT !.scores[h] = outcome])
    /\ UNCHANGED <<clock, stage, def, editor, results, mark, signals, aborts>>

\* Every worker is done: insertEvalResults, a replacing insert per (version, span).
Insert(r) ==
    LET run == runner[r] IN
    /\ run.pc = "judge"
    /\ Unscored(run) = {}
    /\ results' = [results EXCEPT ![run.ver] =
           [s \in Spans |-> IF s \in run.rows THEN run.scores[Content[s]] ELSE @[s]]]
    /\ Goto(r, "save", [run EXCEPT !.rows = {}, !.scores = NoScores])
    /\ UNCHANGED <<clock, stage, def, editor, mark, signals, aborts>>

\* Faulty variant: the run's own time is saved.
SaveNow(r) ==
    /\ runner[r].pc = "save"
    /\ mark' = runner[r].now
    /\ Goto(r, "detect", [runner[r] EXCEPT !.newest = 0])
    /\ UNCHANGED <<clock, stage, def, editor, results, signals, aborts>>

\* The watermark is set to the newest span of the page, whatever it was before.
Save(r) ==
    /\ runner[r].pc = "save"
    /\ mark' = runner[r].newest
    /\ Goto(r, "detect", [runner[r] EXCEPT !.newest = 0])
    /\ UNCHANGED <<clock, stage, def, editor, results, signals, aborts>>

(***************************************************************************)
(* runRegressionPass.  detectRegressions is a function of the statistics;  *)
(* which keys it reports is left open.                                     *)
(***************************************************************************)
Detect(r) ==
    /\ runner[r].pc = "detect"
    /\ \E K \in SUBSET Keys :
           IF K = {} THEN Goto(r, "idle", Resting)
           ELSE Goto(r, "recent", [runner[r] EXCEPT !.found = K])
    /\ UNCHANGED <<clock, stage, def, editor, results, mark, signals, aborts>>

\* Faulty variant: only signals that were notified count as raised.
RecentNotified(r) ==
    LET run == runner[r]
        seen == {g.key : g \in {x \in signals : x.at > run.now - Window /\ x.notified}} IN
    /\ run.pc = "recent"
    /\ Goto(r, "raise", [run EXCEPT !.found = @ \ seen])
    /\ UNCHANGED <<clock, stage, def, editor, results, mark, signals, aborts>>

\* Keys already raised in this window are dropped.
Recent(r) ==
    LET run == runner[r]
        seen == {g.key : g \in {x \in signals : x.at > run.now - Window}} IN
    /\ run.pc = "recent"
    /\ Goto(r, "raise", [run EXCEPT !.found = @ \ seen])
    /\ UNCHANGED <<clock, stage, def, editor, results, mark, signals, aborts>>

\* The first step of the loop over regressions: the signal is persisted.
Raise(r) ==
    LET run == runner[r] IN
    /\ run.pc = "raise"
    /\ \E k \in run.found :
        LET twins  == {g \in signals : g.key = k /\ g.at = clock}
            signal == [key |-> k, at |-> clock, copy |-> Cardinality(twins),
                       notified |-> FALSE] IN
        /\ signals' = signals \cup {signal}
        /\ Goto(r, "post", [run EXCEPT !.found = @ \ {k}, !.raised = signal])
    /\ UNCHANGED <<clock, stage, def, editor, results, mark, aborts>>

\* The webhook answered and the signal is marked ...
Notify(r) ==
    LET run == runner[r] IN
    /\ run.pc = "post"
    /\ signals' = (signals \ {run.raised}) \cup {[run.raised EXCEPT !.notified = TRUE]}
    /\ Goto(r, "raise", [run EXCEPT !.raised = NoSignal])
    /\ UNCHANGED <<clock, stage, def, editor, results, mark, aborts>>

\* ... or no webhook is configured, or it or the update failed, which is logged.
NotifyFailed(r) ==
    /\ runner[r].pc = "post"
    /\ Goto(r, "raise", [runner[r] EXCEPT !.raised = NoSignal])
    /\ UNCHANGED <<clock, stage, def, editor, results, mark, signals, aborts>>

Finish(r) ==
    /\ runner[r].pc = "raise"
    /\ runner[r].found = {}
    /\ Goto(r, "idle", Resting)
    /\ UNCHANGED <<clock, stage, def, editor, results, mark, signals, aborts>>

\* A query fails (runOnce catches it and goes on with the next definition) or
\* the process dies and is started again; what was written stays.
Abort(r) ==
    /\ aborts < MaxAborts
    /\ runner[r].pc # "idle"
    /\ runner' = [runner EXCEPT ![r] = Resting]
    /\ aborts' = aborts + 1
    /\ UNCHANGED <<clock, stage, def, editor, results, mark, signals>>

Run(r) ==
    \/ List(r) \/ ReadState(r) \/ Scan(r) \/ Existing(r) \/ Events(r) \/ Cache(r)
    \/ Judge(r) \/ Insert(r) \/ Save(r)
    \/ Detect(r) \/ Recent(r) \/ Raise(r) \/ Notify(r) \/ NotifyFailed(r) \/ Finish(r)

Next ==
    \/ Tick
    \/ \E s \in Spans : LandSpan(s) \/ LandContent(s)
    \/ \E e \in Editors : EditRead(e) \/ EditWrite(e) \/ EditInvalid(e)
    \/ SetEnabled
    \/ \E r \in Runners : Run(r) \/ Abort(r)

\* A runner keeps going (--watch loops for ever and the container restarts it).
\* Nothing else is fair: no span need land, nobody need edit, time may stand still.
Spec     == Init /\ [][Next]_vars
FairSpec == Spec /\ \A r \in Runners : WF_vars(Run(r))

(***************************************************************************)
(* Properties.                                                             *)
(***************************************************************************)
Outcomes == Configs \cup {Err, None}

\* Type invariant.
TypeOK ==
    /\ clock \in 1 .. MaxTime
    /\ stage \in [Spans -> {"absent", "bare", "intime", "late"}]
    /\ def \in [version : Versions, config : Configs, enabled : BOOLEAN]
    /\ editor \in [Editors -> 0 .. MaxVersion]
    /\ results \in [Versions -> [Spans -> Outcomes]]
    /\ mark \in 0 .. MaxTime
    /\ signals \subseteq [key : Keys, at : 1 .. MaxTime, copy : Nat, notified : BOOLEAN]
    /\ \A r \in Runners :
           /\ runner[r].pc \in {"idle", "listed", "scan", "existing", "events", "cache", "judge",
                                "save", "detect", "recent", "raise", "post"}
           /\ runner[r].ver \in Versions /\ runner[r].config \in Configs
           /\ runner[r].now \in 0 .. MaxTime /\ runner[r].newest \in 0 .. MaxTime
           /\ runner[r].rows \subseteq Spans /\ runner[r].found \subseteq Keys
           /\ runner[r].scores \in [Contents -> Outcomes]
    /\ aborts \in 0 .. MaxAborts

ScoredOnce(s) == \E v \in Versions : results[v][s] # None

\* The watermark never passes a sampled span that arrived, content included, in
\* less than the overlap: either it has a result or a later window contains it
\* ("so scans stay bounded without missing late arrivals", db/src/schema.ts).
InTimeNeverPassed ==
    \A s \in Sampled :
        stage[s] = "intime" /\ mark # 0 /\ Start[s] <= mark - Overlap => ScoredOnce(s)

\* Results of one version come from one configuration, though edits land while
\* a run is under way and its results are reused by later runs.
OneConfigPerVersion ==
    \A v \in Versions : Cardinality({results[v][s] : s \in Spans} \cap Configs) <= 1

\* A result, once written, is not written again: overlapping windows and aborted
\* runs do not score a span twice (D9, "re-runs cheap as well as correct").
ResultsStable ==
    \A v \in Versions, s \in Spans : results[v][s] # None => results'[v][s] = results[v][s]

\* Content with a successful result under the run's version is not sent to the
\* judge again (D10, "identical outputs are never re-judged").
NeverRejudged ==
    \A r \in Runners : \A h \in Unscored(runner[r]) :
        runner[r].pc = "judge" /\ runner'[r].pc = "judge"
            /\ runner'[r].scores[h] # runner[r].scores[h]
        => Scored(runner[r].ver, h) = {}

\* Runs only add: nothing is scored or judged twice, and the watermark, "the newest
\* evaluated span's start time" (db/src/schema.ts), does not go back.
RunsOnlyAdd == [][TypeOK' /\ ResultsStable /\ NeverRejudged /\ mark' >= mark]_vars

\* Signals for one variant and metric are a window apart, aborted runs included.
SignalsSpaced ==
    \A x, y \in signals : x.key = y.key /\ x.at <= y.at /\ x # y => y.at - x.at >= Window

\* Every sampled span that arrives in time is scored, whatever runs abort and
\* edits happen meanwhile, unless the definition stays disabled or keeps being
\* switched.
InTimeScored ==
    <>[](def.enabled) => \A s \in Sampled : stage[s] = "intime" ~> ScoredOnce(s)

================================================================================
