---------------------------------- MODULE MCServices ---------------------------------
(***************************************************************************)
(* Small instances of the components that do not talk to each other        *)
(* through shared state: a behaviour picks one of them, its subject, and   *)
(* runs that one while the rest stay in their initial states.              *)
(***************************************************************************)
EXTENDS TokenBucket, TryIt, StatusCache, RowWindow, Viewer, SdkRuntime, Telemetry,
        PyRuntime, Enrichment, Scoring, EvalRules, TraceViews, DemoSeed, SpanTree

\* What the judge's provider may answer: a verdict off the scale, or none at all.
JudgeReplies == {[kind |-> "verdict", raw |-> 9, pass |-> "absent"], [kind |-> "parse_error"]}

\* Python: the instrumentor that each name loads; two names share one.
Loaders == [openai |-> "oa", langchain |-> "lc", langgraph |-> "lc"]
Libraries == DOMAIN Loaders

\* A span carries at most two of the attributes that matter.
TwoKeys == {{}} \cup {{k, l} : k, l \in Attributes}

\* Stored rules: sound, malformed, odd and refused ones.
StoredRule(kind, field, mark) == [kind |-> kind, field |-> field, mark |-> mark]
SomeRules == {StoredRule("valid_json", "ok", FALSE),  StoredRule("json_schema", "ok", TRUE),
              StoredRule("json_schema", "malformed", FALSE), StoredRule("json_schema", "odd", FALSE),
              StoredRule("regex_match", "ok", TRUE),  StoredRule("regex_no_match", "malformed", FALSE),
              StoredRule("contains", "ok", TRUE),     StoredRule("not_contains", "ok", TRUE),
              StoredRule("max_length", "ok", FALSE),  StoredRule("max_length", "missing", FALSE),
              StoredRule("sentiment", "ok", FALSE)}

\* The config of a runner that does not run.
Unruled == [type |-> "deterministic", mode |-> "all", rules |-> <<>>]

\* What the spans of the tree used: a sum of these tells which were added up.
PowersOfTwo == [i \in 1 .. 3 |-> 2 ^ i]

\* Spans of one trace: two steps, and the root that started first and ends last.
Recorded(b, d, err, n, m, top, ev) ==
    [start |-> b, duration |-> d, error |-> err, tokens |-> n, model |-> m, root |-> top,
     events |-> ev]
SomeSpans == <<Recorded(1, 1, FALSE, 2, "a", FALSE, 2), Recorded(2, 1, TRUE, 1, "b", FALSE, 0),
               Recorded(0, 3, FALSE, 0, "", TRUE, 1)>>
ThreeSpans == DOMAIN SomeSpans

VARIABLES
    subject     \* the component that runs

services == <<subject, vars, tryVars, statusVars, rowVars, viewerVars, runtimeVars,
              telemetryVars, hooksVars, enrichVars, scoringVars, rulesVars,
              viewVars, treeVars, corpusVars, seedVars>>

Subjects == {"rate limiter", "rows", "try-it", "status", "viewer", "tree", "views", "sdk",
             "telemetry", "python sdk", "enrichment", "scoring", "rules",
             "corpus", "seeder"}

\* Of the components that do not run, those with a choice of initial states have made it.
ServicesInit ==
    /\ subject \in Subjects
    /\ Init
    /\ RowInit /\ (subject # "rows" => rowCount = 1 /\ box = 3)
    /\ TryInit /\ (subject # "try-it" => endpointOk)
    /\ StatusInit
    /\ ViewerInit /\ (subject # "viewer" => landed = 1 /\ selected = 0)
    /\ TreeInit
    /\ ViewInit
    /\ RuntimeInit
    /\ TelemetryInit
    /\ HooksInit /\ (subject # "python sdk" => installed = {})
    /\ EnrichInit /\ (subject # "enrichment" => capture)
    /\ ScoringInit
    /\ RulesInit /\ (subject # "rules" => stored = Unruled)
    /\ CorpusInit /\ (subject # "corpus" => ~traceSpec.retried /\ ~traceSpec.hardFailure)
    /\ SeedInit

\* A step of one component leaves the others alone.
Only(name) ==
    /\ subject = name /\ subject' = subject
    /\ name # "rate limiter" => UNCHANGED vars
    /\ name # "rows" => UNCHANGED rowVars
    /\ name # "try-it" => UNCHANGED tryVars
    /\ name # "status" => UNCHANGED statusVars
    /\ name # "viewer" => UNCHANGED viewerVars
    /\ name # "tree" => UNCHANGED treeVars
    /\ name # "views" => UNCHANGED viewVars
    /\ name # "sdk" => UNCHANGED runtimeVars
    /\ name # "telemetry" => UNCHANGED telemetryVars
    /\ name # "python sdk" => UNCHANGED hooksVars
    /\ name # "enrichment" => UNCHANGED enrichVars
    /\ name # "scoring" => UNCHANGED scoringVars
    /\ name # "rules" => UNCHANGED rulesVars
    /\ name # "corpus" => UNCHANGED corpusVars
    /\ name # "seeder" => UNCHANGED seedVars

ServicesNext ==
    \/ Only("rate limiter") /\ Next
    \/ Only("rows") /\ RowNext
    \/ Only("try-it") /\ TryNext
    \/ Only("status") /\ StatusNext
    \/ Only("viewer") /\ ViewerNext
    \/ Only("tree") /\ TreeNext
    \/ Only("views") /\ ViewNext
    \/ Only("sdk") /\ RuntimeNext
    \/ Only("telemetry") /\ TelemetryNext
    \/ Only("python sdk") /\ HooksNext
    \/ Only("enrichment") /\ EnrichNext
    \/ Only("scoring") /\ ScoringNext
    \/ Only("rules") /\ RulesNext
    \/ Only("corpus") /\ CorpusNext
    \/ Only("seeder") /\ SeedNext

\* The fairness of the component that runs.
ServicesFairness ==
    /\ \A v \in Visitors : WF_services(Only("try-it") /\ Serve(v))
    /\ WF_services(Only("scoring") /\ Local)

ServicesSpec == ServicesInit /\ [][ServicesNext]_services /\ ServicesFairness

======================================================================================
