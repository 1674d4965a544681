----------------------------------- MODULE Feedback ----------------------------------
(***************************************************************************)
(* The table eval_results (apps/eval-runner) and what is made of it.       *)
(* Scores that the application records (recordEvaluation in both SDKs) are *)
(* events of a span, which land with it; every pass of the runner promotes *)
(* them into rows (sdk-results.ts).  A definition's own scores are inserted*)
(* beside them, and these are compared by variant (runner.ts,              *)
(* clickhouse.ts, regression.ts).  Scores are in halves: 2 is 1.0.         *)
(***************************************************************************)
EXTENDS Integers, FiniteSets, FiniteSetsExt

CONSTANTS
    ScoredSpans,
    VariantOf,      \* VariantOf[s]: computeVariant of span s
    StartAt,        \* StartAt[s]: start_time of span s, in ticks
    Judgments,      \* what an evaluator may make of a span: [body, passed]
    SdkLookback,    \* lookbackMs, in ticks
    SdkLimit,       \* batchLimit
    RegressionWindow,   \* regressionWindowMs, in ticks
    MinSamples,     \* regressionMinSamples
    Drop,           \* meanScoreDrop and passRateDrop, in halves
    MaxTicks,       \* bound: ticks
    MaxEvents,      \* bound: events recorded
    MaxVersions     \* bound: versions of the definition

Error     == -1
Malformed == -2
Bodies    == {0, 1, 2, Error, Malformed}   \* a score; an error; a body with no name

\* A limit is a number of rows, a drop is no rise (env.ts), and an error no pass.
ASSUME FeedbackAssumption ==
    /\ SdkLimit \in Nat /\ MinSamples \in Nat /\ Drop \in Nat
    /\ IsFiniteSet(ScoredSpans)
    /\ Judgments \subseteq [body : {0, 1, 2}, passed : BOOLEAN]
                       \cup {[body |-> Error, passed |-> FALSE]}

VARIABLES
    ticks,
    recording,  \* spans that are recording
    recorded,   \* events on spans: [span, at, body]
    inTables,   \* spans whose rows and events are in ClickHouse
    table,      \* eval_results FINAL: [eval, version, span, body, passed]
    version,    \* the definition's, in Postgres
    scored,     \* history: <<span, version>> the definition has given a score
    passes      \* history: whether the last step was a pass whose window fit

feedbackVars == <<ticks, recording, recorded, inTables, table, version, scored, passes>>

FeedbackInit ==
    /\ ticks = 0
    /\ recording = ScoredSpans
    /\ recorded = {} /\ inTables = {} /\ table = {}
    /\ version = 1 /\ scored = {}
    /\ passes = FALSE

\* An event at the current time, unless the span has ended: then it is a no-op.
\* Emitters other than the SDKs may leave the name out.
Record(s, body) ==
    /\ s \in recording /\ Cardinality(recorded) < MaxEvents
    /\ recorded' = recorded \cup {[span |-> s, at |-> ticks, body |-> body]}
    /\ passes' = FALSE
    /\ UNCHANGED <<ticks, recording, inTables, table, version, scored>>

EndSpan(s) ==
    /\ s \in recording /\ recording' = recording \ {s}
    /\ passes' = FALSE
    /\ UNCHANGED <<ticks, recorded, inTables, table, version, scored>>

\* The collector inserts an ended span when it gets to it.
LandScored(s) ==
    /\ s \notin recording /\ s \notin inTables
    /\ inTables' = inTables \cup {s}
    /\ passes' = FALSE
    /\ UNCHANGED <<ticks, recording, recorded, table, version, scored>>

PassTime ==
    /\ ticks < MaxTicks /\ ticks' = ticks + 1
    /\ passes' = FALSE
    /\ UNCHANGED <<recording, recorded, inTables, table, version, scored>>

SdkWindow == {e \in recorded : e.span \in inTables /\ ticks - SdkLookback < e.at /\ e.at <= ticks}

\* fetchSdkEvaluationEvents: any SdkLimit events of the window.
Fetched == {batch \in SUBSET SdkWindow :
                Cardinality(batch) = Min({SdkLimit, Cardinality(SdkWindow)})}

\* Faulty variant: an error counts like its score, 0.
RowOfError(e) == [eval |-> "sdk", version |-> 1, span |-> e.span,
                  body |-> IF e.body = Error THEN 0 ELSE e.body, passed |-> e.body >= 1]

\* toSdkResultRow: under an eval_id of its own; a score of a half passes.
Row(e) == [eval |-> "sdk", version |-> 1, span |-> e.span,
           body |-> e.body, passed |-> e.body >= 1]

Key(row) == <<row.eval, row.version, row.span>>

Rows(batch) == {Row(e) : e \in {f \in batch : f.body # Malformed}}

\* Of the rows with one key, those of the last insert win, and of these any one.
Inserted(rows) ==
    LET keys == {Key(r) : r \in rows} IN
    {{r \in table : Key(r) \notin keys} \cup winners :
        winners \in {w \in SUBSET rows : /\ Cardinality(w) = Cardinality(keys)
                                         /\ {Key(r) : r \in w} = keys}}

\* promoteSdkEvaluations, at the start of every pass.
Promote ==
    /\ \E batch \in Fetched : table' \in Inserted(Rows(batch))
    /\ passes' = (Cardinality(SdkWindow) <= SdkLimit)
    /\ UNCHANGED <<ticks, recording, recorded, inTables, version, scored>>

\* The user edits the definition.
EditDefinition ==
    /\ version < MaxVersions /\ version' = version + 1
    /\ passes' = FALSE
    /\ UNCHANGED <<ticks, recording, recorded, inTables, table, scored>>

\* Landed spans with no row of version k.
Fresh(k) == {s \in inTables : \A r \in table : Key(r) # <<"def", k, s>>}

\* runEval, in a pass that read the definition in version k, maybe before an edit:
\* spans with no row yet, those selected and sampled, are scored and inserted.
RunDefinition(k, spans) ==
    /\ spans # {} /\ spans \subseteq Fresh(k)
    /\ \E outcome \in [spans -> Judgments] :
           /\ table' = table \cup {[eval |-> "def", version |-> k, span |-> s,
                                   body |-> outcome[s].body, passed |-> outcome[s].passed] :
                                      s \in spans}
           /\ scored' = scored \cup {<<s, k>> : s \in {t \in spans : outcome[t].body # Error}}
    /\ passes' = FALSE
    /\ UNCHANGED <<ticks, recording, recorded, inTables, version>>

FeedbackNext ==
    \/ PassTime \/ Promote \/ EditDefinition
    \/ \E k \in 1 .. version, spans \in SUBSET ScoredSpans : RunDefinition(k, spans)
    \/ \E s \in ScoredSpans : EndSpan(s) \/ LandScored(s) \/ \E body \in Bodies : Record(s, body)

FeedbackSpec == FeedbackInit /\ [][FeedbackNext]_feedbackVars

(***************************************************************************)
(* The comparison of variants that ends every pass: fetchVariantStats, for *)
(* version k of the definition, over the rows that are no errors, of spans *)
(* that started within the window.                                         *)
(***************************************************************************)

Variants    == {VariantOf[s] : s \in ScoredSpans}
InWindow(s) == ticks - RegressionWindow <= StartAt[s] /\ StartAt[s] < ticks
Samples(k, v) ==
    {r \in table : /\ r.eval = "def" /\ r.version = k /\ VariantOf[r.span] = v
                   /\ r.body # Error /\ InWindow(r.span)}
SampleCount(k, v) == Cardinality(Samples(k, v))
Scores(k, v)  == MapThenSumSet(LAMBDA r : r.body, Samples(k, v))
Passes(k, v)  == 2 * Cardinality({r \in Samples(k, v) : r.passed})

Eligible(k) == {v \in Variants : SampleCount(k, v) >= MinSamples /\ SampleCount(k, v) > 0}

\* A mean of `sum` over n is below one of `other` over m by more than Drop.
Below(sum, n, other, m) == other * n - sum * m > Drop * m * n

\* selectBaseline with no explicit one: the highest mean score.
Baselines(k) ==
    {v \in Eligible(k) : \A u \in Eligible(k) :
         Scores(k, u) * SampleCount(k, v) <= Scores(k, v) * SampleCount(k, u)}

\* detectRegressions, against one of the equally good baselines.
Regressions(k, base) ==
    LET candidates == Eligible(k) \ {base}
        Behind(Sum(_, _)) ==
            {v \in candidates : Below(Sum(k, v), SampleCount(k, v),
                                      Sum(k, base), SampleCount(k, base))}
    IN       {<<v, "mean_score">> : v \in Behind(Scores)}
        \cup {<<v, "pass_rate">> : v \in Behind(Passes)}

(***************************************************************************)
(* Properties.                                                             *)
(***************************************************************************)

\* Promotion is idempotent: however often the same events are promoted, a span has
\* one row of the application's, which says what was recorded on that span, and
\* one of each version of the definition.
OneRowPerSpan ==
    /\ \A r, q \in table : Key(r) = Key(q) => r = q
    /\ \A r \in table : r.eval = "sdk" =>
           r.version = 1 /\ \E e \in recorded : e.span = r.span /\ e.body = r.body

\* A pass whose window fits the limit leaves no recorded evaluation without a
\* row, whatever malformed events are among them.
WindowPromoted ==
    passes => \A e \in SdkWindow :
        e.body # Malformed => \E r \in table : r.eval = "sdk" /\ r.span = e.span

\* With the highest mean as the baseline, a variant is flagged whenever its
\* definition's scores fall behind those of any other that has enough samples, not
\* only of the one picked.
DropIsFlagged ==
    \A k \in 1 .. version : \A base \in Baselines(k) : \A v, u \in Eligible(k) :
        Below(Scores(k, v), SampleCount(k, v), Scores(k, u), SampleCount(k, u))
        => <<v, "mean_score">> \in Regressions(k, base)

\* What counts as evidence is a span that started within the window and that this
\* version of the definition has scored: no variant is flagged, or is a baseline, that
\* has not enough of these, whatever failed, was scored by other versions, or was
\* recorded by the application.
FlaggedOnEvidence ==
    \A k \in 1 .. version : \A base \in Baselines(k) : \A f \in Regressions(k, base) :
        \A v \in {f[1], base} :
            Cardinality({s \in ScoredSpans : /\ VariantOf[s] = v /\ InWindow(s)
                                            /\ <<s, k>> \in scored}) >= MinSamples

\* Recorded scores have one row each, and a drop in a definition's scores is told.
FeedbackCounts == OneRowPerSpan /\ WindowPromoted /\ DropIsFlagged /\ FlaggedOnEvidence

================================================================================
