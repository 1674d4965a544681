---------------------------------- MODULE EvalRules ----------------------------------
(***************************************************************************)
(* Eval configs and the deterministic evaluator (packages/eval/src:        *)
(* config.ts, deterministic.ts) in a runner process: each pass reads the   *)
(* stored config anew, validates it, and evaluates texts with the Ajv      *)
(* instance all passes of the process share.                               *)
(*                                                                         *)
(* A stored rule is [kind, field, mark]: its pattern, text or schema is    *)
(* fine, missing, or of the right type but malformed.  A malformed schema  *)
(* does not compile; one that is only odd does, but is not what the JSON   *)
(* Schema standard allows.  mark is an option: a schema with an $id, a     *)
(* regex with the g flag, a caseless search.                               *)
(***************************************************************************)
EXTENDS Integers, Sequences, FiniteSets

CONSTANTS
    RawRules,   \* the stored rules considered
    MaxRules,   \* bound: rules of a config
    MaxPasses   \* bound: passes

RULE_KINDS == {"valid_json", "json_schema", "regex_match", "regex_no_match",
               "contains", "not_contains", "max_length"}

\* Texts by what rules can tell of them; what fits the schema is JSON.
Texts == {[json |-> TRUE,  fits |-> TRUE,  has |-> "exact", long |-> FALSE],
          [json |-> TRUE,  fits |-> FALSE, has |-> "loose", long |-> FALSE],
          [json |-> FALSE, fits |-> FALSE, has |-> "none",  long |-> TRUE]}

Deterministic == [type : {"deterministic"}, mode : {"all", "any", "most"},
                  rules : UNION {[1 .. n -> RawRules] : n \in 0 .. MaxRules}]
Judges        == [type : {"llm_judge"}, model : {"gpt", ""}, low : {1}, high : {0, 1, 5}]

VARIABLES
    stored,     \* the definition's config, as it is in Postgres
    config,     \* "none", "rejected", or "accepted": what this pass made of it
    pass,       \* the pass, which gives its schema objects their identity
    compiled,   \* schema objects Ajv has cached: <<pass, rule>>
    ids,        \* rules whose $id is registered with Ajv
    first,      \* history: the first settled verdict on each text
    last        \* the last outcome: [text, verdict, settled]: has no schema thrown
                \* for being new

rulesVars == <<stored, config, pass, compiled, ids, first, last>>

NoOutcome == [verdict |-> "none"]

RulesInit ==
    /\ stored \in Deterministic \cup Judges
    /\ config = "none" /\ pass = 0
    /\ compiled = {} /\ ids = FALSE
    /\ first = [t \in Texts |-> "none"]
    /\ last = NoOutcome

ValidRule(rule) ==
    /\ rule.kind \in RULE_KINDS
    /\ rule.field # "missing"

ValidDeterministic(c) ==
    /\ Len(c.rules) > 0
    /\ \A i \in DOMAIN c.rules : ValidRule(c.rules[i])
    /\ c.mode \in {"all", "any"}

ValidJudge(c) == c.model # "" /\ c.high > c.low

Valid == IF stored.type = "deterministic" THEN ValidDeterministic(stored) ELSE ValidJudge(stored)

\* buildEvaluator: a pass reads the config and validates it.  A judge also needs
\* an API key.
StartPass(key) ==
    /\ pass < MaxPasses /\ pass' = pass + 1
    /\ config' = IF Valid /\ (stored.type = "deterministic" \/ key) THEN "accepted" ELSE "rejected"
    /\ UNCHANGED <<stored, compiled, ids, first, last>>

\* Another process: nothing is compiled.
RestartRunner ==
    /\ config # "none"
    /\ config' = "none" /\ compiled' = {} /\ ids' = FALSE
    /\ UNCHANGED <<stored, pass, first, last>>

HasId(rule) == rule.kind = "json_schema" /\ rule.mark

\* The $id of a schema object that is new to Ajv is already another's.
Refused(i) == /\ HasId(stored.rules[i])
              /\ ids \/ \E j \in 1 .. i - 1 : HasId(stored.rules[j])

\* Ajv caches a schema object before it looks at its $id and holds it against the
\* standard: these checks throw for the first JSON text of a pass only.
ThrowsAtFirst(i, text) ==
    /\ stored.rules[i].kind = "json_schema" /\ text.json
    /\ <<pass, i>> \notin compiled
    /\ stored.rules[i].field = "odd" \/ Refused(i)

\* A regex or schema that does not compile throws each time.
Throws(i, text) ==
    LET rule == stored.rules[i] IN
    CASE rule.kind \in {"regex_match", "regex_no_match"} -> rule.field = "malformed"
      [] rule.kind = "json_schema" ->
             text.json /\ (rule.field = "malformed" \/ ThrowsAtFirst(i, text))
      [] OTHER -> FALSE

\* A new RegExp for each text.
Matches(rule, text) == text.has = "exact"

Found(rule, text) == text.has = "exact" \/ (rule.mark /\ text.has = "loose")

Holds(rule, text) ==
    CASE rule.kind = "valid_json"     -> text.json
      [] rule.kind = "json_schema"    -> text.json /\ text.fits
      [] rule.kind = "regex_match"    -> Matches(rule, text)
      [] rule.kind = "regex_no_match" -> ~Matches(rule, text)
      [] rule.kind = "contains"       -> Found(rule, text)
      [] rule.kind = "not_contains"   -> ~Found(rule, text)
      [] rule.kind = "max_length"     -> ~text.long

\* Faulty variant: a rule that throws has matched nothing.
RulePassedOpen(i, text) ==
    IF Throws(i, text) THEN stored.rules[i].kind = "regex_no_match"
                       ELSE Holds(stored.rules[i], text)

\* evaluateRule: a rule that throws has failed.
RulePassed(i, text) == ~Throws(i, text) /\ Holds(stored.rules[i], text)

Verdict(passing) ==
    IF IF stored.mode = "all" THEN Cardinality(passing) = Len(stored.rules) ELSE passing # {}
    THEN "pass" ELSE "fail"

Evaluate(text) ==
    LET rules   == DOMAIN stored.rules
        schemas == {i \in rules : stored.rules[i].kind = "json_schema" /\ text.json}
        passing == {i \in rules : RulePassed(i, text)}
        settled == \A i \in rules : ~ThrowsAtFirst(i, text)
    IN  /\ config = "accepted" /\ stored.type = "deterministic"
        /\ compiled' = compiled \cup {<<pass, i>> : i \in schemas}
        /\ ids' = (ids \/ \E i \in schemas : HasId(stored.rules[i]))
        /\ last' = [text |-> text, verdict |-> Verdict(passing), settled |-> settled]
        /\ first' = [first EXCEPT ![text] =
                         IF @ = "none" /\ settled THEN Verdict(passing) ELSE @]
        /\ UNCHANGED <<stored, config, pass>>

RulesNext ==
    \/ \E key \in BOOLEAN : StartPass(key)
    \/ RestartRunner
    \/ \E text \in Texts : Evaluate(text)

RulesSpec == RulesInit /\ [][RulesNext]_rulesVars

(***************************************************************************)
(* Properties.                                                             *)
(***************************************************************************)

\* A config that was accepted gives a score: the fraction has a denominator, and
\* a judge's scale is not empty.
AcceptedCanScore ==
    config = "accepted" =>
        IF stored.type = "deterministic" THEN stored.rules # <<>> ELSE stored.high > stored.low

\* A rule that cannot be evaluated fails closed: a regex or schema that does not
\* compile never lets a text through an `all` config, not even one that must not match.
FailsClosed ==
    last # NoOutcome /\ last.verdict = "pass" /\ stored.mode = "all" =>
        \A i \in DOMAIN stored.rules : stored.rules[i].field # "malformed"

\* The verdict on a text is a matter of the text and the config: it is the same
\* in every pass and process, which is what lets a pass reuse cached scores.  The
\* exception is a verdict during which a schema threw for being new ...
SameVerdictAgain ==
    \A text \in Texts :
        last' # last /\ last'.text = text /\ last'.settled /\ first[text] # "none"
        => last'.verdict = first[text]

\* ... and that is once in a pass: after one text for which schemas were compiled
\* every verdict is settled.
UnsettledOnce == last' # last /\ (\E seen \in compiled : seen[1] = pass) => last'.settled

\* A verdict means what it says, in every pass of every process.
VerdictsHold ==
    [][AcceptedCanScore' /\ FailsClosed' /\ SameVerdictAgain /\ UnsettledOnce]_rulesVars

================================================================================
