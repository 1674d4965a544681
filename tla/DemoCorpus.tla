---------------------------------- MODULE DemoCorpus ---------------------------------
(***************************************************************************)
(* One trace of the demo corpus, as buildTrace                             *)
(* (apps/demo/src/corpus.ts) lays it out: a cursor moves along the run and *)
(* every duration and every pause is drawn from a range.                   *)
(***************************************************************************)
EXTENDS Integers, FiniteSets, FiniteSetsExt

CONSTANTS
    Durations,      \* what randInt may draw for a step
    Pauses          \* and between steps

\* Every draw is of whole milliseconds, more than none (the arguments of randInt).
ASSUME DrawAssumption == Durations \subseteq Nat \ {0} /\ Pauses \subseteq Nat \ {0}

VARIABLES
    traceSpec,      \* the TraceSpec: [retried, hardFailure]
    stage,          \* the step that comes next
    searchAttempt,  \* of web.search
    cursor,
    drawn           \* the spans: [id, parent, start, end, failed]

corpusVars == <<traceSpec, stage, searchAttempt, cursor, drawn>>

CorpusInit ==
    /\ traceSpec \in [retried : BOOLEAN, hardFailure : BOOLEAN]
    /\ stage = "plan" /\ searchAttempt = 1
    /\ \E pause \in Pauses : cursor = pause
    /\ drawn = {}

\* The row of a span that has its parent's id before the parent is there.
SpanRow(id, parent, start, end, failed) ==
    [id |-> id, parent |-> parent, start |-> start, end |-> end, failed |-> failed]

\* addChat under the root, and the pause after it.
Chat(id, next) ==
    \E dur \in Durations, pause \in Pauses :
        /\ drawn' = drawn \cup {SpanRow(id, "root", cursor, cursor + dur, FALSE)}
        /\ cursor' = cursor + dur + pause
        /\ stage' = next

Plan ==
    /\ stage = "plan"
    /\ Chat("plan", "search")
    /\ UNCHANGED <<traceSpec, searchAttempt>>

Attempts == IF traceSpec.retried \/ traceSpec.hardFailure THEN 2 ELSE 1

\* One span for each attempt; a hard failure ends the run at the last of them.
Search ==
    /\ stage = "search"
    /\ LET failed == traceSpec.hardFailure \/ (traceSpec.retried /\ searchAttempt = 1) IN
       \E dur \in Durations, pause \in Pauses :
           LET id     == IF searchAttempt = 1 THEN "search1" ELSE "search2"
               search == SpanRow(id, "root", cursor, cursor + dur, failed)
               ending == searchAttempt = Attempts
           IN  /\ cursor' = cursor + dur + pause
               /\ searchAttempt' = searchAttempt + 1
               /\ stage' = IF ~ending THEN "search" ELSE IF failed THEN "done" ELSE "fetch"
               /\ drawn' = drawn \cup {search} \cup
                           IF ending /\ failed THEN {SpanRow("root", "", 0, cursor', TRUE)} ELSE {}
    /\ UNCHANGED <<traceSpec>>

AfterFetches(a, b) == Max({a.end, b.end})

FetchBoth ==
    /\ stage = "fetch"
    /\ \E durA, durB \in Durations, stagger, pause \in Pauses :
           LET a == SpanRow("fetch1", "root", cursor, cursor + durA, FALSE)
               b == SpanRow("fetch2", "root", cursor + stagger, cursor + stagger + durB, FALSE)
           IN  /\ drawn' = drawn \cup {a, b}
               /\ cursor' = AfterFetches(a, b) + pause
    /\ stage' = "draft"
    /\ UNCHANGED <<traceSpec, searchAttempt>>

Draft ==
    /\ stage = "draft"
    /\ Chat("draft", "summarize")
    /\ UNCHANGED <<traceSpec, searchAttempt>>

SubAgentEnd(start, lead, dur, tail) == start + lead + dur + tail

\* The sub-agent wraps its own chat; the root ends after it.
Summarize ==
    /\ stage = "summarize"
    /\ \E dur \in Durations, lead, tail, pause \in Pauses :
           LET end == SubAgentEnd(cursor, lead, dur, tail) IN
           /\ drawn' = drawn \cup
                  {SpanRow("agent", "root", cursor, end, FALSE),
                   SpanRow("summarize", "agent", cursor + lead, cursor + lead + dur, FALSE),
                   SpanRow("root", "", 0, end + pause, FALSE)}
           /\ cursor' = end + pause
    /\ stage' = "done"
    /\ UNCHANGED <<traceSpec, searchAttempt>>

CorpusNext == Plan \/ Search \/ FetchBoth \/ Draft \/ Summarize
CorpusSpec == CorpusInit /\ [][CorpusNext]_corpusVars

(***************************************************************************)
(* Properties.                                                             *)
(***************************************************************************)

\* A finished trace looks like one the SDK recorded: whatever was drawn, every
\* span's parent is there and its interval holds the span's.
SpansNest ==
    stage = "done" => \A s \in drawn : s.parent # "" =>
        \E p \in drawn : p.id = s.parent /\ p.start < s.start /\ s.end < p.end

\* The agent does one thing at a time, but for the two fetches: other spans of
\* one parent do not overlap, and the second attempt follows the first.
OnlyFetchesOverlap ==
    \A s, r \in drawn :
        /\ s # r /\ s.parent = r.parent /\ {s.id, r.id} # {"fetch1", "fetch2"}
        => s.end < r.start \/ r.end < s.start

\* The corpus cannot be told from what the SDK records of an agent.
LooksRecorded == SpansNest /\ OnlyFetchesOverlap

================================================================================
