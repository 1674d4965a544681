----------------------------------- MODULE Scoring -----------------------------------
(***************************************************************************)
(* Scoring a pass's contents: the workers of mapWithConcurrency            *)
(* (apps/eval-runner/src/concurrency.ts) and, for each content, the        *)
(* attempts of JudgeEvaluator.evaluate (packages/eval/src/judge.ts) at the *)
(* provider, which answers when it likes: early, late or never.            *)
(***************************************************************************)
EXTENDS Integers, FiniteSets

CONSTANTS
    Count,          \* contents to score (toScore.length)
    Limit,          \* config.concurrency
    MaxRetries,     \* JudgeConfig.maxRetries
    Low, High,      \* JudgeConfig.scale
    Threshold,      \* passThreshold, on the raw scale
    Replies         \* what the provider may answer: [kind], a verdict's raw, pass

VARIABLES
    nextIndex,      \* the index the workers share
    doing,          \* doing[w]: the item worker w awaits, or 0
    returned,       \* workers whose loop has ended
    state,          \* state[i]: waiting, calling, backoff, done
    attempt,        \* attempt[i], from 0
    lastError,      \* lastError[i]
    results,        \* results[i]: the outcome
    calls           \* provider calls that are not over: [item, attempt]

scoringVars == <<nextIndex, doing, returned, state, attempt, lastError, results, calls>>

NoResult == [score |-> [num |-> 0, den |-> 1], passed |-> FALSE, error |-> "pending"]
Items    == 1 .. Count
Workers  == 1 .. (IF Limit < Count THEN Limit ELSE Count)

ScoringInit ==
    /\ nextIndex = 1
    /\ doing = [w \in Workers |-> 0]
    /\ returned = {}
    /\ state = [i \in Items |-> "waiting"]
    /\ attempt = [i \in Items |-> 0]
    /\ lastError = [i \in Items |-> "undefined"]
    /\ results = [i \in Items |-> NoResult]
    /\ calls = {}

\* Faulty variant: a worker reads the index, and writes it when its item is done.
TakeShared(w) ==
    /\ doing[w] = 0 /\ w \notin returned
    /\ nextIndex <= Count
    /\ doing' = [doing EXCEPT ![w] = nextIndex]
    /\ state' = [state EXCEPT ![nextIndex] = "calling"]
    /\ calls' = calls \cup {[item |-> nextIndex, attempt |-> 0]}
    /\ nextIndex' = IF \E v \in Workers : doing[v] = nextIndex THEN nextIndex + 1 ELSE nextIndex
    /\ UNCHANGED <<returned, attempt, lastError, results>>

\* A worker that awaits nothing takes the next index and calls the provider.
Take(w) ==
    /\ doing[w] = 0 /\ w \notin returned
    /\ nextIndex <= Count
    /\ doing' = [doing EXCEPT ![w] = nextIndex]
    /\ state' = [state EXCEPT ![nextIndex] = "calling"]
    /\ calls' = calls \cup {[item |-> nextIndex, attempt |-> 0]}
    /\ nextIndex' = nextIndex + 1
    /\ UNCHANGED <<returned, attempt, lastError, results>>

Return(w) ==
    /\ doing[w] = 0 /\ w \notin returned
    /\ nextIndex > Count
    /\ returned' = returned \cup {w}
    /\ UNCHANGED <<nextIndex, doing, state, attempt, lastError, results, calls>>

\* normalize(): the score is num / den, and 0 on an empty scale.
Normalize(raw) ==
    IF High = Low THEN [num |-> 0, den |-> 1]
    ELSE [num |-> (IF raw < Low THEN Low ELSE IF raw > High THEN High ELSE raw) - Low,
          den |-> High - Low]

\* The verdict's own pass wins over the threshold.
Passed(verdict) ==
    IF verdict.pass # "absent" THEN verdict.pass = "yes"
    ELSE Normalize(verdict.raw).num >= Threshold - Low

Scored(verdict) == [score |-> Normalize(verdict.raw), passed |-> Passed(verdict), error |-> ""]
Errored(error)  == [score |-> [num |-> 0, den |-> 1], passed |-> FALSE, error |-> error]

\* results[index] is set and the worker goes on.
SettleItem(i, outcome) ==
    /\ results' = [results EXCEPT ![i] = outcome]
    /\ state' = [state EXCEPT ![i] = "done"]
    /\ doing' = [w \in Workers |-> IF doing[w] = i THEN 0 ELSE doing[w]]

\* The attempt failed: it is repeated after a pause, or its error is the outcome.
Fail(i, error) ==
    /\ lastError' = [lastError EXCEPT ![i] = error]
    /\ IF attempt[i] < MaxRetries
       THEN state' = [state EXCEPT ![i] = "backoff"] /\ UNCHANGED <<results, doing>>
       ELSE SettleItem(i, Errored(error))

\* Faulty variant: an answer counts whichever attempt it answers.
AwaitedAny(call) == state[call.item] # "done"

\* Promise.race has been lost to the timeout for every attempt but the current one.
Awaited(call) == state[call.item] = "calling" /\ call.attempt = attempt[call.item]

\* The provider answers a call: with a verdict, with what holds none ("parse_error"),
\* or with an error of its own ("Error").  Only the answer to the current attempt counts.
AnswerCall(call, reply) ==
    /\ call \in calls
    /\ calls' = calls \ {call}
    /\ IF ~Awaited(call)
       THEN UNCHANGED <<doing, state, lastError, results>>
       ELSE \/ /\ reply.kind = "verdict"
               /\ SettleItem(call.item, Scored(reply))
               /\ UNCHANGED lastError
            \/ reply.kind # "verdict" /\ Fail(call.item, reply.kind)
    /\ UNCHANGED <<nextIndex, returned, attempt>>

\* The timer wins the race.  The call itself is not aborted.
TimesOut(i) ==
    /\ state[i] = "calling"
    /\ Fail(i, "timeout")
    /\ UNCHANGED <<nextIndex, returned, attempt, calls>>

\* The pause is over.
RetryItem(i) ==
    /\ state[i] = "backoff"
    /\ state' = [state EXCEPT ![i] = "calling"]
    /\ attempt' = [attempt EXCEPT ![i] = @ + 1]
    /\ calls' = calls \cup {[item |-> i, attempt |-> attempt[i] + 1]}
    /\ UNCHANGED <<nextIndex, doing, returned, lastError, results>>

Local ==
    \/ \E w \in Workers : Take(w) \/ Return(w)
    \/ \E i \in Items : TimesOut(i) \/ RetryItem(i)

ScoringNext == Local \/ \E call \in calls, reply \in Replies : AnswerCall(call, reply)

ScoringSpec == ScoringInit /\ [][ScoringNext]_scoringVars

\* The process runs its promises and timers; the provider owes nothing.
ScoringFairness == WF_scoringVars(Local)

(***************************************************************************)
(* Properties.                                                             *)
(***************************************************************************)

Outcomes == [score : [num : Int, den : Int], passed : BOOLEAN, error : STRING]

\* Type invariant.
ScoringTypeOK ==
    /\ nextIndex \in 1 .. Count + 1
    /\ doing \in [Workers -> {0} \cup Items] /\ returned \subseteq Workers
    /\ state \in [Items -> {"waiting", "calling", "backoff", "done"}]
    /\ attempt \in [Items -> Nat]
    /\ lastError \in [Items -> {"undefined", "timeout", "parse_error", "Error"}]
    /\ \A i \in Items : results[i] \in Outcomes
    /\ calls \subseteq [item : Items, attempt : Nat]

\* The pool keeps its promise: each content is scored once, in order, at most
\* Limit at a time, an outcome is never replaced, whatever answers come late, and
\* a provider that hangs cannot hang the pass: every content gets its outcome.
Pool == INSTANCE BoundedMap WITH begun <- nextIndex - 1
BoundedMapSpec == Pool!Spec

\* A stored score is in [0, 1], whatever number the judge made up.
ScoreInRange ==
    \A i \in Items : results[i] # NoResult =>
        0 <= results[i].score.num /\ results[i].score.num <= results[i].score.den

\* An outcome other than a timeout is the answer to the last call made: a call
\* given up on decides nothing, and an earlier attempt's error is not reported.
LatestAttemptDecides ==
    \A i \in Items : state[i] = "done" /\ results[i].error # "timeout"
                       => [item |-> i, attempt |-> attempt[i]] \notin calls

\* A content is given up after the configured retries, no earlier and no later.
RetriesSpent ==
    \A i \in Items :
        /\ attempt[i] <= MaxRetries
        /\ state[i] = "done" /\ results[i].error # "" => attempt[i] = MaxRetries

\* What is stored for a content is what its last attempt came to.
OutcomesHonest == ScoreInRange /\ LatestAttemptDecides /\ RetriesSpent

================================================================================
