------------------------------- MODULE EvaluatorProofs -------------------------------
(***************************************************************************)
(* The judge's attempts and the worker pool for any number of contents,    *)
(* workers and retries and any scale: outcomes are honest, and the workers *)
(* keep the promise of BoundedMap, but for its liveness.  The deterministic *)
(* evaluator for any stored rules: a verdict means what it says.  The demo *)
(* that they are shown on: the traces look recorded whatever is drawn, and *)
(* there is one corpus, in which the regression can be seen.               *)
(***************************************************************************)
EXTENDS Scoring, EvalRules, DemoSeed, FoldLemmas

Configured ==
    /\ Count \in Nat /\ Limit \in Nat /\ MaxRetries \in Nat
    /\ Low \in Int /\ High \in Int /\ Low <= High /\ Threshold \in Int
    /\ \A reply \in Replies : /\ reply.kind \in {"verdict", "parse_error", "Error"}
                              /\ reply.kind = "verdict" => reply.raw \in Int

States == {"waiting", "calling", "backoff", "done"}

Typed ==
    /\ nextIndex \in 1 .. Count + 1
    /\ doing \in [Workers -> {0} \cup Items]
    /\ state \in [Items -> States]
    /\ attempt \in [Items -> Nat]
    /\ DOMAIN results = Items
    /\ calls \subseteq [item : Items, attempt : Nat]

\* The indices handed out are those no longer waiting; an item is being worked on by
\* exactly one worker until it has its result.
Assigned ==
    /\ \A i \in Items :
           /\ state[i] = "waiting" <=> i >= nextIndex
           /\ state[i] = "waiting" => attempt[i] = 0
           /\ state[i] = "done" <=> results[i] # NoResult
           /\ state[i] \in {"calling", "backoff"} <=> \E w \in Workers : doing[w] = i
    /\ \A v, w \in Workers : doing[v] = doing[w] /\ v # w => doing[v] = 0

\* An attempt is repeated only while retries are left.
RetriesLeft == \A i \in Items : state[i] = "backoff" => attempt[i] < MaxRetries

IInv == Typed /\ Assigned /\ RetriesLeft /\ OutcomesHonest

--------------------------------------------------------------------------------
LEMMA ItemsAreIndices == ASSUME Configured PROVE \A i \in Items : i \in 1 .. Count /\ i \in Int /\ i # 0
BY DEF Items, Configured

\* The outcomes that a provider or a timer can bring about.
LEMMA OutcomeInRange ==
    ASSUME Configured
    PROVE  /\ \A reply \in Replies : reply.kind = "verdict" =>
                  /\ Scored(reply) # NoResult /\ Scored(reply).error = ""
                  /\ 0 <= Scored(reply).score.num
                  /\ Scored(reply).score.num <= Scored(reply).score.den
           /\ \A error \in {"timeout", "parse_error", "Error"} :
                  /\ Errored(error) # NoResult /\ Errored(error).error = error
                  /\ Errored(error).score = [num |-> 0, den |-> 1]
<1>1. ASSUME NEW raw \in Int
      PROVE  0 <= Normalize(raw).num /\ Normalize(raw).num <= Normalize(raw).den
  BY DEF Normalize, Configured
<1>2. \A reply \in Replies : /\ Scored(reply).error = "" /\ Scored(reply).score = Normalize(reply.raw)
  BY DEF Scored
<1>3. NoResult.error = "pending"
  BY DEF NoResult
<1>4. \A reply \in Replies : Scored(reply) # NoResult
  BY <1>2, <1>3
<1>5. \A error : Errored(error).error = error /\ Errored(error).score = [num |-> 0, den |-> 1]
  BY DEF Errored
<1>6. \A error \in {"timeout", "parse_error", "Error"} : Errored(error) # NoResult
  BY <1>3, <1>5
<1>. QED  BY <1>1, <1>2, <1>4, <1>5, <1>6 DEF Configured

\* An outcome is one of those.
Possible(outcome) ==
    /\ outcome # NoResult
    /\ 0 <= outcome.score.num /\ outcome.score.num <= outcome.score.den

LEMMA InitInv == ASSUME Configured, ScoringInit PROVE IInv
<1>1. Typed
  BY DEF ScoringInit, Typed, States, Items, Configured
<1>2. Assigned
  BY DEF ScoringInit, Assigned, Items, Configured, Workers
<1>3. OutcomesHonest /\ RetriesLeft
  BY DEF ScoringInit, OutcomesHonest, ScoreInRange, LatestAttemptDecides, RetriesSpent, RetriesLeft,
         Configured
<1>. QED  BY <1>1, <1>2, <1>3 DEF IInv

\* A step that gives an item its outcome.
LEMMA SettleInv ==
    ASSUME Configured, IInv, NEW i \in Items, NEW outcome, SettleItem(i, outcome), Possible(outcome),
           state[i] = "calling", UNCHANGED <<nextIndex, returned, attempt>>, calls' \subseteq calls,
           outcome.error # "" => attempt[i] = MaxRetries,
           outcome.error # "timeout" => [item |-> i, attempt |-> attempt[i]] \notin calls'
    PROVE  IInv'
<1>1. /\ Typed /\ Assigned /\ OutcomesHonest /\ i < nextIndex
      /\ results' = [results EXCEPT ![i] = outcome] /\ state' = [state EXCEPT ![i] = "done"]
      /\ doing' = [w \in Workers |-> IF doing[w] = i THEN 0 ELSE doing[w]]
  <2>1. ~ (i >= nextIndex)
    BY DEF IInv, Assigned
  <2>2. i \in Int
    BY ItemsAreIndices
  <2>3. nextIndex \in 1 .. Count + 1
    BY DEF IInv, Typed
  <2>4. i < nextIndex
    <3>1. Count \in Nat
      BY DEF Configured
    <3>. QED  BY ONLY <2>1, <2>2, <2>3, <3>1
  <2>. QED  BY <2>4 DEF IInv, SettleItem
<1>2. Typed'
  BY <1>1 DEF Typed, States
<1>3. Assigned'
  <2>1. \A w \in Workers, j \in Items : doing'[w] = j <=> doing[w] = j /\ j # i
    <3>1. \A j \in Items : j # 0
      BY ItemsAreIndices
    <3>. QED  BY <1>1, <3>1
  <2>2. /\ state'[i] = "waiting" <=> i >= nextIndex
        /\ state'[i] = "waiting" => attempt[i] = 0
        /\ state'[i] = "done" <=> results'[i] # NoResult
        /\ state'[i] \in {"calling", "backoff"} <=> \E w \in Workers : doing'[w] = i
    <3>1. state'[i] = "done" /\ results'[i] = outcome /\ outcome # NoResult
      BY <1>1 DEF Typed, Possible
    <3>2. ~ (i >= nextIndex)
      BY DEF IInv, Assigned
    <3>3. state'[i] # "waiting" /\ state'[i] \notin {"calling", "backoff"}
      BY <3>1
    <3>4. ~ \E w \in Workers : doing'[w] = i
      BY <2>1
    <3>. QED  BY ONLY <3>1, <3>2, <3>3, <3>4
  <2>3. ASSUME NEW j \in Items, j # i
        PROVE  /\ state'[j] = "waiting" <=> j >= nextIndex
               /\ state'[j] = "waiting" => attempt[j] = 0
               /\ state'[j] = "done" <=> results'[j] # NoResult
               /\ state'[j] \in {"calling", "backoff"} <=> \E w \in Workers : doing'[w] = j
    <3>1. state'[j] = state[j] /\ results'[j] = results[j]
      BY <1>1, <2>3 DEF Typed
    <3>2. (\E w \in Workers : doing'[w] = j) <=> \E w \in Workers : doing[w] = j
      BY <2>1, <2>3
    <3>. QED  BY <1>1, <3>1, <3>2, ZenonT(30) DEF Assigned
  <2>4. \A v, w \in Workers : doing'[v] = doing'[w] /\ v # w => doing'[v] = 0
    BY <1>1 DEF Assigned
  <2>5. nextIndex' = nextIndex /\ attempt' = attempt
    OBVIOUS
  <2>. QED  BY <2>2, <2>3, <2>4, <2>5 DEF Assigned
<1>4. OutcomesHonest'
  <2>. SUFFICES ASSUME NEW j \in Items
                PROVE  /\ results'[j] # NoResult => 0 <= results'[j].score.num
                                     /\ results'[j].score.num <= results'[j].score.den
                       /\ state'[j] = "done" /\ results'[j].error # "timeout"
                              => [item |-> j, attempt |-> attempt[j]] \notin calls'
                       /\ attempt[j] <= MaxRetries
                       /\ state'[j] = "done" /\ results'[j].error # "" => attempt[j] = MaxRetries
    BY DEF OutcomesHonest, ScoreInRange, LatestAttemptDecides, RetriesSpent
  <2>1. CASE j = i
    BY <1>1, <2>1 DEF Typed, Possible, OutcomesHonest, RetriesSpent
  <2>2. CASE j # i
    BY <1>1, <2>2 DEF Typed, OutcomesHonest, ScoreInRange, LatestAttemptDecides, RetriesSpent
  <2>. QED  BY <2>1, <2>2
<1>5. RetriesLeft'
  BY <1>1 DEF IInv, RetriesLeft, Typed
<1>. QED  BY <1>2, <1>3, <1>4, <1>5 DEF IInv

\* A step after which the same items are worked on.
LEMMA WorkInv ==
    ASSUME Configured, IInv, UNCHANGED <<nextIndex, doing, results>>,
           state' \in [Items -> States], attempt' \in [Items -> Nat],
           calls' \subseteq [item : Items, attempt : Nat],
           \A i \in Items : \/ state'[i] = state[i] /\ attempt'[i] = attempt[i]
                            \/ /\ state[i] \in {"calling", "backoff"}
                               /\ state'[i] \in {"calling", "backoff"}
                               /\ attempt'[i] <= MaxRetries
                               /\ state'[i] = "backoff" => attempt'[i] < MaxRetries,
           \A call \in calls' \ calls : state[call.item] = "backoff"
    PROVE  IInv'
<1>1. Typed /\ Assigned /\ OutcomesHonest
  BY DEF IInv
<1>2. Typed'
  BY <1>1 DEF Typed
<1>3. Assigned'
  BY <1>1 DEF Assigned
<1>4. \A i \in Items : state'[i] = "done" => state[i] = "done" /\ attempt'[i] = attempt[i]
  OBVIOUS
<1>5. OutcomesHonest'
  <2>1. ScoreInRange'
    BY <1>1 DEF OutcomesHonest, ScoreInRange
  <2>2. LatestAttemptDecides'
    BY <1>1, <1>4 DEF OutcomesHonest, LatestAttemptDecides
  <2>3. RetriesSpent'
    BY <1>1, <1>4 DEF OutcomesHonest, RetriesSpent
  <2>. QED  BY <2>1, <2>2, <2>3 DEF OutcomesHonest
<1>6. RetriesLeft'
  BY DEF IInv, RetriesLeft
<1>. QED  BY <1>2, <1>3, <1>5, <1>6 DEF IInv

\* A failed attempt.
LEMMA FailInv ==
    ASSUME Configured, IInv, NEW i \in Items, NEW error \in {"timeout", "parse_error", "Error"},
           Fail(i, error), state[i] = "calling", UNCHANGED <<nextIndex, returned, attempt>>,
           calls' \subseteq calls,
           error # "timeout" => [item |-> i, attempt |-> attempt[i]] \notin calls'
    PROVE  IInv'
<1>1. Typed /\ attempt[i] \in Nat /\ attempt[i] <= MaxRetries /\ MaxRetries \in Nat
  BY DEF IInv, Typed, OutcomesHonest, RetriesSpent, Configured
<1>2. CASE attempt[i] < MaxRetries
  <2>1. state' = [state EXCEPT ![i] = "backoff"] /\ UNCHANGED <<results, doing>>
    BY <1>2 DEF Fail
  <2>2. state' \in [Items -> States] /\ calls' \subseteq [item : Items, attempt : Nat]
    BY <1>1, <2>1 DEF Typed, States
  <2>3. attempt' \in [Items -> Nat]
    BY <1>1 DEF Typed
  <2>4. ASSUME NEW j \in Items
        PROVE  \/ state'[j] = state[j] /\ attempt'[j] = attempt[j]
               \/ /\ state[j] \in {"calling", "backoff"}
                  /\ state'[j] \in {"calling", "backoff"}
                  /\ attempt'[j] <= MaxRetries
                  /\ state'[j] = "backoff" => attempt'[j] < MaxRetries
    <3>1. CASE j = i
      BY <1>1, <1>2, <2>1, <3>1 DEF Typed
    <3>2. CASE j # i
      BY <1>1, <2>1, <3>2 DEF Typed
    <3>. QED  BY <3>1, <3>2
  <2>5. \A call \in calls' \ calls : state[call.item] = "backoff"
    OBVIOUS
  <2>. QED  BY <2>1, <2>2, <2>3, <2>4, <2>5, WorkInv
<1>3. CASE ~ (attempt[i] < MaxRetries)
  <2>1. SettleItem(i, Errored(error)) /\ attempt[i] = MaxRetries
    BY <1>1, <1>3 DEF Fail
  <2>2. Possible(Errored(error)) /\ Errored(error).error = error
    <3>1. Errored(error).score.num = 0 /\ Errored(error).score.den = 1
      <4>1. Errored(error).score = [num |-> 0, den |-> 1]
        BY OutcomeInRange
      <4>. HIDE DEF Errored
      <4>. QED  BY <4>1
    <3>2. Errored(error) # NoResult /\ Errored(error).error = error
      BY OutcomeInRange
    <3>. QED  BY <3>1, <3>2 DEF Possible
  <2>. QED  BY <2>1, <2>2, SettleInv
<1>. QED  BY <1>2, <1>3

\* A worker takes the next item.
LEMMA TakeInv == ASSUME Configured, IInv, NEW w \in Workers, Take(w) PROVE IInv'
<1>. DEFINE i == nextIndex
<1>1. Typed /\ Assigned /\ OutcomesHonest /\ Count \in Nat /\ nextIndex \in Int
  <2>1. nextIndex \in 1 .. Count + 1 /\ Count \in Nat
    BY DEF IInv, Typed, Configured
  <2>. QED  BY <2>1 DEF IInv
<1>2. i \in Items /\ i # 0 /\ i >= nextIndex
  <2>1. i \in 1 .. Count
    BY <1>1 DEF Take, Typed
  <2>. QED  BY <1>1, <2>1, ItemsAreIndices DEF Items
<1>3. /\ doing[w] = 0 /\ doing' = [doing EXCEPT ![w] = i]
      /\ state' = [state EXCEPT ![i] = "calling"]
      /\ calls' = calls \cup {[item |-> i, attempt |-> 0]} /\ nextIndex' = i + 1
      /\ UNCHANGED <<attempt, results>>
  BY DEF Take
<1>. HIDE DEF i
<1>4. state[i] = "waiting" /\ attempt[i] = 0 /\ results[i] = NoResult
  BY <1>1, <1>2 DEF Assigned
<1>5. Typed'
  <2>1. nextIndex' \in 1 .. Count + 1
    BY <1>1, <1>2, <1>3, ItemsAreIndices
  <2>2. doing' \in [Workers -> {0} \cup Items] /\ state' \in [Items -> States]
    BY <1>1, <1>2, <1>3 DEF Typed, States
  <2>3. calls' \subseteq [item : Items, attempt : Nat]
    BY <1>1, <1>2, <1>3 DEF Typed
  <2>. QED  BY <1>1, <1>3, <2>1, <2>2, <2>3 DEF Typed
<1>6. Assigned'
  <2>1. ~ \E v \in Workers : doing[v] = i
    BY <1>1, <1>2, <1>4 DEF Assigned
  <2>2. /\ state'[i] = "calling" /\ doing'[w] = i /\ ~ (i >= nextIndex')
    BY <1>1, <1>2, <1>3, ItemsAreIndices DEF Typed
  <2>3. ASSUME NEW j \in Items, j # i
        PROVE  /\ state'[j] = "waiting" <=> j >= nextIndex'
               /\ state'[j] = "waiting" => attempt'[j] = 0
               /\ state'[j] = "done" <=> results'[j] # NoResult
               /\ state'[j] \in {"calling", "backoff"} <=> \E v \in Workers : doing'[v] = j
    <3>1. state'[j] = state[j]
      BY <1>1, <1>3, <2>3 DEF Typed
    <3>2. (\E v \in Workers : doing'[v] = j) <=> \E v \in Workers : doing[v] = j
      <4>1. j # 0
        BY ItemsAreIndices
      <4>2. \A v \in Workers : doing'[v] = j <=> doing[v] = j
        BY <1>1, <1>3, <2>3, <4>1 DEF Typed
      <4>. QED  BY <4>2
    <3>3. j >= nextIndex' <=> j >= nextIndex
      <4>1. j \in Int
        BY ItemsAreIndices
      <4>. QED  BY <1>1, <1>3, <2>3, <4>1 DEF i
    <3>. QED  BY <1>1, <1>3, <3>1, <3>2, <3>3 DEF Assigned
  <2>4. \A u, v \in Workers : doing'[u] = doing'[v] /\ u # v => doing'[u] = 0
    BY <1>1, <1>3, <2>1 DEF Typed, Assigned
  <2>5. /\ state'[i] = "waiting" <=> i >= nextIndex'
        /\ state'[i] = "waiting" => attempt'[i] = 0
        /\ state'[i] = "done" <=> results'[i] # NoResult
        /\ state'[i] \in {"calling", "backoff"} <=> \E v \in Workers : doing'[v] = i
    BY <1>3, <1>4, <2>2
  <2>. QED  BY <2>3, <2>4, <2>5 DEF Assigned
<1>7. OutcomesHonest'
  <2>1. \A j \in Items : state'[j] = "done" => state[j] = "done" /\ j # i
    BY <1>1, <1>3, <1>4 DEF Typed
  <2>2. LatestAttemptDecides'
    <3>. SUFFICES ASSUME NEW j \in Items, state'[j] = "done", results[j].error # "timeout"
                  PROVE  [item |-> j, attempt |-> attempt[j]] \notin calls'
      BY <1>3 DEF LatestAttemptDecides
    <3>1. j # i /\ [item |-> j, attempt |-> attempt[j]] \notin calls
      BY <1>1, <2>1 DEF OutcomesHonest, LatestAttemptDecides
    <3>. QED  BY <1>3, <3>1
  <2>3. ScoreInRange' /\ RetriesSpent'
    BY <1>1, <1>3, <2>1 DEF OutcomesHonest, ScoreInRange, RetriesSpent
  <2>. QED  BY <2>2, <2>3 DEF OutcomesHonest
<1>8. RetriesLeft'
  BY <1>1, <1>3 DEF IInv, RetriesLeft, Typed
<1>. QED  BY <1>5, <1>6, <1>7, <1>8 DEF IInv

\* An answer counts only for the attempt that is awaited.
LEMMA AnswerInv ==
    ASSUME Configured, IInv, NEW call \in calls, NEW reply \in Replies, AnswerCall(call, reply)
    PROVE  IInv'
<1>. DEFINE i == call.item
<1>1. /\ Typed /\ i \in Items /\ call = [item |-> i, attempt |-> call.attempt]
      /\ calls' = calls \ {call} /\ UNCHANGED <<nextIndex, returned, attempt>>
  BY DEF IInv, Typed, AnswerCall
<1>. HIDE DEF i
<1>2. CASE ~ Awaited(call)
  <2>1. UNCHANGED <<doing, state, results>>
    BY <1>2 DEF AnswerCall
  <2>. QED  BY <1>1, <2>1, WorkInv DEF Typed
<1>3. CASE Awaited(call)
  <2>1. state[i] = "calling" /\ call.attempt = attempt[i]
    BY <1>3 DEF Awaited, i
  <2>2. [item |-> i, attempt |-> attempt[i]] \notin calls'
    BY <1>1, <2>1
  <2>3. CASE reply.kind = "verdict"
    <3>1. SettleItem(i, Scored(reply))
      BY <1>3, <2>3 DEF AnswerCall, i
    <3>2. Possible(Scored(reply)) /\ Scored(reply).error = ""
      BY <2>3, OutcomeInRange DEF Possible
    <3>. QED  BY <1>1, <2>1, <2>2, <3>1, <3>2, SettleInv
  <2>4. CASE reply.kind # "verdict"
    <3>1. Fail(i, reply.kind) /\ reply.kind \in {"timeout", "parse_error", "Error"}
      BY <1>3, <2>4 DEF AnswerCall, i, Configured
    <3>. QED  BY <1>1, <2>1, <2>2, <3>1, FailInv
  <2>. QED  BY <2>3, <2>4
<1>. QED  BY <1>2, <1>3

LEMMA NextInv == ASSUME Configured, IInv, [ScoringNext]_scoringVars PROVE IInv'
<1>1. ASSUME NEW w \in Workers, Return(w) PROVE IInv'
  BY <1>1, WorkInv DEF Return, IInv, Typed
<1>2. ASSUME NEW i \in Items, TimesOut(i) PROVE IInv'
  BY <1>2, FailInv DEF TimesOut
<1>3. ASSUME NEW i \in Items, RetryItem(i) PROVE IInv'
  <2>1. /\ Typed /\ state[i] = "backoff" /\ state' = [state EXCEPT ![i] = "calling"]
        /\ attempt' = [attempt EXCEPT ![i] = @ + 1] /\ UNCHANGED <<nextIndex, doing, results>>
        /\ calls' = calls \cup {[item |-> i, attempt |-> attempt[i] + 1]}
    BY <1>3 DEF RetryItem, IInv
  <2>2. attempt'[i] <= MaxRetries
    <3>1. attempt[i] < MaxRetries /\ attempt[i] \in Nat /\ MaxRetries \in Nat
      BY <2>1 DEF IInv, RetriesLeft, Typed, Configured
    <3>. QED  BY <2>1, <3>1 DEF Typed
  <2>. QED  BY <2>1, <2>2, WorkInv DEF Typed, States
<1>4. CASE UNCHANGED scoringVars
  BY <1>4, WorkInv DEF scoringVars, IInv, Typed
<1>. QED
  BY <1>1, <1>2, <1>3, <1>4, TakeInv, AnswerInv DEF ScoringNext, Local

--------------------------------------------------------------------------------
\* In every behaviour an outcome is in range, is the answer to the last call made or a
\* timeout, and comes after the configured retries, no earlier and no later.
THEOREM OutcomesKept == ASSUME Configured PROVE ScoringSpec => []OutcomesHonest
<1>1. ScoringInit => IInv
  BY InitInv
<1>2. IInv /\ [ScoringNext]_scoringVars => IInv'
  BY NextInv
<1>3. IInv => OutcomesHonest
  BY DEF IInv
<1>. QED  BY <1>1, <1>2, <1>3, PTL DEF ScoringSpec

\* A worker that is free leaves room: fewer than Limit items are being worked on.
LEMMA RoomLeft ==
    ASSUME Configured, IInv, NEW w \in Workers, doing[w] = 0
    PROVE  Cardinality(Pool!Current) < Limit
<1>. DEFINE others == Workers \ {w}
            busy   == {doing[v] : v \in others}
<1>1. IsFiniteSet(Workers) /\ Cardinality(Workers) \in Nat /\ Cardinality(Workers) <= Limit
  <2>. DEFINE size == IF Limit < Count THEN Limit ELSE Count
  <2>1. size \in Nat /\ size <= Limit /\ Limit \in Nat /\ Workers = 1 .. size
    BY DEF Configured, Workers
  <2>. HIDE DEF size
  <2>2. IsFiniteSet(1 .. size) /\ Cardinality(1 .. size) = IF 1 > size THEN 0 ELSE size - 1 + 1
    BY <2>1, FS_Interval
  <2>. QED  BY <2>1, <2>2
<1>2. IsFiniteSet(others) /\ Cardinality(others) = Cardinality(Workers) - 1
  BY <1>1, FS_RemoveElement
<1>3. IsFiniteSet(busy) /\ Cardinality(busy) <= Cardinality(others)
  <2>. DEFINE f == [v \in others |-> doing[v]]
  <2>1. f \in Surjection(others, busy)
    BY DEF Surjection
  <2>. QED  BY <1>2, <2>1, FS_Surjection
<1>4. Pool!Current \subseteq busy
  <2>. SUFFICES ASSUME NEW i \in Items, i <= nextIndex - 1, results[i] = NoResult
                PROVE  i \in busy
    BY DEF Pool!Current, Pool!Items, Items
  <2>1. i \in Int /\ i # 0 /\ nextIndex \in Int
    BY ItemsAreIndices DEF IInv, Typed
  <2>2. state[i] \in {"calling", "backoff"}
    <3>1. ~ (i >= nextIndex)
      BY <2>1
    <3>. QED  BY <3>1 DEF IInv, Typed, Assigned, States
  <2>3. PICK v \in Workers : doing[v] = i
    BY <2>2 DEF IInv, Assigned
  <2>. QED  BY <2>1, <2>3
<1>5. Cardinality(Pool!Current) <= Cardinality(busy)
  BY <1>3, <1>4, FS_Subset
<1>6. /\ Cardinality(Pool!Current) \in Nat /\ Cardinality(busy) \in Nat
      /\ Cardinality(others) \in Nat
  BY <1>2, <1>3, <1>4, FS_Subset, FS_CardinalityType
<1>. QED  BY ONLY <1>1, <1>2, <1>3, <1>5, <1>6, Configured DEF Configured

\* A step that gives an item its outcome is the abstract step of that item.
LEMMA SettleSettles ==
    ASSUME Configured, IInv, NEW i \in Items, NEW outcome, SettleItem(i, outcome), outcome # NoResult,
           state[i] = "calling", nextIndex' = nextIndex
    PROVE  Pool!Settle(i)
<1>1. i \in Int /\ nextIndex \in Int /\ DOMAIN results = Items
  BY ItemsAreIndices DEF IInv, Typed
<1>2. i <= nextIndex - 1 /\ results[i] = NoResult
  <2>1. ~ (i >= nextIndex) /\ results[i] = NoResult
    BY DEF IInv, Assigned
  <2>. QED  BY <1>1, <2>1
<1>3. i \in Pool!Current
  BY <1>2 DEF Pool!Current, Pool!Items, Items
<1>4. results' = [results EXCEPT ![i] = outcome] /\ results'[i] = outcome
  BY <1>1 DEF SettleItem
<1>. QED  BY <1>3, <1>4 DEF Pool!Settle

\* So is a failed attempt, when it was the last one.
LEMMA FailSettles ==
    ASSUME Configured, IInv, NEW i \in Items, NEW error \in {"timeout", "parse_error", "Error"},
           Fail(i, error), state[i] = "calling", nextIndex' = nextIndex
    PROVE  Pool!Settle(i) \/ UNCHANGED results
<1>1. CASE attempt[i] < MaxRetries
  BY <1>1 DEF Fail
<1>2. CASE ~ (attempt[i] < MaxRetries)
  <2>1. SettleItem(i, Errored(error))
    BY <1>2 DEF Fail
  <2>2. Errored(error) # NoResult
    BY OutcomeInRange
  <2>. QED  BY <2>1, <2>2, SettleSettles
<1>. QED  BY <1>1, <1>2

LEMMA StepMaps ==
    ASSUME Configured, IInv, [ScoringNext]_scoringVars
    PROVE  [Pool!Next]_<<nextIndex - 1, results>>
<1>1. ASSUME NEW w \in Workers, Take(w) PROVE Pool!Begin
  <2>1. Cardinality(Pool!Current) < Limit
    BY <1>1, RoomLeft DEF Take
  <2>2. nextIndex - 1 < Count /\ nextIndex' - 1 = (nextIndex - 1) + 1
    BY <1>1 DEF Take, IInv, Typed, Configured
  <2>3. Pool!Cardinality(Pool!Current) = Cardinality(Pool!Current)
    BY DEF Pool!Cardinality, Cardinality
  <2>. QED  BY <1>1, <2>1, <2>2, <2>3 DEF Pool!Begin, Take
<1>2. ASSUME NEW i \in Items, TimesOut(i) PROVE Pool!Settle(i) \/ UNCHANGED <<nextIndex, results>>
  BY <1>2, FailSettles DEF TimesOut
<1>3. ASSUME NEW call \in calls, NEW reply \in Replies, AnswerCall(call, reply)
      PROVE  Pool!Settle(call.item) \/ UNCHANGED <<nextIndex, results>>
  <2>1. call.item \in Items /\ nextIndex' = nextIndex
    BY <1>3 DEF IInv, Typed, AnswerCall
  <2>2. CASE ~ Awaited(call)
    BY <1>3, <2>2 DEF AnswerCall
  <2>3. CASE Awaited(call)
    <3>1. state[call.item] = "calling"
      BY <2>3 DEF Awaited
    <3>2. CASE reply.kind = "verdict"
      <4>1. SettleItem(call.item, Scored(reply)) /\ Scored(reply) # NoResult
        BY <1>3, <2>3, <3>2, OutcomeInRange DEF AnswerCall
      <4>. QED  BY <2>1, <3>1, <4>1, SettleSettles
    <3>3. CASE reply.kind # "verdict"
      <4>1. Fail(call.item, reply.kind) /\ reply.kind \in {"timeout", "parse_error", "Error"}
        BY <1>3, <2>3, <3>3 DEF AnswerCall, Configured
      <4>. QED  BY <2>1, <3>1, <4>1, FailSettles
    <3>. QED  BY <3>2, <3>3
  <2>. QED  BY <2>2, <2>3
<1>4. ASSUME \/ \E w \in Workers : Return(w)
             \/ \E i \in Items : RetryItem(i)
             \/ UNCHANGED scoringVars
      PROVE  UNCHANGED <<nextIndex, results>>
  BY <1>4 DEF Return, RetryItem, scoringVars
<1>5. Pool!Items = Items /\ \A call \in calls : call.item \in Items
  BY DEF Pool!Items, Items, IInv, Typed
<1>6. CASE \E w \in Workers : Take(w)
  BY <1>1, <1>6 DEF Pool!Next
<1>7. CASE \E i \in Items : TimesOut(i)
  BY <1>2, <1>5, <1>7 DEF Pool!Next
<1>8. CASE \E call \in calls, reply \in Replies : AnswerCall(call, reply)
  BY <1>3, <1>5, <1>8 DEF Pool!Next
<1>. QED  BY <1>4, <1>6, <1>7, <1>8 DEF ScoringNext, Local

\* The workers, the attempts and the timers implement the bounded map: each content is
\* worked on once, in order, by at most Limit workers, and its one outcome is never
\* replaced.
THEOREM PoolImplemented ==
    ASSUME Configured
    PROVE  ScoringSpec => Pool!Init /\ [][Pool!Next]_<<nextIndex - 1, results>>
<1>1. ScoringInit => IInv
  BY InitInv
<1>2. IInv /\ [ScoringNext]_scoringVars => IInv'
  BY NextInv
<1>3. ScoringInit => Pool!Init
  BY DEF ScoringInit, Pool!Init, Pool!Items, Items
<1>4. IInv /\ [ScoringNext]_scoringVars => [Pool!Next]_<<nextIndex - 1, results>>
  BY StepMaps
<1>. QED  BY <1>1, <1>2, <1>3, <1>4, PTL DEF ScoringSpec

--------------------------------------------------------------------------------------
(***************************************************************************)
(* The deterministic evaluator.                                            *)
(***************************************************************************)

\* What can be malformed is a regex or a schema.
RuleShapes ==
    /\ MaxRules \in Nat
    /\ \A rule \in RawRules :
           /\ rule.mark \in BOOLEAN
           /\ rule.field = "malformed" =>
                  rule.kind \in {"json_schema", "regex_match", "regex_no_match"}

\* The rules a text satisfies, if no schema throws for being new.
Satisfied(text) ==
    {i \in DOMAIN stored.rules :
        /\ ~(stored.rules[i].kind \in {"regex_match", "regex_no_match"}
                /\ stored.rules[i].field = "malformed")
        /\ ~(stored.rules[i].kind = "json_schema" /\ text.json
                /\ stored.rules[i].field = "malformed")
        /\ Holds(stored.rules[i], text)}

Settled(text) == \A i \in DOMAIN stored.rules : ~ThrowsAtFirst(i, text)

\* Schemas are compiled in the passes so far, all of a pass with its first JSON text.
CompiledTogether ==
    /\ pass \in Nat
    /\ \A seen \in compiled : seen[1] \in Nat /\ seen[1] <= pass
    /\ stored \in Deterministic /\ (\E seen \in compiled : seen[1] = pass) =>
           \A i \in DOMAIN stored.rules :
               stored.rules[i].kind = "json_schema" => <<pass, i>> \in compiled

\* Outcomes come from valid deterministic configs, and the first settled verdict on a
\* text is the one the config and the text determine.
RulesInv ==
    /\ stored \in Deterministic \cup Judges
    /\ config = "accepted" => Valid
    /\ last # NoOutcome => stored \in Deterministic /\ Valid
    /\ stored \in Deterministic =>
           \A text \in Texts : first[text] \in {"none", Verdict(Satisfied(text))}
    /\ DOMAIN first = Texts
    /\ CompiledTogether
    /\ FailsClosed

\* A config has a sequence of rules.
LEMMA RulesAreSeq ==
    ASSUME RuleShapes, NEW c \in Deterministic
    PROVE  /\ c.type = "deterministic" /\ c.rules \in Seq(RawRules)
           /\ DOMAIN c.rules = 1 .. Len(c.rules) /\ Len(c.rules) \in Nat
<1>1. c.type = "deterministic" /\ c.rules \in UNION {[1 .. n -> RawRules] : n \in 0 .. MaxRules}
  BY DEF Deterministic
<1>2. PICK n \in 0 .. MaxRules : c.rules \in [1 .. n -> RawRules]
  BY <1>1
<1>. QED
  BY <1>1, <1>2 DEF RuleShapes

LEMMA JudgeIsJudge == ASSUME NEW c \in Judges PROVE c.type = "llm_judge" /\ c \notin Deterministic
<1>1. c.type = "llm_judge"
  BY DEF Judges
<1>2. \A d \in Deterministic : d.type = "deterministic"
  BY DEF Deterministic
<1>. QED
  BY <1>1, <1>2

\* In the mode "all" a text passes only if every rule passes.
LEMMA AllPass ==
    ASSUME RuleShapes, stored \in Deterministic, stored.mode = "all",
           NEW passing \in SUBSET DOMAIN stored.rules, Verdict(passing) = "pass"
    PROVE  passing = DOMAIN stored.rules
<1>1. DOMAIN stored.rules = 1 .. Len(stored.rules) /\ Len(stored.rules) \in Nat
  BY RulesAreSeq
<1>2. IsFiniteSet(DOMAIN stored.rules) /\ Cardinality(DOMAIN stored.rules) = Len(stored.rules)
  BY <1>1, FS_Interval
<1>3. Cardinality(passing) = Len(stored.rules)
  BY DEF Verdict
<1>. QED
  BY <1>2, <1>3, FS_Subset

\* A malformed rule does not pass.
LEMMA MalformedFails ==
    ASSUME RuleShapes, stored \in Deterministic, Valid, NEW i \in DOMAIN stored.rules,
           NEW text \in Texts, stored.rules[i].field = "malformed"
    PROVE  ~RulePassed(i, text)
<1>1. stored.rules[i] \in RawRules
  BY RulesAreSeq
<1>2. stored.rules[i].kind \in {"json_schema", "regex_match", "regex_no_match"}
  BY <1>1 DEF RuleShapes
<1>3. CASE stored.rules[i].kind = "json_schema"
  BY <1>3 DEF RulePassed, Throws, Holds
<1>4. CASE stored.rules[i].kind \in {"regex_match", "regex_no_match"}
  BY <1>4 DEF RulePassed, Throws
<1>. QED
  BY <1>2, <1>3, <1>4

\* If no schema throws for being new, what Ajv has seen before makes no difference.
LEMMA PassedIsSatisfied ==
    ASSUME stored \in Deterministic, Valid, NEW text \in Texts, Settled(text)
    PROVE  {i \in DOMAIN stored.rules : RulePassed(i, text)} = Satisfied(text)
<1>. SUFFICES ASSUME NEW i \in DOMAIN stored.rules
              PROVE  RulePassed(i, text) <=>
                       /\ ~(stored.rules[i].kind \in {"regex_match", "regex_no_match"}
                               /\ stored.rules[i].field = "malformed")
                       /\ ~(stored.rules[i].kind = "json_schema" /\ text.json
                               /\ stored.rules[i].field = "malformed")
                       /\ Holds(stored.rules[i], text)
  BY DEF Satisfied
<1>1. ~ThrowsAtFirst(i, text)
  BY DEF Settled
<1>. QED
  BY <1>1 DEF RulePassed, Throws

LEMMA RulesInitInv == RulesInit => RulesInv
BY DEF RulesInit, RulesInv, FailsClosed, CompiledTogether

\* Evaluating a JSON text compiles every schema that is not, and another text none.
LEMMA EvaluateCompiles ==
    ASSUME RuleShapes, CompiledTogether, stored \in Deterministic, NEW text \in Texts, Evaluate(text)
    PROVE  /\ CompiledTogether'
           /\ (\E seen \in compiled : seen[1] = pass) => Settled(text)
<1>1. /\ compiled' = compiled \cup {<<pass, i>> : i \in {j \in DOMAIN stored.rules :
                                       stored.rules[j].kind = "json_schema" /\ text.json}}
      /\ UNCHANGED <<stored, pass>>
  BY DEF Evaluate
<1>2. \A seen \in compiled' : seen[1] \in Nat /\ seen[1] <= pass
  BY <1>1 DEF CompiledTogether
<1>3. CASE text.json
  <2>1. \A i \in DOMAIN stored.rules :
            stored.rules[i].kind = "json_schema" => <<pass, i>> \in compiled'
    BY <1>1, <1>3
  <2>. QED
    BY <1>1, <1>2, <2>1 DEF CompiledTogether, Settled, ThrowsAtFirst
<1>4. CASE ~text.json
  <2>1. compiled' = compiled
    BY <1>1, <1>4
  <2>. QED
    BY <1>1, <1>4, <2>1 DEF CompiledTogether, Settled, ThrowsAtFirst
<1>. QED
  BY <1>3, <1>4

\* An outcome is new, and what the config and the text make of it.
LEMMA EvaluateInv ==
    ASSUME RuleShapes, RulesInv, NEW text \in Texts, Evaluate(text)
    PROVE  RulesInv' /\ SameVerdictAgain /\ UnsettledOnce
<1> DEFINE passing == {i \in DOMAIN stored.rules : RulePassed(i, text)}
           new == [text |-> text, verdict |-> Verdict(passing), settled |-> Settled(text)]
<1>1. /\ config = "accepted" /\ stored.type = "deterministic"
      /\ last' = new
      /\ first' = [first EXCEPT ![text] = IF first[text] = "none" /\ Settled(text)
                                          THEN Verdict(passing) ELSE first[text]]
      /\ UNCHANGED <<stored, config, pass>>
  BY DEF Evaluate, Settled
<1>2. stored \in Deterministic /\ Valid
  BY <1>1, JudgeIsJudge DEF RulesInv
<1>3. passing \in SUBSET DOMAIN stored.rules
  OBVIOUS
<1>4. Settled(text) => passing = Satisfied(text)
  BY <1>2, PassedIsSatisfied
<1>5. stored.mode = "all" /\ Verdict(passing) = "pass" =>
          \A i \in DOMAIN stored.rules : stored.rules[i].field # "malformed"
  BY <1>2, <1>3, AllPass, MalformedFails
<1>6. CompiledTogether' /\ ((\E seen \in compiled : seen[1] = pass) => Settled(text))
  BY <1>2, EvaluateCompiles DEF RulesInv
<1>7. Verdict(passing) # "none"
  BY DEF Verdict
<1>. HIDE DEF passing
<1>8. /\ last'.text = text /\ last'.verdict = Verdict(passing) /\ last'.settled = Settled(text)
      /\ last' # NoOutcome
  BY <1>1 DEF NoOutcome
<1>9. FailsClosed'
  BY <1>1, <1>5, <1>8 DEF FailsClosed
<1>10. \A t \in Texts : first'[t] \in {"none", Verdict(Satisfied(t))'}
  <2>. SUFFICES ASSUME NEW t \in Texts PROVE first'[t] \in {"none", Verdict(Satisfied(t))'}
    OBVIOUS
  <2>1. Verdict(Satisfied(t))' = Verdict(Satisfied(t))
    BY <1>1 DEF Verdict, Satisfied
  <2>2. first[t] \in {"none", Verdict(Satisfied(t))} /\ DOMAIN first = Texts
    BY <1>2 DEF RulesInv
  <2>. QED
    BY <1>1, <1>4, <2>1, <2>2
<1>11. RulesInv'
  <2>1. Valid' /\ stored' \in Deterministic
    BY <1>1, <1>2 DEF Valid, ValidDeterministic, ValidJudge
  <2>2. DOMAIN first' = Texts
    BY <1>1 DEF RulesInv
  <2>. QED
    BY <2>1, <2>2, <1>6, <1>9, <1>10 DEF RulesInv
<1>12. SameVerdictAgain
  <2>. SUFFICES ASSUME NEW t \in Texts, last'.text = t, last'.settled, first[t] # "none"
                PROVE  last'.verdict = first[t]
    BY DEF SameVerdictAgain
  <2>1. t = text /\ passing = Satisfied(text)
    BY <1>4, <1>8
  <2>2. first[t] = Verdict(Satisfied(t))
    BY <1>2 DEF RulesInv
  <2>. QED
    BY <2>1, <2>2, <1>8
<1>13. UnsettledOnce
  BY <1>6, <1>8 DEF UnsettledOnce
<1>. QED
  BY <1>11, <1>12, <1>13

LEMMA RulesNextInv ==
    ASSUME RuleShapes, RulesInv, [RulesNext]_rulesVars
    PROVE  RulesInv' /\ SameVerdictAgain /\ UnsettledOnce
<1>1. ASSUME UNCHANGED <<stored, first, last>>, config' = "accepted" => Valid, CompiledTogether'
      PROVE  RulesInv' /\ SameVerdictAgain /\ UnsettledOnce
  <2>1. Valid' = Valid
    BY <1>1 DEF Valid, ValidDeterministic, ValidJudge
  <2>2. \A text \in Texts : Verdict(Satisfied(text))' = Verdict(Satisfied(text))
    BY <1>1 DEF Verdict, Satisfied
  <2>3. FailsClosed'
    BY <1>1 DEF RulesInv, FailsClosed
  <2>4. RulesInv'
    BY <1>1, <2>1, <2>2, <2>3 DEF RulesInv
  <2>. QED
    BY <1>1, <2>4 DEF SameVerdictAgain, UnsettledOnce
<1>2. ASSUME NEW key \in BOOLEAN, StartPass(key)
      PROVE  RulesInv' /\ SameVerdictAgain /\ UnsettledOnce
  <2>1. UNCHANGED <<stored, first, last, compiled>> /\ (config' = "accepted" => Valid)
        /\ pass' = pass + 1
    BY <1>2 DEF StartPass
  <2>2. CompiledTogether'
    BY <2>1 DEF RulesInv, CompiledTogether
  <2>. QED
    BY <2>1, <2>2, <1>1
<1>3. CASE RestartRunner
  <2>1. UNCHANGED <<stored, first, last>> /\ config' # "accepted"
    BY <1>3 DEF RestartRunner
  <2>2. CompiledTogether'
    BY <1>3 DEF RestartRunner, RulesInv, CompiledTogether
  <2>. QED
    BY <2>1, <2>2, <1>1
<1>4. CASE UNCHANGED rulesVars
  <2>1. UNCHANGED <<stored, first, last>> /\ (config' = "accepted" => Valid)
    BY <1>4 DEF rulesVars, RulesInv
  <2>2. CompiledTogether'
    BY <1>4 DEF rulesVars, RulesInv, CompiledTogether
  <2>. QED
    BY <2>1, <2>2, <1>1
<1>. QED
  BY <1>2, <1>3, <1>4, EvaluateInv DEF RulesNext

LEMMA AcceptedScores == ASSUME RuleShapes PROVE RulesInv => AcceptedCanScore
<1>. SUFFICES ASSUME RulesInv, config = "accepted"
              PROVE  IF stored.type = "deterministic" THEN stored.rules # <<>>
                     ELSE stored.high > stored.low
  BY DEF AcceptedCanScore
<1>1. Valid
  BY DEF RulesInv
<1>2. CASE stored.type = "deterministic"
  <2>1. Len(stored.rules) > 0
    BY <1>1, <1>2 DEF Valid, ValidDeterministic
  <2>. QED
    BY <1>2, <2>1
<1>3. CASE stored.type # "deterministic"
  BY <1>1, <1>3 DEF Valid, ValidJudge
<1>. QED
  BY <1>2, <1>3

\* For any stored rules, in every pass of every process: a config that is accepted can
\* score, a rule that does not compile lets no text through an `all` config, and the
\* verdict on a text never changes, but for the one text of a pass on which a schema
\* throws for being new (config.ts, deterministic.ts).
THEOREM VerdictsKept == ASSUME RuleShapes PROVE RulesSpec => VerdictsHold
<1>1. RulesInv => AcceptedCanScore
  BY AcceptedScores
<1>2. RulesInv => FailsClosed
  BY DEF RulesInv
<1>3. RulesInv /\ [RulesNext]_rulesVars => RulesInv' /\ SameVerdictAgain /\ UnsettledOnce
  BY RulesNextInv
<1>. QED
  BY <1>1, <1>2, <1>3, RulesInitInv, PTL DEF RulesSpec, VerdictsHold

(***************************************************************************)
(* One trace of the demo corpus.                                           *)
(***************************************************************************)

\* A row of a span under its parent: it ends after it starts, later than the trace.
LaidRow(s) == s.start \in Nat /\ s.end \in Nat /\ 0 < s.start /\ s.start < s.end

\* While the trace is being laid out its rows are the root's children, all of them
\* before the cursor.
LaidInv ==
    /\ cursor \in Nat /\ cursor > 0
    /\ OnlyFetchesOverlap
    /\ stage = "done" => SpansNest
    /\ stage # "done" => \A s \in drawn : LaidRow(s) /\ s.parent = "root" /\ s.end < cursor

\* The rows that a step adds are the root's, disjoint from one another (but for the
\* two fetches) and from those before, and the cursor moves past them.
LEMMA RowsAdded ==
    ASSUME LaidInv, stage # "done", stage' # "done", NEW rows, drawn' = drawn \cup rows,
           cursor' \in Nat, cursor < cursor',
           \A s \in rows : LaidRow(s) /\ s.parent = "root" /\ cursor <= s.start /\ s.end < cursor',
           \A s, r \in rows : s # r => {s.id, r.id} = {"fetch1", "fetch2"}
    PROVE  LaidInv'
<1>1. \A s \in drawn' : LaidRow(s) /\ s.parent = "root" /\ s.end < cursor'
  BY DEF LaidInv, LaidRow
<1>2. \A s \in drawn, r \in rows : s.end < r.start
  BY DEF LaidInv, LaidRow
<1>3. OnlyFetchesOverlap'
  BY <1>2 DEF LaidInv, OnlyFetchesOverlap
<1>. QED
  BY <1>1, <1>3 DEF LaidInv

LEMMA ChatLaid ==
    ASSUME LaidInv, stage # "done", NEW id, NEW next, next # "done", Chat(id, next)
    PROVE  LaidInv'
<1>1. PICK dur \in Durations, pause \in Pauses :
          /\ drawn' = drawn \cup {SpanRow(id, "root", cursor, cursor + dur, FALSE)}
          /\ cursor' = cursor + dur + pause
          /\ stage' = next
  BY DEF Chat
<1>2. dur \in Nat /\ dur > 0 /\ pause \in Nat /\ pause > 0 /\ cursor \in Nat /\ cursor > 0
  BY DrawAssumption DEF LaidInv
<1> DEFINE rows == {SpanRow(id, "root", cursor, cursor + dur, FALSE)}
<1>3. \A s \in rows : LaidRow(s) /\ s.parent = "root" /\ cursor <= s.start /\ s.end < cursor'
  BY <1>1, <1>2 DEF SpanRow, LaidRow
<1>4. cursor' \in Nat /\ cursor < cursor' /\ stage' # "done" /\ drawn' = drawn \cup rows
  BY <1>1, <1>2
<1>5. \A s, r \in rows : s = r
  OBVIOUS
<1>. HIDE DEF rows
<1>. QED
  BY <1>3, <1>4, <1>5, RowsAdded

LEMMA FetchLaid == ASSUME LaidInv, FetchBoth PROVE LaidInv'
<1>1. PICK durA, durB \in Durations, stagger, pause \in Pauses :
          LET a == SpanRow("fetch1", "root", cursor, cursor + durA, FALSE)
              b == SpanRow("fetch2", "root", cursor + stagger, cursor + stagger + durB, FALSE)
          IN  drawn' = drawn \cup {a, b} /\ cursor' = AfterFetches(a, b) + pause
  BY DEF FetchBoth
<1>a. PICK a, b : /\ a = SpanRow("fetch1", "root", cursor, cursor + durA, FALSE)
                  /\ b = SpanRow("fetch2", "root", cursor + stagger, cursor + stagger + durB, FALSE)
  OBVIOUS
<1>2. /\ cursor \in Nat /\ cursor > 0
      /\ durA \in Nat /\ durA > 0 /\ durB \in Nat /\ durB > 0
      /\ stagger \in Nat /\ stagger > 0 /\ pause \in Nat /\ pause > 0
  BY DrawAssumption DEF LaidInv
<1>3. /\ a.start = cursor /\ a.end = cursor + durA /\ a.parent = "root" /\ a.id = "fetch1"
      /\ b.start = cursor + stagger /\ b.end = cursor + stagger + durB /\ b.parent = "root"
      /\ b.id = "fetch2"
  BY <1>a DEF SpanRow
<1>4. drawn' = drawn \cup {a, b} /\ cursor' = AfterFetches(a, b) + pause
  BY <1>1, <1>a
<1>5. AfterFetches(a, b) = IF a.end < b.end THEN b.end ELSE a.end
  <2>1. \A x \in {a.end, b.end} : x <= IF a.end < b.end THEN b.end ELSE a.end
    BY <1>2, <1>3
  <2>2. \A x \in {a.end, b.end} :
           (\A y \in {a.end, b.end} : x >= y) => x = IF a.end < b.end THEN b.end ELSE a.end
    BY <1>2, <1>3
  <2>3. \E x \in {a.end, b.end} : \A y \in {a.end, b.end} : x >= y
    BY <1>2, <1>3
  <2>. QED
    BY <2>2, <2>3 DEF AfterFetches, Max
<1>6. cursor' \in Nat /\ a.end < cursor' /\ b.end < cursor' /\ cursor < cursor'
  BY <1>2, <1>3, <1>4, <1>5
<1>7. \A s \in {a, b} : LaidRow(s) /\ s.parent = "root" /\ cursor <= s.start /\ s.end < cursor'
  BY <1>2, <1>3, <1>6 DEF LaidRow
<1>8. \A s, r \in {a, b} : s # r => {s.id, r.id} = {"fetch1", "fetch2"}
  BY <1>3
<1>9. stage # "done" /\ stage' # "done"
  BY DEF FetchBoth
<1>. QED
  <2> DEFINE rows == {a, b}
  <2>1. drawn' = drawn \cup rows
    BY <1>4
  <2>. HIDE DEF rows
  <2>2. /\ \A s \in rows : LaidRow(s) /\ s.parent = "root" /\ cursor <= s.start /\ s.end < cursor'
        /\ \A s, r \in rows : s # r => {s.id, r.id} = {"fetch1", "fetch2"}
    BY <1>7, <1>8 DEF rows
  <2>. QED
    BY <1>6, <1>9, <2>1, <2>2, RowsAdded

LEMMA SearchLaid == ASSUME LaidInv, Search PROVE LaidInv'
<1>0. PICK failed, ends \in BOOLEAN, id \in {"search1", "search2"} :
          /\ failed <=> traceSpec.hardFailure \/ (traceSpec.retried /\ searchAttempt = 1)
          /\ ends <=> searchAttempt = Attempts /\ failed
          /\ id = IF searchAttempt = 1 THEN "search1" ELSE "search2"
  OBVIOUS
<1>a. PICK dur \in Durations, pause \in Pauses :
          /\ cursor' = cursor + dur + pause
          /\ ends <=> stage' = "done"
          /\ drawn' = drawn \cup {SpanRow(id, "root", cursor, cursor + dur, failed)} \cup
                      IF ends THEN {SpanRow("root", "", 0, cursor', TRUE)} ELSE {}
  BY <1>0 DEF Search
<1>b. PICK row, top : /\ row = SpanRow(id, "root", cursor, cursor + dur, failed)
                       /\ top = SpanRow("root", "", 0, cursor', TRUE)
  OBVIOUS
<1>1. /\ cursor' = cursor + dur + pause
      /\ row.start = cursor /\ row.end = cursor + dur /\ row.parent = "root"
      /\ top.id = "root" /\ top.start = 0 /\ top.end = cursor'
  BY <1>a, <1>b DEF SpanRow
<1>c. top.parent = ""
  BY <1>b DEF SpanRow
<1>2. drawn' = drawn \cup {row} \cup IF ends THEN {top} ELSE {}
  BY <1>a, <1>b
<1>3. stage = "search"
  BY DEF Search
<1>4. dur \in Nat /\ dur > 0 /\ pause \in Nat /\ pause > 0 /\ cursor \in Nat /\ cursor > 0
  BY DrawAssumption DEF LaidInv
<1>5. /\ LaidRow(row) /\ cursor <= row.start /\ row.end < cursor'
      /\ cursor' \in Nat /\ cursor < cursor' /\ cursor' > 0
  BY <1>1, <1>4 DEF LaidRow
<1>6. CASE ~ends
  <2> DEFINE rows == {row}
  <2>1. drawn' = drawn \cup rows /\ stage' # "done"
    BY <1>a, <1>2, <1>6
  <2>2. /\ \A s \in rows : LaidRow(s) /\ s.parent = "root" /\ cursor <= s.start /\ s.end < cursor'
        /\ \A s, r \in rows : s # r => {s.id, r.id} = {"fetch1", "fetch2"}
    BY <1>1, <1>5
  <2>. HIDE DEF rows
  <2>. QED
    BY <1>3, <1>5, <2>1, <2>2, RowsAdded
<1>7. CASE ends
  <2>1. drawn' = drawn \cup {row, top} /\ stage' = "done"
    BY <1>a, <1>2, <1>7
  <2>2. \A s \in drawn : LaidRow(s) /\ s.parent = "root" /\ s.end < row.start /\ s.end < cursor'
    BY <1>1, <1>3, <1>4, <1>5 DEF LaidInv, LaidRow
  <2>3. OnlyFetchesOverlap'
    <3>1. top.parent # "root"
      BY <1>c
    <3>. QED
      BY <1>1, <2>1, <2>2, <3>1 DEF LaidInv, OnlyFetchesOverlap
  <2>4. /\ \A s \in drawn \cup {row} : top.start < s.start /\ s.end < top.end /\ s.parent = "root"
        /\ top \in drawn' /\ top.id = "root"
    BY <1>1, <1>5, <2>1, <2>2 DEF LaidRow
  <2>5. SpansNest'
    BY <1>c, <2>1, <2>4 DEF SpansNest
  <2>. QED
    BY <1>5, <2>1, <2>3, <2>5 DEF LaidInv
<1>. QED
  BY <1>6, <1>7

LEMMA SummarizeLaid == ASSUME LaidInv, Summarize PROVE LaidInv'
<1>0. PICK dur \in Durations, lead, rest, pause \in Pauses :
          /\ drawn' = drawn \cup
                {SpanRow("agent", "root", cursor, SubAgentEnd(cursor, lead, dur, rest), FALSE),
                 SpanRow("summarize", "agent", cursor + lead, cursor + lead + dur, FALSE),
                 SpanRow("root", "", 0, SubAgentEnd(cursor, lead, dur, rest) + pause, FALSE)}
          /\ cursor' = SubAgentEnd(cursor, lead, dur, rest) + pause
  BY DEF Summarize
<1>1. PICK sub, chat, top :
          /\ sub = SpanRow("agent", "root", cursor, SubAgentEnd(cursor, lead, dur, rest), FALSE)
          /\ chat = SpanRow("summarize", "agent", cursor + lead, cursor + lead + dur, FALSE)
          /\ top = SpanRow("root", "", 0, SubAgentEnd(cursor, lead, dur, rest) + pause, FALSE)
  OBVIOUS
<1>2. /\ cursor \in Nat /\ cursor > 0 /\ dur \in Nat /\ dur > 0
      /\ lead \in Nat /\ lead > 0 /\ rest \in Nat /\ rest > 0 /\ pause \in Nat /\ pause > 0
  BY DrawAssumption DEF LaidInv
<1>3. /\ sub.id = "agent" /\ sub.parent = "root" /\ chat.parent = "agent"
      /\ top.id = "root"
      /\ sub.start = cursor /\ sub.end = cursor + lead + dur + rest
      /\ chat.start = cursor + lead /\ chat.end = cursor + lead + dur
      /\ top.start = 0 /\ top.end = cursor + lead + dur + rest + pause
      /\ cursor' = cursor + lead + dur + rest + pause
  BY <1>0, <1>1 DEF SpanRow, SubAgentEnd
<1>a. top.parent = ""
  BY <1>1 DEF SpanRow
<1>4. stage = "summarize" /\ stage' = "done" /\ drawn' = drawn \cup {sub, chat, top}
  BY <1>0, <1>1 DEF Summarize
<1>5. /\ cursor' \in Nat /\ cursor' > 0
      /\ top.start < sub.start /\ sub.end < top.end
      /\ sub.start < chat.start /\ chat.end < sub.end
  BY <1>2, <1>3
<1>6. \A s \in drawn : /\ s.start \in Nat /\ 0 < s.start /\ s.end \in Nat
                       /\ s.parent = "root" /\ s.end < sub.start
  BY <1>3, <1>4 DEF LaidInv, LaidRow
<1>7. OnlyFetchesOverlap'
  <2>1. top.parent # "root" /\ top.parent # "agent"
    BY <1>a
  <2>. QED
    BY <1>3, <1>4, <1>6, <2>1 DEF LaidInv, OnlyFetchesOverlap
<1>8. \A s \in drawn : top.start < s.start /\ s.end < top.end
  BY <1>2, <1>3, <1>6
<1>9. SpansNest'
  BY <1>3, <1>4, <1>5, <1>6, <1>8, <1>a DEF SpansNest
<1>. QED
  BY <1>4, <1>5, <1>7, <1>9 DEF LaidInv

LEMMA CorpusKeeps == ASSUME LaidInv, [CorpusNext]_corpusVars PROVE LaidInv'
<1>1. CASE Plan
  BY <1>1, ChatLaid DEF Plan
<1>2. CASE Draft
  BY <1>2, ChatLaid DEF Draft
<1>3. CASE UNCHANGED corpusVars
  BY <1>3 DEF LaidInv, OnlyFetchesOverlap, SpansNest, corpusVars
<1>. QED
  BY <1>1, <1>2, <1>3, SearchLaid, FetchLaid, SummarizeLaid DEF CorpusNext

(***************************************************************************)
(* The seeder.                                                             *)
(***************************************************************************)

\* The rows of the corpus in a table.
CorpusRows(table) == {x \in table : x.trace = "corpus"}

Deleting == {"delete events", "delete results", "delete spans"}

\* What the tables hold of the corpus at each statement of a run: content goes before
\* the spans that lead to it and comes after them.
SeedInv ==
    /\ hours \in Nat
    /\ NoOrphanContent
    /\ \A s, t \in CorpusRows(spans) : s = t
    /\ pc = "delete events" /\ CorpusRows(events) # {} => CorpusRows(doomed) # {}
    /\ pc \in {"delete results", "delete spans", "spans", "events"} => CorpusRows(events) = {}
    /\ pc = "spans" => CorpusRows(spans) = {}
    /\ pc \in {"events", "results", "hero", "landing"} => CorpusRows(spans) = {Corpus(seedRun)}
    /\ pc \in {"results", "hero", "landing"} => CorpusRows(events) = {Corpus(seedRun)}
    /\ pc \in {"hero", "landing"} => evalResults = {seedRun}
    /\ \A hero \in flight : hero.trace = "hero"

LEMMA SeedKeeps == ASSUME SeedInv, [SeedNext]_seedVars PROVE SeedInv'
<1>1. ASSUME NEW forced \in BOOLEAN, Start(forced) PROVE SeedInv'
  BY <1>1 DEF SeedInv, Start, NoOrphanContent, CorpusRows, SameTrace
<1>2. CASE CountSpans
  BY <1>2 DEF SeedInv, CountSpans, NoOrphanContent, CorpusRows, SameTrace
<1>3. CASE ResolveTraces
  <2>1. CorpusRows(events) # {} => CorpusRows(spans) # {}
    BY DEF SeedInv, NoOrphanContent, CorpusRows, SameTrace
  <2>2. /\ UNCHANGED <<force, seedRun, spans, events, evalResults, flight, hours>>
        /\ doomed' = spans /\ pc' = "delete events"
    BY <1>3 DEF ResolveTraces
  <2>. QED
    BY <2>1, <2>2 DEF SeedInv, NoOrphanContent, CorpusRows
<1>4. CASE DeleteEvents
  <2>1. \A e \in events' : e \in events /\ e.trace # "corpus"
    BY <1>4 DEF SeedInv, DeleteEvents, NoOrphanContent, CorpusRows, SameTrace
  <2>. QED
    BY <1>4, <2>1 DEF SeedInv, DeleteEvents, NoOrphanContent, CorpusRows, SameTrace
<1>5. CASE DeleteResults
  BY <1>5 DEF SeedInv, DeleteResults, NoOrphanContent, CorpusRows, SameTrace
<1>6. CASE DeleteSpans
  BY <1>6 DEF SeedInv, DeleteSpans, NoOrphanContent, CorpusRows, SameTrace
<1>7. CASE InsertSpans
  BY <1>7 DEF SeedInv, InsertSpans, NoOrphanContent, CorpusRows, SameTrace, Corpus
<1>8. CASE InsertEvents
  BY <1>8 DEF SeedInv, InsertEvents, NoOrphanContent, CorpusRows, SameTrace, Corpus
<1>9. CASE InsertResults
  BY <1>9 DEF SeedInv, InsertResults, NoOrphanContent, CorpusRows, SameTrace
<1>10. CASE EmitHero
  BY <1>10 DEF SeedInv, EmitHero, NoOrphanContent, CorpusRows, SameTrace, Hero
<1>11. CASE SeedDone
  BY <1>11 DEF SeedInv, SeedDone, NoOrphanContent, CorpusRows, SameTrace
<1>12. CASE Crash
  BY <1>12 DEF SeedInv, Crash, NoOrphanContent, CorpusRows, SameTrace
<1>13. CASE Hour
  BY <1>13 DEF SeedInv, Hour, NoOrphanContent, CorpusRows, SameTrace
<1>14. ASSUME NEW hero \in flight, HeroLands(hero) PROVE SeedInv'
  BY <1>14 DEF SeedInv, HeroLands, NoOrphanContent, CorpusRows, SameTrace
<1>15. CASE UNCHANGED seedVars
  BY <1>15 DEF SeedInv, seedVars, NoOrphanContent, CorpusRows, SameTrace
<1>. QED
  BY <1>1, <1>2, <1>3, <1>4, <1>5, <1>6, <1>7, <1>8, <1>9, <1>10, <1>11, <1>12, <1>13, <1>14,
     <1>15 DEF SeedNext, Delete, Insert

\* A reset that comes to its end finds what it wrote.
LEMMA ResetLeavesOne == ASSUME SeedInv, SeedInv', [SeedNext]_seedVars PROVE ResetLeavesOneCorpus
<1>1. CASE SeedDone
  BY <1>1 DEF SeedInv, SeedDone, ResetLeavesOneCorpus, CorpusRows
<1>2. CASE InsertResults
  BY <1>2 DEF SeedInv, InsertResults, ResetLeavesOneCorpus, CorpusRows
<1>. QED
  BY <1>1, <1>2 DEF ResetLeavesOneCorpus, ResetDone

LEMMA OneTimelineOnly == ASSUME SeedInv PROVE OneTimeline
<1>1. CASE CorpusRows(spans) = {}
  BY <1>1, FS_EmptySet DEF OneTimeline, CorpusRows
<1>2. CASE CorpusRows(spans) # {}
  <2>1. PICK s : s \in CorpusRows(spans)
    BY <1>2
  <2>b. CorpusRows(spans) = {s}
    BY <2>1 DEF SeedInv
  <2>2. Cardinality(CorpusRows(spans)) = 1
    BY <2>b, FS_Singleton
  <2>. QED
    BY <2>2 DEF OneTimeline, CorpusRows
<1>. QED
  BY <1>1, <1>2

(***************************************************************************)
(* The story that the corpus tells.                                        *)
(***************************************************************************)

\* The traces of the last day are the newest ones, four at least.
LEMMA NewestAreRecent ==
    ASSUME NEW left \in Int, left > 342
    PROVE  \E m \in 3 .. 11 : {i \in 0 .. 11 : 114 * i < left} = 0 .. m
<1>1. CASE left <= 456
  <2>. {i \in 0 .. 11 : 114 * i < left} = 0 .. 3  BY <1>1
  <2>. QED  OBVIOUS
<1>2. CASE left > 456 /\ left <= 570
  <2>. {i \in 0 .. 11 : 114 * i < left} = 0 .. 4  BY <1>2
  <2>. QED  OBVIOUS
<1>3. CASE left > 570 /\ left <= 684
  <2>. {i \in 0 .. 11 : 114 * i < left} = 0 .. 5  BY <1>3
  <2>. QED  OBVIOUS
<1>4. CASE left > 684 /\ left <= 798
  <2>. {i \in 0 .. 11 : 114 * i < left} = 0 .. 6  BY <1>4
  <2>. QED  OBVIOUS
<1>5. CASE left > 798 /\ left <= 912
  <2>. {i \in 0 .. 11 : 114 * i < left} = 0 .. 7  BY <1>5
  <2>. QED  OBVIOUS
<1>6. CASE left > 912 /\ left <= 1026
  <2>. {i \in 0 .. 11 : 114 * i < left} = 0 .. 8  BY <1>6
  <2>. QED  OBVIOUS
<1>7. CASE left > 1026 /\ left <= 1140
  <2>. {i \in 0 .. 11 : 114 * i < left} = 0 .. 9  BY <1>7
  <2>. QED  OBVIOUS
<1>8. CASE left > 1140 /\ left <= 1254
  <2>. {i \in 0 .. 11 : 114 * i < left} = 0 .. 10  BY <1>8
  <2>. QED  OBVIOUS
<1>9. CASE left > 1254
  <2>. {i \in 0 .. 11 : 114 * i < left} = 0 .. 11  BY <1>9
  <2>. QED  OBVIOUS
<1>. QED
  BY <1>1, <1>2, <1>3, <1>4, <1>5, <1>6, <1>7, <1>8, <1>9

LEMMA RecentIsPrefix ==
    ASSUME hours \in Nat, hours <= 17, NEW variant, NEW late \in BOOLEAN
    PROVE  \E m \in 3 .. 11 : Recent(variant, late) = 0 .. m
<1>1. PICK draw \in {0, 5, 20, 45} :
          draw = IF variant = "v1" THEN (IF late THEN 20 ELSE 0) ELSE (IF late THEN 45 ELSE 5)
  OBVIOUS
<1>2. \A i \in 0 .. 11 : StartedAgo(variant, i, late) = 30 + 114 * i + draw
  BY <1>1 DEF StartedAgo
<1>3. Recent(variant, late) = {i \in 0 .. 11 : 30 + 114 * i + draw + 60 * hours < 1440}
  BY <1>2 DEF Recent
<1> DEFINE left == 1410 - draw - 60 * hours
<1>4. \A i \in 0 .. 11 : 30 + 114 * i + draw + 60 * hours < 1440 <=> 114 * i < left
  BY <1>1
<1>5. left \in Int /\ left > 342
  BY <1>1
<1>6. Recent(variant, late) = {i \in 0 .. 11 : 114 * i < left}
  BY <1>3, <1>4
<1>. HIDE DEF left
<1>. QED
  BY <1>5, <1>6, NewestAreRecent

\* Three model calls for each trace, one for the trace h that fails early; and their
\* number in the newest traces, up to trace m.
ThreeButOne(w, S, h) == \A i \in S : w[i] = IF i = h THEN 1 ELSE 3
CallsUpTo(m, h)      == 3 * (m + 1) - IF h <= m THEN 2 ELSE 0

LEMMA CallsOfPrefix ==
    ASSUME NEW m \in Nat, NEW h \in Nat, NEW S, S = 0 .. m, NEW w, NEW g, Sums(g, S, w),
           ThreeButOne(w, S, h)
    PROVE  g[S] = CallsUpTo(m, h)
<1> DEFINE T == {n \in Nat : n <= m => g[0 .. n] = 3 * (n + 1) - IF h <= n THEN 2 ELSE 0}
<1>0. \A i \in 0 .. m : w[i] = IF i = h THEN 1 ELSE 3
  BY DEF ThreeButOne
<1>1. 0 \in T
  <2>0. (0 .. 0) \ {0} = {} /\ 0 .. 0 \in SUBSET (0 .. m) /\ 0 \in 0 .. 0
    OBVIOUS
  <2>1. g[0 .. 0] = w[0] + 0
    <3>1. g[0 .. 0] = w[0] + g[(0 .. 0) \ {0}] /\ g[{}] = 0
      BY <2>0 DEF Sums
    <3>2. g[(0 .. 0) \ {0}] = g[{}]
      BY <2>0
    <3>. QED
      BY <3>1, <3>2
  <2>2. w[0] = IF h = 0 THEN 1 ELSE 3
    BY <1>0
  <2>3. g[0 .. 0] = IF h = 0 THEN 1 ELSE 3
    BY <2>1, <2>2
  <2>4. g[0 .. 0] = 3 * (0 + 1) - IF h <= 0 THEN 2 ELSE 0
    BY <2>3
  <2>. QED
    BY <2>4
<1>2. ASSUME NEW n \in T PROVE n + 1 \in T
  <2>1. CASE n + 1 <= m
    <3>1. g[0 .. n] = 3 * (n + 1) - IF h <= n THEN 2 ELSE 0
      BY <2>1
    <3>2. (0 .. n + 1) \in SUBSET (0 .. m) /\ n + 1 \in 0 .. n + 1 /\ (0 .. n + 1) \ {n + 1} = 0 .. n
      BY <2>1
    <3>3. g[0 .. n + 1] = w[n + 1] + g[0 .. n]
      <4> DEFINE s == 0 .. n + 1  c == n + 1
      <4>1. s \in SUBSET (0 .. m) /\ c \in s /\ s \ {c} = 0 .. n
        BY <3>2
      <4>. HIDE DEF s, c
      <4>2. g[s] = w[c] + g[s \ {c}]
        BY <4>1 DEF Sums
      <4>. QED
        BY <4>1, <4>2 DEF s, c
    <3>4. w[n + 1] = IF n + 1 = h THEN 1 ELSE 3
      BY <1>0, <2>1
    <3>. QED
      BY <3>1, <3>3, <3>4
  <2>. QED
    BY <2>1
<1>3. T = Nat
  <2>. HIDE DEF T
  <2>1. T \in SUBSET Nat
    BY DEF T
  <2>. QED
    BY <1>1, <1>2, <2>1, NatSets
<1>4. m \in T
  BY <1>3
<1>. QED
  BY <1>4 DEF CallsUpTo

\* The trace whose run fails early.
Failing(variant) == IF variant = "v1" THEN 4 ELSE 6

LEMMA VerdictsOfPrefix ==
    ASSUME NEW variant \in {"v1", "v2"}, NEW late, NEW m \in Nat, Recent(variant, late) = 0 .. m
    PROVE  VerdictCount(variant, late) = CallsUpTo(m, Failing(variant))
<1> DEFINE S == 0 .. m
           w == [i \in S |-> ModelCalls(variant, i)]
           Body(iter) == [s \in SUBSET S |-> IF s = {} THEN 0
                             ELSE ModelCalls(variant, CHOOSE x \in s : TRUE) + iter[s \ {CHOOSE x \in s : TRUE}]]
           sum == CHOOSE iter : iter = Body(iter)
<1>0. \A i \in S : ModelCalls(variant, i) \in Nat
  BY DEF ModelCalls
<1>1. IsFiniteSet(S) /\ w \in [S -> Nat]
  <2>1. IsFiniteSet(S)
    BY FS_Interval
  <2>. QED
    BY <1>0, <2>1
<1>2. PICK g \in [SUBSET S -> Nat] : SumsUp(g, S, w)
  <2>. HIDE DEF w, S
  <2>. QED
    BY <1>1, SumExists
<1>3. \A s \in SUBSET S : s # {} => Chosen(s) \in S
  BY DEF Chosen
<1>4. g = Body(g)
  <2>. HIDE DEF S
  <2>1. ASSUME NEW s \in SUBSET S
        PROVE  g[s] = IF s = {} THEN 0
                      ELSE ModelCalls(variant, CHOOSE x \in s : TRUE) + g[s \ {CHOOSE x \in s : TRUE}]
    BY <1>2, <1>3 DEF SumsUp, Chosen
  <2>. QED
    BY <1>2, <2>1
<1>5. sum = Body(sum)
  <2>. HIDE DEF Body
  <2>. QED
    BY <1>4
<1>6. \A s \in SUBSET S : sum[s] = IF s = {} THEN 0
              ELSE ModelCalls(variant, CHOOSE x \in s : TRUE) + sum[s \ {CHOOSE x \in s : TRUE}]
  <2>. HIDE DEF sum, S
  <2>. QED
    BY <1>5
<1>7. VerdictCount(variant, late) = sum[S]
  BY DEF sum, VerdictCount, MapThenSumSet, MapThenFoldSet
<1>. HIDE DEF sum
<1>8. SumsUp(sum, S, w)
  <2>. HIDE DEF S
  <2>. QED
    BY <1>3, <1>6 DEF SumsUp, Chosen
<1>9. Sums(sum, S, w)
  <2>. HIDE DEF w, Body, S
  <2>. QED
    BY <1>1, <1>8, SumIsSum
<1>10. Failing(variant) \in Nat /\ ThreeButOne(w, S, Failing(variant))
  BY DEF Failing, ModelCalls, HardFailure, ThreeButOne
<1>11. sum[S] = CallsUpTo(m, Failing(variant))
  <2>1. S = 0 .. m
    OBVIOUS
  <2>. HIDE DEF w, Body, S
  <2>. QED
    BY <1>9, <1>10, <2>1, CallsOfPrefix
<1>. QED
  BY <1>7, <1>11

\* The refusals among the newest traces of a variant.
RefusedUpTo(variant, m) == {i \in 0 .. m : Refusal(variant, i) /\ ~HardFailure(variant, i)}

LEMMA FewOfFirst ==
    ASSUME NEW m \in 3 .. 11
    PROVE  Cardinality(RefusedUpTo("v1", m)) = IF m < 7 THEN 0 ELSE 1
<1>1. CASE m < 7
  <2>1. RefusedUpTo("v1", m) = {}
    BY <1>1 DEF RefusedUpTo, Refusal
  <2>. QED
    BY <1>1, <2>1, FS_EmptySet
<1>2. CASE ~(m < 7)
  <2>1. RefusedUpTo("v1", m) = {7}
    BY <1>2 DEF RefusedUpTo, Refusal, HardFailure
  <2>. QED
    BY <1>2, <2>1, FS_Singleton
<1>. QED
  BY <1>1, <1>2

LEMMA ManyOfSecond ==
    ASSUME NEW m \in 3 .. 11
    PROVE  Cardinality(RefusedUpTo("v2", m)) = IF m < 5 THEN 3 ELSE IF m < 8 THEN 4
                                           ELSE IF m = 8 THEN 5 ELSE IF m < 11 THEN 6 ELSE 7
<1>1. IsFiniteSet({0}) /\ Cardinality({0}) = 1
  BY FS_Singleton
<1>2. IsFiniteSet({0, 2}) /\ Cardinality({0, 2}) = 2
  <2>. {0, 2} = {0} \cup {2}  OBVIOUS
  <2>. QED  BY <1>1, FS_AddElement
<1>3. IsFiniteSet({0, 2, 3}) /\ Cardinality({0, 2, 3}) = 3
  <2>. {0, 2, 3} = {0, 2} \cup {3} /\ 3 \notin {0, 2}  OBVIOUS
  <2>. QED  BY <1>2, FS_AddElement
<1>4. IsFiniteSet({0, 2, 3, 5}) /\ Cardinality({0, 2, 3, 5}) = 4
  <2>. {0, 2, 3, 5} = {0, 2, 3} \cup {5}  OBVIOUS
  <2>. QED  BY <1>3, FS_AddElement
<1>5. IsFiniteSet({0, 2, 3, 5, 8}) /\ Cardinality({0, 2, 3, 5, 8}) = 5
  <2>. {0, 2, 3, 5, 8} = {0, 2, 3, 5} \cup {8}  OBVIOUS
  <2>. QED  BY <1>4, FS_AddElement
<1>6. IsFiniteSet({0, 2, 3, 5, 8, 9}) /\ Cardinality({0, 2, 3, 5, 8, 9}) = 6
  <2>. {0, 2, 3, 5, 8, 9} = {0, 2, 3, 5, 8} \cup {9}  OBVIOUS
  <2>. QED  BY <1>5, FS_AddElement
<1>7. IsFiniteSet({0, 2, 3, 5, 8, 9, 11}) /\ Cardinality({0, 2, 3, 5, 8, 9, 11}) = 7
  <2>. {0, 2, 3, 5, 8, 9, 11} = {0, 2, 3, 5, 8, 9} \cup {11}  OBVIOUS
  <2>. QED  BY <1>6, FS_AddElement
<1>8. RefusedUpTo("v2", m) = {i \in {0, 2, 3, 5, 8, 9, 11} : i <= m}
  BY DEF RefusedUpTo, Refusal, HardFailure
<1>9. CASE m < 5
  <2>. RefusedUpTo("v2", m) = {0, 2, 3}  BY <1>8, <1>9
  <2>. QED  BY <1>3, <1>9
<1>10. CASE m \in 5 .. 7
  <2>. RefusedUpTo("v2", m) = {0, 2, 3, 5}  BY <1>8, <1>10
  <2>. QED  BY <1>4, <1>10
<1>11. CASE m = 8
  <2>. RefusedUpTo("v2", m) = {0, 2, 3, 5, 8}  BY <1>8, <1>11
  <2>. QED  BY <1>5, <1>11
<1>12. CASE m \in 9 .. 10
  <2>. RefusedUpTo("v2", m) = {0, 2, 3, 5, 8, 9}  BY <1>8, <1>12
  <2>. QED  BY <1>6, <1>12
<1>13. CASE m = 11
  <2>. RefusedUpTo("v2", m) = {0, 2, 3, 5, 8, 9, 11}  BY <1>8, <1>13
  <2>. QED  BY <1>7, <1>13
<1>. QED
  BY <1>9, <1>10, <1>11, <1>12, <1>13

\* At least 21 of 22 results pass for the first variant, at most 18 for the second.
LEMMA RatesDiffer ==
    ASSUME NEW n1 \in Nat, NEW n2 \in Nat, n1 >= 10, n2 >= 10, NEW p1 \in Int, NEW p2 \in Int,
           22 * p1 >= 21 * n1, 22 * p2 <= 18 * n2
    PROVE  10 * (p1 * n2 - p2 * n1) > n1 * n2
<1>1. (22 * p1 - 21 * n1) * n2 >= 0
  OBVIOUS
<1>2. (18 * n2 - 22 * p2) * n1 >= 0
  OBVIOUS
<1>3. n1 * n2 > 0
  OBVIOUS
<1>4. /\ (22 * p1 - 21 * n1) * n2 = 22 * (p1 * n2) - 21 * (n1 * n2)
      /\ (18 * n2 - 22 * p2) * n1 = 18 * (n1 * n2) - 22 * (p2 * n1)
  OBVIOUS
<1>5. p1 * n2 \in Int /\ p2 * n1 \in Int /\ n1 * n2 \in Int
  OBVIOUS
<1>. QED
  BY <1>1, <1>2, <1>3, <1>4, <1>5

LEMMA StoryVisible == ASSUME hours \in Nat PROVE RegressionVisible
<1>. SUFFICES ASSUME hours <= 17, NEW late1 \in BOOLEAN, NEW late2 \in BOOLEAN
              PROVE  LET n1 == VerdictCount("v1", late1)  p1 == PassedOf("v1", late1)
                         n2 == VerdictCount("v2", late2)  p2 == PassedOf("v2", late2)
                     IN  /\ n1 >= 10 /\ n2 >= 10
                         /\ 10 * (p1 * n2 - p2 * n1) > n1 * n2
  BY DEF RegressionVisible
<1>1. PICK m \in 3 .. 11 : Recent("v1", late1) = 0 .. m
  BY RecentIsPrefix
<1>2. PICK k \in 3 .. 11 : Recent("v2", late2) = 0 .. k
  BY RecentIsPrefix
<1> DEFINE n1 == VerdictCount("v1", late1)  p1 == PassedOf("v1", late1)
           n2 == VerdictCount("v2", late2)  p2 == PassedOf("v2", late2)
<1>3. n1 = 3 * (m + 1) - IF 4 <= m THEN 2 ELSE 0
  BY <1>1, VerdictsOfPrefix DEF Failing, CallsUpTo
<1>4. n2 = 3 * (k + 1) - IF 6 <= k THEN 2 ELSE 0
  BY <1>2, VerdictsOfPrefix DEF Failing, CallsUpTo
<1>5. p1 = n1 - IF m < 7 THEN 0 ELSE 1
  BY <1>1, FewOfFirst DEF PassedOf, RefusedUpTo
<1>6. p2 = n2 - IF k < 5 THEN 3 ELSE IF k < 8 THEN 4 ELSE IF k = 8 THEN 5 ELSE IF k < 11 THEN 6 ELSE 7
  BY <1>2, ManyOfSecond DEF PassedOf, RefusedUpTo
<1>. HIDE DEF n1, n2, p1, p2
<1>7. n1 \in Nat /\ n1 >= 10 /\ p1 \in Int /\ 22 * p1 >= 21 * n1
  BY <1>3, <1>5
<1>8. n2 \in Nat /\ n2 >= 10 /\ p2 \in Int /\ 22 * p2 <= 18 * n2
  BY <1>4, <1>6
<1>9. 10 * (p1 * n2 - p2 * n1) > n1 * n2
  BY <1>7, <1>8, RatesDiffer
<1>. QED
  BY <1>7, <1>8, <1>9 DEF n1, n2, p1, p2

\* Whatever is drawn, every trace of the demo looks recorded; and wherever runs of the
\* seeder fail and however often it is started, there is one corpus or a part of one,
\* which tells its story.
THEOREM DemoIsWhole == CorpusSpec /\ SeedSpec => DemoDataSound
<1>1. CorpusInit => LaidInv
  BY DrawAssumption DEF CorpusInit, LaidInv, OnlyFetchesOverlap
<1>2. SeedInit => SeedInv
  BY DEF SeedInit, SeedInv, NoOrphanContent, CorpusRows
<1>3. LaidInv /\ [CorpusNext]_corpusVars => LaidInv'
  BY CorpusKeeps
<1>4. SeedInv /\ [SeedNext]_seedVars => SeedInv'
  BY SeedKeeps
<1>5. LaidInv /\ stage # "done" => SpansNest
  BY DEF SpansNest
<1>6. LaidInv => LooksRecorded
  BY <1>5 DEF LaidInv, LooksRecorded
<1>7. SeedInv => NoOrphanContent /\ OneTimeline /\ RegressionVisible
  BY OneTimelineOnly, StoryVisible DEF SeedInv
<1>9. LaidInv' => LooksRecorded'
  BY <1>6, PTL
<1>10. SeedInv' => NoOrphanContent' /\ OneTimeline' /\ RegressionVisible'
  BY <1>7, PTL
<1>8. LaidInv' /\ SeedInv /\ SeedInv' /\ [SeedNext]_seedVars
          => [LooksRecorded' /\ CorpusWhole]_<<corpusVars, seedVars>>
  <2>. SUFFICES ASSUME LaidInv', SeedInv, SeedInv', [SeedNext]_seedVars
                PROVE  LooksRecorded' /\ CorpusWhole
    OBVIOUS
  <2>1. LooksRecorded'
    BY <1>9
  <2>2. NoOrphanContent' /\ OneTimeline' /\ RegressionVisible'
    BY <1>10
  <2>3. ResetLeavesOneCorpus
    BY ResetLeavesOne
  <2>. QED
    BY <2>1, <2>2, <2>3 DEF CorpusWhole
<1>. QED
  BY <1>1, <1>2, <1>3, <1>4, <1>8, PTL DEF CorpusSpec, SeedSpec, DemoDataSound

======================================================================================
