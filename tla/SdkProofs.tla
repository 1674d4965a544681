--------------------------------- MODULE SdkProofs -----------------------------------
(***************************************************************************)
(* The SDKs and what becomes of their spans: RuntimeTransparent,           *)
(* WaterfallSound, HooksBalanced, ContentMoves and FeedbackCounts for any  *)
(* number of calls, runs, instrumentors, spans and scores, in any order.   *)
(***************************************************************************)
EXTENDS SdkRuntime, Telemetry, PyRuntime, Enrichment, Feedback, FoldLemmas

(***************************************************************************)
(* The runtime of the TypeScript SDK.                                      *)
(***************************************************************************)

\* Unless the last shutdown to end has failed, what is registered with the API is
\* the provider that is set or one that is closing; there is a tracer exactly while
\* a provider is set, and calls awaited with the tracer gone are those during which
\* shutdown() was called.
RuntimeSound ==
    /\ ended # "rejected" => registered \in {0, provider} \cup closing
    /\ provider = 0 <=> tracer = 0
    /\ \A c \in Calls :
           /\ callPhase[c] = "awaiting" /\ tracer = 0 => c \in upset
           /\ callPhase[c] = "idle" => answer[c] = "none"

RuntimeInv == RuntimeTypeOK /\ RuntimeSound /\ TransparentWhileUp /\ TracerIsLive

LEMMA RuntimeInvInit == ASSUME MaxInits \in Nat PROVE RuntimeInit => RuntimeInv
BY DEF RuntimeInit, RuntimeInv, RuntimeTypeOK, RuntimeSound, TransparentWhileUp, TracerIsLive,
       Endings

LEMMA RuntimeTypeNext ==
    ASSUME MaxInits \in Nat
    PROVE  RuntimeTypeOK /\ [RuntimeNext]_runtimeVars => RuntimeTypeOK'
<1>. SUFFICES ASSUME RuntimeTypeOK, [RuntimeNext]_runtimeVars PROVE RuntimeTypeOK'
  OBVIOUS
<1>. USE DEF RuntimeTypeOK, callVars, sdkVars
<1>1. CASE InitSdk
  BY <1>1 DEF InitSdk
<1>2. CASE Shutdown
  BY <1>2 DEF Shutdown, Awaiting
<1>3. ASSUME NEW p \in closing, ShutdownDone(p) PROVE RuntimeTypeOK'
  BY <1>3 DEF ShutdownDone
<1>4. ASSUME NEW p \in closing, ShutdownFails(p) PROVE RuntimeTypeOK'
  BY <1>4 DEF ShutdownFails
<1>5. ASSUME NEW c \in Calls, StartCall(c) PROVE RuntimeTypeOK'
  BY <1>5 DEF StartCall
<1>6. ASSUME NEW c \in Calls, StartUninitialized(c) PROVE RuntimeTypeOK'
  BY <1>6 DEF StartUninitialized
<1>7. ASSUME NEW c \in Calls, Resolve(c) PROVE RuntimeTypeOK'
  BY <1>7 DEF Resolve, Settle, Endings
<1>8. ASSUME NEW c \in Calls, Reject(c) PROVE RuntimeTypeOK'
  BY <1>8 DEF Reject, Settle, Endings
<1>9. CASE UNCHANGED runtimeVars
  BY <1>9 DEF runtimeVars
<1>. QED
  BY <1>1, <1>2, <1>3, <1>4, <1>5, <1>6, <1>7, <1>8, <1>9 DEF RuntimeNext

LEMMA RuntimeInvNext ==
    ASSUME MaxInits \in Nat
    PROVE  RuntimeInv /\ [RuntimeNext]_runtimeVars => RuntimeInv'
<1>. SUFFICES ASSUME RuntimeInv, [RuntimeNext]_runtimeVars
              PROVE RuntimeSound' /\ TransparentWhileUp' /\ TracerIsLive'
  BY RuntimeTypeNext DEF RuntimeInv
<1>. USE DEF RuntimeInv, RuntimeTypeOK, RuntimeSound, TransparentWhileUp, TracerIsLive,
             sdkVars, callVars
\* register() is refused only while a shutdown is awaited, or after one that failed.
<1>1. CASE InitSdk
  <2>1. provider' # 0 /\ tracer' # 0
    BY <1>1 DEF InitSdk
  <2>2. clean' => tracer' = provider'
    BY <1>1 DEF InitSdk
  <2>. QED
    BY <1>1, <2>1, <2>2 DEF InitSdk
<1>2. CASE Shutdown
  BY <1>2 DEF Shutdown, Awaiting
<1>3. ASSUME NEW p \in closing, ShutdownDone(p)
      PROVE RuntimeSound' /\ TransparentWhileUp' /\ TracerIsLive'
  BY <1>3 DEF ShutdownDone
<1>4. ASSUME NEW p \in closing, ShutdownFails(p)
      PROVE RuntimeSound' /\ TransparentWhileUp' /\ TracerIsLive'
  BY <1>4 DEF ShutdownFails
<1>5. ASSUME NEW c \in Calls, StartCall(c)
      PROVE RuntimeSound' /\ TransparentWhileUp' /\ TracerIsLive'
  BY <1>5 DEF StartCall
<1>6. ASSUME NEW c \in Calls, StartUninitialized(c)
      PROVE RuntimeSound' /\ TransparentWhileUp' /\ TracerIsLive'
  BY <1>6 DEF StartUninitialized
\* recordResponse finds the state gone only if shutdown() came meanwhile.
<1>7. ASSUME NEW c \in Calls, Resolve(c)
      PROVE RuntimeSound' /\ TransparentWhileUp' /\ TracerIsLive'
  <2>1. CASE c \in Chats /\ tracer = 0
    BY <1>7, <2>1 DEF Resolve, Settle
  <2>2. CASE ~(c \in Chats /\ tracer = 0)
    BY <1>7, <2>2 DEF Resolve, Settle
  <2>. QED
    BY <2>1, <2>2
<1>8. ASSUME NEW c \in Calls, Reject(c)
      PROVE RuntimeSound' /\ TransparentWhileUp' /\ TracerIsLive'
  BY <1>8 DEF Reject, Settle
<1>9. CASE UNCHANGED runtimeVars
  BY <1>9 DEF runtimeVars
<1>. QED
  BY <1>1, <1>2, <1>3, <1>4, <1>5, <1>6, <1>7, <1>8, <1>9 DEF RuntimeNext

\* The application gets from a wrapped call what the provider answered, and spans
\* go to a provider that exports them (openai.ts, agent.ts, tracer.ts).
THEOREM Transparent == ASSUME MaxInits \in Nat PROVE RuntimeSpec => []RuntimeTransparent
<1>1. RuntimeInv => RuntimeTransparent
  BY DEF RuntimeInv, RuntimeTransparent
<1>. QED BY <1>1, RuntimeInvInit, RuntimeInvNext, PTL DEF RuntimeSpec

(***************************************************************************)
(* Runs of the AI SDK.                                                     *)
(***************************************************************************)

\* A sum of numbers is a number, and no less than any of them.
LEMMA SumBounds ==
    ASSUME NEW S, IsFiniteSet(S), NEW f \in [S -> Nat]
    PROVE  /\ Total(f) \in Nat
           /\ \A c \in S : f[c] <= Total(f)
<1> DEFINE Body(iter) == [s \in SUBSET S |-> IF s = {} THEN 0
                             ELSE f[CHOOSE x \in s : TRUE] + iter[s \ {CHOOSE x \in s : TRUE}]]
           sum == CHOOSE iter : iter = Body(iter)
<1>1. PICK g \in [SUBSET S -> Nat] : SumsUp(g, S, f)
  BY SumExists
<1>2. g = Body(g)
  BY <1>1 DEF SumsUp, Chosen
<1>3. sum = Body(sum)
  <2>. HIDE DEF Body
  <2>. QED
    BY <1>2
<1>4. \A s \in SUBSET S : sum[s] = IF s = {} THEN 0
                             ELSE f[CHOOSE x \in s : TRUE] + sum[s \ {CHOOSE x \in s : TRUE}]
  <2>. HIDE DEF sum
  <2>. QED
    BY <1>3
<1>5. Total(f) = sum[S]
  BY DEF sum, Total, FoldFunction, FoldFunctionOnSet, MapThenFoldSet
<1>. HIDE DEF sum
<1>6. SumsUp(sum, S, f)
  BY <1>4 DEF SumsUp, Chosen
<1>7. Sums(sum, S, f)
  BY <1>6, SumIsSum
<1>8. ASSUME NEW c \in S PROVE f[c] <= sum[S]
  <2>1. sum[S] = f[c] + sum[S \ {c}] /\ sum[S \ {c}] \in Nat
    BY <1>7 DEF Sums
  <2>2. f[c] \in Nat
    OBVIOUS
  <2>. QED
    BY <2>1, <2>2
<1>9. sum[S] \in Nat
  BY <1>7 DEF Sums
<1>. QED
  BY <1>5, <1>8, <1>9

\* The spans: their kinds and what tells them apart.
LEMMA IdsApart ==
    /\ \A c, d, k, l, n, m : Id(c, k, n) = Id(d, l, m) <=> c = d /\ k = l /\ n = m
    /\ \A c, k, n : Id(c, k, n).op = c /\ Id(c, k, n).kind = k /\ Id(c, k, n).n = n
BY DEF Id

LEMMA SpansAre ==
    /\ \A c \in Ops : Agent(c) \in SpanIds
    /\ \A c \in Ops, n \in 1 .. MaxModelSteps :
           Id(c, "step", n) \in SpanIds /\ Id(c, "chat", n) \in SpanIds
    /\ \A c \in Ops, n \in 1 .. MaxTools : Id(c, "tool", n) \in SpanIds
    /\ \A s \in SpanIds : /\ s.op \in Ops
                          /\ s = Id(s.op, s.kind, s.n)
                          /\ s.kind = "agent" => s = Agent(s.op)
    /\ NoContext \notin SpanIds
<1>1. \A c \in Ops : Agent(c) \in SpanIds
  BY DEF SpanIds
<1>2. \A c \in Ops, n \in 1 .. MaxModelSteps :
         Id(c, "step", n) \in SpanIds /\ Id(c, "chat", n) \in SpanIds
  BY DEF SpanIds
<1>3. \A c \in Ops, n \in 1 .. MaxTools : Id(c, "tool", n) \in SpanIds
  BY DEF SpanIds
<1>4. ASSUME NEW s \in SpanIds
      PROVE  /\ s.op \in Ops
             /\ s = Id(s.op, s.kind, s.n)
             /\ s.kind = "agent" => s = Agent(s.op)
             /\ s # NoContext
  <2>1. PICK c \in Ops : s \in {Agent(c)} \cup {Id(c, k, n) : k \in {"step", "chat"}, n \in 1 .. MaxModelSteps}
                              \cup {Id(c, "tool", n) : n \in 1 .. MaxTools}
    BY DEF SpanIds
  <2>2. CASE s = Agent(c)
    BY <2>2, IdsApart DEF Agent, NoContext
  <2>3. ASSUME NEW k \in {"step", "chat"}, NEW n \in 1 .. MaxModelSteps, s = Id(c, k, n)
        PROVE  /\ s.op \in Ops
               /\ s = Id(s.op, s.kind, s.n)
               /\ s.kind # "agent"
               /\ s # NoContext
    BY <2>3, IdsApart DEF NoContext
  <2>4. ASSUME NEW n \in 1 .. MaxTools, s = Id(c, "tool", n)
        PROVE  /\ s.op \in Ops
               /\ s = Id(s.op, s.kind, s.n)
               /\ s.kind # "agent"
               /\ s # NoContext
    BY <2>4, IdsApart DEF NoContext
  <2>. QED
    BY <2>1, <2>2, <2>3, <2>4
<1>. QED
  BY <1>1, <1>2, <1>3, <1>4

\* Where the AI SDK is in an operation tells what vercel.ts holds for it.
Bracketed(c) ==
    /\ numbered[c] \subseteq 1 .. step[c]
    /\ pending[c] \subseteq 1 .. toolsAsked[c]
    /\ at[c] \in {"idle", "run"} => current[c] = NoContext /\ steps[c] = {}
    /\ at[c] \in {"step", "model", "tools", "failed"} =>
           /\ step[c] > 0
           /\ IF step[c] \in numbered[c]
              THEN current[c] = Id(c, "step", step[c]) /\ steps[c] = {Id(c, "step", step[c])}
              ELSE current[c] = NoContext /\ steps[c] = {}
    /\ at[c] \in {"idle", "run", "step", "tools"} => stack[c] = <<>>
    /\ at[c] \in {"model", "failed"} => stack[c] = <<Id(c, "chat", step[c])>>
    /\ toolSpans[c] \subseteq {Id(c, "tool", n) : n \in pending[c]}
    /\ at[c] # "tools" => toolSpans[c] = {}
    /\ at[c] = "idle" => c \notin live
    /\ at[c] \in {"run", "step", "model", "tools", "failed"} => c \in live
    /\ OpenSpans(c) \subseteq SpansOf(c)
    /\ c \notin live => OpenSpans(c) = {}

\* The spans held for an operation, and its own, are those that are open.
HeldAreOpen(c) ==
    \A s \in SpansOf(c) : status[s] = "open" <=> (c \in live /\ s = Agent(c)) \/ s \in OpenSpans(c)

\* Spans still to come are absent.
ToCome(c) ==
    \A s \in SpansOf(c) :
        /\ at[c] = "idle" => status[s] = "absent"
        /\ s.kind \in {"step", "chat"} /\ s.n > step[c] => status[s] = "absent"
        /\ at[c] = "step" /\ s = Id(c, "chat", step[c]) => status[s] = "absent"

ShownOf(c) ==
    \A s \in SpansOf(c) : status[s] # "absent" /\ s.kind # "agent" =>
        /\ parent[s] \in SpansOf(c)
        /\ s.kind = "chat" => parent[s] = IF s.n \in numbered[c] THEN Id(c, "step", s.n) ELSE Agent(c)

Sound(c) == Bracketed(c) /\ HeldAreOpen(c) /\ ToCome(c) /\ ShownOf(c)

TelemetryInv == TelemetryTypeOK /\ \A c \in Ops : Sound(c)

\* An action of c leaves the other operations alone.
Alone(c) ==
    \A d \in Ops \ {c} :
        /\ at'[d] = at[d] /\ step'[d] = step[d] /\ numbered'[d] = numbered[d]
        /\ pending'[d] = pending[d] /\ toolsAsked'[d] = toolsAsked[d]
        /\ (d \in live') = (d \in live)
        /\ current'[d] = current[d] /\ steps'[d] = steps[d]
        /\ stack'[d] = stack[d] /\ toolSpans'[d] = toolSpans[d]
        /\ \A s \in SpansOf(d) : status'[s] = status[s] /\ parent'[s] = parent[s]

LEMMA OthersSound ==
    ASSUME NEW c \in Ops, NEW d \in Ops \ {c}, Sound(d), Alone(c)
    PROVE  Sound(d)'
<1>1. /\ at'[d] = at[d] /\ step'[d] = step[d] /\ numbered'[d] = numbered[d]
      /\ pending'[d] = pending[d] /\ toolsAsked'[d] = toolsAsked[d]
      /\ (d \in live') = (d \in live)
      /\ current'[d] = current[d] /\ steps'[d] = steps[d]
      /\ stack'[d] = stack[d] /\ toolSpans'[d] = toolSpans[d]
  BY DEF Alone
<1>2. \A s \in SpansOf(d) : status'[s] = status[s] /\ parent'[s] = parent[s]
  BY DEF Alone
<1>3. OpenSpans(d)' = OpenSpans(d) /\ SpansOf(d)' = SpansOf(d)
  BY <1>1 DEF OpenSpans, SpansOf
<1>4. Bracketed(d)'
  BY <1>1, <1>3 DEF Sound, Bracketed
<1>5. HeldAreOpen(d)'
  BY <1>1, <1>2, <1>3 DEF Sound, HeldAreOpen
<1>6. ToCome(d)'
  BY <1>1, <1>2, <1>3 DEF Sound, ToCome
<1>7. ShownOf(d)'
  BY <1>1, <1>2, <1>3 DEF Sound, ShownOf
<1>. QED
  BY <1>4, <1>5, <1>6, <1>7 DEF Sound

LEMMA TelemetryInvInit == TelemetryInit => TelemetryInv
<1>. SUFFICES ASSUME TelemetryInit PROVE TelemetryInv
  OBVIOUS
<1>1. TelemetryTypeOK
  BY TelemetryAssumption DEF TelemetryInit, TelemetryTypeOK
<1>2. ASSUME NEW c \in Ops PROVE Sound(c)
  <2>1. OpenSpans(c) = {}
    BY DEF TelemetryInit, OpenSpans
  <2>2. Bracketed(c)
    BY <2>1 DEF TelemetryInit, Bracketed
  <2>3. HeldAreOpen(c) /\ ToCome(c) /\ ShownOf(c)
    BY <2>1 DEF TelemetryInit, HeldAreOpen, ToCome, ShownOf, SpansOf
  <2>. QED
    BY <2>2, <2>3 DEF Sound
<1>. QED
  BY <1>1, <1>2 DEF TelemetryInv

\* A span that starts, absent before, under an open one or none.
LEMMA SpanStarts ==
    ASSUME TelemetryTypeOK, NEW s \in SpanIds, NEW under \in SpanIds \cup {NoContext},
           status[s] = "absent", under = NoContext \/ status[under] = "open", StartSpan(s, under)
    PROVE  /\ OnlyOpenParents /\ EndsOnce
           /\ \A t \in SpanIds : /\ status'[t] = IF t = s THEN "open" ELSE status[t]
                                 /\ parent'[t] = IF t = s THEN under ELSE parent[t]
           /\ status' \in [SpanIds -> {"absent", "open", "OK", "ERROR", "UNSET"}]
           /\ parent' \in [SpanIds -> SpanIds \cup {NoContext}]
<1>1. \A t \in SpanIds : /\ status'[t] = IF t = s THEN "open" ELSE status[t]
                         /\ parent'[t] = IF t = s THEN under ELSE parent[t]
  BY DEF StartSpan, TelemetryTypeOK
<1>2. /\ status' \in [SpanIds -> {"absent", "open", "OK", "ERROR", "UNSET"}]
      /\ parent' \in [SpanIds -> SpanIds \cup {NoContext}]
  BY DEF StartSpan, TelemetryTypeOK
<1>3. OnlyOpenParents /\ EndsOnce
  BY <1>1 DEF OnlyOpenParents, EndsOnce
<1>. QED
  BY <1>1, <1>2, <1>3

\* Open spans that end.
LEMMA SpansEnd ==
    ASSUME TelemetryTypeOK, NEW S, NEW code \in {"OK", "ERROR"},
           \A s \in S \cap SpanIds : status[s] = "open", Ends(S, code)
    PROVE  /\ OnlyOpenParents /\ EndsOnce
           /\ \A t \in SpanIds : /\ status'[t] = IF t \in S THEN code ELSE status[t]
                                 /\ parent'[t] = parent[t]
           /\ status' \in [SpanIds -> {"absent", "open", "OK", "ERROR", "UNSET"}]
           /\ parent' \in [SpanIds -> SpanIds \cup {NoContext}]
<1>1. \A t \in SpanIds : /\ status'[t] = IF t \in S THEN code ELSE status[t]
                         /\ parent'[t] = parent[t]
  BY DEF Ends
<1>2. /\ status' \in [SpanIds -> {"absent", "open", "OK", "ERROR", "UNSET"}]
      /\ parent' \in [SpanIds -> SpanIds \cup {NoContext}]
  BY DEF Ends, TelemetryTypeOK
<1>3. OnlyOpenParents /\ EndsOnce
  BY <1>1 DEF OnlyOpenParents, EndsOnce
<1>. QED
  BY <1>1, <1>2, <1>3

\* What an action of c has to do.
Keeps(c) == TelemetryTypeOK' /\ Alone(c) /\ Sound(c)' /\ OnlyOpenParents /\ EndsOnce

LEMMA QuietSpans ==
    ASSUME UNCHANGED <<status, parent>> PROVE OnlyOpenParents /\ EndsOnce
BY DEF OnlyOpenParents, EndsOnce

\* Only at[c] changes, to one from which nothing is said of more spans.
LEMMA KeepsOver ==
    ASSUME TelemetryInv, NEW c \in Ops, OnStartOther(c) \/ ModelCallThrows(c) \/ Abandon(c)
    PROVE  Keeps(c)
<1>. USE DEF OnStartOther, ModelCallThrows, Abandon, data
<1>1. Sound(c) /\ TelemetryTypeOK
  BY DEF TelemetryInv
<1>2. OnlyOpenParents /\ EndsOnce
  BY QuietSpans
<1>3. TelemetryTypeOK'
  BY <1>1 DEF TelemetryTypeOK
<1>4. Alone(c)
  BY <1>1 DEF Alone, TelemetryTypeOK
<1>5. OpenSpans(c)' = OpenSpans(c) /\ SpansOf(c)' = SpansOf(c)
  BY DEF OpenSpans, SpansOf
<1>6. at'[c] = "over" \/ (at[c] = "model" /\ at'[c] = "failed")
  BY <1>1 DEF TelemetryTypeOK
<1>7. Bracketed(c)'
  BY <1>1, <1>5, <1>6 DEF Bracketed, Sound
<1>8. HeldAreOpen(c)' /\ ToCome(c)' /\ ShownOf(c)'
  BY <1>1, <1>5, <1>6 DEF HeldAreOpen, ToCome, ShownOf, Sound
<1>. QED
  BY <1>2, <1>3, <1>4, <1>7, <1>8 DEF Keeps, Sound

LEMMA KeepsStart ==
    ASSUME TelemetryInv, NEW c \in Ops, NEW ctx \in Contexts(c), OnStart(c, ctx)
    PROVE  Keeps(c)
<1>1. Sound(c) /\ TelemetryTypeOK
  BY DEF TelemetryInv
<1>2. Agent(c) \in SpanIds /\ Agent(c).op = c /\ Agent(c) \in SpansOf(c)
  BY SpansAre, IdsApart DEF Agent, SpansOf
<1>3. status[Agent(c)] = "absent"
  BY <1>1, <1>2 DEF OnStart, Sound, ToCome
<1>4. ctx \in SpanIds \cup {NoContext} /\ (ctx = NoContext \/ status[ctx] = "open")
  <2>. SUFFICES ASSUME ctx # NoContext PROVE ctx \in SpanIds /\ status[ctx] = "open"
    OBVIOUS
  <2>1. PICK d \in live : ctx \in OpenSpans(d)
    BY DEF Contexts, OpenSpans
  <2>2. Sound(d)
    BY <1>1, <2>1 DEF TelemetryInv, TelemetryTypeOK
  <2>. QED
    BY <2>1, <2>2 DEF Sound, Bracketed, HeldAreOpen, SpansOf
<1>5. /\ OnlyOpenParents /\ EndsOnce
      /\ \A t \in SpanIds : /\ status'[t] = IF t = Agent(c) THEN "open" ELSE status[t]
                            /\ parent'[t] = IF t = Agent(c) THEN ctx ELSE parent[t]
      /\ status' \in [SpanIds -> {"absent", "open", "OK", "ERROR", "UNSET"}]
      /\ parent' \in [SpanIds -> SpanIds \cup {NoContext}]
  BY <1>1, <1>2, <1>3, <1>4, SpanStarts DEF OnStart
<1>6. TelemetryTypeOK'
  BY <1>1, <1>5 DEF OnStart, TelemetryTypeOK
<1>7. Alone(c)
  BY <1>1, <1>2, <1>5 DEF OnStart, Alone, TelemetryTypeOK, SpansOf
<1>8. OpenSpans(c)' = OpenSpans(c) /\ SpansOf(c)' = SpansOf(c)
  BY DEF OnStart, OpenSpans, SpansOf
<1>9. /\ at[c] = "idle" /\ at'[c] = "run" /\ c \in live' /\ c \notin live
      /\ UNCHANGED <<step, numbered, pending, toolsAsked, current, steps, stack, toolSpans>>
  BY <1>1 DEF OnStart, TelemetryTypeOK, Sound, Bracketed
<1>10. Bracketed(c)'
  BY <1>1, <1>8, <1>9 DEF Bracketed, Sound
<1>11. OpenSpans(c) = {}
  BY <1>1, <1>9 DEF Sound, Bracketed
<1>12. \A t \in SpansOf(c) : t \in SpanIds /\ status[t] = "absent"
  BY <1>1, <1>9 DEF Sound, ToCome, SpansOf
<1>13. HeldAreOpen(c)'
  BY <1>5, <1>8, <1>9, <1>11, <1>12 DEF HeldAreOpen
<1>14. Agent(c).kind = "agent"
  BY IdsApart DEF Agent
<1>15. \A n : Agent(c) # Id(c, "chat", n)
  BY IdsApart DEF Agent
<1>16. ToCome(c)' /\ ShownOf(c)'
  BY <1>5, <1>8, <1>9, <1>12, <1>14, <1>15 DEF ToCome, ShownOf
<1>. QED
  BY <1>5, <1>6, <1>7, <1>10, <1>13, <1>16 DEF Keeps, Sound

\* The bound on all operations bounds each.
LEMMA RoomForStep ==
    ASSUME TelemetryTypeOK, NEW c \in Ops, Total(step) < MaxModelSteps
    PROVE  step[c] + 1 \in 1 .. MaxModelSteps
<1>1. step \in [Ops -> Nat]
  BY DEF TelemetryTypeOK
<1>2. Total(step) \in Nat /\ step[c] <= Total(step)
  BY <1>1, SumBounds, TelemetryAssumption
<1>3. step[c] \in Nat
  BY <1>1
<1>. QED
  BY <1>2, <1>3, TelemetryAssumption

LEMMA RoomForTools ==
    ASSUME TelemetryTypeOK, NEW c \in Ops, NEW n \in 0 .. MaxTools,
           Total(toolsAsked) + n <= MaxTools
    PROVE  toolsAsked[c] \in Nat /\ toolsAsked[c] + n \in 0 .. MaxTools
<1>1. toolsAsked \in [Ops -> Nat]
  BY DEF TelemetryTypeOK
<1>2. Total(toolsAsked) \in Nat /\ toolsAsked[c] <= Total(toolsAsked)
  BY <1>1, SumBounds, TelemetryAssumption
<1>3. toolsAsked[c] \in Nat
  BY <1>1
<1>. QED
  BY <1>2, <1>3, TelemetryAssumption

LEMMA KeepsStepStart ==
    ASSUME TelemetryInv, NEW c \in Ops, NEW hasNumber \in BOOLEAN, OnStepStart(c, hasNumber)
    PROVE  Keeps(c)
<1> DEFINE n == step[c] + 1
           s == Id(c, "step", n)
<1>1. Sound(c) /\ TelemetryTypeOK
  BY DEF TelemetryInv
<1>2. n \in 1 .. MaxModelSteps /\ step[c] \in Nat
  BY <1>1, RoomForStep DEF OnStepStart, TelemetryTypeOK
<1>3. s \in SpansOf(c) /\ s \in SpanIds /\ s.kind = "step" /\ s.n = n /\ s # Agent(c) /\ s # NoContext
  BY <1>2, SpansAre, IdsApart DEF SpansOf, Agent
<1>4. status[s] = "absent"
  BY <1>1, <1>2, <1>3 DEF Sound, ToCome
<1>5. /\ at[c] = "run" /\ at' = [at EXCEPT ![c] = "step"] /\ step' = [step EXCEPT ![c] = n]
      /\ UNCHANGED <<pending, toolsAsked, live, stack, toolSpans>>
  BY DEF OnStepStart
<1>6. /\ c \in live /\ current[c] = NoContext /\ steps[c] = {} /\ stack[c] = <<>> /\ toolSpans[c] = {}
      /\ numbered[c] \subseteq 1 .. step[c]
  BY <1>1, <1>5 DEF Sound, Bracketed
<1>7. OpenSpans(c) = {}
  BY <1>6 DEF OpenSpans
<1>8. Agent(c) \in SpanIds /\ Agent(c) \in SpansOf(c) /\ status[Agent(c)] = "open"
  BY <1>1, <1>6, SpansAre, IdsApart DEF SpansOf, Agent, Sound, HeldAreOpen
<1>9. /\ at'[c] = "step" /\ step'[c] = n
      /\ pending'[c] = pending[c] /\ toolsAsked'[c] = toolsAsked[c] /\ stack'[c] = <<>> /\ toolSpans'[c] = {}
  BY <1>1, <1>5, <1>6 DEF TelemetryTypeOK
<1>10. \A t : t = Id(c, "chat", n) => t.kind = "chat" /\ t.n = n /\ t # s
  BY IdsApart
<1>11. n > step[c] /\ \A m \in Int : m > n => m > step[c]
  BY <1>2
<1>12. \A t \in SpansOf(c) : /\ t \in SpanIds
                             /\ t.kind \in {"step", "chat"} /\ t.n > step[c] => status[t] = "absent"
                             /\ status[t] = "open" <=> t = Agent(c)
  BY <1>1, <1>6, <1>7 DEF Sound, ToCome, HeldAreOpen, SpansOf
<1>13. \A t \in SpansOf(c) : t.kind \in {"step", "chat"} /\ t.n > n => t.n > step[c]
  <2>1. \A t \in SpanIds : t.kind \in {"step", "chat"} => t.n \in Int
    BY IdsApart DEF SpanIds, Agent
  <2>. QED
    BY <1>11, <1>12, <2>1
<1>. HIDE DEF n, s
<1>14. CASE hasNumber
  <2>1. /\ StartSpan(s, Agent(c))
        /\ numbered' = [numbered EXCEPT ![c] = @ \cup {n}]
        /\ steps' = [steps EXCEPT ![c] = @ \cup {s}]
        /\ current' = [current EXCEPT ![c] = s]
    BY <1>14 DEF OnStepStart, n, s
  <2>2. /\ OnlyOpenParents /\ EndsOnce
        /\ \A t \in SpanIds : /\ status'[t] = IF t = s THEN "open" ELSE status[t]
                              /\ parent'[t] = IF t = s THEN Agent(c) ELSE parent[t]
        /\ status' \in [SpanIds -> {"absent", "open", "OK", "ERROR", "UNSET"}]
        /\ parent' \in [SpanIds -> SpanIds \cup {NoContext}]
    BY <1>1, <1>3, <1>4, <1>8, <2>1, SpanStarts
  <2>3. TelemetryTypeOK'
    BY <1>1, <1>2, <1>3, <1>5, <2>1, <2>2 DEF TelemetryTypeOK
  <2>4. Alone(c)
    BY <1>1, <1>3, <1>5, <2>1, <2>2 DEF Alone, TelemetryTypeOK, SpansOf
  <2>5. numbered'[c] = numbered[c] \cup {n} /\ steps'[c] = {s} /\ current'[c] = s
    BY <1>1, <1>6, <2>1 DEF TelemetryTypeOK
  <2>6. OpenSpans(c)' = {s} /\ SpansOf(c)' = SpansOf(c)
    BY <1>9, <2>5 DEF OpenSpans, SpansOf
  <2>7. numbered'[c] \subseteq 1 .. step'[c]
    BY <1>2, <1>6, <1>9, <2>5 DEF n
  <2>8. Bracketed(c)'
    BY <1>1, <1>2, <1>3, <1>5, <1>6, <1>9, <2>5, <2>6, <2>7 DEF Bracketed, Sound, s
  <2>9. HeldAreOpen(c)'
    BY <1>3, <1>5, <1>6, <1>12, <2>2, <2>6 DEF HeldAreOpen
  <2>10. ToCome(c)'
    <3>1. ~ s.n > n
      BY <1>2, <1>3
    <3>2. Id(c, "chat", n) # s /\ Id(c, "chat", n).kind = "chat" /\ Id(c, "chat", n).n = n
      BY <1>10
    <3>. QED
      BY <1>3, <1>9, <1>11, <1>12, <1>13, <2>2, <2>6, <3>1, <3>2 DEF ToCome
  <2>11. ShownOf(c)'
    <3>. SUFFICES ASSUME NEW t \in SpansOf(c), status'[t] # "absent", t.kind # "agent"
                  PROVE  /\ parent'[t] \in SpansOf(c)
                         /\ t.kind = "chat" => parent'[t] = IF t.n \in numbered'[c]
                                                  THEN Id(c, "step", t.n) ELSE Agent(c)
      BY <2>6 DEF ShownOf
    <3>1. CASE t = s
      BY <1>3, <1>8, <2>2, <3>1
    <3>2. CASE t # s
      <4>1. status'[t] = status[t] /\ parent'[t] = parent[t]
        BY <1>12, <2>2, <3>2
      <4>2. t.kind = "chat" => t.n # n
        BY <1>11, <1>12, <4>1
      <4>. QED
        BY <1>1, <2>5, <4>1, <4>2 DEF Sound, ShownOf
    <3>. QED
      BY <3>1, <3>2
  <2>. QED
    BY <2>2, <2>3, <2>4, <2>8, <2>9, <2>10, <2>11 DEF Keeps, Sound
<1>15. CASE ~hasNumber
  <2>1. UNCHANGED <<status, parent, numbered, steps, current>>
    BY <1>15 DEF OnStepStart
  <2>2. OnlyOpenParents /\ EndsOnce
    BY <2>1, QuietSpans
  <2>3. TelemetryTypeOK'
    BY <1>1, <1>2, <1>5, <2>1 DEF TelemetryTypeOK
  <2>4. Alone(c)
    BY <1>1, <1>5, <2>1 DEF Alone, TelemetryTypeOK
  <2>5. OpenSpans(c)' = {} /\ SpansOf(c)' = SpansOf(c)
    BY <1>6, <1>9, <2>1 DEF OpenSpans, SpansOf
  <2>6. n \notin numbered'[c] /\ numbered'[c] \subseteq 1 .. n
    BY <1>2, <1>6, <1>11, <2>1
  <2>7. Bracketed(c)'
    BY <1>1, <1>2, <1>5, <1>6, <1>9, <2>1, <2>5, <2>6 DEF Bracketed, Sound
  <2>8. HeldAreOpen(c)'
    BY <1>5, <1>6, <1>12, <2>1, <2>5 DEF HeldAreOpen
  <2>9. ToCome(c)'
    BY <1>9, <1>10, <1>11, <1>12, <1>13, <2>1, <2>5 DEF ToCome
  <2>10. ShownOf(c)'
    BY <1>1, <2>1, <2>5 DEF ShownOf, Sound
  <2>. QED
    BY <2>2, <2>3, <2>4, <2>7, <2>8, <2>9, <2>10 DEF Keeps, Sound
<1>. QED
  BY <1>14, <1>15

\* The span that what runs in a step is started under is open.
LEMMA ParentIsOpen ==
    ASSUME TelemetryInv, NEW c \in Ops, at[c] \in {"step", "tools"}
    PROVE  /\ ParentCtx(c) \in SpansOf(c) /\ ParentCtx(c) \in SpanIds
           /\ status[ParentCtx(c)] = "open"
           /\ ParentCtx(c) = IF step[c] \in numbered[c] THEN Id(c, "step", step[c]) ELSE Agent(c)
<1>1. Sound(c) /\ TelemetryTypeOK
  BY DEF TelemetryInv
<1>2. Agent(c) \in SpanIds /\ Agent(c) \in SpansOf(c) /\ status[Agent(c)] = "open"
  BY <1>1, SpansAre, IdsApart DEF SpansOf, Agent, Sound, HeldAreOpen, Bracketed
<1>3. CASE step[c] \in numbered[c]
  <2>1. current[c] = Id(c, "step", step[c]) /\ steps[c] = {Id(c, "step", step[c])}
    BY <1>1, <1>3 DEF Sound, Bracketed
  <2>2. Id(c, "step", step[c]) \in OpenSpans(c)
    BY <2>1 DEF OpenSpans
  <2>3. Id(c, "step", step[c]) \in SpansOf(c)
    BY <1>1, <2>2 DEF Sound, Bracketed
  <2>4. Id(c, "step", step[c]) # NoContext
    BY IdsApart DEF NoContext
  <2>. QED
    BY <1>1, <1>3, <2>1, <2>2, <2>3, <2>4 DEF ParentCtx, Sound, HeldAreOpen, SpansOf
<1>4. CASE step[c] \notin numbered[c]
  <2>1. current[c] = NoContext
    BY <1>1, <1>4 DEF Sound, Bracketed
  <2>. QED
    BY <1>2, <1>4, <2>1 DEF ParentCtx
<1>. QED
  BY <1>3, <1>4

LEMMA KeepsModelStart ==
    ASSUME TelemetryInv, NEW c \in Ops, OnModelCallStart(c)
    PROVE  Keeps(c)
<1> DEFINE s == Id(c, "chat", step[c])
<1>1. Sound(c) /\ TelemetryTypeOK
  BY DEF TelemetryInv
<1>2. /\ at[c] = "step" /\ at' = [at EXCEPT ![c] = "model"]
      /\ StartSpan(s, ParentCtx(c))
      /\ stack' = [stack EXCEPT ![c] = Append(@, s)]
      /\ UNCHANGED <<step, numbered, pending, toolsAsked, live, current, steps, toolSpans>>
  BY DEF OnModelCallStart
<1>3. c \in live /\ step[c] > 0 /\ stack[c] = <<>> /\ toolSpans[c] = {} /\ step[c] \in 1 .. MaxModelSteps
  BY <1>1, <1>2 DEF Sound, Bracketed, TelemetryTypeOK
<1>4. s \in SpanIds /\ s \in SpansOf(c) /\ s.kind = "chat" /\ s.n = step[c] /\ s # Agent(c)
  BY <1>3, SpansAre, IdsApart DEF SpansOf, Agent
<1>5. status[s] = "absent"
  BY <1>1, <1>2, <1>4 DEF Sound, ToCome
<1>6. /\ ParentCtx(c) \in SpansOf(c) /\ ParentCtx(c) \in SpanIds
      /\ status[ParentCtx(c)] = "open"
      /\ ParentCtx(c) = IF step[c] \in numbered[c] THEN Id(c, "step", step[c]) ELSE Agent(c)
  BY <1>2, ParentIsOpen
<1>. HIDE DEF s
<1>7. /\ OnlyOpenParents /\ EndsOnce
      /\ \A t \in SpanIds : /\ status'[t] = IF t = s THEN "open" ELSE status[t]
                            /\ parent'[t] = IF t = s THEN ParentCtx(c) ELSE parent[t]
      /\ status' \in [SpanIds -> {"absent", "open", "OK", "ERROR", "UNSET"}]
      /\ parent' \in [SpanIds -> SpanIds \cup {NoContext}]
  BY <1>1, <1>2, <1>4, <1>5, <1>6, SpanStarts
<1>8. /\ at'[c] = "model" /\ stack'[c] = <<s>>
      /\ stack' \in [Ops -> Seq(SpanIds)]
  BY <1>1, <1>2, <1>3, <1>4 DEF TelemetryTypeOK
<1>9. TelemetryTypeOK'
  BY <1>1, <1>2, <1>7, <1>8 DEF TelemetryTypeOK
<1>10. Alone(c)
  BY <1>1, <1>2, <1>4, <1>7 DEF Alone, TelemetryTypeOK, SpansOf
<1>11. OpenSpans(c)' = OpenSpans(c) \cup {s} /\ SpansOf(c)' = SpansOf(c)
  <2>1. {stack'[c][i] : i \in DOMAIN stack'[c]} = {s}
    BY <1>8
  <2>2. {stack[c][i] : i \in DOMAIN stack[c]} = {}
    BY <1>3
  <2>. QED
    BY <1>2, <2>1, <2>2 DEF OpenSpans, SpansOf
<1>12. Bracketed(c)'
  BY <1>1, <1>2, <1>3, <1>4, <1>8, <1>11 DEF Bracketed, Sound, s
<1>13. \A t \in SpansOf(c) : t \in SpanIds
  BY DEF SpansOf
<1>14. HeldAreOpen(c)'
  BY <1>1, <1>2, <1>7, <1>11, <1>13 DEF HeldAreOpen, Sound
<1>15. ToCome(c)'
  <2>1. ~ s.n > step[c]
    BY <1>3, <1>4
  <2>. QED
    BY <1>1, <1>2, <1>7, <1>8, <1>11, <1>13, <2>1 DEF ToCome, Sound
<1>16. ShownOf(c)'
  BY <1>1, <1>2, <1>4, <1>6, <1>7, <1>11, <1>13 DEF ShownOf, Sound
<1>. QED
  BY <1>7, <1>9, <1>10, <1>12, <1>14, <1>15, <1>16 DEF Keeps, Sound

\* Of spans that end: what is said of those still to come, and of where they are shown.
LEMMA EndedKeep ==
    ASSUME NEW c \in Ops, Sound(c), TelemetryTypeOK,
           \A t \in SpansOf(c) : /\ status[t] = "absent" <=> status'[t] = "absent"
                                 /\ parent'[t] = parent[t],
           step'[c] = step[c], numbered'[c] = numbered[c],
           at'[c] # "idle", at'[c] = "step" => at[c] = "step"
    PROVE  ToCome(c)' /\ ShownOf(c)'
<1>1. SpansOf(c)' = SpansOf(c)
  BY DEF SpansOf
<1>2. ToCome(c)'
  BY <1>1 DEF ToCome, Sound
<1>3. ShownOf(c)'
  BY <1>1 DEF ShownOf, Sound
<1>. QED
  BY <1>2, <1>3

LEMMA KeepsModelEnd ==
    ASSUME TelemetryInv, NEW c \in Ops, NEW n \in 0 .. MaxTools, OnModelCallEnd(c, n)
    PROVE  Keeps(c)
<1> DEFINE s == Id(c, "chat", step[c])
<1>1. Sound(c) /\ TelemetryTypeOK
  BY DEF TelemetryInv
<1>2. /\ at[c] = "model" /\ Total(toolsAsked) + n <= MaxTools
      /\ at' = [at EXCEPT ![c] = "tools"]
      /\ Ends({stack[c][Len(stack[c])]}, "OK")
      /\ stack' = [stack EXCEPT ![c] = SubSeq(@, 1, Len(@) - 1)]
      /\ pending' = [pending EXCEPT ![c] = toolsAsked[c] + 1 .. toolsAsked[c] + n]
      /\ toolsAsked' = [toolsAsked EXCEPT ![c] = @ + n]
      /\ UNCHANGED <<step, numbered, live, current, steps, toolSpans>>
  BY DEF OnModelCallEnd
<1>3. c \in live /\ stack[c] = <<s>> /\ toolSpans[c] = {} /\ step[c] > 0
  BY <1>1, <1>2 DEF Sound, Bracketed
<1>4. toolsAsked[c] \in Nat /\ toolsAsked[c] + n \in 0 .. MaxTools
  BY <1>1, <1>2, RoomForTools
<1>5. s \in OpenSpans(c) /\ \A k : s # Id(c, "step", k) /\ s # Agent(c)
  <2>1. \A k : s # Id(c, "step", k) /\ s # Agent(c)
    BY IdsApart DEF Agent
  <2>2. 1 \in DOMAIN stack[c] /\ stack[c][1] = s
    BY <1>3
  <2>. QED
    BY <2>1, <2>2 DEF OpenSpans
<1>6. s \in SpansOf(c) /\ s \in SpanIds /\ status[s] = "open"
  BY <1>1, <1>5 DEF Sound, Bracketed, HeldAreOpen, SpansOf
<1>. HIDE DEF s
<1>7. stack[c][Len(stack[c])] = s /\ SubSeq(stack[c], 1, Len(stack[c]) - 1) = <<>>
  BY <1>3
<1>8. /\ OnlyOpenParents /\ EndsOnce
      /\ \A t \in SpanIds : /\ status'[t] = IF t \in {s} THEN "OK" ELSE status[t]
                            /\ parent'[t] = parent[t]
      /\ status' \in [SpanIds -> {"absent", "open", "OK", "ERROR", "UNSET"}]
      /\ parent' \in [SpanIds -> SpanIds \cup {NoContext}]
  BY <1>1, <1>2, <1>6, <1>7, SpansEnd
<1>9. /\ at'[c] = "tools" /\ stack'[c] = <<>> /\ stack' \in [Ops -> Seq(SpanIds)]
      /\ pending'[c] = toolsAsked[c] + 1 .. toolsAsked[c] + n /\ toolsAsked'[c] = toolsAsked[c] + n
  BY <1>1, <1>2, <1>7 DEF TelemetryTypeOK
<1>10. TelemetryTypeOK'
  <2>1. pending' \in [Ops -> SUBSET (1 .. MaxTools)]
    <3>1. toolsAsked[c] + 1 .. toolsAsked[c] + n \subseteq 1 .. MaxTools
      BY <1>4, TelemetryAssumption
    <3>. QED
      BY <1>1, <1>2, <3>1 DEF TelemetryTypeOK
  <2>2. toolsAsked' \in [Ops -> 0 .. MaxTools]
    BY <1>1, <1>2, <1>4 DEF TelemetryTypeOK
  <2>. QED
    BY <1>1, <1>2, <1>8, <1>9, <2>1, <2>2 DEF TelemetryTypeOK
<1>11. Alone(c)
  BY <1>1, <1>2, <1>6, <1>8 DEF Alone, TelemetryTypeOK, SpansOf
<1>12. OpenSpans(c)' = OpenSpans(c) \ {s} /\ SpansOf(c)' = SpansOf(c)
  <2>1. {stack'[c][i] : i \in DOMAIN stack'[c]} = {}
    BY <1>9
  <2>2. {stack[c][i] : i \in DOMAIN stack[c]} = {s}
    BY <1>3
  <2>3. s \notin steps[c]
    BY <1>1, <1>2, <1>5 DEF Sound, Bracketed
  <2>. QED
    BY <1>2, <1>3, <2>1, <2>2, <2>3 DEF OpenSpans, SpansOf
<1>13. Bracketed(c)'
  <2>1. pending'[c] \subseteq 1 .. toolsAsked'[c]
    BY <1>4, <1>9
  <2>. QED
    BY <1>1, <1>2, <1>3, <1>9, <1>12, <2>1 DEF Bracketed, Sound
<1>14. \A t \in SpansOf(c) : t \in SpanIds
  BY DEF SpansOf
<1>15. HeldAreOpen(c)'
  BY <1>1, <1>2, <1>5, <1>8, <1>12, <1>14 DEF HeldAreOpen, Sound
<1>16. ToCome(c)' /\ ShownOf(c)'
  <2>1. \A t \in SpansOf(c) : /\ status[t] = "absent" <=> status'[t] = "absent"
                              /\ parent'[t] = parent[t]
    BY <1>6, <1>8, <1>14
  <2>. QED
    BY <1>1, <1>2, <1>9, <2>1, EndedKeep
<1>. QED
  BY <1>8, <1>10, <1>11, <1>13, <1>15, <1>16 DEF Keeps, Sound

LEMMA KeepsToolStart ==
    ASSUME TelemetryInv, NEW c \in Ops, NEW n \in 1 .. MaxTools, OnToolStart(c, n)
    PROVE  Keeps(c)
<1> DEFINE s == Id(c, "tool", n)
<1>1. Sound(c) /\ TelemetryTypeOK
  BY DEF TelemetryInv
<1>2. /\ at[c] = "tools" /\ n \in pending[c] /\ status[s] = "absent"
      /\ StartSpan(s, ParentCtx(c))
      /\ toolSpans' = [toolSpans EXCEPT ![c] = @ \cup {s}]
      /\ UNCHANGED <<at, step, numbered, pending, toolsAsked, live, current, steps, stack>>
  BY DEF OnToolStart, sdk
<1>3. c \in live
  BY <1>1, <1>2 DEF Sound, Bracketed
<1>4. s \in SpanIds /\ s \in SpansOf(c) /\ s.kind = "tool" /\ s # Agent(c)
  BY SpansAre, IdsApart DEF SpansOf, Agent
<1>5. s \in {Id(c, "tool", m) : m \in pending[c]}
  BY <1>2
<1>6. ParentCtx(c) \in SpansOf(c) /\ ParentCtx(c) \in SpanIds /\ status[ParentCtx(c)] = "open"
  BY <1>2, ParentIsOpen
<1>. HIDE DEF s
<1>7. /\ OnlyOpenParents /\ EndsOnce
      /\ \A t \in SpanIds : /\ status'[t] = IF t = s THEN "open" ELSE status[t]
                            /\ parent'[t] = IF t = s THEN ParentCtx(c) ELSE parent[t]
      /\ status' \in [SpanIds -> {"absent", "open", "OK", "ERROR", "UNSET"}]
      /\ parent' \in [SpanIds -> SpanIds \cup {NoContext}]
  BY <1>1, <1>2, <1>4, <1>6, SpanStarts
<1>8. toolSpans'[c] = toolSpans[c] \cup {s}
  BY <1>1, <1>2 DEF TelemetryTypeOK
<1>9. TelemetryTypeOK'
  BY <1>1, <1>2, <1>4, <1>7 DEF TelemetryTypeOK
<1>10. Alone(c)
  BY <1>1, <1>2, <1>4, <1>7 DEF Alone, TelemetryTypeOK, SpansOf
<1>11. OpenSpans(c)' = OpenSpans(c) \cup {s} /\ SpansOf(c)' = SpansOf(c)
  BY <1>2, <1>8 DEF OpenSpans, SpansOf
<1>12. Bracketed(c)'
  <2>1. toolSpans'[c] \subseteq {Id(c, "tool", m) : m \in pending'[c]}
    BY <1>1, <1>2, <1>5, <1>8 DEF Bracketed, Sound
  <2>. QED
    BY <1>1, <1>2, <1>3, <1>4, <1>11, <2>1 DEF Bracketed, Sound
<1>13. \A t \in SpansOf(c) : t \in SpanIds
  BY DEF SpansOf
<1>14. HeldAreOpen(c)'
  BY <1>1, <1>2, <1>7, <1>11, <1>13 DEF HeldAreOpen, Sound
<1>15. ToCome(c)' /\ ShownOf(c)'
  BY <1>1, <1>2, <1>4, <1>6, <1>7, <1>11, <1>13 DEF ToCome, ShownOf, Sound
<1>. QED
  BY <1>7, <1>9, <1>10, <1>12, <1>14, <1>15 DEF Keeps, Sound

LEMMA KeepsToolEnd ==
    ASSUME TelemetryInv, NEW c \in Ops, NEW n \in 1 .. MaxTools, NEW code \in {"OK", "ERROR"},
           OnToolEnd(c, n, code)
    PROVE  Keeps(c)
<1> DEFINE s == Id(c, "tool", n)
<1>1. Sound(c) /\ TelemetryTypeOK
  BY DEF TelemetryInv
<1>2. /\ s \in toolSpans[c]
      /\ pending' = [pending EXCEPT ![c] = @ \ {n}]
      /\ Ends({s}, code)
      /\ toolSpans' = [toolSpans EXCEPT ![c] = @ \ {s}]
      /\ UNCHANGED <<at, step, numbered, toolsAsked, live, current, steps, stack>>
  BY DEF OnToolEnd
<1>3. s \in OpenSpans(c) /\ s \in SpansOf(c) /\ s \in SpanIds /\ status[s] = "open"
  BY <1>1, <1>2 DEF Sound, Bracketed, HeldAreOpen, SpansOf, OpenSpans
<1>4. \A k : s # Id(c, "step", k) /\ s # Id(c, "chat", k) /\ s # Agent(c)
  BY IdsApart DEF Agent
<1>5. at[c] = "tools" /\ c \in live
  BY <1>1, <1>2, <1>3 DEF Sound, Bracketed
<1>7. /\ OnlyOpenParents /\ EndsOnce
      /\ \A t \in SpanIds : /\ status'[t] = IF t \in {s} THEN code ELSE status[t]
                            /\ parent'[t] = parent[t]
      /\ status' \in [SpanIds -> {"absent", "open", "OK", "ERROR", "UNSET"}]
      /\ parent' \in [SpanIds -> SpanIds \cup {NoContext}]
  BY <1>1, <1>2, <1>3, SpansEnd
<1>8. toolSpans'[c] = toolSpans[c] \ {s} /\ pending'[c] = pending[c] \ {n}
  BY <1>1, <1>2 DEF TelemetryTypeOK
<1>9. TelemetryTypeOK'
  BY <1>1, <1>2, <1>7 DEF TelemetryTypeOK
<1>10. Alone(c)
  BY <1>1, <1>2, <1>3, <1>7 DEF Alone, TelemetryTypeOK, SpansOf
<1>11. \A t \in SpansOf(c) : t \in SpanIds
  BY DEF SpansOf
<1>12. toolSpans'[c] \subseteq {Id(c, "tool", m) : m \in pending'[c]}
  <2>. SUFFICES ASSUME NEW t \in toolSpans[c], t # s
                PROVE  \E m \in pending[c] \ {n} : t = Id(c, "tool", m)
    BY <1>8
  <2>1. PICK m \in pending[c] : t = Id(c, "tool", m)
    BY <1>1 DEF Sound, Bracketed
  <2>. QED
    BY <2>1
<1>. HIDE DEF s
<1>13. steps[c] \subseteq {Id(c, "step", step[c])} /\ stack[c] = <<>>
  BY <1>1, <1>5 DEF Sound, Bracketed
<1>14. OpenSpans(c)' = OpenSpans(c) \ {s} /\ SpansOf(c)' = SpansOf(c)
  BY <1>2, <1>4, <1>8, <1>13 DEF OpenSpans, SpansOf
<1>15. Bracketed(c)'
  BY <1>1, <1>2, <1>5, <1>8, <1>12, <1>14 DEF Bracketed, Sound
<1>16. HeldAreOpen(c)'
  BY <1>1, <1>2, <1>4, <1>7, <1>11, <1>14 DEF HeldAreOpen, Sound
<1>17. ToCome(c)' /\ ShownOf(c)'
  <2>1. \A t \in SpansOf(c) : /\ status[t] = "absent" <=> status'[t] = "absent"
                              /\ parent'[t] = parent[t]
    BY <1>3, <1>7, <1>11
  <2>. QED
    BY <1>1, <1>2, <1>5, <2>1, EndedKeep
<1>. QED
  BY <1>7, <1>9, <1>10, <1>15, <1>16, <1>17 DEF Keeps, Sound

LEMMA KeepsStepEnd ==
    ASSUME TelemetryInv, NEW c \in Ops, OnStepEnd(c)
    PROVE  Keeps(c)
<1> DEFINE s == Id(c, "step", step[c])
<1>1. Sound(c) /\ TelemetryTypeOK
  BY DEF TelemetryInv
<1>2. /\ at[c] = "tools" /\ pending[c] = {}
      /\ at' = [at EXCEPT ![c] = "run"]
      /\ IF s \in steps[c] THEN Ends({s}, "OK") ELSE UNCHANGED <<status, parent>>
      /\ steps' = [steps EXCEPT ![c] = @ \ {s}]
      /\ current' = [current EXCEPT ![c] = IF @ = s THEN NoContext ELSE @]
      /\ UNCHANGED <<step, numbered, pending, toolsAsked, live, stack, toolSpans>>
  BY DEF OnStepEnd
<1>3. /\ toolSpans[c] = {} /\ stack[c] = <<>> /\ c \in live
      /\ steps[c] \subseteq {s} /\ current[c] \in {s, NoContext}
  BY <1>1, <1>2 DEF Sound, Bracketed
<1>4. OpenSpans(c) = steps[c]
  BY <1>3 DEF OpenSpans
<1>5. /\ steps[c] \subseteq SpansOf(c)
      /\ \A t \in steps[c] : t = s /\ t \in SpanIds /\ status[t] = "open" /\ t # Agent(c)
  <2>1. \A k : Id(c, "step", k) # Agent(c)
    BY IdsApart DEF Agent
  <2>. QED
    BY <1>1, <1>3, <1>4, <2>1 DEF Sound, Bracketed, HeldAreOpen, SpansOf
<1>. HIDE DEF s
<1>6. /\ OnlyOpenParents /\ EndsOnce
      /\ \A t \in SpanIds : /\ status'[t] = IF t \in steps[c] THEN "OK" ELSE status[t]
                            /\ parent'[t] = parent[t]
      /\ status' \in [SpanIds -> {"absent", "open", "OK", "ERROR", "UNSET"}]
      /\ parent' \in [SpanIds -> SpanIds \cup {NoContext}]
  <2>1. CASE s \in steps[c]
    <3>1. steps[c] = {s}
      BY <1>3, <2>1
    <3>. QED
      BY <1>1, <1>2, <1>5, <2>1, <3>1, SpansEnd
  <2>2. CASE s \notin steps[c]
    <3>1. steps[c] = {} /\ UNCHANGED <<status, parent>>
      BY <1>2, <1>3, <2>2
    <3>. QED
      BY <1>1, <3>1, QuietSpans DEF TelemetryTypeOK
  <2>. QED
    BY <2>1, <2>2
<1>7. at'[c] = "run" /\ steps'[c] = {} /\ current'[c] = NoContext
  BY <1>1, <1>2, <1>3 DEF TelemetryTypeOK
<1>8. TelemetryTypeOK'
  BY <1>1, <1>2, <1>6 DEF TelemetryTypeOK
<1>9. Alone(c)
  BY <1>1, <1>2, <1>5, <1>6 DEF Alone, TelemetryTypeOK, SpansOf
<1>10. OpenSpans(c)' = {} /\ SpansOf(c)' = SpansOf(c)
  BY <1>2, <1>3, <1>7 DEF OpenSpans, SpansOf
<1>11. Bracketed(c)'
  BY <1>1, <1>2, <1>3, <1>7, <1>10 DEF Bracketed, Sound
<1>12. \A t \in SpansOf(c) : t \in SpanIds
  BY DEF SpansOf
<1>13. HeldAreOpen(c)'
  BY <1>1, <1>2, <1>4, <1>5, <1>6, <1>10, <1>12 DEF HeldAreOpen, Sound
<1>14. ToCome(c)' /\ ShownOf(c)'
  <2>1. \A t \in SpansOf(c) : /\ status[t] = "absent" <=> status'[t] = "absent"
                              /\ parent'[t] = parent[t]
    BY <1>5, <1>6, <1>12
  <2>. QED
    BY <1>1, <1>2, <1>7, <2>1, EndedKeep
<1>. QED
  BY <1>6, <1>8, <1>9, <1>11, <1>13, <1>14 DEF Keeps, Sound

LEMMA KeepsEnd ==
    ASSUME TelemetryInv, NEW c \in Ops, OnEnd(c)
    PROVE  Keeps(c)
<1>1. Sound(c) /\ TelemetryTypeOK
  BY DEF TelemetryInv
<1>2. /\ at[c] \in {"failed", "run"} /\ at' = [at EXCEPT ![c] = "over"]
      /\ status' = [s \in SpanIds |-> IF s = Agent(c) THEN "OK"
                                      ELSE IF s \in OpenSpans(c) THEN "UNSET" ELSE status[s]]
      /\ live' = live \ {c}
      /\ current' = [current EXCEPT ![c] = NoContext]
      /\ steps' = [steps EXCEPT ![c] = {}]
      /\ stack' = [stack EXCEPT ![c] = <<>>]
      /\ toolSpans' = [toolSpans EXCEPT ![c] = {}]
      /\ UNCHANGED <<step, numbered, pending, toolsAsked, parent>>
  BY DEF OnEnd, Leftover
<1>3. c \in live /\ OpenSpans(c) \subseteq SpansOf(c)
  BY <1>1, <1>2 DEF Sound, Bracketed
<1>4. Agent(c) \in SpansOf(c) /\ Agent(c) \in SpanIds
  BY SpansAre, IdsApart DEF Agent, SpansOf
<1>5. \A t \in SpansOf(c) : /\ t \in SpanIds
                            /\ status[t] = "open" <=> t = Agent(c) \/ t \in OpenSpans(c)
  BY <1>1, <1>3 DEF Sound, HeldAreOpen, SpansOf
<1>6. \A t \in SpanIds : /\ parent'[t] = parent[t]
                         /\ status'[t] = IF t \in OpenSpans(c) \cup {Agent(c)}
                                         THEN status'[t] ELSE status[t]
                         /\ t \in OpenSpans(c) \cup {Agent(c)}
                            => status'[t] \in {"OK", "UNSET"} /\ status[t] = "open"
  BY <1>2, <1>3, <1>4, <1>5
<1>7. OnlyOpenParents /\ EndsOnce
  BY <1>6 DEF OnlyOpenParents, EndsOnce
<1>8. /\ at'[c] = "over" /\ c \notin live' /\ steps'[c] = {} /\ stack'[c] = <<>> /\ toolSpans'[c] = {}
      /\ stack' \in [Ops -> Seq(SpanIds)]
  BY <1>1, <1>2 DEF TelemetryTypeOK
<1>9. TelemetryTypeOK'
  <2>1. status' \in [SpanIds -> {"absent", "open", "OK", "ERROR", "UNSET"}]
    BY <1>1, <1>2 DEF TelemetryTypeOK
  <2>. QED
    BY <1>1, <1>2, <1>8, <2>1 DEF TelemetryTypeOK
<1>10. Alone(c)
  BY <1>1, <1>2, <1>3, <1>4, <1>6 DEF Alone, TelemetryTypeOK, SpansOf
<1>11. OpenSpans(c)' = {} /\ SpansOf(c)' = SpansOf(c)
  BY <1>8 DEF OpenSpans, SpansOf
<1>12. Bracketed(c)'
  BY <1>1, <1>2, <1>8, <1>11 DEF Bracketed, Sound
<1>13. HeldAreOpen(c)'
  BY <1>5, <1>6, <1>8, <1>11 DEF HeldAreOpen
<1>14. ToCome(c)' /\ ShownOf(c)'
  <2>1. \A t \in SpansOf(c) : /\ status[t] = "absent" <=> status'[t] = "absent"
                              /\ parent'[t] = parent[t]
    BY <1>5, <1>6
  <2>. QED
    BY <1>1, <1>2, <1>8, <2>1, EndedKeep
<1>. QED
  BY <1>7, <1>9, <1>10, <1>12, <1>13, <1>14 DEF Keeps, Sound

LEMMA TelemetryInvNext ==
    TelemetryInv /\ [TelemetryNext]_telemetryVars
        => TelemetryInv' /\ (UNCHANGED telemetryVars \/ (OnlyOpenParents /\ EndsOnce))
<1>. SUFFICES ASSUME TelemetryInv, [TelemetryNext]_telemetryVars
              PROVE  TelemetryInv' /\ (UNCHANGED telemetryVars \/ (OnlyOpenParents /\ EndsOnce))
  OBVIOUS
<1>1. CASE UNCHANGED telemetryVars
  <2>. USE <1>1 DEF telemetryVars, sdk, data
  <2>1. TelemetryTypeOK'
    BY DEF TelemetryInv, TelemetryTypeOK
  <2>2. ASSUME NEW c \in Ops PROVE Sound(c)'
    <3>1. Sound(c)
      BY DEF TelemetryInv
    <3>2. OpenSpans(c)' = OpenSpans(c) /\ SpansOf(c)' = SpansOf(c)
      BY DEF OpenSpans, SpansOf
    <3>3. Bracketed(c)' /\ HeldAreOpen(c)' /\ ToCome(c)' /\ ShownOf(c)'
      BY <3>1, <3>2 DEF Sound, Bracketed, HeldAreOpen, ToCome, ShownOf
    <3>. QED
      BY <3>3 DEF Sound
  <2>. QED
    BY <1>1, <2>1, <2>2 DEF TelemetryInv
<1>2. ASSUME TelemetryNext PROVE TelemetryInv' /\ OnlyOpenParents /\ EndsOnce
  <2>1. PICK c \in Ops : Keeps(c)
    BY <1>2, KeepsOver, KeepsStart, KeepsStepStart, KeepsModelStart, KeepsModelEnd, KeepsToolStart,
       KeepsToolEnd, KeepsStepEnd, KeepsEnd DEF TelemetryNext
  <2>2. ASSUME NEW d \in Ops PROVE Sound(d)'
    BY <2>1, OthersSound DEF Keeps, TelemetryInv
  <2>. QED
    BY <2>1, <2>2 DEF Keeps, TelemetryInv
<1>. QED
  BY <1>1, <1>2

\* The waterfall of any number of AI SDK runs, nested or side by side, however they
\* end (vercel.ts).
THEOREM WaterfallBracketed == TelemetrySpec => WaterfallSound
<1>1. TelemetryInv => TelemetryTypeOK /\ ShownWhereItRan /\ ClosedTogether
  <2>. SUFFICES ASSUME TelemetryInv PROVE ShownWhereItRan /\ ClosedTogether
    BY DEF TelemetryInv
  <2>1. ShownWhereItRan
    <3>1. \A s \in SpanIds : s.op \in Ops /\ s \in SpansOf(s.op)
      BY SpansAre DEF SpansOf
    <3>. QED
      BY <3>1 DEF ShownWhereItRan, TelemetryInv, Sound, ShownOf
  <2>2. ClosedTogether
    BY DEF ClosedTogether, TelemetryInv, Sound, HeldAreOpen, Bracketed
  <2>. QED
    BY <2>1, <2>2
<1>2. TelemetryInv' => TelemetryTypeOK' /\ ShownWhereItRan' /\ ClosedTogether'
  BY <1>1, PTL
<1>3. TelemetryInv /\ [TelemetryNext]_telemetryVars
      => [/\ TelemetryTypeOK' /\ ShownWhereItRan' /\ ClosedTogether'
          /\ OnlyOpenParents /\ EndsOnce]_telemetryVars
  BY <1>2, TelemetryInvNext
<1>. QED BY <1>3, TelemetryInvInit, TelemetryInvNext, PTL DEF TelemetrySpec, WaterfallSound

(***************************************************************************)
(* The instrumentors of the Python SDK.                                    *)
(***************************************************************************)

\* What _active holds is instrumented for the provider in use, and the rest for none
\* of ours, unless an undo raised.
HooksSettled ==
    /\ pyProvider = None => activeHooks = <<>>
    /\ \A i \in ToSet(activeHooks) : flagged[i] = pyProvider /\ handler[i] \in {pyProvider, App}
    /\ \A i \in broken : flagged[i] \in Ours /\ i \notin ToSet(activeHooks)
    /\ \A i \in Instrumentors \ (broken \cup ToSet(activeHooks)) :
           flagged[i] \in {None, App} /\ handler[i] \in {None, App}

HooksInv == HooksTypeOK /\ HooksSettled

LEMMA MaxOfSet == ASSUME NEW k \in Nat, NEW s \in SUBSET (1 .. k), s # {}
                  PROVE  Max(s) \in s
<1> DEFINE T == {n \in Nat : k - n \in s}
<1>1. \A x \in s : k - x \in T
  OBVIOUS
<1>2. T \in SUBSET Nat /\ T # {}
  BY <1>1
<1>3. PICK n \in T : \A m \in T : n <= m
  <2>. HIDE DEF T
  <2>. QED
    BY <1>2, LeastNat
<1>4. \A y \in s : k - n >= y
  <2>. SUFFICES ASSUME NEW y \in s PROVE k - n >= y
    OBVIOUS
  <2>1. k - y \in T
    BY <1>1
  <2>2. n \in Nat /\ y \in Int
    OBVIOUS
  <2>3. n <= k - y
    <3>. HIDE DEF T
    <3>. QED
      BY <1>3, <2>1
  <2>. QED
    BY <2>2, <2>3
<1>5. k - n \in s
  BY <1>3
<1>. HIDE DEF T
<1>. QED
  BY <1>4, <1>5 DEF Max

\* What apply_instrumentations' loop may have made of the instrumentors by now.
Applying(p) ==
    {acc \in [flagged : [Instrumentors -> {None, App} \cup Ours],
              handler : [Instrumentors -> {None, App} \cup Ours],
              active  : Seq(Instrumentors), applied : SUBSET installed] :
        /\ IsInjective(acc.active)
        /\ \A i \in ToSet(acc.active) :
               flagged[i] = None /\ acc.flagged[i] = p /\ acc.handler[i] \in {p, App}
        /\ \A i \in Instrumentors \ ToSet(acc.active) :
               acc.flagged[i] = flagged[i] /\ acc.handler[i] = handler[i]}

LEMMA ToSetAppend ==
    ASSUME NEW S, NEW s \in Seq(S), NEW x \in S
    PROVE  /\ ToSet(Append(s, x)) = ToSet(s) \cup {x}
           /\ ToSet(s) \subseteq S
           /\ IsInjective(s) /\ x \notin ToSet(s) => IsInjective(Append(s, x))
<1>1. /\ DOMAIN s = 1 .. Len(s) /\ Len(s) \in Nat
      /\ DOMAIN Append(s, x) = 1 .. Len(s) + 1
      /\ \A i \in 1 .. Len(s) : Append(s, x)[i] = s[i]
      /\ Append(s, x)[Len(s) + 1] = x
  OBVIOUS
<1>2. \A i : i \in 1 .. Len(s) + 1 <=> i \in 1 .. Len(s) \/ i = Len(s) + 1
  BY <1>1
<1>. QED
  BY <1>1, <1>2 DEF ToSet, IsInjective

LEMMA OneTurn ==
    ASSUME HooksInv, NEW p \in Ours, NEW raising \in SUBSET Instrumentors,
           NEW acc \in Applying(p), NEW n \in Names
    PROVE  OneApplied(acc, n, p, raising) \in Applying(p)
<1> DEFINE i == LoaderOf[n]
<1>1. i \in Instrumentors /\ None \notin Ours /\ App \notin Ours /\ None # App /\ p # None
  BY HooksAssumption DEF None, App, Ours
<1>2. /\ acc.flagged \in [Instrumentors -> {None, App} \cup Ours]
      /\ acc.handler \in [Instrumentors -> {None, App} \cup Ours]
      /\ acc.active \in Seq(Instrumentors) /\ acc.applied \in SUBSET installed
      /\ IsInjective(acc.active)
      /\ \A j \in ToSet(acc.active) :
             flagged[j] = None /\ acc.flagged[j] = p /\ acc.handler[j] \in {p, App}
      /\ \A j \in Instrumentors \ ToSet(acc.active) :
             acc.flagged[j] = flagged[j] /\ acc.handler[j] = handler[j]
  BY DEF Applying
<1>a. acc = [flagged |-> acc.flagged, handler |-> acc.handler, active |-> acc.active,
             applied |-> acc.applied]
  BY DEF Applying
<1>. HIDE DEF i
<1>3. CASE n \in installed /\ acc.flagged[i] # None
  <2> DEFINE new == [acc EXCEPT !.applied = @ \cup {n}]
  <2>1. OneApplied(acc, n, p, raising) = new
    BY <1>3 DEF OneApplied, i
  <2>2. new = [flagged |-> acc.flagged, handler |-> acc.handler, active |-> acc.active,
               applied |-> acc.applied \cup {n}]
    BY <1>a
  <2>3. new \in Applying(p)
    BY <1>2, <1>3, <2>2 DEF Applying
  <2>. QED
    BY <2>1, <2>3
<1>4. CASE n \in installed /\ acc.flagged[i] = None /\ i \notin raising
  <2> DEFINE new == [flagged |-> [acc.flagged EXCEPT ![i] = p],
                     handler |-> [acc.handler EXCEPT ![i] = IF @ = None THEN p ELSE @],
                     active  |-> Append(acc.active, i),
                     applied |-> acc.applied \cup {n}]
  <2>1. OneApplied(acc, n, p, raising) = new
    BY <1>4, <1>a DEF OneApplied, i
  <2>2. i \notin ToSet(acc.active)
    BY <1>1, <1>2, <1>4
  <2>3. flagged[i] = None /\ acc.handler[i] \in {None, App}
    <3>1. flagged[i] = None /\ acc.handler[i] = handler[i]
      BY <1>1, <1>2, <1>4, <2>2
    <3>2. i \notin broken
      BY <1>1, <3>1 DEF HooksInv, HooksSettled
    <3>3. i \in ToSet(activeHooks) => handler[i] \in {None, App}
      BY <1>1, <3>1 DEF HooksInv, HooksSettled, HooksTypeOK, ToSet
    <3>. QED
      BY <1>1, <3>1, <3>2, <3>3 DEF HooksInv, HooksSettled
  <2>4. /\ ToSet(Append(acc.active, i)) = ToSet(acc.active) \cup {i}
        /\ ToSet(acc.active) \subseteq Instrumentors
        /\ IsInjective(Append(acc.active, i)) /\ Append(acc.active, i) \in Seq(Instrumentors)
    BY <1>1, <1>2, <2>2, ToSetAppend
  <2>5. /\ new.flagged \in [Instrumentors -> {None, App} \cup Ours]
        /\ new.handler \in [Instrumentors -> {None, App} \cup Ours]
        /\ \A j \in Instrumentors : /\ new.flagged[j] = IF j = i THEN p ELSE acc.flagged[j]
                                    /\ j # i => new.handler[j] = acc.handler[j]
        /\ new.handler[i] \in {p, App}
    BY <1>1, <1>2, <2>3
  <2>6. /\ new.active = Append(acc.active, i) /\ new.applied \in SUBSET installed
        /\ new \in [flagged : [Instrumentors -> {None, App} \cup Ours],
                    handler : [Instrumentors -> {None, App} \cup Ours],
                    active  : Seq(Instrumentors), applied : SUBSET installed]
    BY <1>2, <1>4, <2>4, <2>5
  <2>. HIDE DEF new
  <2>7. \A j \in ToSet(new.active) :
           flagged[j] = None /\ new.flagged[j] = p /\ new.handler[j] \in {p, App}
    BY <1>2, <2>2, <2>3, <2>4, <2>5, <2>6
  <2>8. \A j \in Instrumentors \ ToSet(new.active) :
           new.flagged[j] = flagged[j] /\ new.handler[j] = handler[j]
    BY <1>2, <2>4, <2>5, <2>6
  <2>9. new \in Applying(p)
    BY <2>4, <2>6, <2>7, <2>8 DEF Applying
  <2>. QED
    BY <2>1, <2>9
<1>5. CASE n \notin installed \/ (acc.flagged[i] = None /\ i \in raising)
  BY <1>5 DEF OneApplied, i
<1>. QED
  BY <1>3, <1>4, <1>5

LEMMA AfterLoop ==
    ASSUME HooksInv, pyProvider = None, NEW p \in Ours, NEW raising \in SUBSET Instrumentors,
           NEW k \in Nat, NEW names \in [1 .. k -> Names]
    PROVE  FoldLeft(LAMBDA acc, n : OneApplied(acc, n, p, raising),
                    [flagged |-> flagged, handler |-> handler,
                     active |-> activeHooks, applied |-> {}], names) \in Applying(p)
<1> DEFINE S == 1 .. k
           A == Applying(p)
           base == [flagged |-> flagged, handler |-> handler, active |-> activeHooks, applied |-> {}]
           pick == [s \in SUBSET S |-> Max(s)]
           turn == [m \in S |-> [acc \in A |-> OneApplied(acc, names[m], p, raising)]]
<1>1. IsFiniteSet(S) /\ DOMAIN names = S
  BY FS_Interval
<1>2. base \in A
  <2>1. activeHooks = <<>>
    BY DEF HooksInv, HooksSettled
  <2>2. ToSet(activeHooks) = {} /\ IsInjective(activeHooks)
    BY <2>1 DEF ToSet, IsInjective
  <2>. QED
    BY <2>1, <2>2 DEF Applying, HooksInv, HooksTypeOK
<1>3. Picks(pick, S)
  BY MaxOfSet DEF Picks
<1>4. \A s \in SUBSET S : pick[s] = Max(s)
  OBVIOUS
<1>5. turn \in [S -> [A -> A]]
  BY OneTurn
<1>6. \A m \in S : \A acc \in A : turn[m][acc] = OneApplied(acc, names[m], p, raising)
  OBVIOUS
<1>. HIDE DEF S, A, base, pick, turn
<1>7. PICK g \in [SUBSET S -> A] : IsFold(g, SUBSET S, A, pick, turn, base)
  BY <1>1, <1>2, <1>3, <1>5, FoldExists, Zenon
<1> DEFINE Body(iter) == [s \in SUBSET S |-> IF s = {} THEN base
                             ELSE OneApplied(iter[s \ {Max(s)}], names[Max(s)], p, raising)]
           loop == CHOOSE iter : iter = Body(iter)
<1>p. \A s \in SUBSET S : s # {} => pick[s] \in S
  BY <1>3 DEF Picks
<1>8. g = Body(g)
  <2>1. ASSUME NEW s \in SUBSET S
        PROVE  g[s] = IF s = {} THEN base
                      ELSE OneApplied(g[s \ {Max(s)}], names[Max(s)], p, raising)
    <3>1. /\ s = {} => g[s] = base
          /\ s # {} => g[s] = turn[pick[s]][g[s \ {pick[s]}]]
      BY <1>7 DEF IsFold
    <3>2. s # {} => pick[s] \in S /\ g[s \ {pick[s]}] \in A
      BY <1>p
    <3>. QED
      BY <3>1, <3>2, <1>4, <1>6
  <2>. QED
    BY <1>7, <2>1
<1>9. loop = Body(loop)
  <2>. HIDE DEF Body
  <2>. QED
    BY <1>8
<1>10. \A s \in SUBSET S : loop[s] = IF s = {} THEN base
                             ELSE OneApplied(loop[s \ {Max(s)}], names[Max(s)], p, raising)
  <2>. HIDE DEF loop
  <2>. QED
    BY <1>9
<1>. HIDE DEF loop
<1>11. IsFold(loop, SUBSET S, A, pick, turn, base)
  <2>1. ASSUME NEW s \in SUBSET S, s # {}, loop[s \ {pick[s]}] \in A
        PROVE  loop[s] = turn[pick[s]][loop[s \ {pick[s]}]]
    <3>1. loop[s] = OneApplied(loop[s \ {pick[s]}], names[pick[s]], p, raising)
      BY <1>4, <1>10, <2>1
    <3>. QED
      BY <1>6, <1>p, <2>1, <3>1
  <2>2. loop[{}] = base
    BY <1>10
  <2>. QED
    BY <2>1, <2>2 DEF IsFold
<1>12. loop[S] \in A
  BY <1>1, <1>2, <1>3, <1>5, <1>11, FoldStays, Zenon
<1>13. FoldLeft(LAMBDA acc, n : OneApplied(acc, n, p, raising), base, names) = loop[S]
  BY <1>1 DEF loop, FoldLeft, MapThenFoldSet
<1>. QED
  BY <1>12, <1>13 DEF base, A

LEMMA HooksInvInit == HooksInit => HooksInv
<1>. SUFFICES ASSUME HooksInit PROVE HooksInv
  OBVIOUS
<1>1. 0 \in 0 .. MaxPyInits
  BY HooksAssumption
<1>2. ToSet(<<>>) = {} /\ IsInjective(<<>>)
  BY DEF ToSet, IsInjective
<1>3. activeHooks = <<>> /\ ToSet(activeHooks) = {} /\ IsInjective(activeHooks)
  BY <1>2 DEF HooksInit
<1>4. HooksTypeOK
  BY <1>1, <1>3 DEF HooksInit, HooksTypeOK, None
<1>. QED
  BY <1>3, <1>4 DEF HooksInit, HooksInv, HooksSettled

LEMMA KeptByInit ==
    ASSUME HooksInv, NEW names \in SeqOf(Names, MaxNames), NEW raising \in SUBSET Instrumentors,
           CallInit(names, raising)
    PROVE  HooksInv' /\ HostHooksKept
<1> DEFINE p == inits + 1
           done == FoldLeft(LAMBDA acc, n : OneApplied(acc, n, p, raising),
                            [flagged |-> flagged, handler |-> handler,
                             active |-> activeHooks, applied |-> {}], names)
<1>1. /\ pyProvider = None /\ inits < MaxPyInits
      /\ inits' = p /\ pyProvider' = p /\ installed' = installed /\ broken' = broken
      /\ flagged' = done.flagged /\ handler' = done.handler
      /\ activeHooks' = done.active /\ applied' = done.applied
  BY DEF CallInit
<1>2. /\ p \in Ours /\ p \in 0 .. MaxPyInits /\ p # None
      /\ None \notin Ours /\ App \notin Ours /\ None # App
  <2>1. inits \in 0 .. MaxPyInits
    BY DEF HooksInv, HooksTypeOK
  <2>2. inits < MaxPyInits
    BY <1>1
  <2>. QED
    BY <2>1, <2>2, HooksAssumption DEF Ours, None, App
<1>3. done \in Applying(p)
  <2>1. PICK k \in 0 .. MaxNames : names \in [1 .. k -> Names]
    BY DEF SeqOf
  <2>2. k \in Nat
    BY HooksAssumption
  <2>. HIDE DEF p
  <2>. QED
    BY <1>1, <1>2, <2>1, <2>2, AfterLoop
<1>. HIDE DEF p, done
<1>4. /\ flagged' \in [Instrumentors -> {None, App} \cup Ours]
      /\ handler' \in [Instrumentors -> {None, App} \cup Ours]
      /\ activeHooks' \in Seq(Instrumentors) /\ applied' \in SUBSET installed
      /\ IsInjective(activeHooks')
      /\ \A i \in ToSet(activeHooks') :
             flagged[i] = None /\ flagged'[i] = p /\ handler'[i] \in {p, App}
      /\ \A i \in Instrumentors \ ToSet(activeHooks') :
             flagged'[i] = flagged[i] /\ handler'[i] = handler[i]
  BY <1>1, <1>3 DEF Applying
<1>5. ToSet(activeHooks) = {}
  BY <1>1 DEF HooksInv, HooksSettled, ToSet
<1>6. HooksTypeOK'
  BY <1>1, <1>2, <1>4 DEF HooksInv, HooksTypeOK
<1>7. HooksSettled'
  BY <1>1, <1>2, <1>4, <1>5 DEF HooksInv, HooksSettled, HooksTypeOK
<1>8. HostHooksKept
  BY <1>2, <1>4 DEF HostHooksKept
<1>. QED
  BY <1>6, <1>7, <1>8 DEF HooksInv

LEMMA KeptByShutdown ==
    ASSUME HooksInv, NEW raising \in SUBSET Instrumentors, CallShutdown(raising)
    PROVE  HooksInv' /\ HostHooksKept
<1> DEFINE undone == Undone(raising)
<1>1. /\ pyProvider' = None /\ applied' = {} /\ activeHooks' = <<>>
      /\ flagged' = [i \in Instrumentors |-> IF i \in undone THEN None ELSE flagged[i]]
      /\ handler' = [i \in Instrumentors |-> IF i \in undone THEN None ELSE handler[i]]
      /\ broken' = broken \cup (raising \cap ToSet(activeHooks))
      /\ installed' = installed /\ inits' = inits
  BY DEF CallShutdown, HandlersAfter
<1>2. None \notin Ours /\ App \notin Ours /\ None # App
  BY HooksAssumption DEF None, App, Ours
<1>3. /\ ToSet(activeHooks) \subseteq Instrumentors
      /\ \A i \in ToSet(activeHooks) : flagged[i] \in Ours
  <2>1. activeHooks # <<>> => pyProvider \in Ours
    BY DEF HooksInv, HooksSettled, HooksTypeOK
  <2>2. activeHooks = <<>> => ToSet(activeHooks) = {}
    BY DEF ToSet
  <2>3. \A i \in ToSet(activeHooks) : flagged[i] = pyProvider
    BY DEF HooksInv, HooksSettled
  <2>4. ToSet(activeHooks) \subseteq Instrumentors
    BY DEF HooksInv, HooksTypeOK, ToSet
  <2>. QED
    BY <2>1, <2>2, <2>3, <2>4
<1>4. undone = ToSet(activeHooks) \ raising
  BY <1>2, <1>3 DEF Undone
<1>. HIDE DEF undone
<1>5. ToSet(activeHooks') = {} /\ IsInjective(activeHooks') /\ activeHooks' \in Seq(Instrumentors)
  BY <1>1 DEF ToSet, IsInjective
<1>6. HooksTypeOK'
  BY <1>1, <1>3, <1>5 DEF HooksInv, HooksTypeOK
<1>7. HooksSettled'
  BY <1>1, <1>2, <1>3, <1>4, <1>5 DEF HooksInv, HooksSettled, HooksTypeOK
<1>8. HostHooksKept
  BY <1>1, <1>2, <1>3, <1>4 DEF HostHooksKept
<1>. QED
  BY <1>6, <1>7, <1>8 DEF HooksInv

LEMMA KeptByHost ==
    ASSUME HooksInv, NEW i \in Instrumentors, HostApplies(i) \/ HostRemoves(i)
    PROVE  HooksInv' /\ HostHooksKept
<1>1. /\ installed' = installed /\ pyProvider' = pyProvider /\ inits' = inits
      /\ activeHooks' = activeHooks /\ applied' = applied /\ broken' = broken
  BY DEF HostApplies, HostRemoves
<1>2. None \notin Ours /\ App \notin Ours /\ None # App
  BY HooksAssumption DEF None, App, Ours
<1>3. i \notin ToSet(activeHooks) /\ i \notin broken
  <2>1. flagged[i] \in {None, App}
    BY DEF HostApplies, HostRemoves
  <2>2. \A j \in ToSet(activeHooks) : flagged[j] \in Ours
    <3>1. activeHooks = <<>> => ToSet(activeHooks) = {}
      BY DEF ToSet
    <3>. QED
      BY <3>1 DEF HooksInv, HooksSettled, HooksTypeOK
  <2>. QED
    BY <1>2, <2>1, <2>2 DEF HooksInv, HooksSettled
<1>4. /\ flagged' \in [Instrumentors -> {None, App} \cup Ours]
      /\ handler' \in [Instrumentors -> {None, App} \cup Ours]
      /\ flagged'[i] \in {None, App} /\ handler'[i] \in {None, App}
      /\ \A j \in Instrumentors \ {i} : flagged'[j] = flagged[j] /\ handler'[j] = handler[j]
  BY <1>2, <1>3 DEF HostApplies, HostRemoves, HooksInv, HooksTypeOK, HooksSettled
<1>5. ToSet(activeHooks) \subseteq Instrumentors
  BY DEF HooksInv, HooksTypeOK, ToSet
<1>6. HooksTypeOK'
  BY <1>1, <1>4 DEF HooksInv, HooksTypeOK
<1>7. HooksSettled'
  BY <1>1, <1>3, <1>4, <1>5 DEF HooksInv, HooksSettled, HooksTypeOK
<1>. QED
  BY <1>1, <1>6, <1>7 DEF HooksInv, HostHooksKept

LEMMA HooksInvNext ==
    HooksInv /\ [HooksNext]_hooksVars => HooksInv' /\ (UNCHANGED hooksVars \/ HostHooksKept)
<1>. SUFFICES ASSUME HooksInv, [HooksNext]_hooksVars
              PROVE  HooksInv' /\ (UNCHANGED hooksVars \/ HostHooksKept)
  OBVIOUS
<1>1. CASE UNCHANGED hooksVars
  BY <1>1 DEF hooksVars, HooksInv, HooksTypeOK, HooksSettled
<1>2. CASE HooksNext
  BY <1>2, KeptByInit, KeptByShutdown, KeptByHost DEF HooksNext
<1>. QED
  BY <1>1, <1>2

\* The instrumentors of the Python SDK through any number of inits and shutdowns,
\* whatever raises on the way (instrument.py, tracer.py).
THEOREM HooksUndone == HooksSpec => HooksBalanced
<1>1. HooksInv => HooksTypeOK /\ HooksOfThisInit /\ NothingLeftBehind
  <2>. SUFFICES ASSUME HooksInv PROVE HooksOfThisInit /\ NothingLeftBehind
    BY DEF HooksInv
  <2>1. None \notin Ours /\ App \notin Ours
    BY HooksAssumption DEF None, App, Ours
  <2>2. activeHooks = <<>> => ToSet(activeHooks) = {}
    BY DEF ToSet
  <2>3. HooksOfThisInit
    BY <2>1, <2>2 DEF HooksOfThisInit, HooksInv, HooksSettled, HooksTypeOK
  <2>4. NothingLeftBehind
    BY <2>1, <2>2 DEF NothingLeftBehind, HooksInv, HooksSettled
  <2>. QED
    BY <2>3, <2>4
<1>2. HooksInv' => HooksTypeOK' /\ HooksOfThisInit' /\ NothingLeftBehind'
  BY <1>1, PTL
<1>3. HooksInv /\ [HooksNext]_hooksVars
      => [/\ HooksTypeOK' /\ HooksOfThisInit' /\ NothingLeftBehind' /\ HostHooksKept]_hooksVars
  BY <1>2, HooksInvNext
<1>. QED BY <1>3, HooksInvInit, HooksInvNext, PTL DEF HooksSpec, HooksBalanced

(***************************************************************************)
(* Attributes and events of the Python SDK's spans.                        *)
(***************************************************************************)

\* A sequence of members of K, each at most once.
Once(s, K) == s \in Seq(K) /\ IsInjective(s)

LEMMA OncePopped == ASSUME NEW k, NEW keys PROVE Once(Popped(k, keys), {k})
<1>1. <<k>> \in Seq({k}) /\ DOMAIN <<k>> = {1}
  OBVIOUS
<1>2. <<>> \in Seq({k}) /\ IsInjective(<<>>)
  BY DEF IsInjective
<1>3. IsInjective(<<k>>)
  BY <1>1 DEF IsInjective
<1>. QED
  BY <1>1, <1>2, <1>3 DEF Once, Popped

LEMMA OnceNone == ASSUME NEW K PROVE Once(<<>>, K)
BY DEF Once, IsInjective

LEMMA OnceMore == ASSUME NEW s, NEW K, NEW L, Once(s, K), K \subseteq L PROVE Once(s, L)
BY DEF Once

LEMMA OnceBoth == ASSUME NEW s, NEW t, NEW K, NEW L, Once(s, K), Once(t, L), K \cap L = {}
                  PROVE  Once(s \o t, K \cup L)
<1>1. s \in Seq(K \cup L) /\ t \in Seq(K \cup L)
  BY DEF Once
<1>2. s \o t \in Seq(K \cup L) /\ Len(s \o t) = Len(s) + Len(t)
  BY <1>1
<1>3. ASSUME NEW i \in 1 .. Len(s \o t), NEW j \in 1 .. Len(s \o t), (s \o t)[i] = (s \o t)[j]
      PROVE  i = j
  <2>1. \A n \in 1 .. Len(s) : (s \o t)[n] = s[n] /\ s[n] \in K
    BY <1>1 DEF Once
  <2>2. \A n \in 1 .. Len(s) + Len(t) : n > Len(s)
            => (s \o t)[n] = t[n - Len(s)] /\ t[n - Len(s)] \in L /\ n - Len(s) \in 1 .. Len(t)
    BY <1>1 DEF Once
  <2>3. \A m, n \in 1 .. Len(s) : s[m] = s[n] => m = n
    BY DEF Once, IsInjective
  <2>4. \A m, n \in 1 .. Len(t) : t[m] = t[n] => m = n
    BY DEF Once, IsInjective
  <2>5. Len(s) \in Nat /\ Len(t) \in Nat
    BY DEF Once
  <2>6. CASE i <= Len(s) /\ j <= Len(s)
    BY <1>2, <1>3, <2>1, <2>3, <2>5, <2>6
  <2>7. CASE i > Len(s) /\ j > Len(s)
    BY <1>2, <1>3, <2>2, <2>4, <2>5, <2>7
  <2>8. CASE i <= Len(s) /\ j > Len(s)
    BY <1>2, <1>3, <2>1, <2>2, <2>5, <2>8
  <2>9. CASE i > Len(s) /\ j <= Len(s)
    BY <1>2, <1>3, <2>1, <2>2, <2>5, <2>9
  <2>. QED
    BY <2>5, <2>6, <2>7, <2>8, <2>9, <1>2
<1>. QED
  BY <1>2, <1>3 DEF Once, IsInjective

\* Each message is popped from a key of its own.
LEMMA EventsOnce == ASSUME NEW kind, NEW held, NEW keys
    PROVE  IsInjective((ReturnedInputs(kind, held) \o CollectedInputs(keys))
                       \o (ReturnedChoices(kind, held) \o CollectedChoices(keys)))
<1>1. Once(ReturnedInputs(kind, held), {"llm.input_messages", "input.value"})
  <2> DEFINE K == {"llm.input_messages", "input.value"}
  <2>1. ASSUME NEW k \in K PROVE Once(Popped(k, held), K)
    <3>1. Once(Popped(k, held), {k}) /\ {k} \subseteq K
      BY OncePopped
    <3>. HIDE DEF K
    <3>. QED
      BY <3>1, OnceMore
  <2>2. Once(<<>>, K)
    BY OnceNone
  <2>. HIDE DEF K
  <2>3. "llm.input_messages" \in K /\ "input.value" \in K
    BY DEF K
  <2>4. Once(ReturnedInputs(kind, held), K)
    BY <2>1, <2>2, <2>3 DEF ReturnedInputs
  <2>. QED
    BY <2>4 DEF K
<1>2. Once(ReturnedChoices(kind, held), {"llm.output_messages", "output.value", "retrieval.documents"})
  <2> DEFINE K == {"llm.output_messages", "output.value", "retrieval.documents"}
  <2>1. ASSUME NEW k \in K PROVE Once(Popped(k, held), K)
    <3>1. Once(Popped(k, held), {k}) /\ {k} \subseteq K
      BY OncePopped
    <3>. HIDE DEF K
    <3>. QED
      BY <3>1, OnceMore
  <2>2. Once(<<>>, K)
    BY OnceNone
  <2>. HIDE DEF K
  <2>3. "llm.output_messages" \in K /\ "output.value" \in K /\ "retrieval.documents" \in K
    BY DEF K
  <2>4. Once(ReturnedChoices(kind, held), K)
    BY <2>1, <2>2, <2>3 DEF ReturnedChoices
  <2>. QED
    BY <2>4 DEF K
<1>3. Once(CollectedInputs(keys), {"system_instructions", "input.messages", "prompt.0", "tool.call.arguments"})
  <2> DEFINE one == Popped("system_instructions", keys)
             two == Popped("input.messages", keys)
             three == Popped("prompt.0", keys)
             four == Popped("tool.call.arguments", keys)
  <2>1. /\ Once(one, {"system_instructions"}) /\ Once(two, {"input.messages"})
        /\ Once(three, {"prompt.0"}) /\ Once(four, {"tool.call.arguments"})
    BY OncePopped
  <2>. HIDE DEF one, two, three, four
  <2>2. Once(one \o two, {"system_instructions"} \cup {"input.messages"})
    BY <2>1, OnceBoth
  <2>3. Once((one \o two) \o three, ({"system_instructions"} \cup {"input.messages"}) \cup {"prompt.0"})
    BY <2>1, <2>2, OnceBoth
  <2>4. Once(((one \o two) \o three) \o four,
             (({"system_instructions"} \cup {"input.messages"}) \cup {"prompt.0"})
                 \cup {"tool.call.arguments"})
    BY <2>1, <2>3, OnceBoth
  <2>. QED
    BY <2>4 DEF one, two, three, four, CollectedInputs, Once
<1>4. Once(CollectedChoices(keys), {"completion.0", "tool.call.result"})
  <2>1. Once(Popped("completion.0", keys), {"completion.0"})
        /\ Once(Popped("tool.call.result", keys), {"tool.call.result"})
    BY OncePopped
  <2>2. Once(CollectedChoices(keys), {"completion.0"} \cup {"tool.call.result"})
    BY <2>1, OnceBoth DEF CollectedChoices
  <2>. QED
    BY <2>2 DEF Once
<1>5. Once(ReturnedInputs(kind, held) \o CollectedInputs(keys),
           {"llm.input_messages", "input.value"}
               \cup {"system_instructions", "input.messages", "prompt.0", "tool.call.arguments"})
  BY <1>1, <1>3, OnceBoth
<1>6. Once(ReturnedChoices(kind, held) \o CollectedChoices(keys),
           {"llm.output_messages", "output.value", "retrieval.documents"}
               \cup {"completion.0", "tool.call.result"})
  BY <1>2, <1>4, OnceBoth
<1> DEFINE inputs  == ReturnedInputs(kind, held) \o CollectedInputs(keys)
           choices == ReturnedChoices(kind, held) \o CollectedChoices(keys)
           I == {"llm.input_messages", "input.value"}
                    \cup {"system_instructions", "input.messages", "prompt.0", "tool.call.arguments"}
           C == {"llm.output_messages", "output.value", "retrieval.documents"}
                    \cup {"completion.0", "tool.call.result"}
<1>7. I \cap C = {}
  OBVIOUS
<1>. HIDE DEF inputs, choices, I, C
<1>8. Once(inputs, I) /\ Once(choices, C)
  BY <1>5, <1>6 DEF inputs, choices, I, C
<1>9. Once(inputs \o choices, I \cup C)
  BY <1>7, <1>8, OnceBoth
<1>. QED
  BY <1>9 DEF Once, inputs, choices

\* What is in a sequence is in every longer one made of it.
LEMMA RangeBoth ==
    ASSUME NEW S, NEW s \in Seq(S), NEW t \in Seq(S)
    PROVE  Range(s) \subseteq Range(s \o t) /\ Range(t) \subseteq Range(s \o t)
<1>1. s \o t \in Seq(S) /\ Len(s \o t) = Len(s) + Len(t)
  OBVIOUS
<1>3. ASSUME NEW i \in 1 .. Len(s) PROVE s[i] \in Range(s \o t)
  <2>1. i \in 1 .. Len(s \o t) /\ (s \o t)[i] = s[i]
    BY <1>1
  <2>. QED
    BY <1>1, <2>1 DEF Range
<1>4. ASSUME NEW i \in 1 .. Len(t) PROVE t[i] \in Range(s \o t)
  <2> DEFINE n == Len(s) + i
  <2>1. n \in 1 .. Len(s \o t) /\ (s \o t)[n] = t[i]
    BY <1>1
  <2>2. DOMAIN (s \o t) = 1 .. Len(s \o t)
    BY <1>1
  <2>. HIDE DEF n
  <2>. QED
    BY <2>1, <2>2 DEF Range
<1>2. DOMAIN s = 1 .. Len(s) /\ DOMAIN t = 1 .. Len(t)
  OBVIOUS
<1>. QED
  BY <1>2, <1>3, <1>4 DEF Range

\* A key that is there is popped.
LEMMA PoppedIn == ASSUME NEW k, NEW keys, k \in keys PROVE k \in Range(Popped(k, keys))
<1>1. DOMAIN <<k>> = {1} /\ <<k>>[1] = k
  OBVIOUS
<1>. QED
  BY <1>1 DEF Popped, Range

LEMMA PoppedSeq == ASSUME NEW K, NEW k \in K, NEW keys PROVE Popped(k, keys) \in Seq(K)
<1>1. <<k>> \in Seq(K) /\ <<>> \in Seq(K)
  OBVIOUS
<1>. QED
  BY <1>1 DEF Popped

\* The messages found under the keys of the GenAI conventions are all among the events.
LEMMA EventsCarry == ASSUME NEW kind, NEW held, NEW keys
    PROVE  keys \cap (GenAiContent \ {"output.messages_bad"})
               \subseteq Range((ReturnedInputs(kind, held) \o CollectedInputs(keys))
                               \o (ReturnedChoices(kind, held) \o CollectedChoices(keys)))
<1> DEFINE P(k) == Popped(k, keys)
           ri == ReturnedInputs(kind, held)
           rc == ReturnedChoices(kind, held)
           one == P("system_instructions")
           two == P("input.messages")
           three == P("prompt.0")
           four == P("tool.call.arguments")
           five == P("completion.0")
           six == P("tool.call.result")
           ci == ((one \o two) \o three) \o four
           cc == five \o six
           M == GenAiContent \cup OpenInferenceContent
           all == (ri \o ci) \o (rc \o cc)
<1>0. CollectedInputs(keys) = ci /\ CollectedChoices(keys) = cc
  BY DEF CollectedInputs, CollectedChoices
<1>1. /\ ri \in Seq(M) /\ rc \in Seq(M)
      /\ one \in Seq(M) /\ two \in Seq(M) /\ three \in Seq(M)
      /\ four \in Seq(M) /\ five \in Seq(M) /\ six \in Seq(M)
  <2>1. /\ "system_instructions" \in M /\ "input.messages" \in M /\ "prompt.0" \in M
        /\ "tool.call.arguments" \in M /\ "completion.0" \in M /\ "tool.call.result" \in M
        /\ "llm.input_messages" \in M /\ "llm.output_messages" \in M /\ "input.value" \in M
        /\ "output.value" \in M /\ "retrieval.documents" \in M
    BY DEF GenAiContent, GenAiInputs, GenAiChoices, OpenInferenceContent
  <2>. HIDE DEF M
  <2>2. <<>> \in Seq(M)
    OBVIOUS
  <2>3. ri \in Seq(M)
    BY <2>1, <2>2, PoppedSeq DEF ReturnedInputs
  <2>4. rc \in Seq(M)
    BY <2>1, <2>2, PoppedSeq DEF ReturnedChoices
  <2>. QED
    BY <2>1, <2>3, <2>4, PoppedSeq
<1>3. /\ "system_instructions" \in keys => "system_instructions" \in Range(one)
      /\ "input.messages" \in keys => "input.messages" \in Range(two)
      /\ "prompt.0" \in keys => "prompt.0" \in Range(three)
      /\ "tool.call.arguments" \in keys => "tool.call.arguments" \in Range(four)
      /\ "completion.0" \in keys => "completion.0" \in Range(five)
      /\ "tool.call.result" \in keys => "tool.call.result" \in Range(six)
  BY PoppedIn
<1>. HIDE DEF one, two, three, four, five, six, ri, rc, M
<1>4. one \o two \in Seq(M) /\ (one \o two) \o three \in Seq(M) /\ ci \in Seq(M)
      /\ cc \in Seq(M) /\ ri \o ci \in Seq(M) /\ rc \o cc \in Seq(M)
  BY <1>1
<1>5. /\ Range(one) \subseteq Range(one \o two) /\ Range(two) \subseteq Range(one \o two)
      /\ Range(one \o two) \subseteq Range((one \o two) \o three)
      /\ Range(three) \subseteq Range((one \o two) \o three)
      /\ Range((one \o two) \o three) \subseteq Range(ci) /\ Range(four) \subseteq Range(ci)
  BY <1>1, <1>4, RangeBoth
<1>6. Range(five) \subseteq Range(cc) /\ Range(six) \subseteq Range(cc)
  BY <1>1, RangeBoth
<1>. HIDE DEF ci, cc
<1>7. Range(ci) \subseteq Range(ri \o ci) /\ Range(cc) \subseteq Range(rc \o cc)
  BY <1>1, <1>4, RangeBoth
<1>8. Range(ri \o ci) \subseteq Range(all) /\ Range(rc \o cc) \subseteq Range(all)
  BY <1>4, RangeBoth
<1>. HIDE DEF all
<1>9. keys \cap (GenAiContent \ {"output.messages_bad"}) \subseteq Range(all)
  BY <1>3, <1>5, <1>6, <1>7, <1>8 DEF GenAiContent, GenAiInputs, GenAiChoices
<1>. QED
  BY <1>0, <1>9 DEF all, ri, rc

\* What becomes of one span is as it should be.
SpanSound(out, sp) ==
    /\ out.from = sp
    /\ out.keys \cap Content \subseteq OutOfReach(sp)
    /\ IF sp.own THEN out.events = <<"own">>
       ELSE /\ IsInjective(out.events)
            /\ out.events # <<>> => capture
            /\ capture => sp.keys \cap (GenAiContent \ {"output.messages_bad"})
                              \subseteq Range(out.events)
    /\ "cost" \in out.keys <=> "cost" \in sp.keys \/ (TellsUsage(sp) /\ TellsModel(sp))

LEMMA EnrichedSound == ASSUME capture \in BOOLEAN, NEW sp, sp.own \in BOOLEAN PROVE SpanSound(Enriched(sp), sp)
<1> DEFINE stripped == Stripped(sp.kind, sp.keys)
           keys == Hinted(Renamed(stripped))
           out == Enriched(sp)
<1>1. out.keys = (keys \ (GenAiContent \cup StepContent)) \cup Priced(keys)
      /\ out.events = Events(sp, keys) /\ out.from = sp
  BY DEF Enriched
<1>2. sp.own => out.events = <<"own">>
  <2>. HIDE DEF keys, out
  <2>. QED
    BY <1>1 DEF Events
<1>3. ASSUME ~sp.own
      PROVE  IsInjective(out.events) /\ (out.events # <<>> => capture)
  <2>1. IsInjective(<<>>)
    BY OnceNone DEF Once
  <2>. HIDE DEF keys, out
  <2>. QED
    BY <1>1, <1>3, <2>1, EventsOnce DEF Events
<1>4. ASSUME ~sp.own, capture
      PROVE  sp.keys \cap (GenAiContent \ {"output.messages_bad"}) \subseteq Range(out.events)
  <2>1. sp.keys \cap GenAiContent \subseteq keys
    BY DEF Stripped, Promoted, Renamed, Hinted, GenAiContent, GenAiInputs, GenAiChoices,
           OpenInferenceContent
  <2>. HIDE DEF keys, out
  <2>2. keys \cap (GenAiContent \ {"output.messages_bad"}) \subseteq Range(out.events)
    BY <1>1, <1>4, EventsCarry DEF Events
  <2>. QED
    BY <2>1, <2>2
<1>5. out.keys \cap Content \subseteq OutOfReach(sp)
  <2>1. Priced(keys) \cap Content = {}
    BY DEF Priced, Content, GenAiContent, GenAiInputs, GenAiChoices, OpenInferenceContent,
           StepContent, ToolCalls
  <2>2. sp.kind # "none" => keys \cap OpenInferenceContent = {}
    BY DEF Stripped, Promoted, Renamed, Hinted, OpenInferenceContent
  <2>. HIDE DEF keys, out
  <2>. QED
    BY <1>1, <2>1, <2>2 DEF Content, OutOfReach
<1>6. "usage.input_tokens" \in keys <=> TellsUsage(sp)
  BY DEF Stripped, Promoted, Renamed, Hinted, TellsUsage, OpenInferenceContent
<1>7. "request.model" \in keys <=> TellsModel(sp)
  BY DEF Stripped, Promoted, Renamed, Hinted, TellsModel, OpenInferenceContent
<1>8. "cost" \in keys <=> "cost" \in sp.keys
  BY DEF Stripped, Promoted, Renamed, Hinted, OpenInferenceContent
<1>9. "cost" \in out.keys <=> "cost" \in sp.keys \/ (TellsUsage(sp) /\ TellsModel(sp))
  <2>. HIDE DEF keys, out
  <2>1. "cost" \in out.keys <=> "cost" \in keys \/ "cost" \in Priced(keys)
    BY <1>1 DEF GenAiContent, GenAiInputs, GenAiChoices, StepContent
  <2>2. "cost" \in Priced(keys) <=> "usage.input_tokens" \in keys /\ "request.model" \in keys
    BY DEF Priced
  <2>. QED
    BY <1>6, <1>7, <1>8, <2>1, <2>2
<1>. HIDE DEF keys, out
<1>10. SpanSound(out, sp)
  BY <1>1, <1>2, <1>3, <1>4, <1>5, <1>9 DEF SpanSound
<1>. QED
  BY <1>10 DEF out

\* Every span under way tells whether it has content events, and what was exported is
\* as it should be.
EnrichInv == /\ capture \in BOOLEAN
             /\ \A sp \in underWay : sp.own \in BOOLEAN
             /\ ContentMoves

LEMMA NextEnrichInv == EnrichInv /\ [EnrichNext]_enrichVars => EnrichInv'
<1>. SUFFICES ASSUME EnrichInv, [EnrichNext]_enrichVars PROVE EnrichInv'
  OBVIOUS
<1>. USE DEF EnrichInv, ContentMoves, ContentNeverStays, ContentKeptOnce, UsageIsPriced
<1>1. CASE UNCHANGED enrichVars
  BY <1>1 DEF enrichVars
<1>2. ASSUME NEW kind \in Kinds, NEW keys \in KeySets, NEW own \in BOOLEAN,
             WriteSpan(kind, keys, own)
      PROVE  EnrichInv'
  BY <1>2 DEF WriteSpan
<1>3. CASE OnSpanEnd
  <2>1. PICK sp \in underWay : /\ underWay' = underWay \ {sp}
                               /\ exported' = exported \cup {Enriched(sp)}
                               /\ UNCHANGED capture
    BY <1>3 DEF OnSpanEnd
  <2> DEFINE out == Enriched(sp)
  <2>2. SpanSound(out, sp)
    BY EnrichedSound
  <2>. HIDE DEF out
  <2>3. exported' = exported \cup {out} /\ capture' = capture
    BY <2>1 DEF out
  <2>4. ContentNeverStays'
    BY <2>2, <2>3 DEF SpanSound
  <2>5. ContentKeptOnce'
    BY <2>2, <2>3 DEF SpanSound
  <2>6. UsageIsPriced'
    BY <2>2, <2>3 DEF SpanSound, TellsUsage, TellsModel
  <2>. QED
    BY <2>1, <2>4, <2>5, <2>6
<1>. QED
  BY <1>1, <1>2, <1>3 DEF EnrichNext

\* The content rule and its limits, for spans of any convention and kind
\* (_processor.py, _openinference.py).
THEOREM ContentRule == EnrichSpec => []ContentMoves
<1>1. EnrichInit => EnrichInv
  BY DEF EnrichInit, EnrichInv, ContentMoves, ContentNeverStays, ContentKeptOnce, UsageIsPriced
<1>2. EnrichInv => ContentMoves
  BY DEF EnrichInv
<1>. QED BY <1>1, <1>2, NextEnrichInv, PTL DEF EnrichSpec

(***************************************************************************)
(* Scores and the variants they flag.                                      *)
(***************************************************************************)

\* Scores add up to an integer.
LEMMA ScoresSum == ASSUME NEW S, IsFiniteSet(S), \A r \in S : r.body \in Int
                   PROVE  MapThenSumSet(LAMBDA r : r.body, S) \in Int
<1> DEFINE pick == [s \in SUBSET S |-> CHOOSE x \in s : TRUE]
           add  == [x \in S |-> [a \in Int |-> x.body + a]]
<1>1. Picks(pick, S)
  BY DEF Picks
<1>2. add \in [S -> [Int -> Int]]
  OBVIOUS
<1>3. \A x \in S : \A a \in Int : add[x][a] = x.body + a
  OBVIOUS
<1>4. \A s \in SUBSET S : pick[s] = CHOOSE x \in s : TRUE
  OBVIOUS
<1>. HIDE DEF pick, add
<1>5. PICK g \in [SUBSET S -> Int] : IsFold(g, SUBSET S, Int, pick, add, 0)
  <2>1. 0 \in Int
    OBVIOUS
  <2>. QED
    BY <1>1, <1>2, <2>1, FoldExists, Zenon
<1> DEFINE Body(iter) == [s \in SUBSET S |-> IF s = {} THEN 0
                             ELSE (CHOOSE x \in s : TRUE).body + iter[s \ {CHOOSE x \in s : TRUE}]]
           sum == CHOOSE iter : iter = Body(iter)
<1>6. g = Body(g)
  <2>1. ASSUME NEW s \in SUBSET S
        PROVE  g[s] = IF s = {} THEN 0
                      ELSE (CHOOSE x \in s : TRUE).body + g[s \ {CHOOSE x \in s : TRUE}]
    <3>1. g[s] = IF s = {} THEN 0 ELSE add[pick[s]][g[s \ {pick[s]}]]
      BY <1>5 DEF IsFold
    <3>2. s # {} => pick[s] \in S /\ g[s \ {pick[s]}] \in Int
      BY <1>1 DEF Picks
    <3>. QED
      BY <3>1, <3>2, <1>3, <1>4
  <2>. QED
    BY <1>5, <2>1
<1>7. sum = Body(sum)
  <2>. HIDE DEF Body
  <2>. QED
    BY <1>6
<1>8. \A s \in SUBSET S : sum[s] = IF s = {} THEN 0
                             ELSE (CHOOSE x \in s : TRUE).body + sum[s \ {CHOOSE x \in s : TRUE}]
  <2>. HIDE DEF sum
  <2>. QED
    BY <1>7
<1>. HIDE DEF sum
<1>9. IsFold(sum, SUBSET S, Int, pick, add, 0)
  <2>1. \A s \in SUBSET S : s # {} => pick[s] \in S
    BY <1>1 DEF Picks
  <2>2. ASSUME NEW s \in SUBSET S, s # {}, sum[s \ {pick[s]}] \in Int
        PROVE  sum[s] = add[pick[s]][sum[s \ {pick[s]}]]
    <3>1. sum[s] = pick[s].body + sum[s \ {pick[s]}]
      BY <1>4, <1>8, <2>2
    <3>. QED
      BY <1>3, <2>1, <2>2, <3>1
  <2>3. sum[{}] = 0
    BY <1>8
  <2>. QED
    BY <2>2, <2>3 DEF IsFold
<1>10. sum[S] \in Int
  <2>1. 0 \in Int
    OBVIOUS
  <2>. QED
    BY <1>1, <1>2, <1>9, <2>1, FoldStays, Zenon
<1>. QED
  BY <1>10 DEF sum, MapThenSumSet, MapThenFoldSet

\* What the tables hold, and where each row comes from.
FeedbackInv ==
    /\ IsFiniteSet(recorded)
    /\ \A e \in recorded : e.body \in Bodies
    /\ inTables \subseteq ScoredSpans
    /\ \A r \in table : r.body \in Bodies \ {Malformed}
    /\ \A r \in table : r.eval = "def" =>
           r.span \in ScoredSpans /\ (r.body # Error => <<r.span, r.version>> \in scored)
    /\ OneRowPerSpan /\ WindowPromoted

\* Of the rows with one key exactly one is left.
LEMMA OneWinner ==
    ASSUME NEW w, NEW keys, IsFiniteSet(w), Cardinality(w) = Cardinality(keys),
           {Key(r) : r \in w} = keys
    PROVE  \A r, q \in w : Key(r) = Key(q) => r = q
<1> DEFINE key == [r \in w |-> Key(r)]
<1>1. key \in Surjection(w, keys)
  BY DEF Surjection
<1>2. key \in Injection(w, keys)
  <2>. HIDE DEF key
  <2>. QED
    BY <1>1, FS_SurjSameCardinalityImpliesInj
<1>. QED
  BY <1>2 DEF Injection, IsInjective

\* Scoring inserts rows with keys that the table does not have.
LEMMA DefinitionKept ==
    ASSUME FeedbackInv, NEW k, NEW spans, RunDefinition(k, spans)
    PROVE  FeedbackInv'
<1>1. PICK outcome \in [spans -> Judgments] :
        /\ table' = table \cup {[eval |-> "def", version |-> k, span |-> s,
                                 body |-> outcome[s].body, passed |-> outcome[s].passed] :
                                    s \in spans}
        /\ scored' = scored \cup {<<s, k>> : s \in {t \in spans : outcome[t].body # Error}}
  BY DEF RunDefinition
<1>2. /\ passes' = FALSE /\ UNCHANGED <<ticks, recording, recorded, inTables, version>>
      /\ spans \subseteq inTables /\ \A s \in spans : \A r \in table : Key(r) # <<"def", k, s>>
  BY DEF RunDefinition, Fresh
<1>3. \A s \in spans : outcome[s].body \in Bodies \ {Malformed}
  BY FeedbackAssumption DEF Bodies, Error, Malformed
<1>4. \A r \in table' : \/ r \in table
                        \/ \E s \in spans : /\ r.eval = "def" /\ r.version = k /\ r.span = s
                                            /\ r.body = outcome[s].body
                                            /\ r = [eval |-> "def", version |-> k, span |-> s,
                                                    body |-> outcome[s].body,
                                                    passed |-> outcome[s].passed]
  BY <1>1
<1>5. \A r, q \in table' : Key(r) = Key(q) => r = q
  <2>. SUFFICES ASSUME NEW r \in table', NEW q \in table', Key(r) = Key(q) PROVE r = q
    OBVIOUS
  <2>1. CASE r \in table /\ q \in table
    BY <2>1 DEF FeedbackInv, OneRowPerSpan
  <2>2. CASE r \notin table /\ q \in table
    BY <1>2, <1>4, <2>2 DEF Key
  <2>3. CASE r \in table /\ q \notin table
    BY <1>2, <1>4, <2>3 DEF Key
  <2>4. CASE r \notin table /\ q \notin table
    BY <1>4, <2>4 DEF Key
  <2>. QED
    BY <2>1, <2>2, <2>3, <2>4
<1>6. OneRowPerSpan'
  BY <1>2, <1>4, <1>5 DEF FeedbackInv, OneRowPerSpan
<1>7. \A r \in table' : r.eval = "def" =>
          r.span \in ScoredSpans /\ (r.body # Error => <<r.span, r.version>> \in scored')
  BY <1>1, <1>2, <1>4 DEF FeedbackInv
<1>. QED
  BY <1>2, <1>3, <1>4, <1>6, <1>7 DEF FeedbackInv, WindowPromoted

LEMMA NextFeedbackInv == FeedbackInv /\ [FeedbackNext]_feedbackVars => FeedbackInv'
<1>. SUFFICES ASSUME FeedbackInv, [FeedbackNext]_feedbackVars PROVE FeedbackInv'
  OBVIOUS
<1>1. CASE UNCHANGED feedbackVars
  BY <1>1 DEF FeedbackInv, feedbackVars, OneRowPerSpan, WindowPromoted, SdkWindow
<1>2. CASE PassTime
  BY <1>2 DEF FeedbackInv, PassTime, OneRowPerSpan, WindowPromoted
<1>3. ASSUME NEW s \in ScoredSpans, EndSpan(s) PROVE FeedbackInv'
  BY <1>3 DEF FeedbackInv, EndSpan, OneRowPerSpan, WindowPromoted
<1>4. ASSUME NEW s \in ScoredSpans, LandScored(s) PROVE FeedbackInv'
  BY <1>4 DEF FeedbackInv, LandScored, OneRowPerSpan, WindowPromoted
<1>5. ASSUME NEW s \in ScoredSpans, NEW body \in Bodies, Record(s, body) PROVE FeedbackInv'
  <2>1. IsFiniteSet(recorded')
    BY <1>5, FS_AddElement DEF FeedbackInv, Record
  <2>2. \A e \in recorded' : e.body \in Bodies
    BY <1>5 DEF FeedbackInv, Record
  <2>3. recorded \subseteq recorded'
    BY <1>5 DEF Record
  <2>. QED
    BY <1>5, <2>1, <2>2, <2>3 DEF FeedbackInv, Record, OneRowPerSpan, WindowPromoted
<1>6. CASE Promote
  <2>1. PICK batch \in Fetched : table' \in Inserted(Rows(batch))
    BY <1>6 DEF Promote
  <2> DEFINE keys == {Key(r) : r \in Rows(batch)}
  <2>2. PICK w \in SUBSET Rows(batch) :
          /\ table' = {r \in table : Key(r) \notin keys} \cup w
          /\ Cardinality(w) = Cardinality(keys)
          /\ {Key(r) : r \in w} = keys
    BY <2>1 DEF Inserted
  <2>3. batch \subseteq SdkWindow /\ SdkWindow \subseteq recorded /\ IsFiniteSet(SdkWindow)
        /\ IsFiniteSet(batch)
    BY <2>1, FS_Subset DEF FeedbackInv, Fetched, SdkWindow
  <2>4. IsFiniteSet(w)
    <3> DEFINE sound == {f \in batch : f.body # Malformed}
    <3>1. IsFiniteSet(sound)
      BY <2>3, FS_Subset
    <3>2. IsFiniteSet({Row(e) : e \in sound})
      <4> DEFINE row == [e \in sound |-> Row(e)]
      <4>1. row \in Surjection(sound, {Row(e) : e \in sound})
        BY DEF Surjection
      <4>. HIDE DEF sound, row
      <4>. QED
        BY <3>1, <4>1, FS_Surjection
    <3>. QED
      BY <3>2, FS_Subset DEF Rows
  <2>5. \A r, q \in w : Key(r) = Key(q) => r = q
    <3>. HIDE DEF keys
    <3>. QED
      BY <2>2, <2>4, OneWinner
  <2>6. \A r \in w : \E e \in batch : r = Row(e) /\ e.body # Malformed
    BY DEF Rows
  <2>7. \A r \in w : /\ r.eval = "sdk" /\ r.version = 1 /\ r.body \in Bodies \ {Malformed}
                     /\ \E e \in recorded : e.span = r.span /\ e.body = r.body
    BY <2>3, <2>6 DEF FeedbackInv, Row
  <2>8. OneRowPerSpan'
    <3>1. \A r, q \in table' : Key(r) = Key(q) => r = q
      <4>. SUFFICES ASSUME NEW r \in table', NEW q \in table', Key(r) = Key(q) PROVE r = q
        OBVIOUS
      <4>1. CASE r \in w /\ q \in w
        BY <2>5, <4>1
      <4>2. CASE r \in table /\ Key(r) \notin keys /\ q \in table /\ Key(q) \notin keys
        BY <4>2 DEF FeedbackInv, OneRowPerSpan
      <4>. QED
        BY <2>2, <4>1, <4>2
    <3>2. \A r \in table' : r.eval = "sdk" =>
              r.version = 1 /\ \E e \in recorded : e.span = r.span /\ e.body = r.body
      BY <2>2, <2>7 DEF FeedbackInv, OneRowPerSpan
    <3>. QED
      BY <1>6, <3>1, <3>2 DEF Promote, OneRowPerSpan
  <2>9. WindowPromoted'
    <3>. SUFFICES ASSUME passes', NEW e \in SdkWindow, e.body # Malformed
                  PROVE  \E r \in table' : r.eval = "sdk" /\ r.span = e.span
      BY <1>6 DEF Promote, WindowPromoted, SdkWindow
    <3>1. Cardinality(SdkWindow) <= SdkLimit /\ Cardinality(SdkWindow) \in Nat
      BY <1>6, <2>3, FS_CardinalityType DEF Promote
    <3>2. Min({SdkLimit, Cardinality(SdkWindow)}) = Cardinality(SdkWindow)
      BY <3>1, FeedbackAssumption DEF Min
    <3>3. batch = SdkWindow
      BY <2>1, <2>3, <3>2, FS_Subset DEF Fetched
    <3>4. Key(Row(e)) \in keys
      BY <3>3 DEF Rows
    <3>5. PICK r \in w : Key(r) = Key(Row(e))
      BY <2>2, <3>4
    <3>. QED
      BY <2>2, <3>5 DEF Key, Row
  <2>10. /\ UNCHANGED <<recorded, inTables, scored>>
         /\ \A r \in table' : r.body \in Bodies \ {Malformed}
    BY <1>6, <2>2, <2>7 DEF FeedbackInv, Promote
  <2>11. \A r \in table' : r.eval = "def" => r \in table
    BY <2>2, <2>7
  <2>. QED
    BY <2>8, <2>9, <2>10, <2>11 DEF FeedbackInv
<1>7. CASE EditDefinition
  BY <1>7 DEF FeedbackInv, EditDefinition, OneRowPerSpan, WindowPromoted
<1>8. ASSUME NEW k \in 1 .. version, NEW spans \in SUBSET ScoredSpans, RunDefinition(k, spans)
      PROVE  FeedbackInv'
  BY <1>8, DefinitionKept
<1>. QED
  BY <1>1, <1>2, <1>3, <1>4, <1>5, <1>6, <1>7, <1>8 DEF FeedbackNext

\* The scores of a variant come each from a span of its own, which has been scored.
LEMMA SamplesScored ==
    ASSUME FeedbackInv, NEW k, NEW v
    PROVE  LET own == {s \in ScoredSpans : /\ VariantOf[s] = v /\ InWindow(s)
                                           /\ <<s, k>> \in scored}
           IN  /\ IsFiniteSet(Samples(k, v))
               /\ Cardinality(Samples(k, v)) <= Cardinality(own)
               /\ Cardinality(own) \in Nat /\ SampleCount(k, v) \in Nat
<1> DEFINE own == {s \in ScoredSpans : /\ VariantOf[s] = v /\ InWindow(s) /\ <<s, k>> \in scored}
           spanOf == [r \in Samples(k, v) |-> r.span]
<1>1. IsFiniteSet(own)
  BY FeedbackAssumption, FS_Subset
<1>2. \A r \in Samples(k, v) : r.span \in own
  BY DEF FeedbackInv, Samples
<1>3. \A r, q \in Samples(k, v) : r.span = q.span => r = q
  BY DEF FeedbackInv, OneRowPerSpan, Samples, Key
<1>4. spanOf \in Injection(Samples(k, v), own)
  <2>. HIDE DEF own
  <2>. QED
    BY <1>2, <1>3 DEF Injection, IsInjective
<1>. HIDE DEF own, spanOf
<1>5. /\ IsFiniteSet(Samples(k, v))
      /\ Cardinality(Samples(k, v)) <= Cardinality(own)
  BY <1>1, <1>4, FS_Injection
<1>. QED
  BY <1>1, <1>5, FS_CardinalityType DEF own, SampleCount

LEMMA Evidence == FeedbackInv => FlaggedOnEvidence
<1>. SUFFICES ASSUME FeedbackInv, NEW k \in 1 .. version, NEW base \in Baselines(k),
                     NEW f \in Regressions(k, base), NEW v \in {f[1], base}
              PROVE  Cardinality({s \in ScoredSpans : /\ VariantOf[s] = v /\ InWindow(s)
                                                      /\ <<s, k>> \in scored}) >= MinSamples
  BY DEF FlaggedOnEvidence
<1>1. f[1] \in Eligible(k) /\ base \in Eligible(k)
  BY DEF Regressions, Baselines
<1>2. SampleCount(k, v) >= MinSamples
  BY <1>1 DEF Eligible
<1>. HIDE DEF FeedbackInv
<1>. QED
  BY <1>2, SamplesScored, FeedbackAssumption DEF SampleCount

\* a/n, b/m and c/k are means, the last no less than the others: what is below b/m
\* by more than d is below c/k by more than d.
LEMMA BelowTheBest ==
    ASSUME NEW a \in Int, NEW b \in Int, NEW c \in Int, NEW d \in Nat,
           NEW n \in Nat \ {0}, NEW m \in Nat \ {0}, NEW k \in Nat \ {0},
           b * k <= c * m, b * n - a * m > d * m * n
    PROVE  c * n - a * k > d * k * n
<1>1. n * (b * k) <= n * (c * m)
  OBVIOUS
<1>2. k * (b * n - a * m) > k * (d * m * n)
  OBVIOUS
<1>3. m * (c * n - a * k) > m * (d * k * n)
  <2>1. m * (c * n - a * k) = n * (c * m) - k * (a * m)
    OBVIOUS
  <2>2. k * (b * n - a * m) = n * (b * k) - k * (a * m)
    OBVIOUS
  <2>3. m * (d * k * n) = k * (d * m * n)
    OBVIOUS
  <2>4. n * (b * k) \in Int /\ n * (c * m) \in Int /\ k * (a * m) \in Int /\ k * (d * m * n) \in Int
    OBVIOUS
  <2>. QED
    BY <1>1, <1>2, <2>1, <2>2, <2>3, <2>4
<1>. QED
  BY <1>3

LEMMA Flagged == FeedbackInv => DropIsFlagged
<1>. SUFFICES ASSUME FeedbackInv, NEW k \in 1 .. version, NEW base \in Baselines(k),
                     NEW v \in Eligible(k), NEW u \in Eligible(k),
                     Below(Scores(k, v), SampleCount(k, v), Scores(k, u), SampleCount(k, u))
              PROVE  <<v, "mean_score">> \in Regressions(k, base)
  BY DEF DropIsFlagged
<1>1. \A t : Scores(k, t) \in Int
  <2>. SUFFICES ASSUME NEW t PROVE Scores(k, t) \in Int
    OBVIOUS
  <2>1. \A r \in Samples(k, t) : r.body \in Int
    BY DEF FeedbackInv, Samples, Bodies, Error, Malformed
  <2>2. IsFiniteSet(Samples(k, t))
    BY SamplesScored
  <2>. QED
    BY <2>1, <2>2, ScoresSum DEF Scores
<1>2. \A t \in {v, u, base} : SampleCount(k, t) \in Nat \ {0}
  <2>1. \A t : SampleCount(k, t) \in Nat
    BY SamplesScored
  <2>. QED
    BY <2>1 DEF Baselines, Eligible
<1>3. /\ Scores(k, u) * SampleCount(k, base) <= Scores(k, base) * SampleCount(k, u)
      /\ base \in Eligible(k)
  BY DEF Baselines
<1>4. Scores(k, u) * SampleCount(k, v) - Scores(k, v) * SampleCount(k, u)
      > Drop * SampleCount(k, u) * SampleCount(k, v)
  BY DEF Below
<1>5. Scores(k, base) * SampleCount(k, v) - Scores(k, v) * SampleCount(k, base)
      > Drop * SampleCount(k, base) * SampleCount(k, v)
  BY <1>1, <1>2, <1>3, <1>4, BelowTheBest, FeedbackAssumption
<1>6. v # base
  <2>. SUFFICES ASSUME v = base PROVE FALSE
    OBVIOUS
  <2>1. Drop * SampleCount(k, base) * SampleCount(k, base) >= 0
    BY <1>2, FeedbackAssumption
  <2>2. Scores(k, base) * SampleCount(k, v) - Scores(k, v) * SampleCount(k, base) = 0
    BY <1>1, <1>2
  <2>3. Drop * SampleCount(k, base) * SampleCount(k, base) \in Int
    BY <1>2, FeedbackAssumption
  <2>. QED
    BY <1>5, <2>1, <2>2, <2>3
<1>. QED
  BY <1>3, <1>5, <1>6 DEF Regressions, Below

\* Promotion is idempotent and complete, and a drop in a definition's scores is told,
\* on evidence of its own (sdk-results.ts, runner.ts, regression.ts).
THEOREM ScoresCountOnce == FeedbackSpec => []FeedbackCounts
<1>1. FeedbackInit => FeedbackInv
  BY FS_EmptySet DEF FeedbackInit, FeedbackInv, OneRowPerSpan, WindowPromoted
<1>2. FeedbackInv => FeedbackCounts
  BY Evidence, Flagged DEF FeedbackInv, FeedbackCounts
<1>. QED BY <1>1, <1>2, NextFeedbackInv, PTL DEF FeedbackSpec

======================================================================================
