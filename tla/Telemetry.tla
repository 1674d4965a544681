---------------------------------- MODULE Telemetry ----------------------------------
(***************************************************************************)
(* createAISDKTelemetry (packages/sdk-ts/src/vercel.ts): the AI SDK's      *)
(* lifecycle events turned into spans.  Each operation's events come in    *)
(* the AI SDK's order; operations interleave, and one may run inside a     *)
(* tool of another.  The AI SDK itself is external: when a model call      *)
(* throws it may send onEnd or nothing more.                               *)
(***************************************************************************)
EXTENDS Integers, FiniteSets, Sequences, Functions

CONSTANTS
    Ops,            \* callIds
    MaxModelSteps,  \* bound: steps in all
    MaxTools        \* bound: tool calls in all

ASSUME TelemetryAssumption == IsFiniteSet(Ops) /\ MaxModelSteps \in Nat /\ MaxTools \in Nat

VARIABLES
    at,          \* at[c]: where the AI SDK is: idle, run, step, model, tools, failed, over
    step,        \* step[c]: steps begun
    numbered,    \* numbered[c]: those whose events carry a step number
    pending,     \* pending[c]: tool calls the model asked for in this step
    toolsAsked,  \* toolsAsked[c]: tool calls asked for so far
    live,        \* operations in the map ops
    current,     \* OperationState.currentStepCtx: a step's span, or NoSpan
    steps,       \* OperationState.steps: open step spans
    stack,       \* OperationState.modelStack
    toolSpans,   \* OperationState.toolSpans
    status,      \* status[s]: absent, open, or the status s ended with
    parent       \* parent[s]: the span s was started under

sdk  == <<at, step, numbered, pending, toolsAsked>>
data == <<live, current, steps, stack, toolSpans>>
telemetryVars == <<sdk, data, status, parent>>

Id(c, kind, n) == [op |-> c, kind |-> kind, n |-> n]
Agent(c) == Id(c, "agent", 0)
NoContext == Id("none", "none", 0)
SpanIds  == UNION {{Agent(c)} \cup {Id(c, k, n) : k \in {"step", "chat"}, n \in 1 .. MaxModelSteps}
                              \cup {Id(c, "tool", n) : n \in 1 .. MaxTools} : c \in Ops}
SpansOf(c) == {s \in SpanIds : s.op = c}

TelemetryInit ==
    /\ at = [c \in Ops |-> "idle"] /\ step = [c \in Ops |-> 0]
    /\ numbered = [c \in Ops |-> {}]
    /\ pending = [c \in Ops |-> {}] /\ toolsAsked = [c \in Ops |-> 0]
    /\ live = {}
    /\ current = [c \in Ops |-> NoContext]
    /\ steps = [c \in Ops |-> {}]
    /\ stack = [c \in Ops |-> <<>>]
    /\ toolSpans = [c \in Ops |-> {}]
    /\ status = [s \in SpanIds |-> "absent"]
    /\ parent = [s \in SpanIds |-> NoContext]

StartSpan(s, under) ==
    /\ status' = [status EXCEPT ![s] = "open"]
    /\ parent' = [parent EXCEPT ![s] = under]
Ends(S, code) ==
    /\ status' = [s \in SpanIds |-> IF s \in S THEN code ELSE status[s]]
    /\ UNCHANGED parent

Total(f) == FoldFunction(+, 0, f)

ParentCtx(c) == IF current[c] # NoContext THEN current[c] ELSE Agent(c)

\* The contexts an operation may be started in: outside of any span, or inside
\* what executeTool and executeLanguageModelCall run for another one.
Contexts(c) == {NoContext} \cup UNION {toolSpans[d] \cup {stack[d][i] : i \in DOMAIN stack[d]}
                                    : d \in live \ {c}}

OnStart(c, ctx) ==
    /\ at[c] = "idle"
    /\ at' = [at EXCEPT ![c] = "run"]
    /\ StartSpan(Agent(c), ctx)
    /\ live' = live \cup {c}
    /\ UNCHANGED <<step, numbered, pending, toolsAsked, current, steps, stack, toolSpans>>

\* Embeddings and reranking: none of their events finds a state.
OnStartOther(c) ==
    /\ at[c] = "idle"
    /\ at' = [at EXCEPT ![c] = "over"]
    /\ UNCHANGED <<step, numbered, pending, toolsAsked, data, status, parent>>

\* An event without a step number is passed over.
OnStepStart(c, hasNumber) ==
    LET n == step[c] + 1
        s == Id(c, "step", n) IN
    /\ at[c] = "run" /\ Total(step) < MaxModelSteps
    /\ at' = [at EXCEPT ![c] = "step"]
    /\ step' = [step EXCEPT ![c] = n]
    /\ IF hasNumber
       THEN /\ StartSpan(s, Agent(c))
            /\ numbered' = [numbered EXCEPT ![c] = @ \cup {n}]
            /\ steps' = [steps EXCEPT ![c] = @ \cup {s}]
            /\ current' = [current EXCEPT ![c] = s]
       ELSE UNCHANGED <<status, parent, numbered, steps, current>>
    /\ UNCHANGED <<pending, toolsAsked, live, stack, toolSpans>>

OnModelCallStart(c) ==
    LET s == Id(c, "chat", step[c]) IN
    /\ at[c] = "step"
    /\ at' = [at EXCEPT ![c] = "model"]
    /\ StartSpan(s, ParentCtx(c))
    /\ stack' = [stack EXCEPT ![c] = Append(@, s)]
    /\ UNCHANGED <<step, numbered, pending, toolsAsked, live, current, steps, toolSpans>>

\* The last span pushed is popped and ends; the model asked for some tools.
OnModelCallEnd(c, n) ==
    /\ at[c] = "model" /\ Total(toolsAsked) + n <= MaxTools
    /\ at' = [at EXCEPT ![c] = "tools"]
    /\ Ends({stack[c][Len(stack[c])]}, "OK")
    /\ stack' = [stack EXCEPT ![c] = SubSeq(@, 1, Len(@) - 1)]
    /\ pending' = [pending EXCEPT ![c] = toolsAsked[c] + 1 .. toolsAsked[c] + n]
    /\ toolsAsked' = [toolsAsked EXCEPT ![c] = @ + n]
    /\ UNCHANGED <<step, numbered, live, current, steps, toolSpans>>

\* The model call throws: no end event is sent for it.
ModelCallThrows(c) ==
    /\ at[c] = "model"
    /\ at' = [at EXCEPT ![c] = "failed"]
    /\ UNCHANGED <<step, numbered, pending, toolsAsked, data, status, parent>>

OnToolStart(c, n) ==
    LET s == Id(c, "tool", n) IN
    /\ at[c] = "tools" /\ n \in pending[c] /\ status[s] = "absent"
    /\ StartSpan(s, ParentCtx(c))
    /\ toolSpans' = [toolSpans EXCEPT ![c] = @ \cup {s}]
    /\ UNCHANGED <<sdk, live, current, steps, stack>>

\* A tool error marks the span; the AI SDK hands it to the model and goes on.
OnToolEnd(c, n, code) ==
    LET s == Id(c, "tool", n) IN
    /\ s \in toolSpans[c]
    /\ pending' = [pending EXCEPT ![c] = @ \ {n}]
    /\ Ends({s}, code)
    /\ toolSpans' = [toolSpans EXCEPT ![c] = @ \ {s}]
    /\ UNCHANGED <<at, step, numbered, toolsAsked, live, current, steps, stack>>

OnStepEnd(c) ==
    LET s == Id(c, "step", step[c]) IN
    /\ at[c] = "tools" /\ pending[c] = {}
    /\ at' = [at EXCEPT ![c] = "run"]
    /\ IF s \in steps[c] THEN Ends({s}, "OK") ELSE UNCHANGED <<status, parent>>
    /\ steps' = [steps EXCEPT ![c] = @ \ {s}]
    /\ current' = [current EXCEPT ![c] = IF @ = s THEN NoContext ELSE @]
    /\ UNCHANGED <<step, numbered, pending, toolsAsked, live, stack, toolSpans>>

OpenSpans(c) == {stack[c][i] : i \in DOMAIN stack[c]} \cup toolSpans[c] \cup steps[c]

\* Faulty variant: of the leftover spans only the current step is closed.
LeftoverCurrent(c) == {current[c]} \cap steps[c]

Leftover(c) == OpenSpans(c)

\* Whatever was not bracketed ends without a status, the operation with OK.
OnEnd(c) ==
    /\ at[c] = "failed" \/ (at[c] = "run" /\ step[c] > 0)
    /\ at' = [at EXCEPT ![c] = "over"]
    /\ status' = [s \in SpanIds |-> IF s = Agent(c) THEN "OK"
                                    ELSE IF s \in Leftover(c) THEN "UNSET" ELSE status[s]]
    /\ live' = live \ {c}
    /\ current' = [current EXCEPT ![c] = NoContext]
    /\ steps' = [steps EXCEPT ![c] = {}]
    /\ stack' = [stack EXCEPT ![c] = <<>>]
    /\ toolSpans' = [toolSpans EXCEPT ![c] = {}]
    /\ UNCHANGED <<step, numbered, pending, toolsAsked, parent>>

\* Or nothing more is heard of the operation.
Abandon(c) ==
    /\ at[c] = "failed"
    /\ at' = [at EXCEPT ![c] = "over"]
    /\ UNCHANGED <<step, numbered, pending, toolsAsked, data, status, parent>>

TelemetryNext == \E c \in Ops :
    \/ \E ctx \in Contexts(c) : OnStart(c, ctx)
    \/ OnStartOther(c) \/ OnModelCallStart(c) \/ ModelCallThrows(c)
    \/ \E hasNumber \in BOOLEAN : OnStepStart(c, hasNumber)
    \/ \E n \in 0 .. MaxTools : OnModelCallEnd(c, n)
    \/ \E n \in 1 .. MaxTools : OnToolStart(c, n) \/ OnToolEnd(c, n, "OK") \/ OnToolEnd(c, n, "ERROR")
    \/ OnStepEnd(c) \/ OnEnd(c) \/ Abandon(c)

TelemetrySpec == TelemetryInit /\ [][TelemetryNext]_telemetryVars

(***************************************************************************)
(* Properties.                                                             *)
(***************************************************************************)

\* Type invariant.
TelemetryTypeOK ==
    /\ at \in [Ops -> {"idle", "run", "step", "model", "tools", "failed", "over"}]
    /\ step \in [Ops -> 0 .. MaxModelSteps] /\ numbered \in [Ops -> SUBSET (1 .. MaxModelSteps)]
    /\ pending \in [Ops -> SUBSET (1 .. MaxTools)] /\ toolsAsked \in [Ops -> 0 .. MaxTools]
    /\ live \subseteq Ops
    /\ current \in [Ops -> SpanIds \cup {NoContext}]
    /\ steps \in [Ops -> SUBSET SpanIds] /\ toolSpans \in [Ops -> SUBSET SpanIds]
    /\ stack \in [Ops -> Seq(SpanIds)]
    /\ status \in [SpanIds -> {"absent", "open", "OK", "ERROR", "UNSET"}]
    /\ parent \in [SpanIds -> SpanIds \cup {NoContext}]

\* A span starts under a span that is still open, or under none: the waterfall
\* has no child that began after its parent had ended.
OnlyOpenParents ==
    \A s \in SpanIds : status[s] = "absent" /\ status'[s] = "open"
        => parent'[s] = NoContext \/ status[parent'[s]] = "open"

\* What a step did is shown under that step, and under the operation when the
\* step had no number; no span is shown under another operation's, except the
\* root of one that ran inside a tool or model call of the other.
ShownWhereItRan ==
    \A s \in SpanIds : status[s] # "absent" /\ s.kind # "agent" =>
        /\ parent[s] \in SpansOf(s.op)
        /\ s.kind = "chat" => parent[s] = IF s.n \in numbered[s.op] THEN Id(s.op, "step", s.n)
                                          ELSE Agent(s.op)

\* An operation that has ended leaves no span open, whatever it died of: an open
\* span is never exported.
ClosedTogether ==
    \A c \in Ops : at[c] = "over" /\ c \notin live => \A s \in SpansOf(c) : status[s] # "open"

\* A span ends once and keeps the status it ended with.
EndsOnce ==
    \A s \in SpanIds : status[s] \notin {"absent", "open"} => status'[s] = status[s]

\* The waterfall of an AI SDK run is well bracketed, in whatever order the events
\* of several runs come and however one of them dies.
WaterfallSound == [][/\ TelemetryTypeOK' /\ ShownWhereItRan' /\ ClosedTogether'
                     /\ OnlyOpenParents /\ EndsOnce]_telemetryVars

================================================================================
