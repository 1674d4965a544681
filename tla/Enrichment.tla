--------------------------------- MODULE Enrichment ----------------------------------
(***************************************************************************)
(* The Python SDK's span processor (packages/sdk-py, _processor.py and     *)
(* _openinference.py): what becomes of a span some instrumentation wrote,  *)
(* between its end and its export.  A span is the set of the attribute     *)
(* keys that matter here, each standing for one message or number.         *)
(***************************************************************************)
EXTENDS Naturals, FiniteSets, Sequences, Functions

CONSTANTS
    KeySets,    \* bound: what keys a span may carry
    MaxWritten  \* bound: spans written

\* openinference.span.kind, "none" on a span of another instrumentation.
Kinds == {"none", "LLM", "TOOL", "AGENT", "RETRIEVER", "EMBEDDING", "CHAIN"}

\* Content keys of the GenAI conventions, old and new; the "_bad" one does not parse.
\* Tool calls come under indexed keys, too, which _INDEXED_CONTENT_RE does not match.
GenAiInputs  == {"system_instructions", "input.messages", "prompt.0", "tool.call.arguments"}
GenAiChoices == {"output.messages_bad", "completion.0", "tool.call.result"}
GenAiContent == GenAiInputs \cup GenAiChoices
OpenInferenceContent == {"input.value", "output.value", "llm.input_messages",
                         "llm.output_messages", "retrieval.documents"}
StepContent == {"gen_ai.task.input", "traceloop.entity.output"}
ToolCalls   == {"completion.0.tool_calls"}
Content     == GenAiContent \cup OpenInferenceContent \cup StepContent \cup ToolCalls
Usage       == {"usage.input_tokens", "usage.prompt_tokens", "llm.token_count"}
ModelKeys   == {"request.model", "llm.model_name", "embedding.model_name", "ls_model_name"}
Attributes  == Content \cup Usage \cup ModelKeys \cup {"cost"}

ASSUME KeySetsAssumption == KeySets \subseteq SUBSET Attributes

VARIABLES
    capture,    \* capture_content
    underWay,   \* spans under way: their kind, their keys, and whether the
                \* instrumentation has put content events on them itself
    exported    \* spans handed to the exporter

enrichVars == <<capture, underWay, exported>>

EnrichInit ==
    /\ capture \in BOOLEAN
    /\ underWay = {}
    /\ exported = {}

\* An instrumentation writes a span, with any keys.
WriteSpan(kind, keys, own) ==
    /\ Cardinality(underWay) + Cardinality(exported) < MaxWritten
    /\ underWay' = underWay \cup {[kind |-> kind, keys |-> keys, own |-> own]}
    /\ UNCHANGED <<capture, exported>>

\* Faulty variant: content is popped only by the kind that uses it.
StrippedWhereUsed(kind, keys) ==
    CASE kind = "LLM"       -> keys \ {"llm.input_messages", "llm.output_messages"}
      [] kind = "TOOL"      -> keys \ {"input.value", "output.value"}
      [] kind = "RETRIEVER" -> keys \ {"retrieval.documents"}
      [] OTHER              -> keys

\* What OpenInference says of a span's usage and model, under the canonical names.
Promoted(kind, keys) ==
    (IF kind = "LLM" /\ "llm.token_count" \in keys THEN {"usage.input_tokens"} ELSE {})
    \cup (IF \/ kind = "LLM" /\ "llm.model_name" \in keys
             \/ kind = "EMBEDDING" /\ "embedding.model_name" \in keys
          THEN {"request.model"} ELSE {})

\* normalize_openinference: whatever the kind, every key of its namespaces goes.  A
\* span that does not tell its kind is left as it is.
Stripped(kind, keys) ==
    IF kind = "none" THEN keys
    ELSE (keys \ (OpenInferenceContent
                     \cup {"llm.token_count", "llm.model_name", "embedding.model_name"}))
         \cup Promoted(kind, keys)

\* What is popped from the attributes becomes a message.
Popped(k, keys) == IF k \in keys THEN <<k>> ELSE <<>>

\* The content it returns: what the kind is about.
ReturnedInputs(kind, keys) ==
    CASE kind = "LLM"  -> Popped("llm.input_messages", keys)
      [] kind = "TOOL" -> Popped("input.value", keys)
      [] OTHER         -> <<>>
ReturnedChoices(kind, keys) ==
    CASE kind = "LLM"       -> Popped("llm.output_messages", keys)
      [] kind = "TOOL"      -> Popped("output.value", keys)
      [] kind = "RETRIEVER" -> Popped("retrieval.documents", keys)
      [] OTHER              -> <<>>

\* Legacy keys get their canonical names.
Renamed(keys) ==
    IF "usage.prompt_tokens" \in keys
    THEN (keys \ {"usage.prompt_tokens"}) \cup {"usage.input_tokens"} ELSE keys

\* _collect_content: what does not parse yields no message.
CollectedInputs(keys) ==
    Popped("system_instructions", keys) \o Popped("input.messages", keys)
        \o Popped("prompt.0", keys) \o Popped("tool.call.arguments", keys)
CollectedChoices(keys) ==
    Popped("completion.0", keys) \o Popped("tool.call.result", keys)

\* The model's name as LangChain's metadata have it becomes the request's.
Hinted(keys) ==
    IF "ls_model_name" \in keys
    THEN (keys \ {"ls_model_name"}) \cup {"request.model"} ELSE keys

\* A cost takes a number of tokens and a model's name (request's or response's).
Priced(keys) == IF {"usage.input_tokens", "request.model"} \subseteq keys THEN {"cost"} ELSE {}

\* Content events an instrumentation put on the span stay, and nothing is added to
\* them.  Else the inputs, at the span's start, and the choices, at its end: those
\* OpenInference's keys gave come first.
Events(span, keys) ==
    CASE span.own -> <<"own">>
      [] ~span.own /\ capture ->
             (ReturnedInputs(span.kind, span.keys) \o CollectedInputs(keys))
             \o (ReturnedChoices(span.kind, span.keys) \o CollectedChoices(keys))
      [] OTHER -> <<>>

\* enrich_readable_span.
Enriched(span) ==
    LET keys == Hinted(Renamed(Stripped(span.kind, span.keys))) IN
    [keys   |-> (keys \ (GenAiContent \cup StepContent)) \cup Priced(keys),
     events |-> Events(span, keys),
     from   |-> span]

\* on_end: this processor comes before the exporting one.
OnSpanEnd ==
    \E span \in underWay :
        /\ underWay' = underWay \ {span}
        /\ exported' = exported \cup {Enriched(span)}
        /\ UNCHANGED capture

EnrichNext ==
    \/ \E kind \in Kinds, keys \in KeySets, own \in BOOLEAN : WriteSpan(kind, keys, own)
    \/ OnSpanEnd

EnrichSpec == EnrichInit /\ [][EnrichNext]_enrichVars

(***************************************************************************)
(* Properties.                                                             *)
(***************************************************************************)

\* What the content rule does not reach: indexed tool calls, and OpenInference's
\* content on a span that does not tell its kind.
OutOfReach(span) == ToolCalls \cup (IF span.kind = "none" THEN OpenInferenceContent ELSE {})

\* The content rule: whichever conventions an instrumentation follows, and whether
\* or not content is captured, no exported span has prompt or response content among
\* its attributes, but for what is out of the rule's reach.
ContentNeverStays == \A span \in exported : span.keys \cap Content \subseteq OutOfReach(span.from)

\* Content is moved to events only if it is captured, each message once, those of the
\* GenAI conventions without a loss (of what parses), and not in addition to content
\* events the instrumentation put on the span, which stay as they are.
ContentKeptOnce ==
    \A span \in exported :
        IF span.from.own THEN span.events = <<"own">>
        ELSE /\ IsInjective(span.events)
             /\ span.events # <<>> => capture
             /\ capture => span.from.keys \cap (GenAiContent \ {"output.messages_bad"})
                               \subseteq Range(span.events)

TellsUsage(span) == \/ span.keys \cap {"usage.input_tokens", "usage.prompt_tokens"} # {}
                    \/ span.kind = "LLM" /\ "llm.token_count" \in span.keys
TellsModel(span) == \/ span.keys \cap {"request.model", "ls_model_name"} # {}
                    \/ span.kind = "LLM" /\ "llm.model_name" \in span.keys
                    \/ span.kind = "EMBEDDING" /\ "embedding.model_name" \in span.keys

\* A span carries a cost if it came with one, or tells its usage and its model,
\* whichever names these have; and only then.
UsageIsPriced ==
    \A span \in exported :
        "cost" \in span.keys <=> \/ "cost" \in span.from.keys
                                 \/ TellsUsage(span.from) /\ TellsModel(span.from)

\* Content moves from attributes to events, or is gone, and what it cost is known.
ContentMoves == ContentNeverStays /\ ContentKeptOnce /\ UsageIsPriced

================================================================================
