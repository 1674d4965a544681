---------------------------------- MODULE SdkRuntime ---------------------------------
(***************************************************************************)
(* The TypeScript SDK's runtime: init and shutdown (sdk-ts/src/tracer.ts)  *)
(* and the calls an application makes through wrapChatCompletionCreate     *)
(* (openai.ts), withAgentSpan and withToolSpan (agent.ts).  init and       *)
(* shutdown may come while calls are awaited.                              *)
(***************************************************************************)
EXTENDS Integers, FiniteSets

CONSTANTS
    Chats,      \* calls of a wrapped chat.completions.create
    Blocks,     \* functions run by withAgentSpan or withToolSpan
    MaxInits    \* bound: providers set up

VARIABLES
    made,       \* providers set up so far; the last one is number made
    provider,   \* the module's provider, or 0
    tracer,     \* RuntimeState: the provider its tracer belongs to, or 0
    registered, \* the API's global tracer provider, or 0
    closing,    \* providers whose shutdown is awaited
    ended,      \* history: how the last shutdown to end did: none, resolved, rejected
    clean,      \* history: had the shutdowns before it ended, the last without a
                \* failure, when init was last called
    callPhase,  \* callPhase[c]: idle, awaiting or settled
    span,       \* span[c]: "none", "open", or its status once it has ended
    answer,     \* history: answer[c]: what the wrapped function answered
    got,        \* got[c]: what the application got
    upset       \* history: calls during which shutdown was called

runtimeVars == <<made, provider, tracer, registered, closing, ended, clean, callPhase, span,
                 answer, got, upset>>
sdkVars == <<made, provider, tracer, registered, closing, ended, clean>>
callVars == <<callPhase, span, answer, got>>

Calls    == Chats \cup Blocks
Endings == {"response", "failure"}
Awaiting == {c \in Calls : callPhase[c] = "awaiting"}

RuntimeInit ==
    /\ made = 0 /\ provider = 0 /\ tracer = 0 /\ registered = 0
    /\ closing = {} /\ ended = "none" /\ clean = TRUE
    /\ callPhase = [c \in Calls |-> "idle"]
    /\ span = [c \in Calls |-> "none"]
    /\ answer = [c \in Calls |-> "none"]
    /\ got = [c \in Calls |-> "none"]
    /\ upset = {}

\* init(): a second call changes nothing.  register() is refused by the API as
\* long as another provider is registered; the tracer is asked of that one then.
InitSdk ==
    /\ provider = 0
    /\ made < MaxInits
    /\ made' = made + 1
    /\ provider' = made + 1
    /\ registered' = IF registered = 0 THEN made + 1 ELSE registered
    /\ tracer' = registered'
    /\ clean' = (closing = {} /\ ended # "rejected")
    /\ UNCHANGED <<closing, ended, callVars, upset>>

\* shutdown() up to its await: the processors take no more spans from here on.
Shutdown ==
    /\ provider # 0
    /\ provider' = 0
    /\ tracer' = 0
    /\ closing' = closing \cup {provider}
    /\ upset' = upset \cup Awaiting
    /\ UNCHANGED <<made, registered, ended, clean, callVars>>

\* Faulty variant: the global provider is left registered.
ShutdownDoneKeeping(p) ==
    /\ p \in closing
    /\ closing' = closing \ {p}
    /\ ended' = "resolved"
    /\ UNCHANGED <<made, provider, tracer, clean, registered, callVars, upset>>

\* ... and after it: trace.disable().
ShutdownDone(p) ==
    /\ p \in closing
    /\ closing' = closing \ {p}
    /\ ended' = "resolved"
    /\ registered' = 0
    /\ UNCHANGED <<made, provider, tracer, clean, callVars, upset>>

\* The last export fails: the await throws, trace.disable() is not reached, and the
\* provider that was shut down stays registered.
ShutdownFails(p) ==
    /\ p \in closing
    /\ closing' = closing \ {p}
    /\ ended' = "rejected"
    /\ UNCHANGED <<made, provider, tracer, registered, clean, callVars, upset>>

\* getState() succeeds: a span is started, and the wrapped function is awaited.
StartCall(c) ==
    /\ callPhase[c] = "idle"
    /\ tracer # 0
    /\ callPhase' = [callPhase EXCEPT ![c] = "awaiting"]
    /\ span' = [span EXCEPT ![c] = "open"]
    /\ UNCHANGED <<sdkVars, answer, got, upset>>

\* getState() throws before anything is called.
StartUninitialized(c) ==
    /\ callPhase[c] = "idle"
    /\ tracer = 0
    /\ callPhase' = [callPhase EXCEPT ![c] = "settled"]
    /\ got' = [got EXCEPT ![c] = "uninitialized"]
    /\ UNCHANGED <<sdkVars, span, answer, upset>>

\* The span gets its status, ends, and the application gets its value.
Settle(c, code, value) ==
    /\ callPhase' = [callPhase EXCEPT ![c] = "settled"]
    /\ got' = [got EXCEPT ![c] = value]
    /\ span' = [span EXCEPT ![c] = code]
    /\ UNCHANGED <<sdkVars, upset>>

\* The wrapped function resolves.  recordResponse asks for the state again, and
\* throws into the catch when it is gone by now; a block's wrapper does not ask.
Resolve(c) ==
    /\ callPhase[c] = "awaiting"
    /\ answer' = [answer EXCEPT ![c] = "response"]
    /\ IF c \in Chats /\ tracer = 0
       THEN Settle(c, "ERROR", "uninitialized")
       ELSE Settle(c, "OK", "response")

\* It rejects: recorded, and thrown again.
Reject(c) ==
    /\ callPhase[c] = "awaiting"
    /\ answer' = [answer EXCEPT ![c] = "failure"]
    /\ Settle(c, "ERROR", "failure")

RuntimeNext ==
    \/ InitSdk \/ Shutdown \/ \E p \in closing : ShutdownDone(p) \/ ShutdownFails(p)
    \/ \E c \in Calls : StartCall(c) \/ StartUninitialized(c) \/ Resolve(c) \/ Reject(c)

RuntimeSpec == RuntimeInit /\ [][RuntimeNext]_runtimeVars

(***************************************************************************)
(* Properties.                                                             *)
(***************************************************************************)

\* Type invariant.
RuntimeTypeOK ==
    /\ made \in 0 .. MaxInits
    /\ provider \in 0 .. made /\ tracer \in 0 .. made /\ registered \in 0 .. made
    /\ closing \subseteq 1 .. made
    /\ callPhase \in [Calls -> {"idle", "awaiting", "settled"}]
    /\ span \in [Calls -> {"none", "open", "OK", "ERROR"}]
    /\ answer \in [Calls -> {"none"} \cup Endings]
    /\ got \in [Calls -> {"none", "uninitialized"} \cup Endings]
    /\ ended \in {"none", "resolved", "rejected"}
    /\ clean \in BOOLEAN /\ upset \subseteq Calls

\* "The wrapper is transparent: it returns the provider's response unchanged and
\* re-throws provider errors after recording them" (openai.ts), unless the SDK is
\* shut down while the call is awaited; and the call's span ends, with the status
\* that tells what the application got.
TransparentWhileUp ==
    \A c \in Calls : callPhase[c] = "settled" /\ answer[c] # "none" =>
        /\ c \notin upset => got[c] = answer[c]
        /\ span[c] = IF got[c] = "response" THEN "OK" ELSE "ERROR"

\* The tracer in use belongs to the provider init() has just set up, so that its
\* spans are exported, also after shutdowns, if these were over when init() came
\* and the last of them did not fail.
TracerIsLive == tracer # 0 /\ clean => tracer = provider

\* The SDK is invisible to the application and its spans go somewhere.
RuntimeTransparent == TransparentWhileUp /\ TracerIsLive

================================================================================
