----------------------------------- MODULE Viewer ------------------------------------
(***************************************************************************)
(* The trace page once it is open: the arrival replay (useReplay and       *)
(* TraceView, app/traces/[traceId]/TraceView.tsx) and the detail panel of  *)
(* the selected span (TraceViewer.tsx, SpanDetailPanel.tsx).  Spans are    *)
(* numbered in the order they were ingested; RootSpan is the root, after   *)
(* which the stream stays open for a while and late spans still land.      *)
(***************************************************************************)
EXTENDS Integers, FiniteSets

CONSTANTS
    Size,       \* the trace has spans 1 .. Size
    RootSpan,   \* its root span
    MaxAsks     \* bound: panel fetches

Spans == 1 .. Size
NoSpan == 0

VARIABLES
    mounted,    \* the page is open
    landed,     \* spans 1 .. landed are in view.spans
    replaying,  \* replay: state.active
    count,      \* replay: state.count
    timer,      \* the index + 1 the pending step will show, or NoSpan
    planned,    \* history: how many spans the pending steps were planned for
    selected,   \* selectedId, or NoSpan
    panel,      \* SpanDetailPanel's state
    asks,       \* fetches not aborted: the span asked for by each
    asked       \* fetches so far

viewerVars == <<mounted, landed, replaying, count, timer, planned, selected, panel, asks, asked>>

Loading   == [status |-> "loading", of |-> NoSpan]
Failed    == [status |-> "error", of |-> NoSpan]
Ready(i)  == [status |-> "ready", of |-> i]
Panels    == {Loading, Failed} \cup {Ready(i) : i \in Spans}

\* A trace may be opened while it runs, and with a span preselected.
ViewerInit ==
    /\ mounted = TRUE
    /\ landed \in Spans
    /\ replaying = FALSE /\ count = 0 /\ timer = NoSpan /\ planned = 0
    /\ selected \in Spans \cup {NoSpan}
    /\ panel = Loading
    /\ asks = {selected} \ {NoSpan}
    /\ asked = 1

TraceRunning == landed < RootSpan
Revealed == IF replaying THEN count ELSE landed
Done     == ~replaying \/ count >= landed

\* A delta brings the next span; the replay's order is computed anew.
Land ==
    /\ mounted /\ landed < Size
    /\ landed' = landed + 1
    /\ UNCHANGED <<mounted, replaying, count, timer, planned, selected, panel, asks, asked>>

\* Faulty variant: the first press of Stop forgets the timer.
StopKeepingTimer == replaying /\ replaying' = FALSE /\ count' = 0 /\ UNCHANGED <<timer, planned>>

Stop == replaying /\ replaying' = FALSE /\ count' = 0 /\ timer' = NoSpan /\ planned' = 0

\* The first step runs at once; a further one is due if there is a delay for it.
Play ==
    /\ ~replaying /\ replaying' = TRUE
    /\ count' = 1
    /\ timer' = IF landed > 1 THEN 2 ELSE NoSpan
    /\ planned' = landed

\* The button is there once the root has arrived.
Toggle ==
    /\ mounted /\ ~TraceRunning
    /\ Stop \/ Play
    /\ UNCHANGED <<mounted, landed, selected, panel, asks, asked>>

\* step(index), with the delays of the render the button was pressed in.
Step ==
    /\ timer # NoSpan
    /\ replaying' = TRUE /\ count' = timer
    /\ timer' = IF timer < planned THEN timer + 1 ELSE NoSpan
    /\ UNCHANGED <<mounted, landed, planned, selected, panel, asks, asked>>

\* The panel's effect: the fetch before it is aborted.
Fetch(i) ==
    /\ asked < MaxAsks /\ asked' = asked + 1
    /\ asks' = {i}
    /\ panel' = Loading

\* A row that is shown and is no placeholder is selected: the panel is keyed by
\* the span, so that another span gets another panel.
Select(i) ==
    /\ mounted /\ i <= Revealed /\ i # selected
    /\ selected' = i
    /\ Fetch(i)
    /\ UNCHANGED <<mounted, landed, replaying, count, timer, planned>>

RetryFetch ==
    /\ mounted /\ panel = Failed
    /\ Fetch(selected)
    /\ UNCHANGED <<mounted, landed, replaying, count, timer, planned, selected>>

Close ==
    /\ mounted /\ selected # NoSpan
    /\ selected' = NoSpan /\ asks' = {} /\ panel' = Loading
    /\ UNCHANGED <<mounted, landed, replaying, count, timer, planned, asked>>

\* The span's detail, or an error: it has not landed, or the request failed.
Respond(i) ==
    /\ i \in asks
    /\ asks' = asks \ {i}
    /\ panel' \in {Failed} \cup (IF i <= landed THEN {Ready(i)} ELSE {})
    /\ UNCHANGED <<mounted, landed, replaying, count, timer, planned, selected, asked>>

\* Unmounting clears the timer and aborts the fetch.
Leave ==
    /\ mounted /\ mounted' = FALSE
    /\ timer' = NoSpan /\ asks' = {} /\ selected' = NoSpan
    /\ replaying' = FALSE /\ count' = 0 /\ planned' = 0 /\ panel' = Loading
    /\ UNCHANGED <<landed, asked>>

ViewerNext ==
    \/ Land \/ Toggle \/ Step \/ RetryFetch \/ Close \/ Leave
    \/ \E i \in Spans : Select(i) \/ Respond(i)

ViewerSpec == ViewerInit /\ [][ViewerNext]_viewerVars

(***************************************************************************)
(* Properties.                                                             *)
(***************************************************************************)

\* Type invariant.
ViewerTypeOK ==
    /\ mounted \in BOOLEAN /\ replaying \in BOOLEAN
    /\ landed \in Spans /\ count \in 0 .. Size
    /\ timer \in Spans \cup {NoSpan} /\ planned \in 0 .. Size
    /\ selected \in Spans \cup {NoSpan}
    /\ panel \in Panels
    /\ asks \subseteq Spans /\ asked \in 1 .. MaxAsks

\* A timer is pending only for the replay on screen, and takes it one span
\* further: no step of a replay that was stopped, or of a page that was left,
\* starts it again or makes it jump.  A replay without a timer has shown all the
\* spans it was planned for.
NoStrayTimer ==
    /\ timer # NoSpan => replaying /\ mounted /\ timer = count + 1 /\ timer <= planned
    /\ replaying /\ timer = NoSpan => count = planned

\* The panel shows the detail of the selected span, however late the answers to
\* the fetches of spans selected before come.
PanelMatchesSelection ==
    /\ panel.status = "ready" => panel.of = selected
    /\ panel = Loading /\ selected # NoSpan => asks = {selected}

\* What the page shows is what the reader asked for last: the replay and the
\* panel's fetch are both given up by the next press, selection or navigation.
PageFollowsReader == ViewerTypeOK /\ NoStrayTimer /\ PanelMatchesSelection

================================================================================
