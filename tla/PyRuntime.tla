---------------------------------- MODULE PyRuntime ----------------------------------
(***************************************************************************)
(* init() and shutdown() of the Python SDK (packages/sdk-py, tracer.py and *)
(* instrument.py), called in any order, and the instrumentors they apply   *)
(* and undo: objects of the whole process, which the host application may  *)
(* apply to a tracer provider of its own.                                  *)
(*                                                                         *)
(* Two premises about code outside the SDK: an instrument() that raises    *)
(* leaves no wrappers behind, and the host application never undoes what   *)
(* init() applied.                                                         *)
(***************************************************************************)
EXTENDS Integers, Sequences, SequencesExt

CONSTANTS
    Names,          \* registry names
    Instrumentors,  \* instrumentor objects
    LoaderOf,       \* LoaderOf[n]: the instrumentor a name loads; two may share it
    Leaky,          \* instrumentors whose upstream undo leaves their wrappers
    MaxNames,       \* bound: names in one call of init()
    MaxPyInits      \* bound: calls of init() that do something

ASSUME HooksAssumption == LoaderOf \in [Names -> Instrumentors] /\ MaxPyInits \in Nat /\ MaxNames \in Nat

None == 0
App  == MaxPyInits + 1      \* the host application's provider
Ours == 1 .. MaxPyInits

VARIABLES
    installed,      \* names whose library and instrumentation package are there
    pyProvider,     \* _provider: its number, or None
    inits,          \* providers made so far
    flagged,        \* flagged[i]: the provider i was last instrumented for, or None
    handler,        \* handler[i]: the provider whose spans i's hooks emit, or None
    activeHooks,    \* _active
    applied,        \* _state.instrumented
    broken          \* history: instrumentors whose uninstrument() raised

hooksVars == <<installed, pyProvider, inits, flagged, handler, activeHooks, applied, broken>>

HooksInit ==
    /\ installed \in SUBSET Names
    /\ pyProvider = None /\ inits = 0
    /\ flagged = [i \in Instrumentors |-> None]
    /\ handler = [i \in Instrumentors |-> None]
    /\ activeHooks = <<>> /\ applied = {} /\ broken = {}

\* One turn of apply_instrumentations' loop: what is not installed and what raises
\* is passed over.  Wrappers still in place keep a handler of the same type from
\* registering.
OneApplied(acc, n, p, raising) ==
    LET i == LoaderOf[n] IN
    IF n \notin installed THEN acc
    ELSE IF acc.flagged[i] # None THEN [acc EXCEPT !.applied = @ \cup {n}]
    ELSE IF i \in raising THEN acc
    ELSE [acc EXCEPT !.flagged[i] = p,
                     !.handler[i] = IF @ = None THEN p ELSE @,
                     !.active  = Append(@, i),
                     !.applied = @ \cup {n}]

\* init(instrument=names): a no-op while a provider is set.  Unknown names are as
\* those that are not installed.
CallInit(names, raising) ==
    /\ pyProvider = None /\ inits < MaxPyInits
    /\ LET done == FoldLeft(LAMBDA acc, n : OneApplied(acc, n, inits + 1, raising),
                            [flagged |-> flagged, handler |-> handler,
                             active |-> activeHooks, applied |-> {}], names) IN
       /\ flagged' = done.flagged /\ handler' = done.handler
       /\ activeHooks' = done.active /\ applied' = done.applied
    /\ inits' = inits + 1
    /\ pyProvider' = inits + 1
    /\ UNCHANGED <<installed, broken>>

\* Faulty variant: the cleanup of leftover wrappers is missing.
HandlersAfterLeaving(undone) ==
    [i \in Instrumentors |-> IF i \in undone /\ i \notin Leaky THEN None ELSE handler[i]]

\* uninstrument() and the cleanup of what it leaves.
HandlersAfter(undone) == [i \in Instrumentors |-> IF i \in undone THEN None ELSE handler[i]]

\* remove_instrumentations: what is instrumented and does not raise is undone.
Undone(raising) == {i \in ToSet(activeHooks) : flagged[i] # None} \ raising

\* shutdown(): everything in _active is undone, whatever raises.
CallShutdown(raising) ==
    LET undone == Undone(raising) IN
    /\ pyProvider' = None /\ applied' = {}
    /\ flagged' = [i \in Instrumentors |-> IF i \in undone THEN None ELSE flagged[i]]
    /\ handler' = HandlersAfter(undone)
    /\ broken' = broken \cup (raising \cap ToSet(activeHooks))
    /\ activeHooks' = <<>>
    /\ UNCHANGED <<installed, inits>>

\* The host application instruments a library itself, or stops doing so.
HostApplies(i) ==
    /\ flagged[i] = None /\ i \notin broken
    /\ flagged' = [flagged EXCEPT ![i] = App]
    /\ handler' = [handler EXCEPT ![i] = IF @ = None THEN App ELSE @]
    /\ UNCHANGED <<installed, pyProvider, inits, activeHooks, applied, broken>>

HostRemoves(i) ==
    /\ flagged[i] = App
    /\ flagged' = [flagged EXCEPT ![i] = None]
    /\ handler' = [handler EXCEPT ![i] = IF i \in Leaky THEN @ ELSE None]
    /\ UNCHANGED <<installed, pyProvider, inits, activeHooks, applied, broken>>

HooksNext ==
    \/ \E names \in SeqOf(Names, MaxNames), raising \in SUBSET Instrumentors : CallInit(names, raising)
    \/ \E raising \in SUBSET Instrumentors : CallShutdown(raising)
    \/ \E i \in Instrumentors : HostApplies(i) \/ HostRemoves(i)

HooksSpec == HooksInit /\ [][HooksNext]_hooksVars

(***************************************************************************)
(* Properties.                                                             *)
(***************************************************************************)

\* Type invariant; an instrumentor is in _active at most once.
HooksTypeOK ==
    /\ installed \subseteq Names /\ applied \subseteq installed
    /\ pyProvider \in {None} \cup Ours /\ inits \in 0 .. MaxPyInits
    /\ flagged \in [Instrumentors -> {None, App} \cup Ours]
    /\ handler \in [Instrumentors -> {None, App} \cup Ours]
    /\ activeHooks \in Seq(Instrumentors) /\ IsInjective(activeHooks)
    /\ broken \subseteq Instrumentors

\* Spans of an instrumentor init() applied go to the provider in use, in the
\* second and any later cycle of init() and shutdown() as well, unless the host
\* application's own leftovers or an undo that raised are in the way.
HooksOfThisInit ==
    \A i \in ToSet(activeHooks) \ broken : handler[i] \in {pyProvider, App} /\ flagged[i] # App

\* After shutdown() no library call is traced into a provider that was torn
\* down, except where the undo itself raised.
NothingLeftBehind ==
    pyProvider = None => \A i \in Instrumentors \ broken : handler[i] \notin Ours

\* What the host application instrumented itself stays as it is: neither init()
\* nor shutdown() touches it.
HostHooksKept ==
    \A i \in Instrumentors :
        flagged[i] = App /\ pyProvider' # pyProvider
        => flagged'[i] = App /\ handler'[i] = handler[i]

\* init() and shutdown() leave the process as they found it, cycle after cycle.
HooksBalanced == [][/\ HooksTypeOK' /\ HooksOfThisInit'
                    /\ NothingLeftBehind' /\ HostHooksKept]_hooksVars

================================================================================
