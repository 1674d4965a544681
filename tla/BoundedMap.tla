---------------------------------- MODULE BoundedMap ---------------------------------
(***************************************************************************)
(* What mapWithConcurrency (apps/eval-runner/src/concurrency.ts) promises: *)
(* every item is worked on once, in order, at most Limit at a time, and    *)
(* gets one result.                                                        *)
(***************************************************************************)
EXTENDS Integers, FiniteSets

CONSTANTS
    Count,      \* items.length
    Limit,      \* at most this many at once
    NoResult    \* what a result is before it is there

VARIABLES
    begun,      \* how many items a worker has been called for
    results     \* results[i], NoResult until i's worker is done

Items   == 1 .. Count
Current == {i \in Items : i <= begun /\ results[i] = NoResult}

Init == begun = 0 /\ results = [i \in Items |-> NoResult]

Begin ==
    /\ begun < Count
    /\ Cardinality(Current) < Limit
    /\ begun' = begun + 1
    /\ UNCHANGED results

Settle(i) ==
    /\ i \in Current
    /\ results'[i] # NoResult
    /\ results' = [results EXCEPT ![i] = results'[i]]
    /\ UNCHANGED begun

Next == Begin \/ \E i \in Items : Settle(i)

\* Once work has begun every item gets its result.
Progress == \A i \in Items : begun > 0 ~> results[i] # NoResult

Spec == Init /\ [][Next]_<<begun, results>> /\ Progress

================================================================================
