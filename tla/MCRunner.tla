----------------------------------- MODULE MCRunner ----------------------------------
(***************************************************************************)
(* Two sides of a pass of the eval runner that share no rows: a definition *)
(* over the spans, and the scores that become rows and statistics.  A      *)
(* behaviour is one of either.                                             *)
(***************************************************************************)
EXTENDS MCEvalRunner, Feedback

SpanVariants == [s1 |-> "v1", s2 |-> "v2"]

\* One of them started a tick earlier.
SpanStarts == [s1 |-> 0, s2 |-> -1]

SomeJudgments == {[body |-> Error, passed |-> FALSE], [body |-> 0, passed |-> FALSE],
                  [body |-> 2, passed |-> TRUE]}

\* Bound: promoted rows and those of a definition have keys of their own, so several
\* events and a definition at work are looked at apart.
FewScores ==
    \/ Cardinality(recorded) <= 1
    \/ version = 1 /\ \A r \in table : r.eval = "sdk"

VARIABLES
    side        \* the side that runs

RunnerInit == side \in {"definition", "scores"} /\ Init /\ FeedbackInit

RunnerNext ==
    /\ UNCHANGED side
    /\ \/ side = "definition" /\ Next /\ UNCHANGED feedbackVars
       \/ side = "scores" /\ FeedbackNext /\ FewScores' /\ UNCHANGED vars

RunnerSpec == RunnerInit /\ [][RunnerNext]_<<side, vars, feedbackVars>>

======================================================================================
