--------------------------------- MODULE MCLivePages ---------------------------------
(***************************************************************************)
(* What tabs share of live traces: on a trace's page its poller, on the    *)
(* list of traces the query of running traces.  A behaviour is one of      *)
(* either.                                                                 *)
(***************************************************************************)
EXTENDS MCLiveBroker, LiveRail

\* Bound: two tabs and three queries for one trace, one tab and two queries for both.
OneYoungTrace == stored \subseteq RailTraces \ Old
OneTab(t) == \A u \in RailTabs \ {t} : u \notin visible /\ over[u] = {} /\ shown[u] = {}
FewQueries == OneYoungTrace \/ (Len(queries) <= 2 /\ OneTab("l1"))

VARIABLES
    kind        \* the kind of page

PagesInit == kind \in {"trace", "list"} /\ Init /\ RailInit

PagesNext ==
    /\ UNCHANGED kind
    /\ \/ kind = "trace" /\ Next /\ UNCHANGED railVars
       \/ kind = "list" /\ RailNext /\ FewQueries' /\ UNCHANGED vars

PagesSpec == PagesInit /\ [][PagesNext]_<<kind, vars, railVars>>

======================================================================================
