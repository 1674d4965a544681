------------------------------ MODULE MCLiveBroker ------------------------------
(***************************************************************************)
(* TLC instances of LiveBroker: one trace "t" with spans 1 (the root) and  *)
(* 2 .., and one eval; a second trace "u" for the registry and the caps.   *)
(***************************************************************************)
EXTENDS LiveBroker, TLC

CONSTANTS SpanIds, EvalIds, OtherTraceIds, EvalVersions, SpanCap, Tabs, OtherTabs

MCItems   == [k \in Kinds |-> IF k = "span" THEN SpanIds ELSE EvalIds]
MCTraceOf == [k \in Kinds |-> [i \in MCItems[k] |-> IF k = "span" /\ i \in OtherTraceIds
                                                     THEN "u" ELSE "t"]]
MCMaxVer  == [k \in Kinds |-> IF k = "span" THEN 1 ELSE EvalVersions]
MCCap     == [k \in Kinds |-> IF k = "span" THEN SpanCap ELSE 3]
MCClients == Tabs \cup OtherTabs
MCWatches == [c \in MCClients |-> IF c \in OtherTabs THEN "u" ELSE "t"]

Symmetry  == Permutations(Tabs) \cup Permutations(Conns) \cup Permutations(Pollers)

================================================================================
