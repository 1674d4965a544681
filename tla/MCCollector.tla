------------------------------ MODULE MCCollector ------------------------------
(***************************************************************************)
(* TLC instance of Collector: "a" carries content (one span, one event),   *)
(* "b" one span without content, "e" converts to nothing and "m" does not  *)
(* decode; two of the first fill a batch of two.  The clients of the       *)
(* requests that a behaviour has no use for have given up on a dead        *)
(* connection before it starts, which bounds what is in flight together.   *)
(***************************************************************************)
EXTENDS Collector

MCRowCount == [t \in Tables |-> [r \in Requests |->
    CASE r = "a" -> 1
      [] r = "b" -> IF t = "spans" THEN 1 ELSE 0
      [] OTHER   -> 0]]

OncePosts == {"a", "e", "m"} \X {1}
RetriedPosts == {"a", "b"} \X (1..MaxAttempts)

MCInit ==
    /\ \E active \in {RetriedPosts, OncePosts} :
           reply = [p \in Posts |-> IF p \in active THEN "unsent" ELSE "none"]
    /\ server = "serving" /\ writer = "select" /\ draining = FALSE
    /\ accepted = {} /\ channel = <<>>
    /\ buf = NoPosts /\ stored = NoPosts /\ dropped = NoPosts /\ lost = NoPosts
    /\ failures = 0 /\ crashes = 0

MCSpec == MCInit /\ [][Next]_vars /\ Fairness

================================================================================
