--------------------------------- MODULE Ingest ---------------------------------
(***************************************************************************)
(* What the collector promises about rows, without its queue, buffers or   *)
(* process: a delivery is taken as a whole, each of its rows is then       *)
(* settled once, as stored or as gone, and a settled row stays settled     *)
(* (at-most-once insertion, DECISIONS.md D3).                              *)
(***************************************************************************)
EXTENDS Naturals

CONSTANTS
    Deliveries,     \* deliveries that can be taken
    RowsOf(_)       \* the rows a delivery brings, disjoint per delivery

Rows == UNION {RowsOf(d) : d \in Deliveries}

VARIABLE row        \* row[x]: "absent", "held", "stored" or "gone"

Init == row = [x \in Rows |-> "absent"]

Take(d) ==
    /\ \A x \in RowsOf(d) : row[x] = "absent"
    /\ row' = [x \in Rows |-> IF x \in RowsOf(d) THEN "held" ELSE row[x]]

Settle ==
    \E S, G \in SUBSET {x \in Rows : row[x] = "held"} :
        /\ S \cap G = {}
        /\ row' = [x \in Rows |-> IF x \in S THEN "stored"
                                  ELSE IF x \in G THEN "gone" ELSE row[x]]

Next == Settle \/ \E d \in Deliveries : Take(d)

Spec == Init /\ [][Next]_row

================================================================================
