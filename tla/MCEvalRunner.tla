------------------------------ MODULE MCEvalRunner ------------------------------
(***************************************************************************)
(* TLC instances of EvalRunner: spans 1 .. N start one instant after       *)
(* another up to Last, then together; the first and the last capture the   *)
(* same text.                                                              *)
(***************************************************************************)
EXTENDS EvalRunner

CONSTANTS N, Last

MCSpans   == 1 .. N
MCStart   == [s \in MCSpans |-> IF s < Last THEN s ELSE Last]
MCContent == [s \in MCSpans |-> IF s \in {1, N} THEN "h1" ELSE "h2"]

================================================================================
