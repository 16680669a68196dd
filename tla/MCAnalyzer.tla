------------------------------- MODULE MCAnalyzer -------------------------------
(* A small instance of Analyzer: one thread that nests calls three deep,   *)
(* and another one whose single call comes in between.                     *)
EXTENDS Analyzer, TLC

CONSTANTS deep, shallow

TwoThreads == {deep, shallow}
Records == (deep :> 6) @@ (shallow :> 2)
Working == (deep :> 1) @@ (shallow :> 0)
================================================================================
