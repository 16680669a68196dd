---------------------------- MODULE BufferingPolicy ----------------------------
(***************************************************************************)
(* The value class buffering_policy: how many trace buffers a queue may    *)
(* hold and how many of them it keeps empty.  A policy is made of a trace  *)
(* limit (in records) and two factors between 0 and 1; the factors are     *)
(* whole percents here, so that the products the constructor truncates     *)
(* stay integers.                                                          *)
(***************************************************************************)
EXTENDS Integers

CONSTANT BufferSize     \* buffering_policy::buffer_size, 384 in the code

ASSUME BufferSizeAssumption == BufferSize \in Nat \ {0}

Least(a, b) == IF a <= b THEN a ELSE b
Greatest(a, b) == IF a >= b THEN a ELSE b

\* The arguments the constructor does not refuse with invalid_argument.
ValidArguments(maxPct, minPct) ==
    /\ maxPct \in 0..100
    /\ minPct \in 0..100
    /\ minPct <= maxPct

BuffersFor(allocation) ==
    Greatest((allocation + BufferSize - 1) \div BufferSize, 1)

MakePolicy(allocation, maxPct, minPct) ==
    LET n == BuffersFor(allocation)
    IN  [max_buffers |-> n,
         max_empty   |-> Greatest((maxPct * n) \div 100, 1),
         min_empty   |-> Least((minPct * n) \div 100, n - 1)]

\* What every policy satisfies, whatever arguments it was made of.
Policy ==
    {p \in [max_buffers : Nat, max_empty : Nat, min_empty : Nat] :
        /\ p.max_empty >= 1
        /\ p.min_empty < p.max_buffers}
================================================================================
