------------------------------ MODULE TraceChannel ------------------------------
(***************************************************************************)
(* What the trace buffers of one thread promise its writer and its reader: *)
(* a bounded first-in-first-out channel of batches.  Records are numbered  *)
(* 0, 1, 2, ... in the order they are written.  `open' of them wait in a   *)
(* batch that is still being filled, `queue' holds the sizes of the        *)
(* published batches, and the reader has seen exactly the first            *)
(* `delivered' records: none is lost, repeated or reordered.               *)
(***************************************************************************)
EXTENDS Naturals, Sequences

CONSTANTS BatchSize,    \* records in a full batch
          Capacity      \* batches that may be published and not yet read

VARIABLES written, open, queue, delivered

vars == <<written, open, queue, delivered>>

Init ==
    /\ written = 0
    /\ open = 0
    /\ queue = <<>>
    /\ delivered = 0

\* A record joins the open batch; a batch that is full is published at once.
Write ==
    /\ written' = written + 1
    /\ \/ /\ open + 1 < BatchSize
          /\ open' = open + 1
          /\ queue' = queue
       \/ /\ open + 1 = BatchSize
          /\ open' = 0
          /\ Len(queue) < Capacity
          /\ queue' = Append(queue, BatchSize)
    /\ delivered' = delivered

\* The writer publishes what it has, possibly nothing.
Publish ==
    /\ Len(queue) < Capacity
    /\ queue' = Append(queue, open)
    /\ open' = 0
    /\ UNCHANGED <<written, delivered>>

\* The reader takes the oldest batch.
Deliver ==
    /\ queue # <<>>
    /\ delivered' = delivered + Head(queue)
    /\ queue' = Tail(queue)
    /\ UNCHANGED <<written, open>>

Next == Write \/ Publish \/ Deliver

Spec == Init /\ [][Next]_vars
================================================================================
