----------------------------- MODULE MCBuffersQueue -----------------------------
(* Small instances of BuffersQueue: two records a buffer, four buffers.    *)
EXTENDS BuffersQueue

FourBuffers == 4 * BufferSize

\* The policy calls_collector starts with: all buffers are allocated ahead.
AllAllocated == MakePolicy(FourBuffers, 100, 100)

\* A queue that starts small and grows on demand.
Growing == MakePolicy(FourBuffers, 50, 0)

\* What calibration switches to, at the scales where the rounding of the
\* factors differs: one empty at most, kept or not, and a wider band.
Calibrated == {MakePolicy(FourBuffers, 10, 1), MakePolicy(FourBuffers, 25, 25),
               MakePolicy(FourBuffers, 50, 25)}

\* Any mixture of growing, shrinking and smaller policies.
Mixed == {MakePolicy(FourBuffers, 0, 0), MakePolicy(FourBuffers, 100, 75),
          MakePolicy(FourBuffers, 25, 25), MakePolicy(2 * BufferSize, 50, 50)}
================================================================================
