--------------------------- MODULE MCRtRingBuffer ---------------------------
(***************************************************************************)
(* RtRingBuffer on the smallest pool ringbuffer_init can produce.          *)
(***************************************************************************)
EXTENDS RtRingBuffer, FiniteSetsExt

\* The code never looks at a byte, so it is enough to follow one marked byte
\* through plain ones: wherever a call misplaces, repeats or loses a byte,
\* some behaviour has the mark on it.
MCByte == {0, 1}

\* A byte, some of the pool, just over half of it, all of it and one more:
\* with these a call can stop short of, at and past the end from any index.
MCLengths == {0, 1, 3, 5, buffer_size, buffer_size + 1}

\* Plain blocks, and blocks with the mark on the first or on the last byte.
MCBlocks ==
    UNION {{[i \in 1 .. n |-> IF i = mark THEN 1 ELSE 0] : mark \in {0, 1, n}} :
              n \in MCLengths}

\* At most one cell holds the mark.
OneMark == Quantify(Cells, LAMBDA c : buffer[c] = 1) <= 1
=============================================================================
