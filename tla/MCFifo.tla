------------------------------- MODULE MCFifo -------------------------------
(***************************************************************************)
(* Fifo on a pool of a few cells, with one marked byte followed through    *)
(* plain ones: the code never looks at a byte.                             *)
(***************************************************************************)
EXTENDS Fifo, FiniteSetsExt

MCByte == {0, 1}

\* Blocks of up to one more than ever fits, plain or with the mark on any byte.
MCBlocks ==
    UNION {{[i \in 1 .. n |-> IF i = mark THEN 1 ELSE 0] : mark \in 0 .. n} :
              n \in 0 .. pool_size}

MCLengths == 0 .. pool_size

\* At most one cell of the pool holds the mark.
OneMark == Quantify(Cells, LAMBDA c : buffer[c] = 1) <= 1
=============================================================================
