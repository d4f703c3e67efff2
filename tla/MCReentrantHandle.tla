------------------------- MODULE MCReentrantHandle -------------------------
(* ReentrantHandle for TLC: threads are interchangeable.                    *)
EXTENDS ReentrantHandle, TLC

Symmetry == Permutations(Threads)
=============================================================================
