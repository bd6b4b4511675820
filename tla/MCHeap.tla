------------------------------- MODULE MCHeap -------------------------------
(* Heap on an arena of 72 bytes with 12-byte headers and an 8-bit size_t:  *)
(* room for four blocks, so that splits, exact fits, rests too small to    *)
(* split, merges on both sides, failures and the wrap of the rounding all  *)
(* occur.                                                                  *)
EXTENDS Heap

MCRequests == {0, 1, 14, 28, 252, 254}
MCForeign == {8, 88}
=============================================================================
