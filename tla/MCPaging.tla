------------------------------- MODULE MCPaging -------------------------------
(* Paging with five frames, two of them below the first megabyte's end, two *)
(* directories of two entries with two pages each, and one kernel page.     *)
EXTENDS Paging

MCPdIndices == 0 .. 1
MCPtIndices == 0 .. 1
=============================================================================
