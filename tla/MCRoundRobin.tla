----------------------------- MODULE MCRoundRobin -----------------------------
(* RoundRobin with four tasks, so that tasks are added before, at and after *)
(* every place of a ring of three.                                          *)
EXTENDS RoundRobin
=============================================================================
