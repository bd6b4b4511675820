------------------------------ MODULE MCProcess ------------------------------
(* Process with the idle process and two others, a priority the picking     *)
(* loop accepts and the one it does not, and a clock of two values.         *)
EXTENDS Process

MCPriorities == {1, 255}
=============================================================================
