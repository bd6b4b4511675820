-------------------------------- MODULE MCIpc --------------------------------
(* Ipc with three slots, a message that fits and two that differ only       *)
(* beyond what a slot keeps.                                                *)
EXTENDS Ipc

MCTexts == {<<"a", 1>>, <<"b", 2>>, <<"b", 5>>}
=============================================================================
