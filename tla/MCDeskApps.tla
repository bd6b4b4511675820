------------------------------ MODULE MCDeskApps ------------------------------
(* DeskApps with a coordinate inside and outside of every button and       *)
(* column, three notifications, and a history of four entries over three   *)
(* texts.  The files of the search hold none of the kind "config", so that *)
(* a filter without a match is reached too; the script's own table has one *)
(* file at least for each filter.                                          *)
EXTENDS DeskApps

MCXs == {60, 75, 130, 165, 210, 260, 320, 380, 430, 445, 460, 480, 505, 540}
MCYs == {95, 118, 135, 150, 175, 250}
MCTextosIniciales == <<"haz click", "se guardan", "bienvenido">>
MCProcesos == <<"kernel.lua", "gui.lua", "calculadora.lua", "shellby.py", "vfs.c">>
MCSistema == {"kernel.lua", "gui.lua"}
MCCoincide == [t \in Terminos |-> CASE t = "app" -> 1 .. 9
                                    [] t = "documento" -> {10, 11}
                                    [] t = "config" -> {}
                                    [] OTHER -> {}]
=============================================================================
