-------------------------------- MODULE MCBoot --------------------------------
(* Boot with the timer, the keyboard and the floppy drive, the answer      *)
(* disk.c gives and the one kernel_main hopes for.                         *)
EXTENDS Boot
=============================================================================
