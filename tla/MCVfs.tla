-------------------------------- MODULE MCVfs --------------------------------
(* Vfs on an arena with room for the boot blocks and two or three more     *)
(* files, so that creations and writes both fail for want of memory.  The  *)
(* long name is stored under another name, its first 31 characters.        *)
EXTENDS Vfs

CONSTANTS w, long, cut, d1, bd

MCNames == {w, long}
MCStored == [n \in MCNames |-> IF n = long THEN cut ELSE n]
MCSizes == {0, 5, 20}
=============================================================================
