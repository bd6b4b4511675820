------------------------------- MODULE Installer -------------------------------
(***************************************************************************)
(* The installer (installer/installer_gui.c): a menu of languages, a menu  *)
(* of two words, and a list of shell commands, none of whose results is    *)
(* looked at.  Left out: what is drawn, and the backup directory, which is *)
(* made and stays empty.                                                   *)
(***************************************************************************)
EXTENDS Integers, Sequences

CONSTANTS Languages,         \* 10
          Found,             \* how many file systems blkid may report
          MAX_OS_DETECTED    \* 16

ASSUME InstallerAssumption == /\ Languages \in Nat \ {0} /\ MAX_OS_DETECTED \in Nat
                              /\ Found \subseteq Nat

VARIABLES phase,
          input,         \* what the line buffer of the language menu begins with
          idioma_seleccionado,
          os_count,
          done,          \* commands that have run
          elsewhere,     \* /dev/sda1 is mounted where the running system has it
          mounted,       \* it is mounted at INSTALL_DIR
          disk, host,    \* what is on /dev/sda1, and in the directory INSTALL_DIR itself
          language,      \* what etc/language holds
          failed         \* history: the commands that failed

installerVars == <<phase, input, idioma_seleccionado, os_count, done, elsewhere, mounted, disk,
                   host, language, failed>>
menus == <<input, idioma_seleccionado>>
target == <<elsewhere, mounted, disk, host, language>>

Keys == {"w", "s", "\n", "other"}

(* the line buffer is not initialized; the disk may hold a system, mounted *)
(* or not                                                                  *)
InstallerInit ==
    /\ phase = "language" /\ input \in Keys /\ idioma_seleccionado = 0 /\ os_count = 0 /\ done = 0
    /\ disk \in {{}, {"old"}} /\ elsewhere \in BOOLEAN /\ mounted = FALSE /\ host = {}
    /\ language = -1 /\ failed = {}

(* one round of the first loop; at the end of the input fgets leaves the   *)
(* buffer as it was, and its first character counts again                  *)
pantalla_idioma ==
    /\ phase = "language"
    /\ input' \in Keys
    /\ idioma_seleccionado' =
          CASE input' = "w" /\ idioma_seleccionado > 0 -> idioma_seleccionado - 1
            [] input' = "s" /\ idioma_seleccionado < Languages - 1 -> idioma_seleccionado + 1
            [] OTHER -> idioma_seleccionado
    /\ phase' = IF input' = "\n" THEN "detect" ELSE phase
    /\ UNCHANGED <<os_count, done, target, failed>>

(* at most MAX_OS_DETECTED of what blkid knows a type of *)
detect_operating_systems(before, after) ==
    /\ phase = before /\ phase' = after
    /\ \E n \in Found : os_count' = IF n < MAX_OS_DETECTED THEN n ELSE MAX_OS_DETECTED
    /\ UNCHANGED <<menus, done, target, failed>>

(* the second menu; any other line, and the end of the input, shows it again *)
ChooseInstall == /\ phase = "menu" /\ phase' = "start"
                 /\ UNCHANGED <<menus, os_count, done, target, failed>>

ChooseExit == /\ phase = "menu" /\ phase' = "exit"
              /\ UNCHANGED <<menus, os_count, done, target, failed>>

----------------------------------------------------------------------------
(* start_installation's commands; the mutant copies before it mounts *)
Script_CopyFirst == <<"umount", "format", "mkdir", "copy", "mount", "grub", "hostname", "language", "unmount">>
Script == <<"umount", "format", "mkdir", "mount", "copy", "grub", "hostname", "language", "unmount">>

Command == Script[done + 1]
Here == IF mounted THEN disk ELSE host

(* etc comes with the system's files, or a part of them, or was there *)
Possible(c) == CASE c = "umount" -> elsewhere
                 [] c = "format" -> ~elsewhere    \* mkfs -F refuses a mounted device
                 [] c \in {"hostname", "language"} -> {"system", "old", "part"} \cap Here # {}
                 [] c = "unmount" -> mounted
                 [] OTHER -> TRUE

Put(x) == IF mounted THEN disk' = disk \cup {x} /\ UNCHANGED host
          ELSE host' = host \cup {x} /\ UNCHANGED disk

Effect(c) ==
    /\ elsewhere' = (elsewhere /\ c # "umount")
    /\ mounted' = ((mounted \/ c = "mount") /\ c # "unmount")
    /\ CASE c = "format" -> disk' = {} /\ UNCHANGED host
         [] c = "copy" -> Put("system")
         [] c = "grub" -> Put("boot")
         [] c = "hostname" -> Put("hostname")
         [] c = "language" -> Put("language")
         [] OTHER -> UNCHANGED <<disk, host>>
    /\ language' = IF c = "language" THEN idioma_seleccionado ELSE language

(* a command that fails may leave a part of its work                       *)
HalfDone(c) ==
    /\ CASE c = "format" -> disk' = {"part"} /\ UNCHANGED host
         [] c \in {"copy", "grub", "hostname", "language"} -> Put("part")
         [] OTHER -> UNCHANGED <<disk, host>>
    /\ language' = IF c = "language" THEN -1 ELSE language
    /\ UNCHANGED <<elsewhere, mounted>>

(* system() runs a command, and nobody asks how it went *)
CommandSucceeds == /\ phase = "run" /\ done < Len(Script) /\ Possible(Command)
                   /\ Effect(Command)
                   /\ done' = done + 1
                   /\ UNCHANGED <<phase, menus, os_count, failed>>

CommandFails == /\ phase = "run" /\ done < Len(Script)
                /\ failed' = IF Command = "umount" /\ ~elsewhere THEN failed
                             ELSE failed \cup {Command}
                /\ done' = done + 1
                /\ \/ UNCHANGED target
                   \/ Possible(Command) /\ HalfDone(Command)
                /\ UNCHANGED <<phase, menus, os_count>>

(* "Installation complete!" *)
Complete == /\ phase = "run" /\ done = Len(Script) /\ phase' = "complete"
            /\ UNCHANGED <<menus, os_count, done, target, failed>>

Exited == phase \in {"complete", "exit"} /\ UNCHANGED installerVars

InstallerNext == \/ pantalla_idioma
                 \/ detect_operating_systems("detect", "menu")
                 \/ detect_operating_systems("start", "run")
                 \/ ChooseInstall \/ ChooseExit
                 \/ CommandSucceeds \/ CommandFails \/ Complete \/ Exited

InstallerSpec == InstallerInit /\ [][InstallerNext]_installerVars

----------------------------------------------------------------------------
(* Properties *)

(* What "Installation complete!" is worth.  If no command failed, the disk *)
(* holds the whole system, in the language chosen, and nothing else.       *)
(* Otherwise it is said all the same, but only a failed mount puts files   *)
(* beside the disk, and only a failed format, which a failed umount makes  *)
(* certain, leaves the old system under the new one.                       *)
WholeUnlessFailed ==
    phase = "complete" =>
       /\ failed = {} => /\ disk = {"system", "boot", "hostname", "language"} /\ host = {}
                         /\ language = idioma_seleccionado /\ ~mounted
       /\ host # {} => "mount" \in failed
       /\ "old" \in disk => "format" \in failed
       /\ "umount" \in failed => "format" \in failed
=============================================================================
