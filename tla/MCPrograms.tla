------------------------------ MODULE MCPrograms ------------------------------
(* The process table, the file table, the terminal, the installer and the  *)
(* logical kernel share no state: a behaviour is one of them, the others   *)
(* stay as they start.                                                     *)
EXTENDS ProcessTable, FsTable, Terminal, Installer, KernelLua

VARIABLE part

MCCpm == <<"a">>
MCInit == <<"a", "a">>
MCInstall == <<"a">>

allVars == <<tableVars, fsVars, terminalVars, installerVars, kernelVars>>

ProgramsInit == /\ part \in {"table", "fs", "terminal", "installer", "kernel"}
                /\ TableInit /\ FsInit /\ TerminalInit /\ InstallerInit /\ KernelInit
                /\ part # "installer" => disk = {} /\ ~elsewhere /\ input = "other"

ProgramsNext ==
    /\ UNCHANGED part
    /\ \/ part = "table" /\ TableNext
          /\ UNCHANGED <<fsVars, terminalVars, installerVars, kernelVars>>
       \/ part = "fs" /\ FsNext
          /\ UNCHANGED <<tableVars, terminalVars, installerVars, kernelVars>>
       \/ part = "terminal" /\ TerminalNext
          /\ UNCHANGED <<tableVars, fsVars, installerVars, kernelVars>>
       \/ part = "installer" /\ InstallerNext
          /\ UNCHANGED <<tableVars, fsVars, terminalVars, kernelVars>>
       \/ part = "kernel" /\ KernelNext
          /\ UNCHANGED <<tableVars, fsVars, terminalVars, installerVars>>

ProgramsSpec == ProgramsInit /\ [][ProgramsNext]_<<part, allVars>>
=============================================================================
