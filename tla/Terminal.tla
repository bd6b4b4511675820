------------------------------- MODULE Terminal -------------------------------
(***************************************************************************)
(* The terminal's line and what the shell and the package manager make of  *)
(* it (terminal/terminal.c, shell/shell.c, cpm/cpm.c).  Characters arrive  *)
(* one at a time; the code looks for the newline and the space only, so    *)
(* the others are a few letters, and the words it knows are constants.     *)
(* fs_mkdir is defined nowhere; it makes the directory or it does not.     *)
(***************************************************************************)
EXTENDS Integers, Sequences, FiniteSets

CONSTANTS Letters,
          BufferSize,          \* 256
          ArgMax,              \* 16
          Cpm, CpmInit, CpmInstall   \* the words the code compares with, as sequences of letters

ASSUME TerminalAssumption == /\ BufferSize \in Nat \ {0, 1} /\ ArgMax \in Nat \ {0}
                             /\ {Cpm, CpmInit, CpmInstall} \subseteq Seq(Letters)
                             /\ {"space", "nul"} \cap Letters = {} /\ CpmInit # CpmInstall

VARIABLES input_buffer, input_index,
          argv,       \* the words of the last command
          dirs,       \* directories that were made
          typed       \* history: what was typed since the last newline, as far as it fits

terminalVars == <<input_buffer, input_index, argv, dirs, typed>>

TerminalInit == /\ input_buffer = [b \in 0 .. BufferSize - 1 |-> "nul"] /\ input_index = 0
                /\ argv = <<>> /\ dirs = {} /\ typed = <<>>

----------------------------------------------------------------------------
(* the bytes of a string up to the character that ends it *)
Terminated(buf) == {b \in DOMAIN buf : buf[b] = "nul"}
StringLen(buf) == CHOOSE b \in Terminated(buf) : \A c \in Terminated(buf) : b <= c

(* strtok: where the words of a text begin, what they are, and the first   *)
(* ArgMax of them                                                          *)
Starts(s) == {k \in DOMAIN s : s[k] # "space" /\ (k = 1 \/ s[k - 1] = "space")}
EndFrom(s, k) == CHOOSE l \in k .. Len(s) :
                    /\ l = Len(s) \/ s[l + 1] = "space"
                    /\ \A c \in k .. l : s[c] # "space"
Nth(s, n) == CHOOSE k \in Starts(s) : Cardinality({j \in Starts(s) : j <= k}) = n
NumberOfArgs(s) == LET words == Cardinality(Starts(s)) IN IF words < ArgMax THEN words ELSE ArgMax
Args(s) == [n \in 1 .. NumberOfArgs(s) |-> SubSeq(s, Nth(s, n), EndFrom(s, Nth(s, n)))]

(* strtok ends a word by overwriting the space behind it, ArgMax + 1 times *)
(* at most                                                                 *)
Cut(s, buf) == [b \in DOMAIN buf |->
                  IF \E n \in 1 .. Cardinality(Starts(s)) : n <= ArgMax + 1 /\ EndFrom(s, Nth(s, n)) = b
                    THEN "nul" ELSE buf[b]]

(* the directories a command asks fs_mkdir for: cpm init, and cpm install  *)
(* with a name; every other command only writes to the screen, and so does *)
(* cpm remove                                                              *)
cpm_main(a) ==
    IF Len(a) < 2 THEN {}
    ELSE IF a[2] = CpmInit THEN {<<"/.cpm">>, <<"/.cpm", "packages">>}
    ELSE IF a[2] = CpmInstall /\ Len(a) >= 3 THEN {<<"/.cpm", "packages", a[3]>>} ELSE {}

shell_execute(a) == IF a # <<>> /\ a[1] = Cpm THEN cpm_main(a) ELSE {}

----------------------------------------------------------------------------
(* the character that ends the line; the mutant leaves what lies there *)
Ended_Not(buf) == buf
Ended(buf) == [buf EXCEPT ![input_index] = "nul"]

Newline ==
    LET ended == Ended(input_buffer)
        line == [k \in 1 .. StringLen(ended) |-> ended[k - 1]]
    IN  /\ Terminated(ended) # {}
        /\ input_buffer' = Cut(line, ended)
        /\ argv' = Args(line)
        /\ \E made \in SUBSET shell_execute(argv') : dirs' = dirs \cup made
        /\ input_index' = 0
        /\ typed' = <<>>

(* a character past the end of the buffer is dropped *)
Room == input_index < BufferSize - 1

Character(c) ==
    /\ IF Room THEN /\ input_buffer' = [input_buffer EXCEPT ![input_index] = c]
                    /\ input_index' = input_index + 1
               ELSE UNCHANGED <<input_buffer, input_index>>
    /\ typed' = IF Len(typed) < BufferSize - 1 THEN Append(typed, c) ELSE typed
    /\ UNCHANGED <<argv, dirs>>

terminal_input == Newline \/ \E c \in Letters \cup {"space"} : Character(c)

TerminalNext == terminal_input

TerminalSpec == TerminalInit /\ [][TerminalNext]_terminalVars

----------------------------------------------------------------------------
(* Properties *)

(* A command's words are the first ArgMax words that were typed since the  *)
(* last newline, whatever an earlier and longer line left in the buffer;   *)
(* and no directory is made that such a command did not ask for.           *)
WhatYouType ==
    [][ typed' = <<>> =>
          /\ argv' = Args(typed)
          /\ dirs' \ dirs \subseteq shell_execute(Args(typed)) ]_terminalVars
=============================================================================
