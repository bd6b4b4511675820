-------------------------------- MODULE FsTable --------------------------------
(***************************************************************************)
(* The flat file table (filesystem/fs.c): files are added at the end, and  *)
(* found by the first entry of their name.  Nothing is ever removed;       *)
(* fs_init empties the table by its count alone.  A file's size has no     *)
(* reader and is left out, and so are NULL arguments.                      *)
(***************************************************************************)
EXTENDS Integers

CONSTANTS FileNames, LongNames,   \* names, the ones of MAX_FILENAME or more characters
          Contents, LongContents, \* data, the ones of MAX_FILE_SIZE or more
          NoContent,              \* the empty string
          MAX_FILES

ASSUME FsAssumption == /\ MAX_FILES \in Nat \ {0} /\ LongNames \subseteq FileNames
                       /\ LongContents \subseteq Contents /\ NoContent \in Contents \ LongContents

VARIABLES files,       \* what lies in the slots, those past file_count included
          file_count,
          lastWritten, \* history: names to what was last written to them since fs_init
          leftover     \* history: names to what lay in their slot when they were created

fsVars == <<files, file_count, lastWritten, leftover>>

FsInit == /\ files = [s \in 1 .. MAX_FILES |-> [name |-> "", data |-> NoContent]]
          /\ file_count = 0 /\ lastWritten = <<>> /\ leftover = <<>>

Matches(n) == {s \in 1 .. file_count : files[s].name = n}

(* the first match; the mutant finds the newest *)
Find_Newest(n) == CHOOSE s \in Matches(n) : \A t \in Matches(n) : t <= s
Find(n) == CHOOSE s \in Matches(n) : \A t \in Matches(n) : s <= t

With(f, n, v) == [m \in DOMAIN f \cup {n} |-> IF m = n THEN v ELSE f[m]]

fs_init == /\ file_count' = 0
           /\ lastWritten' = <<>> /\ leftover' = <<>>
           /\ UNCHANGED files

(* the data of the slot's former file stays *)
fs_create(n) ==
    /\ n \notin LongNames /\ file_count < MAX_FILES
    /\ file_count' = file_count + 1
    /\ files' = [files EXCEPT ![file_count + 1].name = n]
    /\ leftover' = IF n \in DOMAIN leftover THEN leftover
                   ELSE With(leftover, n, files[file_count + 1].data)
    /\ UNCHANGED lastWritten

fs_write(n, d) ==
    /\ d \notin LongContents /\ Matches(n) # {}
    /\ files' = [files EXCEPT ![Find(n)].data = d]
    /\ lastWritten' = With(lastWritten, n, d)
    /\ UNCHANGED <<file_count, leftover>>

fs_read(n) == files[Find(n)].data

FsNext == \/ fs_init
          \/ \E n \in FileNames : fs_create(n) \/ \E d \in Contents : fs_write(n, d)

FsSpec == FsInit /\ [][FsNext]_fsVars

----------------------------------------------------------------------------
(* Properties *)

(* A file reads as what was last written to its name: creating the name    *)
(* once more neither hides nor empties it.  One that was never written     *)
(* reads as whatever lay in its slot, which is empty only as long as       *)
(* fs_init has not been called on a table in use.                          *)
ReadsBack == \A n \in FileNames : Matches(n) # {} =>
                fs_read(n) = IF n \in DOMAIN lastWritten THEN lastWritten[n] ELSE leftover[n]
=============================================================================
