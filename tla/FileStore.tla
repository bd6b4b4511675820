------------------------------ MODULE FileStore ------------------------------
(***************************************************************************)
(* What the RAM file system promises a caller that makes one call at a     *)
(* time: a map from names to byte contents.  A content is a prefix of the  *)
(* data some write passed: its source and its length.                      *)
(***************************************************************************)
EXTENDS Integers

CONSTANTS Names,      \* names callers pass
          Stored,     \* [Names -> names]: the name a created file goes by
          Data,       \* the buffers callers write
          Sizes       \* the sizes callers write or read

Absent == [src |-> "absent", len |-> 0]
Empty  == [src |-> "none", len |-> 0]
Prefix(content, n) == IF n < content.len THEN [content EXCEPT !.len = n] ELSE content

VARIABLES files,      \* stored name -> content or Absent
          rc,         \* the last call's return value
          out         \* what the last vfs_read put into the caller's buffer

storeVars == <<files, rc, out>>

AllNames == Names \cup {Stored[n] : n \in Names}

StoreInit == /\ files = [n \in AllNames |-> Absent]
             /\ rc = 0 /\ out = Empty

(* A creation makes an empty file, hiding an older one of the same name,   *)
(* or fails for want of memory and changes nothing.                        *)
Create(n) == /\ \/ /\ files' = [files EXCEPT ![Stored[n]] = Empty]
                   /\ rc' = 1
                \/ rc' = 0 /\ UNCHANGED files
             /\ out' = Empty

(* A write replaces the whole content, or fails for want of memory: then   *)
(* the old content is gone too.  It cannot fail when the new content is no *)
(* longer than the old one.                                                *)
Write(n, d, k) ==
    /\ files[n] # Absent
    /\ \/ /\ k > 0
          /\ files' = [files EXCEPT ![n] = [src |-> d, len |-> k]]
          /\ rc' = k
       \/ /\ k = 0 \/ k > files[n].len
          /\ files' = [files EXCEPT ![n] = Empty]
          /\ rc' = 0
    /\ out' = Empty

WriteMissing(n) == /\ files[n] = Absent
                   /\ rc' = 0 /\ out' = Empty /\ UNCHANGED files

(* A read delivers the first k bytes of what was last written. *)
Read(n, k) == LET got == IF files[n] = Absent THEN Empty ELSE Prefix(files[n], k)
              IN  /\ rc' = got.len
                  /\ out' = IF got.len = 0 THEN Empty ELSE got
                  /\ UNCHANGED files

StoreNext == \E n \in AllNames :
                \/ n \in Names /\ Create(n)
                \/ WriteMissing(n)
                \/ \E k \in Sizes : Read(n, k) \/ \E d \in Data : Write(n, d, k)

StoreSpec == StoreInit /\ [][StoreNext]_storeVars
=============================================================================
