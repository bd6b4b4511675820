-------------------------------- MODULE Paging --------------------------------
(***************************************************************************)
(* Physical frames and page tables (kernel/memory/paging.c): the bitmap of *)
(* frames, the count of used ones, and the page directories that hand      *)
(* frames out to virtual pages.                                            *)
(*                                                                         *)
(* A page is the pair of its directory index and its table index.  The     *)
(* callers are assumed to free only frames they got themselves from        *)
(* paging_allocate_frame, and the heap to have room for directories and    *)
(* tables (the code does not look whether it had).                         *)
(***************************************************************************)
EXTENDS Integers, FiniteSets

CONSTANTS TotalFrames,  \* total_memory / PAGE_SIZE
          StartFrame,   \* 0x100000 / PAGE_SIZE
          Word,         \* size_t wraps here: 2^32
          Dirs,         \* the directories there can be
          KernelDir,    \* the one paging_init creates
          PdIndices, PtIndices,  \* 0 .. 1023 each
          KernelPages   \* bound: how many pages paging_init maps (1024)

ASSUME PagingAssumption ==
    /\ TotalFrames \in Nat /\ StartFrame \in 0 .. TotalFrames
    /\ Word \in Nat /\ Word > 2 * TotalFrames
    /\ KernelDir \in Dirs
    /\ 0 \in PdIndices
    /\ KernelPages \in Nat
    /\ KernelPages <= TotalFrames - StartFrame
    /\ PtIndices \subseteq Nat /\ 0 .. (KernelPages - 1) \subseteq PtIndices

Frames == 0 .. (TotalFrames - 1)
Pages == PdIndices \X PtIndices
NoFrame == TotalFrames
KernelPage(i) == <<0, i>>    \* the first 4 MiB are all of directory entry 0

VARIABLES bitmap,       \* frame_bitmap: the frames whose bit is set
          used_frames,
          dirs,         \* the directories created so far
          tables,       \* directory -> the entries that have a table
          entries,      \* directory -> page -> its frame, or NoFrame
          held,         \* history: frames given out by paging_allocate_frame
          halted        \* paging_allocate_frame panicked

pagingVars == <<bitmap, used_frames, dirs, tables, entries, held, halted>>

----------------------------------------------------------------------------
(* the bit loops *)

(* paging_init walks up from the frame at 1 MiB *)
FreedAtBoot == StartFrame .. (TotalFrames - 1)

Unused == Frames \ bitmap
FirstFree == CHOOSE f \in Unused : \A g \in Unused : f <= g

(* used_frames-- wraps below zero; the mutant stops there *)
Decrement_Clamped(n) == IF n = 0 THEN 0 ELSE n - 1
Decrement(n) == (n - 1) % Word
Increment(n) == (n + 1) % Word

(* the bits after a frame was taken; the mutant forgets to set it *)
Marked_Not(f) == bitmap
Marked(f) == bitmap \cup {f}

paging_get_free_frames == (TotalFrames - used_frames) % Word

(* map_page leaves a page that is present alone; the mutant maps it anew   *)
Present_Never(d, page) == FALSE
Present(d, page) == entries[d][page] # NoFrame

(* the state after paging_init: every frame from 1 MiB up was given to     *)
(* paging_free_frame, with used_frames going down from zero, then the      *)
(* first pages took the lowest of them in order                            *)
PagingInit ==
    /\ bitmap = (Frames \ FreedAtBoot)
                \cup {StartFrame + i : i \in 0 .. (KernelPages - 1)}
    /\ used_frames = (KernelPages - (TotalFrames - StartFrame)) % Word
    /\ dirs = {KernelDir}
    /\ tables = [d \in Dirs |-> IF d = KernelDir /\ KernelPages > 0 THEN {0} ELSE {}]
    /\ entries = [d \in Dirs |-> [page \in Pages |->
                    IF d = KernelDir /\ page[1] = 0 /\ page[2] < KernelPages
                    THEN StartFrame + page[2] ELSE NoFrame]]
    /\ held = {}
    /\ halted = FALSE

paging_create_directory(d) ==
    /\ ~halted /\ d \notin dirs
    /\ dirs' = dirs \cup {d}
    /\ UNCHANGED <<bitmap, used_frames, tables, entries, held, halted>>

(* no frame is left: the kernel stops *)
Panic ==
    /\ Unused = {}
    /\ halted' = TRUE
    /\ UNCHANGED <<bitmap, used_frames>>

TakeFrame ==
    /\ Unused # {}
    /\ bitmap' = Marked(FirstFree)
    /\ used_frames' = Increment(used_frames)
    /\ UNCHANGED halted

paging_allocate_frame ==
    /\ ~halted
    /\ \/ TakeFrame /\ held' = held \cup {FirstFree}
       \/ Panic /\ UNCHANGED held
    /\ UNCHANGED <<dirs, tables, entries>>

paging_free_frame(f) ==
    /\ ~halted /\ f \in held
    /\ bitmap' = bitmap \ {f}
    /\ used_frames' = Decrement(used_frames)
    /\ held' = held \ {f}
    /\ UNCHANGED <<dirs, tables, entries, halted>>

(* the table comes first, whether or not a frame can be had *)
paging_map_page(d, page) ==
    /\ ~halted /\ d \in dirs
    /\ tables' = [tables EXCEPT ![d] = @ \cup {page[1]}]
    /\ \/ /\ Present(d, page)
          /\ UNCHANGED <<bitmap, used_frames, entries, halted>>
       \/ /\ ~Present(d, page)
          /\ TakeFrame
          /\ entries' = [entries EXCEPT ![d][page] = FirstFree]
       \/ ~Present(d, page) /\ Panic /\ UNCHANGED entries
    /\ UNCHANGED <<dirs, held>>

paging_unmap_page(d, page) ==
    /\ ~halted /\ d \in dirs
    /\ page[1] \in tables[d] /\ Present(d, page)
    /\ bitmap' = bitmap \ {entries[d][page]}
    /\ used_frames' = Decrement(used_frames)
    /\ entries' = [entries EXCEPT ![d][page] = NoFrame]
    /\ UNCHANGED <<dirs, tables, held, halted>>

Halted == halted /\ UNCHANGED pagingVars

PagingNext ==
    \/ \E d \in Dirs : paging_create_directory(d)
    \/ paging_allocate_frame
    \/ \E f \in held : paging_free_frame(f)
    \/ \E d \in dirs, page \in Pages :
          paging_map_page(d, page) \/ paging_unmap_page(d, page)
    \/ Halted

PagingSpec == PagingInit /\ [][PagingNext]_pagingVars

----------------------------------------------------------------------------
(* Properties *)

PagingTypeOK ==
    /\ bitmap \subseteq Frames
    /\ used_frames \in 0 .. (Word - 1)
    /\ dirs \subseteq Dirs
    /\ tables \in [Dirs -> SUBSET PdIndices]
    /\ entries \in [Dirs -> [Pages -> Frames \cup {NoFrame}]]
    /\ held \subseteq Frames
    /\ halted \in BOOLEAN

Mapped == {entries[d][page] : d \in Dirs, page \in Pages} \ {NoFrame}

(* A frame backs at most one page of one directory, and never one that a   *)
(* caller of paging_allocate_frame holds.                                  *)
FramesExclusive ==
    /\ Mapped \cap held = {}
    /\ \A d1, d2 \in Dirs : \A p1, p2 \in Pages :
          entries[d1][p1] = entries[d2][p2] /\ entries[d1][p1] # NoFrame
          => d1 = d2 /\ p1 = p2

(* A bit is clear exactly for the frames from 1 MiB up that nobody has:    *)
(* no frame leaks, and the first megabyte is never given out.              *)
BitmapExact == Unused = (StartFrame .. (TotalFrames - 1)) \ (Mapped \cup held)

(* paging_get_free_frames is always wrong by the whole memory: paging_init *)
(* counts every frame it frees down from zero, and the count never gets    *)
(* back in step.                                                           *)
FreeCountOff == paging_get_free_frames = TotalFrames + Cardinality(Unused)
=============================================================================
