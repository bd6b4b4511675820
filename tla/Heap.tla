-------------------------------- MODULE Heap --------------------------------
(***************************************************************************)
(* The kernel heap (kernel/memory/memory.c): a list of block headers laid  *)
(* out in one contiguous arena, first-fit allocation with splitting, and   *)
(* coalescing of adjacent free blocks on every free.                       *)
(*                                                                         *)
(* A block is named by the address of its header.  The three header fields *)
(* are three functions over the addresses that currently hold a reachable  *)
(* header.  One step is one iteration of the loop the C function is in, so *)
(* the loops terminate (or not) in the model as they do in the code.       *)
(***************************************************************************)
EXTENDS Integers

CONSTANTS HeapSize,   \* bytes handed to Memory_init (1 MiB in kernel_main)
          HDR,        \* sizeof(block_header_t): 12 on the 32-bit target
          Base,       \* address handed to Memory_init (0x100000)
          Word,       \* 2^width of size_t
          Requests,   \* sizes the callers of Memory_alloc pass
          Foreign     \* addresses outside the arena passed to Memory_free

NULL == 0
heap_start == Base
heap_end   == Base + HeapSize

ASSUME HeapAssumption ==
    /\ HDR \in Nat /\ HDR > 0 /\ HDR % 4 = 0
    /\ Base \in Nat /\ Base > 0 /\ Base % 4 = 0
    /\ HeapSize \in Nat /\ HeapSize > HDR /\ HeapSize % 4 = 0
    /\ Word \in Nat /\ Word % 4 = 0
    /\ Base + HeapSize + HDR + 4 < Word
    /\ Requests \subseteq 0 .. (Word - 1)
    /\ Foreign \subseteq {p \in Nat : p > 0 /\ (p < Base \/ p >= Base + HeapSize)}

VARIABLES size, used, next,  \* the header fields, by header address
          pc,                \* where the allocator is: "idle", "scan", "coalesce"
          cur,               \* the local `current` of the running loop
          want,              \* the local `size` of Memory_alloc, rounded
          asked,             \* the argument of the running Memory_alloc
          ret,               \* what the last Memory_alloc returned
          grant              \* history: pointers held by callers -> bytes asked

heapVars == <<size, used, next, pc, cur, want, asked, ret, grant>>

Blocks == DOMAIN size

----------------------------------------------------------------------------
(* Expressions of the C code *)

(* x mod 2^width, for a sum x that exceeds the width at most once *)
Wrap(x) == IF x < Word THEN x ELSE x - Word

(* size = (size + 3) & ~3; the mutant rounds down *)
RoundUp_Down(n) == n - (n % 4)
RoundUp(n) == Wrap(n + 3) - (Wrap(n + 3) % 4)

PayloadOf(b) == b + HDR
HeaderOf(p)  == p - HDR
EndOf(b)     == b + HDR + size[b]

(* !current->used && current->size >= size; the mutant refuses exact fits *)
Fits_Strict(b, n) == ~used[b] /\ size[b] > n
Fits(b, n) == ~used[b] /\ size[b] >= n

(* the remainder is worth a block of its own; the mutant forgets its header *)
Splits_NoHeader(b, n) == size[b] > n + 4
Splits(b, n) == size[b] > n + HDR + 4

(* both neighbours free: current swallows current->next; the mutant looks  *)
(* at current alone                                                        *)
Mergeable_OneSide(b, c) == ~used[b]
Mergeable(b, c) == ~used[b] /\ ~used[c]

(* the pointers Memory_free looks at; anything else is ignored *)
InArena(p) == p >= heap_start /\ p < heap_end

(* what the merged block is extended by *)
MergeGain(c) == size[c] + HDR

(* the size left in the block split off a block b that keeps n bytes *)
SplitRest(b, n) == size[b] - n - HDR

(* current = current->next; the mutant treats the list as circular *)
Advance_Circular(b) == IF next[b] = NULL THEN heap_start ELSE next[b]
Advance(b) == next[b]

(* both loops start at the first header of the arena, whatever block the   *)
(* call is about; the mutant coalesces forward of the freed block only     *)
ScanFrom == heap_start
CoalesceFrom_Freed(p) == HeaderOf(p)
CoalesceFrom(p) == heap_start

(* after a merge the loop looks at the same block again, whose new         *)
(* neighbour may be free too; the mutant moves on                          *)
AfterMerge_MovesOn(b) == IF next[next[b]] = NULL THEN b ELSE next[next[b]]
AfterMerge(b) == b

----------------------------------------------------------------------------
(* Memory_init: one free block spans the arena *)
Memory_init ==
    /\ size = [b \in {heap_start} |-> HeapSize - HDR]
    /\ used = [b \in {heap_start} |-> FALSE]
    /\ next = [b \in {heap_start} |-> NULL]

HeapInit ==
    /\ Memory_init
    /\ pc = "idle" /\ cur = NULL /\ want = 0 /\ asked = 0 /\ ret = NULL
    /\ grant = [p \in {} |-> 0]

(* the locals of a C function die when it returns *)
Return == pc' = "idle" /\ cur' = NULL /\ want' = 0 /\ asked' = 0

(* Memory_alloc(n): the early return for 0, else the scan starts at the    *)
(* first header                                                            *)
Memory_alloc(n) ==
    /\ pc = "idle"
    /\ IF n = 0
         THEN ret' = NULL /\ UNCHANGED <<pc, cur, want, asked>>
         ELSE /\ asked' = n
              /\ want' = RoundUp(n)
              /\ cur' = ScanFrom
              /\ pc' = "scan"
              /\ UNCHANGED ret
    /\ UNCHANGED <<size, used, next, grant>>

(* the scanned block is in use or too small *)
ScanSkip ==
    /\ pc = "scan" /\ cur # NULL
    /\ ~Fits(cur, want)
    /\ cur' = Advance(cur)
    /\ UNCHANGED <<size, used, next, pc, want, asked, ret, grant>>

(* the first block that fits is taken, and split when the rest is worth it *)
ScanTake ==
    /\ pc = "scan" /\ cur # NULL
    /\ Fits(cur, want)
    /\ IF Splits(cur, want)
         THEN LET nb == cur + HDR + want
              IN  /\ size' = [b \in Blocks \cup {nb} |->
                                 IF b = nb THEN SplitRest(cur, want)
                                 ELSE IF b = cur THEN want ELSE size[b]]
                  /\ used' = [b \in Blocks \cup {nb} |->
                                 IF b = nb THEN FALSE
                                 ELSE IF b = cur THEN TRUE ELSE used[b]]
                  /\ next' = [b \in Blocks \cup {nb} |->
                                 IF b = nb THEN next[cur]
                                 ELSE IF b = cur THEN nb ELSE next[b]]
         ELSE /\ used' = [used EXCEPT ![cur] = TRUE]
              /\ UNCHANGED <<size, next>>
    /\ ret' = PayloadOf(cur)
    /\ grant' = [p \in DOMAIN grant \cup {PayloadOf(cur)} |->
                    IF p = PayloadOf(cur) THEN asked ELSE grant[p]]
    /\ Return

(* the list is exhausted *)
ScanFail ==
    /\ pc = "scan" /\ cur = NULL
    /\ ret' = NULL
    /\ Return
    /\ UNCHANGED <<size, used, next, grant>>

(* Memory_free(p) for a pointer the caller holds: the header is marked     *)
(* free and coalesce() starts over the whole list.  A held pointer that    *)
(* fails the range test is ignored, and stays allocated.                   *)
Memory_free(p) ==
    /\ pc = "idle"
    /\ p \in DOMAIN grant
    /\ grant' = [q \in DOMAIN grant \ {p} |-> grant[q]]
    /\ IF InArena(p)
         THEN /\ used' = [used EXCEPT ![HeaderOf(p)] = FALSE]
              /\ cur' = CoalesceFrom(p)
              /\ pc' = "coalesce"
         ELSE UNCHANGED <<used, cur, pc>>
    /\ UNCHANGED <<size, next, want, asked, ret>>

(* Memory_free(p) for NULL or an address outside the arena *)
Memory_free_ignored(p) ==
    /\ pc = "idle"
    /\ p = NULL \/ ~InArena(p)
    /\ UNCHANGED heapVars

CoalesceMerge ==
    /\ pc = "coalesce" /\ cur # NULL /\ next[cur] # NULL
    /\ Mergeable(cur, next[cur])
    /\ LET gone == next[cur]
       IN  /\ size' = [b \in Blocks \ {gone} |->
                          IF b = cur THEN size[b] + MergeGain(gone) ELSE size[b]]
           /\ used' = [b \in Blocks \ {gone} |-> used[b]]
           /\ next' = [b \in Blocks \ {gone} |->
                          IF b = cur THEN next[gone] ELSE next[b]]
    /\ cur' = AfterMerge(cur)
    /\ UNCHANGED <<pc, want, asked, ret, grant>>

CoalesceSkip ==
    /\ pc = "coalesce" /\ cur # NULL /\ next[cur] # NULL
    /\ ~Mergeable(cur, next[cur])
    /\ cur' = Advance(cur)
    /\ UNCHANGED <<size, used, next, pc, want, asked, ret, grant>>

CoalesceDone ==
    /\ pc = "coalesce"
    /\ cur = NULL \/ next[cur] = NULL
    /\ Return
    /\ UNCHANGED <<size, used, next, ret, grant>>

(* the iterations of the running call *)
HeapStep == \/ ScanSkip \/ ScanTake \/ ScanFail
            \/ CoalesceMerge \/ CoalesceSkip \/ CoalesceDone

HeapNext ==
    \/ \E n \in Requests : Memory_alloc(n)
    \/ \E p \in DOMAIN grant : Memory_free(p)
    \/ \E p \in Foreign \cup {NULL} : Memory_free_ignored(p)
    \/ HeapStep

HeapSpec == HeapInit /\ [][HeapNext]_heapVars /\ WF_heapVars(HeapStep)

----------------------------------------------------------------------------
(* Properties *)

(* The header fields share one domain, and the loop locals have the values *)
(* the C locals can have.                                                  *)
TypeOK ==
    /\ size \in [Blocks -> Nat]
    /\ used \in [Blocks -> BOOLEAN]
    /\ next \in [Blocks -> Blocks \cup {NULL}]
    /\ Blocks \subseteq Nat \ {NULL}
    /\ pc \in {"idle", "scan", "coalesce"}
    /\ cur \in Nat
    /\ pc # "idle" => cur \in Blocks \cup {NULL}
    /\ want \in Nat /\ asked \in 0 .. (Word - 1)
    /\ ret \in Nat
    /\ DOMAIN grant \subseteq Nat /\ grant \in [DOMAIN grant -> 0 .. (Word - 1)]

(* The blocks tile the arena: every block lies in it, the list link of a   *)
(* block is the address right after it (NULL at the end of the arena), and *)
(* no two blocks overlap.  Splitting and merging both rewrite size and     *)
(* next of two headers; a wrong sum makes the allocator hand out memory    *)
(* twice or lose it.  The last block is never empty: its pointer would be  *)
(* heap_end, which Memory_free takes for a foreign address and ignores.    *)
Tiled ==
    /\ heap_start \in Blocks
    /\ \A b \in Blocks :
         /\ heap_start <= b /\ EndOf(b) <= heap_end
         /\ b % 4 = 0 /\ size[b] % 4 = 0
         /\ next[b] = IF EndOf(b) = heap_end THEN NULL ELSE EndOf(b)
         /\ next[b] = NULL => size[b] > 0
    /\ \A b, c \in Blocks : b < c => EndOf(b) <= c

(* The blocks in use are exactly the ones behind the pointers callers hold,*)
(* and each is large enough for what was asked.  The rounding of line 41   *)
(* wraps for the last three values of size_t: those calls succeed with a   *)
(* block of any size, so they are the exception the statement names.       *)
GrantsHold ==
    /\ \A b \in Blocks : used[b] <=> PayloadOf(b) \in DOMAIN grant
    /\ \A p \in DOMAIN grant : HeaderOf(p) \in Blocks
    /\ \A p \in DOMAIN grant : grant[p] <= Word - 4 => size[HeaderOf(p)] >= grant[p]

(* Between calls no two neighbouring blocks are both free: memory given    *)
(* back is available again in one piece, whatever the order of the frees.  *)
NoAdjacentFree ==
    pc = "idle" =>
        \A b \in Blocks : next[b] # NULL => used[b] \/ used[next[b]]

(* Memory_alloc gives up only when it has passed every block, and no free  *)
(* block of the arena is large enough.                                     *)
FailsOnlyWhenFull ==
    pc = "scan" /\ cur = NULL => \A b \in Blocks : used[b] \/ size[b] < want

(* A block a caller holds is never moved, resized or marked free by what   *)
(* other calls do: not by the split of a neighbour, nor by the coalescing  *)
(* another free triggers.                                                  *)
GrantsStable ==
    [][\A p \in DOMAIN grant \cap DOMAIN grant' :
          /\ HeaderOf(p) \in Blocks'
          /\ used'[HeaderOf(p)]
          /\ size'[HeaderOf(p)] = size[HeaderOf(p)]]_heapVars

(* Every call of the allocator returns: the scan and the coalescing loop   *)
(* reach the end of the list.                                              *)
CallsReturn == pc # "idle" ~> pc = "idle"

(* When the callers hold nothing, the arena is one free block again.       *)
Recovers ==
    pc = "idle" /\ DOMAIN grant = {} =>
        Blocks = {heap_start} /\ size[heap_start] = HeapSize - HDR
=============================================================================
