----------------------------- MODULE HeapProofs -----------------------------
(* Proofs about the kernel heap, for every arena, header size, word width  *)
(* and set of requests that HeapAssumption allows.                         *)
EXTENDS Heap, TLAPS

(* the running loop has been past block b *)
Passed(b) == cur = NULL \/ b < cur

(* what a scan knows: every block it passed is in use or too small *)
FirstFit ==
    pc = "scan" =>
        /\ want = RoundUp(asked)
        /\ \A b \in Blocks : Passed(b) => used[b] \/ size[b] < want

(* what coalescing has restored: no free pair begins before the cursor *)
Coalesced ==
    \A b \in Blocks :
        (pc = "coalesce" => Passed(b)) /\ next[b] # NULL => used[b] \/ used[next[b]]

HeapInv == TypeOK /\ Tiled /\ GrantsHold /\ FirstFit /\ Coalesced

(* The size Memory_alloc computes from its argument is a multiple of 4     *)
(* and, unless the sum wraps, no smaller than the argument.                *)
LEMMA RoundUpFacts ==
    ASSUME NEW n \in 0 .. (Word - 1)
    PROVE  /\ RoundUp(n) \in Nat
           /\ RoundUp(n) % 4 = 0
           /\ n <= Word - 4 => RoundUp(n) >= n
  <1> DEFINE x == Wrap(n + 3)
  <1>1. x \in Nat /\ (n <= Word - 4 => x = n + 3)
    BY HeapAssumption DEF Wrap
  <1> HIDE DEF x
  <1>2. /\ x - (x % 4) \in Nat
        /\ (x - (x % 4)) % 4 = 0
        /\ x - (x % 4) >= x - 3
    BY <1>1
  <1>3. RoundUp(n) = x - (x % 4)
    BY DEF RoundUp, x
  <1> QED BY <1>1, <1>2, <1>3

(* A block the list reaches is followed by no block that begins before its *)
(* own end.                                                                *)
LEMMA NothingInside ==
    ASSUME TypeOK, Tiled, NEW b \in Blocks, NEW c \in Blocks
    PROVE  c < EndOf(b) => c <= b
  BY HeapAssumption DEF TypeOK, Tiled, EndOf

(* The initial heap satisfies the invariant.                               *)
LEMMA HeapInvInit == HeapInit => HeapInv
  <1> SUFFICES ASSUME HeapInit PROVE HeapInv
    OBVIOUS
  <1> USE HeapAssumption DEF HeapInit, Memory_init, Blocks, NULL, heap_start, heap_end
  <1>1. TypeOK
    BY DEF TypeOK
  <1>2. Tiled
    BY DEF Tiled, EndOf
  <1>3. GrantsHold
    BY DEF GrantsHold, HeaderOf, PayloadOf
  <1>4. FirstFit /\ Coalesced
    BY DEF FirstFit, Coalesced
  <1> QED BY <1>1, <1>2, <1>3, <1>4 DEF HeapInv

(* A call of Memory_alloc only sets up the scan.                           *)
LEMMA AllocPreserves ==
    ASSUME HeapInv, NEW n \in 0 .. (Word - 1), Memory_alloc(n)
    PROVE  HeapInv'
  <1> USE DEF HeapInv, Memory_alloc, Blocks, NULL
  <1>1. TypeOK'
    BY RoundUpFacts, HeapAssumption DEF TypeOK, Tiled, ScanFrom, heap_start
  <1>2. Tiled'
    BY DEF Tiled, EndOf
  <1>3. GrantsHold'
    BY DEF GrantsHold, HeaderOf, PayloadOf
  <1>4. FirstFit'
    BY HeapAssumption DEF FirstFit, Passed, Tiled, ScanFrom, heap_start, TypeOK
  <1>5. Coalesced'
    BY DEF Coalesced, Passed
  <1> QED BY <1>1, <1>2, <1>3, <1>4, <1>5

(* Skipping a block that does not fit extends what the scan has passed.    *)
LEMMA ScanSkipPreserves ==
    ASSUME HeapInv, ScanSkip
    PROVE  HeapInv'
  <1> USE DEF HeapInv, ScanSkip, Blocks, NULL, Advance
  <1>1. TypeOK'
    BY DEF TypeOK
  <1>2. Tiled'
    BY DEF Tiled, EndOf
  <1>3. GrantsHold'
    BY DEF GrantsHold, HeaderOf, PayloadOf
  <1>4. FirstFit'
    <2> SUFFICES ASSUME NEW b \in Blocks, Passed(b)'
                 PROVE  used[b] \/ size[b] < want
      BY DEF FirstFit
    <2>1. cur \in Blocks
      BY DEF TypeOK
    <2>2. b <= cur
      <3>1. CASE next[cur] = NULL
        BY <2>1, <3>1, HeapAssumption DEF TypeOK, Tiled, EndOf, heap_end
      <3>2. CASE next[cur] # NULL
        <4>1. b < EndOf(cur)
          BY <2>1, <3>2 DEF Tiled, Passed, TypeOK
        <4> QED BY <4>1, <2>1, NothingInside
      <3> QED BY <3>1, <3>2
    <2>3. CASE b = cur
      BY <2>3, <2>1 DEF Fits, TypeOK
    <2>4. CASE b < cur
      BY <2>4 DEF FirstFit, Passed
    <2> QED BY <2>1, <2>2, <2>3, <2>4 DEF TypeOK
  <1>5. Coalesced'
    BY DEF Coalesced, Passed
  <1> QED BY <1>1, <1>2, <1>3, <1>4, <1>5

(* The scan ends without a block.                                          *)
LEMMA ScanFailPreserves ==
    ASSUME HeapInv, ScanFail
    PROVE  HeapInv'
  <1> USE DEF HeapInv, ScanFail, Return, Blocks, NULL
  <1>1. TypeOK'
    BY HeapAssumption DEF TypeOK
  <1>2. Tiled'
    BY DEF Tiled, EndOf
  <1>3. GrantsHold'
    BY DEF GrantsHold, HeaderOf, PayloadOf
  <1>4. FirstFit' /\ Coalesced'
    BY DEF FirstFit, Coalesced, Passed
  <1> QED BY <1>1, <1>2, <1>3, <1>4

(* A pointer a caller holds is in the arena: Memory_free never ignores it. *)
LEMMA HeldInArena ==
    ASSUME HeapInv, NEW p \in DOMAIN grant
    PROVE  HeaderOf(p) \in Blocks /\ used[HeaderOf(p)] /\ InArena(p)
  <1>1. HeaderOf(p) \in Blocks /\ used[HeaderOf(p)] /\ p \in Nat
    BY HeapAssumption DEF HeapInv, GrantsHold, TypeOK, HeaderOf, PayloadOf
  <1>2. InArena(p)
    BY <1>1, HeapAssumption DEF HeapInv, InArena, HeaderOf, Tiled, EndOf, TypeOK,
       heap_start, heap_end, Blocks, NULL
  <1> QED BY <1>1, <1>2

(* Freeing a held pointer marks its block free; the pairs this may leave   *)
(* uncoalesced all lie ahead of the cursor, which restarts.                *)
LEMMA FreePreserves ==
    ASSUME HeapInv, NEW p \in DOMAIN grant, Memory_free(p)
    PROVE  HeapInv'
  <1> USE DEF HeapInv, Memory_free, Blocks, NULL
  <1>0. HeaderOf(p) \in Blocks /\ used[HeaderOf(p)] /\ p \in Nat
    BY HeldInArena DEF TypeOK
  <1>1. InArena(p)
    BY HeldInArena
  <1>2. TypeOK'
    BY <1>1, <1>0 DEF TypeOK, Tiled, CoalesceFrom
  <1>3. Tiled'
    BY <1>1 DEF Tiled, EndOf
  <1>4. GrantsHold'
    <2>1. \A b \in Blocks : (PayloadOf(b) = p <=> b = HeaderOf(p)) /\ HeaderOf(PayloadOf(b)) = b
      BY <1>0, HeapAssumption DEF TypeOK, HeaderOf, PayloadOf
    <2>2. \A b \in Blocks : used'[b] <=> b # HeaderOf(p) /\ used[b]
      BY <1>0, <1>1 DEF TypeOK
    <2> QED BY <1>0, <2>1, <2>2 DEF GrantsHold, HeaderOf, PayloadOf
  <1>5. FirstFit'
    BY <1>1 DEF FirstFit
  <1>6. Coalesced'
    BY <1>1, HeapAssumption DEF Coalesced, Passed, CoalesceFrom, Tiled, heap_start, TypeOK
  <1> QED BY <1>2, <1>3, <1>4, <1>5, <1>6

(* Taking the whole block: only its used flag and the grant change.        *)
LEMMA TakeWholePreserves ==
    ASSUME HeapInv, ScanTake, ~Splits(cur, want)
    PROVE  HeapInv'
  <1> USE DEF HeapInv, ScanTake, Return, Blocks, NULL
  <1>0. /\ cur \in Blocks /\ ~used[cur] /\ size[cur] >= want
        /\ used' = [used EXCEPT ![cur] = TRUE]
        /\ size' = size /\ next' = next
        /\ PayloadOf(cur) \in Nat
    BY HeapAssumption DEF TypeOK, Fits, PayloadOf
  <1>1. TypeOK'
    BY <1>0, HeapAssumption DEF TypeOK
  <1>2. Tiled'
    BY <1>0 DEF Tiled, EndOf
  <1>3. GrantsHold'
    <2>1. \A b \in Blocks : (PayloadOf(b) = PayloadOf(cur) <=> b = cur)
      BY <1>0, HeapAssumption DEF TypeOK, PayloadOf
    <2>2. \A b \in Blocks : used'[b] <=> b = cur \/ used[b]
      BY <1>0 DEF TypeOK
    <2>3. HeaderOf(PayloadOf(cur)) = cur
      BY <1>0, HeapAssumption DEF TypeOK, HeaderOf, PayloadOf
    <2>4. asked <= Word - 4 => size[cur] >= asked
      BY <1>0, RoundUpFacts, HeapAssumption DEF TypeOK, FirstFit
    <2> QED BY <1>0, <2>1, <2>2, <2>3, <2>4 DEF GrantsHold, HeaderOf, PayloadOf
  <1>4. FirstFit'
    BY DEF FirstFit
  <1>5. Coalesced'
    BY <1>0 DEF Coalesced, Passed, TypeOK
  <1> QED BY <1>1, <1>2, <1>3, <1>4, <1>5

(* Splitting: the header written behind the taken bytes is a new block,    *)
(* the rest of the old one, and it is not followed by a free block.        *)
LEMMA TakeSplitPreserves ==
    ASSUME HeapInv, ScanTake, Splits(cur, want)
    PROVE  HeapInv'
  <1> USE DEF HeapInv, ScanTake, Return, Blocks, NULL
  <1>k. PICK k : k = cur
    OBVIOUS
  <1>n. PICK nb : nb = cur + HDR + want
    OBVIOUS
  <1>r. PICK rest : rest = SplitRest(cur, want)
    OBVIOUS
  <1>0. /\ k \in Blocks /\ k \in Nat /\ k # NULL /\ k = cur
        /\ ~used[k] /\ want \in Nat /\ size[k] \in Nat
        /\ rest \in Nat /\ rest > 4
        /\ want % 4 = 0
    BY <1>k, <1>r, HeapAssumption, RoundUpFacts DEF TypeOK, Fits, Splits, SplitRest, FirstFit
  <1>a. /\ nb \in Nat /\ nb > k /\ nb < EndOf(k)
        /\ nb + HDR + rest = EndOf(k) /\ nb = k + HDR + want
        /\ nb % 4 = 0 /\ rest % 4 = 0
    <2>1. /\ k % 4 = 0 /\ size[k] % 4 = 0
          /\ rest = size[k] - want - HDR
          /\ size[k] > want + HDR + 4
          /\ EndOf(k) = k + HDR + size[k]
      BY <1>0, <1>r DEF Splits, SplitRest, EndOf, Tiled
    <2>2. nb \in Nat /\ nb > k /\ nb < EndOf(k) /\ nb + HDR + rest = EndOf(k)
      BY <2>1, <1>0, <1>n, HeapAssumption
    <2>3. rest % 4 = 0
      BY <2>1, <1>0, HeapAssumption
    <2>4. nb % 4 = 0
      BY <2>1, <1>0, <1>n, HeapAssumption
    <2> QED BY <2>2, <2>3, <2>4, <1>0, <1>n
  <1>b. nb \notin Blocks
    BY <1>0, <1>a, NothingInside, HeapAssumption DEF TypeOK
  <1>c. /\ size' = [b \in Blocks \cup {nb} |->
                       IF b = nb THEN rest
                       ELSE IF b = k THEN want ELSE size[b]]
        /\ used' = [b \in Blocks \cup {nb} |->
                       IF b = nb THEN FALSE
                       ELSE IF b = k THEN TRUE ELSE used[b]]
        /\ next' = [b \in Blocks \cup {nb} |->
                       IF b = nb THEN next[k]
                       ELSE IF b = k THEN nb ELSE next[b]]
        /\ Blocks' = Blocks \cup {nb}
        /\ pc' = "idle" /\ cur' = NULL /\ want' = 0 /\ asked' = 0
        /\ ret' = PayloadOf(k)
        /\ grant' = [p \in DOMAIN grant \cup {PayloadOf(k)} |->
                        IF p = PayloadOf(k) THEN asked ELSE grant[p]]
    BY <1>k, <1>n, <1>r
  <1> HIDE DEF ScanTake, Return, Blocks
  <1>1. TypeOK'
    <2>1. next[k] \in Blocks' \cup {NULL} /\ Blocks' \subseteq Nat \ {NULL}
      BY <1>0, <1>a, <1>c DEF TypeOK
    <2>2. size' \in [Blocks' -> Nat]
      BY <1>0, <1>c DEF TypeOK
    <2>3. used' \in [Blocks' -> BOOLEAN]
      BY <1>c DEF TypeOK
    <2>4. next' \in [Blocks' -> Blocks' \cup {NULL}]
      BY <1>c, <2>1 DEF TypeOK
    <2>5. PayloadOf(k) \in Nat /\ asked \in 0 .. (Word - 1)
      BY <1>0, HeapAssumption DEF TypeOK, PayloadOf
    <2>6. DOMAIN grant' \subseteq Nat /\ grant' \in [DOMAIN grant' -> 0 .. (Word - 1)]
      BY <1>c, <2>5 DEF TypeOK
    <2>7. /\ ret' \in Nat /\ want' \in Nat /\ cur' \in Nat /\ asked' \in 0 .. (Word - 1)
          /\ pc' = "idle"
      BY <1>c, <2>5, HeapAssumption
    <2> QED BY <2>1, <2>2, <2>3, <2>4, <2>6, <2>7 DEF TypeOK
  <1>2. Tiled'
    <2>1. \A b \in Blocks : b # k => /\ size'[b] = size[b] /\ next'[b] = next[b]
                                       /\ EndOf(b)' = EndOf(b)
      BY <1>b, <1>c DEF EndOf
    <2>2. /\ size'[k] = want /\ next'[k] = nb /\ EndOf(k)' = nb
          /\ size'[nb] = rest /\ next'[nb] = next[k]
          /\ EndOf(nb)' = EndOf(k)
      BY <1>0, <1>a, <1>b, <1>c DEF EndOf
    <2>3. heap_start \in Blocks' /\ heap_start' = heap_start /\ heap_end' = heap_end
      BY <1>c DEF Tiled, heap_start, heap_end
    <2>4. ASSUME NEW b \in Blocks'
          PROVE  /\ heap_start <= b /\ EndOf(b)' <= heap_end
                 /\ b % 4 = 0 /\ size'[b] % 4 = 0
                 /\ next'[b] = IF EndOf(b)' = heap_end THEN NULL ELSE EndOf(b)'
                 /\ next'[b] = NULL => size'[b] > 0
      <3>1. CASE b = k
        BY <3>1, <1>0, <1>a, <2>2, HeapAssumption DEF Tiled, TypeOK, EndOf, heap_start, heap_end
      <3>2. CASE b = nb
        BY <3>2, <1>0, <1>a, <2>2, HeapAssumption DEF Tiled, TypeOK, EndOf, heap_start, heap_end
      <3>3. CASE b # k /\ b # nb
        BY <3>3, <1>c, <2>1 DEF Tiled
      <3> QED BY <3>1, <3>2, <3>3
    <2>5. ASSUME NEW b \in Blocks', NEW c \in Blocks', b < c
          PROVE  EndOf(b)' <= c
      <3>0. EndOf(k) \in Nat /\ \A x \in Blocks : x \in Nat /\ EndOf(x) \in Nat
        BY <1>0, HeapAssumption DEF TypeOK, EndOf
      <3>1. CASE b \in Blocks /\ b # k /\ c \in Blocks
        BY <3>1, <2>1, <2>5 DEF Tiled
      <3>2. CASE b \in Blocks /\ b # k /\ c = nb
        <4>1. b < EndOf(k)
          BY <3>0, <3>2, <1>a, <2>5
        <4>2. b < k
          BY <4>1, <3>2, <3>0, <1>0, NothingInside
        <4> QED BY <4>2, <3>2, <3>0, <1>0, <1>a, <2>1 DEF Tiled
      <3>3. CASE b = k
        <4>1. CASE c = nb
          BY <4>1, <3>3, <1>a, <2>2
        <4>2. CASE c \in Blocks
          <5>1. EndOf(k) <= c
            BY <4>2, <3>3, <2>5, <1>0 DEF Tiled
          <5> QED BY <5>1, <4>2, <3>3, <3>0, <1>a, <2>2
        <4> QED BY <4>1, <4>2, <1>c
      <3>4. CASE b = nb
        <4>1. c \in Blocks
          BY <3>4, <2>5, <1>a, <1>c
        <4>2. k < c
          BY <4>1, <3>4, <2>5, <3>0, <1>0, <1>a
        <4>3. EndOf(k) <= c
          BY <4>1, <4>2, <1>0 DEF Tiled
        <4> QED BY <4>3, <3>4, <2>2
      <3> QED BY <3>1, <3>2, <3>3, <3>4, <1>c
    <2> QED BY <2>3, <2>4, <2>5 DEF Tiled, heap_start, heap_end
  <1>3. GrantsHold'
    <2>1. \A b \in Blocks' : (PayloadOf(b) = PayloadOf(k) <=> b = k)
      BY <1>0, <1>a, <1>c, HeapAssumption DEF TypeOK, PayloadOf
    <2>2. \A b \in Blocks' : used'[b] <=> b # nb /\ (b = k \/ used[b])
      BY <1>0, <1>a, <1>b, <1>c DEF TypeOK
    <2>3. /\ HeaderOf(PayloadOf(k)) = k
          /\ \A p \in DOMAIN grant : HeaderOf(p) # nb /\ HeaderOf(p) # k
      BY <1>0, <1>b, HeapAssumption DEF TypeOK, HeaderOf, PayloadOf, GrantsHold
    <2>4. PayloadOf(nb) \notin DOMAIN grant
      <3>1. HeaderOf(PayloadOf(nb)) = nb
        BY <1>a, HeapAssumption DEF HeaderOf, PayloadOf
      <3> QED BY <3>1, <2>3
    <2>5. asked <= Word - 4 => want >= asked
      BY RoundUpFacts, HeapAssumption DEF TypeOK, FirstFit, ScanTake
    <2>6. \A b \in Blocks' : used'[b] <=> PayloadOf(b) \in DOMAIN grant'
      <3> SUFFICES ASSUME NEW b \in Blocks'
                   PROVE  used'[b] <=> PayloadOf(b) \in DOMAIN grant'
        OBVIOUS
      <3>1. PayloadOf(b) \in DOMAIN grant' <=> b = k \/ PayloadOf(b) \in DOMAIN grant
        BY <1>c, <2>1
      <3>2. CASE b = nb
        BY <3>1, <3>2, <2>2, <2>4, <1>b, <1>0
      <3>3. CASE b # nb
        <4>1. b \in Blocks
          BY <3>3, <1>c
        <4> QED BY <4>1, <3>1, <3>3, <2>2 DEF GrantsHold
      <3> QED BY <3>2, <3>3
    <2>7. \A p \in DOMAIN grant' :
             /\ HeaderOf(p) \in Blocks'
             /\ grant'[p] <= Word - 4 => size'[HeaderOf(p)] >= grant'[p]
      <3> SUFFICES ASSUME NEW p \in DOMAIN grant'
                   PROVE  /\ HeaderOf(p) \in Blocks'
                          /\ grant'[p] <= Word - 4 => size'[HeaderOf(p)] >= grant'[p]
        OBVIOUS
      <3>1. CASE p = PayloadOf(k)
        BY <3>1, <1>0, <1>b, <1>c, <2>3, <2>5
      <3>2. CASE p # PayloadOf(k)
        BY <3>2, <1>c, <2>3 DEF GrantsHold
      <3> QED BY <3>1, <3>2
    <2> QED BY <2>6, <2>7 DEF GrantsHold, HeaderOf, PayloadOf
  <1>4. FirstFit'
    BY <1>c DEF FirstFit
  <1>5. Coalesced'
    BY <1>0, <1>a, <1>b, <1>c DEF Coalesced, Passed, TypeOK, ScanTake
  <1> QED BY <1>1, <1>2, <1>3, <1>4, <1>5

(* The cursor of the coalescing loop moves to the next block: what lies    *)
(* before the new position is what lay before the old one, and the old one.*)
LEMMA CoalesceSkipPreserves ==
    ASSUME HeapInv, CoalesceSkip
    PROVE  HeapInv'
  <1> USE DEF HeapInv, CoalesceSkip, Blocks, NULL, Advance
  <1>1. TypeOK'
    BY DEF TypeOK
  <1>2. Tiled'
    BY DEF Tiled, EndOf
  <1>3. GrantsHold'
    BY DEF GrantsHold, HeaderOf, PayloadOf
  <1>4. FirstFit'
    BY DEF FirstFit
  <1>5. Coalesced'
    <2>0. cur \in Blocks /\ next[cur] = EndOf(cur)
      BY DEF TypeOK, Tiled
    <2> SUFFICES ASSUME NEW b \in Blocks, Passed(b)', next[b] # NULL
                 PROVE  used[b] \/ used[next[b]]
      BY DEF Coalesced
    <2>1. b <= cur
      BY <2>0, NothingInside DEF Passed
    <2>2. CASE b = cur
      BY <2>2 DEF Mergeable
    <2>3. CASE b < cur
      BY <2>3 DEF Coalesced, Passed
    <2> QED BY <2>0, <2>1, <2>2, <2>3 DEF TypeOK
  <1> QED BY <1>1, <1>2, <1>3, <1>4, <1>5

(* The loop ends at the last block, which nothing follows.                 *)
LEMMA CoalesceDonePreserves ==
    ASSUME HeapInv, CoalesceDone
    PROVE  HeapInv'
  <1> USE DEF HeapInv, CoalesceDone, Return, Blocks, NULL
  <1>1. TypeOK'
    BY HeapAssumption DEF TypeOK
  <1>2. Tiled'
    BY DEF Tiled, EndOf
  <1>3. GrantsHold'
    BY DEF GrantsHold, HeaderOf, PayloadOf
  <1>4. FirstFit'
    BY DEF FirstFit
  <1>5. Coalesced'
    <2> SUFFICES ASSUME NEW b \in Blocks, next[b] # NULL
                 PROVE  used[b] \/ used[next[b]]
      BY DEF Coalesced
    <2>1. CASE cur = NULL
      BY <2>1 DEF Coalesced, Passed
    <2>2. CASE cur # NULL
      <3>1. cur \in Blocks /\ EndOf(cur) = heap_end
        BY <2>2, HeapAssumption DEF TypeOK, Tiled, EndOf
      <3>2. b < EndOf(cur)
        BY <3>1, HeapAssumption DEF Tiled, TypeOK, EndOf, heap_end
      <3>3. b < cur
        BY <3>1, <3>2, NothingInside DEF TypeOK
      <3> QED BY <3>3 DEF Coalesced, Passed
    <2> QED BY <2>1, <2>2
  <1> QED BY <1>1, <1>2, <1>3, <1>4, <1>5

(* Merging: the swallowed block leaves the list, and the grown one ends    *)
(* where it ended.                                                         *)
LEMMA CoalesceMergePreserves ==
    ASSUME HeapInv, CoalesceMerge
    PROVE  HeapInv'
  <1> USE DEF HeapInv, NULL
  <1>k. PICK k : k = cur
    OBVIOUS
  <1>n. PICK gone : gone = next[cur]
    OBVIOUS
  <1>0. /\ k \in Blocks /\ k \in Nat /\ gone \in Blocks /\ gone \in Nat
        /\ ~used[k] /\ ~used[gone] /\ pc = "coalesce" /\ k = cur /\ gone = next[k]
        /\ size[k] \in Nat /\ size[gone] \in Nat /\ gone # NULL /\ k # NULL
    BY <1>k, <1>n DEF CoalesceMerge, Mergeable, TypeOK
  <1>a. /\ gone = EndOf(k) /\ k < gone /\ gone = k + HDR + size[k]
        /\ next[gone] # gone /\ next[gone] \in Blocks \cup {NULL}
    BY <1>0, HeapAssumption DEF TypeOK, Tiled, EndOf
  <1>c. /\ size' = [b \in Blocks \ {gone} |->
                       IF b = k THEN size[b] + MergeGain(gone) ELSE size[b]]
        /\ used' = [b \in Blocks \ {gone} |-> used[b]]
        /\ next' = [b \in Blocks \ {gone} |->
                       IF b = k THEN next[gone] ELSE next[b]]
        /\ Blocks' = Blocks \ {gone}
        /\ pc' = pc /\ cur' = k /\ want' = want /\ asked' = asked
        /\ ret' = ret /\ grant' = grant
    BY <1>0 DEF CoalesceMerge, AfterMerge, Blocks
  <1>d. /\ size'[k] = size[k] + size[gone] + HDR /\ size'[k] \in Nat
        /\ next'[k] = next[gone]
        /\ EndOf(k)' = EndOf(gone)
        /\ used'[k] = FALSE
    BY <1>0, <1>a, <1>c, HeapAssumption DEF MergeGain, EndOf
  <1>e. \A b \in Blocks' : b # k => /\ size'[b] = size[b] /\ next'[b] = next[b]
                                   /\ used'[b] = used[b] /\ EndOf(b)' = EndOf(b)
    BY <1>c DEF EndOf
  <1>f. \A b \in Blocks : b # k => next[b] # gone
    <2> SUFFICES ASSUME NEW b \in Blocks, next[b] = gone PROVE b = k
      OBVIOUS
    <2>1. EndOf(b) = EndOf(k)
      BY <1>0, <1>a DEF Tiled
    <2>2. b < EndOf(k) /\ k < EndOf(b)
      BY <2>1, <1>0, HeapAssumption DEF EndOf, TypeOK
    <2>3. b <= k /\ k <= b
      BY <2>2, <1>0, NothingInside
    <2> QED BY <2>3, <1>0 DEF TypeOK
  <1>1. TypeOK'
    <2>1. size' \in [Blocks' -> Nat]
      BY <1>c, <1>d, <1>e DEF TypeOK
    <2>2. used' \in [Blocks' -> BOOLEAN]
      BY <1>c DEF TypeOK
    <2>3. next' \in [Blocks' -> Blocks' \cup {NULL}]
      <3>1. \A b \in Blocks' : next'[b] \in Blocks' \cup {NULL}
        BY <1>0, <1>a, <1>c, <1>d, <1>e, <1>f DEF TypeOK
      <3> QED BY <3>1, <1>c
    <2> QED BY <2>1, <2>2, <2>3, <1>0, <1>a, <1>c DEF TypeOK
  <1>2. Tiled'
    <2>1. heap_start \in Blocks'
      BY <1>0, <1>a, <1>c DEF Tiled, TypeOK
    <2>2. ASSUME NEW b \in Blocks'
          PROVE  /\ heap_start <= b /\ EndOf(b)' <= heap_end
                 /\ b % 4 = 0 /\ size'[b] % 4 = 0
                 /\ next'[b] = IF EndOf(b)' = heap_end THEN NULL ELSE EndOf(b)'
                 /\ next'[b] = NULL => size'[b] > 0
      <3>1. CASE b = k
        <4>1. (size[k] + size[gone] + HDR) % 4 = 0
          BY <1>0, HeapAssumption DEF Tiled
        <4>2. /\ heap_start <= k /\ k % 4 = 0 /\ EndOf(gone) <= heap_end
              /\ next[gone] = IF EndOf(gone) = heap_end THEN NULL ELSE EndOf(gone)
          BY <1>0 DEF Tiled
        <4>3. size'[k] > 0
          BY <1>0, <1>d, HeapAssumption
        <4> QED BY <3>1, <4>1, <4>2, <4>3, <1>d
      <3>2. CASE b # k
        BY <3>2, <1>c, <1>e DEF Tiled
      <3> QED BY <3>1, <3>2
    <2>3. ASSUME NEW b \in Blocks', NEW c \in Blocks', b < c
          PROVE  EndOf(b)' <= c
      <3>0. b \in Blocks /\ c \in Blocks /\ c # gone /\ b \in Nat /\ c \in Nat
        BY <1>c DEF TypeOK
      <3>1. CASE b = k
        <4>1. gone <= c
          BY <3>0, <3>1, <2>3, <1>0, <1>a DEF Tiled
        <4>2. EndOf(gone) <= c
          BY <4>1, <3>0, <1>0 DEF Tiled
        <4> QED BY <4>2, <3>1, <1>d
      <3>2. CASE b # k
        BY <3>0, <3>2, <2>3, <1>e DEF Tiled
      <3> QED BY <3>1, <3>2
    <2> QED BY <2>1, <2>2, <2>3 DEF Tiled, heap_start, heap_end
  <1>3. GrantsHold'
    <2>1. \A b \in Blocks' : used'[b] <=> PayloadOf(b) \in DOMAIN grant
      BY <1>c DEF GrantsHold
    <2>2. \A p \in DOMAIN grant : used[HeaderOf(p)]
      <3> SUFFICES ASSUME NEW p \in DOMAIN grant PROVE used[HeaderOf(p)]
        OBVIOUS
      <3>1. PayloadOf(HeaderOf(p)) = p
        BY HeapAssumption DEF PayloadOf, HeaderOf, TypeOK
      <3> QED BY <3>1 DEF GrantsHold
    <2>3. \A p \in DOMAIN grant :
             /\ HeaderOf(p) \in Blocks'
             /\ grant[p] <= Word - 4 => size'[HeaderOf(p)] >= grant[p]
      BY <2>2, <1>0, <1>c, <1>e DEF GrantsHold
    <2> QED BY <2>1, <2>3, <1>c DEF GrantsHold, PayloadOf, HeaderOf
  <1>4. FirstFit'
    BY <1>0, <1>c DEF FirstFit
  <1>5. Coalesced'
    <2> SUFFICES ASSUME NEW b \in Blocks', Passed(b)', next'[b] # NULL
                 PROVE  used'[b] \/ used'[next'[b]]
      BY <1>0, <1>c DEF Coalesced
    <2>1. b < k /\ b \in Blocks
      BY <1>0, <1>c DEF Passed
    <2>2. b # k /\ next'[b] = next[b] /\ next[b] \in Blocks
      BY <2>1, <1>0, <1>e DEF TypeOK
    <2>3. used[b] \/ used[next[b]]
      BY <2>1, <2>2, <1>0 DEF Coalesced, Passed
    <2>4. next[b] # gone
      BY <2>1, <2>2, <1>f
    <2> QED BY <2>1, <2>2, <2>3, <2>4, <1>c
  <1> QED BY <1>1, <1>2, <1>3, <1>4, <1>5

----------------------------------------------------------------------------
(* An iteration of the scan or of the coalescing loop preserves the        *)
(* invariant.                                                              *)
LEMMA HeapStepPreserves ==
    ASSUME HeapInv, HeapStep
    PROVE  HeapInv'
  <1>1. CASE ScanSkip
    BY <1>1, ScanSkipPreserves
  <1>2. CASE ScanTake
    BY <1>2, TakeWholePreserves, TakeSplitPreserves
  <1>3. CASE ScanFail
    BY <1>3, ScanFailPreserves
  <1>4. CASE CoalesceMerge
    BY <1>4, CoalesceMergePreserves
  <1>5. CASE CoalesceSkip
    BY <1>5, CoalesceSkipPreserves
  <1>6. CASE CoalesceDone
    BY <1>6, CoalesceDonePreserves
  <1> QED BY <1>1, <1>2, <1>3, <1>4, <1>5, <1>6 DEF HeapStep

(* Every step of the allocator, and every stutter, preserves the invariant.*)
LEMMA HeapInvNext == HeapInv /\ [HeapNext]_heapVars => HeapInv'
  <1> SUFFICES ASSUME HeapInv, [HeapNext]_heapVars PROVE HeapInv'
    OBVIOUS
  <1>1. ASSUME NEW n \in Requests, Memory_alloc(n) PROVE HeapInv'
    <2>1. n \in 0 .. (Word - 1)
      BY HeapAssumption
    <2> QED BY <1>1, <2>1, AllocPreserves
  <1>2. CASE HeapStep
    BY <1>2, HeapStepPreserves
  <1>3. ASSUME NEW p \in DOMAIN grant, Memory_free(p) PROVE HeapInv'
    BY <1>3, FreePreserves
  <1>4. CASE UNCHANGED heapVars
    BY <1>4 DEF heapVars, HeapInv, TypeOK, Tiled, GrantsHold, FirstFit, Coalesced,
       Passed, EndOf, Blocks, HeaderOf, PayloadOf, heap_start, heap_end
  <1>5. ASSUME NEW p \in Foreign \cup {NULL}, Memory_free_ignored(p) PROVE HeapInv'
    BY <1>4, <1>5 DEF Memory_free_ignored
  <1> QED BY <1>1, <1>2, <1>3, <1>4, <1>5 DEF HeapNext

(* The inductive invariant holds in every behaviour of the allocator.      *)
THEOREM HeapInvariance == HeapSpec => []HeapInv
  BY HeapInvInit, HeapInvNext, PTL DEF HeapSpec

(* Every variable of the allocator keeps its type: in particular the loop  *)
(* cursor never leaves the list of blocks.                                 *)
THEOREM HeapTypeOK == HeapSpec => []TypeOK
  <1>1. HeapInv => TypeOK
    BY DEF HeapInv
  <1> QED BY <1>1, HeapInvariance, PTL

(* Memory_alloc and Memory_free keep the blocks a tiling of the arena, for *)
(* every arena and every sequence of calls: no byte is in two blocks and   *)
(* none is lost.                                                           *)
THEOREM HeapTiled == HeapSpec => []Tiled
  <1>1. HeapInv => Tiled
    BY DEF HeapInv
  <1> QED BY <1>1, HeapInvariance, PTL

(* A block is in use exactly while a caller holds its pointer, and is at   *)
(* least as large as the caller asked, unless the rounding wrapped.        *)
THEOREM HeapGrantsHold == HeapSpec => []GrantsHold
  <1>1. HeapInv => GrantsHold
    BY DEF HeapInv
  <1> QED BY <1>1, HeapInvariance, PTL

(* After every completed call no two neighbouring blocks are free.         *)
THEOREM HeapNoAdjacentFree == HeapSpec => []NoAdjacentFree
  <1>1. HeapInv => NoAdjacentFree
    BY DEF HeapInv, Coalesced, NoAdjacentFree
  <1> QED BY <1>1, HeapInvariance, PTL

(* Memory_alloc returns NULL only when no free block is large enough.      *)
THEOREM HeapFailsOnlyWhenFull == HeapSpec => []FailsOnlyWhenFull
  <1>1. HeapInv => FailsOnlyWhenFull
    BY DEF HeapInv, FirstFit, Passed, FailsOnlyWhenFull, TypeOK
  <1> QED BY <1>1, HeapInvariance, PTL

(* When everything has been freed the whole arena is one block again: the  *)
(* allocator never fragments for good.                                     *)
THEOREM HeapRecovers == HeapSpec => []Recovers
  <1>1. HeapInv => Recovers
    <2> SUFFICES ASSUME HeapInv, pc = "idle", DOMAIN grant = {}
                 PROVE  Blocks = {heap_start} /\ size[heap_start] = HeapSize - HDR
      BY DEF Recovers
    <2> USE DEF HeapInv
    <2>1. \A b \in Blocks : ~used[b] /\ b \in Nat
      BY DEF GrantsHold, TypeOK
    <2>2. \A b \in Blocks : next[b] = NULL
      BY <2>1 DEF Coalesced, TypeOK
    <2>3. heap_start \in Blocks /\ EndOf(heap_start) = heap_end
      <3>1. heap_start \in Blocks /\ EndOf(heap_start) \in Nat /\ EndOf(heap_start) # NULL
        <4>1. heap_start \in Blocks
          BY DEF Tiled
        <4>2. size[heap_start] \in Nat
          BY <4>1 DEF TypeOK
        <4>3. EndOf(heap_start) \in Nat /\ EndOf(heap_start) # NULL
          BY <4>2, HeapAssumption DEF EndOf, heap_start, NULL
        <4> QED BY <4>1, <4>3
      <3> QED BY <2>2, <3>1 DEF Tiled
    <2>4. ASSUME NEW b \in Blocks PROVE b = heap_start
      <3>0. /\ b \in Nat /\ size[b] \in Nat
            /\ heap_start <= b /\ EndOf(b) <= heap_end
        <4>1. b \in Nat /\ size[b] \in Nat
          BY DEF TypeOK
        <4>2. heap_start <= b /\ EndOf(b) <= heap_end
          BY DEF Tiled
        <4> QED BY <4>1, <4>2
      <3>1. heap_start <= b /\ b < heap_end
        BY <3>0, HeapAssumption DEF EndOf, heap_end, heap_start
      <3> QED BY <2>3, <2>1, <3>1, NothingInside
    <2>5. Blocks = {heap_start}
      BY <2>3, <2>4
    <2>6. size[heap_start] = HeapSize - HDR
      <3>1. size[heap_start] \in Nat
        BY <2>3 DEF TypeOK
      <3> QED BY <2>3, <3>1, HeapAssumption DEF EndOf, heap_end, heap_start
    <2> QED BY <2>5, <2>6
  <1> QED BY <1>1, HeapInvariance, PTL

(* No call touches a block another caller holds.                           *)
THEOREM HeapGrantsStable == HeapSpec => GrantsStable
  <1> DEFINE Stable == \A p \in DOMAIN grant \cap DOMAIN grant' :
                          /\ HeaderOf(p) \in Blocks'
                          /\ used'[HeaderOf(p)]
                          /\ size'[HeaderOf(p)] = size[HeaderOf(p)]
  <1>1. HeapInv /\ HeapInv' /\ [HeapNext]_heapVars => [Stable]_heapVars
    <2> SUFFICES ASSUME HeapInv, HeapInv', HeapNext,
                        NEW p \in DOMAIN grant, p \in DOMAIN grant'
                 PROVE  /\ HeaderOf(p) \in Blocks'
                        /\ used'[HeaderOf(p)]
                        /\ size'[HeaderOf(p)] = size[HeaderOf(p)]
      OBVIOUS
    <2>1. HeaderOf(p) \in Blocks /\ used[HeaderOf(p)]
      BY HeapAssumption DEF HeapInv, GrantsHold, TypeOK, HeaderOf, PayloadOf
    <2>2. HeaderOf(p) \in Blocks' /\ used'[HeaderOf(p)]
      BY HeapAssumption DEF HeapInv, GrantsHold, TypeOK, HeaderOf, PayloadOf
    <2>3. size'[HeaderOf(p)] = size[HeaderOf(p)]
      <3>1. CASE ScanTake
        <4>1. HeaderOf(p) # cur /\ cur \in Blocks
          BY <3>1, <2>1 DEF ScanTake, Fits, HeapInv, TypeOK
        <4>2. CASE Splits(cur, want)
          <5>1. HeaderOf(p) # cur + HDR + want
            <6>1. ~used'[cur + HDR + want]
              BY <3>1, <4>2, HeapAssumption DEF ScanTake, HeapInv, TypeOK
            <6> QED BY <6>1, <2>2
          <5> QED BY <3>1, <4>1, <4>2, <5>1, <2>1 DEF ScanTake
        <4>3. CASE ~Splits(cur, want)
          BY <3>1, <4>3 DEF ScanTake
        <4> QED BY <4>2, <4>3
      <3>2. CASE CoalesceMerge
        BY <3>2, <2>1, <2>2 DEF CoalesceMerge, Mergeable, Blocks
      <3>3. CASE size' = size
        BY <3>3
      <3> QED BY <3>1, <3>2, <3>3
              DEF HeapNext, HeapStep, Memory_alloc, Memory_free, Memory_free_ignored,
                  ScanSkip, ScanFail, CoalesceSkip, CoalesceDone, heapVars
    <2> QED BY <2>2, <2>3
  <1> QED BY <1>1, HeapInvariance, PTL DEF GrantsStable, HeapSpec

(* What a running call has still to do, at most: a scan looks at every     *)
(* address once; coalescing moves its cursor or the end of the block under *)
(* it, and never back.                                                     *)
ToDo == IF pc = "idle" THEN 0
        ELSE IF cur = NULL THEN 1
        ELSE IF pc = "scan" THEN 2 + heap_end - cur
        ELSE 2 + (heap_end - cur) + (heap_end - EndOf(cur))

(* The cursor of either loop lies in the arena.                            *)
LEMMA ToDoIsNat == HeapInv => ToDo \in Nat
  <1> SUFFICES ASSUME HeapInv, pc # "idle", cur # NULL
               PROVE  cur <= heap_end /\ EndOf(cur) <= heap_end /\ EndOf(cur) \in Nat
                      /\ cur \in Nat /\ heap_end \in Nat
    BY DEF ToDo
  <1>1. cur \in Blocks /\ cur \in Nat /\ size[cur] \in Nat
    BY DEF HeapInv, TypeOK
  <1>2. EndOf(cur) <= heap_end
    BY <1>1 DEF HeapInv, Tiled
  <1> QED BY <1>1, <1>2, HeapAssumption DEF EndOf, heap_end

(* Every iteration of the allocator's loops leaves less to do, or returns: *)
(* the scan and the coalescing loop end within twice the size of the arena *)
(* (Memory_alloc, coalesce).                                               *)
THEOREM HeapCallsShrink ==
    HeapSpec => [][pc # "idle" => ToDo \in Nat /\ ToDo' \in Nat /\ ToDo' < ToDo]_heapVars
  <1>0. HeapInv' => (ToDo \in Nat)'
    BY ToDoIsNat, PTL
  <1>1. ASSUME HeapInv, HeapInv', HeapNext, pc # "idle"
        PROVE  ToDo \in Nat /\ ToDo' \in Nat /\ ToDo' < ToDo
    <2>1. ToDo \in Nat /\ ToDo' \in Nat
      BY <1>0, <1>1, ToDoIsNat
    <2>2. ToDo' < ToDo
      <3>1. CASE ScanSkip
        <4>1. ToDo = 2 + heap_end - cur /\ cur \in Blocks /\ cur \in Nat /\ size[cur] \in Nat
          BY <1>1, <3>1 DEF ScanSkip, ToDo, HeapInv, TypeOK
        <4>2. /\ cur' = next[cur] /\ pc' = "scan"
              /\ EndOf(cur) <= heap_end /\ next[cur] \in {NULL, EndOf(cur)}
          BY <1>1, <3>1, <4>1 DEF ScanSkip, Advance, HeapInv, Tiled
        <4> QED BY <4>1, <4>2, HeapAssumption DEF ToDo, EndOf, heap_end, NULL
      <3>2. CASE ScanTake \/ ScanFail \/ CoalesceDone
        <4>1. ToDo' = 0
          BY <3>2 DEF ScanTake, ScanFail, CoalesceDone, Return, ToDo
        <4>2. ToDo # 0
          <5> SUFFICES ASSUME cur # NULL PROVE ToDo # 0
            BY <1>1 DEF ToDo
          <5>1. cur \in Blocks /\ cur \in Nat /\ size[cur] \in Nat
            BY <1>1 DEF HeapInv, TypeOK
          <5>2. EndOf(cur) <= heap_end
            BY <1>1, <5>1 DEF HeapInv, Tiled
          <5> QED BY <1>1, <5>1, <5>2, HeapAssumption DEF ToDo, EndOf, heap_end
        <4> QED BY <4>1, <4>2, <2>1
      <3>3. CASE CoalesceMerge
        <4> DEFINE gone == next[cur]
        <4>1. /\ cur \in Blocks /\ gone \in Blocks /\ cur \in Nat /\ gone \in Nat
              /\ size[cur] \in Nat /\ size[gone] \in Nat /\ cur # NULL
              /\ pc' = "coalesce" /\ cur' = cur
          BY <1>1, <3>3 DEF CoalesceMerge, AfterMerge, HeapInv, TypeOK
        <4>2. gone = EndOf(cur) /\ gone # cur
          BY <1>1, <3>3, <4>1, HeapAssumption DEF CoalesceMerge, HeapInv, Tiled, EndOf
        <4>3. size'[cur] = size[cur] + size[gone] + HDR
          BY <3>3, <4>1, <4>2, HeapAssumption DEF CoalesceMerge, MergeGain, Blocks
        <4>4. EndOf(cur)' = EndOf(cur) + size[gone] + HDR
          BY <4>1, <4>3, HeapAssumption DEF EndOf
        <4>5. ToDo = 2 + (heap_end - cur) + (heap_end - EndOf(cur))
          BY <3>3, <4>1 DEF CoalesceMerge, ToDo
        <4>6. ToDo' = 2 + (heap_end - cur) + (heap_end - EndOf(cur)')
          BY <4>1, <4>3 DEF ToDo, EndOf, heap_end
        <4> QED BY <4>1, <4>4, <4>5, <4>6, HeapAssumption DEF EndOf, heap_end
      <3>4. CASE CoalesceSkip
        <4>1. /\ cur \in Blocks /\ next[cur] \in Blocks /\ cur \in Nat /\ next[cur] \in Nat
              /\ size[cur] \in Nat /\ size[next[cur]] \in Nat /\ cur # NULL
              /\ next[cur] # NULL /\ pc' = "coalesce" /\ cur' = next[cur] /\ size' = size
              /\ pc = "coalesce"
          BY <1>1, <3>4 DEF CoalesceSkip, Advance, HeapInv, TypeOK
        <4>2. next[cur] = EndOf(cur)
          BY <1>1, <4>1 DEF HeapInv, Tiled
        <4>3. ToDo = 2 + (heap_end - cur) + (heap_end - EndOf(cur))
          BY <4>1 DEF ToDo
        <4>4. ToDo' = 2 + (heap_end - next[cur]) + (heap_end - EndOf(next[cur]))
          BY <4>1 DEF ToDo, EndOf, heap_end
        <4> QED BY <4>1, <4>2, <4>3, <4>4, HeapAssumption DEF EndOf, heap_end
      <3> QED BY <1>1, <3>1, <3>2, <3>3, <3>4
              DEF HeapNext, HeapStep, Memory_alloc, Memory_free, Memory_free_ignored
    <2> QED BY <2>1, <2>2
  <1>2. HeapInv /\ HeapInv' /\ [HeapNext]_heapVars =>
          [pc # "idle" => ToDo \in Nat /\ ToDo' \in Nat /\ ToDo' < ToDo]_heapVars
    BY <1>1
  <1> QED BY <1>2, HeapInvariance, PTL DEF HeapSpec
=============================================================================
