------------------------------ MODULE VfsProofs ------------------------------
(* Proofs about the RAM file system on the kernel heap, for every arena,   *)
(* set of names, size of content and order of calls, those that find no    *)
(* memory included.                                                        *)
EXTENDS Vfs, HeapProofs, WellFoundedInduction

(* The state of a call: which allocation is under way, how much it asks,   *)
(* the block it returned that nothing points to yet, and the node whose    *)
(* content is being replaced, which may still point to a freed block.      *)
Allocates == vpc \in {"boot", "create", "store"}
Writes    == vpc \in {"release", "store"}
Wanted    == IF vpc = "boot" THEN KernelBlock
             ELSE IF vpc = "create" THEN NodeSize ELSE call.size
Fresh     == IF Allocates /\ pc = "idle" THEN {ret} \ {NULL} ELSE {}
Settled   == {p \in DOMAIN node : ~(Writes /\ p = call.at)}
LiveData  == {node[p].data : p \in Settled} \ {NULL}

Records ==
    /\ node \in [DOMAIN node -> [name : AllNames, size : 0 .. (Word - 4), data : Nat]]
    /\ vpc = "create" => call.name \in Names
    /\ Writes => /\ call.at \in DOMAIN node /\ call.at = vfs_find(call.name)
                 /\ call.name \in AllNames
                 /\ call.size \in Sizes \cup {BootSize}
                 /\ call.data \in Data \cup {BootData}
    /\ ~Writes => call.at = NULL

(* where the allocator is while a function of the file system waits for it *)
Phase ==
    /\ vpc = "idle" => pc = "idle"
    /\ vpc = "release" => pc \in {"idle", "coalesce"}
    /\ Allocates =>
          /\ pc \in {"idle", "scan"}
          /\ pc = "scan" => asked = Wanted /\ Wanted > 0
          /\ pc = "idle" /\ ret # NULL =>
                ret \in DOMAIN grant /\ grant[ret] = Wanted /\ Wanted > 0

(* before ramfs_init nothing is allocated but the block of kernel_main,    *)
(* the first of the arena                                                  *)
AtBoot ==
    /\ vpc = "boot" => boot = 0
    /\ boot = 0 => /\ vpc \in {"idle", "boot"} /\ chain = <<>>
                   /\ DOMAIN grant = Fresh /\ Fresh \subseteq {PayloadOf(heap_start)}
                   /\ DOMAIN grant = {} => Blocks = {heap_start}

(* who owns what, in the middle of calls too *)
Owned ==
    /\ DOMAIN node \cap LiveData = {}
    /\ DOMAIN node \cup LiveData \subseteq DOMAIN grant
    /\ \A p, q \in Settled : p # q /\ node[p].data # NULL => node[p].data # node[q].data
    /\ Writes => node[call.at].data \notin LiveData
    /\ Fresh \cap (DOMAIN node \cup LiveData) = {}
    /\ \A p \in DOMAIN grant \ (DOMAIN node \cup LiveData \cup Fresh) :
          p = PayloadOf(heap_start) /\ grant[p] = KernelBlock

(* the size recorded, the size asked of the heap and the bytes copied agree*)
Contents ==
    \A p \in Settled :
       IF node[p].data = NULL THEN node[p].size = 0
       ELSE /\ node[p].size > 0 /\ grant[node[p].data] = node[p].size
            /\ node[p].data \in DOMAIN mem /\ mem[node[p].data].len = node[p].size

(* freeing the old content first leaves room for as much again             *)
RoomLeft ==
    /\ (vpc = "release" \/ (vpc = "store" /\ pc = "scan")) /\ node[call.at].size > 0 =>
          \E b \in Blocks : ~used[b] /\ size[b] >= node[call.at].size
    /\ vpc = "store" /\ pc = "idle" /\ ret = NULL =>
          call.size = 0 \/ call.size > node[call.at].size

VfsInv == HeapInv /\ VfsTypeOK /\ Records /\ Phase /\ AtBoot /\ Owned /\ Contents /\ RoomLeft

(* Sizes callers pass never wrap when they are rounded.                    *)
LEMMA Asked ==
    /\ NodeSize \in 1 .. (Word - 4) /\ KernelBlock \in 1 .. (Word - 4)
    /\ \A k \in Sizes \cup {BootSize} : k \in 0 .. (Word - 4)
  BY VfsAssumption, HeapAssumption

(* A nonempty set of naturals has a least element.                         *)
LEMMA Least ==
    ASSUME NEW S, S \subseteq Nat, S # {}
    PROVE  \E m \in S : \A k \in S : m <= k
  <1>1. PICK m \in S : \A k \in S : ~(<<k, m>> \in OpToRel(<, Nat))
    BY WFMin, NatLessThanWellFounded
  <1>2. \A k \in S : ~(k < m)
    BY <1>1 DEF OpToRel
  <1> QED BY <1>2

(* vfs_find returns the first node of the chain that has the name, and     *)
(* NULL when none has it.                                                  *)
LEMMA FindIs ==
    ASSUME chain \in Seq(DOMAIN node), NEW n
    PROVE  \/ /\ vfs_find(n) = NULL
              /\ \A i \in DOMAIN chain : node[chain[i]].name # n
           \/ \E i \in DOMAIN chain :
                 /\ vfs_find(n) = chain[i] /\ node[chain[i]].name = n
                 /\ \A j \in DOMAIN chain : node[chain[j]].name = n => i <= j
  <1> DEFINE hits == {i \in DOMAIN chain : node[chain[i]].name = n}
             first == CHOOSE i \in hits : \A j \in hits : i <= j
  <1>1. vfs_find(n) = IF hits = {} THEN NULL ELSE chain[first]
    BY DEF vfs_find
  <1>2. CASE hits = {}
    BY <1>1, <1>2
  <1>3. CASE hits # {}
    <2>1. hits \subseteq Nat
      OBVIOUS
    <2>2. first \in hits /\ \A j \in hits : first <= j
      BY <1>3, <2>1, Least
    <2>3. \A j \in DOMAIN chain : node[chain[j]].name = n => j \in hits
      OBVIOUS
    <2>4. first \in DOMAIN chain /\ node[chain[first]].name = n
      BY <2>2
    <2> QED BY <1>1, <1>3, <2>2, <2>3, <2>4
  <1> QED BY <1>2, <1>3

(* The other way round: where the first node of a name is, it is found.    *)
LEMMA FoundAt ==
    ASSUME chain \in Seq(DOMAIN node), NEW n, NEW i \in DOMAIN chain,
           node[chain[i]].name = n,
           \A j \in DOMAIN chain : node[chain[j]].name = n => i <= j
    PROVE  vfs_find(n) = chain[i]
  <1>1. PICK k \in DOMAIN chain :
           /\ vfs_find(n) = chain[k] /\ node[chain[k]].name = n
           /\ \A j \in DOMAIN chain : node[chain[j]].name = n => k <= j
    BY FindIs
  <1>2. k = i
    BY <1>1
  <1> QED BY <1>1, <1>2

(* What an iteration of the allocator's loops does to its caller: it goes  *)
(* on, or it hands out a block nobody held, or it gives up; and what       *)
(* coalescing leaves of a free block is no smaller.                        *)
HandsOut ==
    /\ pc = "scan" /\ pc' = "idle"
    /\ cur \in Blocks /\ ret' = PayloadOf(cur) /\ ret' \in Nat \ {NULL}
    /\ ret' \notin DOMAIN grant
    /\ DOMAIN grant' = DOMAIN grant \cup {ret'} /\ grant'[ret'] = asked
    /\ \A p \in DOMAIN grant : grant'[p] = grant[p]
GivesUp ==
    /\ pc = "scan" /\ pc' = "idle" /\ ret' = NULL /\ grant' = grant
    /\ UNCHANGED <<size, used>>
    /\ \A b \in Blocks : used[b] \/ size[b] < RoundUp(asked)
ScansOn ==
    /\ pc = "scan" /\ pc' = "scan"
    /\ UNCHANGED <<grant, asked, ret, size, used>>
CoalescesOn ==
    /\ pc = "coalesce" /\ pc' \in {"coalesce", "idle"}
    /\ UNCHANGED <<grant, ret>>
    /\ \A b \in Blocks : ~used[b] =>
          \E c \in Blocks' : ~used'[c] /\ size'[c] >= size[b]

(* What one iteration of the allocator looks like to its caller: a block,  *)
(* a refusal, or nothing yet.                                              *)
LEMMA HeapStepIs ==
    ASSUME HeapInv, HeapStep
    PROVE  HandsOut \/ GivesUp \/ ScansOn \/ CoalescesOn
  <1> USE DEF HeapInv
  <1>1. CASE ScanSkip
    BY <1>1 DEF ScanSkip, ScansOn
  <1>2. CASE ScanTake
    <2>1. /\ pc = "scan" /\ pc' = "idle" /\ cur \in Blocks /\ ~used[cur]
          /\ ret' = PayloadOf(cur)
          /\ grant' = [p \in DOMAIN grant \cup {PayloadOf(cur)} |->
                          IF p = PayloadOf(cur) THEN asked ELSE grant[p]]
      BY <1>2 DEF ScanTake, Return, Fits, TypeOK
    <2>2. PayloadOf(cur) \notin DOMAIN grant /\ PayloadOf(cur) \in Nat \ {NULL}
      BY <2>1, HeapAssumption DEF GrantsHold, TypeOK, PayloadOf, NULL
    <2> QED BY <2>1, <2>2 DEF HandsOut
  <1>3. CASE ScanFail
    <2>1. \A b \in Blocks : used[b] \/ size[b] < RoundUp(asked)
      BY <1>3 DEF ScanFail, FirstFit, Passed
    <2> QED BY <1>3, <2>1 DEF ScanFail, Return, GivesUp
  <1>4. CASE CoalesceMerge
    <2> DEFINE gone == next[cur]
    <2>1. /\ cur \in Blocks /\ gone \in Blocks /\ gone # cur
          /\ ~used[cur] /\ ~used[gone]
          /\ size[cur] \in Nat /\ size[gone] \in Nat
      BY <1>4, HeapAssumption DEF CoalesceMerge, Mergeable, TypeOK, Tiled, EndOf, NULL
    <2>2. /\ Blocks' = Blocks \ {gone}
          /\ size' = [b \in Blocks \ {gone} |->
                        IF b = cur THEN size[b] + size[gone] + HDR ELSE size[b]]
          /\ used' = [b \in Blocks \ {gone} |-> used[b]]
          /\ pc = "coalesce" /\ pc' = "coalesce" /\ UNCHANGED <<grant, ret>>
      BY <1>4, <2>1, HeapAssumption DEF CoalesceMerge, MergeGain, Blocks
    <2>3. ASSUME NEW b \in Blocks, ~used[b]
          PROVE  \E c \in Blocks' : ~used'[c] /\ size'[c] >= size[b]
      <3>0. size[b] \in Nat
        BY DEF TypeOK
      <3>1. CASE b = gone \/ b = cur
        <4>1. cur \in Blocks' /\ ~used'[cur] /\ size'[cur] >= size[b]
          BY <2>1, <2>2, <3>0, <3>1, HeapAssumption
        <4> QED BY <4>1
      <3>2. CASE b # gone /\ b # cur
        <4>1. b \in Blocks' /\ ~used'[b] /\ size'[b] >= size[b]
          BY <2>2, <2>3, <3>0, <3>2
        <4> QED BY <4>1
      <3> QED BY <3>1, <3>2
    <2> QED BY <2>2, <2>3 DEF CoalescesOn
  <1>5. CASE CoalesceSkip \/ CoalesceDone
    <2>1. \A b \in Blocks : size[b] \in Nat
      BY DEF TypeOK
    <2> QED BY <1>5, <2>1 DEF CoalesceSkip, CoalesceDone, Return, CoalescesOn, Blocks
  <1> QED BY <1>1, <1>2, <1>3, <1>4, <1>5 DEF HeapStep

(* What the first statement of Memory_alloc does to its caller.            *)
LEMMA AllocIs ==
    ASSUME HeapInv, NEW n \in 0 .. (Word - 4), Memory_alloc(n)
    PROVE  /\ HeapInv' /\ pc = "idle" /\ UNCHANGED <<grant, size, used>>
           /\ n = 0 => pc' = "idle" /\ ret' = NULL
           /\ n # 0 => pc' = "scan" /\ asked' = n
  <1>1. n \in 0 .. (Word - 1)
    BY HeapAssumption
  <1>2. HeapInv'
    BY <1>1, AllocPreserves
  <1> QED BY <1>2 DEF Memory_alloc

----------------------------------------------------------------------------
(* The kernel starts with no file and an empty heap.                       *)
LEMMA VfsInvInit == VfsInit => VfsInv
  <1> SUFFICES ASSUME VfsInit PROVE VfsInv
    OBVIOUS
  <1> USE DEF VfsInit
  <1>1. HeapInv
    BY HeapInvInit
  <1>2. /\ chain = <<>> /\ DOMAIN node = {} /\ DOMAIN grant = {} /\ Fresh = {}
        /\ Settled = {} /\ LiveData = {} /\ call.at = NULL /\ Blocks = {heap_start}
    BY DEF HeapInit, Memory_init, Blocks, Fresh, Allocates, Settled, LiveData, NoCall
  <1>3. VfsTypeOK
    <2>1. chain \in Seq(DOMAIN node) /\ Range(chain) = {}
      BY DEF Range
    <2> QED BY <1>2, <2>1 DEF VfsTypeOK, Nothing
  <1>4. Records /\ Phase
    BY <1>2 DEF Records, Phase, Writes, Allocates, HeapInit
  <1>5. AtBoot /\ Owned /\ Contents /\ RoomLeft
    BY <1>2 DEF AtBoot, Owned, Contents, RoomLeft, Writes
  <1> QED BY <1>1, <1>3, <1>4, <1>5 DEF VfsInv

(* What a step that leaves the file system's own variables alone leaves of *)
(* the derived ones.                                                       *)
LEMMA SameFiles ==
    ASSUME UNCHANGED <<chain, node, vpc, call>>
    PROVE  /\ Settled' = Settled /\ LiveData' = LiveData
           /\ Writes' = Writes /\ Allocates' = Allocates /\ Wanted' = Wanted
           /\ \A n : vfs_find(n)' = vfs_find(n)
  BY DEF Settled, LiveData, Writes, Allocates, Wanted, vfs_find

(* The content of a settled node is live.                                  *)
LEMMA Live ==
    ASSUME NEW p \in Settled, node[p].data # NULL
    PROVE  node[p].data \in LiveData
  BY DEF LiveData

(* The loops of the allocator run under a call of the file system.         *)
LEMMA HeapMoves ==
    ASSUME VfsInv, HeapStep, UNCHANGED fsVars
    PROVE  VfsInv'
  <1> USE DEF VfsInv
  <1>0. /\ chain' = chain /\ node' = node /\ mem' = mem /\ vpc' = vpc /\ call' = call
        /\ boot' = boot /\ rc' = rc /\ out' = out
        /\ Settled' = Settled /\ LiveData' = LiveData
        /\ Writes' = Writes /\ Allocates' = Allocates /\ Wanted' = Wanted
        /\ \A n : vfs_find(n)' = vfs_find(n)
    BY SameFiles DEF fsVars
  <1>1. HeapInv'
    BY HeapStepPreserves
  <1>2. VfsTypeOK'
    BY <1>0 DEF VfsTypeOK, Range
  <1>3. Records'
    BY <1>0 DEF Records
  <1>4. CASE HandsOut
    <2>1. /\ Allocates /\ pc = "scan" /\ pc' = "idle" /\ asked = Wanted /\ Wanted > 0
          /\ Fresh = {} /\ Fresh' = {ret'} /\ ret' # NULL
      BY <1>0, <1>4 DEF HandsOut, Phase, VfsTypeOK, Allocates, Fresh
    <2>2. Phase'
      BY <1>0, <1>4, <2>1 DEF Phase, HandsOut, Allocates
    <2>3. AtBoot'
      <3>1. ASSUME boot = 0 PROVE cur = heap_start
        BY <1>4, <2>1, <3>1 DEF AtBoot, HandsOut
      <3> QED BY <1>0, <1>4, <2>1, <3>1 DEF AtBoot, HandsOut
    <2>4. Owned'
      BY <1>0, <1>4, <2>1 DEF Owned, HandsOut
    <2>5. Contents'
      <3>1. \A p \in Settled : node[p].data # NULL => grant'[node[p].data] = grant[node[p].data]
        BY <1>4, Live DEF HandsOut, Owned
      <3> QED BY <1>0, <3>1 DEF Contents
    <2>6. RoomLeft'
      BY <1>0, <2>1 DEF RoomLeft, Allocates
    <2> QED BY <1>1, <1>2, <1>3, <2>2, <2>3, <2>4, <2>5, <2>6
  <1>5. CASE GivesUp
    <2>1. /\ Allocates /\ pc = "scan" /\ pc' = "idle" /\ asked = Wanted /\ Wanted > 0
          /\ Fresh = {} /\ Fresh' = {} /\ grant' = grant /\ ret' = NULL /\ Blocks' = Blocks
      BY <1>0, <1>5 DEF GivesUp, Phase, VfsTypeOK, Allocates, Fresh, Blocks
    <2>2. Phase' /\ AtBoot'
      BY <1>0, <2>1 DEF Phase, AtBoot, Allocates
    <2>3. Owned' /\ Contents'
      BY <1>0, <2>1 DEF Owned, Contents
    <2>4. RoomLeft'
      <3> SUFFICES ASSUME vpc = "store", call.size # 0, ~(call.size > node[call.at].size)
                   PROVE  FALSE
        BY <1>0, <2>1 DEF RoomLeft, Allocates
      <3>1. /\ asked = call.size /\ call.size \in 1 .. (Word - 4)
            /\ node[call.at].size \in 0 .. (Word - 4)
        BY <2>1, Asked DEF Wanted, Records, Writes
      <3>2. PICK b \in Blocks : ~used[b] /\ size[b] >= node[call.at].size
        BY <2>1, <3>1, HeapAssumption DEF RoomLeft
      <3>3. size[b] < RoundUp(asked) /\ size[b] \in Nat /\ size[b] % 4 = 0 /\ size[b] >= asked
        BY <1>5, <3>1, <3>2, HeapAssumption DEF GivesUp, HeapInv, TypeOK, Tiled
      <3>4. asked + 3 < Word /\ RoundUp(asked) = (asked + 3) - ((asked + 3) % 4)
        BY <3>1, HeapAssumption DEF RoundUp, Wrap
      <3> QED BY <3>1, <3>3, <3>4
    <2> QED BY <1>1, <1>2, <1>3, <2>2, <2>3, <2>4
  <1>6. CASE ScansOn
    <2>1. /\ pc = "scan" /\ pc' = "scan" /\ grant' = grant /\ Fresh = {} /\ Fresh' = {}
          /\ asked' = asked /\ Blocks' = Blocks /\ size' = size /\ used' = used
      BY <1>6 DEF ScansOn, Fresh, Blocks
    <2>2. Phase' /\ AtBoot'
      BY <1>0, <2>1 DEF Phase, AtBoot
    <2>3. Owned' /\ Contents'
      BY <1>0, <2>1 DEF Owned, Contents
    <2>4. RoomLeft'
      BY <1>0, <2>1 DEF RoomLeft
    <2> QED BY <1>1, <1>2, <1>3, <2>2, <2>3, <2>4
  <1>7. CASE CoalescesOn
    <2>1. /\ pc = "coalesce" /\ pc' \in {"coalesce", "idle"} /\ grant' = grant
          /\ vpc = "release" /\ ~Allocates /\ Fresh = {} /\ Fresh' = {} /\ boot # 0
      BY <1>0, <1>7 DEF CoalescesOn, Fresh, Phase, Allocates, VfsTypeOK, AtBoot
    <2>2. Phase' /\ AtBoot'
      BY <1>0, <2>1 DEF Phase, AtBoot
    <2>3. Owned' /\ Contents'
      BY <1>0, <2>1 DEF Owned, Contents
    <2>4. RoomLeft'
      <3> SUFFICES ASSUME node[call.at].size > 0
                   PROVE  \E c \in Blocks' : ~used'[c] /\ size'[c] >= node[call.at].size
        BY <1>0, <2>1 DEF RoomLeft
      <3>1. PICK b \in Blocks : ~used[b] /\ size[b] >= node[call.at].size
        BY <2>1 DEF RoomLeft
      <3>2. PICK c \in Blocks' : ~used'[c] /\ size'[c] >= size[b]
        BY <1>7, <3>1 DEF CoalescesOn
      <3>3. size[b] \in Nat /\ size'[c] \in Nat /\ node[call.at].size \in Nat
        BY <1>1, <2>1, <3>1, <3>2, HeapAssumption DEF HeapInv, TypeOK, Records, Writes
      <3> QED BY <3>1, <3>2, <3>3
    <2> QED BY <1>1, <1>2, <1>3, <2>2, <2>3, <2>4
  <1> QED BY <1>4, <1>5, <1>6, <1>7, HeapStepIs

(* kernel_main's own allocation, and the start of an empty file system.    *)
LEMMA BootKeeps ==
    ASSUME VfsInv, BootAlloc \/ vfs_init
    PROVE  VfsInv'
  <1> USE DEF VfsInv
  <1>1. CASE BootAlloc
    <2>1. /\ HeapInv' /\ pc = "idle" /\ pc' = "scan" /\ asked' = KernelBlock
          /\ grant' = grant /\ Blocks' = Blocks /\ KernelBlock \in 1 .. (Word - 4)
      <3>1. KernelBlock \in 1 .. (Word - 4) /\ KernelBlock \in 0 .. (Word - 4)
        BY Asked, HeapAssumption
      <3> QED BY <1>1, <3>1, AllocIs DEF BootAlloc, Blocks
    <2>2. /\ chain' = chain /\ node' = node /\ mem' = mem /\ call' = call /\ boot' = 0
          /\ boot = 0 /\ vpc = "idle" /\ vpc' = "boot" /\ rc' = rc /\ out' = out
      BY <1>1 DEF BootAlloc
    <2>3. /\ ~Writes /\ ~Writes' /\ Settled' = Settled /\ LiveData' = LiveData
          /\ Fresh = {} /\ Fresh' = {} /\ Wanted' = KernelBlock
      BY <2>1, <2>2 DEF Writes, Settled, LiveData, Fresh, Allocates, Wanted
    <2>4. VfsTypeOK' /\ Records'
      BY <2>2, <2>3 DEF VfsTypeOK, Range, Records
    <2>5. Phase' /\ AtBoot'
      BY <2>1, <2>2, <2>3 DEF Phase, AtBoot, Allocates
    <2>6. Owned' /\ Contents' /\ RoomLeft'
      BY <2>1, <2>2, <2>3 DEF Owned, Contents, RoomLeft
    <2> QED BY <2>1, <2>4, <2>5, <2>6
  <1>2. CASE vfs_init
    <2>1. /\ vpc = "boot" /\ pc = "idle" /\ vpc' = "idle" /\ boot' = 1 /\ boot = 0
          /\ chain = <<>> /\ chain' = chain /\ node' = node /\ mem' = mem /\ call' = call
          /\ UNCHANGED heapVars /\ rc' = rc /\ out' = out /\ pc' = pc /\ grant' = grant
      BY <1>2 DEF vfs_init, AtBoot, heapVars
    <2>2. HeapInv'
      BY <2>1, HeapInvNext
    <2>3. /\ ~Writes /\ ~Writes' /\ Settled' = Settled /\ LiveData' = LiveData
          /\ Fresh' = {} /\ Fresh = {ret} \ {NULL}
      BY <2>1 DEF Writes, Settled, LiveData, Fresh, Allocates
    <2>4. VfsTypeOK' /\ Records'
      BY <2>1, <2>3 DEF VfsTypeOK, Range, Records
    <2>5. Phase' /\ AtBoot'
      BY <2>1 DEF Phase, AtBoot, Allocates
    <2>6. Owned'
      BY <2>1, <2>3 DEF Owned, AtBoot, Phase, Allocates, Wanted
    <2>7. Contents' /\ RoomLeft'
      BY <2>1, <2>3 DEF Contents, RoomLeft
    <2> QED BY <2>2, <2>4, <2>5, <2>6, <2>7
  <1> QED BY <1>1, <1>2

(* vfs_create asks for a node.                                             *)
LEMMA CreateKeeps ==
    ASSUME VfsInv, boot \in 1 .. 3, NEW name \in Names, vfs_create(name)
    PROVE  VfsInv'
  <1> USE DEF VfsInv
  <1>1. /\ HeapInv' /\ pc = "idle" /\ pc' = "scan" /\ asked' = NodeSize
        /\ grant' = grant /\ NodeSize \in 1 .. (Word - 4)
    <2>1. NodeSize \in 1 .. (Word - 4) /\ NodeSize \in 0 .. (Word - 4)
      BY Asked, HeapAssumption
    <2> QED BY <2>1, AllocIs DEF vfs_create
  <1>2. /\ chain' = chain /\ node' = node /\ mem' = mem /\ boot' = boot /\ rc' = rc /\ out' = out
        /\ vpc = "idle" /\ vpc' = "create" /\ call'.name = name /\ call'.at = NULL
    BY DEF vfs_create, NoCall
  <1>3. /\ ~Writes /\ ~Writes' /\ Settled' = Settled /\ LiveData' = LiveData
        /\ Fresh = {} /\ Fresh' = {} /\ Wanted' = NodeSize
    BY <1>1, <1>2 DEF Writes, Settled, LiveData, Fresh, Allocates, Wanted
  <1>4. VfsTypeOK' /\ Records'
    BY <1>2, <1>3 DEF VfsTypeOK, Range, Records
  <1>5. Phase' /\ AtBoot'
    BY <1>1, <1>2, <1>3 DEF Phase, AtBoot, Allocates
  <1>6. Owned' /\ Contents' /\ RoomLeft'
    BY <1>1, <1>2, <1>3 DEF Owned, Contents, RoomLeft
  <1> QED BY <1>1, <1>4, <1>5, <1>6

(* The node asked for joins the chain, or there is none.                   *)
LEMMA CreateEndKeeps ==
    ASSUME VfsInv, CreateEnd
    PROVE  VfsInv'
  <1> USE DEF VfsInv
  <1>1. /\ vpc = "create" /\ pc = "idle" /\ vpc' = "idle" /\ call'.at = NULL /\ out'.len = 0
        /\ UNCHANGED heapVars /\ pc' = pc /\ grant' = grant /\ mem' = mem /\ ret' = ret
        /\ boot \in 1 .. 3 /\ boot' \in 1 .. 3 /\ rc' \in Nat
    BY DEF CreateEnd, heapVars, NoCall, Nothing, AtBoot, BootProgress, VfsTypeOK
  <1>2. HeapInv'
    BY <1>1, HeapInvNext
  <1>3. Phase' /\ AtBoot' /\ RoomLeft'
    BY <1>1 DEF Phase, AtBoot, RoomLeft, Allocates
  <1>4. ~Writes /\ ~Writes' /\ Settled = DOMAIN node /\ Settled' = DOMAIN node' /\ Fresh' = {}
    BY <1>1 DEF Writes, Settled, Fresh, Allocates
  <1>5. CASE ret = NULL
    <2>1. chain' = chain /\ node' = node /\ Fresh = {} /\ LiveData' = LiveData
      BY <1>1, <1>4, <1>5 DEF CreateEnd, Fresh, LiveData
    <2>2. VfsTypeOK' /\ Records'
      BY <1>1, <1>4, <2>1 DEF VfsTypeOK, Range, Records
    <2>3. Owned' /\ Contents'
      BY <1>1, <1>4, <2>1 DEF Owned, Contents
    <2> QED BY <1>2, <1>3, <2>2, <2>3
  <1>6. CASE ret # NULL
    <2>1. /\ chain' = PushFront(ret) /\ DOMAIN node' = DOMAIN node \cup {ret}
          /\ node'[ret] = [name |-> Stored[call.name], size |-> 0, data |-> NULL]
          /\ \A p \in DOMAIN node : p # ret => node'[p] = node[p]
          /\ node' = [p \in DOMAIN node \cup {ret} |-> node'[p]]
      BY <1>6 DEF CreateEnd
    <2>2. Fresh = {ret} /\ ret \notin DOMAIN node /\ ret \notin LiveData /\ ret \in DOMAIN grant
      BY <1>1, <1>6 DEF Fresh, Allocates, Owned, Phase
    <2>3. LiveData' = LiveData
      <3>1. LiveData = {node[p].data : p \in DOMAIN node} \ {NULL}
        BY <1>4 DEF LiveData
      <3>2. LiveData' = {node'[p].data : p \in DOMAIN node \cup {ret}} \ {NULL}
        BY <1>4, <2>1 DEF LiveData, NULL
      <3> QED BY <2>1, <2>2, <3>1, <3>2
    <2>4. ret \in Nat /\ Stored[call.name] \in AllNames
      BY <1>1 DEF HeapInv, TypeOK, Records, AllNames
    <2>5. Records'
      <3>1. node' \in [DOMAIN node' -> [name : AllNames, size : 0 .. (Word - 4), data : Nat]]
        BY <2>1, <2>2, <2>4, HeapAssumption DEF Records, NULL
      <3> QED BY <1>1, <1>4, <3>1 DEF Records
    <2>6. VfsTypeOK'
      <3>1. chain' \in Seq(DOMAIN node') /\ Range(chain)' = Range(chain) \cup {ret}
        <4>1. chain \in Seq(DOMAIN node) /\ chain' = <<ret>> \o chain
          BY <2>1 DEF VfsTypeOK, PushFront
        <4>2. chain \in Seq(DOMAIN node') /\ <<ret>> \in Seq(DOMAIN node')
          BY <2>1, <4>1
        <4>3. chain' \in Seq(DOMAIN node') /\ Len(chain') = Len(chain) + 1
          BY <4>1, <4>2
        <4>4. chain'[1] = ret /\ \A i \in 1 .. Len(chain) : chain'[i + 1] = chain[i]
          BY <4>1, <4>2
        <4>5. \A j \in 1 .. (Len(chain) + 1) : j # 1 => j - 1 \in 1 .. Len(chain) /\ (j - 1) + 1 = j
          BY <4>1
        <4>6. Range(chain)' \subseteq Range(chain) \cup {ret}
          BY <4>1, <4>3, <4>4, <4>5 DEF Range
        <4>7. \A i \in 1 .. Len(chain) : i + 1 \in 1 .. Len(chain')
          BY <4>1, <4>3
        <4>8. 1 \in 1 .. Len(chain')
          BY <4>1, <4>3
        <4>9. Range(chain) \cup {ret} \subseteq Range(chain)'
          <5>1. DOMAIN chain = 1 .. Len(chain) /\ DOMAIN chain' = 1 .. Len(chain')
            BY <4>1, <4>3
          <5>2. \A j \in DOMAIN chain' : chain'[j] \in Range(chain)'
            BY DEF Range
          <5>3. ret \in Range(chain)'
            BY <4>4, <4>8, <5>1, <5>2
          <5>4. ASSUME NEW i \in 1 .. Len(chain) PROVE chain[i] \in Range(chain)'
            <6>1. i + 1 \in DOMAIN chain' /\ chain'[i + 1] = chain[i]
              BY <4>4, <4>7, <5>1
            <6> QED BY <5>2, <6>1
          <5> QED BY <5>1, <5>3, <5>4 DEF Range
        <4> QED BY <4>3, <4>6, <4>9
      <3>2. \A p \in DOMAIN node' : /\ node'[p].name \in AllNames
                                    /\ node'[p].size \in Nat /\ node'[p].data \in Nat
        BY <2>5, HeapAssumption DEF Records
      <3> QED BY <1>1, <2>1, <3>1, <3>2 DEF VfsTypeOK
    <2>7. Owned'
      BY <1>1, <1>4, <2>1, <2>2, <2>3 DEF Owned
    <2>8. Contents'
      BY <1>1, <1>4, <2>1, <2>2 DEF Contents
    <2> QED BY <1>2, <1>3, <2>5, <2>6, <2>7, <2>8
  <1> QED BY <1>5, <1>6

(* A name that is found names a node of the chain.                         *)
LEMMA FindNode ==
    ASSUME VfsTypeOK, NEW n, vfs_find(n) # NULL
    PROVE  vfs_find(n) \in DOMAIN node /\ node[vfs_find(n)].name = n
  <1>1. PICK i \in DOMAIN chain : vfs_find(n) = chain[i] /\ node[chain[i]].name = n
    BY FindIs DEF VfsTypeOK
  <1>2. chain[i] \in DOMAIN node
    BY DEF VfsTypeOK
  <1> QED BY <1>1, <1>2

(* vfs_write up to its first call of the allocator.  When it frees the old *)
(* content, the block it frees leaves room for as much again.              *)
LEMMA WriteKeeps ==
    ASSUME VfsInv, boot \in 1 .. 3, NEW name \in AllNames, NEW d \in Data \cup {BootData},
           NEW n \in Sizes \cup {BootSize}, vfs_write(name, d, n)
    PROVE  VfsInv'
  <1> USE DEF VfsInv
  <1> DEFINE p == vfs_find(name)
  <1>1. /\ vpc = "idle" /\ pc = "idle" /\ ~Writes /\ ~Allocates /\ Fresh = {}
        /\ chain' = chain /\ node' = node /\ mem' = mem /\ Settled = DOMAIN node
        /\ n \in 0 .. (Word - 4)
    BY Asked DEF vfs_write, Writes, Allocates, Fresh, Settled
  <1>2. CASE p = NULL
    <2>1. /\ UNCHANGED heapVars /\ vpc' = vpc /\ call' = call /\ rc' = 0 /\ out'.len = 0
          /\ boot' \in 1 .. 3 /\ pc' = pc /\ grant' = grant
      BY <1>2 DEF vfs_write, BootProgress, Nothing, heapVars
    <2>2. HeapInv'
      BY <2>1, HeapInvNext
    <2>3. /\ Settled' = Settled /\ LiveData' = LiveData /\ ~Writes' /\ ~Allocates' /\ Fresh' = {}
      BY <1>1, <2>1 DEF Settled, LiveData, Writes, Allocates, Fresh
    <2>4. VfsTypeOK' /\ Records'
      BY <1>1, <2>1, <2>3 DEF VfsTypeOK, Range, Records
    <2>5. Phase' /\ AtBoot' /\ RoomLeft'
      BY <1>1, <2>1, <2>3 DEF Phase, AtBoot, RoomLeft
    <2>6. Owned' /\ Contents'
      BY <1>1, <2>1, <2>3 DEF Owned, Contents
    <2> QED BY <2>2, <2>4, <2>5, <2>6
  <1>3. CASE p # NULL
    <2>0. /\ p \in DOMAIN node /\ node[p].data \in Nat /\ node[p].size \in 0 .. (Word - 4)
          /\ node[p].name = name
      BY <1>3, FindNode DEF Records
    <2>1. /\ call' = [name |-> name, data |-> d, size |-> n, at |-> p]
          /\ boot' = boot /\ rc' = rc /\ out' = out
          /\ IF node[p].data # NULL THEN Memory_free(node[p].data) /\ vpc' = "release"
                                    ELSE Memory_alloc(n) /\ vpc' = "store"
      BY <1>3 DEF vfs_write, OldBlock
    <2> HIDE DEF p
    <2>2. /\ Writes' /\ Settled' = DOMAIN node \ {p}
          /\ call'.at = p /\ call'.size = n /\ call'.name = name /\ call'.data = d
      BY <1>1, <2>0, <2>1 DEF Writes, Settled
    <2>3. VfsTypeOK'
      BY <1>1, <2>0, <2>1, <2>2 DEF VfsTypeOK, Range
    <2>4. Records'
      <3>1. vfs_find(name)' = p
        BY <1>1 DEF vfs_find, p
      <3> QED BY <1>1, <2>0, <2>1, <2>2, <3>1 DEF Records
    <2>5. CASE node[p].data # NULL
      <3> DEFINE old == node[p].data
      <3>1. old \in LiveData /\ old \in DOMAIN grant
        BY <1>1, <2>0, <2>5, Live DEF Owned
      <3>2. HeapInv'
        BY <2>1, <2>5, <3>1, FreePreserves
      <3>3. /\ vpc' = "release" /\ pc' = "coalesce" /\ size' = size
            /\ grant' = [q \in DOMAIN grant \ {old} |-> grant[q]]
            /\ used' = [used EXCEPT ![HeaderOf(old)] = FALSE]
            /\ HeaderOf(old) \in Blocks
        BY <2>1, <2>5, <3>1, HeldInArena DEF Memory_free
      <3>4. LiveData' = LiveData \ {old} /\ Fresh' = {} /\ ~Allocates'
        <4>1. LiveData = {node[q].data : q \in DOMAIN node} \ {NULL}
          BY <1>1 DEF LiveData
        <4>2. LiveData' = {node[q].data : q \in DOMAIN node \ {p}} \ {NULL}
          BY <1>1, <2>2 DEF LiveData, NULL
        <4>3. \A q \in DOMAIN node : q # p => node[q].data # old
          BY <1>1, <2>0, <2>5 DEF Owned
        <4>4. LiveData' = LiveData \ {old}
          BY <4>1, <4>2, <4>3
        <4> QED BY <3>3, <4>4 DEF Fresh, Allocates
      <3>5. Phase' /\ AtBoot'
        BY <2>1, <3>3, <3>4 DEF Phase, AtBoot
      <3>6. Owned'
        <4>1. old \notin DOMAIN node
          BY <3>1 DEF Owned
        <4> QED BY <1>1, <2>2, <3>3, <3>4, <4>1 DEF Owned
      <3>7. Contents'
        <4>1. \A q \in DOMAIN node \ {p} : node[q].data # NULL =>
                 node[q].data \in DOMAIN grant \ {old}
          BY <1>1, <2>0, <2>5, Live DEF Owned
        <4> QED BY <1>1, <2>2, <3>3, <4>1 DEF Contents
      <3>8. RoomLeft'
        <4>1. grant[old] = node[p].size /\ size[HeaderOf(old)] >= grant[old]
          BY <1>1, <2>0, <2>5, <3>1 DEF Contents, HeapInv, GrantsHold
        <4>2. ~used'[HeaderOf(old)] /\ Blocks' = Blocks
          BY <3>3 DEF HeapInv, TypeOK, Blocks
        <4> QED BY <1>1, <2>2, <3>3, <4>1, <4>2 DEF RoomLeft
      <3> QED BY <2>3, <2>4, <3>2, <3>5, <3>6, <3>7, <3>8
    <2>6. CASE node[p].data = NULL
      <3>1. /\ HeapInv' /\ grant' = grant /\ vpc' = "store"
            /\ n = 0 => pc' = "idle" /\ ret' = NULL
            /\ n # 0 => pc' = "scan" /\ asked' = n
        BY <1>1, <2>1, <2>6, AllocIs
      <3>2. LiveData' = LiveData /\ Fresh' = {} /\ Allocates' /\ Wanted' = n
        <4>1. LiveData = {node[q].data : q \in DOMAIN node} \ {NULL}
          BY <1>1 DEF LiveData
        <4>2. LiveData' = {node[q].data : q \in DOMAIN node \ {p}} \ {NULL}
          BY <1>1, <2>2 DEF LiveData, NULL
        <4>3. LiveData' = LiveData
          BY <2>6, <4>1, <4>2
        <4> QED BY <2>2, <3>1, <4>3 DEF Fresh, Allocates, Wanted, NULL
      <3>3. Phase' /\ AtBoot'
        BY <1>1, <2>1, <3>1, <3>2 DEF Phase, AtBoot
      <3>4. Owned' /\ Contents'
        <4>1. node[p].data \notin LiveData'
          BY <2>6 DEF LiveData, NULL
        <4> QED BY <1>1, <2>2, <3>1, <3>2, <4>1 DEF Owned, Contents
      <3>5. RoomLeft'
        <4>1. node[p].size = 0
          BY <1>1, <2>0, <2>6 DEF Contents
        <4> QED BY <1>1, <2>2, <3>1, <4>1 DEF RoomLeft
      <3> QED BY <2>3, <2>4, <3>1, <3>3, <3>4, <3>5
    <2> QED BY <2>5, <2>6
  <1> QED BY <1>2, <1>3

(* vfs_write asks for the new content, the old one being free.             *)
LEMMA WriteAllocKeeps ==
    ASSUME VfsInv, WriteAlloc
    PROVE  VfsInv'
  <1> USE DEF VfsInv
  <1>1. /\ vpc = "release" /\ vpc' = "store" /\ chain' = chain /\ node' = node /\ mem' = mem
        /\ call' = call /\ boot' = boot /\ rc' = rc /\ out' = out /\ Memory_alloc(call.size)
        /\ Writes /\ Writes' /\ Allocates' /\ ~Allocates /\ Fresh = {} /\ Wanted' = call.size
        /\ call.size \in 0 .. (Word - 4) /\ call.at \in DOMAIN node
    BY Asked DEF WriteAlloc, Writes, Allocates, Fresh, Wanted, Records
  <1>2. /\ HeapInv' /\ pc = "idle" /\ grant' = grant /\ size' = size /\ used' = used
        /\ call.size = 0 => pc' = "idle" /\ ret' = NULL
        /\ call.size # 0 => pc' = "scan" /\ asked' = call.size
    BY <1>1, AllocIs
  <1>3. Settled' = Settled /\ LiveData' = LiveData /\ Fresh' = {}
    BY <1>1, <1>2 DEF Settled, LiveData, Fresh
  <1>4. VfsTypeOK'
    BY <1>1 DEF VfsTypeOK, Range
  <1>5. Records'
    <2>1. vfs_find(call.name)' = vfs_find(call.name)
      BY <1>1 DEF vfs_find
    <2> QED BY <1>1, <2>1 DEF Records
  <1>6. Phase' /\ AtBoot'
    BY <1>1, <1>2 DEF Phase, AtBoot
  <1>7. Owned' /\ Contents'
    BY <1>1, <1>2, <1>3 DEF Owned, Contents
  <1>8. RoomLeft'
    <2>1. Blocks' = Blocks
      BY <1>2 DEF Blocks
    <2> QED BY <1>1, <1>2, <2>1 DEF RoomLeft
  <1> QED BY <1>2, <1>4, <1>5, <1>6, <1>7, <1>8

(* What WriteEnd leaves in the node it wrote and in the memory of contents.*)
LEMMA WriteEndIs ==
    ASSUME VfsInv, WriteEnd
    PROVE  /\ vpc = "store" /\ pc = "idle" /\ Writes /\ vpc' = "idle" /\ call'.at = NULL
           /\ out' = Nothing /\ UNCHANGED heapVars /\ chain' = chain
           /\ call.at \in DOMAIN node /\ call.size \in 0 .. (Word - 4)
           /\ boot \in 1 .. 3 /\ boot' \in 1 .. 3
           /\ Settled = DOMAIN node \ {call.at} /\ DOMAIN node' = DOMAIN node
           /\ \A q \in DOMAIN node : q # call.at => node'[q] = node[q]
           /\ node' \in [DOMAIN node -> [name : AllNames, size : 0 .. (Word - 4), data : Nat]]
           /\ node'[call.at].name = node[call.at].name
           /\ node'[call.at].data = ret
           /\ node'[call.at].size = IF ret = NULL THEN 0 ELSE call.size
           /\ rc' = IF ret = NULL THEN 0 ELSE call.size
           /\ DOMAIN mem' = (DOMAIN mem \ {node[call.at].data}) \cup ({ret} \ {NULL})
           /\ \A q \in DOMAIN mem' : q # ret => mem'[q] = mem[q]
           /\ ret # NULL => mem'[ret] = [src |-> call.data, len |-> call.size]
  <1> USE DEF VfsInv
  <1>1. /\ vpc = "store" /\ pc = "idle" /\ Writes /\ vpc' = "idle" /\ call'.at = NULL
        /\ out' = Nothing /\ UNCHANGED heapVars /\ chain' = chain
        /\ boot \in 1 .. 3 /\ boot' \in 1 .. 3
    BY DEF WriteEnd, Writes, NoCall, AtBoot, VfsTypeOK, BootProgress
  <1>2. /\ call.at \in DOMAIN node /\ call.size \in 0 .. (Word - 4) /\ ret \in Nat
        /\ Settled = DOMAIN node \ {call.at}
        /\ node \in [DOMAIN node -> [name : AllNames, size : 0 .. (Word - 4), data : Nat]]
    BY <1>1, Asked DEF Records, Settled, HeapInv, TypeOK
  <1>3. CASE ret = NULL
    <2>1. /\ node' = [node EXCEPT ![call.at].data = NULL, ![call.at].size = 0]
          /\ mem' = [q \in DOMAIN mem \ {node[call.at].data} |-> mem[q]]
          /\ rc' = 0
      BY <1>3 DEF WriteEnd, SizeAfterFailure
    <2>2. node'[call.at] = [node[call.at] EXCEPT !.data = NULL, !.size = 0]
      BY <1>2, <2>1
    <2>3. 0 \in 0 .. (Word - 4) /\ NULL \in Nat
      BY HeapAssumption DEF NULL
    <2>4. node' \in [DOMAIN node -> [name : AllNames, size : 0 .. (Word - 4), data : Nat]]
      BY <1>2, <2>1, <2>3
    <2> QED BY <1>1, <1>2, <1>3, <2>1, <2>2, <2>4
  <1>4. CASE ret # NULL
    <2>1. /\ node' = [node EXCEPT ![call.at].data = ret, ![call.at].size = call.size]
          /\ mem' = [q \in (DOMAIN mem \ {node[call.at].data}) \cup {ret} |->
                       IF q = ret THEN [src |-> call.data, len |-> call.size] ELSE mem[q]]
          /\ rc' = call.size
      BY <1>4 DEF WriteEnd
    <2>2. node'[call.at] = [node[call.at] EXCEPT !.data = ret, !.size = call.size]
      BY <1>2, <2>1
    <2>3. node' \in [DOMAIN node -> [name : AllNames, size : 0 .. (Word - 4), data : Nat]]
      BY <1>2, <2>1
    <2>4. /\ DOMAIN node' = DOMAIN node
          /\ \A q \in DOMAIN node : q # call.at => node'[q] = node[q]
          /\ node'[call.at].name = node[call.at].name
          /\ node'[call.at].data = ret /\ node'[call.at].size = call.size
      <3>1. node[call.at] \in [name : AllNames, size : 0 .. (Word - 4), data : Nat]
        BY <1>2
      <3>2. /\ node'[call.at].name = node[call.at].name
            /\ node'[call.at].data = ret /\ node'[call.at].size = call.size
        BY <2>2, <3>1
      <3>3. DOMAIN node' = DOMAIN node /\ \A q \in DOMAIN node : q # call.at => node'[q] = node[q]
        BY <2>1
      <3> QED BY <3>2, <3>3
    <2>5. /\ DOMAIN mem' = (DOMAIN mem \ {node[call.at].data}) \cup ({ret} \ {NULL})
          /\ \A q \in DOMAIN mem' : q # ret => mem'[q] = mem[q]
          /\ mem'[ret] = [src |-> call.data, len |-> call.size]
      BY <1>4, <2>1
    <2> QED BY <1>1, <1>2, <1>4, <2>1, <2>3, <2>4, <2>5
  <1> QED BY <1>3, <1>4

(* The node written gets the block, or no content at all.                  *)
LEMMA WriteEndKeeps ==
    ASSUME VfsInv, WriteEnd
    PROVE  VfsInv'
  <1> USE DEF VfsInv
  <1> DEFINE p == call.at
  <1>1. /\ vpc = "store" /\ pc = "idle" /\ Writes /\ vpc' = "idle" /\ call'.at = NULL
        /\ out' = Nothing /\ UNCHANGED heapVars /\ chain' = chain
        /\ p \in DOMAIN node /\ call.size \in 0 .. (Word - 4)
        /\ boot \in 1 .. 3 /\ boot' \in 1 .. 3
        /\ Settled = DOMAIN node \ {p} /\ DOMAIN node' = DOMAIN node
        /\ \A q \in DOMAIN node : q # p => node'[q] = node[q]
        /\ node' \in [DOMAIN node -> [name : AllNames, size : 0 .. (Word - 4), data : Nat]]
        /\ node'[p].data = ret
        /\ node'[p].size = IF ret = NULL THEN 0 ELSE call.size
        /\ rc' = IF ret = NULL THEN 0 ELSE call.size
        /\ DOMAIN mem' = (DOMAIN mem \ {node[p].data}) \cup ({ret} \ {NULL})
        /\ \A q \in DOMAIN mem' : q # ret => mem'[q] = mem[q]
        /\ ret # NULL => mem'[ret] = [src |-> call.data, len |-> call.size]
    BY WriteEndIs
  <1> HIDE DEF p
  <1>2. HeapInv' /\ ret' = ret /\ pc' = pc /\ grant' = grant
    BY <1>1, HeapInvNext DEF heapVars
  <1>3. ~Writes' /\ ~Allocates' /\ Fresh' = {} /\ Settled' = DOMAIN node /\ Fresh = {ret} \ {NULL}
    BY <1>1 DEF Writes, Allocates, Fresh, Settled
  <1>4. ret # NULL => /\ ret \in DOMAIN grant /\ grant[ret] = call.size /\ call.size > 0
                     /\ ret \notin DOMAIN node /\ ret \notin LiveData
    BY <1>1, <1>3 DEF Phase, Allocates, Wanted, Owned
  <1>5. LiveData' = LiveData \cup ({ret} \ {NULL})
    <2>1. LiveData = {node[q].data : q \in DOMAIN node \ {p}} \ {NULL}
      BY <1>1 DEF LiveData
    <2>2. LiveData' = {node'[q].data : q \in DOMAIN node} \ {NULL}
      BY <1>3 DEF LiveData, NULL
    <2>3. {node'[q].data : q \in DOMAIN node} = {node[q].data : q \in DOMAIN node \ {p}} \cup {ret}
      BY <1>1
    <2> QED BY <2>1, <2>2, <2>3
  <1>6. VfsTypeOK'
    BY <1>1, HeapAssumption DEF VfsTypeOK, Range, Nothing
  <1>7. Records'
    BY <1>1, <1>3 DEF Records
  <1>8. Phase' /\ AtBoot' /\ RoomLeft'
    BY <1>1, <1>2, <1>3 DEF Phase, AtBoot, RoomLeft
  <1>9. Owned'
    <2>1. /\ DOMAIN node \cap LiveData' = {} /\ DOMAIN node \cup LiveData' \subseteq DOMAIN grant
      BY <1>4, <1>5 DEF Owned
    <2>2. ASSUME NEW q \in DOMAIN node, NEW r \in DOMAIN node, q # r, node'[q].data # NULL
          PROVE  node'[q].data # node'[r].data
      <3>1. CASE q # p /\ r # p
        BY <1>1, <2>2, <3>1 DEF Owned
      <3>2. CASE q = p
        <4>1. node'[r].data = node[r].data /\ r \in Settled
          BY <1>1, <2>2, <3>2
        <4> QED BY <1>1, <1>4, <2>2, <3>2, <4>1, Live
      <3>3. CASE r = p
        <4>1. node'[q].data = node[q].data /\ q \in Settled
          BY <1>1, <2>2, <3>3
        <4> QED BY <1>1, <1>4, <2>2, <3>3, <4>1, Live
      <3> QED BY <3>1, <3>2, <3>3
    <2>3. DOMAIN grant' \ (DOMAIN node' \cup LiveData' \cup Fresh') =
             DOMAIN grant \ (DOMAIN node \cup LiveData \cup Fresh)
      BY <1>1, <1>2, <1>3, <1>5
    <2> QED BY <1>1, <1>2, <1>3, <2>1, <2>2, <2>3 DEF Owned
  <1>10. Contents'
    <2> SUFFICES ASSUME NEW q \in DOMAIN node
                 PROVE  IF node'[q].data = NULL THEN node'[q].size = 0
                        ELSE /\ node'[q].size > 0 /\ grant[node'[q].data] = node'[q].size
                             /\ node'[q].data \in DOMAIN mem'
                             /\ mem'[node'[q].data].len = node'[q].size
      BY <1>2, <1>3 DEF Contents, NULL
    <2>1. CASE q = p
      BY <1>1, <1>4, <2>1
    <2>2. CASE q # p
      <3>1. node'[q] = node[q] /\ q \in Settled
        BY <1>1, <2>2
      <3>2. node[q].data # NULL => /\ node[q].data # ret /\ node[q].data # node[p].data
                                  /\ node[q].data \in DOMAIN mem
        <4>1. node[p].data \notin LiveData
          BY <1>1 DEF Owned, p
        <4> QED BY <1>4, <3>1, <4>1, Live DEF Contents
      <3> QED BY <1>1, <3>1, <3>2 DEF Contents
    <2> QED BY <2>1, <2>2
  <1> QED BY <1>2, <1>6, <1>7, <1>8, <1>9, <1>10

(* A read changes only its answer.                                         *)
LEMMA ReadKeeps ==
    ASSUME VfsInv, NEW name, NEW b \in BOOLEAN, NEW n \in Sizes, vfs_read(name, b, n)
    PROVE  VfsInv'
  <1> USE DEF VfsInv
  <1>1. /\ UNCHANGED <<heapVars, chain, node, mem, vpc, call, boot>>
        /\ pc' = pc /\ grant' = grant /\ ret' = ret /\ size' = size /\ used' = used /\ asked' = asked
    BY DEF vfs_read, heapVars
  <1>2. rc' \in Nat /\ out'.len \in Nat
    <2>1. n \in Nat
      BY Asked
    <2>2. CASE vfs_find(name) = NULL
      BY <2>2 DEF vfs_read, Nothing
    <2>3. CASE vfs_find(name) # NULL
      <3>1. node[vfs_find(name)].size \in Nat
        BY <2>3, FindNode DEF VfsTypeOK
      <3>2. Clamp(vfs_find(name), n) \in Nat
        BY <2>1, <3>1 DEF Clamp
      <3> QED BY <2>3, <3>2 DEF vfs_read, Nothing
    <2> QED BY <2>2, <2>3
  <1>3. HeapInv'
    BY <1>1, HeapInvNext
  <1>4. /\ Settled' = Settled /\ LiveData' = LiveData /\ Writes' = Writes
        /\ Allocates' = Allocates /\ Wanted' = Wanted /\ Fresh' = Fresh /\ Blocks' = Blocks
        /\ \A m : vfs_find(m)' = vfs_find(m)
    BY <1>1, SameFiles DEF Fresh, Blocks
  <1>5. VfsTypeOK' /\ Records'
    BY <1>1, <1>2, <1>4 DEF VfsTypeOK, Range, Records
  <1>6. Phase' /\ AtBoot' /\ RoomLeft'
    BY <1>1, <1>4 DEF Phase, AtBoot, RoomLeft
  <1>7. Owned' /\ Contents'
    BY <1>1, <1>4 DEF Owned, Contents
  <1> QED BY <1>3, <1>5, <1>6, <1>7

(* Every step of the file system and of the allocator under it keeps the   *)
(* invariant.                                                              *)
LEMMA VfsInvNext == VfsInv /\ [VfsNext]_vfsVars => VfsInv'
  <1> SUFFICES ASSUME VfsInv, [VfsNext]_vfsVars PROVE VfsInv'
    OBVIOUS
  <1>1. CASE BootAlloc \/ vfs_init
    BY <1>1, BootKeeps
  <1>2. CASE ramfs_init
    <2>1. Welcome \in Names /\ Welcome \in AllNames
      BY VfsAssumption DEF AllNames
    <2>2. boot \in 1 .. 3
      BY <1>2 DEF ramfs_init
    <2> QED BY <1>2, <2>1, <2>2, CreateKeeps, WriteKeeps DEF ramfs_init
  <1>3. CASE CreateEnd
    BY <1>3, CreateEndKeeps
  <1>4. CASE WriteAlloc
    BY <1>4, WriteAllocKeeps
  <1>5. CASE WriteEnd
    BY <1>5, WriteEndKeeps
  <1>6. CASE HeapStep /\ UNCHANGED fsVars
    BY <1>6, HeapMoves
  <1>7. CASE Callers
    <2>1. boot \in 1 .. 3
      BY <1>7 DEF Callers
    <2>2. PICK n \in AllNames :
             \/ n \in Names /\ vfs_create(n)
             \/ \E k \in Sizes : \/ \E b \in BOOLEAN : vfs_read(n, b, k)
                                \/ \E d \in Data : vfs_write(n, d, k)
      BY <1>7 DEF Callers
    <2>3. CASE n \in Names /\ vfs_create(n)
      BY <2>1, <2>3, CreateKeeps
    <2>4. CASE \E k \in Sizes, b \in BOOLEAN : vfs_read(n, b, k)
      BY <2>4, ReadKeeps
    <2>5. ASSUME NEW k \in Sizes, NEW d \in Data, vfs_write(n, d, k) PROVE VfsInv'
      BY <2>1, <2>5, WriteKeeps
    <2> QED BY <2>2, <2>3, <2>4, <2>5
  <1>8. CASE UNCHANGED vfsVars
    <2>1. UNCHANGED heapVars /\ UNCHANGED fsVars
      BY <1>8 DEF vfsVars
    <2>2. HeapInv'
      BY <2>1, HeapInvNext DEF VfsInv
    <2>3. /\ Settled' = Settled /\ LiveData' = LiveData /\ Writes' = Writes
          /\ Allocates' = Allocates /\ Wanted' = Wanted /\ Fresh' = Fresh /\ Blocks' = Blocks
          /\ \A m : vfs_find(m)' = vfs_find(m)
      BY <2>1, SameFiles DEF Fresh, Blocks, fsVars, heapVars, Allocates
    <2>4. VfsTypeOK' /\ Records'
      BY <2>1, <2>3 DEF VfsInv, VfsTypeOK, Range, Records, fsVars
    <2>5. Phase' /\ AtBoot' /\ RoomLeft'
      BY <2>1, <2>3 DEF VfsInv, Phase, AtBoot, RoomLeft, fsVars, heapVars
    <2>6. Owned' /\ Contents'
      BY <2>1, <2>3 DEF VfsInv, Owned, Contents, fsVars, heapVars
    <2> QED BY <2>2, <2>4, <2>5, <2>6 DEF VfsInv
  <1> QED BY <1>1, <1>2, <1>3, <1>4, <1>5, <1>6, <1>7, <1>8 DEF VfsNext, VfsStep

(* The inductive invariant holds in every behaviour of the file system.    *)
THEOREM VfsInvariance == VfsSpec => []VfsInv
  BY VfsInvInit, VfsInvNext, PTL DEF VfsSpec

(* Between calls every block in use has exactly one owner, whatever was    *)
(* created and written and however often memory ran out: nothing is freed  *)
(* twice, leaked, shared or pointed to after it was freed.                 *)
THEOREM VfsOwnership == VfsSpec => []Ownership
  <1>1. VfsInv => Ownership
    <2> SUFFICES ASSUME VfsInv PROVE Ownership
      OBVIOUS
    <2>1. ASSUME vpc = "idle"
          PROVE  Settled = DOMAIN node /\ LiveData = DataOf /\ Fresh = {}
      BY <2>1 DEF Settled, Writes, LiveData, DataOf, Fresh, Allocates
    <2> QED BY <2>1 DEF VfsInv, Ownership, Owned
  <1> QED BY <1>1, VfsInvariance, PTL

(* A file's recorded size is the size of the content copied, and the block *)
(* the content lies in is large enough for it.                             *)
THEOREM VfsSizesFit == VfsSpec => []SizesFit
  <1>1. VfsInv => SizesFit
    <2> SUFFICES ASSUME VfsInv, vpc = "idle", NEW p \in DOMAIN node, node[p].size > 0
                 PROVE  /\ node[p].data \in DOMAIN grant
                        /\ node[p].size <= size[HeaderOf(node[p].data)]
                        /\ mem[node[p].data].len = node[p].size
      BY DEF SizesFit
    <2>1. p \in Settled /\ node[p].size \in 0 .. (Word - 4)
      BY DEF Settled, Writes, VfsInv, Records
    <2>2. node[p].data # NULL /\ grant[node[p].data] = node[p].size /\ mem[node[p].data].len = node[p].size
      BY <2>1 DEF VfsInv, Contents
    <2>3. node[p].data \in DOMAIN grant
      BY <2>1, <2>2, Live DEF VfsInv, Owned
    <2>4. size[HeaderOf(node[p].data)] >= node[p].size
      BY <2>1, <2>2, <2>3 DEF VfsInv, HeapInv, GrantsHold
    <2>5. size[HeaderOf(node[p].data)] \in Nat
      BY <2>3 DEF VfsInv, HeapInv, GrantsHold, TypeOK
    <2> QED BY <2>1, <2>2, <2>3, <2>4, <2>5
  <1> QED BY <1>1, VfsInvariance, PTL

----------------------------------------------------------------------------
(* vfs_find as a fact about all names at once, so that it can be used of   *)
(* the state after a step too.                                             *)
FindRight ==
    \A n : \/ /\ vfs_find(n) = NULL
              /\ \A i \in DOMAIN chain : node[chain[i]].name # n
           \/ \E i \in DOMAIN chain :
                 /\ vfs_find(n) = chain[i] /\ node[chain[i]].name = n
                 /\ \A j \in DOMAIN chain : node[chain[j]].name = n => i <= j

(* vfs_find gives the first node of the chain with the name, or none.      *)
LEMMA FindsFirst == VfsTypeOK => FindRight
  BY FindIs DEF VfsTypeOK, FindRight

(* A new first node hides the older ones of its name and no other.         *)
LEMMA FindAfterPush ==
    ASSUME VfsInv, VfsInv', NEW p, p # NULL, chain' = PushFront(p), p \notin DOMAIN node,
           \A q \in DOMAIN node : node'[q] = node[q], NEW n
    PROVE  vfs_find(n)' = IF n = node'[p].name THEN p ELSE vfs_find(n)
  <1>1. FindRight /\ FindRight'
    <2>1. VfsTypeOK /\ VfsTypeOK'
      BY DEF VfsInv
    <2> QED BY <2>1, FindsFirst, PTL
  <1>2. /\ chain \in Seq(DOMAIN node) /\ DOMAIN chain = 1 .. Len(chain) /\ Len(chain) \in Nat
        /\ \A i \in DOMAIN chain : node'[chain[i]] = node[chain[i]]
    BY DEF VfsInv, VfsTypeOK
  <1>3. /\ DOMAIN chain' = 1 .. (Len(chain) + 1) /\ chain'[1] = p
        /\ \A i \in DOMAIN chain : chain'[i + 1] = chain[i] /\ i + 1 \in DOMAIN chain'
        /\ \A j \in DOMAIN chain' : j # 1 => j - 1 \in DOMAIN chain /\ chain'[j] = chain[j - 1]
    <2>1. chain' = <<p>> \o chain /\ chain \in Seq(DOMAIN node \cup {p}) /\ <<p>> \in Seq(DOMAIN node \cup {p})
      BY <1>2 DEF PushFront
    <2>2. /\ DOMAIN chain' = 1 .. (Len(chain) + 1) /\ chain'[1] = p
          /\ \A i \in 1 .. Len(chain) : chain'[i + 1] = chain[i]
      BY <1>2, <2>1
    <2>3. \A j \in 1 .. (Len(chain) + 1) : j # 1 => j - 1 \in 1 .. Len(chain) /\ (j - 1) + 1 = j
      BY <1>2
    <2>4. \A i \in 1 .. Len(chain) : i + 1 \in 1 .. (Len(chain) + 1)
      BY <1>2
    <2>5. ASSUME NEW j \in 1 .. (Len(chain) + 1), j # 1 PROVE chain'[j] = chain[j - 1]
      <3>1. j - 1 \in 1 .. Len(chain) /\ (j - 1) + 1 = j
        BY <2>3, <2>5
      <3> QED BY <2>2, <3>1
    <2> QED BY <1>2, <2>2, <2>3, <2>4, <2>5
  <1>4. CASE n = node'[p].name
    <2>1. 1 \in DOMAIN chain' /\ node'[chain'[1]].name = n
      BY <1>2, <1>3, <1>4
    <2>2. PICK i \in DOMAIN chain' :
             /\ vfs_find(n)' = chain'[i]
             /\ \A j \in DOMAIN chain' : node'[chain'[j]].name = n => i <= j
      BY <1>1, <2>1 DEF FindRight
    <2>3. i = 1
      BY <1>2, <1>3, <2>1, <2>2
    <2> QED BY <1>3, <1>4, <2>2, <2>3
  <1>5. CASE n # node'[p].name
    <2>1. CASE \A i \in DOMAIN chain : node[chain[i]].name # n
      <3>1. vfs_find(n) = NULL
        BY <1>1, <2>1 DEF FindRight
      <3>2. \A j \in DOMAIN chain' : node'[chain'[j]].name # n
        BY <1>2, <1>3, <1>5, <2>1
      <3>3. vfs_find(n)' = NULL
        BY <1>1, <3>2 DEF FindRight
      <3> QED BY <1>5, <3>1, <3>3
    <2>2. CASE \E i \in DOMAIN chain : node[chain[i]].name = n
      <3>1. PICK i \in DOMAIN chain :
               /\ vfs_find(n) = chain[i] /\ node[chain[i]].name = n
               /\ \A j \in DOMAIN chain : node[chain[j]].name = n => i <= j
        BY <1>1, <2>2 DEF FindRight
      <3>2. i + 1 \in DOMAIN chain' /\ node'[chain'[i + 1]].name = n
        BY <1>2, <1>3, <3>1
      <3>3. PICK k \in DOMAIN chain' :
               /\ vfs_find(n)' = chain'[k] /\ node'[chain'[k]].name = n
               /\ \A j \in DOMAIN chain' : node'[chain'[j]].name = n => k <= j
        BY <1>1, <3>2 DEF FindRight
      <3>4. k # 1
        BY <1>3, <1>5, <3>3
      <3>5. k - 1 \in DOMAIN chain /\ chain'[k] = chain[k - 1] /\ node[chain[k - 1]].name = n
        BY <1>2, <1>3, <3>3, <3>4
      <3>6. i <= k - 1
        BY <3>1, <3>5
      <3>7. k <= i + 1
        BY <3>2, <3>3
      <3>8. i \in Int /\ k \in Int
        BY <1>2, <1>3
      <3>9. k - 1 = i
        BY <3>6, <3>7, <3>8
      <3> QED BY <1>5, <3>1, <3>3, <3>5, <3>9
    <2> QED BY <2>1, <2>2
  <1> QED BY <1>4, <1>5

(* Names are found where they were while no node changes its name.         *)
LEMMA FindSame ==
    ASSUME VfsInv, chain' = chain, NEW n,
           \A q \in DOMAIN node : node'[q].name = node[q].name
    PROVE  vfs_find(n)' = vfs_find(n)
  <1>1. \A i \in DOMAIN chain : chain[i] \in DOMAIN node
    BY DEF VfsInv, VfsTypeOK
  <1> DEFINE hits == {i \in DOMAIN chain : node[chain[i]].name = n}
  <1>2. vfs_find(n) = IF hits = {} THEN NULL
                      ELSE chain[CHOOSE i \in hits : \A j \in hits : i <= j]
    BY DEF vfs_find
  <1>3. vfs_find(n)' = IF hits' = {} THEN NULL
                       ELSE chain'[CHOOSE i \in hits' : \A j \in hits' : i <= j]
    BY DEF vfs_find, NULL
  <1>4. hits' = hits
    BY <1>1
  <1> HIDE DEF hits
  <1> QED BY <1>2, <1>3, <1>4

(* What the map sees of a name.                                            *)
LEMMA ContentIs ==
    ASSUME VfsInv, NEW n
    PROVE  /\ vfs_find(n) = NULL => ContentOf(n) = Store!Absent
           /\ vfs_find(n) # NULL => /\ ContentOf(n) # Store!Absent
                                   /\ ContentOf(n).len = node[vfs_find(n)].size
  <1>1. CASE vfs_find(n) = NULL
    BY <1>1 DEF ContentOf, Store!Absent
  <1>2. CASE vfs_find(n) # NULL
    <2>1. ContentOf(n) = IF node[vfs_find(n)].size = 0 THEN Nothing
                         ELSE [src |-> mem[node[vfs_find(n)].data].src,
                               len |-> node[vfs_find(n)].size]
      BY <1>2 DEF ContentOf
    <2>2. Nothing.len = 0 /\ Nothing.src = "none" /\ Store!Absent.len = 0 /\ Store!Absent.src = "absent"
      BY DEF Nothing, NoData, Store!Absent
    <2> HIDE DEF Nothing
    <2>3. CASE node[vfs_find(n)].size = 0
      BY <1>2, <2>1, <2>2, <2>3
    <2>4. CASE node[vfs_find(n)].size # 0
      <3>1. ContentOf(n).len = node[vfs_find(n)].size
        BY <2>1, <2>4
      <3> QED BY <1>2, <2>2, <2>4, <3>1
    <2> QED BY <2>3, <2>4
  <1> QED BY <1>1, <1>2

(* Steps inside a call change nothing a caller of the map can see.         *)
LEMMA InsideVfsCalls ==
    ASSUME VfsInv, UNCHANGED <<chain, node, mem, rc, out>>
    PROVE  UNCHANGED Store!storeVars
  <1>1. \A n : ContentOf(n)' = ContentOf(n)
    BY DEF ContentOf, vfs_find
  <1>2. [n \in AllNames |-> ContentOf(n)]' = [n \in AllNames |-> ContentOf(n)]
    BY <1>1
  <1> QED BY <1>2 DEF Store!storeVars

(* A creation that ends makes an empty file or changes nothing.            *)
LEMMA CreateEndCreates ==
    ASSUME VfsInv, VfsInv', CreateEnd
    PROVE  call.name \in Names /\ Store!Create(call.name)
  <1>1. /\ vpc = "create" /\ call.name \in Names /\ out' = Nothing /\ mem' = mem
        /\ Stored[call.name] \in AllNames
    BY DEF CreateEnd, VfsInv, Records, AllNames
  <1>2. CASE ret = NULL
    <2>1. rc' = 0 /\ chain' = chain /\ node' = node
      BY <1>2 DEF CreateEnd
    <2>2. [n \in AllNames |-> ContentOf(n)]' = [n \in AllNames |-> ContentOf(n)]
      BY <1>1, <2>1 DEF ContentOf, vfs_find
    <2> QED BY <1>1, <2>1, <2>2 DEF Store!Create, Store!Empty, Nothing, NoData
  <1>3. CASE ret # NULL
    <2>1. /\ rc' = 1 /\ chain' = PushFront(ret)
          /\ node'[ret] = [name |-> Stored[call.name], size |-> 0, data |-> NULL]
          /\ \A q \in DOMAIN node : q # ret => node'[q] = node[q]
      BY <1>3 DEF CreateEnd
    <2>2. ret \notin DOMAIN node
      <3>1. pc = "idle"
        BY DEF CreateEnd
      <3> QED BY <1>1, <1>3, <3>1 DEF VfsInv, Owned, Fresh, Allocates
    <2>3. ASSUME NEW n
          PROVE  ContentOf(n)' = IF n = Stored[call.name] THEN Nothing ELSE ContentOf(n)
      <3>1. vfs_find(n)' = IF n = Stored[call.name] THEN ret ELSE vfs_find(n)
        BY <1>3, <2>1, <2>2, FindAfterPush
      <3>2. CASE n = Stored[call.name]
        BY <1>3, <2>1, <3>1, <3>2 DEF ContentOf
      <3>3. CASE n # Stored[call.name]
        <4>1. vfs_find(n)' = vfs_find(n)
          BY <3>1, <3>3
        <4>2. CASE vfs_find(n) = NULL
          BY <3>3, <4>1, <4>2 DEF ContentOf
        <4>3. CASE vfs_find(n) # NULL
          <5>1. vfs_find(n) \in DOMAIN node
            BY <4>3, FindNode DEF VfsInv
          <5>2. node'[vfs_find(n)] = node[vfs_find(n)]
            BY <2>1, <2>2, <5>1
          <5> QED BY <1>1, <3>3, <4>1, <5>2 DEF ContentOf
        <4> QED BY <4>2, <4>3
      <3> QED BY <3>2, <3>3
    <2>4. [n \in AllNames |-> ContentOf(n)]' =
             [[n \in AllNames |-> ContentOf(n)] EXCEPT ![Stored[call.name]] = Nothing]
      BY <1>1, <2>3
    <2> QED BY <1>1, <2>1, <2>4 DEF Store!Create, Store!Empty, Nothing, NoData
  <1> QED BY <1>1, <1>2, <1>3

(* A write that ends replaces the whole content, or leaves the file empty  *)
(* for want of memory, which a content no longer than the old one is never *)
(* short of.                                                               *)
LEMMA WriteEndWrites ==
    ASSUME VfsInv, VfsInv', WriteEnd
    PROVE  Store!Write(call.name, call.data, call.size)
  <1>0. PICK p, n : p = call.at /\ n = call.name
    OBVIOUS
  <1> DEFINE New == IF ret = NULL THEN Nothing ELSE [src |-> call.data, len |-> call.size]
  <1>1. /\ vpc = "store" /\ pc = "idle" /\ out' = Nothing /\ chain' = chain
        /\ p \in DOMAIN node /\ call.size \in 0 .. (Word - 4)
        /\ DOMAIN node' = DOMAIN node
        /\ \A q \in DOMAIN node : q # p => node'[q] = node[q]
        /\ node'[p].name = node[p].name /\ node'[p].data = ret
        /\ node'[p].size = IF ret = NULL THEN 0 ELSE call.size
        /\ rc' = IF ret = NULL THEN 0 ELSE call.size
        /\ DOMAIN mem' = (DOMAIN mem \ {node[p].data}) \cup ({ret} \ {NULL})
        /\ \A q \in DOMAIN mem' : q # ret => mem'[q] = mem[q]
        /\ ret # NULL => mem'[ret] = [src |-> call.data, len |-> call.size]
        /\ Settled = DOMAIN node \ {p} /\ Writes
    BY <1>0, WriteEndIs
  <1>2. p = vfs_find(n) /\ p # NULL /\ n \in AllNames /\ node[p].name = n
    <2>1. p = vfs_find(n) /\ n \in AllNames
      BY <1>0, <1>1 DEF VfsInv, Records
    <2>2. p # NULL
      <3>1. p \in DOMAIN grant
        BY <1>1 DEF VfsInv, Owned
      <3> QED BY <3>1, HeapAssumption DEF VfsInv, HeapInv, GrantsHold, TypeOK, HeaderOf, NULL
    <2> QED BY <2>1, <2>2, FindNode DEF VfsInv
  <1>3. \A m : vfs_find(m)' = vfs_find(m)
    BY <1>1, FindSame
  <1>4. ret # NULL => call.size > 0 /\ ret \notin LiveData
    BY <1>1 DEF VfsInv, Phase, Allocates, Wanted, Owned, Fresh
  <1>5. ContentOf(n)' = New
    <2>1. vfs_find(n)' = p /\ p # NULL
      BY <1>2, <1>3
    <2>2. CASE ret = NULL
      BY <1>1, <2>1, <2>2 DEF ContentOf
    <2>3. CASE ret # NULL
      BY <1>1, <1>4, <2>1, <2>3 DEF ContentOf
    <2> QED BY <2>2, <2>3
  <1>6. ASSUME NEW m, m # n
        PROVE  ContentOf(m)' = ContentOf(m)
    <2>1. vfs_find(m)' = vfs_find(m)
      BY <1>3
    <2>2. CASE vfs_find(m) = NULL
      BY <2>1, <2>2 DEF ContentOf
    <2>3. CASE vfs_find(m) # NULL
      <3> DEFINE q == vfs_find(m)
      <3>1. q \in DOMAIN node /\ node[q].name = m
        BY <2>3, FindNode DEF VfsInv
      <3> HIDE DEF q
      <3>2. q # p /\ node'[q] = node[q] /\ q \in Settled
        BY <1>1, <1>2, <1>6, <3>1
      <3>3. node[q].size # 0 => mem'[node[q].data] = mem[node[q].data]
        <4> SUFFICES ASSUME node[q].size # 0 PROVE mem'[node[q].data] = mem[node[q].data]
          OBVIOUS
        <4>1. node[q].data # NULL /\ node[q].data \in DOMAIN mem
          BY <3>2 DEF VfsInv, Contents
        <4>2. node[q].data \in LiveData /\ node[p].data \notin LiveData
          BY <1>0, <1>1, <3>2, <4>1, Live DEF VfsInv, Owned
        <4> QED BY <1>1, <1>4, <4>1, <4>2
      <3> QED BY <2>1, <3>2, <3>3 DEF ContentOf, q
    <2> QED BY <2>2, <2>3
  <1>7. [m \in AllNames |-> ContentOf(m)]' = [[m \in AllNames |-> ContentOf(m)] EXCEPT ![n] = New]
    BY <1>2, <1>5, <1>6
  <1>8. ContentOf(n) # Store!Absent /\ ContentOf(n).len = node[p].size
    BY <1>2, ContentIs
  <1>9. ret = NULL => call.size = 0 \/ call.size > ContentOf(n).len
    BY <1>0, <1>1, <1>8 DEF VfsInv, RoomLeft
  <1>10. [m \in AllNames |-> ContentOf(m)][n] = ContentOf(n)
    BY <1>2
  <1>11. Nothing = Store!Empty
    BY DEF Nothing, NoData, Store!Empty
  <1>12. CASE ret = NULL
    BY <1>0, <1>1, <1>7, <1>8, <1>9, <1>10, <1>11, <1>12 DEF Store!Write
  <1>13. CASE ret # NULL
    BY <1>0, <1>1, <1>4, <1>7, <1>8, <1>10, <1>11, <1>13 DEF Store!Write
  <1> QED BY <1>12, <1>13

(* A write to a name that is not there fails and changes nothing; any      *)
(* other write starts unseen.                                              *)
LEMMA WriteStarts ==
    ASSUME VfsInv, NEW name \in AllNames, NEW d, NEW k, vfs_write(name, d, k)
    PROVE  Store!WriteMissing(name) \/ UNCHANGED Store!storeVars
  <1>1. CASE vfs_find(name) = NULL
    <2>1. rc' = 0 /\ out' = Nothing /\ UNCHANGED <<chain, node, mem>>
      BY <1>1 DEF vfs_write
    <2>2. [m \in AllNames |-> ContentOf(m)]' = [m \in AllNames |-> ContentOf(m)]
      BY <2>1 DEF ContentOf, vfs_find
    <2>3. [m \in AllNames |-> ContentOf(m)][name] = Store!Absent
      BY <1>1, ContentIs
    <2> QED BY <2>1, <2>2, <2>3 DEF Store!WriteMissing, Store!Empty, Nothing, NoData
  <1>2. CASE vfs_find(name) # NULL
    <2>1. UNCHANGED <<chain, node, mem, rc, out>>
      BY <1>2 DEF vfs_write
    <2> QED BY <2>1, InsideVfsCalls
  <1> QED BY <1>1, <1>2

(* A read into a buffer delivers the first bytes of the content of its     *)
(* name.                                                                   *)
LEMMA ReadReads ==
    ASSUME VfsInv, NEW name \in AllNames, NEW k \in Sizes, vfs_read(name, TRUE, k)
    PROVE  Store!Read(name, k)
  <1> DEFINE c == ContentOf(name)
             got == IF c = Store!Absent THEN Store!Empty ELSE Store!Prefix(c, k)
  <1>0. /\ vpc = "idle" /\ UNCHANGED <<chain, node, mem>> /\ k \in Nat
        /\ Settled = DOMAIN node /\ Nothing = Store!Empty /\ Nothing.len = 0
    BY Asked DEF vfs_read, Settled, Writes, Nothing, NoData, Store!Empty
  <1>1. [m \in AllNames |-> ContentOf(m)]' = [m \in AllNames |-> ContentOf(m)]
    BY <1>0 DEF ContentOf, vfs_find
  <1>2. rc' = got.len /\ out' = IF got.len = 0 THEN Store!Empty ELSE got
    <2>1. CASE vfs_find(name) = NULL
      <3>1. c = Store!Absent /\ rc' = 0 /\ out' = Nothing
        BY <2>1, ContentIs DEF vfs_read
      <3> QED BY <1>0, <3>1
    <2>2. CASE vfs_find(name) # NULL
      <3> DEFINE p == vfs_find(name)
      <3>1. /\ p \in Settled /\ node[p].size \in Nat
            /\ c # Store!Absent /\ c.len = node[p].size
            /\ c = IF node[p].size = 0 THEN Nothing
                   ELSE [src |-> mem[node[p].data].src, len |-> node[p].size]
        <4>1. p \in DOMAIN node /\ node[p].size \in Nat
          BY <2>2, FindNode DEF VfsInv, VfsTypeOK
        <4>2. c # Store!Absent /\ c.len = node[p].size
          BY <2>2, ContentIs
        <4> QED BY <1>0, <2>2, <4>1, <4>2 DEF ContentOf
      <3>2. /\ node[p].data = NULL => rc' = 0 /\ out' = Nothing
            /\ node[p].data # NULL =>
                  /\ rc' = Clamp(p, k)
                  /\ out' = IF Clamp(p, k) = 0 THEN Nothing
                            ELSE [src |-> mem[node[p].data].src, len |-> Clamp(p, k)]
        BY <2>2 DEF vfs_read
      <3>3. IF node[p].data = NULL THEN node[p].size = 0 ELSE node[p].size > 0
        BY <3>1 DEF VfsInv, Contents
      <3>4. Clamp(p, k) = IF k > node[p].size THEN node[p].size ELSE k
        BY DEF Clamp
      <3>5. got = IF k < node[p].size THEN [c EXCEPT !.len = k] ELSE c
        BY <3>1 DEF Store!Prefix
      <3> HIDE DEF p, c, got
      <3>6. CASE node[p].data = NULL
        BY <1>0, <3>1, <3>2, <3>3, <3>5, <3>6
      <3>7. CASE node[p].data # NULL
        <4>1. c = [src |-> mem[node[p].data].src, len |-> node[p].size] /\ node[p].size > 0
          BY <3>1, <3>3, <3>7
        <4>2. CASE k < node[p].size
          <5>1. got = [src |-> mem[node[p].data].src, len |-> k] /\ Clamp(p, k) = k
            BY <1>0, <3>1, <3>4, <3>5, <4>1, <4>2
          <5> QED BY <1>0, <3>2, <3>7, <5>1
        <4>3. CASE ~(k < node[p].size)
          <5>1. got = c /\ Clamp(p, k) = node[p].size /\ node[p].size # 0
            BY <1>0, <3>1, <3>4, <3>5, <4>1, <4>3
          <5> QED BY <1>0, <3>2, <3>7, <4>1, <5>1
        <4> QED BY <4>2, <4>3
      <3> QED BY <3>6, <3>7
    <2> QED BY <2>1, <2>2
  <1>3. [m \in AllNames |-> ContentOf(m)][name] = c
    OBVIOUS
  <1> HIDE DEF c
  <1> QED BY <1>1, <1>2, <1>3 DEF Store!Read

(* A read without a buffer is one of nothing.                              *)
LEMMA ReadNowhere ==
    ASSUME VfsInv, NEW name \in AllNames, NEW k \in Sizes, vfs_read(name, FALSE, k)
    PROVE  Store!Read(name, 0)
  <1>1. /\ vpc = "idle" /\ UNCHANGED <<chain, node, mem>>
        /\ rc' = 0 /\ out' = Nothing /\ Nothing = Store!Empty
    BY DEF vfs_read, Nothing, NoData, Store!Empty
  <1>2. [m \in AllNames |-> ContentOf(m)]' = [m \in AllNames |-> ContentOf(m)]
    BY <1>1 DEF ContentOf, vfs_find
  <1>3. ContentOf(name).len \in Nat
    <2>1. CASE vfs_find(name) = NULL
      BY <2>1 DEF ContentOf
    <2>2. CASE vfs_find(name) # NULL
      BY <1>1, <2>2, FindNode, ContentIs DEF VfsInv, VfsTypeOK
    <2> QED BY <2>1, <2>2
  <1> DEFINE c == ContentOf(name)
             got == IF c = Store!Absent THEN Store!Empty ELSE Store!Prefix(c, 0)
  <1>4. got.len = 0
    <2>1. CASE c = Store!Absent
      BY <2>1 DEF Store!Empty
    <2>2. CASE c # Store!Absent /\ 0 < c.len
      BY <2>2 DEF Store!Prefix, ContentOf, Nothing
    <2>3. CASE c # Store!Absent /\ ~(0 < c.len)
      BY <1>3, <2>3 DEF Store!Prefix
    <2> QED BY <2>1, <2>2, <2>3
  <1>5. [m \in AllNames |-> ContentOf(m)][name] = c
    OBVIOUS
  <1> HIDE DEF c
  <1> QED BY <1>1, <1>2, <1>4, <1>5 DEF Store!Read

(* The file system implements a map from names to contents: every step of  *)
(* the allocator and of the functions above it is invisible, or is one     *)
(* operation of the map.                                                   *)
THEOREM VfsImplementsFileStore == VfsSpec => ImplementsFileStore
  <1>1. VfsInit => Store!StoreInit
    <2> SUFFICES ASSUME VfsInit PROVE Store!StoreInit
      OBVIOUS
    <2>1. \A n : vfs_find(n) = NULL
      BY DEF VfsInit, vfs_find
    <2>2. \A n : ContentOf(n) = Store!Absent
      BY <2>1 DEF ContentOf, Store!Absent
    <2> QED BY <2>2 DEF VfsInit, Store!StoreInit, Store!AllNames, AllNames, Store!Empty, Nothing, NoData
  <1>2. VfsInv /\ VfsInv' /\ [VfsNext]_vfsVars => [Store!StoreNext]_(Store!storeVars)
    <2> SUFFICES ASSUME VfsInv, VfsInv', [VfsNext]_vfsVars
                 PROVE  Store!StoreNext \/ UNCHANGED Store!storeVars
      OBVIOUS
    <2>0. Store!AllNames = AllNames /\ Names \subseteq AllNames
      BY DEF Store!AllNames, AllNames
    <2>1. CASE BootAlloc \/ vfs_init \/ WriteAlloc \/ UNCHANGED fsVars
      <3>1. vfs_init => chain = <<>>
        BY DEF VfsInv, AtBoot, vfs_init
      <3>2. UNCHANGED <<chain, node, mem, rc, out>>
        BY <2>1, <3>1 DEF BootAlloc, vfs_init, WriteAlloc, fsVars
      <3> QED BY <3>2, InsideVfsCalls
    <2>2. CASE \E n : vfs_create(n)
      <3>1. UNCHANGED <<chain, node, mem, rc, out>>
        BY <2>2 DEF vfs_create
      <3> QED BY <3>1, InsideVfsCalls
    <2>3. CASE CreateEnd
      BY <2>0, <2>3, CreateEndCreates DEF Store!StoreNext
    <2>4. CASE WriteEnd
      <3>1. /\ call.name \in AllNames /\ call.data \in Data \cup {BootData}
            /\ call.size \in Sizes \cup {0, BootSize}
        <4>1. Writes
          BY <2>4 DEF WriteEnd, Writes
        <4> QED BY <4>1 DEF VfsInv, Records
      <3>2. Store!Write(call.name, call.data, call.size)
        BY <2>4, WriteEndWrites
      <3> QED BY <2>0, <3>1, <3>2 DEF Store!StoreNext
    <2>5. ASSUME NEW n \in AllNames, NEW d, NEW k, vfs_write(n, d, k)
          PROVE  Store!StoreNext \/ UNCHANGED Store!storeVars
      BY <2>0, <2>5, WriteStarts DEF Store!StoreNext
    <2>6. ASSUME NEW n \in AllNames, NEW b \in BOOLEAN, NEW k \in Sizes, vfs_read(n, b, k)
          PROVE  Store!StoreNext
      <3>1. k \in Sizes \cup {0, BootSize} /\ 0 \in Sizes \cup {0, BootSize}
        OBVIOUS
      <3>2. CASE b
        <4>1. Store!Read(n, k)
          BY <2>6, <3>2, ReadReads
        <4> QED BY <2>0, <3>1, <4>1 DEF Store!StoreNext
      <3>3. CASE ~b
        <4>1. Store!Read(n, 0)
          BY <2>6, <3>3, ReadNowhere
        <4> QED BY <2>0, <3>1, <4>1 DEF Store!StoreNext
      <3> QED BY <3>2, <3>3
    <2>7. CASE ramfs_init
      <3>1. Welcome \in AllNames
        BY VfsAssumption DEF AllNames
      <3> QED BY <2>2, <2>5, <2>7, <3>1 DEF ramfs_init
    <2>8. CASE Callers
      <3>1. PICK n \in AllNames :
               \/ n \in Names /\ vfs_create(n)
               \/ \E k \in Sizes : \/ \E b \in BOOLEAN : vfs_read(n, b, k)
                                \/ \E d \in Data : vfs_write(n, d, k)
        BY <2>8 DEF Callers
      <3> QED BY <2>2, <2>5, <2>6, <3>1
    <2>9. UNCHANGED vfsVars => UNCHANGED fsVars
      BY DEF vfsVars
    <2> QED BY <2>1, <2>3, <2>4, <2>7, <2>8, <2>9 DEF VfsNext, VfsStep
  <1> QED BY <1>1, <1>2, VfsInvariance, PTL DEF VfsSpec, ImplementsFileStore, Store!StoreSpec
=============================================================================
