--------------------------------- MODULE Vfs ---------------------------------
(***************************************************************************)
(* The RAM file system (filesystem/vfs.c, ramfs.c) on the kernel heap.     *)
(* Nodes and file contents are blocks of the heap: a call of Memory_alloc  *)
(* or Memory_free inside a vfs function runs the allocator's loops to      *)
(* their end before the function goes on.                                  *)
(*                                                                         *)
(* The chain of `next` pointers from `root` is the sequence `chain` of     *)
(* node addresses, first node first.  File contents are a source buffer    *)
(* and a length; the copy loops are one step.                              *)
(***************************************************************************)
EXTENDS Heap, Sequences

CONSTANTS Names,        \* names passed to the vfs functions
          Stored,       \* [Names -> names]: the first MAX_NAME - 1 characters
          Welcome,      \* "welcome.txt"
          Data,         \* buffers passed to vfs_write
          BootData,     \* ramfs_init's message
          Sizes,        \* sizes passed to vfs_write and vfs_read
          BootSize,     \* sizeof(msg) in ramfs_init
          NodeSize,     \* sizeof(vfs_node_t)
          KernelBlock   \* the block kernel_main takes before ramfs_init

ASSUME VfsAssumption ==
    /\ Welcome \in Names /\ Stored[Welcome] = Welcome
    /\ \A n \in Names : Stored[n] \in Names => Stored[Stored[n]] = Stored[n]
    /\ Sizes \cup {BootSize, NodeSize, KernelBlock} \subseteq 0 .. (Word - 4)
    /\ BootSize > 0 /\ NodeSize > 0 /\ KernelBlock > 0

VARIABLES chain,  \* the nodes from root, by address
          node,   \* node address -> [name, size, data]
          mem,    \* data pointer -> the bytes copied there: [src, len]
          vpc,    \* the vfs function under way: "idle", "boot", "create", "release", "store"
          call,   \* its arguments: [name, data, size, at]
          boot,   \* how far kernel_main has come: 0 .. 3, 3 when the system is up
          rc, out \* return value and caller's buffer of the last call

fsVars  == <<chain, node, mem, vpc, call, boot, rc, out>>
vfsVars == <<heapVars, fsVars>>

NoData == "none"
Nothing == [src |-> NoData, len |-> 0]
NoCall == [name |-> NoData, data |-> NoData, size |-> 0, at |-> NULL]
AllNames == Names \cup {Stored[n] : n \in Names}

Range(s) == {s[i] : i \in DOMAIN s}

----------------------------------------------------------------------------
(* vfs_find: the first node from root whose name is exactly the one asked; *)
(* the mutant takes the last one                                           *)
vfs_find_last(name) ==
    LET hits == {i \in DOMAIN chain : node[chain[i]].name = name}
    IN  IF hits = {} THEN NULL
        ELSE chain[CHOOSE i \in hits : \A j \in hits : j <= i]

vfs_find(name) ==
    LET hits == {i \in DOMAIN chain : node[chain[i]].name = name}
    IN  IF hits = {} THEN NULL
        ELSE chain[CHOOSE i \in hits : \A j \in hits : i <= j]

(* what the write path frees before it allocates; the mutant keeps the old *)
(* block                                                                   *)
OldBlock_Kept(p) == NULL
OldBlock(p) == node[p].data

(* node->next = root; root = node *)
PushFront(p) == <<p>> \o chain

(* the size left behind by a write that found no memory; the mutant keeps  *)
(* the old one                                                             *)
SizeAfterFailure_Kept(p) == node[p].size
SizeAfterFailure(p) == 0

VfsInit ==
    /\ HeapInit
    /\ chain = << >>
    /\ node = [p \in {} |-> Nothing]
    /\ mem = [p \in {} |-> Nothing]
    /\ vpc = "idle" /\ call = NoCall /\ boot = 0
    /\ rc = 0 /\ out = Nothing

(* kernel_main, just after Memory_init: a block nobody ever frees *)
BootAlloc ==
    /\ boot = 0 /\ vpc = "idle"
    /\ Memory_alloc(KernelBlock)
    /\ vpc' = "boot"
    /\ UNCHANGED <<chain, node, mem, call, boot, rc, out>>

(* the pointer is not looked at; ramfs_init calls vfs_init *)
vfs_init ==
    /\ vpc = "boot" /\ pc = "idle"
    /\ chain' = << >>
    /\ vpc' = "idle" /\ boot' = 1
    /\ UNCHANGED <<heapVars, node, mem, call, rc, out>>

(* the return value of the boot calls is ignored *)
BootProgress == boot' = IF boot < 3 THEN boot + 1 ELSE boot

vfs_create(name) ==
    /\ vpc = "idle"
    /\ Memory_alloc(NodeSize)
    /\ vpc' = "create"
    /\ call' = [NoCall EXCEPT !.name = name]
    /\ UNCHANGED <<chain, node, mem, boot, rc, out>>

(* the node is filled in and becomes the new root, or there is none *)
CreateEnd ==
    /\ vpc = "create" /\ pc = "idle"
    /\ IF ret = NULL
         THEN rc' = 0 /\ UNCHANGED <<chain, node>>
         ELSE /\ rc' = 1
              /\ chain' = PushFront(ret)
              /\ node' = [p \in DOMAIN node \cup {ret} |->
                             IF p = ret
                             THEN [name |-> Stored[call.name], size |-> 0, data |-> NULL]
                             ELSE node[p]]
    /\ vpc' = "idle" /\ call' = NoCall /\ out' = Nothing
    /\ BootProgress
    /\ UNCHANGED <<heapVars, mem>>

(* vfs_write up to its first call of the allocator: not found, or the old  *)
(* content is freed, or there is none to free                              *)
vfs_write(name, d, n) ==
    /\ vpc = "idle" /\ pc = "idle"
    /\ LET p == vfs_find(name)
       IN  IF p = NULL
             THEN /\ rc' = 0 /\ out' = Nothing
                  /\ BootProgress
                  /\ UNCHANGED <<heapVars, vpc, call>>
             ELSE /\ call' = [name |-> name, data |-> d, size |-> n, at |-> p]
                  /\ IF OldBlock(p) # NULL
                       THEN Memory_free(OldBlock(p)) /\ vpc' = "release"
                       ELSE Memory_alloc(n) /\ vpc' = "store"
                  /\ UNCHANGED <<boot, rc, out>>
    /\ UNCHANGED <<chain, node, mem>>

WriteAlloc ==
    /\ vpc = "release"
    /\ Memory_alloc(call.size)
    /\ vpc' = "store"
    /\ UNCHANGED <<chain, node, mem, call, boot, rc, out>>

(* node->data is what the allocator returned, the bytes are copied; or     *)
(* there is no block and the file is left empty                            *)
WriteEnd ==
    /\ vpc = "store" /\ pc = "idle"
    /\ LET p == call.at
       IN  IF ret = NULL
             THEN /\ node' = [node EXCEPT ![p].data = NULL,
                                        ![p].size = SizeAfterFailure(p)]
                  /\ mem' = [q \in DOMAIN mem \ {node[p].data} |-> mem[q]]
                  /\ rc' = 0
             ELSE /\ node' = [node EXCEPT ![p].data = ret, ![p].size = call.size]
                  /\ mem' = [q \in (DOMAIN mem \ {node[p].data}) \cup {ret} |->
                                IF q = ret THEN [src |-> call.data, len |-> call.size]
                                ELSE mem[q]]
                  /\ rc' = call.size
    /\ vpc' = "idle" /\ call' = NoCall /\ out' = Nothing
    /\ BootProgress
    /\ UNCHANGED <<heapVars, chain>>

(* how many bytes vfs_read delivers *)
Clamp(p, n) == IF n > node[p].size THEN node[p].size ELSE n

(* buffer: the caller's is not NULL                                        *)
vfs_read(name, buffer, n) ==
    /\ vpc = "idle" /\ pc = "idle"
    /\ LET p == vfs_find(name)
       IN  IF p = NULL \/ ~buffer
             THEN rc' = 0 /\ out' = Nothing
             ELSE IF node[p].data = NULL
             THEN rc' = 0 /\ out' = Nothing
             ELSE /\ rc' = Clamp(p, n)
                  /\ out' = IF Clamp(p, n) = 0 THEN Nothing
                            ELSE [src |-> mem[node[p].data].src, len |-> Clamp(p, n)]
    /\ UNCHANGED <<heapVars, chain, node, mem, vpc, call, boot>>

(* ramfs_init: one file, one write, before any other caller exists *)
ramfs_init ==
    \/ boot = 1 /\ vfs_create(Welcome)
    \/ boot = 2 /\ vfs_write(Welcome, BootData, BootSize)

Callers ==
    /\ boot = 3
    /\ \E n \in AllNames :
         \/ n \in Names /\ vfs_create(n)
         \/ \E k \in Sizes : \/ \E b \in BOOLEAN : vfs_read(n, b, k)
                            \/ \E d \in Data : vfs_write(n, d, k)

VfsStep == \/ BootAlloc \/ vfs_init \/ ramfs_init
           \/ CreateEnd \/ WriteAlloc \/ WriteEnd
           \/ HeapStep /\ UNCHANGED fsVars

VfsNext == VfsStep \/ Callers

VfsSpec == VfsInit /\ [][VfsNext]_vfsVars /\ WF_vfsVars(VfsStep)

----------------------------------------------------------------------------
(* Properties *)

VfsTypeOK ==
    /\ chain \in Seq(DOMAIN node)
    /\ DOMAIN node = Range(chain)
    /\ \A p \in DOMAIN node : /\ node[p].name \in AllNames
                              /\ node[p].size \in Nat /\ node[p].data \in Nat
    /\ vpc \in {"idle", "boot", "create", "release", "store"}
    /\ call.at # NULL => call.at \in DOMAIN node
    /\ boot \in 0 .. 3 /\ rc \in Nat
    /\ out.len \in Nat

DataOf == {node[p].data : p \in DOMAIN node} \ {NULL}

(* Between calls every block in use has exactly one owner: it is a node of *)
(* the chain, the content of exactly one node, or the block kernel_main    *)
(* took at boot; and every node and content is a block in use.  A block    *)
(* freed twice, freed and still pointed to, shared or leaked by any        *)
(* sequence of creations and writes, failing ones included, breaks this.   *)
Ownership ==
    /\ VfsTypeOK
    /\ vpc = "idle" /\ pc = "idle" /\ boot > 0 =>
          /\ DOMAIN node \cap DataOf = {}
          /\ DOMAIN node \cup DataOf \subseteq DOMAIN grant
          /\ \A p, q \in DOMAIN node :
                p # q /\ node[p].data # NULL => node[p].data # node[q].data
          /\ \A p \in DOMAIN grant \ (DOMAIN node \cup DataOf) :
                p = PayloadOf(heap_start) /\ grant[p] = KernelBlock

(* A file's recorded size never exceeds the block its content lies in, so  *)
(* the copy loop of a read stays inside the file.                          *)
SizesFit ==
    vpc = "idle" =>
        \A p \in DOMAIN node :
            node[p].size > 0 =>
                /\ node[p].data \in DOMAIN grant
                /\ node[p].size <= size[HeaderOf(node[p].data)]
                /\ mem[node[p].data].len = node[p].size

(* The refinement mapping: the content of a name is that of the first node *)
(* of that name.                                                           *)
ContentOf(n) ==
    LET p == vfs_find(n)
    IN  IF p = NULL THEN [src |-> "absent", len |-> 0]
        ELSE IF node[p].size = 0 THEN Nothing
        ELSE [src |-> mem[node[p].data].src, len |-> node[p].size]

Store == INSTANCE FileStore
         WITH files <- [n \in AllNames |-> ContentOf(n)],
              Data <- Data \cup {BootData},
              Sizes <- Sizes \cup {0, BootSize}

(* The file system implements the map from names to contents: a name reads *)
(* back what was last written under it, a failed creation changes nothing, *)
(* and a write no longer than the content it replaces cannot fail even     *)
(* when the heap is full, because the old block is freed first.  A read    *)
(* without a buffer is a read of nothing.                                  *)
ImplementsFileStore == Store!StoreSpec
=============================================================================
