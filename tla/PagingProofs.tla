----------------------------- MODULE PagingProofs -----------------------------
(***************************************************************************)
(* Proofs about physical frames, for any amount of memory and any number   *)
(* of directories and pages.                                               *)
(***************************************************************************)
EXTENDS Paging, FiniteSetTheorems, WellFoundedInduction, TLAPS

(* A pair is its two parts.                                                *)
LEMMA PairIs ==
    ASSUME NEW A, NEW B, NEW p \in A \X B
    PROVE  p = <<p[1], p[2]>> /\ p[1] \in A /\ p[2] \in B
OBVIOUS

USE PagingAssumption

(* used_frames is minus the number of free frames, in size_t arithmetic *)
CountOf(k) == IF k = 0 THEN 0 ELSE Word - k

(* nobody has a frame of the first megabyte *)
AboveStart == Mapped \cup held \subseteq StartFrame .. (TotalFrames - 1)

PagInv == /\ PagingTypeOK /\ FramesExclusive /\ BitmapExact /\ AboveStart
          /\ used_frames = CountOf(Cardinality(Unused))

----------------------------------------------------------------------------
(* size_t arithmetic *)

(* Minus k in size_t.                                                      *)
LEMMA WrapNeg ==
    ASSUME NEW k \in Nat, k < Word
    PROVE  (0 - k) % Word = CountOf(k)
<1>1. CASE k = 0
  BY <1>1 DEF CountOf
<1>2. CASE k # 0
  <2>1. PICK w \in Nat : w = Word
    OBVIOUS
  <2>2. 0 - k = w * (0 - 1) + (w - k) /\ w - k \in 0 .. (w - 1)
    BY <1>2, <2>1
  <2>3. (0 - k) % w = w - k
    BY <2>1, <2>2
  <2> QED
    BY <1>2, <2>1, <2>3 DEF CountOf
<1> QED
  BY <1>1, <1>2

(* used_frames-- and used_frames++ on a count that stands for minus k.     *)
LEMMA Steps ==
    ASSUME NEW k \in Nat, k < Word
    PROVE  /\ k + 1 < Word => Decrement(CountOf(k)) = CountOf(k + 1)
           /\ k > 0 => Increment(CountOf(k)) = CountOf(k - 1)
<1>1. ASSUME k + 1 < Word PROVE Decrement(CountOf(k)) = CountOf(k + 1)
  <2>1. CASE k = 0
    <3>1. (0 - 1) % Word = CountOf(1)
      BY <1>1, <2>1, WrapNeg
    <3> QED
      BY <2>1, <3>1 DEF Decrement, CountOf
  <2>2. CASE k # 0
    <3>1. Word - k - 1 \in 0 .. (Word - 1)
      BY <1>1, <2>2
    <3>2. (Word - k - 1) % Word = Word - k - 1
      BY <3>1
    <3> QED
      BY <2>2, <3>2 DEF Decrement, CountOf
  <2> QED
    BY <2>1, <2>2
<1>2. ASSUME k > 0 PROVE Increment(CountOf(k)) = CountOf(k - 1)
  <2>1. CASE k = 1
    <3>1. Word % Word = 0
      OBVIOUS
    <3> QED
      BY <2>1, <3>1 DEF Increment, CountOf
  <2>2. CASE k # 1
    <3>1. Word - k + 1 \in 0 .. (Word - 1)
      BY <1>2, <2>2
    <3>2. (Word - k + 1) % Word = Word - k + 1
      BY <3>1
    <3> QED
      BY <1>2, <2>2, <3>2 DEF Increment, CountOf
  <2> QED
    BY <2>1, <2>2
<1> QED
  BY <1>1, <1>2

----------------------------------------------------------------------------
(* The free frames *)

(* The number of clear bits is at most the number of frames.               *)
LEMMA UnusedSize ==
    ASSUME bitmap \subseteq Frames
    PROVE  /\ IsFiniteSet(Unused)
           /\ Cardinality(Unused) \in 0 .. TotalFrames
<1>1. IsFiniteSet(Frames) /\ Cardinality(Frames) = TotalFrames
  BY FS_Interval DEF Frames
<1>2. Unused \in SUBSET Frames
  BY DEF Unused
<1>3. IsFiniteSet(Unused) /\ Cardinality(Unused) <= Cardinality(Frames)
  BY <1>1, <1>2, FS_Subset
<1>4. Cardinality(Unused) \in Nat
  BY <1>3, FS_CardinalityType
<1> QED
  BY <1>1, <1>3, <1>4

(* A nonempty set of naturals has a least element. *)
LEMMA LeastNat ==
    ASSUME NEW S, S \subseteq Nat, S # {}
    PROVE  \E m \in S : \A k \in S : m <= k
<1>1. PICK m \in S : \A k \in S : ~(<<k, m>> \in OpToRel(<, Nat))
  BY WFMin, NatLessThanWellFounded
<1>2. \A k \in S : ~(k < m)
  BY <1>1 DEF OpToRel
<1> QED
  BY <1>2

(* What the search loop of paging_allocate_frame returns is free. *)
LEMMA FirstFreeIsFree ==
    ASSUME Unused # {}
    PROVE  FirstFree \in Unused
<1>1. Unused \subseteq Nat
  BY DEF Unused, Frames
<1>2. \E m \in Unused : \A k \in Unused : m <= k
  BY <1>1, LeastNat
<1> QED
  BY <1>2 DEF FirstFree

(* Taking a frame, and giving one back: the bitmap and the count agree. *)
LEMMA TakeFacts ==
    ASSUME PagInv, TakeFrame
    PROVE  /\ FirstFree \in Frames \ bitmap
           /\ bitmap' = bitmap \cup {FirstFree}
           /\ used_frames' = CountOf(Cardinality(Unused'))
<1>1. FirstFree \in Unused
  BY FirstFreeIsFree DEF TakeFrame
<1>2. Unused' = Unused \ {FirstFree}
  BY DEF TakeFrame, Marked, Unused
<1>3. /\ IsFiniteSet(Unused) /\ Cardinality(Unused) \in 0 .. TotalFrames
  BY UnusedSize DEF PagInv, PagingTypeOK
<1>4. Cardinality(Unused') = Cardinality(Unused) - 1
  BY <1>1, <1>2, <1>3, FS_RemoveElement
<1>5. Cardinality(Unused) > 0
  BY <1>1, <1>3, FS_EmptySet
<1>6. used_frames' = CountOf(Cardinality(Unused) - 1)
  BY <1>3, <1>5, Steps DEF TakeFrame, PagInv
<1> QED
  BY <1>1, <1>4, <1>6 DEF TakeFrame, Marked, Unused

(* Clearing a bit and used_frames-- agree.                                 *)
LEMMA GiveFacts ==
    ASSUME PagInv, NEW f \in bitmap,
           bitmap' = bitmap \ {f}, used_frames' = Decrement(used_frames)
    PROVE  used_frames' = CountOf(Cardinality(Unused'))
<1>1. f \in Frames /\ f \notin Unused
  BY DEF PagInv, PagingTypeOK, Unused
<1>2. Unused' = Unused \cup {f}
  BY <1>1 DEF Unused
<1>3. IsFiniteSet(Unused) /\ Cardinality(Unused) \in 0 .. TotalFrames
  BY UnusedSize DEF PagInv, PagingTypeOK
<1>4. Cardinality(Unused') = Cardinality(Unused) + 1
  BY <1>1, <1>2, <1>3, FS_AddElement
<1>5. Cardinality(Unused) + 1 < Word
  <2>1. CASE TotalFrames = 0
    BY <1>1, <2>1 DEF Frames
  <2>2. CASE TotalFrames > 0
    BY <1>3, <2>2
  <2> QED
    BY <2>1, <2>2
<1>6. Decrement(used_frames) = CountOf(Cardinality(Unused) + 1)
  BY <1>3, <1>5, Steps DEF PagInv
<1> QED
  BY <1>4, <1>6

(* The count is a value of size_t.                                         *)
LEMMA CountType ==
    ASSUME NEW k \in 0 .. TotalFrames
    PROVE  CountOf(k) \in 0 .. (Word - 1)
BY DEF CountOf

----------------------------------------------------------------------------
(* The invariant *)

(* A page is a pair of indices.                                            *)
LEMMA PageIs ==
    ASSUME NEW page \in Pages
    PROVE  page[2] \in Nat /\ page = <<page[1], page[2]>>
<1>1. page \in PdIndices \X PtIndices
  BY DEF Pages
<1>2. page = <<page[1], page[2]>> /\ page[2] \in PtIndices
  BY <1>1, PairIs
<1> QED
  BY <1>2

(* After paging_init the kernel's pages have a frame each, from            *)
(* StartFrame on.                                                          *)
LEMMA PagInvInit == PagingInit => PagInv
<1> SUFFICES ASSUME PagingInit PROVE PagInv
  OBVIOUS
<1> DEFINE Boot == {StartFrame + i : i \in 0 .. (KernelPages - 1)}
           First == StartFrame + KernelPages
<1>1. Boot = StartFrame .. (First - 1)
  <2>1. \A f : f \in Boot => f \in StartFrame .. (First - 1)
    OBVIOUS
  <2>2. ASSUME NEW f \in StartFrame .. (First - 1) PROVE f \in Boot
    <3>1. f - StartFrame \in 0 .. (KernelPages - 1) /\ f = StartFrame + (f - StartFrame)
      OBVIOUS
    <3> QED
      BY <3>1
  <2> QED
    BY <2>1, <2>2
<1> HIDE DEF Boot
<1>2. bitmap = 0 .. (First - 1) /\ Unused = First .. (TotalFrames - 1)
  <2>1. bitmap = (Frames \ FreedAtBoot) \cup Boot
    BY DEF PagingInit, Boot
  <2>2. \A f : f \in bitmap <=> f \in 0 .. (First - 1)
    BY <1>1, <2>1 DEF Frames, FreedAtBoot
  <2>3. bitmap = 0 .. (First - 1)
    BY <2>2
  <2>4. \A f : f \in Unused <=> f \in First .. (TotalFrames - 1)
    BY <2>3 DEF Frames, Unused
  <2> QED
    BY <2>3, <2>4
<1>3. used_frames = CountOf(Cardinality(Unused))
  <2>1. Cardinality(Unused) = TotalFrames - First
    <3>1. First \in Int /\ TotalFrames - 1 \in Int
      OBVIOUS
    <3>2. Cardinality(First .. (TotalFrames - 1))
            = IF First > TotalFrames - 1 THEN 0 ELSE TotalFrames - 1 - First + 1
      BY <3>1, FS_Interval
    <3> QED
      BY <1>2, <3>2
  <2>2. TotalFrames - First \in Nat /\ TotalFrames - First < Word
    OBVIOUS
  <2>3. (0 - (TotalFrames - First)) % Word = CountOf(TotalFrames - First)
    BY <2>2, WrapNeg
  <2>4. KernelPages - (TotalFrames - StartFrame) = 0 - (TotalFrames - First)
    OBVIOUS
  <2> QED
    BY <2>1, <2>3, <2>4 DEF PagingInit
<1>4. ASSUME NEW d \in Dirs, NEW page \in Pages
      PROVE  \/ entries[d][page] = NoFrame
             \/ /\ d = KernelDir /\ page = KernelPage(page[2])
                /\ page[2] \in 0 .. (KernelPages - 1)
                /\ entries[d][page] = StartFrame + page[2]
  <2>1. entries[d][page] = IF d = KernelDir /\ page[1] = 0 /\ page[2] < KernelPages
                           THEN StartFrame + page[2] ELSE NoFrame
    BY DEF PagingInit
  <2>2. page[2] \in Nat /\ page = <<page[1], page[2]>>
    BY PageIs
  <2>3. CASE d = KernelDir /\ page[1] = 0 /\ page[2] < KernelPages
    <3>1. page[2] \in 0 .. (KernelPages - 1) /\ page = <<0, page[2]>>
      BY <2>2, <2>3
    <3> QED
      BY <2>1, <2>3, <3>1 DEF KernelPage
  <2> QED
    BY <2>1, <2>3
<1>5. ASSUME NEW d \in Dirs, NEW page \in Pages
      PROVE  entries[d][page] \in Frames \cup {NoFrame}
  BY <1>4 DEF Frames
<1>6. PagingTypeOK
  <2>1. used_frames \in 0 .. (Word - 1)
    BY <1>2, <1>3, UnusedSize, CountType DEF Frames
  <2>2. bitmap \subseteq Frames
    BY <1>2 DEF Frames
  <2>3. entries \in [Dirs -> [Pages -> Frames \cup {NoFrame}]]
    <3>1. entries = [d \in Dirs |-> [page \in Pages |-> entries[d][page]]]
      BY DEF PagingInit
    <3> QED
      BY <1>5, <3>1
  <2>4. tables \in [Dirs -> SUBSET PdIndices] /\ dirs \subseteq Dirs
        /\ held \subseteq Frames /\ halted \in BOOLEAN
    BY DEF PagingInit
  <2> QED
    BY <2>1, <2>2, <2>3, <2>4 DEF PagingTypeOK
<1>7. FramesExclusive
  <2>1. held = {}
    BY DEF PagingInit
  <2>2. ASSUME NEW d1 \in Dirs, NEW d2 \in Dirs, NEW p1 \in Pages, NEW p2 \in Pages,
               entries[d1][p1] = entries[d2][p2], entries[d1][p1] # NoFrame
        PROVE  d1 = d2 /\ p1 = p2
    BY <1>4, <2>2 DEF KernelPage
  <2> QED
    BY <2>1, <2>2 DEF FramesExclusive
<1>8. BitmapExact
  <2>1. ASSUME NEW i \in 0 .. (KernelPages - 1)
        PROVE  /\ KernelPage(i) \in Pages
               /\ entries[KernelDir][KernelPage(i)] = StartFrame + i
               /\ StartFrame + i # NoFrame
    BY <2>1 DEF PagingInit, Pages, KernelPage, NoFrame
  <2>2. Boot \subseteq Mapped
    BY <2>1 DEF Mapped, Boot
  <2>3. Mapped \subseteq Boot
    BY <1>4 DEF Mapped, Boot
  <2>4. Mapped = StartFrame .. (First - 1) /\ held = {}
    BY <1>1, <2>2, <2>3 DEF PagingInit
  <2>5. \A f : f \in First .. (TotalFrames - 1)
               <=> f \in (StartFrame .. (TotalFrames - 1)) \ (StartFrame .. (First - 1))
    OBVIOUS
  <2> QED
    BY <1>2, <2>4, <2>5 DEF BitmapExact
<1>9. AboveStart
  <2>1. ASSUME NEW f \in Mapped PROVE f \in StartFrame .. (TotalFrames - 1)
    BY <1>4, <2>1 DEF Mapped
  <2> QED
    BY <2>1 DEF AboveStart, PagingInit
<1> QED
  BY <1>3, <1>6, <1>7, <1>8, <1>9 DEF PagInv

(* what a used frame is *)
LEMMA UsedIs ==
    ASSUME PagInv
    PROVE  /\ \A f \in Mapped \cup held : f \in bitmap /\ f \in Frames
           /\ \A f \in Frames \ bitmap : /\ f \notin Mapped /\ f \notin held
                                         /\ f \in StartFrame .. (TotalFrames - 1)
<1>1. Mapped \cup held \subseteq Frames
  BY DEF PagInv, AboveStart, Frames
<1>2. \A f \in Mapped \cup held : f \notin Unused
  BY DEF PagInv, BitmapExact
<1>3. \A f \in Frames \ bitmap : f \in Unused
  BY DEF Unused
<1>4. \A f \in Unused : /\ f \notin Mapped /\ f \notin held
                        /\ f \in StartFrame .. (TotalFrames - 1)
  BY DEF PagInv, BitmapExact
<1> QED
  BY <1>1, <1>2, <1>3, <1>4 DEF Unused

(* A step keeps BitmapExact and AboveStart when it takes or gives the      *)
(* frame in the bitmap and in the books alike.                             *)
LEMMA BooksTake ==
    ASSUME PagInv, NEW f \in Frames \ bitmap,
           bitmap' = bitmap \cup {f},
           Mapped' \cup held' = Mapped \cup held \cup {f}
    PROVE  BitmapExact' /\ AboveStart'
<1>1. f \in StartFrame .. (TotalFrames - 1)
  BY UsedIs
<1>2. Unused' = Unused \ {f}
  BY DEF Unused
<1> QED
  BY <1>1, <1>2 DEF PagInv, BitmapExact, AboveStart

(* Giving up a frame that backs one page, or has one holder, keeps the     *)
(* bitmap exact.                                                           *)
LEMMA BooksGive ==
    ASSUME PagInv, NEW f \in Mapped \cup held,
           bitmap' = bitmap \ {f},
           Mapped' \cup held' = (Mapped \cup held) \ {f}
    PROVE  BitmapExact' /\ AboveStart'
<1>1. f \in StartFrame .. (TotalFrames - 1) /\ f \in Frames
  BY DEF PagInv, AboveStart, Frames
<1>2. Unused' = Unused \cup {f}
  BY <1>1 DEF Unused
<1> QED
  BY <1>1, <1>2 DEF PagInv, BitmapExact, AboveStart

(* What changes no frame keeps the books.                                  *)
LEMMA BooksSame ==
    ASSUME PagInv, bitmap' = bitmap, used_frames' = used_frames,
           entries' = entries, held' = held
    PROVE  /\ BitmapExact' /\ AboveStart' /\ FramesExclusive'
           /\ used_frames' = CountOf(Cardinality(Unused'))
<1>1. Unused' = Unused /\ Mapped' = Mapped
  BY DEF Unused, Mapped
<1> QED
  BY <1>1 DEF PagInv, BitmapExact, AboveStart, FramesExclusive

(* Taking the first free frame keeps the invariant.                        *)
LEMMA AllocateKeeps == PagInv /\ paging_allocate_frame => PagInv'
<1> SUFFICES ASSUME PagInv, paging_allocate_frame PROVE PagInv'
  OBVIOUS
<1>1. UNCHANGED <<dirs, tables, entries>> /\ Mapped' = Mapped
  BY DEF paging_allocate_frame, Mapped
<1>2. CASE TakeFrame /\ held' = held \cup {FirstFree}
  <2>1. PICK f \in Frames \ bitmap :
           /\ bitmap' = bitmap \cup {f} /\ held' = held \cup {f}
           /\ used_frames' = CountOf(Cardinality(Unused'))
    BY <1>2, TakeFacts
  <2>2. BitmapExact' /\ AboveStart'
    BY <1>1, <2>1, BooksTake
  <2>3. FramesExclusive'
    BY <1>1, <2>1, UsedIs DEF PagInv, FramesExclusive
  <2>4. Increment(used_frames) \in 0 .. (Word - 1)
    BY DEF Increment, PagInv, PagingTypeOK
  <2>5. PagingTypeOK'
    BY <1>1, <1>2, <2>1, <2>4 DEF PagInv, PagingTypeOK, TakeFrame
  <2> QED
    BY <2>1, <2>2, <2>3, <2>5 DEF PagInv
<1>3. CASE Panic /\ UNCHANGED held
  <2>1. PagingTypeOK'
    BY <1>1, <1>3 DEF PagInv, PagingTypeOK, Panic
  <2> QED
    BY <1>1, <1>3, <2>1, BooksSame DEF PagInv, Panic
<1> QED
  BY <1>2, <1>3 DEF paging_allocate_frame

(* Freeing a held frame keeps the invariant.                               *)
LEMMA FreeKeeps == PagInv /\ (\E f \in held : paging_free_frame(f)) => PagInv'
<1> SUFFICES ASSUME PagInv, NEW f \in held, paging_free_frame(f) PROVE PagInv'
  OBVIOUS
<1>1. /\ UNCHANGED <<dirs, tables, entries, halted>> /\ Mapped' = Mapped
      /\ bitmap' = bitmap \ {f} /\ held' = held \ {f}
      /\ used_frames' = Decrement(used_frames)
  BY DEF paging_free_frame, Mapped
<1>2. f \in bitmap /\ f \notin Mapped
  BY UsedIs DEF PagInv, FramesExclusive
<1>3. used_frames' = CountOf(Cardinality(Unused'))
  BY <1>1, <1>2, GiveFacts
<1>4. BitmapExact' /\ AboveStart'
  BY <1>1, <1>2, BooksGive
<1>5. FramesExclusive'
  BY <1>1 DEF PagInv, FramesExclusive
<1>6. Decrement(used_frames) \in 0 .. (Word - 1)
  BY DEF Decrement, PagInv, PagingTypeOK
<1>7. PagingTypeOK'
  BY <1>1, <1>6 DEF PagInv, PagingTypeOK
<1> QED
  BY <1>3, <1>4, <1>5, <1>7 DEF PagInv

(* Mapping keeps the invariant, whether the table is new, the page was     *)
(* mapped before or memory is out.                                         *)
LEMMA MapKeeps ==
    ASSUME PagInv, NEW d \in dirs, NEW page \in Pages, paging_map_page(d, page)
    PROVE  PagInv'
<1>0. d \in Dirs
  BY DEF PagInv, PagingTypeOK
<1>1. /\ UNCHANGED <<dirs, held>>
      /\ tables' \in [Dirs -> SUBSET PdIndices]
  BY <1>0 DEF paging_map_page, PagInv, PagingTypeOK, Pages
<1>2. CASE UNCHANGED <<bitmap, used_frames, entries>> /\ halted' \in BOOLEAN
  <2>1. PagingTypeOK'
    BY <1>1, <1>2 DEF PagInv, PagingTypeOK
  <2> QED
    BY <1>1, <1>2, <2>1, BooksSame DEF PagInv
<1>3. CASE /\ ~Present(d, page) /\ TakeFrame
           /\ entries' = [entries EXCEPT ![d][page] = FirstFree]
  <2>1. PICK f \in Frames \ bitmap :
           /\ bitmap' = bitmap \cup {f}
           /\ entries' = [entries EXCEPT ![d][page] = f]
           /\ used_frames' = CountOf(Cardinality(Unused'))
    BY <1>3, TakeFacts
  <2>2. entries[d][page] = NoFrame /\ f # NoFrame
    BY <1>3 DEF Present, Frames, NoFrame
  <2>3. ASSUME NEW d1 \in Dirs, NEW p1 \in Pages
        PROVE  entries'[d1][p1] = IF d1 = d /\ p1 = page THEN f ELSE entries[d1][p1]
    BY <1>0, <2>1 DEF PagInv, PagingTypeOK
  <2>4. Mapped' = Mapped \cup {f}
    BY <1>0, <2>2, <2>3 DEF Mapped, NoFrame
  <2>5. BitmapExact' /\ AboveStart'
    BY <1>1, <2>1, <2>4, BooksTake
  <2>6. f \notin Mapped /\ f \notin held
    BY UsedIs
  <2>7. \A d1 \in Dirs, p1 \in Pages : entries[d1][p1] # f
    BY <2>2, <2>6 DEF Mapped
  <2>8. FramesExclusive'
    <3>1. Mapped' \cap held' = {}
      BY <1>1, <2>4, <2>6 DEF PagInv, FramesExclusive
    <3>2. ASSUME NEW d1 \in Dirs, NEW d2 \in Dirs, NEW p1 \in Pages, NEW p2 \in Pages,
                 entries'[d1][p1] = entries'[d2][p2], entries'[d1][p1] # NoFrame
          PROVE  d1 = d2 /\ p1 = p2
      BY <2>3, <2>7, <3>2 DEF PagInv, FramesExclusive
    <3> QED
      BY <3>1, <3>2 DEF FramesExclusive, NoFrame, Pages
  <2>9. PagingTypeOK'
    <3>1. entries' \in [Dirs -> [Pages -> Frames \cup {NoFrame}]]
      BY <2>1 DEF PagInv, PagingTypeOK
    <3>2. Increment(used_frames) \in 0 .. (Word - 1)
      BY DEF Increment, PagInv, PagingTypeOK
    <3> QED
      BY <1>1, <1>3, <2>1, <3>1, <3>2 DEF PagInv, PagingTypeOK, TakeFrame
  <2> QED
    BY <2>1, <2>5, <2>8, <2>9 DEF PagInv
<1> QED
  BY <1>2, <1>3 DEF paging_map_page, Panic, PagInv, PagingTypeOK

(* Unmapping keeps the invariant, whether or not anything was mapped       *)
(* there.                                                                  *)
LEMMA UnmapKeeps ==
    ASSUME PagInv, NEW d \in dirs, NEW page \in Pages, paging_unmap_page(d, page)
    PROVE  PagInv'
<1>0. d \in Dirs
  BY DEF PagInv, PagingTypeOK
<1>1. PICK f : f = entries[d][page]
  OBVIOUS
<1>2. /\ UNCHANGED <<dirs, tables, held, halted>>
      /\ bitmap' = bitmap \ {f}
      /\ used_frames' = Decrement(used_frames)
      /\ entries' = [entries EXCEPT ![d][page] = NoFrame]
      /\ f # NoFrame
  BY <1>1 DEF paging_unmap_page, Present
<1>3. f \in Mapped /\ f \in bitmap /\ f \notin held
  BY <1>0, <1>1, <1>2, UsedIs DEF Mapped, PagInv, FramesExclusive
<1>4. ASSUME NEW d1 \in Dirs, NEW p1 \in Pages
      PROVE  entries'[d1][p1] = IF d1 = d /\ p1 = page THEN NoFrame ELSE entries[d1][p1]
  BY <1>0, <1>2 DEF PagInv, PagingTypeOK
<1>5. \A d1 \in Dirs, p1 \in Pages : entries[d1][p1] = f => d1 = d /\ p1 = page
  BY <1>0, <1>1, <1>2 DEF PagInv, FramesExclusive
<1>6. Mapped' = Mapped \ {f}
  <2>1. ASSUME NEW g \in Mapped' PROVE g \in Mapped /\ g # f
    BY <1>1, <1>4, <1>5, <2>1 DEF Mapped, NoFrame
  <2>2. ASSUME NEW g \in Mapped, g # f PROVE g \in Mapped'
    BY <1>1, <1>4, <2>2 DEF Mapped, NoFrame
  <2> QED
    BY <2>1, <2>2
<1>7. used_frames' = CountOf(Cardinality(Unused'))
  BY <1>2, <1>3, GiveFacts
<1>8. BitmapExact' /\ AboveStart'
  BY <1>2, <1>3, <1>6, BooksGive
<1>9. FramesExclusive'
  <2>1. Mapped' \cap held' = {}
    BY <1>2, <1>6 DEF PagInv, FramesExclusive
  <2>2. ASSUME NEW d1 \in Dirs, NEW d2 \in Dirs, NEW p1 \in Pages, NEW p2 \in Pages,
               entries'[d1][p1] = entries'[d2][p2], entries'[d1][p1] # NoFrame
        PROVE  d1 = d2 /\ p1 = p2
    BY <1>4, <2>2 DEF PagInv, FramesExclusive
  <2> QED
    BY <2>1, <2>2 DEF FramesExclusive, NoFrame, Pages
<1>10. PagingTypeOK'
  <2>1. entries' \in [Dirs -> [Pages -> Frames \cup {NoFrame}]]
    BY <1>2 DEF PagInv, PagingTypeOK
  <2>2. Decrement(used_frames) \in 0 .. (Word - 1)
    BY DEF Decrement, PagInv, PagingTypeOK
  <2> QED
    BY <1>2, <2>1, <2>2 DEF PagInv, PagingTypeOK
<1> QED
  BY <1>7, <1>8, <1>9, <1>10 DEF PagInv

(* Every call keeps the invariant.                                         *)
LEMMA PagInvStep == PagInv /\ [PagingNext]_pagingVars => PagInv'
<1> SUFFICES ASSUME PagInv, [PagingNext]_pagingVars PROVE PagInv'
  OBVIOUS
<1>1. CASE UNCHANGED <<bitmap, used_frames, tables, entries, held, halted>>
           /\ dirs' \subseteq Dirs
  <2>1. PagingTypeOK'
    BY <1>1 DEF PagInv, PagingTypeOK
  <2> QED
    BY <1>1, <2>1, BooksSame DEF PagInv
<1>2. ASSUME NEW d \in Dirs, paging_create_directory(d) PROVE PagInv'
  BY <1>1, <1>2 DEF paging_create_directory, PagInv, PagingTypeOK
<1>3. CASE UNCHANGED pagingVars
  BY <1>1, <1>3 DEF pagingVars, PagInv, PagingTypeOK
<1>4. CASE Halted
  BY <1>3, <1>4 DEF Halted
<1> QED
  BY <1>2, <1>3, <1>4, AllocateKeeps, FreeKeeps, MapKeeps, UnmapKeeps DEF PagingNext

(* The inductive invariant of the frame allocator holds in every           *)
(* behaviour (paging.c).                                                   *)
THEOREM PagingInvariance == PagingSpec => []PagInv
<1> QED
  BY PagInvInit, PagInvStep, PTL DEF PagingSpec

(* The paging state keeps its shape; used_frames stays within size_t.      *)
THEOREM PagingTypeCorrect == PagingSpec => []PagingTypeOK
<1>1. PagInv => PagingTypeOK
  BY DEF PagInv
<1> QED
  BY <1>1, PagingInvariance, PTL

(* No frame backs two pages, whatever directories and calls there are.     *)
THEOREM PagingFramesExclusive == PagingSpec => []FramesExclusive
<1>1. PagInv => FramesExclusive
  BY DEF PagInv
<1> QED
  BY <1>1, PagingInvariance, PTL

(* The bitmap and the page tables always agree: no frame leaks.            *)
THEOREM PagingBitmapExact == PagingSpec => []BitmapExact
<1>1. PagInv => BitmapExact
  BY DEF PagInv
<1> QED
  BY <1>1, PagingInvariance, PTL

(* paging_get_free_frames says one whole memory too much, always.          *)
THEOREM PagingFreeCountOff == PagingSpec => []FreeCountOff
<1>1. ASSUME PagInv PROVE FreeCountOff
  <2>1. PICK k \in 0 .. TotalFrames : k = Cardinality(Unused)
    BY <1>1, UnusedSize DEF PagInv, PagingTypeOK
  <2>2. used_frames = CountOf(k)
    BY <1>1, <2>1 DEF PagInv
  <2>3. TotalFrames + k \in 0 .. (Word - 1)
    <3>1. CASE TotalFrames = 0
      BY <2>1, <3>1
    <3>2. CASE TotalFrames > 0
      BY <2>1, <3>2
    <3> QED
      BY <3>1, <3>2
  <2>4. (TotalFrames - used_frames) % Word = TotalFrames + k
    <3>1. CASE k = 0
      <4>1. used_frames = 0 /\ TotalFrames % Word = TotalFrames
        BY <2>2, <2>3, <3>1 DEF CountOf
      <4> QED
        BY <3>1, <4>1
    <3>2. CASE k # 0
      <4>1. PICK w \in Nat : w = Word
        OBVIOUS
      <4>2. TotalFrames - used_frames = w * (0 - 1) + (TotalFrames + k)
        BY <2>2, <3>2, <4>1 DEF CountOf
      <4> QED
        BY <2>3, <4>1, <4>2
    <3> QED
      BY <3>1, <3>2
  <2> QED
    BY <2>1, <2>4 DEF FreeCountOff, paging_get_free_frames
<1> QED
  BY <1>1, PagingInvariance, PTL
=============================================================================
