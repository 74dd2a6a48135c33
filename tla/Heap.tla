-------------------------------- MODULE Heap --------------------------------
(***************************************************************************)
(* The kernel heap, kernel/heap.c: one list of blocks in address order,      *)
(* first fit, split on allocation, merged on free.  A heap is a value; its   *)
(* operations return the next one.                                           *)
(***************************************************************************)
EXTENDS Integers, Sequences, SequencesExt

CONSTANTS
  GRAIN,      \* 16 in the code: every size and address is a multiple of it
  HEADER,     \* sizeof(struct heap_block)
  SIZE_MAX

ASSUME HeapAssumption ==
  /\ GRAIN \in Nat \ {0} /\ HEADER \in Nat \ {0} /\ HEADER % GRAIN = 0
  /\ SIZE_MAX \in Nat

NULL == 0

\* The list is a sequence of blocks; `at` is the address of a block's header.
NoHeap == [blocks |-> <<>>, used |-> 0, start |-> 0, end |-> 0]

heap_init(start_addr, size_bytes) ==
  LET adjustment == (GRAIN - (start_addr % GRAIN)) % GRAIN
      start == start_addr + adjustment
      size == size_bytes - adjustment
  IN  IF size < HEADER THEN NoHeap
      ELSE [blocks |-> <<[at |-> start, size |-> size - HEADER, is_free |-> TRUE]>>,
            used |-> 0, start |-> start, end |-> start + size]

AlignedSize(size) == ((size + GRAIN - 1) \div GRAIN) * GRAIN

\* What is left of a free block is split off when a header and a grain fit in it.
Taken(block, size) ==
  IF block.size < size + HEADER + GRAIN THEN <<[block EXCEPT !.is_free = FALSE]>>
  ELSE <<[block EXCEPT !.size = size, !.is_free = FALSE],
         [at |-> block.at + HEADER + size, size |-> block.size - size - HEADER,
          is_free |-> TRUE]>>

\* ptr is NULL when there is no block that fits.
kmalloc(heap, size) ==
  LET Replace(i, taken) ==
        [heap |-> [heap EXCEPT !.blocks = SubSeq(@, 1, i - 1) \o taken
                                            \o SubSeq(@, i + 1, Len(@)),
                               !.used = @ + taken[1].size],
         ptr |-> heap.blocks[i].at + HEADER]
      Take(i) == Replace(i, Taken(heap.blocks[i], AlignedSize(size)))
      FirstOf(fits) ==
        IF fits = {} THEN [heap |-> heap, ptr |-> NULL]
        ELSE Take(CHOOSE i \in fits : \A j \in fits : i <= j)
  IN  IF size = 0 \/ size > SIZE_MAX - (GRAIN - 1) THEN [heap |-> heap, ptr |-> NULL]
      ELSE FirstOf({i \in DOMAIN heap.blocks :
                      heap.blocks[i].is_free /\ heap.blocks[i].size >= AlignedSize(size)})

\* The test of the merge pass.
Merges(block, next) == block.is_free /\ next.is_free

\* The pass over the whole list: a free block takes in the free ones after it, the
\* merge with the next block that kfree begins with included.
MergePass(blocks) ==
  LET merged[i \in DOMAIN blocks] ==
        IF i = 1 THEN <<blocks[1]>>
        ELSE LET before == merged[i - 1]
             IN  IF Merges(Last(before), blocks[i])
                 THEN [before EXCEPT ![Len(before)].size = @ + HEADER + blocks[i].size]
                 ELSE Append(before, blocks[i])
  IN  merged[Len(blocks)]

\* Anything but the payload of an allocated block is refused.
kfree(heap, ptr) ==
  LET found == {i \in DOMAIN heap.blocks :
                  heap.blocks[i].at + HEADER = ptr /\ ~heap.blocks[i].is_free}
      i == CHOOSE i \in found : TRUE
      size == heap.blocks[i].size
  IN  IF ptr \notin heap.start + HEADER .. heap.end - 1 \/ ptr % GRAIN # 0 \/ found = {}
      THEN heap
      ELSE [heap EXCEPT !.used = IF size <= @ THEN @ - size ELSE 0,
                        !.blocks = MergePass([@ EXCEPT ![i].is_free = TRUE])]

\* The blocks ptr of a sequence, freed one after the other.
FreeAll(heap, ptrs) == FoldLeft(kfree, heap, ptrs)

----------------------------------------------------------------------------
(* What a sound heap is *)

Payloads(heap) == {b.at + HEADER : b \in {b \in ToSet(heap.blocks) : ~b.is_free}}

\* The blocks cover the arena without a gap or an overlap, no two free ones are left
\* side by side, and `used` counts what is handed out.
Tiled(heap) ==
  LET n == Len(heap.blocks)
      End(i) == heap.blocks[i].at + HEADER + heap.blocks[i].size
  IN  /\ heap.blocks[1].at = heap.start
      /\ End(n) = heap.end
      /\ \A i \in 1 .. n - 1 :
           /\ End(i) = heap.blocks[i + 1].at
           /\ ~Merges(heap.blocks[i], heap.blocks[i + 1])
      /\ heap.used = FoldLeft(LAMBDA sum, b : sum + (IF b.is_free THEN 0 ELSE b.size),
                              0, heap.blocks)
=============================================================================
