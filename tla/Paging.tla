------------------------------- MODULE Paging -------------------------------
(***************************************************************************)
(* Application address spaces, kernel/paging.c: every page table and every   *)
(* frame of a space is a heap block in its list of allocations.  User        *)
(* addresses are page numbers; protection bits are left out, and so are the  *)
(* kernel's own mappings, which no user address reaches, but for the pages   *)
(* of the heap that are taken away to guard a stack.                         *)
(*                                                                         *)
(* The operations on a space take and return m = [heap, space].              *)
(***************************************************************************)
EXTENDS Heap

CONSTANTS
  PAGE_SIZE,
  SPAN,               \* entries of a page table, 512 in the code
  ALLOCATION,         \* sizeof(struct paging_allocation)
  ADDRESS_SPACE,      \* sizeof(struct paging_address_space)
  PAGING_USER_BASE, PAGING_USER_LIMIT,
  SYSTEM_RESERVED_LOW_MEMORY_BYTES,     \* where the heap begins
  KERNEL_HEAP_MAX_BYTES                 \* how much of it has page tables of its own

ASSUME PagingAssumption ==
  /\ PAGE_SIZE \in Nat \ {0} /\ SPAN \in Nat \ {0}
  /\ ALLOCATION \in Nat \ {0} /\ ADDRESS_SPACE \in Nat \ {0}
  /\ PAGING_USER_BASE \in Nat \ {0} /\ PAGING_USER_LIMIT \in Nat
  /\ SYSTEM_RESERVED_LOW_MEMORY_BYTES \in Nat \ {0} /\ KERNEL_HEAP_MAX_BYTES \in Nat

\* allocations: newest first; tables: the frame of the table at each level (3: the
\* page directory pointers, 1: the page tables) for each prefix of an address;
\* leaves: the frame of each mapped page.
EmptySpace == [at |-> NULL, pml4 |-> NULL, allocations |-> <<>>,
               tables |-> <<>>, leaves |-> <<>>]

AlignUp(address) == ((address + PAGE_SIZE - 1) \div PAGE_SIZE) * PAGE_SIZE

\* Whether a kernel page has an entry that can be cleared and set.  The pages of the
\* kernel's first huge page have entries too; no stack of a task lies there.
kernel_guard_page_entry(page) ==
  /\ page % PAGE_SIZE = 0
  /\ page - SYSTEM_RESERVED_LOW_MEMORY_BYTES \in 0 .. KERNEL_HEAP_MAX_BYTES - 1

\* guarded is the set of kernel pages that are not present.
paging_kernel_guard_page(guarded, page) ==
  IF kernel_guard_page_entry(page) THEN [guarded |-> guarded \cup {page}, ok |-> TRUE]
  ELSE [guarded |-> guarded, ok |-> FALSE]
paging_kernel_unguard_page(guarded, page) ==
  IF kernel_guard_page_entry(page) THEN [guarded |-> guarded \ {page}, ok |-> TRUE]
  ELSE [guarded |-> guarded, ok |-> FALSE]

\* A page in a block enters the list with its record.
OwnedPage(m, raw, record, page) ==
  [m |-> [heap |-> record.heap,
          space |-> [m.space EXCEPT !.allocations =
            <<[raw |-> raw.ptr, at |-> record.ptr, page |-> page]>> \o @]],
   page |-> page]

\* Mutant: the raw block is not given back when its record cannot be had.
OwnedPageLeaks(m) ==
  LET Recorded(raw, record) ==
        IF record.ptr = NULL THEN [m |-> [m EXCEPT !.heap = raw.heap], page |-> NULL]
        ELSE OwnedPage(m, raw, record, AlignUp(raw.ptr))
      Take(raw) ==
        IF raw.ptr = NULL THEN [m |-> m, page |-> NULL]
        ELSE Recorded(raw, kmalloc(raw.heap, ALLOCATION))
  IN  Take(kmalloc(m.heap, 2 * PAGE_SIZE))

\* Twice a page is taken, so that a whole aligned page lies inside.
allocate_owned_page(m) ==
  LET Recorded(raw, record) ==
        IF record.ptr = NULL
        THEN [m |-> [m EXCEPT !.heap = kfree(raw.heap, raw.ptr)], page |-> NULL]
        ELSE OwnedPage(m, raw, record, AlignUp(raw.ptr))
      Take(raw) ==
        IF raw.ptr = NULL THEN [m |-> m, page |-> NULL]
        ELSE Recorded(raw, kmalloc(raw.heap, ALLOCATION))
  IN  Take(kmalloc(m.heap, 2 * PAGE_SIZE))

user_range_valid(first, count) ==
  PAGING_USER_BASE <= first /\ first + count <= PAGING_USER_LIMIT

\* Every allocation of a space, the newest first, and the space itself.
paging_address_space_destroy(m) ==
  FreeAll(m.heap,
          FlattenSeq([i \in DOMAIN m.space.allocations |->
                        <<m.space.allocations[i].raw, m.space.allocations[i].at>>])
            \o <<m.space.at>>)

\* space.at is NULL when there is not enough memory.
paging_address_space_create(heap) ==
  LET Rooted(at, pml4) ==
        IF pml4.page = NULL THEN [heap |-> kfree(pml4.m.heap, at), space |-> EmptySpace]
        ELSE [pml4.m EXCEPT !.space.pml4 = pml4.page]
      Create(new) ==
        IF new.ptr = NULL THEN [heap |-> heap, space |-> EmptySpace]
        ELSE Rooted(new.ptr,
                    allocate_owned_page([heap |-> new.heap,
                                         space |-> [EmptySpace EXCEPT !.at = new.ptr]]))
  IN  Create(kmalloc(heap, ADDRESS_SPACE))

\* The table of a level and a prefix, made when it is missing.
ensure_owned_table(m, level, prefix) ==
  LET key == <<level, prefix>>
      Enter(new) == IF new.page = NULL THEN new
                    ELSE [new EXCEPT !.m.space.tables = (key :> new.page) @@ @]
  IN  IF key \in DOMAIN m.space.tables THEN [m |-> m, page |-> m.space.tables[key]]
      ELSE Enter(allocate_owned_page(m))

\* A page that is mapped is never replaced.  Tables made on the way to a page that
\* then cannot be had are kept.
map_fresh_user_page(m, page) ==
  LET Descend(table, level) ==
        IF table.page = NULL THEN table
        ELSE ensure_owned_table(table.m, level, page \div SPAN^level)
      Enter(frame) ==
        IF frame.page = NULL THEN [m |-> frame.m, ok |-> FALSE]
        ELSE [m |-> [frame.m EXCEPT !.space.leaves = (page :> frame.page) @@ @], ok |-> TRUE]
      Leaf(pt) ==
        IF pt.page = NULL \/ page \in DOMAIN pt.m.space.leaves THEN [m |-> pt.m, ok |-> FALSE]
        ELSE Enter(allocate_owned_page(pt.m))
  IN  IF ~user_range_valid(page, 1) THEN [m |-> m, ok |-> FALSE]
      ELSE Leaf(FoldLeft(Descend, [m |-> m, page |-> m.space.pml4], <<3, 2, 1>>))

\* The places of the allocation of a frame in the list, none or one.
find_owned_allocation(space, frame) ==
  {i \in DOMAIN space.allocations : space.allocations[i].page = frame}

\* One page of an unmap: the entry is cleared, the allocation unlinked and freed.
UnmapPage(m, page) ==
  LET i == CHOOSE i \in find_owned_allocation(m.space, m.space.leaves[page]) : TRUE
      allocation == m.space.allocations[i]
  IN  [heap |-> FreeAll(m.heap, <<allocation.raw, allocation.at>>),
       space |-> [m.space EXCEPT !.allocations = RemoveAt(@, i),
                                 !.leaves = [p \in DOMAIN @ \ {page} |-> @[p]]]]

\* The whole request is validated before anything changes.
paging_user_unmap_anonymous(m, first, count) ==
  LET pages == [i \in 1 .. count |-> first + i - 1]
      valid == /\ count # 0 /\ user_range_valid(first, count)
               /\ \A i \in DOMAIN pages :
                    /\ pages[i] \in DOMAIN m.space.leaves
                    /\ find_owned_allocation(m.space, m.space.leaves[pages[i]]) # {}
  IN  IF valid THEN FoldLeft(UnmapPage, m, pages) ELSE m

\* Pages mapped one by one; a failure takes back those of this call.
paging_user_map_anonymous(m, first, count) ==
  LET Kept(new, page) ==
        IF new.ok THEN new
        ELSE [m |-> paging_user_unmap_anonymous(new.m, first, page - first), ok |-> FALSE]
      Step(done, page) ==
        IF done.ok THEN Kept(map_fresh_user_page(done.m, page), page) ELSE done
  IN  IF count = 0 \/ ~user_range_valid(first, count) THEN [m |-> m, ok |-> FALSE]
      ELSE FoldLeft(Step, [m |-> m, ok |-> TRUE], [i \in 1 .. count |-> first + i - 1])

paging_user_range_mapped(space, first, count) ==
  \A page \in first .. first + count - 1 :
    user_range_valid(page, 1) /\ page \in DOMAIN space.leaves
=============================================================================
