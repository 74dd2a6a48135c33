----------------------------- MODULE AppMemory -----------------------------
(***************************************************************************)
(* The memory of applications: the launch of kernel/app_runtime.c, the map   *)
(* and unmap calls and the pixel buffers of kernel/app_services.c, and the   *)
(* tasks and guarded kernel stacks of kernel/scheduler.c, over the heap and  *)
(* the address spaces.  Every call is one kernel operation.                  *)
(***************************************************************************)
EXTENDS Paging, FiniteSets

CONSTANTS
  Processes,
  Machines,                         \* [bytes, launches]: the size of the heap, and as a
                                    \* bound how many processes are launched in all
  TASK,                             \* sizeof(Task)
  STACK_SIZE,                       \* of a kernel stack
  IMAGE_PAGES,                      \* pages of the ELF image, from PAGING_USER_BASE on
  APP_USER_STACK_SIZE,              \* in pages
  APP_MEMORY_ARENA_BASE, APP_MEMORY_ARENA_LIMIT,
  APP_MEMORY_RECORD_CAPACITY, APP_MEMORY_RECORDS_PER_PROCESS,
  APP_MEMORY_MAP_MAX,               \* in bytes
  APP_MEMORY_PROCESS_MAX,           \* in pages
  ByteCounts,                       \* bound: the sizes asked for
  PIXELS                            \* bytes of a window's pixels

VARIABLES
  heap,
  tasks,        \* the tasks by process: [at, stack, guard, space, dead]
  g_memory,     \* the memory records in use
  pixels,       \* the pixel buffer of a process's window
  guarded,      \* the kernel pages that are not present
  launches      \* how many processes may still be launched

vars == <<heap, tasks, g_memory, pixels, guarded, launches>>

Init ==
  /\ \E machine \in Machines :
       /\ heap = heap_init(SYSTEM_RESERVED_LOW_MEMORY_BYTES, machine.bytes)
       /\ launches = machine.launches
  /\ tasks = <<>>
  /\ g_memory = {}
  /\ pixels = <<>>
  /\ guarded = {}

Without(f, domain) == [x \in DOMAIN f \ domain |-> f[x]]
Live == {p \in DOMAIN tasks : ~tasks[p].dead}
Memory(p) == [heap |-> heap, space |-> tasks[p].space]

----------------------------------------------------------------------------
(* Launch *)

APP_USER_STACK_START == PAGING_USER_LIMIT - 1 - APP_USER_STACK_SIZE

\* The image page by page, then the user stack; the page above it stays unmapped.
map_and_load_image(m) ==
  LET Load(done, page) ==
        IF done.ok THEN paging_user_map_anonymous(done.m, page, 1) ELSE done
      Stack(image) ==
        IF ~image.ok THEN image
        ELSE paging_user_map_anonymous(image.m, APP_USER_STACK_START, APP_USER_STACK_SIZE)
  IN  Stack(FoldLeft(Load, [m |-> m, ok |-> TRUE],
                     [i \in 1 .. IMAGE_PAGES |-> PAGING_USER_BASE + i - 1]))

STACK_ALLOCATION_SIZE == STACK_SIZE + 2 * PAGE_SIZE

\* The operations on kernel memory take and return k = [heap, guarded], some with more.
\* The stack with a page below it that faults, inside one block; raw is NULL when there
\* is no memory, or the page cannot be taken away.
allocate_guarded_kernel_stack(k) ==
  LET None(h) == [heap |-> h, guarded |-> k.guarded, raw |-> NULL, guard |-> NULL]
      Guarded(raw, guard, marked) ==
        IF guard + PAGE_SIZE + STACK_SIZE > raw.ptr + STACK_ALLOCATION_SIZE \/ ~marked.ok
        THEN None(kfree(raw.heap, raw.ptr))
        ELSE [heap |-> raw.heap, guarded |-> marked.guarded, raw |-> raw.ptr, guard |-> guard]
      Placed(raw, guard) ==
        IF raw.ptr = NULL THEN None(k.heap)
        ELSE Guarded(raw, guard, paging_kernel_guard_page(k.guarded, guard))
      Aligned(raw) == Placed(raw, AlignUp(raw.ptr))
  IN  Aligned(kmalloc(k.heap, STACK_ALLOCATION_SIZE))

\* Mutant: a stack is given back with its page still not present.
ReleaseKeepsGuard(k, raw, guard) ==
  [heap |-> kfree(k.heap, raw), guarded |-> k.guarded]

\* A block whose page cannot be made present again is kept for good.
release_kernel_stack(k, raw, guard) ==
  LET Unguarded(unmarked) ==
        IF ~unmarked.ok THEN k
        ELSE [heap |-> kfree(k.heap, raw), guarded |-> unmarked.guarded]
  IN  Unguarded(paging_kernel_unguard_page(k.guarded, guard))

NoTask(k) ==
  [heap |-> k.heap, guarded |-> k.guarded, at |-> NULL, stack |-> NULL, guard |-> NULL]

\* Mutant: without a task id the stack is freed with its guard.
SpawnKeepsGuard(k, numbered) ==
  LET Freed(at, left) == NoTask([left EXCEPT !.heap = kfree(@, at)])
      Numbered(at, stack) ==
        IF stack.raw = NULL THEN Freed(at, stack)
        ELSE IF ~numbered THEN Freed(at, [stack EXCEPT !.heap = kfree(@, stack.raw)])
        ELSE [heap |-> stack.heap, guarded |-> stack.guarded, at |-> at,
              stack |-> stack.raw, guard |-> stack.guard]
      Stacked(task) ==
        IF task.ptr = NULL THEN NoTask(k)
        ELSE Numbered(task.ptr, allocate_guarded_kernel_stack([k EXCEPT !.heap = task.heap]))
  IN  Stacked(kmalloc(k.heap, TASK))

\* A task for a process; at is NULL when there is no memory for it, no guarded stack or
\* no task id.
scheduler_spawn_user_process(k, numbered) ==
  LET Freed(at, left) == NoTask([left EXCEPT !.heap = kfree(@, at)])
      Numbered(at, stack) ==
        IF stack.raw = NULL THEN Freed(at, stack)
        ELSE IF ~numbered THEN Freed(at, release_kernel_stack(stack, stack.raw, stack.guard))
        ELSE [heap |-> stack.heap, guarded |-> stack.guarded, at |-> at,
              stack |-> stack.raw, guard |-> stack.guard]
      Stacked(task) ==
        IF task.ptr = NULL THEN NoTask(k)
        ELSE Numbered(task.ptr, allocate_guarded_kernel_stack([k EXCEPT !.heap = task.heap]))
  IN  Stacked(kmalloc(k.heap, TASK))

\* app_runtime_spawn_with_argument; tracked: the process table takes the process;
\* numbered: there is a task id left.
app_runtime_spawn(p, tracked, numbered) ==
  LET Failed(k) == heap' = k.heap /\ guarded' = k.guarded /\ UNCHANGED <<tasks, launches>>
      Early(h) == Failed([heap |-> h, guarded |-> guarded])
      Destroyed(h, space) == paging_address_space_destroy([heap |-> h, space |-> space])
      Started(space, spawned) ==
        IF spawned.at = NULL
        THEN Failed([spawned EXCEPT !.heap = Destroyed(@, space)])
        ELSE /\ heap' = spawned.heap
             /\ tasks' = (p :> [at |-> spawned.at, stack |-> spawned.stack,
                                guard |-> spawned.guard, space |-> space,
                                dead |-> FALSE]) @@ tasks
             /\ guarded' = spawned.guarded
             /\ launches' = launches - 1
      Spawned(loaded) ==
        IF ~loaded.ok \/ ~tracked THEN Early(Destroyed(loaded.m.heap, loaded.m.space))
        ELSE Started(loaded.m.space,
                     scheduler_spawn_user_process([heap |-> loaded.m.heap, guarded |-> guarded],
                                                  numbered))
      Loaded(created) ==
        IF created.space.at = NULL THEN Early(created.heap)
        ELSE Spawned(map_and_load_image(created))
  IN  /\ p \notin DOMAIN tasks /\ launches > 0
      /\ Loaded(paging_address_space_create(heap))
      /\ UNCHANGED <<g_memory, pixels>>

----------------------------------------------------------------------------
(* Memory services *)

\* In pages; 0 for a size that is refused.
round_up_page(bytes) ==
  IF bytes = 0 \/ bytes > APP_MEMORY_MAP_MAX THEN 0
  ELSE (bytes + PAGE_SIZE - 1) \div PAGE_SIZE

RecordsOf(p) == {r \in g_memory : r.process_id = p}

memory_record_pages(p) == FoldFunctionOnSet(+, 0, [r \in g_memory |-> r.size], RecordsOf(p))

\* Whether there is a record for as many pages more.
allocate_memory_record(p, size) ==
  /\ Cardinality(RecordsOf(p)) < APP_MEMORY_RECORDS_PER_PROCESS
  /\ memory_record_pages(p) + size <= APP_MEMORY_PROCESS_MAX
  /\ Cardinality(g_memory) < APP_MEMORY_RECORD_CAPACITY

\* Where the first run of unmapped pages that is long enough begins; none or one.
find_memory_range(space, size) ==
  LET starts == {a \in APP_MEMORY_ARENA_BASE .. APP_MEMORY_ARENA_LIMIT - size :
                   \A page \in a .. a + size - 1 : ~paging_user_range_mapped(space, page, 1)}
  IN  {a \in starts : \A other \in starts : a <= other}

\* Mutant: the pages mapped before the failure stay.
MapPagesKeeps(m, first, count) ==
  LET Step(done, page) == IF done.ok THEN paging_user_map_anonymous(done.m, page, 1) ELSE done
  IN  FoldLeft(Step, [m |-> m, ok |-> TRUE], [i \in 1 .. count |-> first + i - 1])

\* The loop of dispatch_memory_map with its own way back.
MapPages(m, first, count) ==
  LET Kept(new, page) ==
        IF new.ok THEN new
        ELSE [m |-> paging_user_unmap_anonymous(new.m, first, page - first), ok |-> FALSE]
      Step(done, page) ==
        IF done.ok THEN Kept(paging_user_map_anonymous(done.m, page, 1), page) ELSE done
  IN  FoldLeft(Step, [m |-> m, ok |-> TRUE], [i \in 1 .. count |-> first + i - 1])

dispatch_memory_map(p, bytes) ==
  LET size == round_up_page(bytes)
      Keep(address, mapped) ==
        /\ heap' = mapped.m.heap
        /\ tasks' = [tasks EXCEPT ![p].space = mapped.m.space]
        /\ g_memory' = IF ~mapped.ok THEN g_memory
                       ELSE g_memory \cup {[process_id |-> p, address |-> address, size |-> size,
                                            address_space |-> tasks[p].space.at]}
  IN  /\ p \in Live
      /\ size # 0 /\ allocate_memory_record(p, size)
      /\ \E address \in find_memory_range(tasks[p].space, size) :
           Keep(address, MapPages(Memory(p), address, size))
      /\ UNCHANGED <<pixels, guarded, launches>>

\* Only a range that was mapped as it is asked for.
dispatch_memory_unmap(p, address, bytes) ==
  /\ p \in Live
  /\ \E r \in RecordsOf(p) :
       LET unmapped == paging_user_unmap_anonymous(Memory(p), r.address, r.size)
       IN  /\ r.address = address /\ r.size = round_up_page(bytes)
           /\ r.address_space = tasks[p].space.at
           /\ heap' = unmapped.heap
           /\ tasks' = [tasks EXCEPT ![p].space = unmapped.space]
           /\ g_memory' = g_memory \ {r}
  /\ UNCHANGED <<pixels, guarded, launches>>

\* The pixels of a window: all that windows mean to memory.
dispatch_window_create(p) ==
  LET new == kmalloc(heap, PIXELS)
  IN  /\ p \in Live \ DOMAIN pixels /\ new.ptr # NULL
      /\ heap' = new.heap
      /\ pixels' = (p :> new.ptr) @@ pixels
      /\ UNCHANGED <<tasks, g_memory, guarded, launches>>

close_window(p) ==
  /\ p \in Live \cap DOMAIN pixels
  /\ heap' = kfree(heap, pixels[p])
  /\ pixels' = Without(pixels, {p})
  /\ UNCHANGED <<tasks, g_memory, guarded, launches>>

----------------------------------------------------------------------------
(* The end of a process *)

\* The memory records' part of app_services_release_process.
Released(m, records) ==
  FoldLeft(LAMBDA n, r : paging_user_unmap_anonymous(n, r.address, r.size), m, SetToSeq(records))

\* A process exits, faults or is terminated: its services go, its task is dead.
app_services_release_process(p) ==
  LET closed == IF p \in DOMAIN pixels THEN kfree(heap, pixels[p]) ELSE heap
      released == Released([heap |-> closed, space |-> tasks[p].space], RecordsOf(p))
  IN  /\ p \in Live
      /\ heap' = released.heap
      /\ tasks' = [tasks EXCEPT ![p].space = released.space, ![p].dead = TRUE]
      /\ g_memory' = g_memory \ RecordsOf(p)
      /\ pixels' = Without(pixels, {p})
      /\ UNCHANGED <<guarded, launches>>

\* destroy_task: the stack, the address space, the task.
Destroyed(k, p) ==
  LET Spaced(released) ==
        [released EXCEPT !.heap =
           kfree(paging_address_space_destroy([heap |-> @, space |-> tasks[p].space]),
                 tasks[p].at)]
  IN  Spaced(release_kernel_stack(k, tasks[p].stack, tasks[p].guard))

\* All dead tasks but the current one; 0 stands for a kernel task.
reap_dead_tasks(current) ==
  LET dead == (DOMAIN tasks \ Live) \ {current}
      left == FoldLeft(Destroyed, [heap |-> heap, guarded |-> guarded], SetToSeq(dead))
  IN  /\ dead # {}
      /\ heap' = left.heap
      /\ guarded' = left.guarded
      /\ tasks' = Without(tasks, dead)
      /\ UNCHANGED <<g_memory, pixels, launches>>

Next ==
  \/ \E p \in Processes :
       \/ \E tracked, numbered \in BOOLEAN : app_runtime_spawn(p, tracked, numbered)
       \/ \E bytes \in ByteCounts : dispatch_memory_map(p, bytes)
       \/ \E address \in APP_MEMORY_ARENA_BASE .. APP_MEMORY_ARENA_LIMIT - 1,
             bytes \in ByteCounts : dispatch_memory_unmap(p, address, bytes)
       \/ dispatch_window_create(p)
       \/ close_window(p)
       \/ app_services_release_process(p)
  \/ \E current \in Processes \cup {0} : reap_dead_tasks(current)

Spec == Init /\ [][Next]_vars

----------------------------------------------------------------------------
(* Properties *)

\* The blocks somebody will free: tasks, their stacks, spaces, pages and the records
\* of pages, and pixels.
Owned ==
  LET OfTask(t) == <<t.at, t.stack, t.space.at>>
                     \o [i \in DOMAIN t.space.allocations |-> t.space.allocations[i].raw]
                     \o [i \in DOMAIN t.space.allocations |-> t.space.allocations[i].at]
      order == SetToSeq(DOMAIN tasks)
      windows == SetToSeq(DOMAIN pixels)
  IN  FlattenSeq([i \in DOMAIN order |-> OfTask(tasks[order[i]])])
        \o [i \in DOMAIN windows |-> pixels[windows[i]]]

\* However allocations and frees follow each other, and whichever of the many
\* allocations of a launch or a map fails, heap.c keeps its arena whole and every
\* block it handed out has exactly one owner: nothing leaks, nothing is freed twice.
HeapIsWhole ==
  /\ Tiled(heap)
  /\ ToSet(Owned) = Payloads(heap)
  /\ IsInjective(Owned)

PagesOf(r) == r.address .. r.address + r.size - 1

\* What a process has mapped is its image, its stack and the pages of its memory
\* records, which lie apart; each has a frame of its own in the list of its space,
\* and that list holds nothing else but the page tables.  So a map that fails half
\* way leaves no page behind, and the release of a process finds all of them.
MappingsMatchRecords ==
  \A p \in DOMAIN tasks :
    LET space == tasks[p].space
        fixed == PAGING_USER_BASE .. PAGING_USER_BASE + IMAGE_PAGES - 1
                   \cup (APP_USER_STACK_START .. PAGING_USER_LIMIT - 2)
        frames == [i \in DOMAIN space.allocations |-> space.allocations[i].page]
        tables == {space.tables[k] : k \in DOMAIN space.tables} \cup {space.pml4}
        leaves == {space.leaves[a] : a \in DOMAIN space.leaves}
    IN  /\ DOMAIN space.leaves = fixed \cup UNION {PagesOf(r) : r \in RecordsOf(p)}
        /\ \A r, q \in RecordsOf(p) : r # q => PagesOf(r) \cap PagesOf(q) = {}
        /\ IsInjective(frames)
        /\ ToSet(frames) = tables \cup leaves /\ tables \cap leaves = {}
        /\ Cardinality(leaves) = Cardinality(DOMAIN space.leaves)

\* The kernel pages that fault are the guards of the tasks there are, each with the
\* stack above it inside the stack block of its task: whichever step of a spawn fails
\* after the page was taken away, and whatever is reaped, no page of free memory, of a
\* block header or of anybody's data faults, and no stack is without its guard
\* (allocate_guarded_kernel_stack, release_kernel_stack).
GuardsAreInStacks ==
  /\ guarded = {tasks[p].guard : p \in DOMAIN tasks}
  /\ \A p \in DOMAIN tasks : \E b \in ToSet(heap.blocks) :
       LET first == b.at + HEADER
       IN  /\ ~b.is_free /\ first = tasks[p].stack
           /\ first <= tasks[p].guard
           /\ tasks[p].guard + PAGE_SIZE + STACK_SIZE <= first + b.size
=============================================================================
