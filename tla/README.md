# TLA+ specifications of NostaluxOS

NostaluxOS is a small x86-64 operating system: one processor, cooperative kernel
tasks, preemptible ring-3 applications, a two-slot persistent volume on an ATA
disk, and an IPv4 stack over one network card with one TCP connection at a time.  This directory
holds models of its stateful parts, the TLC runs that check them on small
instances, and proofs that TLAPS checks for every value of the constants.

Run a model with `tlc -config X.cfg M`, check the proofs with `tlapm M.tla`.
`PROJECT.json` lists the runs, maps every definition to the lines it models and
lists the hazards each property is there for.

## Inventory

| Component | State it keeps | Operations | Interacts with | What makes it correct |
|---|---|---|---|---|
| Volume, `fs.c` | `FILES`, active slot, generation, loaded version, backend status | mount, format, self test, touch, write, append, rename, remove, legacy upgrade | `ata_init/read/write`; called by shell, desktop, app services, catalog | a commit is all or nothing across power loss; what is called persistent is what the next boot finds; rejected media are not written |
| ATA, `ata.c` | none beyond the disk | identify, read, write with result COMPLETE, FAILED or UNCERTAIN | the volume | reports uncertainty instead of guessing |
| Scheduler, `scheduler.c` | circular task list, current task, next id, stack canaries | spawn, schedule, reap, terminate, exit, fault, tick, bootstrap | process table, paging, app services, timer interrupt | nothing freed is in use; every task runs on its own context; no starvation |
| Process table, `app_process.c` | 16 records, count, next id | track, mark starting/running/exited, record fault, release, snapshot | scheduler, launch, shell | legal life cycle, complete history, bounded |
| Launch, `app_runtime.c` | none | validate, map, track, spawn, dispatch with a budget | all of the above | a failed launch leaves nothing; the outcome reported is the real one |
| TCP client, `tcp_client.c` | connection state, sequence numbers, one pending segment, operation and its clock | connect, send, wait for close, close, service, receive | `network.c` drives it, `net.c` delivers segments by callback | exact streams, no early success, every operation ends |
| App services, `app_services.c` | file handles, memory records, windows, focus, input queues | open/read/write/store/close, map/unmap, create/present/close, poll, release of a process | scheduler, paging, volume, keyboard, mouse | handles belong to their process; release leaves nothing; focus always names a window |
| App network services, `app_network_services.c` | one request, its owner, pending cleanup | start, poll, read, cancel, close, release | `network.c` | the backend request is never leaked nor reused under a stale handle |
| Network layer, `network.c` | busy flag, active TCP client, HTTP request phases | init, poll, DHCP, DNS, ping, HTTP start/poll/cancel/close | `net.c`, `tcp_client.c`, `http_client.c`, `rtl8139.c` | one operation at a time; cancellation and redirects replace the connection cleanly |
| Stack, `net.c` | ARP table and one parked packet, DHCP lease, DNS query and cache | input, ticks, send | driver, network layer | late and foreign answers are ignored; leases and cache entries expire |
| HTTP, `http_client.c` | parser of one response | head, fixed length, chunked, until close, redirects | network layer | progress reports never contradict the final parse |
| RTL8139, PCI, IRQ registry | receive ring, four transmit slots, interrupt mask, handler lists | init, interrupt, poll, send | stack | no lost wakeup after the rearm |
| Heap, paging | block list; address spaces and their allocations | allocate, free; map, unmap, copy; guard pages | everything | blocks tile the heap and have one owner; user mappings are owned by their space |
| Catalog, ELF, manifests | list of installed packages | install, quarantine, reclaim, validate | volume, launch | a rejected package never runs |
| Keyboard, mouse, log | rings shared with interrupt handlers | push, pop, snapshot | desktop, app services | nothing torn, bounded loss |
| Shell, desktop, drawing, applications | user interface | | all | not modelled |

The hard behaviours are: power loss and uncertain writes (volume), preemption
and task death in the middle of switching (scheduler), loss, duplication,
reordering and clocks (TCP and the stack), callbacks and cancellation (network
layer), interrupt handlers against foreground code (drivers and rings).

## Modules

| Module | Models |
|---|---|
| `FsExtents` | the record format: encoder, both decoders, as declarative definitions |
| `FsCodec`, `MCFsCodec` | the same as the loops the C code runs, and a machine that damages tables |
| `FsVolume` | mount, commit, mutations, format, self test, upgrade, power loss |
| `FsAtomic`, `FsVolumeRefinement` | the promise of the volume, and the mapping onto it |
| `MCFsVolume` | the disks the small instances are switched on with |
| `FsExtentsProofs`, `FsVolumeProofs`, `SchedulerProofs`, `TcpClientProofs`, `AppWindowsProofs`, `AppNetworkProofs`, `NetStackProofs`, `Rtl8139Proofs` | lemmas and theorems, see Proofs |
| `AppProcessTable` | the process table as operations on a value |
| `Scheduler` | tasks, launch, user tasks, ticks, faults, FPU state, services ownership |
| `Heap`, `Paging` | the block list and the address spaces, as operations on values |
| `AppMemory`, `MCAppMemory` | launches, memory calls, windows' pixels, deaths and reaping over the two |
| `AppWindows` | windows, focus, pointer gestures, input queues and the key ring |
| `TcpClient` | the connection, its peer, the network and the clock |
| `NetStack`, `MCNetStack` | ARP, DHCP, the resolver and its cache, echo; a small network |
| `NetworkService` | `network.c`: the HTTP request driver and the blocking operations |
| `AppNetwork` | `app_network_services.c` over `NetworkService`: processes, shell, link, clock |
| `HttpMessage`, `HttpUrl`, `MCHttp` | the response parser, redirect targets, and what feeds them |
| `MCDecoders` | `FsCodec` and the HTTP decoders as one machine |
| `Rtl8139` | the driver against the card, a register access at a time |

`Heap` is used by `Paging`, `Paging` by `AppMemory`; `NetworkService` by
`AppNetwork`; `AppProcessTable` by `Scheduler`; `FsExtents` by everything on the
volume.  `NetworkService` sees the stack and the connection only through what they
may report, `TcpClient` and `NetStack` have how.

### The volume

`header` and `table` are the two slots on the disk; `FILES`, `g_active_slot`,
`g_active_generation`, `g_loaded_version`, `g_backend_status`,
`g_legacy_upgrade_status` and `g_self_test_active` are the statics of `fs.c`.
`call` is where the call in progress stands: each `ata_write` is a step of its
own (`WriteTable`, `WriteHeader`), so `Crash` can fall between any two and can
leave a prefix of the table or a torn header behind.  Everything else a call does
happens with the step that leads to it; file system calls do not overlap,
because kernel tasks are cooperative and system calls run with interrupts off.
`require_verified_readback`, the read-back after an uncertain write and its own
failure, and the three results of a sync are as in `fs_sync_to_disk_verified`;
`ReturnTo...` is what each caller does with the result.

Reads at mount may fail per header, per table and in the comparison of tables.
A checksum is idealised as the table it was computed from, so collisions are
outside the model.  Names are model values; a file is at most a few bytes, with
two bytes per record, so that files of one and two records and boundary sizes
occur.

### Tasks and processes

`s` is the scheduler's heap: the ring from `g_head` on, the task structures, the
address spaces, `cr3`, the interrupt stack and the tasks with a broken canary.
A kernel task runs until it calls `schedule`, so each kernel operation is one
step.  The bootstrap of a user task runs with interrupts on and is two steps.
System calls and faults are one step.  `services` holds the processes that own
anything in `app_services.c`; what they own is left to a later module.
A process id stands for the address space made for it.  An FPU image is known by
the task that computed it: what is in the registers, and what each task saved.  A
processor without FXSAVE, on which the code traps every FPU instruction, is not
modelled.  Guard pages and the blocks below all this are in `AppMemory`.

### The TCP client

`client` is `struct tcp_client`; SYN, FIN and bytes are units of a sequence so
that what is delivered can be compared with what was given.  The peer and the
network are external: any segment the peer may have sent can arrive at any time
and again, cut differently each time, the peer may stop answering, `send_ipv4`
may refuse, and `now` may stand still or run backward.  Segments with a wrong
address, port, checksum or header only change statistics and are left out.  One
connection's segments do not reach the next one: the source port differs.

### Windows, focus and input

`svc` is the static state of `app_services.c` that concerns windows, together
with the key ring of `keyboard.c`; `alive` says which processes run.  The service
functions (`focus_window`, `CloseWindows`, `publish_pointer_event`, ...) are
functions from a value of `svc` to the next one, as they call each other, and the
actions are the calls that reach them: the system calls of an application, the
launch grant, the release of a process, the desktop's calls, and IRQ 1.  A system
call runs with interrupts off and a kernel task is not preempted, so each is one
step.  `close_window` discards the ring before it assigns the focus: a key that
arrives between the two instructions counts as typed for the new owner.
`CloseWindows` closes a set of windows at once; closing them one by one gives the
same state, because the focus is handed on until it reaches the frontmost window
that stays.

Positions, sizes, titles and pixels are left out.  A snapshot of the mouse says
which windows lie under the pointer and which part of its target it is on, and may
say anything; a snapshot the desktop withholds because its own chrome is under the
pointer is one that is not routed.  An event in a queue is known by its type, a
key by the window that had the keyboard when it was pressed.  File handles take
their numbers from the same counter and are left to a later module; the counter
here runs out early instead.  A launch in the model has the effect it has on
`app_services.c` only; `Scheduler` and `AppMemory` have the rest.

### The memory of applications

`Heap` is `heap.c` block by block: first fit, the split, the merge pass.  `Paging`
keeps of a space its list of allocations, its tables by prefix and its leaves; each
table and each frame costs two allocations, either of which may fail, and
`paging_user_map_anonymous` and `dispatch_memory_map` each take back what they
mapped.  `AppMemory` composes them with the launch, the memory calls, the window's
pixels, the death and the reaping of a task; its heap is as small as makes each
allocation fail in some behaviour.  Sizes are in small units (a grain of 2, a page
of 4, tables of 4 entries); a process takes 150 of them, a page 16, its table 16.
Protection bits and the contents of pages are left out.  The page tables that a
failed map created stay with the space, as in the code, and are not mappings.  A
process id is used again only when nothing of its process is left.  The comment in
`heap.c` puts the block header at 32 bytes, the structure is larger; the model only
needs a multiple of the grain.

### The network stack

`stack` is `struct net_stack`; times are kept as the time since an event or until
one.  `net_input` may deliver any frame at any time; `net_tick` is the only action
that lets time pass.  What the code does and the model shows: each
refused transmission restarts the wait of a parked packet, so frames that keep
arriving can postpone its end; in `REQUESTING` the client never falls back to `DISCOVERING` by itself; an
acknowledgment of zero seconds is refused after the lease time was overwritten, so
that the lease ends at the next tick; `net_dns_clear_result` leaves a parked datagram.

The configuration is address, netmask, gateway and resolver, as in the code, and an
offer or acknowledgment may carry any of them.  A netmask is known by what it does:
`Subnet[mask][ip]` is the network the mask puts an address in, and `LastAddress` the
broadcast address of a network; a mask outside the domain of `Subnet` is one that
`ipv4_netmask_is_valid` refuses and an address outside `Ips` one that
`ipv4_is_usable_unicast` refuses.  So an acknowledgment that changes only the mask moves a
destination from the link to the gateway or back, or makes it a broadcast, and with it the
next hop of a packet that waits for ARP; `network_changed` is the comparison of
`net_configure_ipv4` that drops this packet.

### Requests of applications

`net` holds the statics of `network.c`, `g_request` and `g_next_handle` those of
`app_network_services.c`.  Each function of `NetworkService` yields the set of states
it may leave, because the stack, the peer and the parser below may report anything
they can report; errors pass through the code's own tables (`network_map_tcp_error`,
`network_map_http_error`, `app_request_error`).  The blocking operations of the shell
poll the network themselves and let no other task run, so while `op` is set only
`Poll`, the link and the clock move.  `CloseMayFail` is a backend that cannot close
yet; the present one always can, but the code is written for it
(`retry_pending_cleanup`).  Status and read change nothing and appear as operators
that `OwnerSeesItsRequest` speaks about.

### The decoders

`HttpMessage` works on a sequence of bytes in which a whole status line, header
field or size digit is one byte, since what the parser tells apart is what kind of
line it is and where it ends; the loops, limits and in-place compaction are the
code's.  `HttpUrl` works on characters.  `MCHttp` delivers a response piece by piece,
after zero or one informational response, spells a location character by character,
and holds the reference definitions.  `MCDecoders` runs this and `FsCodec` side by
side.

### The network card

The foreground of `Rtl8139` is one of `rtl8139_poll`, `rtl8139_receive` and
`rtl8139_send` with a program counter between register accesses; the card and the
handler act in between, except inside `irq_save`.  The card is external: it writes
frames into the ring, owns descriptors in turn and raises causes; a frame is known by its length and by the
address of its header.  A frame that comes
before the interrupt is attached has its cause cleared and waits for the next poll,
and a receiver that cannot be restarted leaves the mask as it was with the device
not ready; `ArmedMeansWoken` speaks of the time after the first call and of a device
that is ready.  Of PCI and the interrupt registry only the attachment appears.

## Runs

| Run | States | What it shows |
|---|---|---|
| `decoders` | 250,000 | Tables: for every small file array with up to two damaged fields the loops agree with the declarative codec (`LoopsAgree`), and what is written reads back, what is accepted can be written again (`RoundTrip`). HTTP: progress never exceeds or outruns the final body (`ProgressIsHonest`), in-place decoding yields the chunks (`ChunksComeOutWhole`), an acceptable response fits the buffer `network.c` sizes for it, in the part of the headers, in the part of framing and trailers and as a whole (`AllowanceSuffices`), the order of fields does not matter (`FieldOrderIsIrrelevant`), redirects lead where RFC 3986 says (`RedirectsResolve`). |
| `fs_volume` | 171,000 | Types, `PersistentMeansDurable`, `ActiveSlotWins`, `FilesAreSound`, the action properties `RolledBackIsNotDurable`, `RejectedMediaPreserved`, and `FsVolume` implements `FsAtomic` (`ImplementsAtomicSnapshot`). |
| `scheduler` | 64,000 | Nothing freed is used, every task on its own page tables, stack and FPU state, tasks and processes and service owners match, the history is complete and forgets the oldest, and the two liveness properties. |
| `sched_budget` | | Violated: see the findings. |
| `tcp_client` | 328,000 | Exact streams, no early success and no guessed end of stream, termination. |
| `app_windows` | 158,000 | No static names a closed window or a dead process and a drag ends with its gesture (`NothingDangles`); keys are read by the window they were typed for (`KeysBelongToFocus`); close requests survive (`CloseRequestKept`); the focus moves only for the reasons the code states (`NoFocusStealing`). |
| `gesture_stale` | | Violated: see the findings. |
| `app_network` | 865,000 | The busy flag and the resolver have one owner (`BusyHasOneOwner`); input has a live buffer and the heap holds nothing else (`InputHasALiveBuffer`); the backend's request is always reachable (`BackendIsNeverOrphaned`); what the application is told is true (`OwnerSeesItsRequest`); requests end (`EveryRequestEnds`). |
| `net_stack` | 188,000 | An address is used only under a lease that runs, and a parked packet carries it, goes by the next hop of the present address, netmask and gateway and is not a broadcast (`AddressIsHeld`); cached addresses are those of the present resolver and a query is answered with an address of its own name (`AnswersAreCurrent`; `MaxAnswers`, two records in an answer section, is an alias and its address or two addresses); every query ends (`EveryQueryEnds`). |
| `dns_cancel` | | Violated: see the findings. |
| `rtl8139` | 2,330,000 | Ring offsets and descriptors stay in step with the card (`DmaIsInStep`); no wakeup is lost (`ArmedMeansWoken`). |
| `app_memory` | 66,000 | The heap is tiled and every block has exactly one owner (`HeapIsWhole`); mappings are exactly image, stack and records (`MappingsMatchRecords`); the kernel pages that are not present are exactly the guards of the tasks, each inside the stack block of its task, also after a launch that failed with the guard set (`GuardsAreInStacks`). |

**Bounds.**  Volume: 3 records, 2 bytes each, files below 4 bytes, a generation
of 4 values, starting one below the wrap, so every wrap and the ambiguous
distance of half the range occur within a few commits; the initial disks are a
current pair about to wrap, a blank pair, sixteen pairs the mount must order,
repair or reject, and legacy pairs of unknown order.  Calls use one ordinary, one
managed and one reserved name and a payload of two records, which fills the
table.  Scheduler: a
process table of 2, 3 process ids and 4 task ids, so that slots are reused and
both ids run out, a quantum of 2 ticks, a budget of 1, two kernel tasks.  TCP: 16
sequence numbers with both streams placed so that they wrap, 3 bytes each way
against a buffer of 2, segments of at most 2 bytes, 1 retransmission, a timeout of
3 clock readings, a stall limit of 2.  Windows: two slots, two processes that may
each have two windows, two handles and four z-orders, so that slots are reused and
both counters run out, queues and a key ring of one entry, both buttons.  Requests:
two processes, a name and a literal address, one redirect, one segment of request
data, one tick of timeout, two handles of each kind so that both counters wrap, three
heap blocks.  Stack: two leasable addresses, two resolvers that disagree, an alias
and a loop of aliases, a wide and a narrow netmask that put the resolver on the link or
behind the gateway, one entry in each cache, leases of at most 3 ticks with times
for renewal in and out of order, two attempts of everything.  Card: a ring of 32
bytes with frames of two lengths, so that it wraps at two offsets and fills, and two
descriptors.  Memory: thirteen heap sizes from one that just misses a process to two
processes with maps, three launches in all (two on the three largest), maps of one and two
pages.  The heap (`kernel.c`) and the part of it with page tables (`paging.c`) are equal in
the build; the largest heap here is larger, so that `paging_kernel_guard_page` refuses a
stack and the launch is undone.  The branch where `paging_kernel_unguard_page` fails and
the stack's block is kept is in `release_kernel_stack` and cannot be reached: it looks at
the entry that the guarding has accepted.  Decoders: 3 records of 2 bytes; a header limit of 16 bytes, chunk lines of 2,
trailers of 5, framing of 13, one informational response, bodies of up to 17 bytes
after the plain head, up to 6 more for the end of a chunked one (`MaxEnd`), so that framing and
trailers together meet and would exceed their part of the buffer, and 3 after others; locations of 4 characters on bases of 2,
URLs of 9: small enough that responses and locations meet and exceed the limits.

**Fairness.**  Scheduler: weak fairness of `Progress`, the steps the machine goes
on taking by itself; the timer keeps ticking, the bootstrap continues, and the
shell, the desktop and the dispatch loop keep reaching `schedule()`
(`shell_idle`, `desktop_yield` and the loop of `app_runtime.c` do so on each
round).  Nothing is assumed of ring 3.  TCP: weak fairness of
`tcp_client_service`, which its owner calls on every poll; nothing is assumed of
the peer, the network or the clock.  Requests: weak fairness of `Poll` and of the
clock; the idle loops of shell and desktop and the loops of the blocking operations
call `network_poll`, and the timer interrupt counts.  Stack: weak fairness of a tick
that lets time pass, for the same reason.  Nothing is assumed of peers, servers or the
link.

**Deadlock** is checked except in `decoders`, which stops when its input is complete,
and in `app_memory`, which stops when its launches are used up.

## Findings

`app_runtime_run_catalog_id_with_argument` (`kernel/app_runtime.c:289`) looks at
the process before each `schedule()` and not after the last.  An application that
ends during the last one is reported as "remains runnable after dispatch budget"
and the shell says it "is still running in the background".  `sched_budget`
gives the interleaving.

`app_services.h:71` promises that a pointer gesture is active "from an app-owned
button press through its matching release".  When the last window closes with the
button held, the gesture is left for the next routed snapshot to end; if the
button is released and a new window is created before that, the new window records
the released buttons itself (`app_services.c:887`), and the gesture stays active
with both buttons up until the pointer moves.  A press before that is swallowed.
`gesture_stale` gives the steps.

`net_dns_cancel` takes back the datagram that waits for ARP, "so cancellation cannot
transmit it later" (`net.c:1593`), and recognises it by the resolver of the present
configuration (`net.c:1588`).  A renewal that changes only the resolver keeps the
waiting packet (`net.c:2118`); a cancellation after it does not find the packet, which
is transmitted when ARP answers.  `dns_cancel` gives the steps.

## Proofs

Each theorem holds for every value of the constants that the named assumptions admit;
TLC evaluates the assumptions in the runs.  Each inductive invariant was first checked
by TLC on the run's instance.

| Module | Theorem | States | Assumes |
|---|---|---|---|
| `FsVolumeProofs` | `TypeCorrect` | `[]TypeOK` | `ExtentsAssumption`, `VolumeAssumption` |
| | `ActiveSlotAlwaysWins` | `[]ActiveSlotWins` | |
| | `FilesAlwaysSound` | `[]FilesAreSound` | |
| | `PersistentIsDurable` | `[]PersistentMeansDurable` | |
| | `RejectedMediaArePreserved`, `RollbackIsNotDurable` | `RejectedMediaPreserved`, `RolledBackIsNotDurable` | |
| | `VolumeIsAtomic` | `ImplementsAtomicSnapshot`: `FsVolume` implements `FsAtomic` | the same and `LegacyPairsIntact` |
| `FsExtentsProofs` | `WrittenIsReadBack`, `AcceptedIsRewritable` | the encoder and the decoders on every array and table | `ExtentsAssumption` |
| `SchedulerProofs` | `NothingFreedIsEverUsed` | `[]NothingFreedIsUsed` | `SchedulerAssumption`, `ProcessTableAssumption` |
| | `ContextIsAlwaysOwn` | `[]ContextIsOwn` | |
| | `TasksAlwaysMatchProcesses` | `[]TasksMatchProcesses` | |
| | `HistoryIsAlwaysComplete` | `HistoryIsComplete` | |
| `TcpClientProofs` | `StreamsAreAlwaysExact` | `[]StreamsAreExact` | `TcpAssumption` |
| | `SuccessAlwaysMeansDelivered` | `[]SuccessMeansDelivered` | |
| `AppWindowsProofs` | `NoStaleReference` | `[]NothingDangles` | `AppWindowsAssumption` |
| | `KeysNeverChangeHands` | `[]KeysBelongToFocus` | |
| | `CloseRequestsSurvive`, `FocusIsNotStolen` | `CloseRequestKept`, `NoFocusStealing` | |
| `AppNetworkProofs` | `OneOwner` | `[]BusyHasOneOwner` | `NetworkAssumption`, `AppNetworkAssumption` |
| | `BuffersAreLive` | `[]InputHasALiveBuffer` | |
| | `NoOrphan` | `[]BackendIsNeverOrphaned` | |
| | `OwnerIsToldTheTruth` | `[]OwnerSeesItsRequest` | |
| `NetStackProofs` | `AddressIsAlwaysHeld` | `[]AddressIsHeld` | `LeaseAssumption`, `RecordsAssumption`, `AddressAssumption` |
| | `AnswersAreAlwaysCurrent` | `[]AnswersAreCurrent` | |
| `Rtl8139Proofs` | `NoWakeupIsLost` | `[]ArmedMeansWoken` | `RingAssumption` |
| | `DriverAndCardAgree` | `[]DmaIsInStep` | |

None of the invariants is inductive by itself.  What is added, and how the arguments go:

*Codec.*  The lemmas of `FsExtentsProofs` are about the declarative definitions: where the
extents of the files begin, that they follow each other without a gap, that a record
lies in one extent only, and that the head of an extent tells its length.  From them
`WrittenIsReadBack`: what `fs_serialize` wrote is read back by `fs_deserialize_current`,
file by file and in order; and `AcceptedIsRewritable`: what either decoder accepts
is `IsRewritable`.  That the loops of the C code compute these definitions is
`LoopsAgree`, which stays with TLC.

*Volume.*  The invariant is a conjunction, `VolumeInv`, built up part by part.

* `TypeInv` adds to `TypeOK` the shape of a call in progress (which caller can be at
  which step).
* `SlotInv` adds that a call that is committing on behalf of a mutation or of the self test
  found the active slot winning and has touched only the other one, that between the
  two writes the target's header is still the old one, and what a format may rely on; a
  mount that loads a volume as trusted establishes it, whichever slot it chose, and
  the header write of a commit preserves it because the new generation is newer than
  the active one in the wrapped order.
* `SoundInv` says of each step of each caller which of the log, the artifacts of the self
  test and the copy kept for a rollback the files in memory may hold, and that all of
  them fit.  The self test needs that its scratch names are not among the seeds or
  equal to the log's (`VolumeAssumption`).
* `DurInv` says what the disk holds meanwhile: on which disk a commit is begun, that the
  slot it does not write still loads, and that this slot decodes to the files in memory
  between calls and to the copy kept for a rollback during a mutation.  It rests on
  `WrittenIsReadBack`.
* `LegacyInv`, for the refinement only: as long as both headers are unprotected the slot
  tried first is as `LegacyPairsIntact` admits it, and an upgrade is under way only on a
  volume whose active slot is tried first or whose other slot can never load.

What a boot makes of a disk is stated on explicit headers and tables (`First`, `Loads`,
`FilesIn`, `Healthy`, `Snapshot`), with a lemma for a healthy disk, a blank one,
each outcome of the header write (`HeaderOutcomes`) and each cut (`CrashOutcomes`).
For the refinement every action is shown to be a step of `FsAtomic`: the header write is
`Commit` or `GiveUp`, a power loss is `Crash`, everything else is `Work` or nothing.
`LegacyPairsIntact` is needed because the explicit upgrade of an old volume writes the
other slot, record by record, and if that slot was damaged a cut write can make its old
checksum true again by chance.  The prover found this case; the instance of TLC has no
such disk.

*Scheduler.*  Everything the scheduler does is a function of its state, and one lemma
per function shows that it keeps `Sound`: the ring holds each task once, the current
task and the address spaces are among what is allocated, and the registers are where
the program counter of each task says.  To match tasks and processes one needs more
(`Matched`, `Ahead`): the ids of both counters are ahead of everything in use until
they run out, so that a fresh id cannot name a task that still waits to be reaped.
The process table enters only through the phase in which it holds an id.  For the
listing of processes (`HistoryIsAlwaysComplete`) two things are added: `g_process_count` is
the number of slots in use (`Counted`), and the id found after an id of rank r has rank
r + 1 (`NextByRank`), so that the snapshot, which finds each entry from the one before
it, holds the ids in their order and all of them.  That only the oldest finished process
is forgotten is proved action by action (`OnlyTheOldestIsForgotten`).

*TCP.*  Everything is counted from the initial sequence numbers: the pending segment and
every segment on the wire is a stretch of what was submitted (`Stretch`), the pending
one ends it, and `receive_next` is the number of units taken.  Two stretches with one
sequence number are the same because numbers do not repeat within a connection's
streams, which `TcpAssumption` bounds by half the sequence space.  The rest
relates the state of the connection to how far each stream has come (`StageOK`,
`ReceivedOK`).

*Windows.*  The service functions are functions of the statics, with one lemma each.
`Sound` adds to the two invariants that handles and depths are unique and below
their counters, that the pointer's target is a window whose button is held, and
that queues are within their capacity; closing a set of windows needs that
some open window is frontmost, which rests on the well-foundedness of the natural
numbers.  The two action properties are proved action by action from it.

*Requests.*  `RequestOK` is what holds of the one request on its own, phase by phase;
`Shared` says who owns the flag, the resolver, the registered client and the heap.
Both hold between any two calls inside `network.c`, so they are proved function by
function, over the set of states each function may leave.  `Asked` (a request that
resolves has asked) holds only between polls.

*Stack.*  All functions but those of the DHCP client leave the configuration and the client alone
(`Frame`).  For the client one needs that an offer which is asked for names an address, or
an acknowledgment could configure the empty one, and that `tick_dhcp` is the last to
look at the clock in a tick: the lease may be over between `Pass` and `tick_dhcp`,
never after.  The lemma `ConfigureKeeps` is why a packet may stay when only the
resolver changes: with address, netmask and gateway as they were, its next hop and whether
it is a broadcast are as they were.  `LeaseAssumption` says that lease times are numbers
within their range, `AddressAssumption` that no address or mask is the empty one; networks
and broadcast addresses are arbitrary.

For `AnswersAreCurrent` the walk of `dns_find_address_answer` along aliases is a function of
the number of hops (`Rounds`), and `WalkOK` says that each hop stands at a name the first
one leads to.  The library's induction theorems take the property as an operator, which
the provers cannot instantiate; the lemma `Counting` takes it as a set of numbers instead
and follows from the well-foundedness of the naturals.  The invariant `AnswersOK` adds to
the property that an address in the cache needs a resolver that exists and that a pending
query asks for a name; the cache survives a change of the resolver because
`net_configure_ipv4` and `net_clear_ipv4` clear it.  `RecordsAssumption` says that the
records of the resolvers speak of names only; they may form loops and chains of any length.

*Card.*  `WakeInv` follows a call through its register accesses: until it has taken the
deferred events over the wakeup is as between calls, afterwards the mask it is about to
write is still right.  `RingInv` says that the frames lie one after the other from the
read pointer to the write pointer and do not reach round; `CycleInv` that the card
owns one run of descriptors, up to the driver's next.  `RingAssumption` admits the powers of two
from 16 to 8192 as ring sizes and every frame that fits.

Only model-checked:

* liveness (`EveryQueryEnds`, `EveryOperationEnds`, `EveryRequestEnds` and the two of the
  scheduler), which is outside what the prover does;
* the decoders (`FsCodec`, `HttpMessage`, `HttpUrl`), which are written with RECURSIVE
  operators;
* `AppMemory`: its maps, unmaps and releases are folds over pages and records, and `used` is
  a sum over the blocks, so what they compute for every length needs induction too.

## Plan

1. File handles of `app_services.c` over the volume, next to the memory records.
2. `Desktop`: the chrome gesture of `gui_demo.c` in front of `AppWindows`.
3. `AppCatalog`: installation and quarantine as sequences of volume calls with power
   loss between them.

## Not modelled

Drawing, the desktop, the shell's commands, formatting, boot code, descriptor tables,
port protocols of the disk and of PCI, ELF and manifest byte checks, the system log,
scancode tables and line editing, and the ring-3 applications themselves: none keeps
state that the properties above depend on, or it is I/O that a model would only
restate.  File handles of applications and the application catalog do keep state; they
are in the plan.
