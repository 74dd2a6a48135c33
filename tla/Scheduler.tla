----------------------------- MODULE Scheduler -----------------------------
(***************************************************************************)
(* Tasks and application processes: kernel/scheduler.c, the launch path of  *)
(* kernel/app_runtime.c, the process table of kernel/app_process.c and the  *)
(* parts of kernel/paging.c and kernel/syscall.c they meet in.              *)
(*                                                                         *)
(* Kernel tasks are cooperative: a timer tick never switches away from one, *)
(* so a kernel call is one step.  System calls and exceptions of a user     *)
(* task run with interrupts off.  user_task_bootstrap runs with interrupts  *)
(* on, so a tick may come between its check of the process and its write.   *)
(***************************************************************************)
EXTENDS AppProcessTable, Sequences

CONSTANTS
  TaskIdMax,                      \* UINT64_MAX in the code
  SCHEDULER_USER_QUANTUM_TICKS,
  APP_RUN_DISPATCH_BUDGET,
  KernelTasks,                    \* bound: kernel tasks alive at once
  MayOverflow                     \* TRUE: a kernel stack may overflow

ASSUME SchedulerAssumption ==
  /\ TaskIdMax \in Nat \ {0}
  /\ SCHEDULER_USER_QUANTUM_TICKS \in Nat \ {0}
  /\ APP_RUN_DISPATCH_BUDGET \in Nat \ {0}
  /\ KernelTasks \in Nat \ {0}
  /\ MayOverflow \in BOOLEAN

TaskIds == 1 .. TaskIdMax

\* Where a task is when it next runs: at its entry point, in the shell or the
\* desktop, in the dispatch loop of app_runtime_run_catalog_id, in the bootstrap
\* before and after its check, or in ring 3.
Pcs == {"entry", "kernel", "dispatch", "bootstrap", "marking", "user"}

\* An address space is named after the process it was made for; 0 is NULL.
Task == [state : {"READY", "DEAD"}, is_user : BOOLEAN,
         address_space : 0 .. ProcessIdMax, app_process_id : 0 .. ProcessIdMax,
         quantum_ticks : 0 .. SCHEDULER_USER_QUANTUM_TICKS, pc : Pcs,
         awaited : 0 .. ProcessIdMax, dispatch : 0 .. APP_RUN_DISPATCH_BUDGET,
         fpu_state : 0 .. TaskIdMax]

VARIABLES
  s,           \* the scheduler: see Init
  g_next_pid,
  processes,   \* the process table
  services,    \* the processes that hold files, windows, memory or focus
  halted

vars == <<s, g_next_pid, processes, services, halted>>

\* g_initial_fpu_state, which every new task starts with; any other image of the
\* x87 and SSE registers is named after the task that computed it.
ResetImage == 0

KernelTask == [state |-> "READY", is_user |-> FALSE, address_space |-> 0,
               app_process_id |-> 0, quantum_ticks |-> 0, pc |-> "entry",
               awaited |-> 0, dispatch |-> 0, fpu_state |-> ResetImage]

UserTask(id) == [state |-> "READY", is_user |-> TRUE, address_space |-> id,
                 app_process_id |-> id, quantum_ticks |-> 0, pc |-> "entry",
                 awaited |-> 0, dispatch |-> 0, fpu_state |-> ResetImage]

\* allocate_task_id; 0 once the ids are used up.
NextPid(pid) == IF pid = TaskIdMax THEN 0 ELSE pid + 1

\* scheduler_init.  ring is the circular list from g_head on, task the Task
\* structures in the heap, spaces the address spaces in the heap, cr3 the active
\* one (0: the kernel's own), tss the task whose kernel stack interrupts use, fpu
\* the image in the processor's registers, broken the tasks whose stack canary is
\* overwritten.
Init ==
  /\ s = [ring |-> <<1>>, current |-> 1,
          task |-> [t \in {1} |-> [KernelTask EXCEPT !.pc = "kernel"]],
          spaces |-> {}, cr3 |-> 0, tss |-> 1, fpu |-> 1, broken |-> {}]
  /\ g_next_pid = NextPid(1)
  /\ processes = app_process_table_reset
  /\ services = {}
  /\ halted = FALSE

----------------------------------------------------------------------------
(* The task list *)

InRing(sch) == {sch.ring[i] : i \in DOMAIN sch.ring}

\* A new task goes right after the head.
Inserted(sch, id, new_task) ==
  [sch EXCEPT !.ring = <<Head(sch.ring), id>> \o Tail(sch.ring),
              !.task = [t \in DOMAIN sch.task \cup {id} |->
                          IF t = id THEN new_task ELSE sch.task[t]]]

\* The list without these tasks, the others in their order.
Without(ring, gone) ==
  LET kept == {i \in DOMAIN ring : ring[i] \notin gone}
      Rank(i) == Cardinality({j \in kept : j <= i})
  IN  [k \in 1 .. Cardinality(kept) |-> ring[CHOOSE i \in kept : Rank(i) = k]]

DeadTasks(sch) == {t \in InRing(sch) : t # sch.current /\ sch.task[t].state = "DEAD"}

\* Mutant: the address spaces of dead tasks are not given back.
ReapLeaksSpaces(sch) ==
  LET dead == DeadTasks(sch)
  IN  [sch EXCEPT !.ring = Without(sch.ring, dead),
                  !.task = [t \in DOMAIN sch.task \ dead |-> sch.task[t]]]

\* reap_dead_tasks and destroy_task: the head moves on past dead tasks, the dead
\* ones are unlinked, their stacks, structures and address spaces freed, and an
\* address space that is active is left first.
reap_dead_tasks(sch) ==
  LET dead == DeadTasks(sch)
      freed == {sch.task[t].address_space : t \in dead} \ {0}
  IN  IF dead = {} THEN sch
      ELSE [sch EXCEPT !.ring = Without(sch.ring, dead),
                       !.task = [t \in DOMAIN sch.task \ dead |-> sch.task[t]],
                       !.spaces = @ \ freed,
                       !.cr3 = IF @ \in freed THEN 0 ELSE @]

----------------------------------------------------------------------------
(* schedule *)

\* Mutant: the search always begins at the head of the list.
FirstReadyFromHead(sch) ==
  LET ready == {i \in DOMAIN sch.ring :
                  sch.ring[i] # sch.current /\ sch.task[sch.ring[i]].state = "READY"}
  IN  IF ready = {} THEN sch.current
      ELSE sch.ring[CHOOSE i \in ready : \A j \in ready : i <= j]

\* The next ready task in the ring after the current one; the current one when
\* there is no other.
NextReady(sch) ==
  LET n == Len(sch.ring)
      here == CHOOSE i \in DOMAIN sch.ring : sch.ring[i] = sch.current
      After(k) == sch.ring[((here + k - 1) % n) + 1]
      ready == {k \in 1 .. n - 1 : sch.task[After(k)].state = "READY"}
  IN  IF ready = {} THEN sch.current
      ELSE After(CHOOSE k \in ready : \A j \in ready : k <= j)

\* Task t computes with the registers it finds: a reset image or its own becomes
\* its own, and whatever another task left there would be its to read.
Computed(image, t) == IF image \in {ResetImage, t} THEN t ELSE image

\* Mutant: the registers are not saved.
SaveNothing(sch) == sch

save_task_fpu(sch) ==
  [sch EXCEPT !.task[sch.current] = [sch.task[sch.current] EXCEPT !.fpu_state = sch.fpu]]

restore_task_fpu(sch, next) == [sch EXCEPT !.fpu = Computed(sch.task[next].fpu_state, next)]

\* A task that never ran begins at its entry point.
Resumed(task) ==
  [task EXCEPT !.quantum_ticks = 0,
               !.pc = IF task.pc # "entry" THEN task.pc
                      ELSE IF task.is_user THEN "bootstrap" ELSE "kernel"]

\* The switch itself.
SwitchTo(sch, next) ==
  LET restored == restore_task_fpu(save_task_fpu(sch), next)
  IN  [restored EXCEPT
         !.current = next,
         !.task = [restored.task EXCEPT
                     ![sch.current] = [restored.task[sch.current] EXCEPT !.quantum_ticks = 0],
                     ![next] = Resumed(restored.task[next])],
         !.tss = next,
         !.cr3 = sch.task[next].address_space]

\* A task that was suspended in schedule reaps when it resumes; one that begins
\* does not.
Switched(sch, next) ==
  IF sch.task[next].pc = "entry" THEN SwitchTo(sch, next)
  ELSE reap_dead_tasks(SwitchTo(sch, next))

\* What schedule does past the canary check.
Rescheduled(sch) ==
  \E reaped \in {reap_dead_tasks(sch)} : \E next \in {NextReady(reaped)} :
    \/ /\ next # sch.current
       /\ s' = Switched(reaped, next) /\ halted' = FALSE
    \/ /\ next = sch.current
       /\ s' = reaped /\ halted' = (reaped.task[next].state # "READY")

\* schedule, from the scheduler state sch: a corrupt canary and a ring without a
\* ready task halt the machine.
schedule(sch) ==
  \/ /\ sch.current \in sch.broken
     /\ s' = sch /\ halted' = TRUE
  \/ /\ sch.current \notin sch.broken
     /\ \E now \in {sch} : Rescheduled(now)

----------------------------------------------------------------------------
(* What the current task may be doing *)

Current == s.task[s.current]

KernelRuns == ~halted /\ ~Current.is_user /\ Current.pc = "kernel" /\ Current.state = "READY"

scheduler_current_is_user == Current.is_user /\ Current.state = "READY"

UserRuns == ~halted /\ scheduler_current_is_user /\ Current.pc = "user"

WithTask(sch, t, new_task) == [sch EXCEPT !.task[t] = new_task]

Dead(sch, t) == WithTask(sch, t, [sch.task[t] EXCEPT !.state = "DEAD"])

----------------------------------------------------------------------------
(* Kernel tasks: the shell, the desktop *)

\* shell_idle and desktop_yield.
KernelYields ==
  /\ KernelRuns
  /\ schedule(s)
  /\ UNCHANGED <<g_next_pid, processes, services>>

\* A kernel stack grows over its canary.
KernelStackOverflows ==
  /\ MayOverflow /\ KernelRuns
  /\ s' = [s EXCEPT !.broken = @ \cup {s.current}]
  /\ UNCHANGED <<g_next_pid, processes, services, halted>>

spawn_named_task ==
  /\ KernelRuns
  /\ g_next_pid # 0
  /\ Cardinality({t \in InRing(s) : ~s.task[t].is_user}) < KernelTasks
  /\ s' = Inserted(s, g_next_pid, KernelTask)
  /\ g_next_pid' = NextPid(g_next_pid)
  /\ UNCHANGED <<processes, services, halted>>

\* A kernel task's entry function returns; kernel/main's never does.
exit_current_task ==
  /\ KernelRuns /\ s.current # 1
  /\ schedule(Dead(s, s.current))
  /\ UNCHANGED <<g_next_pid, processes, services>>

\* Mutant: the process record is not told.
TerminateTaskOnly(t) ==
  /\ KernelRuns
  /\ t \in InRing(s) /\ t # s.current /\ s.task[t].state # "DEAD"
  /\ s' = reap_dead_tasks(Dead(s, t))
  /\ UNCHANGED <<g_next_pid, processes, services, halted>>

\* scheduler_terminate_task, from the desktop's task manager.
scheduler_terminate_task(t) ==
  /\ KernelRuns
  /\ t \in InRing(s) /\ t # s.current /\ s.task[t].state # "DEAD"
  /\ s' = reap_dead_tasks(Dead(s, t))
  /\ processes' = app_process_mark_exited(processes, s.task[t].app_process_id, -1)
  /\ services' = services \ {s.task[t].app_process_id}
  /\ UNCHANGED <<g_next_pid, halted>>

\* scheduler_terminate_app_process, from the shell's appkill.
scheduler_terminate_app_process(id) ==
  \E t \in InRing(s) : /\ s.task[t].is_user /\ s.task[t].app_process_id = id
                       /\ scheduler_terminate_task(t)

----------------------------------------------------------------------------
(* app_runtime_spawn_with_argument and the loop of app_runtime_run_catalog_id.
   A launch that fails before it enters the process table changes nothing. *)

\* The startup argument is refused, or the scheduler cannot make the task: the
\* process is dropped again and its address space destroyed.
LaunchFails ==
  /\ KernelRuns /\ CanTrack(processes)
  /\ processes' = app_process_release(app_process_track_loaded(processes), processes.next)
  /\ UNCHANGED <<s, g_next_pid, services, halted>>

\* The task is in the ring and the caller goes on to dispatch it.  The process
\* may be given the launch focus.
LaunchSucceeds ==
  /\ KernelRuns /\ CanTrack(processes) /\ g_next_pid # 0
  /\ LET id == processes.next
     IN  /\ processes' = app_process_mark_starting(app_process_track_loaded(processes), id)
         /\ s' = WithTask([Inserted(s, g_next_pid, UserTask(id)) EXCEPT !.spaces = @ \cup {id}],
                          s.current,
                          [Current EXCEPT !.pc = "dispatch", !.awaited = id, !.dispatch = 0])
         /\ services' \in {services, services \cup {id}}
  /\ g_next_pid' = NextPid(g_next_pid)
  /\ UNCHANGED halted

Dispatching == ~halted /\ Current.pc = "dispatch" /\ Current.state = "READY"

\* The loop goes round: the process has not finished, give up the processor.
Dispatch ==
  /\ Dispatching
  /\ Current.dispatch < APP_RUN_DISPATCH_BUDGET
  /\ IsIn(processes, Current.awaited, {"LOADED", "STARTING", "RUNNING"})
  /\ schedule(WithTask(s, s.current, [Current EXCEPT !.dispatch = @ + 1]))
  /\ UNCHANGED <<g_next_pid, processes, services>>

\* The loop ends: with the outcome of the process, or with the budget spent.
DispatchReturns ==
  /\ Dispatching
  /\ \/ Current.dispatch = APP_RUN_DISPATCH_BUDGET
     \/ ~IsIn(processes, Current.awaited, {"LOADED", "STARTING", "RUNNING"})
  /\ s' = WithTask(s, s.current, [Current EXCEPT !.pc = "kernel", !.awaited = 0, !.dispatch = 0])
  /\ UNCHANGED <<g_next_pid, processes, services, halted>>

----------------------------------------------------------------------------
(* User tasks *)

\* user_task_bootstrap finds its process and sees that it is STARTING ...
BootstrapChecks ==
  /\ ~halted /\ scheduler_current_is_user /\ Current.pc = "bootstrap"
  /\ IsIn(processes, Current.app_process_id, {"STARTING"})
  /\ s' = WithTask(s, s.current, [Current EXCEPT !.pc = "marking"])
  /\ UNCHANGED <<g_next_pid, processes, services, halted>>

\* ... and, perhaps ticks later, stores RUNNING and enters ring 3.
BootstrapMarks ==
  /\ ~halted /\ scheduler_current_is_user /\ Current.pc = "marking"
  /\ processes' = app_process_mark_running(processes, Current.app_process_id)
  /\ s' = WithTask(s, s.current, [Current EXCEPT !.pc = "user"])
  /\ UNCHANGED <<g_next_pid, services, halted>>

\* A system call that makes the process own something.
UserAcquires ==
  /\ UserRuns
  /\ services' = services \cup {Current.app_process_id}
  /\ UNCHANGED <<s, g_next_pid, processes, halted>>

\* APP_SYSCALL_YIELD.
UserYields ==
  /\ UserRuns
  /\ schedule(s)
  /\ UNCHANGED <<g_next_pid, processes, services>>

scheduler_exit_current_user(exit_code) ==
  /\ UserRuns
  /\ processes' = app_process_mark_exited(processes, Current.app_process_id, exit_code)
  /\ services' = services \ {Current.app_process_id}
  /\ schedule(Dead(s, s.current))
  /\ UNCHANGED g_next_pid

scheduler_fault_current_user ==
  /\ UserRuns
  /\ processes' = app_process_record_fault(processes, Current.app_process_id)
  /\ services' = services \ {Current.app_process_id}
  /\ schedule(Dead(s, s.current))
  /\ UNCHANGED g_next_pid

\* Mutant: the quantum is counted and never enforced.
TickWithoutPreemption ==
  /\ ~halted /\ scheduler_current_is_user
  /\ s' = WithTask(s, s.current, [Current EXCEPT !.quantum_ticks =
                     IF @ < SCHEDULER_USER_QUANTUM_TICKS THEN @ + 1 ELSE @])
  /\ UNCHANGED <<g_next_pid, processes, services, halted>>

\* A tick on a user task, in ring 3 or in its bootstrap; the tick that fills the
\* quantum preempts it.
scheduler_timer_tick ==
  /\ ~halted /\ scheduler_current_is_user
  /\ IF Current.quantum_ticks + 1 < SCHEDULER_USER_QUANTUM_TICKS
     THEN /\ s' = WithTask(s, s.current, [Current EXCEPT !.quantum_ticks = @ + 1])
          /\ UNCHANGED halted
     ELSE schedule(WithTask(s, s.current, [Current EXCEPT !.quantum_ticks = 0]))
  /\ UNCHANGED <<g_next_pid, processes, services>>

----------------------------------------------------------------------------

\* The processor stays in hlt.
Halted == halted /\ UNCHANGED vars

Next ==
  \/ KernelYields
  \/ KernelStackOverflows
  \/ spawn_named_task
  \/ exit_current_task
  \/ \E t \in TaskIds : scheduler_terminate_task(t)
  \/ \E id \in ProcessIds : scheduler_terminate_app_process(id)
  \/ LaunchFails
  \/ LaunchSucceeds
  \/ Dispatch
  \/ DispatchReturns
  \/ BootstrapChecks
  \/ BootstrapMarks
  \/ UserAcquires
  \/ UserYields
  \/ \E exit_code \in {0, -1} : scheduler_exit_current_user(exit_code)
  \/ scheduler_fault_current_user
  \/ scheduler_timer_tick
  \/ Halted

Spec == Init /\ [][Next]_vars

\* The steps the machine goes on taking by itself: the timer keeps ticking, the
\* bootstrap gets on, and the loops of the shell and the desktop and the dispatch
\* loop keep reaching their schedule().  Nothing is assumed of ring 3.
Progress ==
  \/ scheduler_timer_tick
  \/ BootstrapChecks
  \/ BootstrapMarks
  \/ KernelYields
  \/ Dispatch
  \/ DispatchReturns

Fairness == WF_vars(Progress)

FairSpec == Spec /\ Fairness

----------------------------------------------------------------------------
(* Properties *)

UserTasks == {t \in InRing(s) : s.task[t].is_user}
ReadyTasks == {t \in InRing(s) : s.task[t].state = "READY"}

\* The list, the heap and the processor agree on what is alive: every task in
\* the ring is there once and has its memory, no task or address space outlives
\* its place in the ring, and the stack, the page tables and the task the
\* processor uses have not been freed (reap_dead_tasks and destroy_task against
\* schedule).
NothingFreedIsUsed ==
  /\ InRing(s) = DOMAIN s.task
  /\ \A i, j \in DOMAIN s.ring : s.ring[i] = s.ring[j] => i = j
  /\ s.spaces = {s.task[t].address_space : t \in UserTasks}
  /\ s.current \in InRing(s) /\ s.tss \in InRing(s)
  /\ s.cr3 \in s.spaces \cup {0}

\* Whichever way a task came to run, the processor runs it on its own page tables,
\* takes interrupts on its own stack and computes with its own registers, every
\* other task's registers are kept for it, and no other task's stack is corrupt, so
\* none is resumed on, or freed with, an overwritten canary (schedule, save_task_fpu,
\* restore_task_fpu, gdt_set_kernel_stack, paging_activate, stack_canary_intact).
ContextIsOwn ==
  /\ s.cr3 = s.task[s.current].address_space
  /\ s.tss = s.current
  /\ s.fpu = s.current
  /\ \A t \in InRing(s) \ {s.current} :
       s.task[t].fpu_state = IF s.task[t].pc = "entry" THEN ResetImage ELSE t
  /\ s.broken \subseteq {s.current}

\* The task list, the process table and the service tables never disagree on which
\* applications run, however one ends: each starting or running process has exactly
\* one task that is ready, a ready user task's process is STARTING until its
\* bootstrap has marked it, so no bootstrap is ever rejected, and only a process that
\* has not finished owns files, windows, memory or the focus, its address space
\* still there to be unmapped from.
TasksMatchProcesses ==
  /\ \A t \in UserTasks \cap ReadyTasks :
       IsIn(processes, s.task[t].app_process_id,
            IF s.task[t].pc = "user" THEN {"RUNNING"} ELSE {"STARTING"})
  /\ \A id \in ProcessIds : IsLive(processes, id) =>
       Cardinality({t \in UserTasks \cap ReadyTasks : s.task[t].app_process_id = id}) = 1
  /\ \A id \in services : IsLive(processes, id) /\ id \in s.spaces

\* The listing shows every process in the table exactly once, oldest launch
\* first, although finished entries give their slots to later ones.
ListingIsComplete ==
  LET listed == app_process_snapshot(processes)
      shown == 0 .. processes.count - 1
  IN  /\ {listed[i] : i \in shown} = {processes.slots[i].process_id : i \in UsedSlots(processes)}
      /\ \A i, j \in shown : i < j => listed[i] < listed[j]
      /\ listed[processes.count] = 0

\* A process that a launch forgets has finished and was launched before every other
\* finished one.
ForgetsOldestFinished ==
  \A id \in ProcessIds :
    /\ processes'.next # processes.next
    /\ find_process(processes, id) # 0 /\ find_process(processes', id) = 0
    => /\ IsIn(processes, id, Terminal)
       /\ \A kept \in ProcessIds : IsIn(processes', kept, Terminal) => id < kept

\* The process listing is complete and in launch order at all times, and what a full
\* table forgets is the oldest finished process: all that runs and the newest history
\* are kept (app_process_snapshot and app_process_track_loaded against the reuse of
\* slots and g_process_count).
HistoryIsComplete == []ListingIsComplete /\ [][ForgetsOldestFinished]_vars

\* A ready task gets the processor, unless it ends or the machine halts: no
\* application can keep it from the others, however it behaves in ring 3.
EveryReadyTaskRuns ==
  \A t \in TaskIds : (t \in ReadyTasks) ~> (s.current = t \/ t \notin ReadyTasks \/ halted)

\* The memory of a task that ended is given back.
EveryDeadTaskIsReaped ==
  \A t \in TaskIds :
    (t \in InRing(s) /\ t \notin ReadyTasks) ~> (t \notin InRing(s) \/ halted)

\* When app_runtime_run_catalog_id gives up because its budget is spent, the
\* application it started is still runnable.
BudgetSpentMeansRunnable ==
  \A t \in ReadyTasks :
    (s.task[t].pc = "dispatch" /\ s.task[t].dispatch = APP_RUN_DISPATCH_BUDGET
       /\ s.current = t) => IsLive(processes, s.task[t].awaited)
=============================================================================
