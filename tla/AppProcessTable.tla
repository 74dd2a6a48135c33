-------------------------- MODULE AppProcessTable --------------------------
(***************************************************************************)
(* The application process table of kernel/app_process.c, as operations on  *)
(* a table value: g_processes, g_process_count and g_next_process_id.       *)
(* Manifests, image plans and fault records are data the table carries and  *)
(* no operation tells apart; an exit code is 0 or not 0.                    *)
(***************************************************************************)
EXTENDS Integers, FiniteSets

CONSTANTS APP_PROCESS_CAPACITY,
          ProcessIdMax            \* UINT64_MAX in the code

ASSUME ProcessTableAssumption ==
  APP_PROCESS_CAPACITY \in Nat \ {0} /\ ProcessIdMax \in Nat \ {0}

ProcessSlots == 1 .. APP_PROCESS_CAPACITY
ProcessIds == 1 .. ProcessIdMax
ProcessStates == {"UNUSED", "LOADED", "STARTING", "RUNNING", "EXITED", "FAULTED"}

Process == [state : ProcessStates, process_id : 0 .. ProcessIdMax, exit_code : {0, -1}]

ProcessTables == [slots : [ProcessSlots -> Process], count : 0 .. APP_PROCESS_CAPACITY,
                  next : 0 .. ProcessIdMax]

UnusedProcess == [state |-> "UNUSED", process_id |-> 0, exit_code |-> 0]

app_process_table_reset ==
  [slots |-> [i \in ProcessSlots |-> UnusedProcess], count |-> 0, next |-> 1]

\* The slots in use by a process in one of these states.
SlotsIn(p, states) == {i \in ProcessSlots : p.slots[i].state \in states}

UsedSlots(p) == SlotsIn(p, ProcessStates \ {"UNUSED"})

\* The slot of this process; 0 is the code's NULL.
find_process(p, id) ==
  IF \E i \in UsedSlots(p) : p.slots[i].process_id = id
  THEN CHOOSE i \in UsedSlots(p) :
         /\ p.slots[i].process_id = id
         /\ \A j \in UsedSlots(p) : p.slots[j].process_id = id => i <= j
  ELSE 0

IsIn(p, id, states) ==
  find_process(p, id) # 0 /\ p.slots[find_process(p, id)].state \in states

Live == {"STARTING", "RUNNING"}
Terminal == {"EXITED", "FAULTED"}

IsLive(p, id) == IsIn(p, id, Live)

find_free_slot(p) ==
  LET free == SlotsIn(p, {"UNUSED"})
  IN  IF free = {} THEN 0 ELSE CHOOSE i \in free : \A j \in free : i <= j

\* Mutant: the newest finished process is forgotten first.
NewestTerminalSlot(p) ==
  LET done == SlotsIn(p, Terminal)
  IN  IF done = {} THEN 0
      ELSE CHOOSE i \in done : \A j \in done : p.slots[i].process_id >= p.slots[j].process_id

find_oldest_terminal_slot(p) ==
  LET done == SlotsIn(p, Terminal)
  IN  IF done = {} THEN 0
      ELSE CHOOSE i \in done : \A j \in done : p.slots[i].process_id <= p.slots[j].process_id

\* The slot a new process takes: a free one, else the oldest finished one's.
SlotForNew(p) ==
  IF find_free_slot(p) # 0 THEN find_free_slot(p) ELSE find_oldest_terminal_slot(p)

CanTrack(p) == p.next # 0 /\ SlotForNew(p) # 0

\* The new process has id p.next; id 0 is never given out.
app_process_track_loaded(p) ==
  [slots |-> [p.slots EXCEPT ![SlotForNew(p)] =
                [state |-> "LOADED", process_id |-> p.next, exit_code |-> 0]],
   count |-> IF find_free_slot(p) # 0 THEN p.count + 1 ELSE p.count,
   next |-> IF p.next = ProcessIdMax THEN 0 ELSE p.next + 1]

\* The process found moves to another state; each caller checks the old one.
Moved(p, id, state, exit_code) ==
  [slots |-> [p.slots EXCEPT ![find_process(p, id)] =
                [state |-> state, process_id |-> id, exit_code |-> exit_code]],
   count |-> p.count, next |-> p.next]

app_process_mark_starting(p, id) ==
  IF IsIn(p, id, {"LOADED"}) THEN Moved(p, id, "STARTING", 0) ELSE p

app_process_mark_running(p, id) ==
  IF IsIn(p, id, {"STARTING"}) THEN Moved(p, id, "RUNNING", 0) ELSE p

app_process_mark_exited(p, id, exit_code) ==
  IF IsLive(p, id) THEN Moved(p, id, "EXITED", exit_code) ELSE p

app_process_record_fault(p, id) ==
  IF IsLive(p, id) THEN Moved(p, id, "FAULTED", 0) ELSE p

app_process_release(p, id) ==
  IF IsIn(p, id, Terminal \cup {"LOADED"})
  THEN [slots |-> [p.slots EXCEPT ![find_process(p, id)] = UnusedProcess],
        count |-> p.count - 1, next |-> p.next]
  ELSE p

\* The ids in use above an id, and the least of them; 0 when there is none.
NextProcessId(p, previous_id) ==
  LET later == {p.slots[i].process_id : i \in UsedSlots(p)} \ (0 .. previous_id)
  IN  IF later = {} THEN 0 ELSE CHOOSE id \in later : \A other \in later : id <= other

\* app_process_snapshot: the id of the process listed at each index from 0, by
\* repeated search for the next larger id; 0 where the listing fails.
app_process_snapshot(p) ==
  LET listed[index \in 0 .. p.count] ==
        IF index = 0 THEN NextProcessId(p, 0) ELSE NextProcessId(p, listed[index - 1])
  IN  listed
=============================================================================
