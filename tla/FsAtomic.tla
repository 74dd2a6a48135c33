------------------------------ MODULE FsAtomic ------------------------------
(***************************************************************************)
(* What the volume of kernel/fs.c promises, without slots, headers or       *)
(* tables: a durable snapshot that changes only as a whole, and a mounted   *)
(* view that is known to be durable exactly in mode "persistent".           *)
(***************************************************************************)
CONSTANT Snapshots    \* the possible sets of named contents

VARIABLES durable,    \* the snapshot the next boot finds
          view,       \* the files the running system shows
          mode        \* "off", "persistent", "volatile" or "busy"

vars == <<mode, view, durable>>

Init == durable \in Snapshots /\ view = {} /\ mode = "off"

\* The disk is mounted, or a call begins or goes on: only the view moves, and
\* the volume may be called persistent only if the view is what is durable.
Work ==
  /\ mode' \in {"persistent", "volatile", "busy"}
  /\ mode = "volatile" => mode' \in {"volatile", "busy"}
  /\ view' \in Snapshots
  /\ mode' = "persistent" => view' = durable
  /\ durable' = durable

\* The commit point: the view becomes durable as a whole.
Commit ==
  /\ mode = "busy" /\ mode' \in {"persistent", "busy"}
  /\ view' = view
  /\ durable' = view

\* The volume degrades with the outcome unknown: the change stays in the view,
\* because it may be on the disk.
GiveUp ==
  /\ mode = "busy" /\ mode' \in {"volatile", "busy"}
  /\ view' = view
  /\ durable' \in {durable, view}

\* Power fails; a call in progress has either taken effect or not.
Crash ==
  /\ mode # "off" /\ mode' = "off"
  /\ view' = {}
  /\ durable' \in {durable} \cup (IF mode = "busy" THEN {view} ELSE {})

Next == Work \/ Commit \/ GiveUp \/ Crash

Spec == Init /\ [][Next]_vars
=============================================================================
