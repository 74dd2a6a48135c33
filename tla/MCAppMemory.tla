---------------------------- MODULE MCAppMemory ----------------------------
(***************************************************************************)
(* Machines for AppMemory.  A process takes 150 bytes here, a mapped page 16 *)
(* and its page table 16 more: the sizes let one launch, a launch and some   *)
(* maps, or two launches fail at each of their allocations.  The build       *)
(* defines the size of the heap (kernel.c) and the reach of its page tables  *)
(* (paging.c) apart, and equal; here the largest heap is larger than that    *)
(* reach, so that the second stack may lie where no page can be guarded.     *)
(***************************************************************************)
EXTENDS AppMemory

MCMachines ==
  {[bytes |-> b, launches |-> 3] :
     b \in {152, 165, 176, 190, 208, 224, 240, 256, 272, 288}}
  \cup {[bytes |-> b, launches |-> 2] : b \in {303, 319, 335}}
=============================================================================
