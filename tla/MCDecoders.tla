----------------------------- MODULE MCDecoders -----------------------------
(***************************************************************************)
(* What the kernel decodes that it cannot trust: the file table of a disk,   *)
(* an HTTP response and the location of a redirect, one at a time.           *)
(***************************************************************************)
EXTENDS MCFsCodec, MCHttp

vars == <<files, table, damage, bytes, redirect>>

\* A table that is left alone, and no response and no location.
NoTable ==
  /\ files = [n \in FileIndex |-> ClearedFile]
  /\ table = BlankTable
  /\ damage = MaxDamage
NoResponse == bytes = <<>> /\ redirect = [Start EXCEPT !.scheme = "https"]

Init ==
  \/ TableInit /\ NoResponse
  \/ HttpInit /\ NoTable

Next ==
  \/ TableNext /\ UNCHANGED httpVars
  \/ HttpNext /\ UNCHANGED tableVars

Spec == Init /\ [][Next]_vars
=============================================================================
