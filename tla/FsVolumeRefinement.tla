------------------------- MODULE FsVolumeRefinement -------------------------
(* FsVolume implements FsAtomic. *)
EXTENDS FsVolume

\* The slot tried first when both headers are valid and unprotected.
TriedFirst(h) ==
  IF fs_generation_is_newer(fs_header_generation(h[1]), fs_header_generation(h[0]))
  THEN 1 ELSE 0

\* On a disk with two unprotected headers the slot tried first is intact, or its
\* header was computed from a table that would not load anyway.  Without this the
\* explicit upgrade of the other slot could, cut short, repair a damaged table by
\* chance, record by record, until its old header fits it again.
ASSUME LegacyPairsIntact ==
  \A d \in InitialDisks :
    (\A s \in Slots : fs_header_is_valid(d.header[s]) /\ ~IsProtected(d.header[s])) =>
      LET s == TriedFirst(d.header)
      IN  d.header[s].checksum = d.table[s] \/ ~LegacyTableIsValid(d.header[s].checksum)

\* The mode a user of the volume can tell.
Mode ==
  CASE call.pc = "off" -> "off"
    [] call.pc = "idle" /\ g_backend_status = "PERSISTENT" -> "persistent"
    [] call.pc = "idle" /\ g_backend_status # "PERSISTENT" -> "volatile"
    [] OTHER -> "busy"

Atomic == INSTANCE FsAtomic WITH
            Snapshots <- SUBSET (Names \X Seq(Bytes)),
            durable <- Durable,
            view <- Logical(FILES),
            mode <- Mode

\* The two-slot volume behaves as one durable snapshot that is replaced as a
\* whole, through crashes, failed and uncertain writes, unreadable sectors, the
\* metadata upgrade at mount and the self test (all of kernel/fs.c).
ImplementsAtomicSnapshot == Atomic!Spec
=============================================================================
