----------------------------- MODULE MCFsVolume -----------------------------
(* Small instances of FsVolume: the disks each run is switched on with. *)
EXTENDS FsVolumeRefinement

MCNames == {"a", "b", "browser.elf", "system.log", "nostalux.bmp",
            "__fs_self_test__", "__fs_self_renamed__",
            "test-0", "test-1", "test-2", "test-3",
            "log-0", "log-1", "log-2", "log-3"}

MCRecoveredTestNames == SubSeq(<<"test-0", "test-1", "test-2", "test-3">>, 1, FS_MAX_FILES + 1)
MCRecoveredLogNames == SubSeq(<<"log-0", "log-1", "log-2", "log-3">>, 1, FS_MAX_FILES + 1)

MCLongContents == {<<1, 1, 1>>}
MCShortContents == {<<1>>}
MCPayload == <<1>>
MCSeeds == <<NewFile("nostalux.bmp", <<1>>)>>

\* A file array holding these files from the first slot on.
Holding(seq) == [i \in FileIndex |-> IF i <= Len(seq) THEN seq[i] ELSE ClearedFile]

\* The table a kernel of version 1 to 4 wrote for files of one record each.
LegacyTable(seq) ==
  [r \in FileIndex |-> IF r <= Len(seq) THEN DiskRecord(seq[r], 1) ELSE BlankRecord]

TableOf(version, seq) ==
  IF version >= FS_DISK_VERSION THEN fs_serialize(Holding(seq)) ELSE LegacyTable(seq)

BlankHeader == [kind |-> "blank", version |-> 0, generation |-> 0, checksum |-> BlankTable]
BlankSlot == <<BlankHeader, BlankTable>>

Slot(version, generation, seq) ==
  <<[kind |-> "valid", version |-> version, generation |-> generation,
     checksum |-> TableOf(version, seq)], TableOf(version, seq)>>

\* The header names another table; the header sector is damaged; no header.
BadTable(slot) == <<[slot[1] EXCEPT !.checksum = BlankTable], slot[2]>>
BadHeader(slot) == <<[slot[1] EXCEPT !.kind = "invalid"], slot[2]>>
NoHeader(slot) == <<BlankHeader, slot[2]>>

Pair(s0, s1) == [header |-> [s \in Slots |-> IF s = 0 THEN s0[1] ELSE s1[1]],
                 table |-> [s \in Slots |-> IF s = 0 THEN s0[2] ELSE s1[2]]]

A == NewFile("a", <<1>>)
B == NewFile("b", <<>>)
Log == NewFile("system.log", <<1>>)
OldLog == NewFile("log-0", <<>>)
Scratch == NewFile("__fs_self_test__", MCPayload)
Renamed == NewFile("__fs_self_renamed__", MCPayload)
UserScratch == NewFile("__fs_self_test__", <<>>)

Last == GenerationModulus - 1

\* A volume of the current version about to wrap its generation.
MCCurrentDisks ==
  {Pair(Slot(5, Last, <<A>>), Slot(5, Last - 1, <<B>>))}

MCBlankDisks == {Pair(BlankSlot, BlankSlot)}

\* Pairs that the mount has to order, accept, repair or reject.
MCRecoveryDisks ==
  LET old == Slot(5, 0, <<A>>)
      new == Slot(5, 1, <<B>>)
      half == Slot(5, GenerationModulus \div 2, <<B>>)
      legacy == Slot(2, Last, <<B>>)
  IN  {Pair(old, new), Pair(old, half), Pair(old, old), Pair(old, Slot(5, 0, <<B>>)),
       Pair(old, legacy), Pair(old, BadTable(new)), Pair(BadHeader(new), old),
       Pair(old, NoHeader(new)), Pair(NoHeader(old), BlankSlot),
       Pair(BadTable(old), BadHeader(new)), Pair(Slot(1, 0, <<A>>), BlankSlot),
       Pair(Slot(4, 1, <<A>>), Slot(4, 0, <<B>>)),
       Pair(Slot(5, 1, <<Log, OldLog>>), BlankSlot),
       Pair(Slot(5, 1, <<Scratch, Renamed>>), BlankSlot),
       Pair(Slot(5, 1, <<UserScratch, Renamed>>), BlankSlot),
       Pair(Slot(2, 1, <<Log, Scratch>>), BlankSlot)}

\* Legacy pairs whose order cannot be known.
MCLegacyDisks ==
  {Pair(Slot(v, 0, <<A>>), Slot(w, g, <<B>>)) :
     v \in {1, 3}, w \in {1, 3}, g \in {0, 1}}

\* One disk of each kind, for the refinement.
MCMixedDisks ==
  MCBlankDisks \cup MCCurrentDisks \cup
  {Pair(Slot(2, 0, <<A>>), Slot(2, 1, <<B>>)), Pair(Slot(3, 1, <<A>>), Slot(3, 0, <<A>>)),
   Pair(BadHeader(Slot(5, 1, <<B>>)), Slot(5, 0, <<Log>>))}

MCAllDisks == MCCurrentDisks \cup MCBlankDisks \cup MCRecoveryDisks \cup MCLegacyDisks
=============================================================================
