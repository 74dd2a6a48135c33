----------------------------- MODULE MCFsCodec -----------------------------
(* Small instances of FsCodec. *)
EXTENDS FsCodec

\* Contents that are empty, shorter than a record, exactly one record, and two
\* records with a partial last one; zeros occur inside and at the ends.
MCContents == {<<>>, <<1>>, <<1, 0>>, <<0, 1, 1>>}

MCFiles == {ClearedFile} \cup
           {[in_use |-> TRUE, name |-> n, data |-> d] : n \in Names, d \in MCContents}

\* Every array of such files, those that do not fit in a table included.
MCInitialFiles == {fs \in [FileIndex -> MCFiles] : NamesAreUnique(fs)}
=============================================================================
