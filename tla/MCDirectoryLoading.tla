------------------------- MODULE MCDirectoryLoading -------------------------
(* DirectoryLoading for TLC.  Two files put one in the first batch and one *)
(* behind it, or both in the batch.                                        *)
EXTENDS DirectoryLoading

MCIterator == {TRUE}
MCEither   == BOOLEAN

=============================================================================
