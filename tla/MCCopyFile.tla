----------------------------- MODULE MCCopyFile -----------------------------
(* CopyFile for TLC.  Three units in blocks of two: a full and a short     *)
(* chunk, and writes of a part of a chunk.                                 *)
EXTENDS CopyFile

MCSize      == 3
MCBlock     == 2
MCMaxFaults == 3

=============================================================================
