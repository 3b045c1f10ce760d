----------------------------- MODULE MCFileIcon -----------------------------
(* FileIcon for TLC.                                                        *)
EXTENDS FileIcon

MCInfos  == {"i"}
MCKeys   == {"file"}
MCFileOf == [i \in MCInfos |-> "file"]

=============================================================================
