----------------------------- MODULE MCCopyTree -----------------------------
(* CopyTree for TLC: a directory d with a directory e, which has a file g  *)
(* and a link l; and a file f beside d.                                    *)
EXTENDS CopyTree

MCNodes  == {"d", "e", "f", "g", "l"}
MCParent == [n \in MCNodes |-> CASE n = "e"          -> "d"
                                 [] n \in {"g", "l"} -> "e"
                                 [] OTHER            -> "top"]
MCKind   == [n \in MCNodes |-> CASE n \in {"d", "e"} -> "dir"
                                 [] n = "l"          -> "link"
                                 [] OTHER            -> "file"]
MCTop    == "top"

=============================================================================
