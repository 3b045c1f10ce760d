---------------------------- MODULE FileTransfer ----------------------------
(***************************************************************************)
(* What a job promises of one file it copies or moves: the source stays    *)
(* until the target is the whole file, and the file is reported as done    *)
(* only when it is.  In between the target may be anything.                *)
(***************************************************************************)
VARIABLES
  mode,     (* "copy" or "move"                                             *)
  source,   (* "there" or "gone"                                            *)
  target,   (* "before": not touched; "partial"; "whole": equal to the source *)
  outcome   (* "open" until the file is done, skipped or failed             *)

vars == <<mode, source, target, outcome>>

Init ==
  /\ mode \in {"copy", "move"}
  /\ source = "there" /\ target = "before" /\ outcome = "open"

Change ==
  /\ outcome = "open" /\ source = "there"
  /\ target' \in {"partial", "whole"}
  /\ UNCHANGED <<mode, source, outcome>>

Rename ==
  /\ outcome = "open" /\ mode = "move" /\ source = "there"
  /\ target' = "whole" /\ source' = "gone"
  /\ UNCHANGED <<mode, outcome>>

Remove ==
  /\ outcome = "open" /\ mode = "move" /\ target = "whole"
  /\ source' = "gone"
  /\ UNCHANGED <<mode, target, outcome>>

Done ==
  /\ outcome = "open" /\ target = "whole"
  /\ mode = "move" => source = "gone"
  /\ outcome' = "done"
  /\ UNCHANGED <<mode, source, target>>

Undone ==
  /\ outcome = "open" /\ source = "there"
  /\ outcome' \in {"skipped", "failed"}
  /\ UNCHANGED <<mode, source, target>>

Next == Change \/ Rename \/ Remove \/ Done \/ Undone

Spec == Init /\ [][Next]_vars

=============================================================================
