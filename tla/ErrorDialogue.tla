--------------------------- MODULE ErrorDialogue ---------------------------
(***************************************************************************)
(* What handleError() promises to the code that met an error: exactly one  *)
(* decision, and one that somebody is entitled to make.  A reply of the    *)
(* user decides one error and is used up by it; an answer given "for all"  *)
(* decides every later error of its kind; otherwise the handler decides by *)
(* itself, or the job is cancelled.                                        *)
(*                                                                         *)
(* How the reply travels between the threads is left open.                 *)
(***************************************************************************)
CONSTANTS
  Errors,      (* the errors that need a decision                            *)
  Actions,     (* the decisions                                              *)
  Buttons(_),  (* the replies the user may choose for an error               *)
  Own(_)       (* what a handler may decide without the user                 *)

VARIABLES
  open,        (* the error that waits for a decision, or "No"               *)
  reply,       (* a reply not used yet, or "No"                              *)
  memory,      (* the answers given for all errors of a kind                 *)
  decision     (* the last decision                                          *)

vars == <<open, reply, memory, decision>>

Init ==
  /\ open = "No" /\ reply = "No" /\ decision = "No"
  /\ memory = [e \in Errors |-> "No"]

Raise(e) ==
  /\ open = "No"
  /\ open' = e /\ decision' = "No"
  /\ UNCHANGED <<reply, memory>>

(* The buttons of an earlier error may still be up when the next one is    *)
(* raised, so a reply need not find its error open.                        *)
Reply(a, e, always) ==
  /\ reply = "No"
  /\ open \in {e, "No"}
  /\ a \in Buttons(e)
  /\ reply' = a
  /\ \/ UNCHANGED memory
     \/ always /\ memory' = [memory EXCEPT ![e] = a]
  /\ UNCHANGED <<open, decision>>

Decide(a) ==
  /\ open # "No"
  /\ \/ reply # "No" /\ a = reply /\ reply' = "No"
     \/ a = memory[open] /\ a # "No" /\ UNCHANGED reply
     \/ reply = "No" /\ a \in Own(open) /\ UNCHANGED reply
     \/ a = "Cancel" /\ UNCHANGED reply
  /\ open' = "No" /\ decision' = a
  /\ UNCHANGED memory

(* The job is stopped while the decision is on its way.                    *)
Overrule ==
  /\ decision # "No"
  /\ decision' = "Cancel"
  /\ UNCHANGED <<open, reply, memory>>

(* The caller has acted on the decision.                                   *)
Act ==
  /\ open = "No"
  /\ decision' = "No"
  /\ UNCHANGED <<open, reply, memory>>

Next ==
  \/ \E e \in Errors : Raise(e)
  \/ \E a \in Actions, e \in Errors, always \in BOOLEAN : Reply(a, e, always)
  \/ \E a \in Actions : Decide(a)
  \/ Overrule \/ Act

Spec == Init /\ [][Next]_vars

=============================================================================
