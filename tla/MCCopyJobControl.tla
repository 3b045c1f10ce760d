-------------------------- MODULE MCCopyJobControl --------------------------
(* CopyJobControl for TLC.  Every call of handleError() is made, and a     *)
(* conflict and the reopening, which differ most in what their callers do  *)
(* with the answer, are made twice and behind each other.                  *)
EXTENDS CopyJobControl

MCRepeats == {"FileExists", "Reopen"}

=============================================================================
