---------------------------- MODULE MCRequestEP -----------------------------
(* RequestEP for TLC.  Two infos are enough for one to be in the hand of    *)
(* the thread while the other is behind it in the queue, and two timeouts   *)
(* for an info that asks again while its first request is under way.        *)
EXTENDS RequestEP

MCFiles == {"a", "b"}

=============================================================================
