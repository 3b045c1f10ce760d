------------------------------ MODULE CopyFile ------------------------------
(***************************************************************************)
(* One file in a DFileCopyMoveJob: doRenameFile() for a move, doCopyFile() *)
(* for a copy and for a move that cannot rename, doRemoveFile() for the    *)
(* source of a move, and what joinToCompletedFileList() reports.           *)
(*                                                                         *)
(* The file has Size units and is read Block units at a time.  Unit i of   *)
(* the source is the number i; a file is a function from positions to      *)
(* units, 0 where there is none and Alien where there is another file's or *)
(* a damaged one.  A checksum is the content it was made from: collisions  *)
(* of adler32 are left out.                                                *)
(*                                                                         *)
(* handleError() is CopyJobControl's: here every question gets any of the  *)
(* answers that the dialog, the memory or the defaults give to it.  A      *)
(* stateCheck() may fail at any time.  The hints that no caller of the job *)
(* sets are not modelled (ResizeDestinationFile, DontIntegrityChecking).   *)
(*                                                                         *)
(* As in CopyJobControl, an unused definition just before another of the   *)
(* same shape is a plausible bug that violates a property.                 *)
(***************************************************************************)
EXTENDS Integers

CONSTANTS Size, Block,
          MaxFaults    (* bound of the model: failures of the file system    *)

ASSUME CopyFileAssumption ==
  Size \in Nat /\ Block \in Nat \ {0} /\ MaxFaults \in Nat

VARIABLES
  mode,
  source,     (* whether the source is still there                          *)
  target,     (* content of the target                                      *)
  toOpen,     (* how the device of the target is open                       *)
  fromPos, toPos,
  chunk,      (* size_read                                                  *)
  rest,       (* the part of the chunk that is not written yet              *)
  sum,        (* source_checksum                                            *)
  counted,    (* completedDataSize                                          *)
  sized,      (* whether currentJobDataSizeInfo.first is set                *)
  lastErrorHandleAction,
  pc,
  outcome,
  faults,     (* failures so far                                            *)
  again       (* history: whether data was written a second time            *)

devices == <<toOpen, fromPos, toPos, chunk, rest, sum>>
count   == <<counted, sized>>
vars    == <<mode, source, target, devices, count, lastErrorHandleAction, pc,
             outcome, faults, again>>

Alien     == -1
Positions == 1..(Size + Block)
Empty     == [i \in Positions |-> 0]
Whole     == [i \in Positions |-> IF i <= Size THEN i ELSE 0]

Min(a, b) == IF a < b THEN a ELSE b

Init ==
  /\ mode \in {"copy", "move"}
  /\ source = "there"
  /\ target = [i \in Positions |-> Alien]
  /\ toOpen = "no" /\ fromPos = 0 /\ toPos = 0 /\ chunk = 0 /\ rest = 0
  /\ sum = Empty
  /\ counted = 0 /\ sized = "no"
  /\ lastErrorHandleAction = "No"
  /\ pc = IF mode = "copy" THEN "openFrom" ELSE "rename"
  /\ outcome = "open" /\ faults = 0 /\ again = "no"

-----------------------------------------------------------------------------
(* Failures and questions.                                                 *)

Fails ==
  /\ faults < MaxFaults
  /\ faults' = faults + 1

(* The answer Retry leads to a place of `retry`, Skip and the others to    *)
(* the return of the function, with true and with false.                   *)
AskOr(retry, others) ==
  \/ lastErrorHandleAction' = "Retry"  /\ pc' \in retry
  \/ lastErrorHandleAction' = "Skip"   /\ pc' = "copied"
  \/ lastErrorHandleAction' = "Cancel" /\ pc' = others

Ask(retry) == AskOr(retry, "failed")

-----------------------------------------------------------------------------
(* doRenameFile(): within one file system rename() is enough.              *)

Rename ==
  /\ pc = "rename"
  /\ source' = "gone" /\ target' = Whole
  /\ pc' = "join"
  /\ UNCHANGED <<mode, devices, count, lastErrorHandleAction, outcome, faults,
                 again>>

RenameFails ==
  /\ pc = "rename"
  /\ pc' = "openFrom"
  /\ UNCHANGED <<mode, source, target, devices, count, lastErrorHandleAction,
                 outcome, faults, again>>

-----------------------------------------------------------------------------
(* doCopyFile(): open both files, truncating the target.                   *)

OpenFrom ==
  /\ pc = "openFrom"
  /\ pc' = "openTo"
  /\ UNCHANGED <<mode, source, target, devices, count, lastErrorHandleAction,
                 outcome, faults, again>>

OpenFails ==
  /\ pc \in {"openFrom", "openTo"}
  /\ Fails \/ (pc = "openTo" /\ toOpen = "read" /\ UNCHANGED faults)
  /\ Ask({pc})
  /\ UNCHANGED <<mode, source, target, devices, count, outcome, again>>

OpenTo ==
  /\ pc = "openTo" /\ toOpen = "no"
  /\ toOpen' = "write" /\ target' = Empty
  /\ fromPos' = 0 /\ toPos' = 0 /\ sum' = Empty
  /\ sized' = "yes"
  /\ pc' = "read"
  /\ UNCHANGED <<mode, source, chunk, rest, counted, lastErrorHandleAction,
                 outcome, faults, again>>

(* doCopyFile(): the loop.  stateCheck() comes before every read and before *)
(* the first write of a chunk, after the closing and between the reads of   *)
(* the integrity check.                                                     *)
Stopped ==
  /\ \/ pc \in {"read", "closed"}
     \/ pc = "write" /\ rest = chunk
     \/ pc = "verify" /\ toOpen = "read" /\ target # Empty
  /\ pc' = "failed"
  /\ UNCHANGED <<mode, source, target, devices, count, lastErrorHandleAction,
                 outcome, faults, again>>

ReadPastEnd(n) ==
  /\ pc = "read" /\ fromPos < Size
  /\ fromPos' = fromPos + n /\ chunk' = n /\ rest' = n
  /\ pc' = "write"
  /\ UNCHANGED <<mode, source, target, toOpen, toPos, sum, count,
                 lastErrorHandleAction, outcome, faults, again>>

Read(n) ==
  /\ pc = "read" /\ n <= Min(Block, Size - fromPos)
  /\ fromPos' = fromPos + n /\ chunk' = n /\ rest' = n
  /\ pc' = "write"
  /\ UNCHANGED <<mode, source, target, toOpen, toPos, sum, count,
                 lastErrorHandleAction, outcome, faults, again>>

(* Retry seeks back, which may fail.                                       *)
ReadFails ==
  /\ pc = "read" /\ fromPos < Size /\ Fails
  /\ Ask({"read", "failed"})
  /\ UNCHANGED <<mode, source, target, devices, count, outcome, again>>

WrittenFromChunk(n) ==
  [i \in Positions |-> IF toPos < i /\ i <= toPos + n
                         THEN fromPos - chunk + (i - toPos) ELSE target[i]]

(* The units of the chunk go to the target in order.                       *)
Written(n) ==
  [i \in Positions |-> IF toPos < i /\ i <= toPos + n
                         THEN fromPos - rest + (i - toPos) ELSE target[i]]

Summed ==
  [i \in Positions |-> IF fromPos - chunk < i /\ i <= fromPos THEN i ELSE sum[i]]

WriteCountsLast(n) ==
  /\ pc = "write" /\ n <= rest
  /\ target' = Written(n)
  /\ toPos' = toPos + n /\ rest' = rest - n
  /\ IF n = rest THEN counted' = counted + n /\ sum' = Summed /\ pc' = "read"
                 ELSE UNCHANGED <<counted, sum, pc>>
  /\ UNCHANGED <<mode, source, toOpen, fromPos, chunk, sized,
                 lastErrorHandleAction, outcome, faults, again>>

(* A write may take a part of what it is given; the rest is written next.  *)
Write(n) ==
  /\ pc = "write" /\ n <= rest
  /\ target' = Written(n)
  /\ toPos' = toPos + n /\ rest' = rest - n
  /\ counted' = counted + n
  /\ IF n = rest THEN sum' = Summed /\ pc' = "read"
                 ELSE UNCHANGED <<sum, pc>>
  /\ UNCHANGED <<mode, source, toOpen, fromPos, chunk, sized,
                 lastErrorHandleAction, outcome, faults, again>>

(* Retry seeks to where the chunk begins and writes all of it again.       *)
WriteFails ==
  /\ pc = "write" /\ Fails
  /\ Ask({"write", "failed"})
  /\ IF pc' = "write"
       THEN /\ toPos' = toPos - (chunk - rest) /\ rest' = chunk
            /\ again' = IF rest < chunk THEN "yes" ELSE again
       ELSE UNCHANGED <<toPos, rest, again>>
  /\ UNCHANGED <<mode, source, target, toOpen, fromPos, chunk, sum, count,
                 outcome>>

(* The end of the source: both files are closed.  What was written may be   *)
(* damaged on its way to the disk.                                          *)
Close ==
  /\ pc = "read" /\ fromPos = Size
  /\ \/ UNCHANGED <<target, faults>>
     \/ Fails /\ \E i \in 1..Size : target' = [target EXCEPT ![i] = Alien]
  /\ toOpen' = "no"
  /\ pc' = "closed"
  /\ UNCHANGED <<mode, source, fromPos, toPos, chunk, rest, sum, count,
                 lastErrorHandleAction, outcome, again>>

-----------------------------------------------------------------------------
(* doCopyFile(): the integrity check.                                      *)

Reopen ==
  /\ pc = "closed"
  /\ toOpen' = "read"
  /\ pc' = "verify"
  /\ UNCHANGED <<mode, source, target, fromPos, toPos, chunk, rest, sum, count,
                 lastErrorHandleAction, outcome, faults, again>>

(* Cancel is not looked for: the check goes on with a device that is not   *)
(* open.                                                                   *)
ReopenFails ==
  /\ pc = "closed" /\ Fails
  /\ AskOr({"closed"}, "verify")
  /\ UNCHANGED <<mode, source, target, devices, count, outcome, again>>

VerifyFails ==
  /\ pc = "verify" /\ toOpen = "read" /\ Fails
  /\ Ask({"verify"})
  /\ UNCHANGED <<mode, source, target, devices, count, outcome, again>>

(* What is read from the target; a device that is not open is at its end.  *)
ReadBack == IF toOpen = "read" THEN target ELSE Empty

Verified ==
  /\ pc = "verify" /\ sum = ReadBack
  /\ pc' = "copied"
  /\ UNCHANGED <<mode, source, target, devices, count, lastErrorHandleAction,
                 outcome, faults, again>>

(* Retry opens the source again, and the target though it is still open.   *)
Damaged ==
  /\ pc = "verify" /\ sum # ReadBack
  /\ Ask({"openFrom"})
  /\ again' = "yes"
  /\ UNCHANGED <<mode, source, target, devices, count, outcome, faults>>

-----------------------------------------------------------------------------
(* doRenameFile() after the copy, doRemoveFile() and the report.           *)

CopiedEvenSkipped ==
  /\ pc = "copied"
  /\ pc' = IF mode = "copy" THEN "join" ELSE "remove"
  /\ UNCHANGED <<mode, source, target, devices, count, lastErrorHandleAction,
                 outcome, faults, again>>

Copied ==
  /\ pc = "copied"
  /\ pc' = IF mode = "copy" \/ lastErrorHandleAction = "Skip" THEN "join"
                                                              ELSE "remove"
  /\ UNCHANGED <<mode, source, target, devices, count, lastErrorHandleAction,
                 outcome, faults, again>>

RemoveSource ==
  /\ pc = "remove"
  /\ source' = "gone"
  /\ pc' = "join"
  /\ UNCHANGED <<mode, target, devices, count, lastErrorHandleAction, outcome,
                 faults, again>>

RemoveFails ==
  /\ pc = "remove" /\ Fails
  /\ \/ lastErrorHandleAction' = "Retry"  /\ pc' = "remove"
     \/ lastErrorHandleAction' = "Skip"   /\ pc' = "join"
     \/ lastErrorHandleAction' = "Cancel" /\ pc' = "failed"
  /\ UNCHANGED <<mode, source, target, devices, count, outcome, again>>

JoinEvenSkipped ==
  /\ pc = "join"
  /\ counted' = IF sized = "yes" THEN counted ELSE counted + Size
  /\ outcome' = "done"
  /\ pc' = "over"
  /\ UNCHANGED <<mode, source, target, devices, sized, lastErrorHandleAction,
                 faults, again>>

(* joinToCompletedFileList()                                               *)
Join ==
  /\ pc = "join"
  /\ counted' = IF sized = "yes" THEN counted ELSE counted + Size
  /\ outcome' = IF lastErrorHandleAction = "Skip" THEN "skipped" ELSE "done"
  /\ pc' = "over"
  /\ UNCHANGED <<mode, source, target, devices, sized, lastErrorHandleAction,
                 faults, again>>

Failed ==
  /\ pc = "failed"
  /\ outcome' = "failed"
  /\ pc' = "over"
  /\ UNCHANGED <<mode, source, target, devices, count, lastErrorHandleAction,
                 faults, again>>

-----------------------------------------------------------------------------

Copying ==
  \/ OpenFrom \/ OpenFails \/ OpenTo \/ Stopped
  \/ \E n \in 1..Block : Read(n) \/ Write(n)
  \/ ReadFails \/ WriteFails \/ Close

Checking == Reopen \/ ReopenFails \/ VerifyFails \/ Verified \/ Damaged

Moving == Rename \/ RenameFails \/ Copied \/ RemoveSource \/ RemoveFails

Next == Copying \/ Checking \/ Moving \/ Join \/ Failed

Spec == Init /\ [][Next]_vars

-----------------------------------------------------------------------------

Content == [Positions -> -1..(Size + Block)]

(* Every variable has a value of its kind, and nothing is read or written  *)
(* beyond the end of the source.                                           *)
TypeOK ==
  /\ mode \in {"copy", "move"}
  /\ source \in {"there", "gone"}
  /\ target \in Content
  /\ toOpen \in {"no", "read", "write"}
  /\ fromPos \in 0..Size /\ toPos \in 0..Size
  /\ chunk \in 0..Block /\ rest \in 0..chunk
  /\ sum \in Content
  /\ counted \in Nat /\ sized \in {"yes", "no"}
  /\ lastErrorHandleAction \in {"No", "Retry", "Skip", "Cancel"}
  /\ pc \in {"rename", "openFrom", "openTo", "read", "write", "closed", "verify",
             "copied", "remove", "join", "failed", "over"}
  /\ outcome \in {"open", "done", "skipped", "failed"}
  /\ faults \in 0..MaxFaults
  /\ again \in {"yes", "no"}

(* A file that was moved away is whole at its target, whatever failed and  *)
(* whatever the user answered.                                             *)
NeverLost == source = "gone" => target = Whole

(* While it is written the target holds the source's units at their places *)
(* up to the write position: short writes and seeks leave no gap, and      *)
(* repeat nothing.                                                         *)
WrittenInOrder ==
  pc \in {"read", "write"} =>
    /\ toPos = fromPos - (IF pc = "write" THEN rest ELSE 0)
    /\ \A i \in 1..toPos : target[i] = i

(* A file that is reported counts with its full size, once, unless a part  *)
(* of it had to be written again: then the progress is ahead of the data.  *)
CountedOnce ==
  outcome = "done" => counted >= Size /\ (again = "no" => counted = Size)

-----------------------------------------------------------------------------

Transfer == INSTANCE FileTransfer WITH
  target <- IF target = Whole THEN "whole"
            ELSE IF target = [i \in Positions |-> Alien] THEN "before"
                                                         ELSE "partial"

(* The file is transferred as FileTransfer states it.                      *)
ImplementsTransfer == Transfer!Spec

=============================================================================
