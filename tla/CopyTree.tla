------------------------------ MODULE CopyTree ------------------------------
(***************************************************************************)
(* The walk of a DFileCopyMoveJob over its sources: the loop of run(),     *)
(* doProcess() for each entry, mergeDirectory() for each directory, and    *)
(* what they make of the answers to their questions.                       *)
(*                                                                         *)
(* One file is transferred in one step, with the outcomes FileTransfer     *)
(* allows; CopyFile implements those.  handleError() is CopyJobControl's:  *)
(* a question gets any of the answers its caller may be given.             *)
(*                                                                         *)
(* The target directory holds for every source at most one entry of the    *)
(* same name.  Not modelled: a target inside its own source, a job whose   *)
(* target is the directory of its source, and special files, which differ  *)
(* from Unusable in the error only.                                        *)
(***************************************************************************)
EXTENDS Naturals, Sequences

CONSTANTS
  Nodes,      (* the files, links and directories below the sources         *)
  Parent,     (* the directory of each; Top for the sources themselves      *)
  Kind,       (* "file", "link" or "dir"                                     *)
  Top,
  MaxFaults   (* bound of the model: failures of the file system            *)

ASSUME CopyTreeAssumption ==
  /\ Top \notin Nodes
  /\ Parent \in [Nodes -> Nodes \union {Top}]
  /\ Kind \in [Nodes -> {"file", "link", "dir"}]
  /\ \A n \in Nodes : Parent[n] = Top \/ Kind[Parent[n]] = "dir"
  /\ MaxFaults \in Nat

VARIABLES
  mode,       (* "copy", "move", or "delete": a move without a target       *)
  src,        (* whether an entry is still in its source                    *)
  foreign,    (* what the target holds of old under the name of an entry    *)
  made,       (* what the job made of an entry in the target                *)
  where,      (* the name an entry gets there                               *)
  spoilt,     (* entries written through an old link of the target          *)
  stack,      (* the directories being merged, the loop of run() last       *)
  cur,        (* the entry being processed                                  *)
  pc,
  lastErrorHandleAction,
  reported,   (* sources of completedFileList and completedDirectoryList     *)
  faults,
  agreed,     (* history: entries whose conflict was answered with Replace   *)
  skipped     (* history: entries for which something was skipped            *)

files == <<src, foreign, made, spoilt>>
hist  == <<reported, agreed, skipped>>
vars  == <<mode, files, where, stack, cur, pc, lastErrorHandleAction, faults,
           hist>>

Children(d) == {n \in Nodes : Parent[n] = d}

(* The directories above an entry: the smallest set that has its directory, *)
(* and the directory of each of its members.                               *)
Above ==
  [n \in Nodes |->
     {a \in Nodes : \A S \in SUBSET Nodes :
        (\A m \in S \union {n} : Parent[m] \in S \union {Top}) => a \in S}]

Below(d) == {n \in Nodes : d \in Above[n]}

(* Every entry is a source or lies below one.                              *)
ASSUME EntriesHaveSources ==
  \A n \in Nodes : \E a \in Above[n] \union {n} : Parent[a] = Top

(* What is in the way of an entry: nothing, once a directory above it or    *)
(* the entry itself got another name.                                       *)
Occupant(n) ==
  IF \E d \in Above[n] \union {n} : where[d] = "copy" THEN "none" ELSE foreign[n]

Init ==
  /\ mode \in {"copy", "move", "delete"}
  /\ src = [n \in Nodes |-> "there"]
  /\ foreign \in [Nodes -> {"none", "file", "link", "dir"}]
  /\ \A n \in Nodes : foreign[n] # "none" =>
       mode # "delete" /\ \A d \in Above[n] : foreign[d] = "dir"
  /\ made = [n \in Nodes |-> "nothing"]
  /\ where = [n \in Nodes |-> "name"]
  /\ spoilt = {}
  /\ stack = <<[dir |-> Top, todo |-> Children(Top), skip |-> "no"]>>
  /\ cur = Top /\ pc = "loop"
  /\ lastErrorHandleAction = "No"
  /\ reported = {} /\ faults = 0 /\ agreed = {} /\ skipped = {}

-----------------------------------------------------------------------------

(* The question about a failure: Retry goes to `retry`, Skip to `skip`, and *)
(* the others end the job.                                                  *)
Ask(retry, skip) ==
  /\ faults < MaxFaults /\ faults' = faults + 1
  /\ \/ /\ lastErrorHandleAction' = "Retry" /\ pc' = retry
        /\ UNCHANGED skipped
     \/ /\ lastErrorHandleAction' = "Skip" /\ pc' = skip
        /\ skipped' = skipped \union {cur}
     \/ /\ lastErrorHandleAction' = "Cancel" /\ pc' = "failed"
        /\ UNCHANGED skipped
  /\ UNCHANGED <<reported, agreed>>

GoTo(to) == /\ pc' = to
            /\ UNCHANGED <<lastErrorHandleAction, faults, hist>>

-----------------------------------------------------------------------------
(* The loops of run() and of mergeDirectory(), and process().              *)

Take(n) ==
  /\ pc = "loop" /\ n \in Head(stack).todo
  /\ stack' = <<[Head(stack) EXCEPT !.todo = @ \ {n}]>> \o Tail(stack)
  /\ cur' = n /\ lastErrorHandleAction' = "No"
  /\ pc' = "process"
  /\ UNCHANGED <<mode, files, where, faults, hist>>

(* run() passes over a source it gets no information about.                *)
Unsupported ==
  /\ pc = "loop" /\ Len(stack) = 1
  /\ \E n \in Head(stack).todo :
       /\ stack' = <<[Head(stack) EXCEPT !.todo = @ \ {n}]>>
       /\ skipped' = skipped \union {n}
  /\ UNCHANGED <<mode, files, where, cur, pc, lastErrorHandleAction, faults,
                 reported, agreed>>

(* stateCheck() fails.                                                     *)
Stopped ==
  /\ pc = "loop" /\ Head(stack).todo # {}
  /\ GoTo("failed")
  /\ UNCHANGED <<mode, files, where, stack, cur>>

LeaveToTheEnd ==
  /\ pc = "loop" /\ Head(stack).todo = {}
  /\ cur' = Head(stack).dir
  /\ stack' = Tail(stack)
  /\ GoTo(IF mode = "copy" \/ Head(stack).skip = "yes" THEN "return" ELSE "remove")
  /\ UNCHANGED <<mode, files, where>>

(* A directory that was copied, or where something was skipped, stays.     *)
Leave ==
  /\ pc = "loop" /\ Head(stack).todo = {} /\ Len(stack) > 1
  /\ cur' = Head(stack).dir
  /\ stack' = Tail(stack)
  /\ GoTo(IF mode = "copy" \/ Head(stack).skip = "yes" THEN "return" ELSE "remove")
  /\ UNCHANGED <<mode, files, where>>

Finish ==
  /\ pc = "loop" /\ Head(stack).todo = {} /\ Len(stack) = 1
  /\ GoTo("finished")
  /\ UNCHANGED <<mode, files, where, stack, cur>>

ReturnReported ==
  /\ pc = "return"
  /\ IF FALSE
       THEN /\ stack' = <<[Head(stack) EXCEPT !.skip = "yes"]>> \o Tail(stack)
            /\ UNCHANGED reported
       ELSE /\ reported' = reported \union {cur}
            /\ UNCHANGED stack
  /\ pc' = "loop"
  /\ UNCHANGED <<mode, files, where, cur, lastErrorHandleAction, faults, agreed,
                 skipped>>

(* process() has returned true: joinToCompletedFileList() or ...Directory- *)
(* List(), and the caller's look at the last action.                       *)
Return ==
  /\ pc = "return"
  /\ IF lastErrorHandleAction = "Skip"
       THEN /\ stack' = <<[Head(stack) EXCEPT !.skip = "yes"]>> \o Tail(stack)
            /\ UNCHANGED reported
       ELSE /\ reported' = reported \union {cur}
            /\ UNCHANGED stack
  /\ pc' = "loop"
  /\ UNCHANGED <<mode, files, where, cur, lastErrorHandleAction, faults, agreed,
                 skipped>>

-----------------------------------------------------------------------------
(* doProcess(): the entry and what is in its way.                          *)

(* No information, no such file, or a device.                              *)
Unusable ==
  /\ pc = "process"
  /\ Ask("failed", "return")
  /\ UNCHANGED <<mode, files, where, stack, cur>>

Delete ==
  /\ pc = "process" /\ mode = "delete"
  /\ GoTo(IF Kind[cur] = "dir" THEN "enter" ELSE "remove")
  /\ UNCHANGED <<mode, files, where, stack, cur>>

Unoccupied ==
  /\ pc = "process" /\ mode # "delete" /\ Occupant(cur) = "none"
  /\ GoTo("place")
  /\ UNCHANGED <<mode, files, where, stack, cur>>

ConflictKeepsName ==
  /\ pc = "process" /\ mode # "delete" /\ Occupant(cur) # "none"
  /\ \/ /\ (Kind[cur] = "dir") = (Occupant(cur) = "dir")
        /\ lastErrorHandleAction' = IF Kind[cur] = "dir" THEN "Merge" ELSE "Replace"
        /\ pc' = "place"
        /\ agreed' = agreed \union {cur}
        /\ UNCHANGED <<where, skipped>>
     \/ /\ lastErrorHandleAction' = "Coexist"
        /\ UNCHANGED where
        /\ pc' = "place"
        /\ UNCHANGED <<agreed, skipped>>
     \/ /\ lastErrorHandleAction' = "Skip"
        /\ skipped' = skipped \union {cur}
        /\ pc' = "return"
        /\ UNCHANGED <<where, agreed>>
     \/ /\ lastErrorHandleAction' \in {"Cancel", "Replace", "Merge"}
        /\ lastErrorHandleAction' # "Cancel" =>
             (Kind[cur] = "dir") # (Occupant(cur) = "dir")
        /\ pc' = "failed"
        /\ UNCHANGED <<where, agreed, skipped>>
  /\ UNCHANGED <<mode, files, stack, cur, reported, faults>>

(* FileExistsError or DirectoryExistsError: a file may replace a file, a   *)
(* directory merge with a directory.                                       *)
Conflict ==
  /\ pc = "process" /\ mode # "delete" /\ Occupant(cur) # "none"
  /\ \/ /\ (Kind[cur] = "dir") = (Occupant(cur) = "dir")
        /\ lastErrorHandleAction' = IF Kind[cur] = "dir" THEN "Merge" ELSE "Replace"
        /\ pc' = "place"
        /\ agreed' = agreed \union {cur}
        /\ UNCHANGED <<where, skipped>>
     \/ /\ lastErrorHandleAction' = "Coexist"
        /\ where' = [where EXCEPT ![cur] = "copy"]
        /\ pc' = "place"
        /\ UNCHANGED <<agreed, skipped>>
     \/ /\ lastErrorHandleAction' = "Skip"
        /\ skipped' = skipped \union {cur}
        /\ pc' = "return"
        /\ UNCHANGED <<where, agreed>>
     \/ /\ lastErrorHandleAction' \in {"Cancel", "Replace", "Merge"}
        /\ lastErrorHandleAction' # "Cancel" =>
             (Kind[cur] = "dir") # (Occupant(cur) = "dir")
        /\ pc' = "failed"
        /\ UNCHANGED <<where, agreed, skipped>>
  /\ UNCHANGED <<mode, files, stack, cur, reported, faults>>

-----------------------------------------------------------------------------
(* doProcess(): files and links.                                           *)

(* Too little space; a file that is too large is the same without Retry.   *)
NoSpace ==
  /\ pc = "place" /\ Kind[cur] = "file"
  /\ Ask("place", "return")
  /\ UNCHANGED <<mode, files, where, stack, cur>>

(* A copy does not write through an old link, and a link needs its place.  *)
MustClear ==
  /\ mode = "copy"
  /\ \/ Kind[cur] = "file" /\ Occupant(cur) = "link"
     \/ Kind[cur] = "link" /\ Occupant(cur) # "none"

Clear ==
  /\ pc = "place" /\ MustClear
  /\ foreign' = [foreign EXCEPT ![cur] = "none"]
  /\ GoTo("transfer")
  /\ UNCHANGED <<mode, src, made, spoilt, where, stack, cur>>

(* doRemoveFile() returns true when it is skipped: the copy goes on.       *)
ClearFails ==
  /\ pc = "place" /\ MustClear
  /\ Ask("place", "transfer")
  /\ UNCHANGED <<mode, files, where, stack, cur>>

NoNeedToClear ==
  /\ pc = "place" /\ Kind[cur] # "dir" /\ ~MustClear
  /\ GoTo("transfer")
  /\ UNCHANGED <<mode, files, where, stack, cur>>

Copies == Kind[cur] = "file" \/ mode = "move"

(* Content that goes to the entry's place goes through an old link.        *)
Fill(content) ==
  /\ made' = [made EXCEPT ![cur] = content]
  /\ IF Occupant(cur) = "link"
       THEN spoilt' = spoilt \union {cur} /\ UNCHANGED foreign
       ELSE /\ foreign' = IF Occupant(cur) = "none" THEN foreign
                          ELSE [foreign EXCEPT ![cur] = "none"]
            /\ UNCHANGED spoilt

(* rename() replaces what is in the way; it works in one file system only. *)
Rename ==
  /\ pc = "transfer" /\ mode = "move"
  /\ made' = [made EXCEPT ![cur] = "whole"]
  /\ src' = [src EXCEPT ![cur] = "gone"]
  /\ foreign' = IF Occupant(cur) = "none" THEN foreign
                ELSE [foreign EXCEPT ![cur] = "none"]
  /\ GoTo("return")
  /\ UNCHANGED <<mode, where, spoilt, stack, cur>>

(* The outcome "done" of FileTransfer.                                     *)
Transferred ==
  /\ pc \in {"transfer", "copying"} /\ Copies
  /\ Fill("whole")
  /\ src' = IF mode = "move" THEN [src EXCEPT ![cur] = "gone"] ELSE src
  /\ GoTo("return")
  /\ UNCHANGED <<mode, where, stack, cur>>

NotTransferredButRemoved ==
  /\ pc \in {"transfer", "copying"} /\ Copies
  /\ \/ \E content \in {"partial", "whole"} : Fill(content)
     \/ UNCHANGED <<made, spoilt, foreign>>
  /\ Ask("copying", "return") \/ GoTo("failed")
  /\ src' = IF mode = "move" /\ lastErrorHandleAction' = "Skip"
              THEN [src EXCEPT ![cur] = "gone"] ELSE src
  /\ UNCHANGED <<mode, where, stack, cur>>

(* The outcomes "skipped" and "failed", with the target in any condition;  *)
(* after Retry it goes on, but not with another rename().  A stop fails    *)
(* without a question.                                                     *)
NotTransferred ==
  /\ pc \in {"transfer", "copying"} /\ Copies
  /\ \/ \E content \in {"partial", "whole"} : Fill(content)
     \/ UNCHANGED <<made, spoilt, foreign>>
  /\ Ask("copying", "return") \/ GoTo("failed")
  /\ UNCHANGED <<mode, src, where, stack, cur>>

(* doLinkFile(): symlink() fails where something is left in the way.       *)
Link ==
  /\ pc = "transfer" /\ ~Copies /\ Occupant(cur) = "none"
  /\ made' = [made EXCEPT ![cur] = "whole"]
  /\ GoTo("return")
  /\ UNCHANGED <<mode, src, foreign, spoilt, where, stack, cur>>

LinkFails ==
  /\ pc = "transfer" /\ ~Copies
  /\ Ask("transfer", "return")
  /\ UNCHANGED <<mode, files, where, stack, cur>>

-----------------------------------------------------------------------------
(* doProcess() and mergeDirectory(): directories.                          *)

(* A directory is renamed with all that is below it, in place of nothing   *)
(* or of an empty directory.                                               *)
RenameDirectory ==
  /\ pc = "place" /\ Kind[cur] = "dir" /\ mode = "move"
  /\ \A n \in Below(cur) : foreign[n] = "none" \/ Occupant(cur) = "none"
  /\ src' = [n \in Nodes |-> IF n \in Below(cur) \union {cur} THEN "gone" ELSE src[n]]
  /\ made' = [n \in Nodes |-> IF n \in Below(cur) \union {cur} THEN "whole" ELSE made[n]]
  /\ foreign' = IF Occupant(cur) = "none" THEN foreign
                ELSE [foreign EXCEPT ![cur] = "none"]
  /\ GoTo("return")
  /\ UNCHANGED <<mode, spoilt, where, stack, cur>>

Merge ==
  /\ pc = "place" /\ Kind[cur] = "dir"
  /\ GoTo(IF Occupant(cur) = "none" THEN "mkdir" ELSE "enter")
  /\ UNCHANGED <<mode, files, where, stack, cur>>

Mkdir ==
  /\ pc \in {"mkdir", "mkdirAgain"} /\ made[cur] = "nothing"
  /\ made' = [made EXCEPT ![cur] = "whole"]
  /\ GoTo(IF pc = "mkdir" THEN "enter" ELSE "mkdirAgain")
  /\ UNCHANGED <<mode, src, foreign, spoilt, where, stack, cur>>

(* After Retry the loop does not end with success: the next mkdir() finds  *)
(* the directory there and fails again.                                    *)
MkdirFails ==
  /\ pc \in {"mkdir", "mkdirAgain"}
  /\ Ask("mkdirAgain", "return")
  /\ UNCHANGED <<mode, files, where, stack, cur>>

EnterOrPass ==
  /\ pc = "enter"
  /\ \/ /\ stack' = <<[dir |-> cur, todo |-> {n \in Children(cur) : src[n] = "there"},
                       skip |-> "no"]>> \o stack
        /\ GoTo("loop")
     \/ /\ GoTo("return")
        /\ UNCHANGED stack
  /\ UNCHANGED <<mode, files, where, cur>>

(* The iterator may not be created: the job ends without a question.       *)
Enter ==
  /\ pc = "enter"
  /\ \/ /\ stack' = <<[dir |-> cur, todo |-> {n \in Children(cur) : src[n] = "there"},
                       skip |-> "no"]>> \o stack
        /\ GoTo("loop")
     \/ /\ GoTo("failed")
        /\ UNCHANGED stack
  /\ UNCHANGED <<mode, files, where, cur>>

-----------------------------------------------------------------------------
(* doRemoveFile(): the file of a deletion, or an emptied directory.        *)

Remove ==
  /\ pc = "remove"
  /\ \A n \in Children(cur) : src[n] = "gone"
  /\ src' = [src EXCEPT ![cur] = "gone"]
  /\ GoTo("return")
  /\ UNCHANGED <<mode, foreign, made, spoilt, where, stack, cur>>

RemoveFails ==
  /\ pc = "remove"
  /\ Ask("remove", "return")
  /\ UNCHANGED <<mode, files, where, stack, cur>>

-----------------------------------------------------------------------------

Walk == (\E n \in Nodes : Take(n)) \/ Unsupported \/ Stopped
        \/ Leave \/ Finish \/ Return

Begin == Unusable \/ Delete \/ Unoccupied \/ Conflict

Transfer ==
  \/ NoSpace \/ Clear \/ ClearFails \/ NoNeedToClear
  \/ Rename \/ Transferred \/ NotTransferred \/ Link \/ LinkFails

Directory == RenameDirectory \/ Merge \/ Mkdir \/ MkdirFails \/ Enter

Next == Walk \/ Begin \/ Transfer \/ Directory \/ Remove \/ RemoveFails

Spec == Init /\ [][Next]_vars

-----------------------------------------------------------------------------

Actions == {"No", "Retry", "Skip", "Cancel", "Replace", "Merge", "Coexist"}

Frames == [dir : Nodes \union {Top}, todo : SUBSET Nodes, skip : {"yes", "no"}]

(* Every variable has a value of its kind, and the loop of run() is never  *)
(* left before the end.                                                    *)
TypeOK ==
  /\ mode \in {"copy", "move", "delete"}
  /\ src \in [Nodes -> {"there", "gone"}]
  /\ foreign \in [Nodes -> {"none", "file", "link", "dir"}]
  /\ made \in [Nodes -> {"nothing", "partial", "whole"}]
  /\ where \in [Nodes -> {"name", "copy"}]
  /\ spoilt \subseteq Nodes
  /\ stack \in Seq(Frames) /\ stack # <<>>
  /\ cur \in Nodes \union {Top}
  /\ pc \in {"loop", "process", "place", "transfer", "copying", "mkdir",
             "mkdirAgain", "enter", "remove", "return", "finished", "failed"}
  /\ pc \notin {"loop", "finished", "failed"} => cur \in Nodes
  /\ lastErrorHandleAction \in Actions
  /\ reported \subseteq Nodes /\ agreed \subseteq Nodes /\ skipped \subseteq Nodes
  /\ faults \in 0..MaxFaults

(* An entry is in the target, a directory maybe as the one it merged with. *)
Arrived(n) == made[n] = "whole" \/ (Kind[n] = "dir" /\ n \in agreed)

(* What a move has taken from the source is in the target, entry by entry: *)
(* a directory is renamed with all its entries or goes behind them.  And a *)
(* copy does not write through a link that it replaces, unless the link    *)
(* could not be removed and the user skipped just this.                    *)
NothingLost ==
  /\ mode = "move" => \A n \in Nodes : src[n] = "gone" => Arrived(n)
  /\ mode = "copy" => spoilt \subseteq skipped

(* Nothing old in the target is replaced but where the user said so.       *)
OnlyAgreedReplaced ==
  [][\A n \in Nodes : foreign'[n] # foreign[n] => n \in agreed]_vars

(* A file that is reported as completed is: there as a whole, or gone.     *)
ReportedIsDone ==
  \A n \in reported : Kind[n] # "dir" =>
    /\ mode # "delete" => made[n] = "whole"
    /\ mode # "copy" => src[n] = "gone"

(* A job that goes through has transferred every entry, and emptied the    *)
(* source of a move, but for what was skipped, below it or above it.       *)
CompleteUnlessSkipped ==
  pc = "finished" =>
    \A n \in Nodes : (Above[n] \union {n} \union Below(n)) \intersect skipped = {} =>
      /\ mode # "delete" => Arrived(n)
      /\ mode # "copy" => src[n] = "gone"

=============================================================================
