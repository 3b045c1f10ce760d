--------------------------- MODULE CopyFileProofs ---------------------------
(***************************************************************************)
(* Proofs about CopyFile, for files and blocks of any size and any number  *)
(* of failures.                                                            *)
(***************************************************************************)
EXTENDS CopyFile, TLAPS

(* The first n units of the source, and nothing behind them.               *)
Prefix(n) == [i \in Positions |-> IF i <= n THEN i ELSE 0]

PositionsOK ==
  /\ pc = "read"  => toPos = fromPos
  /\ pc = "write" => toPos = fromPos - rest /\ chunk <= fromPos /\ rest >= 1

SumOK ==
  /\ pc = "read"  => sum = Prefix(fromPos)
  /\ pc = "write" => sum = Prefix(fromPos - chunk)
  /\ pc \in {"closed", "verify"} => sum = Whole

(* The target grows in order and never beyond the size of the source.      *)
TargetOK ==
  /\ pc \in {"read", "write"} => \A i \in Positions : i <= toPos => target[i] = i
  /\ pc \in {"read", "write", "closed", "verify"} =>
       \A i \in Positions : i > Size => target[i] = 0

(* Where doCopyFile() has returned true without a skip the copy is whole.  *)
ReturnOK ==
  /\ pc = "copied" => lastErrorHandleAction = "Skip" \/ target = Whole
  /\ pc = "remove" => /\ lastErrorHandleAction # "Skip" /\ target = Whole
                      /\ mode = "move"
  /\ pc = "join"   => \/ lastErrorHandleAction = "Skip"
                      \/ target = Whole /\ (mode = "move" => source = "gone")
  /\ pc = "rename" => mode = "move" /\ lastErrorHandleAction = "No"

SourceOK ==
  /\ source = "gone" => /\ target = Whole /\ pc \in {"join", "over"}
                        /\ lastErrorHandleAction # "Skip"
  /\ outcome = "open" <=> pc # "over"

CopyInv ==
  TypeOK /\ PositionsOK /\ SumOK /\ TargetOK /\ ReturnOK /\ SourceOK

-----------------------------------------------------------------------------
(* Facts about contents.                                                   *)

(* The contents that the program makes are contents.                       *)
LEMMA ContentsAreContent ==
  /\ Whole \in Content /\ Empty \in Content
  /\ \A n \in 0..Size : Prefix(n) \in Content
  /\ [i \in Positions |-> Alien] \in Content
  BY CopyFileAssumption DEF Whole, Empty, Prefix, Content, Positions, Alien

(* The source is copied from its empty prefix to the whole of it.          *)
LEMMA PrefixEnds == Prefix(0) = Empty /\ Prefix(Size) = Whole
  BY CopyFileAssumption DEF Prefix, Empty, Whole, Positions

(* Only the empty file is as a device that is not open reads.              *)
LEMMA EmptyIsEmpty ==
  ASSUME Whole = Empty PROVE Size = 0
<1> SUFFICES ASSUME Size # 0 PROVE FALSE
  OBVIOUS
<1>1. 1 \in Positions /\ Whole[1] = 1 /\ Empty[1] = 0
  BY CopyFileAssumption DEF Positions, Whole, Empty
<1> QED
  BY <1>1

(* A write puts units of the chunk behind what is written already.         *)
LEMMA WrittenExtends ==
  ASSUME TypeOK, PositionsOK, TargetOK, pc = "write",
         NEW n \in 1..Block, n <= rest
  PROVE  /\ Written(n) \in Content
         /\ \A i \in Positions : i <= toPos + n => Written(n)[i] = i
         /\ \A i \in Positions : i > Size => Written(n)[i] = 0
<1>1. toPos = fromPos - rest /\ fromPos <= Size /\ toPos \in Nat /\ rest \in Nat
      /\ fromPos \in Nat /\ n \in Nat
  BY CopyFileAssumption DEF TypeOK, PositionsOK
<1>2. \A i \in Positions :
        Written(n)[i] = IF toPos < i /\ i <= toPos + n THEN i ELSE target[i]
  BY <1>1, CopyFileAssumption DEF Written, Positions
<1>3. \A i \in Positions : i \in -1..(Size + Block)
  BY CopyFileAssumption DEF Positions
<1>4. Written(n) \in Content
  <2>1. \A i \in Positions : Written(n)[i] \in -1..(Size + Block)
    BY <1>2, <1>3 DEF TypeOK, Content
  <2>2. DOMAIN Written(n) = Positions /\ Written(n) = [i \in Positions |-> Written(n)[i]]
    BY DEF Written
  <2> QED
    BY <2>1, <2>2 DEF Content
<1>5. \A i \in Positions : i <= toPos + n => Written(n)[i] = i
  BY <1>1, <1>2, CopyFileAssumption DEF TargetOK, Positions
<1>6. \A i \in Positions : i > Size => Written(n)[i] = 0
  BY <1>1, <1>2, CopyFileAssumption DEF TargetOK, Positions
<1> QED
  BY <1>4, <1>5, <1>6

(* The checksum of a chunk extends that of the chunks before.              *)
LEMMA SummedExtends ==
  ASSUME TypeOK, PositionsOK, SumOK, pc = "write"
  PROVE  Summed = Prefix(fromPos)
<1>1. fromPos \in Nat /\ chunk \in Nat /\ chunk <= fromPos
  BY CopyFileAssumption DEF TypeOK, PositionsOK
<1> QED
  BY <1>1, CopyFileAssumption DEF Summed, Prefix, SumOK, Positions

(* A damaged file is still no longer than the source.                      *)
LEMMA DamageStaysInside ==
  ASSUME target \in Content, NEW k \in 1..Size
  PROVE  /\ [target EXCEPT ![k] = Alien] \in Content
         /\ \A i \in Positions : i > Size => [target EXCEPT ![k] = Alien][i] = target[i]
  BY CopyFileAssumption DEF Content, Positions, Alien

-----------------------------------------------------------------------------
(* The inductive invariant.                                                *)

(* Nothing is copied when the file is taken up.                            *)
LEMMA CopyInit == Init => CopyInv
<1> SUFFICES ASSUME Init PROVE CopyInv
  OBVIOUS
<1>1. TypeOK
  BY CopyFileAssumption, ContentsAreContent DEF Init, TypeOK
<1>2. PositionsOK /\ SumOK /\ TargetOK /\ ReturnOK /\ SourceOK
  BY DEF Init, PositionsOK, SumOK, TargetOK, ReturnOK, SourceOK
<1> QED
  BY <1>1, <1>2 DEF CopyInv

(* Every step keeps it.                                                    *)
LEMMA CopyStep == CopyInv /\ [Next]_vars => CopyInv'
<1> SUFFICES ASSUME CopyInv, [Next]_vars PROVE CopyInv'
  OBVIOUS
<1> USE CopyFileAssumption
<1>t. TypeOK /\ PositionsOK /\ SumOK /\ TargetOK /\ ReturnOK /\ SourceOK
  BY DEF CopyInv
<1>1. CASE Rename \/ RenameFails
  <2>1. TypeOK'
    BY <1>1, <1>t, ContentsAreContent
    DEF Rename, RenameFails, devices, count, TypeOK
  <2> QED
    BY <1>1, <1>t, <2>1
    DEF Rename, RenameFails, devices, CopyInv, PositionsOK, SumOK, TargetOK,
        ReturnOK, SourceOK
<1>2. CASE OpenFrom \/ OpenFails
  <2>1. TypeOK'
    BY <1>2, <1>t DEF OpenFrom, OpenFails, Ask, AskOr, Fails, devices, count, TypeOK
  <2> QED
    BY <1>2, <1>t, <2>1
    DEF OpenFrom, OpenFails, Ask, AskOr, devices, CopyInv, PositionsOK, SumOK,
        TargetOK, ReturnOK, SourceOK
<1>3. CASE OpenTo
  <2>1. TypeOK'
    BY <1>3, <1>t, ContentsAreContent DEF OpenTo, TypeOK
  <2>2. PositionsOK' /\ SumOK'
    BY <1>3, PrefixEnds DEF OpenTo, PositionsOK, SumOK, Prefix
  <2>3. TargetOK'
    BY <1>3 DEF OpenTo, TargetOK, Empty, Positions
  <2> QED
    BY <1>3, <1>t, <2>1, <2>2, <2>3 DEF OpenTo, CopyInv, ReturnOK, SourceOK
<1>4. CASE Stopped \/ Failed
  <2>1. TypeOK'
    BY <1>4, <1>t DEF Stopped, Failed, devices, count, TypeOK
  <2> QED
    BY <1>4, <1>t, <2>1
    DEF Stopped, Failed, devices, CopyInv, PositionsOK, SumOK, TargetOK,
        ReturnOK, SourceOK
<1>5. ASSUME NEW n \in 1..Block, Read(n) PROVE CopyInv'
  <2>1. n <= Block /\ n <= Size - fromPos /\ n \in Nat
    BY <1>5, <1>t DEF Read, Min, TypeOK
  <2>2. TypeOK'
    BY <1>5, <1>t, <2>1 DEF Read, count, TypeOK
  <2>3. PositionsOK'
    BY <1>5, <1>t, <2>1 DEF Read, PositionsOK, TypeOK
  <2>4. SumOK'
    <3>1. fromPos' - chunk' = fromPos
      BY <1>5, <1>t, <2>1 DEF Read, TypeOK
    <3>2. sum' = Prefix(fromPos)
      BY <1>5, <1>t DEF Read, SumOK
    <3>3. pc' = "write"
      BY <1>5 DEF Read
    <3> QED
      BY <3>1, <3>2, <3>3 DEF SumOK, Prefix
  <2> QED
    BY <1>5, <1>t, <2>2, <2>3, <2>4 DEF Read, CopyInv, TargetOK, ReturnOK, SourceOK
<1>6. ASSUME NEW n \in 1..Block, Write(n) PROVE CopyInv'
  <2>1. pc = "write" /\ n <= rest /\ target' = Written(n) /\ n \in Nat
        /\ rest' = rest - n /\ toPos' = toPos + n
    BY <1>6 DEF Write
  <2>2. /\ target' \in Content
        /\ \A i \in Positions : i <= toPos' => target'[i] = i
        /\ \A i \in Positions : i > Size => target'[i] = 0
    BY <2>1, <1>t, WrittenExtends
  <2>3. fromPos \in Nat /\ rest \in Nat /\ chunk \in Nat /\ toPos \in Nat
        /\ rest <= chunk /\ chunk <= fromPos /\ toPos = fromPos - rest
        /\ fromPos <= Size /\ fromPos' = fromPos /\ chunk' = chunk
    BY <1>6, <1>t, <2>1 DEF Write, TypeOK, PositionsOK
  <2>4. \/ n = rest /\ pc' = "read" /\ sum' = Prefix(fromPos)
        \/ n # rest /\ pc' = "write" /\ sum' = sum
    BY <1>6, <1>t, <2>1, SummedExtends DEF Write
  <2>5. sum' \in Content
    BY <2>3, <2>4, <1>t, ContentsAreContent DEF TypeOK
  <2>6. TypeOK'
    <3>1. toPos' \in 0..Size /\ rest' \in 0..chunk' /\ counted' \in Nat
      BY <1>6, <1>t, <2>1, <2>3 DEF Write, TypeOK
    <3> QED
      BY <1>6, <1>t, <2>2, <2>4, <2>5, <3>1 DEF Write, TypeOK
  <2>7. PositionsOK'
    BY <2>1, <2>3, <2>4 DEF PositionsOK
  <2>8. SumOK'
    BY <1>t, <2>1, <2>3, <2>4 DEF SumOK, Prefix
  <2>9. TargetOK'
    BY <2>2, <2>4 DEF TargetOK
  <2> QED
    BY <1>6, <1>t, <2>4, <2>6, <2>7, <2>8, <2>9
       DEF Write, CopyInv, ReturnOK, SourceOK
<1>7. CASE ReadFails
  <2>1. TypeOK'
    BY <1>7, <1>t DEF ReadFails, Ask, AskOr, Fails, devices, count, TypeOK
  <2> QED
    BY <1>7, <1>t, <2>1
    DEF ReadFails, Ask, AskOr, devices, CopyInv, PositionsOK, SumOK, TargetOK,
        ReturnOK, SourceOK
<1>8. CASE WriteFails
  <2>1. pc = "write" /\ toPos = fromPos - rest /\ chunk <= fromPos /\ rest >= 1
        /\ fromPos \in 0..Size /\ chunk \in 0..Block /\ rest \in 0..chunk
    BY <1>8, <1>t DEF WriteFails, PositionsOK, TypeOK
  <2>2. \/ pc' = "write" /\ toPos' = toPos - (chunk - rest) /\ rest' = chunk
        \/ pc' \in {"failed", "copied"} /\ UNCHANGED <<toPos, rest>>
    BY <1>8 DEF WriteFails, Ask, AskOr
  <2>3. toPos' \in 0..Size /\ rest' \in 0..chunk /\ toPos' <= toPos
    BY <2>1, <2>2
  <2>4. /\ faults' \in 0..MaxFaults /\ again' \in {"yes", "no"}
        /\ lastErrorHandleAction' \in {"Retry", "Skip", "Cancel"}
    BY <1>8, <1>t DEF WriteFails, Fails, Ask, AskOr, TypeOK
  <2>5. TypeOK'
    BY <1>8, <1>t, <2>2, <2>3, <2>4 DEF WriteFails, count, TypeOK
  <2>6. PositionsOK'
    BY <1>8, <2>1, <2>2 DEF WriteFails, PositionsOK
  <2>7. TargetOK'
    <3>1. toPos \in Int /\ toPos' \in Int
      BY <2>1, <2>3
    <3>2. \A i \in Positions : i \in Int
      BY DEF Positions
    <3> QED
      BY <1>8, <1>t, <2>1, <2>2, <2>3, <3>1, <3>2 DEF WriteFails, TargetOK
  <2>8. ReturnOK' /\ SourceOK'
    BY <1>8, <1>t, <2>2 DEF WriteFails, Ask, AskOr, ReturnOK, SourceOK
  <2>9. SumOK'
    BY <1>8, <1>t, <2>2 DEF WriteFails, SumOK, Prefix
  <2> QED
    BY <2>5, <2>6, <2>7, <2>8, <2>9 DEF CopyInv
<1>9. CASE Close
  <2>1. target' \in Content /\ \A i \in Positions : i > Size => target'[i] = 0
    BY <1>9, <1>t, DamageStaysInside DEF Close, TargetOK, TypeOK
  <2>2. faults' \in 0..MaxFaults
    BY <1>9, <1>t DEF Close, Fails, TypeOK
  <2>3. TypeOK'
    BY <1>9, <1>t, <2>1, <2>2 DEF Close, count, TypeOK
  <2>4. SumOK'
    BY <1>9, <1>t, PrefixEnds DEF Close, SumOK
  <2> QED
    BY <1>9, <1>t, <2>1, <2>3, <2>4
    DEF Close, CopyInv, PositionsOK, TargetOK, ReturnOK, SourceOK
<1>10. CASE Reopen \/ ReopenFails \/ VerifyFails
  <2>1. TypeOK'
    BY <1>10, <1>t DEF Reopen, ReopenFails, VerifyFails, Ask, AskOr, Fails,
                       devices, count, TypeOK
  <2> QED
    BY <1>10, <1>t, <2>1
    DEF Reopen, ReopenFails, VerifyFails, Ask, AskOr, devices, CopyInv,
        PositionsOK, SumOK, TargetOK, ReturnOK, SourceOK
<1>11. CASE Verified
  <2>1. target = Whole
    <3>1. CASE toOpen = "read"
      BY <1>11, <1>t, <3>1 DEF Verified, ReadBack, SumOK
    <3>2. CASE toOpen # "read"
      <4>1. Whole = Empty
        BY <1>11, <1>t, <3>2 DEF Verified, ReadBack, SumOK
      <4>2. Size = 0
        BY <4>1, EmptyIsEmpty
      <4>3. \A i \in Positions : target[i] = Empty[i]
        BY <1>11, <1>t, <4>2 DEF Verified, TargetOK, Positions, Empty
      <4> QED
        BY <1>t, <4>1, <4>3 DEF TypeOK, Content, Empty
    <3> QED
      BY <3>1, <3>2
  <2>2. TypeOK'
    BY <1>11, <1>t DEF Verified, devices, count, TypeOK
  <2> QED
    BY <1>11, <1>t, <2>1, <2>2
    DEF Verified, devices, CopyInv, PositionsOK, SumOK, TargetOK, ReturnOK, SourceOK
<1>12. CASE Damaged
  <2>1. TypeOK'
    BY <1>12, <1>t DEF Damaged, Ask, AskOr, devices, count, TypeOK
  <2> QED
    BY <1>12, <1>t, <2>1
    DEF Damaged, Ask, AskOr, devices, CopyInv, PositionsOK, SumOK, TargetOK,
        ReturnOK, SourceOK
<1>13. CASE Copied \/ RemoveSource \/ RemoveFails
  <2>1. TypeOK'
    BY <1>13, <1>t DEF Copied, RemoveSource, RemoveFails, Fails, devices, count,
                       TypeOK
  <2> QED
    BY <1>13, <1>t, <2>1
    DEF Copied, RemoveSource, RemoveFails, devices, CopyInv, PositionsOK, SumOK,
        TargetOK, ReturnOK, SourceOK, TypeOK
<1>14. CASE Join
  <2>1. counted' \in Nat
    BY <1>14, <1>t DEF Join, TypeOK
  <2>2. TypeOK'
    BY <1>14, <1>t, <2>1 DEF Join, devices, TypeOK
  <2> QED
    BY <1>14, <1>t, <2>2
    DEF Join, devices, CopyInv, PositionsOK, SumOK, TargetOK, ReturnOK, SourceOK
<1>15. CASE UNCHANGED vars
  BY <1>15
  DEF vars, devices, count, CopyInv, TypeOK, PositionsOK, SumOK, TargetOK,
      ReturnOK, SourceOK, Prefix
<1> QED
  BY <1>1, <1>2, <1>3, <1>4, <1>5, <1>6, <1>7, <1>8, <1>9, <1>10, <1>11, <1>12,
     <1>13, <1>14, <1>15
  DEF Next, Copying, Checking, Moving

(* So it always holds.                                                     *)
LEMMA CopyInvariance == Spec => []CopyInv
  BY CopyInit, CopyStep, PTL DEF Spec

(* Nothing is read, written or summed beyond the end of the source.        *)
THEOREM CopyTypeCorrect == Spec => []TypeOK
<1>1. CopyInv => TypeOK
  BY DEF CopyInv
<1> QED
  BY <1>1, CopyInvariance, PTL

(* A moved file is whole at its target: for every size of the file and of  *)
(* the blocks, every sequence of failures and every answer to them.        *)
THEOREM MoveNeverLoses == Spec => []NeverLost
<1>1. CopyInv => NeverLost
  BY DEF CopyInv, SourceOK, NeverLost
<1> QED
  BY <1>1, CopyInvariance, PTL

(* Short writes and retries leave no gap in what is written.               *)
THEOREM CopyInOrder == Spec => []WrittenInOrder
<1>1. CopyInv => WrittenInOrder
  BY CopyFileAssumption
  DEF CopyInv, TypeOK, PositionsOK, TargetOK, WrittenInOrder, Positions
<1> QED
  BY <1>1, CopyInvariance, PTL

-----------------------------------------------------------------------------
(* What is counted.                                                        *)

(* The count agrees with a position: it is never behind it, and not ahead  *)
(* of it as long as nothing was written a second time.                     *)
Counts(n) == counted >= n /\ (again = "no" => counted = n)

(* A file that was never opened for writing is not counted yet; from then  *)
(* on the count follows what is written.                                   *)
CountInv ==
  /\ pc # "over" /\ sized = "no" => counted = 0 /\ again = "no"
  /\ pc = "rename" => sized = "no"
  /\ pc \in {"openFrom", "openTo"} => sized = "no" \/ again = "yes"
  /\ pc \in {"read", "write", "closed", "verify"} => sized = "yes"
  /\ pc = "read" => Counts(fromPos)
  /\ pc = "write" => Counts(toPos)
  /\ pc \in {"closed", "verify"} => Counts(Size)
  /\ pc \in {"copied", "remove"} /\ lastErrorHandleAction # "Skip" =>
       sized = "yes" /\ Counts(Size)
  /\ pc = "join" /\ sized = "yes" /\ lastErrorHandleAction # "Skip" =>
       Counts(Size)
  /\ CountedOnce

(* Every step keeps it: what is written is counted, and what is written     *)
(* again is remembered.                                                    *)
LEMMA CountStep == CopyInv /\ CountInv /\ [Next]_vars => CountInv'
<1> SUFFICES ASSUME CopyInv, CountInv, [Next]_vars PROVE CountInv'
  OBVIOUS
<1> USE CopyFileAssumption
<1>t. TypeOK /\ PositionsOK /\ ReturnOK /\ SourceOK
  BY DEF CopyInv
<1> USE DEF CountInv, Counts, CountedOnce
<1>1. CASE Rename \/ RenameFails \/ OpenFrom
  BY <1>1, <1>t DEF Rename, RenameFails, OpenFrom, devices, count, SourceOK
<1>0. CASE Stopped \/ Failed
  BY <1>0, <1>t DEF Stopped, Failed, devices, count, SourceOK
<1>2. CASE OpenFails \/ ReadFails
  BY <1>2, <1>t DEF OpenFails, ReadFails, Ask, AskOr, devices, count, SourceOK
<1>3. CASE OpenTo
  BY <1>3, <1>t DEF OpenTo, SourceOK, TypeOK
<1>4. ASSUME NEW n \in 1..Block, Read(n) PROVE CountInv'
  <2>1. toPos' = fromPos
    BY <1>4, <1>t DEF Read, PositionsOK
  <2> QED
    BY <1>4, <1>t, <2>1 DEF Read, count, SourceOK
<1>5. ASSUME NEW n \in 1..Block, Write(n) PROVE CountInv'
  <2>1. /\ counted' = counted + n /\ toPos' = toPos + n
        /\ pc' \in {"read", "write"}
        /\ pc' = "read" => n = rest
        /\ UNCHANGED <<sized, again, fromPos, outcome>> /\ pc = "write"
        /\ toPos = fromPos - rest
    BY <1>5, <1>t DEF Write, PositionsOK
  <2>2. /\ counted \in Nat /\ toPos \in Int /\ fromPos \in Int /\ rest \in Int
        /\ n \in Int
    BY <1>t DEF TypeOK
  <2>3. pc' = "read" => toPos' = fromPos'
    BY <2>1, <2>2
  <2> QED
    BY <1>t, <2>1, <2>2, <2>3 DEF SourceOK
<1>6. CASE WriteFails
  <2>1. /\ counted \in Nat /\ toPos \in Int /\ chunk \in Int /\ rest \in 0..chunk
    BY <1>t DEF TypeOK
  <2>2. /\ pc = "write" /\ Counts(toPos) /\ sized = "yes"
        /\ pc' \in {"write", "copied", "failed"}
        /\ pc' = "copied" => lastErrorHandleAction' = "Skip"
        /\ UNCHANGED <<counted, sized, outcome>>
    BY <1>6 DEF WriteFails, Ask, AskOr, count
  <2>3. ASSUME pc' = "write" PROVE Counts(toPos)'
    <3>1. /\ toPos' = toPos - (chunk - rest)
          /\ again' = IF rest < chunk THEN "yes" ELSE again
      BY <1>6, <2>3 DEF WriteFails
    <3> QED
      BY <2>1, <2>2, <3>1
  <2>4. outcome # "done"
    BY <1>t, <2>2 DEF SourceOK
  <2> QED
    BY <2>2, <2>3, <2>4
<1>7. CASE Close
  BY <1>7, <1>t DEF Close, count, SourceOK
<1>8. CASE Checking
  BY <1>8, <1>t
  DEF Checking, Reopen, ReopenFails, VerifyFails, Verified, Damaged, Ask, AskOr,
      devices, count, SourceOK
<1>9. CASE Copied \/ RemoveSource \/ RemoveFails
  <2>1. UNCHANGED <<counted, sized, again, outcome>> /\ outcome # "done"
    BY <1>9, <1>t DEF Copied, RemoveSource, RemoveFails, count, SourceOK
  <2>2. /\ pc \in {"copied", "remove"}
        /\ pc' \in {"join", "remove", "failed"}
        /\ pc' # "failed" /\ lastErrorHandleAction' # "Skip" =>
             lastErrorHandleAction # "Skip"
    BY <1>9, <1>t DEF Copied, RemoveSource, RemoveFails, ReturnOK
  <2> QED
    BY <2>1, <2>2
<1>10. CASE Join
  BY <1>10, <1>t DEF Join, devices, SourceOK, TypeOK
<1>11. CASE UNCHANGED vars
  BY <1>11 DEF vars, devices, count
<1> QED
  BY <1>0, <1>1, <1>2, <1>3, <1>4, <1>5, <1>6, <1>7, <1>8, <1>9, <1>10, <1>11
  DEF Next, Copying, Moving

(* A file that is reported counts with its full size, and once, unless a   *)
(* part of it had to be written again.                                     *)
THEOREM ReportedCountsOnce == Spec => []CountedOnce
<1>1. Init => CountInv
  BY DEF Init, CountInv, CountedOnce
<1>2. CountInv => CountedOnce
  BY DEF CountInv
<1> QED
  BY <1>1, <1>2, CountStep, CopyInvariance, PTL DEF Spec

-----------------------------------------------------------------------------
(* The refinement.                                                         *)

(* A file may be longer than the source: so can an older target be.        *)
LEMMA LastPosition == \E i \in Positions : i > Size
<1>1. Size + Block \in Positions /\ Size + Block > Size
  BY CopyFileAssumption DEF Positions
<1> QED
  BY <1>1

(* A file is reported as done, skipped or failed as FileTransfer allows,   *)
(* and its source is removed only behind a whole target.                   *)
THEOREM CopyImplementsTransfer == Spec => ImplementsTransfer
<1> DEFINE Foreign == [i \in Positions |-> Alien]
<1>1. Init => Transfer!Init
  <2> SUFFICES ASSUME Init PROVE Transfer!Init
    OBVIOUS
  <2>1. target = Foreign /\ Foreign # Whole
    <3>1. Size + Block \in Positions /\ Foreign[Size + Block] = -1
          /\ Whole[Size + Block] = 0
      BY CopyFileAssumption DEF Positions, Alien, Whole
    <3> QED
      BY <3>1 DEF Init
  <2> QED
    BY <2>1 DEF Init, Transfer!Init
<1>2. CopyInv /\ CopyInv' /\ [Next]_vars => [Transfer!Next]_Transfer!vars
  <2> SUFFICES ASSUME CopyInv, CopyInv', [Next]_vars
               PROVE  [Transfer!Next]_Transfer!vars
    OBVIOUS
  <2>i. ReturnOK /\ SourceOK /\ SourceOK' /\ TypeOK /\ TypeOK'
    BY DEF CopyInv
  <2>s. UNCHANGED <<mode, source, target, outcome>> => UNCHANGED Transfer!vars
    BY DEF Transfer!vars
  <2>c. ASSUME pc \in {"openTo", "read", "write"},
               pc' \in {"read", "write", "closed"},
               UNCHANGED <<mode, source, outcome>>
        PROVE  [Transfer!Next]_Transfer!vars
    <3>0. \E i \in Positions : i > Size
      BY LastPosition
    <3>1. target' # Foreign
      BY <2>c, <3>0 DEF CopyInv, TargetOK, Alien
    <3> QED
      BY <2>c, <2>i, <3>1
      DEF SourceOK, TypeOK, Transfer!Next, Transfer!Change
  <2>1. CASE Rename
    BY <2>1, <2>i
       DEF Rename, ReturnOK, SourceOK, TypeOK, Transfer!Next, Transfer!Rename
  <2>2. CASE OpenTo
    BY <2>2, <2>c DEF OpenTo
  <2>3. ASSUME NEW n \in 1..Block, Read(n) PROVE [Transfer!Next]_Transfer!vars
    BY <2>3, <2>s DEF Read
  <2>4. ASSUME NEW n \in 1..Block, Write(n) PROVE [Transfer!Next]_Transfer!vars
    BY <2>4, <2>c DEF Write
  <2>5. CASE Close
    BY <2>5, <2>c DEF Close
  <2>6. CASE RemoveSource
    BY <2>6, <2>i
       DEF RemoveSource, ReturnOK, SourceOK, Transfer!Next, Transfer!Remove
  <2>7. CASE Join
    BY <2>7, <2>i DEF Join, ReturnOK, SourceOK, TypeOK, Transfer!Next,
                      Transfer!Done, Transfer!Undone
  <2>8. CASE Failed
    BY <2>8, <2>i DEF Failed, SourceOK, TypeOK, Transfer!Next, Transfer!Undone
  <2>9. CASE RenameFails \/ OpenFrom \/ OpenFails \/ Stopped \/ ReadFails
             \/ WriteFails
    BY <2>9, <2>s
       DEF RenameFails, OpenFrom, OpenFails, Stopped, ReadFails, WriteFails
  <2>10. CASE Checking
    BY <2>10, <2>s DEF Checking, Reopen, ReopenFails, VerifyFails, Verified, Damaged
  <2>11. CASE Copied \/ RemoveFails
    BY <2>11, <2>s DEF Copied, RemoveFails
  <2>12. CASE UNCHANGED vars
    BY <2>12, <2>s DEF vars
  <2> QED
    BY <2>1, <2>2, <2>3, <2>4, <2>5, <2>6, <2>7, <2>8, <2>9, <2>10, <2>11, <2>12
    DEF Next, Copying, Moving
<1> QED
  BY <1>1, <1>2, CopyInvariance, PTL DEF Spec, ImplementsTransfer, Transfer!Spec

=============================================================================
