--------------------------- MODULE RequestEPProofs ---------------------------
(***************************************************************************)
(* Proofs about RequestEP, for any set of infos and any number of          *)
(* timeouts and calls of refresh().                                        *)
(***************************************************************************)
EXTENDS RequestEP, TLAPS

(* An entry is in a sequence at one place at most.                         *)
Once(s, x) == \A i, j \in 1..Len(s) : s[i] = x /\ s[j] = x => i = j

(* Nothing is in an empty sequence.                                        *)
LEMMA EmptyEntries == ASSUME NEW x PROVE ~Contains(<<>>, x) /\ Once(<<>>, x)
  BY DEF Contains, Once

(* What Append() adds is in the sequence, and nothing else is new.         *)
LEMMA AppendEntries ==
  ASSUME NEW S, NEW s \in Seq(S), NEW e \in S, NEW x
  PROVE  /\ Append(s, e) \in Seq(S)
         /\ Contains(Append(s, e), x) <=> Contains(s, x) \/ x = e
         /\ Once(s, x) /\ (x = e => ~Contains(s, x)) => Once(Append(s, e), x)
  BY DEF Contains, Once

(* What Tail() leaves out is the head, and it is gone if it was there once. *)
LEMMA TailEntries ==
  ASSUME NEW S, NEW s \in Seq(S), s # <<>>, NEW x
  PROVE  /\ Head(s) \in S /\ Tail(s) \in Seq(S)
         /\ Contains(s, x) <=> Contains(Tail(s), x) \/ x = Head(s)
         /\ Once(s, x) => Once(Tail(s), x) /\ (x = Head(s) => ~Contains(Tail(s), x))
  BY DEF Contains, Once

(* What RemoveAt() takes is the entry at the index, and nothing else goes. *)
LEMMA RemoveAtEntries ==
  ASSUME NEW S, NEW s \in Seq(S), NEW i \in 1..Len(s), NEW x
  PROVE  /\ RemoveAt(s, i) \in Seq(S)
         /\ Contains(RemoveAt(s, i), x) => Contains(s, x)
         /\ Contains(s, x) => Contains(RemoveAt(s, i), x) \/ x = s[i]
         /\ Once(s, x) => Once(RemoveAt(s, i), x)
                          /\ (x = s[i] => ~Contains(RemoveAt(s, i), x))
<1> DEFINE r == RemoveAt(s, i)
           a == SubSeq(s, 1, i - 1)
           b == SubSeq(s, i + 1, Len(s))
<1>1. a \in Seq(S) /\ Len(a) = i - 1 /\ \A j \in 1..i-1 : a[j] = s[j]
  OBVIOUS
<1>2. b \in Seq(S) /\ Len(b) = Len(s) - i /\ \A j \in 1..Len(s)-i : b[j] = s[i + j]
  OBVIOUS
<1>3. r = a \o b
  BY DEF RemoveAt
<1> HIDE DEF r, a, b
<1>a. Len(s) \in Nat /\ i \in Nat /\ 1 <= i /\ i <= Len(s)
  OBVIOUS
<1>b. \A j \in 1..Len(a) + Len(b) :
        r[j] = IF j <= Len(a) THEN a[j] ELSE b[j - Len(a)]
  BY <1>1, <1>2, <1>3
<1>4. r \in Seq(S) /\ Len(r) = Len(s) - 1
  <2>a. a \in Seq(S) /\ b \in Seq(S)
    BY <1>1, <1>2
  <2>1. r \in Seq(S) /\ Len(r) = Len(a) + Len(b)
    <3>1. r \in Seq(S)
      BY <2>a, <1>3
    <3>2. Len(r) = Len(a) + Len(b)
      BY <2>a, <1>3
    <3> QED
      BY <3>1, <3>2
  <2>2. Len(a) + Len(b) = Len(s) - 1
    BY <1>1, <1>2, <1>a
  <2> QED
    BY <2>1, <2>2
<1>5. \A j \in 1..i-1 : r[j] = s[j]
  <2> SUFFICES ASSUME NEW j \in 1..i-1 PROVE r[j] = s[j]
    OBVIOUS
  <2>1. j <= Len(a) /\ j \in 1..Len(a) + Len(b)
    BY <1>1, <1>2, <1>a
  <2> QED
    BY <2>1, <1>1, <1>b
<1>6. \A j \in i..Len(s)-1 : r[j] = s[j + 1]
  <2> SUFFICES ASSUME NEW j \in i..Len(s)-1 PROVE r[j] = s[j + 1]
    OBVIOUS
  <2>1. j - Len(a) \in 1..Len(s)-i /\ ~(j <= Len(a)) /\ j \in 1..Len(a) + Len(b)
    BY <1>1, <1>2, <1>a
  <2>2. r[j] = b[j - Len(a)] /\ b[j - Len(a)] = s[i + (j - Len(a))]
    BY <2>1, <1>2, <1>b
  <2>3. i + (j - Len(a)) = j + 1
    BY <1>1, <1>a
  <2> QED
    BY <2>2, <2>3
<1>7. Contains(r, x) => Contains(s, x)
  BY <1>4, <1>5, <1>6 DEF Contains
<1>8. Contains(s, x) => Contains(r, x) \/ x = s[i]
  <2> SUFFICES ASSUME NEW j \in 1..Len(s), s[j] = x, j # i
               PROVE  Contains(r, x)
    BY DEF Contains
  <2>1. CASE j < i
    BY <2>1, <1>4, <1>5 DEF Contains
  <2>2. CASE j > i
    <3>1. j - 1 \in i..Len(s)-1 /\ r[j - 1] = s[j]
      BY <2>2, <1>6
    <3> QED
      BY <3>1, <1>4 DEF Contains
  <2> QED
    BY <2>1, <2>2
<1> DEFINE Old(j) == IF j < i THEN j ELSE j + 1
<1>c. \A j \in 1..Len(r) : Old(j) \in 1..Len(s) /\ Old(j) # i /\ r[j] = s[Old(j)]
  BY <1>4, <1>5, <1>6, <1>a
<1>d. \A j, k \in 1..Len(r) : Old(j) = Old(k) => j = k
  BY <1>4, <1>a
<1> HIDE DEF Old
<1>9. Once(s, x) => Once(r, x) /\ (x = s[i] => ~Contains(r, x))
  <2> SUFFICES ASSUME Once(s, x)
               PROVE  Once(r, x) /\ (x = s[i] => ~Contains(r, x))
    OBVIOUS
  <2>1. Once(r, x)
    BY <1>c, <1>d DEF Once
  <2>2. x = s[i] => ~Contains(r, x)
    BY <1>c DEF Once, Contains
  <2> QED
    BY <2>1, <2>2
<1> QED
  BY <1>4, <1>7, <1>8, <1>9 DEF r

-----------------------------------------------------------------------------
(* The inductive invariant.                                                *)

(* The handler of the GUI thread and the thread are where their locals say.*)
HandlerOK ==
  /\ gui \in {"scan", "append", "start"} => info \in alive /\ requestEP[info]
  /\ gui = "append" => ~Queued(info)
  /\ gui = "remove" => info \in dirtyFileInfos
  /\ gui \in {"quit", "ended"} => requestEPFiles = <<>>
  /\ \A f \in Files : timer[f] = "armed" => f \in alive
  /\ dirtyFileInfos \cap alive = {}

ThreadOK ==
  /\ IF thread = "fetch" THEN hand \in Files ELSE hand = NoFile
  /\ thread = "take" /\ requestEPFiles = <<>>
       => alive # Files \/ gui \in {"quit", "ended"}

(* A request that did not slip is at one place; while it is under way the  *)
(* pointer of its info is set, which is what the destructor looks at; and  *)
(* a destroyed info has no entry in the queue, or is about to remove it.   *)
OneRequest(f) ==
  /\ Once(requestEPFiles, f)
  /\ f \notin slipped => /\ Once(posted, f)
                         /\ ~(Queued(f) /\ Taken(f))
                         /\ ~(hand = f /\ Contains(posted, f))

PointerSet(f) == f \in alive /\ UnderWay(f) /\ f \notin slipped => requestEP[f]

Withdrawn(f) ==
  f \notin alive /\ Queued(f) => f \in slipped \/ (gui = "remove" /\ info = f)

Marked(f) == f \notin alive /\ UnderWay(f) => f \in dirtyFileInfos \cup slipped

Placed(f) == OneRequest(f) /\ PointerSet(f) /\ Withdrawn(f) /\ Marked(f)

IInv == /\ TypeOK /\ HandlerOK /\ ThreadOK /\ \A f \in Files : Placed(f)
        /\ AskedOrLoaded /\ QueueIsServed

(* The invariant holds before anybody asked.                               *)
LEMMA InitIInv == Init => IInv
<1> SUFFICES ASSUME Init PROVE IInv
  OBVIOUS
<1>1. TypeOK
  <2>1. <<>> \in Seq(Files) /\ <<>> \in Seq(Events)
    OBVIOUS
  <2> QED
    BY <2>1, RequestEPAssumption DEF Init, TypeOK
<1>2. HandlerOK /\ ThreadOK
  BY DEF Init, HandlerOK, ThreadOK
<1>3. \A f \in Files : Placed(f)
  <2>1. \A f \in Files : /\ ~Contains(requestEPFiles, f) /\ ~Contains(posted, f)
                         /\ Once(requestEPFiles, f) /\ Once(posted, f)
    BY EmptyEntries DEF Init
  <2>2. \A f \in Files : ~Queued(f) /\ ~Taken(f)
    BY <2>1, RequestEPAssumption DEF Init, Queued, Taken, NoFile
  <2> QED
    BY <2>1, <2>2 DEF Init, Placed, OneRequest, PointerSet, Withdrawn,
       Marked, UnderWay
<1>4. AskedOrLoaded /\ QueueIsServed
  BY DEF Init, AskedOrLoaded, QueueIsServed
<1> QED
  BY <1>1, <1>2, <1>3, <1>4 DEF IInv

(* Every variable keeps a value of its kind.                               *)
LEMMA TypeStep ==
  ASSUME IInv, [Next]_vars
  PROVE  TypeOK'
<1> USE DEF infos, shared, handler, bounds, history
<1>a. TypeOK /\ HandlerOK /\ ThreadOK
  BY DEF IInv
<1>1. ASSUME NEW f \in Files, ExtraProperties(f)
     PROVE  TypeOK'
  <2>1. slots' \in [Files -> Nat] /\ missed' \subseteq Files
    BY <1>1, <1>a DEF ExtraProperties, TypeOK
  <2>2. timer' \in [Files -> {"none", "armed", "dying"}]
    BY <1>1, <1>a DEF ExtraProperties, TypeOK
  <2> QED
    BY <1>1, <2>1, <2>2, <1>a DEF ExtraProperties, TypeOK
<1>2. ASSUME NEW f \in Files, Refresh(f)
     PROVE  TypeOK'
  BY <1>2, <1>a, RequestEPAssumption DEF Refresh, TypeOK
<1>3. ASSUME NEW f \in Files, MakeToInactive(f)
     PROVE  TypeOK'
  BY <1>3, <1>a, RequestEPAssumption DEF MakeToInactive, TypeOK
<1>4. ASSUME NEW f \in Files, DeleteTimer(f)
     PROVE  TypeOK'
  BY <1>4, <1>a, RequestEPAssumption DEF DeleteTimer, TypeOK
<1>5. ASSUME NEW f \in Files, Timeout(f)
     PROVE  TypeOK'
  BY <1>5, <1>a, RequestEPAssumption DEF Timeout, TypeOK
<1>6. ASSUME NEW f \in Files, Destroy(f)
     PROVE  TypeOK'
  <2>1. index' \in Nat /\ info' \in Files \cup {NoFile}
    BY <1>6, <1>a DEF Destroy, TypeOK
  <2>2. gui' \in {gui, "remove"}
    BY <1>6 DEF Destroy
  <2> QED
    BY <1>6, <2>1, <2>2, <1>a DEF Destroy, TypeOK
<1>7. CASE Scan
  BY <1>7, <1>a, RequestEPAssumption DEF Scan, NextCall, Return, TypeOK
<1>8. CASE AppendRequest
  <2>1. info \in Files /\ requestEPFiles' \in Seq(Files)
    BY <1>8, <1>a DEF AppendRequest, TypeOK, HandlerOK
  <2> QED
    BY <1>8, <2>1, <1>a DEF AppendRequest, TypeOK
<1>9. CASE StartThread
  BY <1>9, <1>a, RequestEPAssumption DEF StartThread, NextCall, Return, TypeOK
<1>10. CASE RemoveRequest
  <2>1. requestEPFiles' \in Seq(Files)
    <3>1. CASE index \in DOMAIN requestEPFiles
      <4>1. index \in 1..Len(requestEPFiles)
        BY <3>1, <1>a DEF TypeOK
      <4>2. RemoveAt(requestEPFiles, index) \in Seq(Files)
        BY <4>1, <1>a, RemoveAtEntries DEF TypeOK
      <4> QED
        BY <1>10, <3>1, <4>2 DEF RemoveRequest
    <3>2. CASE index \notin DOMAIN requestEPFiles
      BY <1>10, <3>2, <1>a DEF RemoveRequest, TypeOK
    <3> QED
      BY <3>1, <3>2
  <2>2. slipped' \subseteq Files /\ missed' \subseteq Files
    <3>1. info \in Files
      BY <1>10, <1>a DEF RemoveRequest, HandlerOK, TypeOK
    <3> QED
      BY <1>10, <3>1, <1>a DEF RemoveRequest, TypeOK
  <2>3. /\ gui' \in {"idle", "undefined"} /\ info' \in Files \cup {NoFile}
        /\ index' \in Nat /\ calls' \in Nat
    BY <1>10, <1>a DEF RemoveRequest, Return, TypeOK
  <2> QED
    BY <1>10, <2>1, <2>2, <2>3, <1>a DEF RemoveRequest, TypeOK
<1>11. CASE Deliver
  <2>1. posted' \in Seq(Events)
    BY <1>11, <1>a DEF Deliver, TypeOK
  <2>2. CASE ThreadFinished
    BY <1>11, <2>1, <2>2, <1>a DEF Deliver, ThreadFinished, TypeOK
  <2>3. ASSUME NEW f \in Files, ProcessEPChanged(f)
        PROVE  TypeOK'
    <3>1. /\ epInitialized' \in [Files -> BOOLEAN]
          /\ requestEP' \in [Files -> BOOLEAN]
      <4>1. (f \in alive) \in BOOLEAN
        OBVIOUS
      <4> QED
        BY <4>1, <2>3, <1>a DEF ProcessEPChanged, TypeOK
    <3>2. /\ dirtyFileInfos' \subseteq Files /\ slipped' \subseteq Files
          /\ loaded' \subseteq Files
      BY <2>3, <1>a DEF ProcessEPChanged, TypeOK
    <3> QED
      BY <1>11, <2>1, <3>1, <3>2, <1>a DEF Deliver, TypeOK
  <2> QED
    BY <1>11, <2>2, <2>3 DEF Deliver
<1>12. CASE Look
  BY <1>12, <1>a, RequestEPAssumption DEF Look, TypeOK
<1>13. CASE Take
  <2>1. CASE requestEPFiles = <<>>
    BY <1>13, <2>1, <1>a DEF Take, TypeOK
  <2>2. CASE requestEPFiles # <<>>
    <3>1. Head(requestEPFiles) \in Files /\ Tail(requestEPFiles) \in Seq(Files)
      BY <2>2, <1>a, TailEntries DEF TypeOK
    <3> QED
      BY <1>13, <2>2, <3>1, <1>a DEF Take, TypeOK
  <2> QED
    BY <2>1, <2>2
<1>14. CASE Fetch
  <2>1. posted' \in Seq(Events)
    BY <1>14, <1>a DEF Fetch, TypeOK, ThreadOK, Events
  <2> QED
    BY <1>14, <2>1, <1>a DEF Fetch, TypeOK, NoFile
<1>15. CASE Leave
  <2>1. posted' \in Seq(Events)
    BY <1>15, <1>a DEF Leave, TypeOK, Events
  <2> QED
    BY <1>15, <2>1, <1>a DEF Leave, TypeOK
<1>16. CASE Quit
  BY <1>16, <1>a, RequestEPAssumption DEF Quit, TypeOK
<1>17. CASE Ended
  BY <1>17, <1>a, RequestEPAssumption DEF Ended, TypeOK
<1>18. CASE UNCHANGED vars
  BY <1>18, <1>a, RequestEPAssumption DEF vars, TypeOK
<1> QED
  BY <1>1, <1>2, <1>3, <1>4, <1>5, <1>6, <1>7, <1>8, <1>9, <1>10, <1>11, <1>12,
     <1>13, <1>14, <1>15, <1>16, <1>17, <1>18
     DEF Next, Handlers, GoOn, Thread

(* The handlers and the thread stay consistent with the queue.             *)
LEMMA PlacesStep ==
  ASSUME IInv, [Next]_vars
  PROVE  HandlerOK' /\ ThreadOK'
<1> USE DEF infos, shared, handler, bounds, history
<1>a. TypeOK /\ HandlerOK /\ ThreadOK
  BY DEF IInv
<1>1. ASSUME NEW f \in Files, ExtraProperties(f)
     PROVE  HandlerOK' /\ ThreadOK'
  BY <1>1, <1>a, RequestEPAssumption
     DEF ExtraProperties, TypeOK, HandlerOK, ThreadOK, Queued
<1>2. ASSUME NEW f \in Files, Refresh(f)
     PROVE  HandlerOK' /\ ThreadOK'
  BY <1>2, <1>a, RequestEPAssumption
     DEF Refresh, TypeOK, HandlerOK, ThreadOK, Queued
<1>3. ASSUME NEW f \in Files, MakeToInactive(f)
     PROVE  HandlerOK' /\ ThreadOK'
  BY <1>3, <1>a, RequestEPAssumption
     DEF MakeToInactive, TypeOK, HandlerOK, ThreadOK, Queued
<1>4. ASSUME NEW f \in Files, DeleteTimer(f)
     PROVE  HandlerOK' /\ ThreadOK'
  BY <1>4, <1>a, RequestEPAssumption
     DEF DeleteTimer, TypeOK, HandlerOK, ThreadOK, Queued
<1>5. ASSUME NEW f \in Files, Timeout(f)
     PROVE  HandlerOK' /\ ThreadOK'
  BY <1>5, <1>a, RequestEPAssumption
     DEF Timeout, TypeOK, HandlerOK, ThreadOK, Queued
<1>6. ASSUME NEW f \in Files, Destroy(f)
     PROVE  HandlerOK' /\ ThreadOK'
  BY <1>6, <1>a, RequestEPAssumption
     DEF Destroy, TypeOK, HandlerOK, ThreadOK, Queued
<1>7. CASE Scan
  BY <1>7, <1>a, RequestEPAssumption
     DEF Scan, NextCall, Return, TypeOK, HandlerOK, ThreadOK, Queued
<1>8. CASE AppendRequest
  BY <1>8, <1>a, RequestEPAssumption
     DEF AppendRequest, NextCall, Return, TypeOK, HandlerOK, ThreadOK, Queued
<1>9. CASE StartThread
  BY <1>9, <1>a, RequestEPAssumption
     DEF StartThread, NextCall, Return, TypeOK, HandlerOK, ThreadOK, Queued
<1>10. CASE RemoveRequest
  BY <1>10, <1>a, RequestEPAssumption
     DEF RemoveRequest, NextCall, Return, TypeOK, HandlerOK, ThreadOK, Queued
<1>11. CASE Deliver
  BY <1>11, <1>a, RequestEPAssumption
     DEF Deliver, ThreadFinished, ProcessEPChanged, TypeOK, HandlerOK, ThreadOK,
         Queued
<1>12. CASE Look
  BY <1>12, <1>a, RequestEPAssumption DEF Look, TypeOK, HandlerOK, ThreadOK, Queued
<1>13. CASE Take
  <2>1. CASE requestEPFiles = <<>>
    BY <1>13, <2>1, <1>a DEF Take, TypeOK, HandlerOK, ThreadOK, Queued
  <2>2. CASE requestEPFiles # <<>>
    <3>1. \A f \in Files : Contains(requestEPFiles', f) => Contains(requestEPFiles, f)
      BY <1>13, <2>2, <1>a, TailEntries DEF Take, TypeOK
    <3>2. Head(requestEPFiles) \in Files
      BY <2>2, <1>a, TailEntries DEF TypeOK
    <3> QED
      BY <1>13, <2>2, <3>1, <3>2, <1>a DEF Take, TypeOK, HandlerOK, ThreadOK, Queued
  <2> QED
    BY <2>1, <2>2
<1>14. CASE Fetch
  BY <1>14, <1>a, RequestEPAssumption DEF Fetch, TypeOK, HandlerOK, ThreadOK, Queued
<1>15. CASE Leave
  BY <1>15, <1>a, RequestEPAssumption DEF Leave, TypeOK, HandlerOK, ThreadOK, Queued
<1>16. CASE Quit
  BY <1>16, <1>a, RequestEPAssumption DEF Quit, TypeOK, HandlerOK, ThreadOK, Queued
<1>17. CASE Ended
  BY <1>17, <1>a, RequestEPAssumption DEF Ended, TypeOK, HandlerOK, ThreadOK, Queued
<1>18. CASE UNCHANGED vars
  BY <1>18, <1>a, RequestEPAssumption DEF vars, TypeOK, HandlerOK, ThreadOK, Queued
<1> QED
  BY <1>1, <1>2, <1>3, <1>4, <1>5, <1>6, <1>7, <1>8, <1>9, <1>10, <1>11, <1>12,
     <1>13, <1>14, <1>15, <1>16, <1>17, <1>18
     DEF Next, Handlers, GoOn, Thread

(* A request stays at one place, and marked once its info is destroyed.     *)
LEMMA PlacedStep ==
  ASSUME IInv, NEW g \in Files, [Next]_vars
  PROVE  Placed(g)'
<1> USE DEF infos, shared, handler, bounds, history
<1>a. TypeOK /\ HandlerOK /\ ThreadOK /\ Placed(g)
  BY DEF IInv
<1> USE DEF Placed, OneRequest, PointerSet, Withdrawn, Marked,
            UnderWay, Queued, Taken
<1>1. ASSUME NEW f \in Files, ExtraProperties(f)
     PROVE  Placed(g)'
  BY <1>1, <1>a DEF ExtraProperties
<1>2. ASSUME NEW f \in Files, Refresh(f)
     PROVE  Placed(g)'
  BY <1>2, <1>a DEF Refresh
<1>3. ASSUME NEW f \in Files, MakeToInactive(f)
     PROVE  Placed(g)'
  <2>1. requestEP' = [requestEP EXCEPT ![f] = FALSE] /\ requestEP \in [Files -> BOOLEAN]
    BY <1>3, <1>a DEF MakeToInactive, TypeOK
  <2> QED
    BY <1>3, <2>1, <1>a DEF MakeToInactive, TypeOK
<1>4. ASSUME NEW f \in Files, DeleteTimer(f)
     PROVE  Placed(g)'
  BY <1>4, <1>a DEF DeleteTimer
<1>5. ASSUME NEW f \in Files, Timeout(f)
     PROVE  Placed(g)'
  <2>1. requestEP' = [requestEP EXCEPT ![f] = TRUE] /\ requestEP \in [Files -> BOOLEAN]
    BY <1>5, <1>a DEF Timeout, TypeOK
  <2> QED
    BY <1>5, <2>1, <1>a DEF Timeout, TypeOK
<1>6. ASSUME NEW f \in Files, Destroy(f)
     PROVE  Placed(g)'
  BY <1>6, <1>a DEF Destroy
<1>7. CASE Scan
  BY <1>7, <1>a DEF Scan, NextCall, Return
<1>8. CASE AppendRequest
  <2>1. info \in alive /\ info \in Files /\ requestEP[info] /\ ~Queued(info)
    BY <1>8, <1>a DEF AppendRequest, HandlerOK, TypeOK
  <2>2. /\ Contains(requestEPFiles', g) <=> Contains(requestEPFiles, g) \/ g = info
        /\ Once(requestEPFiles', g)
    BY <1>8, <2>1, <1>a, AppendEntries DEF AppendRequest, TypeOK
  <2> QED
    BY <1>8, <2>1, <2>2, <1>a DEF AppendRequest
<1>9. CASE StartThread
  BY <1>9, <1>a DEF StartThread, NextCall, Return
<1>10. CASE RemoveRequest
  <2>1. info \in Files \ alive
    BY <1>10, <1>a DEF RemoveRequest, HandlerOK, TypeOK
  <2>2. CASE index \in DOMAIN requestEPFiles
    <3>1. index \in 1..Len(requestEPFiles)
      BY <2>2, <1>a DEF TypeOK
    <3>2. /\ Contains(requestEPFiles', g) => Contains(requestEPFiles, g)
          /\ Once(requestEPFiles', g)
          /\ g = requestEPFiles[index] => ~Contains(requestEPFiles', g)
      BY <1>10, <2>2, <3>1, <1>a, RemoveAtEntries DEF RemoveRequest, TypeOK
    <3>3. requestEPFiles[index] = info => Contains(requestEPFiles, info)
      BY <3>1 DEF Contains
    <3> QED
      BY <1>10, <2>1, <2>2, <3>2, <3>3, <1>a DEF RemoveRequest
  <2>3. CASE index \notin DOMAIN requestEPFiles
    BY <1>10, <2>1, <2>3, <1>a DEF RemoveRequest
  <2> QED
    BY <2>2, <2>3
<1>11. CASE Deliver
  <2>1. /\ Contains(posted, g) <=> Contains(posted', g) \/ g = Head(posted)
        /\ Once(posted, g) =>
             Once(posted', g) /\ (g = Head(posted) => ~Contains(posted', g))
    BY <1>11, <1>a, TailEntries DEF Deliver, TypeOK
  <2>2. CASE ThreadFinished
    <3>1. g # Head(posted)
      BY <2>2, RequestEPAssumption DEF ThreadFinished
    <3> QED
      BY <1>11, <2>1, <2>2, <3>1, <1>a DEF Deliver, ThreadFinished
  <2>3. ASSUME NEW f \in Files, ProcessEPChanged(f)
        PROVE  Placed(g)'
    <3>1. f = Head(posted) /\ posted' = Tail(posted)
      BY <1>11, <2>3 DEF Deliver, ProcessEPChanged
    <3>2. CASE f = g
      <4>1. UnderWay(g)' => g \in slipped /\ g \in slipped'
        BY <1>11, <2>1, <2>3, <3>1, <3>2, <1>a DEF Deliver, ProcessEPChanged
      <4>2. g \notin slipped' => ~UnderWay(g)'
        BY <1>11, <2>1, <2>3, <3>1, <3>2, <1>a DEF Deliver, ProcessEPChanged
      <4>a. ~Contains(posted', g) => Once(posted', g)
        BY DEF Once, Contains
      <4>3. Once(requestEPFiles, g)' /\ (g \notin slipped' => Once(posted, g)')
        <5>1. Once(requestEPFiles, g) /\ UNCHANGED requestEPFiles
          BY <1>11, <1>a DEF Deliver
        <5>2. Once(requestEPFiles, g)'
          BY <5>1
        <5>3. g \notin slipped' => ~Contains(posted', g)
          BY <4>2
        <5> QED
          BY <5>2, <5>3, <4>a
      <4> QED
        BY <4>1, <4>2, <4>3
    <3>3. CASE f # g
      <4>1. /\ requestEP'[g] = requestEP[g]
            /\ g \in slipped <=> g \in slipped'
            /\ g \in dirtyFileInfos <=> g \in dirtyFileInfos'
        BY <2>3, <3>3, <1>a DEF ProcessEPChanged, TypeOK
      <4> QED
        BY <1>11, <2>1, <3>1, <3>3, <4>1, <1>a DEF Deliver
    <3> QED
      BY <3>2, <3>3
  <2> QED
    BY <1>11, <2>2, <2>3 DEF Deliver
<1>12. CASE Look
  BY <1>12, <1>a DEF Look
<1>13. CASE Take
  <2>1. CASE requestEPFiles = <<>>
    BY <1>13, <2>1, <1>a DEF Take
  <2>2. CASE requestEPFiles # <<>>
    <3>1. /\ requestEPFiles \in Seq(Files) /\ hand' = Head(requestEPFiles)
          /\ requestEPFiles' = Tail(requestEPFiles)
      BY <1>13, <2>2, <1>a DEF Take, TypeOK
    <3>a. /\ Contains(requestEPFiles, g) <=>
               Contains(requestEPFiles', g) \/ g = hand'
          /\ Once(requestEPFiles, g) =>
               /\ Once(requestEPFiles', g)
               /\ g = hand' => ~Contains(requestEPFiles', g)
      BY <2>2, <3>1, TailEntries
    <3> QED
      BY <1>13, <2>2, <3>a, <1>a DEF Take
  <2> QED
    BY <2>1, <2>2
<1>14. CASE Fetch
  <2>1. hand \in Files /\ hand \in Events
    BY <1>14, <1>a DEF Fetch, ThreadOK, Events
  <2>2. /\ Contains(posted', g) <=> Contains(posted, g) \/ g = hand
        /\ Once(posted, g) /\ (g = hand => ~Contains(posted, g)) => Once(posted', g)
    BY <1>14, <2>1, <1>a, AppendEntries DEF Fetch, TypeOK
  <2>3. NoFile \notin Files
    BY RequestEPAssumption DEF NoFile
  <2> QED
    BY <1>14, <2>1, <2>2, <2>3, <1>a DEF Fetch
<1>15. CASE Leave
  <2>1. "finished" \in Events /\ "finished" \notin Files
    BY RequestEPAssumption DEF Events
  <2>2. /\ Contains(posted', g) <=> Contains(posted, g)
        /\ Once(posted, g) => Once(posted', g)
    BY <1>15, <2>1, <1>a, AppendEntries DEF Leave, TypeOK
  <2> QED
    BY <1>15, <2>2, <1>a DEF Leave
<1>16. CASE Quit
  <2>1. ~Contains(requestEPFiles', g) /\ Once(requestEPFiles', g)
    BY <1>16, EmptyEntries DEF Quit
  <2> QED
    BY <1>16, <2>1, <1>a DEF Quit
<1>17. CASE Ended
  <2>1. ~Contains(posted', g) /\ Once(posted', g)
    BY <1>17, EmptyEntries DEF Ended
  <2>2. NoFile \notin Files
    BY RequestEPAssumption DEF NoFile
  <2> QED
    BY <1>17, <2>1, <2>2, <1>a DEF Ended
<1>18. CASE UNCHANGED vars
  BY <1>18, <1>a DEF vars
<1> QED
  BY <1>1, <1>2, <1>3, <1>4, <1>5, <1>6, <1>7, <1>8, <1>9, <1>10, <1>11, <1>12,
     <1>13, <1>14, <1>15, <1>16, <1>17, <1>18
     DEF Next, Handlers, GoOn, Thread

(* An info that is not to ask again has asked, and was not forgotten.       *)
LEMMA AskedStep ==
  ASSUME IInv, [Next]_vars
  PROVE  AskedOrLoaded'
<1> USE DEF infos, shared, handler, bounds, history
<1>a. TypeOK /\ HandlerOK /\ ThreadOK /\ AskedOrLoaded
  BY DEF IInv
<1> USE DEF AskedOrLoaded, UnderWay, Queued, Taken
<1>1. ASSUME NEW f \in Files, ExtraProperties(f)
     PROVE  AskedOrLoaded'
  BY <1>1, <1>a DEF ExtraProperties, TypeOK
<1>2. ASSUME NEW f \in Files, Refresh(f)
     PROVE  AskedOrLoaded'
  BY <1>2, <1>a DEF Refresh, TypeOK
<1>3. ASSUME NEW f \in Files, MakeToInactive(f)
     PROVE  AskedOrLoaded'
  BY <1>3, <1>a DEF MakeToInactive, TypeOK
<1>4. ASSUME NEW f \in Files, DeleteTimer(f)
     PROVE  AskedOrLoaded'
  BY <1>4, <1>a DEF DeleteTimer, TypeOK
<1>5. ASSUME NEW f \in Files, Timeout(f)
     PROVE  AskedOrLoaded'
  BY <1>5, <1>a DEF Timeout, TypeOK
<1>6. ASSUME NEW f \in Files, Destroy(f)
     PROVE  AskedOrLoaded'
  BY <1>6, <1>a DEF Destroy, TypeOK
<1>7. CASE Scan
  BY <1>7, <1>a DEF Scan, NextCall, Return, TypeOK
<1>8. CASE AppendRequest
  <2>1. info \in Files
    BY <1>8, <1>a DEF AppendRequest, HandlerOK, TypeOK
  <2>2. \A g \in Files :
          Contains(requestEPFiles', g) <=> Contains(requestEPFiles, g) \/ g = info
    BY <1>8, <2>1, <1>a, AppendEntries DEF AppendRequest, TypeOK
  <2> QED
    BY <1>8, <2>1, <2>2, <1>a DEF AppendRequest, TypeOK
<1>9. CASE StartThread
  BY <1>9, <1>a DEF StartThread, NextCall, Return, TypeOK
<1>10. CASE RemoveRequest
  <2>1. info \notin alive
    BY <1>10, <1>a DEF RemoveRequest, HandlerOK
  <2>2. CASE index \in DOMAIN requestEPFiles
    <3>1. index \in 1..Len(requestEPFiles)
      BY <2>2, <1>a DEF TypeOK
    <3>2. \A g \in Files : Contains(requestEPFiles, g) =>
            Contains(requestEPFiles', g) \/ g = requestEPFiles[index]
      BY <1>10, <2>2, <3>1, <1>a, RemoveAtEntries DEF RemoveRequest, TypeOK
    <3> QED
      BY <1>10, <2>1, <2>2, <3>2, <1>a DEF RemoveRequest, TypeOK
  <2>3. CASE index \notin DOMAIN requestEPFiles
    BY <1>10, <2>1, <2>3, <1>a DEF RemoveRequest, TypeOK
  <2> QED
    BY <2>2, <2>3
<1>11. CASE Deliver
  <2>1. \A g \in Files :
          Contains(posted, g) <=> Contains(posted', g) \/ g = Head(posted)
    BY <1>11, <1>a, TailEntries DEF Deliver, TypeOK
  <2>2. CASE ThreadFinished
    <3>1. \A g \in Files : g # Head(posted)
      BY <2>2, RequestEPAssumption DEF ThreadFinished
    <3> QED
      BY <1>11, <2>1, <2>2, <3>1, <1>a DEF Deliver, ThreadFinished, TypeOK
  <2>3. ASSUME NEW f \in Files, ProcessEPChanged(f)
        PROVE  AskedOrLoaded'
    <3>1. f = Head(posted)
      BY <2>3 DEF ProcessEPChanged
    <3>2. \A g \in Files \ {f} : epInitialized'[g] = epInitialized[g]
      BY <2>3, <1>a DEF ProcessEPChanged, TypeOK
    <3>3. loaded \subseteq loaded' /\ (f \in alive => f \in loaded')
      BY <2>3, <1>a DEF ProcessEPChanged, HandlerOK
    <3>4. UNCHANGED <<alive, timer, requestEPFiles, thread, hand, gui, info, missed>>
      BY <1>11 DEF Deliver
    <3> SUFFICES ASSUME NEW g \in alive, epInitialized'[g], 
                        {gui, thread} \cap {"undefined", "quit", "ended"} = {}
                 PROVE  \/ g \in loaded' \cup missed
                        \/ timer[g] = "armed" \/ UnderWay(g)'
                        \/ gui \in {"scan", "append"} /\ info = g
      BY <3>4
    <3>5. CASE g = f
      BY <3>3, <3>5
    <3>6. CASE g # f
      BY <2>1, <3>1, <3>2, <3>3, <3>4, <3>6, <1>a DEF TypeOK
    <3> QED
      BY <3>5, <3>6
  <2> QED
    BY <1>11, <2>2, <2>3 DEF Deliver
<1>12. CASE Look
  BY <1>12, <1>a DEF Look, TypeOK
<1>13. CASE Take
  <2>1. CASE requestEPFiles = <<>>
    BY <1>13, <2>1, <1>a DEF Take
  <2>2. CASE requestEPFiles # <<>>
    <3>1. /\ requestEPFiles \in Seq(Files) /\ hand' = Head(requestEPFiles)
          /\ requestEPFiles' = Tail(requestEPFiles)
      BY <1>13, <2>2, <1>a DEF Take, TypeOK
    <3>a. ASSUME NEW g \in Files
          PROVE  Contains(requestEPFiles, g) => Contains(requestEPFiles', g) \/ g = hand'
      BY <2>2, <3>1, TailEntries
    <3>2. hand \notin Files
      BY <1>13, <1>a, RequestEPAssumption DEF Take, ThreadOK, NoFile
    <3> QED
      BY <1>13, <2>2, <3>a, <3>2, <1>a DEF Take, TypeOK
  <2> QED
    BY <2>1, <2>2
<1>14. CASE Fetch
  <2>1. hand \in Events
    BY <1>14, <1>a DEF Fetch, ThreadOK, Events
  <2>2. \A g \in Files : Contains(posted', g) <=> Contains(posted, g) \/ g = hand
    BY <1>14, <2>1, <1>a, AppendEntries DEF Fetch, TypeOK
  <2> QED
    BY <1>14, <2>2, <1>a DEF Fetch, TypeOK
<1>15. CASE Leave
  <2>1. "finished" \in Events
    BY DEF Events
  <2>2. \A g \in Files : Contains(posted, g) => Contains(posted', g)
    BY <1>15, <2>1, <1>a, AppendEntries DEF Leave, TypeOK
  <2> QED
    BY <1>15, <2>2, <1>a DEF Leave, TypeOK
<1>16. CASE Quit
  BY <1>16, <1>a DEF Quit, TypeOK
<1>17. CASE Ended
  BY <1>17, <1>a DEF Ended, TypeOK
<1>18. CASE UNCHANGED vars
  BY <1>18, <1>a DEF vars, TypeOK
<1> QED
  BY <1>1, <1>2, <1>3, <1>4, <1>5, <1>6, <1>7, <1>8, <1>9, <1>10, <1>11, <1>12,
     <1>13, <1>14, <1>15, <1>16, <1>17, <1>18
     DEF Next, Handlers, GoOn, Thread

(* The queue and the thread go on fitting together.                         *)
LEMMA ServedStep ==
  ASSUME IInv, [Next]_vars
  PROVE  QueueIsServed'
<1> USE DEF infos, shared, handler, bounds, history
<1>a. TypeOK /\ HandlerOK /\ ThreadOK /\ QueueIsServed
  BY DEF IInv
<1>1. ASSUME NEW f \in Files, ExtraProperties(f)
     PROVE  QueueIsServed'
  BY <1>1, <1>a DEF ExtraProperties, TypeOK, HandlerOK, ThreadOK, QueueIsServed
<1>2. ASSUME NEW f \in Files, Refresh(f)
     PROVE  QueueIsServed'
  BY <1>2, <1>a DEF Refresh, TypeOK, HandlerOK, ThreadOK, QueueIsServed
<1>3. ASSUME NEW f \in Files, MakeToInactive(f)
     PROVE  QueueIsServed'
  BY <1>3, <1>a DEF MakeToInactive, TypeOK, HandlerOK, ThreadOK, QueueIsServed
<1>4. ASSUME NEW f \in Files, DeleteTimer(f)
     PROVE  QueueIsServed'
  BY <1>4, <1>a DEF DeleteTimer, TypeOK, HandlerOK, ThreadOK, QueueIsServed
<1>5. ASSUME NEW f \in Files, Timeout(f)
     PROVE  QueueIsServed'
  BY <1>5, <1>a DEF Timeout, TypeOK, HandlerOK, ThreadOK, QueueIsServed
<1>6. ASSUME NEW f \in Files, Destroy(f)
     PROVE  QueueIsServed'
  BY <1>6, <1>a DEF Destroy, TypeOK, HandlerOK, ThreadOK, QueueIsServed
<1>7. CASE Scan
  BY <1>7, <1>a
     DEF Scan, NextCall, Return, TypeOK, HandlerOK, ThreadOK, QueueIsServed
<1>8. CASE AppendRequest
  BY <1>8, <1>a
     DEF AppendRequest, NextCall, Return, TypeOK, HandlerOK, ThreadOK, QueueIsServed
<1>9. CASE StartThread
  BY <1>9, <1>a
     DEF StartThread, NextCall, Return, TypeOK, HandlerOK, ThreadOK, QueueIsServed
<1>10. CASE RemoveRequest
  BY <1>10, <1>a
     DEF RemoveRequest, NextCall, Return, TypeOK, HandlerOK, ThreadOK, QueueIsServed
<1>11. CASE Deliver
  BY <1>11, <1>a DEF Deliver, QueueIsServed
<1>12. CASE Look
  BY <1>12, <1>a DEF Look, TypeOK, HandlerOK, ThreadOK, QueueIsServed
<1>13. CASE Take
  BY <1>13, <1>a DEF Take, TypeOK, HandlerOK, ThreadOK, QueueIsServed
<1>14. CASE Fetch
  BY <1>14, <1>a DEF Fetch, TypeOK, HandlerOK, ThreadOK, QueueIsServed
<1>15. CASE Leave
  BY <1>15, <1>a DEF Leave, TypeOK, HandlerOK, ThreadOK, QueueIsServed
<1>16. CASE Quit
  BY <1>16, <1>a DEF Quit, TypeOK, HandlerOK, ThreadOK, QueueIsServed
<1>17. CASE Ended
  BY <1>17, <1>a DEF Ended, TypeOK, HandlerOK, ThreadOK, QueueIsServed
<1>18. CASE UNCHANGED vars
  BY <1>18, <1>a DEF vars, TypeOK, HandlerOK, ThreadOK, QueueIsServed
<1> QED
  BY <1>1, <1>2, <1>3, <1>4, <1>5, <1>6, <1>7, <1>8, <1>9, <1>10, <1>11, <1>12,
     <1>13, <1>14, <1>15, <1>16, <1>17, <1>18
     DEF Next, Handlers, GoOn, Thread

(* The invariant holds of every reachable state.                           *)
THEOREM IInvHolds == Spec => []IInv
<1>1. IInv /\ [Next]_vars => IInv'
  BY TypeStep, PlacesStep, PlacedStep, AskedStep, ServedStep DEF IInv
<1> QED
  BY InitIInv, <1>1, PTL DEF Spec

(* Every variable keeps a value of its kind, for any number of infos.      *)
THEOREM TypeCorrect == Spec => []TypeOK
<1>1. IInv => TypeOK
  BY DEF IInv
<1> QED
  BY <1>1, IInvHolds, PTL

(* The result of a destroyed info is marked as such, unless its request    *)
(* slipped: processEPChanged() writes to no other destroyed info.          *)
THEOREM DestroyedStayMarked == Spec => []DestroyedAreMarked
<1>1. IInv => DestroyedAreMarked
  BY DEF IInv, Placed, Marked, DestroyedAreMarked
<1> QED
  BY <1>1, IInvHolds, PTL

(* An info that asks no more has asked, and is not forgotten.              *)
THEOREM AskedIsLoaded == Spec => []AskedOrLoaded
<1>1. IInv => AskedOrLoaded
  BY DEF IInv
<1> QED
  BY <1>1, IInvHolds, PTL

(* The queue does not wait for a thread that is not there.                 *)
THEOREM QueueGetsServed == Spec => []QueueIsServed
<1>1. IInv => QueueIsServed
  BY DEF IInv
<1> QED
  BY <1>1, IInvHolds, PTL

=============================================================================
