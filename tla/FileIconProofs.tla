---------------------------- MODULE FileIconProofs ---------------------------
(***************************************************************************)
(* Proofs about FileIcon and the ThumbnailProvider it uses, for any infos, *)
(* files, changes of the files and lengths of the queue.                   *)
(***************************************************************************)
EXTENDS FileIcon, TLAPS

-----------------------------------------------------------------------------
(* The provider by itself.                                                 *)

(* What the thread and the destructor leave behind them: the queue is      *)
(* empty from the thread's look to its wait; a thread that was woken finds *)
(* a request, unless overtaken; and one that did not hear the destructor   *)
(* had nothing left to do.                                                 *)
ProviderOK ==
  /\ thread \in {"make", "call"} => task \in Requests
  /\ thread = "asleep" => produceQueue = <<>>
  /\ thread = "waiting" /\ gui = "wake" /\ produceQueue = <<>> => overtaken
  /\ thread \in {"woken", "check"} /\ produceQueue = <<>> /\ running => overtaken
  /\ gui \in {"stop", "join", "gone"} => ~running
  /\ gui = "join" =>
       \/ unheard
       \/ thread \in {"off", "woken", "check", "ended", "undefined"}
       \/ thread \in {"top", "make", "call"} /\ produceQueue # <<>>
  /\ gui = "insert" => key \in Keys

ProviderInv == Provider!TypeOK /\ ProviderOK /\ WakesMatchQueue

(* Every request is for a file.                                            *)
LEMMA KeyOfType == KeyOf \in [Requests -> Keys]
  BY FileIconAssumption DEF KeyOf, Requests

(* The provider starts within its invariant.                               *)
LEMMA ProviderInit == Provider!Init => ProviderInv
<1> SUFFICES ASSUME Provider!Init PROVE ProviderInv
  OBVIOUS
<1>1. Provider!TypeOK
  <2>1. <<>> \in Seq(Requests) /\ Len(<<>>) = 0
    OBVIOUS
  <2>2. produceQueue \in Seq(Requests) /\ Len(produceQueue) <= MaxQueue
    BY <2>1, FileIconAssumption DEF Provider!Init
  <2> QED
    BY <2>2 DEF Provider!Init, Provider!TypeOK
<1>2. ProviderOK /\ WakesMatchQueue
  BY DEF Provider!Init, ProviderOK, WakesMatchQueue, Provider!WakesMatchQueue
<1> QED
  BY <1>1, <1>2 DEF ProviderInv

(* The provider's variables keep values of their kinds.                    *)
LEMMA ProviderTypeStep ==
  ASSUME ProviderInv, [Provider!Next]_provider
  PROVE  Provider!TypeOK'
<1> USE DEF provider, Provider!shared, Provider!worker, Provider!caller,
    Provider!history
<1>a. Provider!TypeOK /\ ProviderOK /\ WakesMatchQueue
  BY DEF ProviderInv
<1>1. ASSUME NEW r \in Requests, Provider!AppendToProduceQueue(r)
     PROVE  Provider!TypeOK'
  <2>1. produceQueue' \in Seq(Requests) /\ Len(produceQueue') <= MaxQueue
    BY <1>1, <1>a, FileIconAssumption
       DEF Provider!AppendToProduceQueue, Provider!TypeOK
  <2> QED
    BY <1>1, <2>1, <1>a DEF Provider!AppendToProduceQueue, Provider!TypeOK
<1>2. ASSUME NEW r \in Requests, Provider!RemoveInProduceQueue(r)
     PROVE  Provider!TypeOK'
  BY <1>2, <1>a, KeyOfType
     DEF Provider!RemoveInProduceQueue, Provider!LockHeld, Provider!TypeOK
<1>3. CASE Provider!WakeThread
  <2>1. thread' \in {thread, "woken"}
    BY <1>3 DEF Provider!WakeThread, Provider!WakeAll
  <2> QED
    BY <1>3, <2>1, <1>a DEF Provider!WakeThread, Provider!TypeOK
<1>4. CASE Provider!InsertDiscarded
  <2>1. discardedProduceInfos' \subseteq Keys
    BY <1>4, <1>a DEF Provider!InsertDiscarded, Provider!TypeOK, ProviderOK
  <2> QED
    BY <1>4, <2>1, <1>a DEF Provider!InsertDiscarded, Provider!TypeOK
<1>5. CASE Provider!WakeToStop
  BY <1>5, <1>a, KeyOfType
     DEF Provider!WakeToStop, Provider!WakeAll, Provider!Started, Provider!TypeOK
<1>6. CASE Provider!Joined
  BY <1>6, <1>a, KeyOfType
     DEF Provider!Joined, Provider!TypeOK
<1>7. CASE Provider!StopThread
  BY <1>7, <1>a, KeyOfType
     DEF Provider!StopThread, Provider!TypeOK
<1>8. CASE Provider!LookAtQueue
  BY <1>8, <1>a, KeyOfType
     DEF Provider!LookAtQueue, Provider!TypeOK
<1>9. CASE Provider!Wait
  BY <1>9, <1>a, KeyOfType
     DEF Provider!Wait, Provider!TypeOK
<1>10. CASE Provider!TakeLock
  BY <1>10, <1>a, KeyOfType
     DEF Provider!TakeLock, Provider!TypeOK
<1>11. CASE Provider!Dequeue
  <2>1. CASE produceQueue' = produceQueue
    BY <1>11, <2>1, <1>a DEF Provider!Dequeue, Provider!TypeOK
  <2>2. CASE produceQueue # <<>> /\ produceQueue' = Tail(produceQueue)
    <3>1. /\ produceQueue' \in Seq(Requests) /\ Head(produceQueue) \in Requests
          /\ Len(produceQueue') <= MaxQueue
      BY <2>2, <1>a, FileIconAssumption DEF Provider!TypeOK
    <3> QED
      BY <1>11, <2>2, <3>1, <1>a DEF Provider!Dequeue, Provider!TypeOK
  <2> QED
    BY <1>11, <2>1, <2>2 DEF Provider!Dequeue
<1>12. CASE Provider!CreateThumbnail
  BY <1>12, <1>a, KeyOfType
     DEF Provider!CreateThumbnail, Provider!TypeOK
<1>13. CASE Provider!CallBack
  BY <1>13, <1>a, KeyOfType
     DEF Provider!CallBack, Provider!TypeOK
<1>14. CASE UNCHANGED provider
  BY <1>14, <1>a DEF Provider!TypeOK
<1> QED
  BY <1>1, <1>2, <1>3, <1>4, <1>5, <1>6, <1>7, <1>8, <1>9, <1>10, <1>11, <1>12,
     <1>13, <1>14
     DEF Provider!Next, Provider!Calls, Provider!GoOn, Provider!Run

(* The thread, the handlers and the queue go on fitting together.          *)
LEMMA ProviderOKStep ==
  ASSUME ProviderInv, [Provider!Next]_provider
  PROVE  ProviderOK' /\ WakesMatchQueue'
<1> USE DEF provider, Provider!shared, Provider!worker, Provider!caller,
    Provider!history
<1>a. Provider!TypeOK /\ ProviderOK /\ WakesMatchQueue
  BY DEF ProviderInv
<1>1. ASSUME NEW r \in Requests, Provider!AppendToProduceQueue(r)
     PROVE  ProviderOK' /\ WakesMatchQueue'
  <2>1. produceQueue' # <<>>
    BY <1>1, <1>a DEF Provider!AppendToProduceQueue, Provider!TypeOK
  <2> QED
    BY <1>1, <2>1, <1>a DEF Provider!AppendToProduceQueue, Provider!Started,
       Provider!LockHeld, ProviderOK, WakesMatchQueue, Provider!WakesMatchQueue
<1>2. ASSUME NEW r \in Requests, Provider!RemoveInProduceQueue(r)
     PROVE  ProviderOK' /\ WakesMatchQueue'
  BY <1>2, <1>a, KeyOfType
     DEF Provider!RemoveInProduceQueue, Provider!LockHeld, Provider!TypeOK,
         ProviderOK, WakesMatchQueue, Provider!WakesMatchQueue
<1>3. CASE Provider!WakeThread
  BY <1>3, <1>a, KeyOfType
     DEF Provider!WakeThread, Provider!WakeAll, Provider!TypeOK, ProviderOK,
         WakesMatchQueue, Provider!WakesMatchQueue
<1>4. CASE Provider!InsertDiscarded
  BY <1>4, <1>a, KeyOfType
     DEF Provider!InsertDiscarded, Provider!TypeOK, ProviderOK, WakesMatchQueue,
         Provider!WakesMatchQueue
<1>5. CASE Provider!WakeToStop
  <2>1. /\ gui = "stop" /\ gui' = "join" /\ ~running /\ ~running'
        /\ produceQueue' = produceQueue /\ task' = task
        /\ overtaken' = overtaken
    BY <1>5, <1>a DEF Provider!WakeToStop, ProviderOK
  <2>2. CASE thread = "waiting"
    <3>1. thread' = "woken"
      BY <1>5, <2>2 DEF Provider!WakeToStop, Provider!WakeAll
    <3> QED
      BY <3>1, <2>1, <1>a DEF ProviderOK, WakesMatchQueue, Provider!WakesMatchQueue
  <2>3. CASE thread # "waiting"
    <3>1. thread' = thread
      BY <1>5, <2>3 DEF Provider!WakeToStop, Provider!WakeAll
    <3>2. \/ unheard' \/ thread \in {"off", "woken", "check", "ended", "undefined"}
          \/ thread \in {"top", "make", "call"} /\ produceQueue # <<>>
      <4>1. CASE produceQueue = <<>>
        BY <1>5, <2>3, <4>1 DEF Provider!WakeToStop, Provider!Started
      <4>2. CASE produceQueue # <<>>
        BY <2>3, <4>2, <1>a DEF Provider!TypeOK, ProviderOK
      <4> QED
        BY <4>1, <4>2
    <3>3. thread = "asleep" => unheard'
      BY <3>2
    <3>4. ProviderOK'
      BY <3>1, <3>2, <2>1, <2>3, <1>a DEF ProviderOK
    <3> QED
      BY <3>1, <3>3, <3>4, <2>1, <2>3, <1>a
         DEF WakesMatchQueue, Provider!WakesMatchQueue
  <2> QED
    BY <2>2, <2>3
<1>6. CASE Provider!Joined
  BY <1>6, <1>a, KeyOfType
     DEF Provider!Joined, Provider!TypeOK, ProviderOK, WakesMatchQueue,
         Provider!WakesMatchQueue
<1>7. CASE Provider!StopThread
  BY <1>7, <1>a, KeyOfType
     DEF Provider!StopThread, Provider!TypeOK, ProviderOK, WakesMatchQueue,
         Provider!WakesMatchQueue
<1>8. CASE Provider!LookAtQueue
  BY <1>8, <1>a, KeyOfType
     DEF Provider!LookAtQueue, Provider!TypeOK, ProviderOK, WakesMatchQueue,
         Provider!WakesMatchQueue
<1>9. CASE Provider!Wait
  BY <1>9, <1>a, KeyOfType
     DEF Provider!Wait, Provider!TypeOK, ProviderOK, WakesMatchQueue,
         Provider!WakesMatchQueue
<1>10. CASE Provider!TakeLock
  BY <1>10, <1>a, KeyOfType
     DEF Provider!TakeLock, Provider!TypeOK, ProviderOK, WakesMatchQueue,
         Provider!WakesMatchQueue
<1>11. CASE Provider!Dequeue
  <2>1. CASE running /\ produceQueue # <<>>
    <3>1. Head(produceQueue) \in Requests
      BY <2>1, <1>a DEF Provider!TypeOK
    <3> QED
      BY <1>11, <2>1, <3>1, <1>a DEF Provider!Dequeue, Provider!TypeOK, ProviderOK,
         WakesMatchQueue, Provider!WakesMatchQueue
  <2>2. CASE ~(running /\ produceQueue # <<>>)
    BY <1>11, <2>2, <1>a DEF Provider!Dequeue, Provider!TypeOK, ProviderOK,
       WakesMatchQueue, Provider!WakesMatchQueue
  <2> QED
    BY <2>1, <2>2
<1>12. CASE Provider!CreateThumbnail
  BY <1>12, <1>a, KeyOfType
     DEF Provider!CreateThumbnail, Provider!TypeOK, ProviderOK, WakesMatchQueue,
         Provider!WakesMatchQueue
<1>13. CASE Provider!CallBack
  BY <1>13, <1>a, KeyOfType
     DEF Provider!CallBack, Provider!TypeOK, ProviderOK, WakesMatchQueue,
         Provider!WakesMatchQueue
<1>14. CASE UNCHANGED provider
  BY <1>14, <1>a
     DEF Provider!TypeOK, ProviderOK, WakesMatchQueue, Provider!WakesMatchQueue
<1> QED
  BY <1>1, <1>2, <1>3, <1>4, <1>5, <1>6, <1>7, <1>8, <1>9, <1>10, <1>11, <1>12,
     <1>13, <1>14
     DEF Provider!Next, Provider!Calls, Provider!GoOn, Provider!Run

(* A step of the provider keeps the provider's invariant.                  *)
LEMMA ProviderStep ==
  ASSUME ProviderInv, [Provider!Next]_provider
  PROVE  ProviderInv'
  BY ProviderTypeStep, ProviderOKStep DEF ProviderInv

-----------------------------------------------------------------------------
(* The provider within FileIcon.                                           *)

(* Whatever an info or the thread does is a step of the provider, or none. *)
LEMMA StepIsProviderStep ==
  ASSUME TypeOK, [Next]_vars
  PROVE  [Provider!Next]_provider
<1> USE DEF provider, disk, look, asking, seen, paint, screen, history
<1>1. ASSUME NEW i \in Infos, Paint(i)
     PROVE  [Provider!Next]_provider
  BY <1>1 DEF Paint, Provider!Next, Provider!Calls
<1>2. ASSUME NEW i \in Infos, Timeout(i)
     PROVE  [Provider!Next]_provider
  <2>1. <<i, lastKnown[i]>> \in Requests
    BY DEF TypeOK, Requests
  <2> QED
    BY <1>2, <2>1 DEF Timeout, Provider!Next, Provider!Calls
<1>3. ASSUME NEW i \in Infos, DeleteTimer(i)
     PROVE  [Provider!Next]_provider
  BY <1>3 DEF DeleteTimer, Provider!Next, Provider!Calls
<1>4. ASSUME NEW i \in Infos, MakeToActive(i)
     PROVE  [Provider!Next]_provider
  BY <1>4 DEF MakeToActive, Provider!Next, Provider!Calls
<1>5. ASSUME NEW i \in Infos, MakeToInactive(i)
     PROVE  [Provider!Next]_provider
  <2>1. <<i, lastKnown[i]>> \in Requests
    BY DEF TypeOK, Requests
  <2> QED
    BY <1>5, <2>1 DEF MakeToInactive, Provider!Next, Provider!Calls
<1>6. ASSUME NEW i \in Infos, Refresh(i)
     PROVE  [Provider!Next]_provider
  BY <1>6 DEF Refresh, Forget, Provider!Next, Provider!Calls
<1>7. CASE LookForStored
  BY <1>7 DEF LookForStored, Provider!Next, Provider!Calls
<1>8. CASE AskLater
  BY <1>8 DEF AskLater, Provider!Next, Provider!Calls
<1>9. CASE GUIGoesOn
  BY <1>9 DEF GUIGoesOn, Provider!Next, Provider!Calls
<1>10. CASE Exit
  BY <1>10 DEF Exit, Provider!Next, Provider!Calls
<1>11. CASE RunQueue
  BY <1>11 DEF RunQueue, TakeRequest, Provider!Next, Provider!Run
<1>12. CASE CreateThumbnail
  BY <1>12 DEF CreateThumbnail, Provider!Next, Provider!Run
<1>13. CASE CallBack
  BY <1>13 DEF CallBack, Provider!Next, Provider!Run
<1>14. ASSUME NEW k \in Keys, Change(k)
     PROVE  [Provider!Next]_provider
  BY <1>14 DEF Change, Provider!Next, Provider!Calls
<1>15. CASE UNCHANGED vars
  BY <1>15 DEF vars, Provider!Next, Provider!Calls
<1>16. ASSUME NEW i \in Infos, FileUpdated(i)
     PROVE  [Provider!Next]_provider
  BY <1>16 DEF FileUpdated, Forget, Provider!Next, Provider!Calls
<1> QED
  BY <1>1, <1>2, <1>3, <1>4, <1>5, <1>6, <1>7, <1>8, <1>9, <1>10, <1>11, <1>12,
     <1>13, <1>14, <1>15, <1>16
     DEF Next, Handlers, PaintGoesOn, Run

-----------------------------------------------------------------------------
(* The infos.                                                              *)

(* While fileIcon() runs its info needs a thumbnail, or was called back.   *)
PaintOK ==
  /\ (place = "out") <=> (painted = NoInfo)
  /\ painted # NoInfo /\ ~needThumbnail[painted] => painted \in raced

IInv == TypeOK /\ ProviderInv /\ PaintOK /\ GivesUpOnAnswer

(* A thumbnail that is not there has no time of a file.                    *)
LEMMA TimesType == 0 \in Times /\ NoThumb \notin Times /\ Times \subseteq Int
  BY FileIconAssumption DEF Times, NoThumb

(* The invariant holds before anything was painted.                        *)
LEMMA InitIInv == Init => IInv
<1> SUFFICES ASSUME Init PROVE IInv
  OBVIOUS
<1>1. ProviderInv
  BY ProviderInit DEF Init
<1>2. TypeOK
  BY <1>1, TimesType DEF Init, TypeOK, ProviderInv
<1>3. PaintOK /\ GivesUpOnAnswer
  BY DEF Init, PaintOK, GivesUpOnAnswer
<1> QED
  BY <1>1, <1>2, <1>3 DEF IInv

(* A step of an info keeps the provider's invariant.                       *)
LEMMA ProviderInvStep ==
  ASSUME IInv, [Next]_vars
  PROVE  ProviderInv'
<1>1. [Provider!Next]_provider
  BY StepIsProviderStep DEF IInv
<1> QED
  BY <1>1, ProviderStep DEF IInv

(* Every variable keeps a value of its kind.                               *)
LEMMA TypeStep ==
  ASSUME IInv, [Next]_vars
  PROVE  TypeOK'
<1> USE DEF provider, disk, look, asking, seen, paint, screen, history
<1>a. TypeOK /\ ProviderInv /\ PaintOK
  BY DEF IInv
<1>b. Provider!TypeOK'
  BY ProviderInvStep DEF ProviderInv
<1>1. ASSUME NEW i \in Infos, Paint(i)
     PROVE  TypeOK'
  <2>1. hasThumbnail' \in [Infos -> {"unknown", "yes", "no"}]
    BY <1>1, <1>a DEF Paint, TypeOK
  <2>2. /\ icon' \in [Infos -> {"empty", "theme", "thumbnail", "mixed"}]
        /\ iconFromTheme' \in [Infos -> BOOLEAN] /\ needThumbnail' \in [Infos -> BOOLEAN]
    BY <1>1, <1>a DEF Paint, TypeOK
  <2>3. painted' \in Infos \cup {NoInfo} /\ place' \in {"out", "stored", "ask"}
    BY <1>1, <1>a DEF Paint, TypeOK
  <2> QED
    BY <1>1, <2>1, <2>2, <2>3, <1>a, <1>b DEF Paint, TypeOK
<1>2. ASSUME NEW i \in Infos, Timeout(i)
     PROVE  TypeOK'
  BY <1>2, <1>a, <1>b, TimesType DEF Timeout, TypeOK, Idle
<1>3. ASSUME NEW i \in Infos, DeleteTimer(i)
     PROVE  TypeOK'
  BY <1>3, <1>a, <1>b, TimesType DEF DeleteTimer, TypeOK, Idle
<1>4. ASSUME NEW i \in Infos, MakeToActive(i)
     PROVE  TypeOK'
  <2>1. FileOf[i] \in Keys
    BY FileIconAssumption
  <2> QED
    BY <1>4, <2>1, <1>a, <1>b DEF MakeToActive, TypeOK
<1>5. ASSUME NEW i \in Infos, MakeToInactive(i)
     PROVE  TypeOK'
  <2>1. /\ getIconTimer' \in [Infos -> {"none", "armed", "dying"}]
        /\ requestingThumbnail' \in [Infos -> BOOLEAN]
    BY <1>5, <1>a DEF MakeToInactive, TypeOK
  <2> QED
    BY <1>5, <2>1, <1>a, <1>b DEF MakeToInactive, TypeOK
<1>6. ASSUME NEW i \in Infos, Refresh(i)
     PROVE  TypeOK'
  <2>1. FileOf[i] \in Keys
    BY FileIconAssumption
  <2> QED
    BY <1>6, <2>1, <1>a, <1>b DEF Refresh, Forget, TypeOK
<1>7. CASE LookForStored
  <2>1. painted \in Infos
    BY <1>7, <1>a DEF LookForStored, PaintOK, TypeOK
  <2>2. stored' \in [Keys -> Times \cup {NoThumb}]
    BY <1>7, <1>a DEF LookForStored, TypeOK
  <2>3. icon' \in [Infos -> {"empty", "theme", "thumbnail", "mixed"}]
    BY <1>7, <2>1, <1>a DEF LookForStored, TypeOK
  <2>4. iconFromTheme' \in [Infos -> BOOLEAN] /\ needThumbnail' \in [Infos -> BOOLEAN]
    BY <1>7, <1>a DEF LookForStored, TypeOK
  <2>5. painted' \in Infos \cup {NoInfo} /\ place' \in {"out", "ask"}
    BY <1>7, <1>a DEF LookForStored, TypeOK
  <2> QED
    BY <1>7, <2>2, <2>3, <2>4, <2>5, <1>a, <1>b DEF LookForStored, TypeOK
<1>8. CASE AskLater
  BY <1>8, <1>a, <1>b, TimesType DEF AskLater, TypeOK, Idle
<1>9. CASE GUIGoesOn
  BY <1>9, <1>a, <1>b, TimesType DEF GUIGoesOn, TypeOK, Idle
<1>10. CASE Exit
  BY <1>10, <1>a, <1>b, TimesType DEF Exit, TypeOK, Idle
<1>11. CASE RunQueue
  <2>1. swallowed' \subseteq Infos
    <3>1. CASE TakeRequest /\ thread' = "top"
      <4>1. produceQueue # <<>>
        BY <3>1 DEF TakeRequest, Provider!Dequeue
      <4>2. Head(produceQueue) \in Requests
        BY <4>1, <1>a DEF TypeOK, Provider!TypeOK
      <4>3. Head(produceQueue)[1] \in Infos
        BY <4>2 DEF Requests
      <4> QED
        BY <3>1, <4>3, <1>a DEF TakeRequest, TypeOK
    <3>2. CASE ~(TakeRequest /\ thread' = "top")
      BY <1>11, <3>2, <1>a DEF RunQueue, TakeRequest, TypeOK
    <3> QED
      BY <3>1, <3>2
  <2> QED
    BY <1>11, <2>1, <1>a, <1>b DEF RunQueue, TypeOK
<1>12. CASE CreateThumbnail
  <2>1. task \in Requests
    BY <1>12, <1>a
       DEF CreateThumbnail, Provider!CreateThumbnail, ProviderInv, ProviderOK
  <2>2. task[2] \in Times
    BY <2>1 DEF Requests
  <2>3. stored' \in [Keys -> Times \cup {NoThumb}]
    BY <1>12, <2>2, <1>a DEF CreateThumbnail, TypeOK
  <2>4. posted' \subseteq Infos /\ behind' \subseteq Infos
    BY <1>12, <1>a DEF CreateThumbnail, Announced, TypeOK
  <2> QED
    BY <1>12, <2>3, <2>4, <1>a, <1>b DEF CreateThumbnail, TypeOK
<1>13. CASE CallBack
  <2>1. task \in Requests
    BY <1>13, <1>a DEF CallBack, Provider!CallBack, ProviderInv, ProviderOK
  <2>2. task[1] \in Infos
    BY <2>1 DEF Requests
  <2>3. /\ icon' \in [Infos -> {"empty", "theme", "thumbnail", "mixed"}]
        /\ iconFromTheme' \in [Infos -> BOOLEAN] /\ needThumbnail' \in [Infos -> BOOLEAN]
    BY <1>13, <1>a DEF CallBack, TypeOK
  <2>4. raced' \subseteq Infos
    BY <1>13, <2>2, <1>a DEF CallBack, TypeOK
  <2> QED
    BY <1>13, <2>3, <2>4, <1>a, <1>b DEF CallBack, TypeOK
<1>14. ASSUME NEW k \in Keys, Change(k)
     PROVE  TypeOK'
  <2>1. lastModified[k] + 1 \in Times
    BY <1>14, <1>a, FileIconAssumption DEF Change, TypeOK, Times
  <2> QED
    BY <1>14, <2>1, <1>a, <1>b DEF Change, TypeOK
<1>15. CASE UNCHANGED vars
  BY <1>15, <1>a, <1>b, TimesType DEF vars, TypeOK, Idle
<1>16. ASSUME NEW i \in Infos, FileUpdated(i)
     PROVE  TypeOK'
  <2>1. FileOf[i] \in Keys
    BY FileIconAssumption
  <2> QED
    BY <1>16, <2>1, <1>a, <1>b DEF FileUpdated, Forget, TypeOK
<1> QED
  BY <1>1, <1>2, <1>3, <1>4, <1>5, <1>6, <1>7, <1>8, <1>9, <1>10, <1>11, <1>12,
     <1>13, <1>14, <1>15, <1>16
     DEF Next, Handlers, PaintGoesOn, Run

(* An info gives up on an answer only.                                     *)
LEMMA PaintStep ==
  ASSUME IInv, [Next]_vars
  PROVE  PaintOK' /\ GivesUpOnAnswer'
<1> USE DEF provider, disk, look, asking, seen, paint, screen, history
<1>a. TypeOK /\ ProviderInv /\ PaintOK /\ GivesUpOnAnswer
  BY DEF IInv
<1>b. NoInfo \notin Infos
  BY FileIconAssumption DEF NoInfo
<1>1. ASSUME NEW i \in Infos, Paint(i)
     PROVE  PaintOK' /\ GivesUpOnAnswer'
  BY <1>1, <1>a, <1>b DEF Paint, TypeOK, Idle, PaintOK, GivesUpOnAnswer
<1>2. ASSUME NEW i \in Infos, Timeout(i)
     PROVE  PaintOK' /\ GivesUpOnAnswer'
  BY <1>2, <1>a DEF Timeout, PaintOK, GivesUpOnAnswer
<1>3. ASSUME NEW i \in Infos, DeleteTimer(i)
     PROVE  PaintOK' /\ GivesUpOnAnswer'
  BY <1>3, <1>a DEF DeleteTimer, PaintOK, GivesUpOnAnswer
<1>4. ASSUME NEW i \in Infos, MakeToActive(i)
     PROVE  PaintOK' /\ GivesUpOnAnswer'
  BY <1>4, <1>a DEF MakeToActive, PaintOK, GivesUpOnAnswer
<1>5. ASSUME NEW i \in Infos, MakeToInactive(i)
     PROVE  PaintOK' /\ GivesUpOnAnswer'
  BY <1>5, <1>a DEF MakeToInactive, PaintOK, GivesUpOnAnswer
<1>6. ASSUME NEW i \in Infos, Refresh(i)
     PROVE  PaintOK' /\ GivesUpOnAnswer'
  BY <1>6, <1>a, <1>b DEF Refresh, Forget, TypeOK, Idle, PaintOK, GivesUpOnAnswer
<1>7. CASE LookForStored
  <2>1. painted \in Infos
    BY <1>7, <1>a DEF LookForStored, PaintOK, TypeOK
  <2>2. CASE place' = "ask"
    BY <1>7, <2>1, <2>2, <1>a, <1>b DEF LookForStored, PaintOK, GivesUpOnAnswer
  <2>3. CASE place' = "out"
    <3>1. /\ icon' = [icon EXCEPT ![painted] = IF @ = "empty" THEN "thumbnail" ELSE "mixed"]
          /\ iconFromTheme' = [iconFromTheme EXCEPT ![painted] = FALSE]
          /\ needThumbnail' = [needThumbnail EXCEPT ![painted] = FALSE]
          /\ painted' = NoInfo /\ raced' = raced
      BY <1>7, <2>3 DEF LookForStored
    <3>2. icon'[painted] # "theme"
      BY <2>1, <3>1, <1>a DEF TypeOK
    <3>3. ASSUME NEW j \in Infos, icon'[j] = "theme", ~needThumbnail'[j]
          PROVE  iconFromTheme'[j] \/ j \in raced'
      <4>1. j # painted
        BY <3>2, <3>3
      <4> QED
        BY <3>1, <3>3, <4>1, <1>a DEF TypeOK, GivesUpOnAnswer
    <3> QED
      BY <3>1, <3>3, <2>3 DEF PaintOK, GivesUpOnAnswer
  <2> QED
    BY <1>7, <2>2, <2>3 DEF LookForStored
<1>8. CASE AskLater
  BY <1>8, <1>a, <1>b DEF AskLater, TypeOK, Idle, PaintOK, GivesUpOnAnswer
<1>9. CASE GUIGoesOn
  BY <1>9, <1>a DEF GUIGoesOn, PaintOK, GivesUpOnAnswer
<1>10. CASE Exit
  BY <1>10, <1>a DEF Exit, PaintOK, GivesUpOnAnswer
<1>11. CASE RunQueue
  BY <1>11, <1>a DEF RunQueue, TakeRequest, PaintOK, GivesUpOnAnswer
<1>12. CASE CreateThumbnail
  BY <1>12, <1>a DEF CreateThumbnail, PaintOK, GivesUpOnAnswer
<1>13. CASE CallBack
  <2>1. task \in Requests
    BY <1>13, <1>a DEF CallBack, Provider!CallBack, ProviderInv, ProviderOK
  <2> DEFINE i == task[1]
  <2>2. i \in Infos
    BY <2>1 DEF Requests
  <2> HIDE DEF i
  <2>3. /\ needThumbnail' = [needThumbnail EXCEPT ![i] = FALSE]
        /\ raced' = IF painted = i THEN raced \cup {i} ELSE raced
        /\ UNCHANGED paint
        /\ \/ iconFromTheme' = iconFromTheme /\ icon' = [icon EXCEPT ![i] = "empty"]
           \/ iconFromTheme' = [iconFromTheme EXCEPT ![i] = TRUE] /\ icon' = icon
    BY <1>13 DEF CallBack, i
  <2>4. PaintOK'
    BY <2>2, <2>3, <1>a DEF PaintOK, TypeOK
  <2>5. GivesUpOnAnswer'
    <3> SUFFICES ASSUME NEW j \in Infos, icon'[j] = "theme", ~needThumbnail'[j]
                 PROVE  iconFromTheme'[j] \/ j \in raced' \/ painted' = j
      BY DEF GivesUpOnAnswer
    <3>1. CASE j = i
      BY <2>2, <2>3, <3>1, <1>a DEF TypeOK
    <3>2. CASE j # i
      BY <2>2, <2>3, <3>2, <1>a DEF TypeOK, GivesUpOnAnswer
    <3> QED
      BY <3>1, <3>2
  <2> QED
    BY <2>4, <2>5
<1>14. ASSUME NEW k \in Keys, Change(k)
     PROVE  PaintOK' /\ GivesUpOnAnswer'
  BY <1>14, <1>a DEF Change, PaintOK, GivesUpOnAnswer
<1>15. CASE UNCHANGED vars
  BY <1>15, <1>a, <1>b DEF vars, TypeOK, Idle, PaintOK, GivesUpOnAnswer
<1>16. ASSUME NEW i \in Infos, FileUpdated(i)
     PROVE  PaintOK' /\ GivesUpOnAnswer'
  BY <1>16, <1>a, <1>b
     DEF FileUpdated, Forget, TypeOK, Idle, PaintOK, GivesUpOnAnswer
<1> QED
  BY <1>1, <1>2, <1>3, <1>4, <1>5, <1>6, <1>7, <1>8, <1>9, <1>10, <1>11, <1>12,
     <1>13, <1>14, <1>15, <1>16
     DEF Next, Handlers, PaintGoesOn, Run

(* The invariant holds of every reachable state.                           *)
THEOREM IInvHolds == Spec => []IInv
<1>1. IInv /\ [Next]_vars => IInv'
  BY TypeStep, ProviderInvStep, PaintStep DEF IInv
<1> QED
  BY InitIInv, <1>1, PTL DEF Spec

(* Every variable keeps a value of its kind.                               *)
THEOREM IconTypeCorrect == Spec => []TypeOK
<1>1. IInv => TypeOK
  BY DEF IInv
<1> QED
  BY <1>1, IInvHolds, PTL

(* The waits of the thumbnail thread, its wakings and the end of the       *)
(* program match what is in the queue, for every length of the queue.      *)
THEOREM WakesMatch == Spec => []WakesMatchQueue
<1>1. IInv => WakesMatchQueue
  BY DEF IInv, ProviderInv
<1> QED
  BY <1>1, IInvHolds, PTL

(* An info keeps the icon of the theme without a further question only     *)
(* after an answer, or when the answer came while it was being painted.    *)
THEOREM GivesUpAfterAnswer == Spec => []GivesUpOnAnswer
<1>1. IInv => GivesUpOnAnswer
  BY DEF IInv
<1> QED
  BY <1>1, IInvHolds, PTL

(* The infos use the provider as it allows it: they and its thread behave  *)
(* as ThumbnailProvider specifies.                                         *)
THEOREM IconsUseProvider == Spec => Provider!SafetySpec
<1>1. Init => Provider!Init
  BY DEF Init
<1>2. IInv /\ [Next]_vars => [Provider!Next]_provider
  BY StepIsProviderStep DEF IInv
<1>3. [Provider!Next]_provider => [Provider!Next]_(Provider!vars)
  BY DEF provider, Provider!vars, Provider!shared, Provider!worker,
     Provider!caller, Provider!history
<1> QED
  BY <1>1, <1>2, <1>3, IInvHolds, PTL DEF Spec, Provider!SafetySpec

=============================================================================
