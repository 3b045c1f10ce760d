---------------------------- MODULE CopyJobProofs ----------------------------
(***************************************************************************)
(* Proofs about CopyJobControl, for any number of sources and of errors:   *)
(* first about the control of the job, then about its questions: whose     *)
(* answer the worker gets, that it sleeps only while it can be woken, and  *)
(* that handleError() decides as ErrorDialogue states it.                  *)
(***************************************************************************)
EXTENDS CopyJobControl, TLAPS

(* handleError() decides with one of the actions, whatever the error.      *)
LEMMA DefaultIsAction == \A e \in Codes : Default(e) \in Actions
  BY DEF Default, Actions, Codes, Errors

(* A call of handleError() has one of the errors to decide.                *)
LEMMA ErrorAtIsError == \A p \in Places : ErrorAt(p) \in Errors
  BY DEF ErrorAt, Places, Errors

(* The buttons of a question never cancel the job.                         *)
LEMMA OfferedIsNotCancel ==
  \A e \in Codes : Offered(e) \subseteq Actions \ {"Cancel"}
  BY DEF Offered, Actions, Supports

(* The worker's steps to another place in its program.                     *)
LEMMA GoKeepsWorkerOK ==
  ASSUME WorkerOK, NEW to,
         Go(to),
         to \in {"work", "closed", "toWait", "asleep", "woken", "ask", "posted",
                 "unsleep", "rise", "settle", "return", "end", "sync", "synced",
                 "finish", "over"}
  PROVE  WorkerOK'
  BY DEF WorkerOK, Go

(* Calls of stateCheck() go to its check, and remember where to return.    *)
LEMMA CheckKeepsWorkerOK ==
  ASSUME WorkerOK, NEW from \in {"loop", "work", "ask"}, Check(from)
  PROVE  WorkerOK'
  BY DEF WorkerOK, Check

(* A finished source is one of those that were left.                       *)
LEMMA NextSourceKeepsOK ==
  ASSUME WorkerOK, NextSource, error \in Codes
  PROVE  WorkerOK' /\ error' \in Codes
<1>1. left > 1 \/ left = 1
  BY DEF NextSource
<1>2. left' \in 0..Sources
  BY <1>1, ControlAssumption DEF NextSource, WorkerOK
<1>3. UNCHANGED <<stage, place, faults>>
  BY DEF NextSource
<1>4. pc' \in {"check", "end"} /\ site' \in {"loop", site}
  BY DEF NextSource
<1>5. error' \in Codes
  BY DEF NextSource, Codes
<1> QED
  BY <1>2, <1>3, <1>4, <1>5 DEF WorkerOK

(* What stateCheck() does when it returns.                                 *)
LEMMA PassedKeepsOK ==
  ASSUME SharedOK, WorkerOK, Passed
  PROVE  /\ WorkerOK' /\ error' \in Codes
         /\ lastErrorHandleAction' \in Actions \union {"No"}
<1>1. CASE /\ error' = "No" /\ lastErrorHandleAction' = "No"
           /\ pc' = "work" /\ stage' = "copy"
           /\ UNCHANGED <<left, site, place, faults>>
  BY <1>1 DEF WorkerOK, Codes
<1>2. CASE NextSource /\ UNCHANGED lastErrorHandleAction
  BY <1>2, NextSourceKeepsOK DEF SharedOK
<1>3. CASE /\ UNCHANGED <<error, lastErrorHandleAction>>
           /\ \E to \in {"work", "ask", "unsleep"} : Go(to)
  BY <1>3, GoKeepsWorkerOK DEF SharedOK
<1> QED
  BY <1>1, <1>2, <1>3 DEF Passed

(* What the caller of a stateCheck() that failed does.                     *)
LEMMA FailedKeepsOK ==
  ASSUME SharedOK, WorkerOK, Failed
  PROVE  /\ WorkerOK' /\ error' \in Codes
         /\ lastErrorHandleAction' \in Actions \union {"No"}
<1>1. \E to \in {"end", "unsleep"} : Go(to)
  BY DEF Failed
<1>2. WorkerOK'
  BY <1>1, GoKeepsWorkerOK
<1> QED
  BY <1>2 DEF Failed, SharedOK, Codes, Actions

(* Every variable keeps a value of its kind: the job never processes more  *)
(* sources than it was given, and meets no more errors than the bound.     *)
THEOREM TypeCorrect == Spec => []TypeOK
<1>1. Init => TypeOK
  BY ControlAssumption DEF Init, TypeOK, SharedOK, WorkerOK, DialogOK, States,
                           Actions, Errors, Codes, Places
<1>2. TypeOK /\ [Next]_vars => TypeOK'
  <2> SUFFICES ASSUME SharedOK, WorkerOK, DialogOK, [Next]_vars
               PROVE  SharedOK' /\ WorkerOK' /\ DialogOK'
    BY DEF TypeOK
  <2>a. UNCHANGED dialog => DialogOK'
    BY DEF dialog, DialogOK
  <2>b. UNCHANGED worker => WorkerOK'
    BY DEF worker, WorkerOK
  <2>c. "No" \in Codes /\ "Unknow" \in Codes /\ "Cancel" \in Codes
    BY DEF Codes
  <2>1. CASE Begin
    BY <2>1, <2>a, <2>c, GoKeepsWorkerOK, CheckKeepsWorkerOK
    DEF Begin, SharedOK, States
  <2>2. CASE Finished \/ SkipSource
    BY <2>2, <2>a, NextSourceKeepsOK DEF Finished, SkipSource, SharedOK
  <2>3. CASE Abort \/ GiveUpUnreported \/ CheckPoint
    BY <2>3, <2>a, <2>c, GoKeepsWorkerOK, CheckKeepsWorkerOK
    DEF Abort, GiveUpUnreported, CheckPoint, SharedOK
  <2>4. CASE CloseFiles
    BY <2>4, <2>a DEF CloseFiles, WorkerSets, SharedOK, WorkerOK, States
  <2>5. CASE FilesClosed
    BY <2>5, <2>a, GoKeepsWorkerOK, CheckKeepsWorkerOK DEF FilesClosed, SharedOK
  <2>6. CASE LeaveIOWait \/ Rise
    BY <2>6, <2>a, GoKeepsWorkerOK
    DEF LeaveIOWait, Rise, WorkerSets, SharedOK, States
  <2>7. CASE StateCheck
    BY <2>7, <2>a, PassedKeepsOK, FailedKeepsOK, GoKeepsWorkerOK
    DEF StateCheck, SharedOK
  <2>8. CASE JobWaited
    BY <2>8, <2>a, PassedKeepsOK, FailedKeepsOK DEF JobWaited, SharedOK
  <2>9. CASE JobWait \/ AskDialog
    BY <2>9, <2>a, GoKeepsWorkerOK DEF JobWait, AskDialog, SharedOK
  <2>10. ASSUME NEW p \in FaultPlaces, Fault(p)
         PROVE  SharedOK' /\ WorkerOK' /\ DialogOK'
    <3>1. p \in Places /\ ErrorAt(p) \in Codes
      BY ControlAssumption, ErrorAtIsError DEF Codes
    <3>2. faults' \in 0..MaxFaults
      BY <2>10, ControlAssumption DEF Fault, WorkerOK
    <3> QED
      BY <2>10, <2>a, <3>1, <3>2 DEF Fault, SharedOK, WorkerOK
  <2>11. CASE AnswerFromList
    BY <2>11, <2>a, <2>c, GoKeepsWorkerOK DEF AnswerFromList, SharedOK
  <2>12. CASE AnswerByDefault
    BY <2>12, <2>a, <2>c, DefaultIsAction, GoKeepsWorkerOK
    DEF AnswerByDefault, SharedOK
  <2>13. CASE FallAsleep
    BY <2>13, <2>a, GoKeepsWorkerOK DEF FallAsleep, WorkerSets, SharedOK, States
  <2>14. CASE AskSilently
    BY <2>14, <2>a, CheckKeepsWorkerOK DEF AskSilently, SharedOK, Actions
  <2>15. CASE Unsleep \/ Settle
    BY <2>15, <2>a, <2>c, GoKeepsWorkerOK DEF Unsleep, Settle, SharedOK
  <2>16. CASE GoOn
    BY <2>16, <2>a, GoKeepsWorkerOK, CheckKeepsWorkerOK DEF GoOn, SharedOK
  <2>17. CASE GiveUp
    BY <2>17, <2>a, GoKeepsWorkerOK DEF GiveUp, SharedOK
  <2>18. CASE End \/ Synced \/ RestoreState \/ Finish
    BY <2>18, <2>a, GoKeepsWorkerOK
    DEF End, Synced, RestoreState, Finish, SharedOK, States
  <2>19. CASE ShowTask \/ ErrorChanged
    BY <2>19, <2>b DEF ShowTask, ErrorChanged, PadFor, SharedOK, DialogOK
  <2>20. CASE RunHandler
    <3>1. WorkerOK' /\ UNCHANGED <<handle, error, actionOfError, ui, lost>>
          /\ pad' \in {"on", "off"} /\ faults \in 0..MaxFaults
      BY <2>20, CheckKeepsWorkerOK
      DEF RunHandler, FetchAnswer, Refuse, KeepBoth, AskUser, HandlerEntered,
          HandlerReturns, PadFor, WorkerOK
    <3>2. state' \in States
      BY <2>20 DEF RunHandler, FetchAnswer, Refuse, KeepBoth, AskUser, Toggled,
                   SharedOK, States
    <3>3. lastErrorHandleAction' \in Actions \union {"No"}
      BY <2>20 DEF RunHandler, FetchAnswer, Refuse, KeepBoth, AskUser,
                   HandlerReturns, DialogOK, Actions
    <3>4. SharedOK'
      BY <2>20, <3>1, <3>2, <3>3
      DEF RunHandler, FetchAnswer, Refuse, KeepBoth, AskUser, SharedOK
    <3>5. DialogOK'
      BY <2>20, <3>1
      DEF RunHandler, FetchAnswer, Refuse, KeepBoth, AskUser, DialogOK
    <3> QED
      BY <3>1, <3>4, <3>5
  <2>21. ASSUME NEW a \in Actions, NEW always \in BOOLEAN, Dispose(a, always)
         PROVE  SharedOK' /\ WorkerOK' /\ DialogOK'
    BY <2>21, <2>b DEF Dispose, AfterReply, SharedOK, DialogOK
  <2>22. CASE ClickClose \/ StopSets \/ ClickPad \/ Toggle
    BY <2>22, <2>b
    DEF ClickClose, StopSets, ClickPad, Toggle, SharedOK, DialogOK, States
  <2>23. CASE ToggleResumes \/ TogglePauses
    BY <2>23, <2>b
    DEF ToggleResumes, TogglePauses, SharedOK, DialogOK, States
  <2>24. CASE WakeAll
    <3>1. WorkerOK'
      BY <2>24 DEF WakeAll, Go, WorkerOK
    <3> QED
      BY <2>24, <3>1 DEF WakeAll, SharedOK, DialogOK
  <2>25. CASE UNCHANGED vars
    BY <2>25, <2>a, <2>b DEF vars, SharedOK
  <2> QED
    BY <2>1, <2>2, <2>3, <2>4, <2>5, <2>6, <2>7, <2>8, <2>9, <2>10, <2>11,
       <2>12, <2>13, <2>14, <2>15, <2>16, <2>17, <2>18, <2>19, <2>20, <2>21,
       <2>22, <2>23, <2>24, <2>25
    DEF Next, Worker, Interface, User, Handling
<1> QED
  BY <1>1, <1>2, PTL DEF Spec

-----------------------------------------------------------------------------
(* Why a job may be cancelled.  Only stop() and the end of run() put the   *)
(* job into StoppedState, and jobWait() can be woken only by a stop() or a *)
(* togglePause() that has let it run.                                      *)

AnswersNeverCancel ==
  /\ answer # "Cancel"
  /\ \A e \in Codes : actionOfError[e] # "Cancel"

CancelWasDecided == lastErrorHandleAction = "Cancel" => cause # "none"

StopHasCause ==
  /\ ui = "stop" => cause # "none"
  /\ state = "Stopped" /\ pc \notin {"new", "over"} => cause # "none"

WaitIsInPause ==
  pc \in {"toWait", "asleep", "woken"} => state \in {"Paused", "Running", "Stopped"}

WakeAllLetsGo == ui = "wakeAll" => state # "Paused"

WokenHasCause == pc = "woken" /\ state # "Running" => cause # "none"

CauseInv ==
  /\ CancelHasCause /\ AnswersNeverCancel /\ CancelWasDecided /\ StopHasCause
  /\ WaitIsInPause /\ WakeAllLetsGo /\ WokenHasCause

(* A step of the worker that leaves the state, the answers and the causes  *)
(* alone, and does not enter the wait, keeps the invariant.                *)
LEMMA QuietStepKeepsCause ==
  ASSUME CauseInv, WorkerOK,
         UNCHANGED <<state, actionOfError, dialog, cause>>,
         pc # "new",
         pc' \notin {"new", "over", "toWait", "asleep", "woken"},
         pc = "over" => state # "Stopped",
         error' = "Cancel" => cause # "none",
         lastErrorHandleAction' = "Cancel" => cause # "none"
  PROVE  CauseInv'
  BY DEF CauseInv, CancelHasCause, AnswersNeverCancel, CancelWasDecided,
         StopHasCause, WaitIsInPause, WakeAllLetsGo, WokenHasCause, dialog

(* A step of the worker that sets the state to anything but PausedState    *)
(* keeps the invariant.                                                    *)
LEMMA WorkerSetsKeepsCause ==
  ASSUME CauseInv, NEW s \in {"Running", "Sleep", "IOWait"},
         state' = s,
         UNCHANGED <<lastErrorHandleAction, actionOfError, dialog, cause>>,
         pc' \notin {"toWait", "asleep", "woken"},
         error' = "Cancel" => cause # "none"
  PROVE  CauseInv'
  BY DEF CauseInv, CancelHasCause, AnswersNeverCancel, CancelWasDecided,
         StopHasCause, WaitIsInPause, WakeAllLetsGo, WokenHasCause, dialog

(* stateCheck() that returns true never leaves the job cancelled.          *)
LEMMA PassedKeepsCause ==
  ASSUME CauseInv, WorkerOK, Passed, pc \in {"check", "woken"},
         UNCHANGED <<state, actionOfError, dialog, cause>>
  PROVE  CauseInv'
<1>1. error' \in {"No", error} /\ lastErrorHandleAction' \in {"No", lastErrorHandleAction}
  BY DEF Passed, NextSource
<1>2. pc' \in {"work", "ask", "unsleep", "check", "end"}
  BY DEF Passed, NextSource, Go
<1> QED
  BY <1>1, <1>2, QuietStepKeepsCause DEF CauseInv, CancelHasCause, CancelWasDecided

(* stateCheck() that returns false cancels a job that has a cause to be.   *)
LEMMA FailedKeepsCause ==
  ASSUME CauseInv, WorkerOK, Failed, pc \in {"check", "woken"},
         cause # "none",
         UNCHANGED <<state, actionOfError, dialog, cause>>
  PROVE  CauseInv'
<1>1. pc' \in {"end", "unsleep"}
  BY DEF Failed, Go
<1> QED
  BY <1>1, QuietStepKeepsCause

(* CauseInv is inductive.                                                  *)
LEMMA CauseStep == TypeOK /\ CauseInv /\ [Next]_vars => CauseInv'
<1> SUFFICES ASSUME TypeOK, CauseInv, [Next]_vars PROVE CauseInv'
  OBVIOUS
<1>a. SharedOK /\ WorkerOK /\ DialogOK
  BY DEF TypeOK
<1> USE DEF CauseInv
<1>1. CASE Begin
  <2>1. state' = "Running" /\ pc' \in {"check", "end"} /\ error' # "Cancel"
    BY <1>1 DEF Begin, Check, Go
  <2> QED
    BY <1>1, <2>1, WorkerSetsKeepsCause DEF Begin
<1>2. CASE Finished \/ SkipSource
  <2>1. pc \in {"work", "return"} /\ pc' \in {"check", "end"}
        /\ error' \in {"No", error}
    BY <1>2 DEF Finished, SkipSource, NextSource
  <2> QED
    BY <1>2, <1>a, <2>1, QuietStepKeepsCause
    DEF Finished, SkipSource, CancelHasCause, CancelWasDecided
<1>3. CASE Abort \/ GiveUpUnreported \/ CheckPoint
  BY <1>3, <1>a, QuietStepKeepsCause
  DEF Abort, GiveUpUnreported, CheckPoint, Check, Go, CancelHasCause,
      CancelWasDecided
<1>4. CASE CloseFiles \/ LeaveIOWait \/ FallAsleep \/ Rise
  <2>1. state' \in {"IOWait", "Running", "Sleep"}
        /\ pc' \in {"closing", "work", "ask", "settle"}
    BY <1>4 DEF CloseFiles, LeaveIOWait, FallAsleep, Rise, WorkerSets, Go
  <2> QED
    BY <1>4, <2>1, WorkerSetsKeepsCause
    DEF CloseFiles, LeaveIOWait, FallAsleep, Rise, CancelHasCause
<1>5. CASE FilesClosed \/ AskDialog \/ Unsleep
  BY <1>5, <1>a, QuietStepKeepsCause
  DEF FilesClosed, AskDialog, Unsleep, Check, Go, CancelHasCause, CancelWasDecided
<1>6. CASE StateCheck
  <2>1. CASE Passed
    BY <1>6, <2>1, <1>a, PassedKeepsCause DEF StateCheck
  <2>2. CASE state = "Stopped" /\ Failed
    BY <1>6, <2>2, <1>a, FailedKeepsCause DEF StateCheck, StopHasCause
  <2>3. CASE state = "Paused" /\ Go("toWait") /\ UNCHANGED <<error, lastErrorHandleAction>>
    BY <1>6, <2>3
    DEF StateCheck, Go, CancelHasCause, AnswersNeverCancel, CancelWasDecided,
        StopHasCause, WaitIsInPause, WakeAllLetsGo, WokenHasCause, dialog
  <2> QED
    BY <1>6, <2>1, <2>2, <2>3 DEF StateCheck
<1>7. CASE JobWait
  BY <1>7
  DEF JobWait, Go, CancelHasCause, AnswersNeverCancel, CancelWasDecided,
      StopHasCause, WaitIsInPause, WakeAllLetsGo, WokenHasCause, dialog
<1>8. CASE JobWaited
  <2>1. CASE Passed
    BY <1>8, <2>1, <1>a, PassedKeepsCause DEF JobWaited
  <2>2. CASE state # "Running" /\ Failed
    BY <1>8, <2>2, <1>a, FailedKeepsCause DEF JobWaited, WokenHasCause
  <2> QED
    BY <1>8, <2>1, <2>2 DEF JobWaited
<1>9. ASSUME NEW p \in FaultPlaces, Fault(p) PROVE CauseInv'
  <2>1. error' # "Cancel"
    BY <1>9, ErrorAtIsError, ControlAssumption DEF Fault, Errors
  <2> QED
    BY <1>9, <1>a, <2>1, QuietStepKeepsCause DEF Fault, CancelWasDecided
<1>10. CASE AnswerFromList
  <2>1. lastErrorHandleAction' # "Cancel"
    BY <1>10, <1>a DEF AnswerFromList, AnswersNeverCancel, SharedOK
  <2> QED
    BY <1>10, <1>a, <2>1, QuietStepKeepsCause DEF AnswerFromList, Go
<1>11. CASE AnswerByDefault
  BY <1>11
  DEF AnswerByDefault, Go, CancelHasCause, AnswersNeverCancel, CancelWasDecided,
      StopHasCause, WaitIsInPause, WakeAllLetsGo, WokenHasCause, dialog
<1>12. CASE AskSilently
  BY <1>12, <1>a, QuietStepKeepsCause DEF AskSilently, Check, CancelHasCause
<1>13. CASE Settle
  BY <1>13, <1>a, QuietStepKeepsCause DEF Settle, Go, CancelWasDecided
<1>14. CASE GoOn \/ GiveUp
  BY <1>14, <1>a, QuietStepKeepsCause
  DEF GoOn, GiveUp, Check, Go, CancelHasCause, CancelWasDecided
<1>15. CASE End \/ Synced \/ RestoreState \/ Finish
  BY <1>15
  DEF End, Synced, RestoreState, Finish, Go, CancelHasCause, AnswersNeverCancel,
      CancelWasDecided, StopHasCause, WaitIsInPause, WakeAllLetsGo,
      WokenHasCause, dialog
<1>16. CASE ShowTask \/ ErrorChanged
  BY <1>16
  DEF ShowTask, ErrorChanged, worker, CancelHasCause, AnswersNeverCancel,
      CancelWasDecided, StopHasCause, WaitIsInPause, WakeAllLetsGo, WokenHasCause
<1>17. CASE RunHandler
  <2>1. pc = "posted" /\ pc' = "check" /\ ui = "loop" /\ ui' = "loop"
        /\ error' = error /\ UNCHANGED actionOfError
    BY <1>17 DEF RunHandler, FetchAnswer, Refuse, KeepBoth, AskUser,
                 HandlerEntered, HandlerReturns, Check
  <2>2. /\ cause' \in {cause, "unsupported"}
        /\ lastErrorHandleAction' = "Cancel" => cause' # "none"
        /\ answer' # "Cancel"
        /\ state' = "Stopped" => state = "Stopped"
    BY <1>17 DEF RunHandler, FetchAnswer, Refuse, KeepBoth, AskUser, Toggled,
                 HandlerReturns, AnswersNeverCancel
  <2> QED
    BY <2>1, <2>2
    DEF CancelHasCause, AnswersNeverCancel, CancelWasDecided, StopHasCause,
        WaitIsInPause, WakeAllLetsGo, WokenHasCause
<1>18. ASSUME NEW a \in Actions, NEW always \in BOOLEAN, Dispose(a, always)
       PROVE  CauseInv'
  <2>1. a # "Cancel"
    BY <1>18, <1>a, OfferedIsNotCancel DEF Dispose, SharedOK
  <2>2. AnswersNeverCancel'
    BY <1>18, <1>a, <2>1 DEF Dispose, AnswersNeverCancel, SharedOK
  <2> QED
    BY <1>18, <2>2
    DEF Dispose, AfterReply, worker, CancelHasCause, CancelWasDecided,
        StopHasCause, WaitIsInPause, WakeAllLetsGo, WokenHasCause
<1>19. CASE ClickClose \/ StopSets \/ ClickPad \/ Toggle
  BY <1>19
  DEF ClickClose, StopSets, ClickPad, Toggle, worker, CancelHasCause,
      AnswersNeverCancel, CancelWasDecided, StopHasCause, WaitIsInPause,
      WakeAllLetsGo, WokenHasCause
<1>20. CASE ToggleResumes \/ TogglePauses
  BY <1>20
  DEF ToggleResumes, TogglePauses, worker, CancelHasCause, AnswersNeverCancel,
      CancelWasDecided, StopHasCause, WaitIsInPause, WakeAllLetsGo, WokenHasCause
<1>21. CASE WakeAll
  BY <1>21
  DEF WakeAll, Go, CancelHasCause, AnswersNeverCancel, CancelWasDecided,
      StopHasCause, WaitIsInPause, WakeAllLetsGo, WokenHasCause
<1>22. CASE UNCHANGED vars
  BY <1>22
  DEF vars, worker, dialog, CancelHasCause, AnswersNeverCancel, CancelWasDecided,
      StopHasCause, WaitIsInPause, WakeAllLetsGo, WokenHasCause
<1> QED
  BY <1>1, <1>2, <1>3, <1>4, <1>5, <1>6, <1>7, <1>8, <1>9, <1>10, <1>11, <1>12,
     <1>13, <1>14, <1>15, <1>16, <1>17, <1>18, <1>19, <1>20, <1>21, <1>22
  DEF Next, Worker, Interface, User, Handling

(* A job that has not begun has nothing to explain.                        *)
LEMMA CauseInit == Init => CauseInv
  BY DEF Init, CauseInv, CancelHasCause, AnswersNeverCancel, CancelWasDecided,
         StopHasCause, WaitIsInPause, WakeAllLetsGo, WokenHasCause

(* A job is cancelled only if it was stopped, if its error could not be    *)
(* decided, or if it was paused again before it noticed that it may run.   *)
THEOREM CancelledForACause == Spec => []CancelHasCause
<1>1. CauseInv => CancelHasCause
  BY DEF CauseInv
<1> QED
  BY <1>1, CauseInit, CauseStep, TypeCorrect, PTL DEF Spec

-----------------------------------------------------------------------------
(* The end of a job: who jumps to it, and what a decision to cancel does   *)
(* on its way there.                                                       *)

EndPlaces == {"end", "sync", "synced", "finish", "over"}

(* Whoever jumps to the end without an error has finished the sources,     *)
(* refused an answer, or failed without setError(); and a caller that sees *)
(* Cancel finds it as the error.                                           *)
EndsForAReason ==
  /\ pc \in EndPlaces /\ error = "No" =>
       left = 0 \/ lost \intersect {"refused", "unreported"} # {}
  /\ pc = "return" /\ lastErrorHandleAction = "Cancel" => error = "Cancel"

(* From the decision to cancel on the worker is in handleError() or on its *)
(* way to the end, unless the caller does not look for Cancel.             *)
OnTheWayOut ==
  lastErrorHandleAction = "Cancel" /\ place # "Reopen" =>
    \/ InLoop
    \/ pc \in EndPlaces
    \/ pc \in {"fault", "ask", "posted", "unsleep", "rise", "settle", "return"}

EndInv == EndsForAReason /\ OnTheWayOut

(* Every step keeps it: only a refused question, a failure without         *)
(* setError(), or the last source leads to the end without an error.       *)
LEMMA EndStep == TypeOK /\ CauseInv /\ EndInv /\ [Next]_vars => EndInv'
<1> SUFFICES ASSUME TypeOK, CauseInv, EndInv, [Next]_vars PROVE EndInv'
  OBVIOUS
<1>a. SharedOK /\ WorkerOK /\ DialogOK
  BY DEF TypeOK
<1> USE DEF EndInv, EndsForAReason, OnTheWayOut, EndPlaces, InLoop, Go, Check
<1>1. CASE Begin
  BY <1>1 DEF Begin
<1>2. CASE Finished \/ SkipSource
  BY <1>2 DEF Finished, SkipSource, NextSource, Ends
<1>3. CASE Abort \/ GiveUpUnreported \/ CheckPoint
  BY <1>3 DEF Abort, GiveUpUnreported, CheckPoint
<1>4. CASE CloseFiles \/ LeaveIOWait \/ FallAsleep \/ Rise
  BY <1>4 DEF CloseFiles, LeaveIOWait, FallAsleep, Rise, WorkerSets
<1>5. CASE FilesClosed \/ AskDialog \/ Unsleep
  BY <1>5 DEF FilesClosed, AskDialog, Unsleep
<1>6. CASE StateCheck
  BY <1>6 DEF StateCheck, Passed, Failed, NextSource
<1>7. CASE JobWait \/ JobWaited
  BY <1>7 DEF JobWait, JobWaited, Passed, Failed, NextSource
<1>8. ASSUME NEW p \in FaultPlaces, Fault(p) PROVE EndInv'
  BY <1>8 DEF Fault
<1>9. CASE AnswerFromList
  BY <1>9, <1>a DEF AnswerFromList, CauseInv, AnswersNeverCancel, SharedOK
<1>10. CASE AnswerByDefault
  BY <1>10 DEF AnswerByDefault
<1>11. CASE AskSilently \/ Settle
  BY <1>11 DEF AskSilently, Settle
<1>12. CASE GoOn
  BY <1>12 DEF GoOn, Continues, Ends
<1>13. CASE GiveUp
  BY <1>13 DEF GiveUp
<1>14. CASE End \/ Synced \/ RestoreState \/ Finish
  BY <1>14 DEF End, Synced, RestoreState, Finish
<1>15. CASE ShowTask \/ ErrorChanged
  BY <1>15 DEF ShowTask, ErrorChanged, worker
<1>16. CASE RunHandler
  BY <1>16 DEF RunHandler, FetchAnswer, Refuse, KeepBoth, AskUser,
               HandlerEntered, HandlerReturns
<1>17. ASSUME NEW a \in Actions, NEW always \in BOOLEAN, Dispose(a, always)
       PROVE  EndInv'
  BY <1>17 DEF Dispose, worker
<1>18. CASE ClickClose \/ StopSets \/ ClickPad \/ Toggle
  BY <1>18 DEF ClickClose, StopSets, ClickPad, Toggle, worker
<1>19. CASE ToggleResumes \/ TogglePauses
  BY <1>19 DEF ToggleResumes, TogglePauses, worker
<1>20. CASE WakeAll
  BY <1>20 DEF WakeAll
<1>21. CASE UNCHANGED vars
  BY <1>21 DEF vars, worker
<1> QED
  BY <1>1, <1>2, <1>3, <1>4, <1>5, <1>6, <1>7, <1>8, <1>9, <1>10, <1>11, <1>12,
     <1>13, <1>14, <1>15, <1>16, <1>17, <1>18, <1>19, <1>20, <1>21
  DEF Next, Worker, Interface, User, Handling

(* A job that is over without an error has processed every source, or a    *)
(* caller of handleError() gave up on an answer it does not know, or       *)
(* doProcess() failed on a path that has no setError().                    *)
THEOREM CleanEnd == Spec => []CleanEndIsComplete
<1>1. Init => EndInv
  BY DEF Init, EndInv, EndsForAReason, OnTheWayOut, EndPlaces
<1>2. EndInv => CleanEndIsComplete
  BY DEF EndInv, EndsForAReason, EndPlaces, CleanEndIsComplete
<1> QED
  BY <1>1, <1>2, CauseInit, CauseStep, EndStep, TypeCorrect, PTL DEF Spec

(* A worker that was told to cancel takes no further source, unless it     *)
(* reopens a copy for its integrity check.                                 *)
THEOREM CancelledJobEnds == Spec => CancelEndsJob
<1>1. Init => EndInv
  BY DEF Init, EndInv, EndsForAReason, OnTheWayOut, EndPlaces
<1>2. EndInv /\ [Next]_vars =>
        [lastErrorHandleAction = "Cancel" /\ place # "Reopen" =>
           left' = left]_vars
  <2> SUFFICES ASSUME EndInv, Next,
                      lastErrorHandleAction = "Cancel", place # "Reopen"
               PROVE  left' = left
    BY DEF vars, worker
  <2>1. /\ pc # "work"
        /\ pc \in {"check", "woken"} => site = "ask"
    BY DEF EndInv, OnTheWayOut, InLoop, EndPlaces
  <2>2. lastErrorHandleAction \notin Ends(place)
    BY DEF Ends
  <2>3. CASE Worker
    BY <2>1, <2>2, <2>3
    DEF Worker, Handling, Begin, Finished, Abort, GiveUpUnreported, CheckPoint,
        CloseFiles, FilesClosed, LeaveIOWait, StateCheck, JobWait, JobWaited, Passed, Failed,
        Fault, AnswerFromList, AnswerByDefault, FallAsleep, AskSilently,
        AskDialog, Unsleep, Rise, Settle, SkipSource, GoOn, GiveUp, End, Synced,
        RestoreState, Finish, Go, Check
  <2>4. CASE Interface \/ User
    BY <2>4
    DEF Interface, User, ErrorChanged, RunHandler, FetchAnswer, Refuse, KeepBoth,
        AskUser, HandlerReturns, StopSets, Toggle, ToggleResumes, TogglePauses,
        WakeAll, ShowTask, ClickClose, ClickPad, Dispose, worker, Go, Check
  <2> QED
    BY <2>3, <2>4 DEF Next
<1> QED
  BY <1>1, <1>2, CauseInit, CauseStep, EndStep, TypeCorrect, PTL DEF Spec, CancelEndsJob

-----------------------------------------------------------------------------
(* The questions: what is on the screen, and whose answer comes.           *)

(* While an error is undecided it is the error of the call being served.   *)
ErrorIsOpen == Undecided => error = ErrorAt(place)

Waiting == InLoop /\ lastErrorHandleAction = "No"

(* Only the dialog asks, and it asks no question over an answer that was   *)
(* not fetched.                                                            *)
DialogAsks ==
  /\ pc = "posted" \/ shown # "nothing" \/ answer # "No" => handle = "dialog"
  /\ shown = "question" => answer = "No"

(* The buttons are up, or one was pressed and its answer is not fetched.   *)
Up == shown = "question" \/ answer # "No"

(* The question is that of the error being served.  Meanwhile the pause    *)
(* button is off, so that the interface thread can only let the worker run *)
(* or stop it.                                                             *)
Asked ==
  /\ about = faults
  /\ pc \in {"ask", "posted"} \/ Waiting
  /\ place \notin {"SameFile", "UnknowUrl"}
  /\ pad = "off" /\ ui # "pause"
  /\ ui \in {"toggle", "resume"} => state = "Paused"
  /\ ui = "wakeAll" \/ pc = "woken" => state # "Paused"
  /\ state = "Stopped" => ui \in {"loop", "wakeAll"}

(* The worker left its question because of a stop() it has not overwritten. *)
Stopping ==
  /\ state = "Stopped" /\ ui \in {"loop", "wakeAll"}
  /\ \/ pc \in {"unsleep", "settle", "return", "work", "fault"}
     \/ pc = "check" /\ site # "ask"

(* A worker that is about to sleep or sleeps is paused, or will be woken.  *)
SleepsInPause ==
  pc \in {"toWait", "asleep"} =>
    state = "Paused" \/ ui = "wakeAll" \/ "wakeUp" \in lost

(* A worker that waits for an answer, and will not pass the next check of  *)
(* the state, has its question up, or a handler is running.                *)
WaitIsShown ==
  /\ Waiting
  /\ pc \in {"toWait", "asleep"} \/ (pc = "check" /\ state = "Paused")
  => shown = "question" \/ ui # "loop" \/ "wakeUp" \in lost

QuestionInv ==
  /\ ErrorIsOpen /\ DialogAsks
  /\ Waiting => Up /\ Asked
  /\ Up => Asked \/ Stopping \/ pc \in EndPlaces \/ "overwritten" \in lost
  /\ SleepsInPause /\ WaitIsShown

(* Every step of the worker and of the interface thread keeps it.          *)
LEMMA QuestionStep ==
  TypeOK /\ CauseInv /\ QuestionInv /\ [Next]_vars => QuestionInv'
<1> SUFFICES ASSUME TypeOK, CauseInv, QuestionInv, [Next]_vars
             PROVE  QuestionInv'
  OBVIOUS
<1>a. SharedOK /\ WorkerOK /\ DialogOK
  BY DEF TypeOK
<1>b. WakeAllLetsGo
  BY DEF CauseInv
<1>c. ErrorAt(place) \in Errors
  BY <1>a, ErrorAtIsError DEF WorkerOK
<1>d. /\ "No" \notin Errors /\ "Cancel" \notin Errors
      /\ ErrorAt(place) = "UnknowUrl" <=> place = "UnknowUrl"
  BY <1>a DEF WorkerOK, Places, Errors, ErrorAt
<1> USE DEF QuestionInv, ErrorIsOpen, Undecided, DialogAsks, Waiting, InLoop, Up,
            Asked, Stopping, SleepsInPause, WaitIsShown, EndPlaces, Go, Check
<1>1. CASE Begin
  BY <1>1 DEF Begin, dialog
<1>2. CASE Finished \/ SkipSource
  BY <1>2 DEF Finished, SkipSource, NextSource, dialog
<1>3. CASE Abort \/ GiveUpUnreported \/ CheckPoint
  BY <1>3 DEF Abort, GiveUpUnreported, CheckPoint, dialog
<1>4. CASE CloseFiles \/ LeaveIOWait \/ FallAsleep \/ Rise
  BY <1>4 DEF CloseFiles, LeaveIOWait, FallAsleep, Rise, WorkerSets, dialog
<1>5. CASE FilesClosed \/ AskDialog \/ Unsleep
  BY <1>5 DEF FilesClosed, AskDialog, Unsleep, dialog
<1>6. CASE StateCheck
  BY <1>6 DEF StateCheck, Passed, Failed, NextSource, dialog
<1>7. CASE JobWait
  BY <1>7 DEF JobWait, dialog
<1>8. CASE JobWaited
  BY <1>8, <1>a DEF JobWaited, Passed, Failed, NextSource, dialog, SharedOK,
                    States, CauseInv, WaitIsInPause
<1>9. ASSUME NEW p \in FaultPlaces, Fault(p) PROVE QuestionInv'
  BY <1>9 DEF Fault, dialog
<1>10. CASE AnswerFromList
  BY <1>10 DEF AnswerFromList, dialog
<1>11. CASE AnswerByDefault
  BY <1>11 DEF AnswerByDefault, dialog
<1>12. CASE AskSilently
  BY <1>12 DEF AskSilently, dialog
<1>13. CASE Settle
  BY <1>13 DEF Settle, dialog
<1>14. CASE GoOn \/ GiveUp
  BY <1>14 DEF GoOn, GiveUp, dialog
<1>15. CASE End \/ Synced \/ RestoreState \/ Finish
  BY <1>15 DEF End, Synced, RestoreState, Finish, dialog
<1>16. CASE ShowTask \/ ErrorChanged
  BY <1>16, <1>c, <1>d DEF ShowTask, ErrorChanged, worker, PadFor
<1>17. CASE RunHandler
  BY <1>17, <1>c, <1>d
  DEF RunHandler, FetchAnswer, Refuse, KeepBoth, AskUser, Toggled,
      HandlerEntered, HandlerReturns, PadFor
<1>18. ASSUME NEW a \in Actions, NEW always \in BOOLEAN, Dispose(a, always)
       PROVE  QuestionInv'
  BY <1>18 DEF Dispose, AfterReply, worker, Actions
<1>19. CASE ClickClose \/ StopSets \/ ClickPad \/ Toggle
  BY <1>19 DEF ClickClose, StopSets, ClickPad, Toggle, worker
<1>20. CASE ToggleResumes \/ TogglePauses
  BY <1>20 DEF ToggleResumes, TogglePauses, worker
<1>21. CASE WakeAll
  BY <1>21, <1>b DEF WakeAll, WakeAllLetsGo
<1>22. CASE UNCHANGED vars
  BY <1>22 DEF vars, worker, dialog
<1> QED
  BY <1>1, <1>2, <1>3, <1>4, <1>5, <1>6, <1>7, <1>8, <1>9, <1>10, <1>11, <1>12,
     <1>13, <1>14, <1>15, <1>16, <1>17, <1>18, <1>19, <1>20, <1>21, <1>22
  DEF Next, Worker, Interface, User, Handling

(* Nothing is asked when the job begins.                                   *)
LEMMA QuestionInit == Init => CauseInv /\ QuestionInv
  BY CauseInit
  DEF Init, QuestionInv, ErrorIsOpen, DialogAsks, Waiting, Undecided, InLoop, Up,
      SleepsInPause, WaitIsShown

(* An answer goes to the error it was given for, unless a stop() was       *)
(* overwritten while the buttons of the old question were still up.        *)
THEOREM AnswersFit == Spec => []AnswerFits
<1>1. QuestionInv => AnswerFits
  BY DEF QuestionInv, Up, Asked, Stopping, EndPlaces, AnswerFits
<1> QED
  BY QuestionInit, <1>1, CauseStep, QuestionStep, TypeCorrect, PTL DEF Spec

(* A worker that sleeps until its question is answered has its buttons on  *)
(* the screen or is about to be woken, unless a waking was lost.           *)
THEOREM QuestionsStayUp == Spec => []QuestionStaysUp
<1>1. QuestionInv => QuestionStaysUp
  BY DEF QuestionInv, WaitIsShown, Waiting, InLoop, QuestionStaysUp
<1> QED
  BY QuestionInit, <1>1, CauseStep, QuestionStep, TypeCorrect, PTL DEF Spec

-----------------------------------------------------------------------------
(* The refinement of ErrorDialogue.                                        *)

(* No error is open and nothing is decided when the job begins.            *)
LEMMA DialogueInit == Init => Dialogue!Init
  BY DEF Init, Dialogue!Init, Undecided, Decided, InLoop, Codes

(* The state of the dialogue, under names of its own.                      *)
Open     == IF Undecided THEN ErrorAt(place) ELSE "No"
Memory   == [e \in Errors |-> actionOfError[e]]
Decision == IF Decided THEN lastErrorHandleAction ELSE "No"

(* What a step must do to the dialogue: nothing, or one of its steps.      *)
LEMMA DialogueStutters ==
  ASSUME UNCHANGED <<Open, answer, Memory, Decision>>
  PROVE  UNCHANGED Dialogue!vars
  BY DEF Dialogue!vars, Open, Memory, Decision

(* The caller acts on the decision it got.                                 *)
LEMMA DialogueActs ==
  ASSUME Open = "No", Decision' = "No", UNCHANGED <<Open, answer, Memory>>
  PROVE  Dialogue!Next
  BY DEF Dialogue!Next, Dialogue!Act, Open, Memory, Decision

(* A failure raises an error.                                              *)
LEMMA DialogueRaises ==
  ASSUME NEW e \in Errors, Open = "No", Open' = e, Decision' = "No",
         UNCHANGED <<answer, Memory>>
  PROVE  Dialogue!Next
  BY DEF Dialogue!Next, Dialogue!Raise, Open, Memory, Decision

(* The error is decided by the answer, the memory, a default or a stop.    *)
LEMMA DialogueDecides ==
  ASSUME NEW a \in Actions, Open # "No", Open' = "No", Decision' = a,
         UNCHANGED Memory,
         \/ answer # "No" /\ a = answer /\ answer' = "No"
         \/ a = Memory[Open] /\ a # "No" /\ UNCHANGED answer
         \/ answer = "No" /\ a \in Unasked(Open) /\ UNCHANGED answer
         \/ a = "Cancel" /\ UNCHANGED answer
  PROVE  Dialogue!Next
  BY DEF Dialogue!Next, Dialogue!Decide, Open, Memory, Decision

(* A stop overrules a decision that the caller did not get yet.            *)
LEMMA DialogueOverrules ==
  ASSUME Decision # "No", Decision' = "Cancel",
         UNCHANGED <<Open, answer, Memory>>
  PROVE  Dialogue!Next
  BY DEF Dialogue!Next, Dialogue!Overrule, Open, Memory, Decision

(* The user answers, and may ask for the answer to be kept.                *)
LEMMA DialogueReplies ==
  ASSUME NEW a \in Actions, NEW e \in Errors, NEW always \in BOOLEAN,
         answer = "No", Open \in {e, "No"}, a \in Offered(e), answer' = a,
         \/ UNCHANGED Memory
         \/ always /\ Memory' = [Memory EXCEPT ![e] = a],
         UNCHANGED <<Open, Decision>>
  PROVE  Dialogue!Next
  BY DEF Dialogue!Next, Dialogue!Reply, Open, Memory, Decision

(* A step that leaves the worker where it is in handleError(), and the     *)
(* answers alone, is a stutter.                                            *)
LEMMA SameProgressStutters ==
  ASSUME UNCHANGED <<place, answer, actionOfError>>,
         Undecided' <=> Undecided, Decided' <=> Decided,
         Decided => UNCHANGED lastErrorHandleAction
  PROVE  UNCHANGED Dialogue!vars
<1>1. UNCHANGED <<Open, answer, Memory, Decision>>
  BY DEF Open, Memory, Decision, ErrorAt
<1> QED
  BY <1>1, DialogueStutters

(* Outside of handleError() the dialogue has nothing open and no decision. *)
LEMMA OutsideStutters ==
  ASSUME UNCHANGED <<answer, actionOfError>>,
         ~Undecided, ~Decided, ~Undecided', ~Decided'
  PROVE  UNCHANGED Dialogue!vars
<1>1. UNCHANGED <<Open, answer, Memory, Decision>>
  BY DEF Open, Memory, Decision
<1> QED
  BY <1>1, DialogueStutters

(* The caller that gets the decision acts on it.                           *)
LEMMA ReturnActs ==
  ASSUME UNCHANGED <<answer, actionOfError>>,
         pc = "return", ~Undecided', ~Decided'
  PROVE  Dialogue!Next
<1>1. Open = "No" /\ Decision' = "No" /\ UNCHANGED <<Open, answer, Memory>>
  BY DEF Open, Memory, Decision, Undecided, InLoop
<1> QED
  BY <1>1, DialogueActs

(* Every step of the job is a step of the dialogue or leaves it alone.     *)
LEMMA DialogueStep ==
  ASSUME TypeOK, CauseInv, QuestionInv, [Next]_vars
  PROVE  [Dialogue!Next]_(Dialogue!vars)
<1>a. SharedOK /\ WorkerOK /\ DialogOK
  BY DEF TypeOK
<1>b. ErrorAt(place) \in Errors /\ "No" \notin Errors
  BY <1>a, ErrorAtIsError DEF WorkerOK, Errors
<1>c. ErrorIsOpen /\ DialogAsks
  BY DEF QuestionInv
<1> USE DEF Undecided, Decided, InLoop, Go, Check
<1>1. CASE Begin \/ Finished \/ (Abort /\ pc = "work") \/ GiveUpUnreported
           \/ CheckPoint \/ CloseFiles \/ FilesClosed \/ LeaveIOWait \/ End
           \/ Synced \/ RestoreState \/ Finish
  <2>1. UNCHANGED <<answer, actionOfError>> /\ ~Undecided /\ ~Decided
        /\ ~Undecided' /\ ~Decided'
    BY <1>1 DEF Begin, Finished, NextSource, Abort, GiveUpUnreported,
                CheckPoint, CloseFiles, FilesClosed, LeaveIOWait, End, Synced, RestoreState, Finish, dialog
  <2> QED
    BY <2>1, OutsideStutters
<1>2. CASE SkipSource \/ GoOn \/ GiveUp \/ (Abort /\ pc = "return")
  <2>1. UNCHANGED <<answer, actionOfError>> /\ pc = "return"
        /\ ~Undecided' /\ ~Decided'
    BY <1>2 DEF SkipSource, NextSource, GoOn, GiveUp, Abort, dialog
  <2> QED
    BY <2>1, ReturnActs
<1>3. CASE StateCheck \/ JobWaited
  <2>1. UNCHANGED <<place, answer, actionOfError>> /\ pc \in {"check", "woken"}
    BY <1>3 DEF StateCheck, JobWaited, Passed, Failed, NextSource, dialog
  <2>2. CASE site # "ask"
    <3>1. ~Undecided /\ ~Decided /\ ~Undecided' /\ ~Decided'
      BY <1>3, <2>1, <2>2 DEF StateCheck, JobWaited, Passed, Failed, NextSource
    <3> QED
      BY <2>1, <3>1, OutsideStutters
  <2>3. CASE /\ site = "ask"
             /\ \/ Passed
                \/ Go("toWait") /\ UNCHANGED lastErrorHandleAction
    <3>1. /\ Undecided' <=> Undecided
          /\ Decided' <=> Decided
          /\ UNCHANGED lastErrorHandleAction
      BY <2>1, <2>3 DEF Passed
    <3> QED
      BY <2>1, <3>1, SameProgressStutters
  <2>4. CASE site = "ask" /\ Failed
    <3>1. /\ UNCHANGED place /\ ~Undecided' /\ Decided'
          /\ lastErrorHandleAction' = "Cancel"
      BY <2>4 DEF Failed
    <3>2. Open' = "No" /\ Decision' = "Cancel" /\ UNCHANGED Memory
      BY <2>1, <3>1 DEF Open, Decision, Memory
    <3>3. CASE lastErrorHandleAction = "No"
      <4>1. Open # "No"
        BY <1>b, <2>1, <2>4, <3>3 DEF Open
      <4> QED
        BY <2>1, <3>2, <4>1, DialogueDecides DEF Actions
    <3>4. CASE lastErrorHandleAction # "No"
      <4>1. Open = "No" /\ Decision # "No"
        BY <2>1, <2>4, <3>4 DEF Open, Decision
      <4> QED
        BY <2>1, <3>2, <4>1, DialogueOverrules
    <3> QED
      BY <3>3, <3>4
  <2> QED
    BY <1>3, <2>2, <2>3, <2>4 DEF StateCheck, JobWaited
<1>4. CASE JobWait \/ FallAsleep \/ AskDialog \/ Unsleep \/ Rise \/ Settle
  <2>1. /\ UNCHANGED <<place, answer, actionOfError, lastErrorHandleAction>>
        /\ Undecided' <=> Undecided
        /\ Decided' <=> Decided
    BY <1>4 DEF JobWait, FallAsleep, AskDialog, Unsleep, Rise, Settle, dialog
  <2> QED
    BY <2>1, SameProgressStutters
<1>5. ASSUME NEW p \in FaultPlaces, Fault(p) PROVE Dialogue!Next
  <2>1. ErrorAt(p) \in Errors
    BY ErrorAtIsError, ControlAssumption
  <2>2. Open = "No" /\ Open' = ErrorAt(p) /\ Decision' = "No"
        /\ UNCHANGED <<answer, Memory>>
    BY <1>5 DEF Fault, Open, Decision, Memory, dialog, ErrorAt
  <2> QED
    BY <2>1, <2>2, DialogueRaises
<1>6. CASE AnswerFromList
  <2>1. pc = "fault" /\ error = ErrorAt(place) /\ actionOfError[error] # "No"
    BY <1>6, <1>c DEF AnswerFromList, ErrorIsOpen
  <2>2. /\ Open = error /\ Open' = "No" /\ Decision' = actionOfError[error]
        /\ UNCHANGED <<answer, Memory>>
    BY <1>6, <2>1 DEF AnswerFromList, Open, Decision, Memory, dialog
  <2>3. Memory[Open] = actionOfError[error] /\ actionOfError[error] \in Actions
    BY <1>a, <1>b, <2>1, <2>2 DEF Memory, SharedOK
  <2> QED
    BY <1>b, <2>1, <2>2, <2>3, DialogueDecides
<1>7. CASE AnswerByDefault
  <2>1. pc = "fault" /\ error = ErrorAt(place) /\ answer = "No"
    BY <1>7, <1>c DEF AnswerByDefault, ErrorIsOpen, DialogAsks
  <2>2. /\ Open = error /\ Open' = "No" /\ Decision' = Default(error)
        /\ UNCHANGED <<answer, Memory>>
    BY <1>7, <2>1 DEF AnswerByDefault, Open, Decision, Memory, dialog
  <2>3. Default(error) \in Actions
        /\ (Default(error) = "Cancel" \/ Default(error) \in Unasked(error))
    BY <1>b, <2>1, DefaultIsAction DEF Default, Unasked, Codes
  <2> QED
    BY <1>b, <2>1, <2>2, <2>3, DialogueDecides
<1>8. CASE AskSilently
  <2>1. pc = "ask" /\ error = ErrorAt(place) /\ answer = "No"
    BY <1>8, <1>c DEF AskSilently, ErrorIsOpen, DialogAsks
  <2>2. /\ Open = error /\ Open' = "No" /\ Decision' = "Skip"
        /\ UNCHANGED <<answer, Memory>>
    BY <1>8, <2>1 DEF AskSilently, Open, Decision, Memory, dialog
  <2> QED
    BY <1>b, <2>1, <2>2, DialogueDecides DEF Unasked, Actions
<1>9. CASE RunHandler
  <2>1. /\ pc = "posted" /\ error = ErrorAt(place) /\ Open = error
        /\ UNCHANGED <<place, Memory>>
        /\ pc' = "check" /\ site' = "ask"
    BY <1>9, <1>c DEF RunHandler, FetchAnswer, Refuse, KeepBoth, AskUser,
                HandlerEntered, HandlerReturns, ErrorIsOpen, Open, Memory
  <2>2. CASE FetchAnswer
    <3>1. /\ Open' = "No" /\ Decision' = answer
          /\ answer' = "No" /\ answer \in Actions
      BY <1>a, <2>1, <2>2
      DEF FetchAnswer, HandlerReturns, Open, Decision, DialogOK
    <3> QED
      BY <1>b, <2>1, <2>2, <3>1, DialogueDecides DEF FetchAnswer
  <2>3. CASE Refuse \/ KeepBoth
    <3>1. /\ Open' = "No" /\ UNCHANGED answer /\ answer = "No"
          /\ \/ Decision' = "Cancel"
             \/ Decision' = "Coexist" /\ place = "SameFile"
      BY <2>1, <2>3
      DEF Refuse, KeepBoth, HandlerEntered, HandlerReturns, Open, Decision
    <3> QED
      BY <1>b, <2>1, <3>1, DialogueDecides DEF Actions, Unasked, ErrorAt
  <2>4. CASE AskUser
    <3>1. /\ UNCHANGED <<answer, actionOfError>>
          /\ Undecided /\ ~Decided /\ Undecided' /\ ~Decided'
      BY <2>1, <2>4 DEF AskUser, HandlerEntered, HandlerReturns
    <3> QED
      BY <2>1, <3>1, SameProgressStutters
  <2> QED
    BY <1>9, <2>2, <2>3, <2>4 DEF RunHandler
<1>10. ASSUME NEW a \in Actions, NEW always \in BOOLEAN, Dispose(a, always)
       PROVE  Dialogue!Next
  <2>1. answer = "No" /\ answer' = a /\ UNCHANGED <<Open, Decision>>
    BY <1>10, <1>c DEF Dispose, DialogAsks, worker, Open, Decision, ErrorAt
  <2>2. CASE error \in Errors
    <3>1. a \in Offered(error) /\ Open \in {error, "No"}
      BY <1>10, <1>c, <2>2 DEF Dispose, ErrorIsOpen, Open
    <3>2. \/ UNCHANGED Memory
          \/ always /\ Memory' = [Memory EXCEPT ![error] = a]
      BY <1>10, <1>a, <2>2 DEF Dispose, Memory, SharedOK, Codes
    <3> QED
      BY <2>1, <2>2, <3>1, <3>2, DialogueReplies
  <2>3. CASE error \notin Errors
    <3>1. Open = "No" /\ UNCHANGED Memory
      BY <1>10, <1>a, <1>b, <1>c, <2>3
      DEF Dispose, ErrorIsOpen, Open, Memory, SharedOK
    <3>2. a = "Skip"
      BY <1>10, <1>a, <2>3
      DEF Dispose, Offered, Supports, SharedOK, Codes, Errors
    <3>3. "FileExists" \in Errors /\ a \in Offered("FileExists")
      BY <3>2 DEF Errors, Offered
    <3> QED
      BY <2>1, <3>1, <3>3, DialogueReplies
  <2> QED
    BY <2>2, <2>3
<1>11. CASE ShowTask \/ ErrorChanged \/ ClickClose \/ StopSets \/ ClickPad
            \/ Toggle \/ ToggleResumes \/ TogglePauses \/ WakeAll
  <2>1. /\ UNCHANGED <<place, answer, actionOfError, lastErrorHandleAction>>
        /\ Undecided' <=> Undecided
        /\ Decided' <=> Decided
    BY <1>11
    DEF ShowTask, ErrorChanged, ClickClose, StopSets, ClickPad, Toggle,
        ToggleResumes, TogglePauses, WakeAll, worker
  <2> QED
    BY <2>1, SameProgressStutters
<1>12. CASE UNCHANGED vars
  <2>1. /\ UNCHANGED <<place, answer, actionOfError, lastErrorHandleAction>>
        /\ Undecided' <=> Undecided
        /\ Decided' <=> Decided
    BY <1>12 DEF vars, worker, dialog
  <2> QED
    BY <2>1, SameProgressStutters
<1> QED
  BY <1>1, <1>2, <1>3, <1>4, <1>5, <1>6, <1>7, <1>8, <1>9, <1>10, <1>11, <1>12
  DEF Next, Worker, Interface, User, Handling, Abort

(* handleError() decides every error exactly once, with a decision that    *)
(* somebody is entitled to make, as ErrorDialogue states it.               *)
THEOREM JobImplementsDialogue == Spec => ImplementsDialogue
<1>1. TypeOK /\ CauseInv /\ QuestionInv /\ [Next]_vars =>
        [Dialogue!Next]_(Dialogue!vars)
  BY DialogueStep
<1> QED
  BY <1>1, DialogueInit, QuestionInit, CauseStep, QuestionStep, TypeCorrect, PTL
  DEF Spec, ImplementsDialogue, Dialogue!Spec
=============================================================================
