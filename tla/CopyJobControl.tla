--------------------------- MODULE CopyJobControl ---------------------------
(***************************************************************************)
(* The control of one DFileCopyMoveJob: the worker thread that processes   *)
(* the sources, the interface thread that stops and pauses it, and the     *)
(* dialogue by which the worker asks what to do about an error.            *)
(*                                                                         *)
(* The two threads share d->state, a wait condition and a few plain        *)
(* fields; no lock protects them.  A step below is what one thread does    *)
(* between two accesses that the other thread can observe: every test of   *)
(* d->state and every assignment to it is a step of its own.               *)
(*                                                                         *)
(* What a source is (file, directory, link) and what is done to it is left *)
(* to other modules: here processing a source is any sequence of state     *)
(* checks, errors, closing of files and an end.                            *)
(*                                                                         *)
(* A definition that stands just before another of the same shape and is   *)
(* used nowhere (NextSourceOneMore before NextSource) is a plausible bug:  *)
(* put in the place of the other it violates a property, see README.md.    *)
(***************************************************************************)
EXTENDS Naturals

CONSTANTS
  Sources,    (* number of entries of sourceUrlList                          *)
  FaultPlaces,(* the calls of handleError() that the model makes             *)
  Repeats,    (* those of them that it makes before and behind another one   *)
  MaxFaults   (* bound of the model: errors met by the whole job             *)

VARIABLES
  handle,                 (* the kind of error handler given to the job      *)
  state,                  (* d->state                                        *)
  error,                  (* d->error                                        *)
  lastErrorHandleAction,
  actionOfError,          (* answers to give without asking again            *)
  left,                   (* sources not processed yet                       *)
  pc,                     (* where the worker thread is                      *)
  site,                   (* who called stateCheck()                         *)
  stage,                  (* copying, or past the closing of the files       *)
  place,                  (* the call of handleError() being served          *)
  faults,                 (* errors met so far                               *)
  ui,                     (* where the interface thread is                   *)
  shown,                  (* what the task dialog shows                      *)
  pad,                    (* whether the pause button is enabled             *)
  answer,                 (* ErrorHandle::m_actionOfError                    *)
  about,                  (* history: the error the last question was about  *)
  cause,                  (* history: why the job may be cancelled           *)
  lost                    (* history: requests the worker never saw          *)

worker == <<left, pc, site, stage, place, faults>>
dialog == <<ui, shown, pad, answer, about>>
vars   == <<handle, state, error, lastErrorHandleAction, actionOfError,
            worker, dialog, cause, lost>>

-----------------------------------------------------------------------------
(* The values of the enumerations of dfilecopymovejob.h that the control   *)
(* tells apart.                                                            *)

States  == {"Stopped", "Running", "Paused", "Sleep", "IOWait"}

Actions == {"Skip", "Retry", "Replace", "Coexist", "Cancel"}

(* One error per way handleError()'s callers, the dialog and the defaults  *)
(* treat an error.                                                         *)
Errors  == {"FileExists", "Write", "Open", "SpecialFile", "UnknowUrl"}

Codes   == Errors \union {"No", "Cancel", "Unknow"}

(* The calls of handleError(): one per error, the one for a source that is *)
(* its own target, which the handler answers by itself, and the one that   *)
(* reopens the copy for the integrity check, whose caller does not look    *)
(* for Cancel.                                                             *)
Places  == Errors \union {"SameFile", "Reopen"}

ErrorAt(p) == CASE p = "SameFile" -> "FileExists"
                [] p = "Reopen"   -> "Open"
                [] OTHER          -> p

ASSUME ControlAssumption ==
  /\ Sources \in Nat \ {0}
  /\ MaxFaults \in Nat
  /\ Repeats \subseteq FaultPlaces /\ FaultPlaces \subseteq Places

(* DFileCopyMoveJob::supportActions(), as far as the dialog uses it.       *)
Supports(e, a) ==
  CASE e \in {"Write", "Open"} -> a \in {"Skip", "Retry", "Cancel"}
    [] e = "SpecialFile"       -> a \in {"Skip", "Cancel"}
    [] e = "FileExists"        -> a \in {"Skip", "Replace", "Coexist", "Cancel"}
    [] OTHER                   -> a = "Cancel"

(* The buttons of the task dialog for an error.                            *)
Offered(e) ==
  IF e = "FileExists" THEN {"Skip", "Coexist", "Replace"}
                      ELSE {"Skip"} \union {a \in {"Retry"} : Supports(e, a)}

DefaultReplaces(e) ==
  CASE e = "UnknowUrl"  -> "Skip"
    [] e = "FileExists" -> "Replace"
    [] OTHER            -> "Cancel"

(* handleError() without a handler.                                        *)
Default(e) ==
  CASE e = "UnknowUrl"  -> "Skip"
    [] e = "FileExists" -> "Coexist"
    [] OTHER            -> "Cancel"

(* The answers with which a caller of handleError() goes on with the same  *)
(* source.                                                                 *)
Continues(p) ==
  CASE p = "FileExists"        -> {"Coexist", "Replace"}
    [] p = "SameFile"          -> {"Coexist"}
    [] p \in {"Write", "Open"} -> {"Retry"}
    [] p = "Reopen"            -> Actions \ {"Skip"}
    [] OTHER                   -> {}

EndsWhenNotRetried(p) ==
  IF p = "SameFile" THEN {"Skip", "Replace"} ELSE {"Skip", "Cancel"}

(* The answers that end the source; a file replaces itself by staying.     *)
Ends(p) == IF p = "SameFile" THEN {"Skip", "Replace"} ELSE {"Skip"}

-----------------------------------------------------------------------------

Init ==
  /\ handle \in {"none", "silent", "dialog"}
  /\ state = "Stopped"
  /\ error = "No"
  /\ lastErrorHandleAction = "No"
  /\ actionOfError = [e \in Codes |-> "No"]
  /\ left = Sources
  /\ pc = "new" /\ site = "loop" /\ stage = "copy" /\ place = "Write"
  /\ faults = 0
  /\ ui = "loop" /\ shown = "nothing" /\ pad = "off" /\ answer = "No"
  /\ about = 0 /\ cause = "none" /\ lost = {}

(* An assignment of the worker to d->state; a stop() it overwrites is gone. *)
WorkerSets(s) ==
  /\ state' = s
  /\ lost' = IF state = "Stopped" THEN lost \union {"overwritten"} ELSE lost

Go(to) == /\ pc' = to
          /\ UNCHANGED <<left, site, stage, place, faults>>

Check(from) == /\ pc' = "check" /\ site' = from
               /\ UNCHANGED <<left, stage, place, faults>>

-----------------------------------------------------------------------------
(* The worker: run().                                                      *)

Begin ==
  /\ pc = "new"
  /\ state' = "Running"
  /\ lastErrorHandleAction' = lastErrorHandleAction
  /\ \/ error' = "No" /\ Check("loop")
     \/ error' = "Unknow" /\ Go("end")         \* no usable target directory
  /\ UNCHANGED <<handle, actionOfError, dialog, cause, lost>>

NextSourceOneMore ==
  /\ left' = left - 1
  /\ UNCHANGED <<stage, place, faults>>
  /\ \/ /\ left > 0
        /\ pc' = "check" /\ site' = "loop"
        /\ error' = error
     \/ /\ left = 0
        /\ pc' = "end" /\ site' = site
        /\ error' = "No"

(* The source is finished: the next one, or the end of the loop.           *)
NextSource ==
  /\ left' = left - 1
  /\ UNCHANGED <<stage, place, faults>>
  /\ \/ /\ left > 1
        /\ pc' = "check" /\ site' = "loop"
        /\ error' = error
     \/ /\ left = 1
        /\ pc' = "end" /\ site' = site
        /\ error' = "No"

Finished ==
  /\ pc = "work"
  /\ NextSource
  /\ UNCHANGED <<handle, state, lastErrorHandleAction, actionOfError, dialog,
                 cause, lost>>

(* An operation that reports without asking, such as the seek back to the  *)
(* place where a failed read or write began.                               *)
Abort ==
  /\ \/ pc = "work"
     \/ pc = "return" /\ place = "Write" /\ lastErrorHandleAction = "Retry"
  /\ error' = "Unknow"
  /\ Go("end")
  /\ UNCHANGED <<handle, state, lastErrorHandleAction, actionOfError, dialog,
                 cause, lost>>

(* doProcess() returns false without setError(): it gets no information    *)
(* about the target, or the source is neither link, file nor directory.    *)
GiveUpUnreported ==
  /\ pc = "work" /\ stage = "copy"
  /\ Go("end")
  /\ lost' = lost \union {"unreported"}
  /\ UNCHANGED <<handle, state, error, lastErrorHandleAction, actionOfError,
                 dialog, cause>>

CheckPoint ==
  /\ pc = "work"
  /\ Check("work")
  /\ UNCHANGED <<handle, state, error, lastErrorHandleAction, actionOfError,
                 dialog, cause, lost>>

(* The files are closed in IOWaitState, which may take long.               *)
CloseFiles ==
  /\ pc = "work" /\ stage = "copy"
  /\ WorkerSets("IOWait")
  /\ pc' = "closing" /\ stage' = "verify"
  /\ UNCHANGED <<left, site, place, faults>>
  /\ UNCHANGED <<handle, error, lastErrorHandleAction, actionOfError, dialog,
                 cause>>

FilesClosed ==
  /\ pc = "closing"
  /\ \/ state = "IOWait" /\ Go("closed")
     \/ state # "IOWait" /\ Check("work")
  /\ UNCHANGED <<handle, state, error, lastErrorHandleAction, actionOfError,
                 dialog, cause, lost>>

LeaveIOWait ==
  /\ pc = "closed"
  /\ WorkerSets("Running")
  /\ Go("work")
  /\ UNCHANGED <<handle, error, lastErrorHandleAction, actionOfError, dialog,
                 cause>>

-----------------------------------------------------------------------------
(* The worker: stateCheck() and jobWait().                                 *)

(* stateCheck() returns true.  In the loops over the sources and over the  *)
(* entries of a directory, process() follows.                              *)
Passed ==
  \/ /\ site \in {"loop", "work"}
     /\ error' = "No" /\ lastErrorHandleAction' = "No"
     /\ pc' = "work" /\ stage' = "copy"
     /\ UNCHANGED <<left, site, place, faults>>
  \/ /\ site = "work"
     /\ UNCHANGED <<error, lastErrorHandleAction>>
     /\ Go("work")
  \/ /\ site = "loop"                      \* nothing can read this kind of URL
     /\ UNCHANGED lastErrorHandleAction
     /\ NextSource
  \/ /\ site = "ask"
     /\ UNCHANGED <<error, lastErrorHandleAction>>
     /\ Go(IF lastErrorHandleAction = "No" THEN "ask" ELSE "unsleep")

FailedQuietly ==
  /\ UNCHANGED error
  /\ \/ /\ site \in {"loop", "work"}
        /\ UNCHANGED lastErrorHandleAction
        /\ Go("end")
     \/ /\ site = "ask"
        /\ lastErrorHandleAction' = "Cancel"
        /\ Go("unsleep")

(* stateCheck() returns false.                                             *)
Failed ==
  /\ error' = "Cancel"
  /\ \/ /\ site \in {"loop", "work"}
        /\ UNCHANGED lastErrorHandleAction
        /\ Go("end")
     \/ /\ site = "ask"
        /\ lastErrorHandleAction' = "Cancel"
        /\ Go("unsleep")

StateCheck ==
  /\ pc = "check"
  /\ \/ state \in {"Running", "Sleep", "IOWait"} /\ Passed
     \/ state = "Stopped" /\ Failed
     \/ /\ state = "Paused" /\ Go("toWait")
        /\ UNCHANGED <<error, lastErrorHandleAction>>
  /\ UNCHANGED <<handle, state, actionOfError, dialog, cause, lost>>

(* QWaitCondition::wait() on a mutex that nobody else ever locks.          *)
JobWait ==
  /\ pc = "toWait"
  /\ Go("asleep")
  /\ UNCHANGED <<handle, state, error, lastErrorHandleAction, actionOfError,
                 dialog, cause, lost>>

JobWaitedInverted ==
  /\ pc = "woken"
  /\ \/ state # "Running" /\ Passed
     \/ state = "Running" /\ Failed
  /\ UNCHANGED <<handle, state, actionOfError, dialog, cause, lost>>

JobWaited ==
  /\ pc = "woken"
  /\ \/ state = "Running" /\ Passed
     \/ state # "Running" /\ Failed
  /\ UNCHANGED <<handle, state, actionOfError, dialog, cause, lost>>

-----------------------------------------------------------------------------
(* The worker: setError() and handleError().                               *)

(* The call that was repeated because Retry is the answer "for all" fails  *)
(* again.  This may go on for ever, and the model does not count it.       *)
Again(p) ==
  /\ p = place /\ lastErrorHandleAction = "Retry"
  /\ actionOfError[ErrorAt(p)] = "Retry"

Fault(p) ==
  /\ pc = "work"
  /\ p = "Reopen" => stage = "verify"
  /\ \/ Again(p) /\ faults' = faults
     \/ /\ ~Again(p)
        /\ faults < MaxFaults
        /\ faults > 0 => {place, p} \subseteq Repeats    \* bound
        /\ faults' = faults + 1
  /\ place' = p /\ error' = ErrorAt(p)
  /\ pc' = "fault"
  /\ UNCHANGED <<handle, left, site, stage, state, lastErrorHandleAction,
                 actionOfError, dialog, cause, lost>>

AnswerFromList ==
  /\ pc = "fault"
  /\ actionOfError[error] # "No"
  /\ lastErrorHandleAction' = actionOfError[error]
  /\ error' = "No"
  /\ Go("return")
  /\ UNCHANGED <<handle, state, actionOfError, dialog, cause, lost>>

AnswerByDefault ==
  /\ pc = "fault"
  /\ actionOfError[error] = "No" /\ handle = "none"
  /\ lastErrorHandleAction' = Default(error)
  /\ error' = IF Default(error) = "Cancel" THEN "Cancel" ELSE "No"
  /\ cause' = IF Default(error) = "Cancel" THEN "nobodyToAsk" ELSE cause
  /\ Go("return")
  /\ UNCHANGED <<handle, state, actionOfError, dialog, lost>>

FallAsleep ==
  /\ pc = "fault"
  /\ actionOfError[error] = "No" /\ handle # "none"
  /\ WorkerSets("Sleep")
  /\ Go("ask")
  /\ UNCHANGED <<handle, error, lastErrorHandleAction, actionOfError, dialog,
                 cause>>

(* The silent handler lives in the worker and skips everything.            *)
AskSilently ==
  /\ pc = "ask" /\ handle = "silent"
  /\ lastErrorHandleAction' = "Skip"
  /\ Check("ask")
  /\ UNCHANGED <<handle, state, error, actionOfError, dialog, cause, lost>>

(* DThreadUtil::runInThread(): post the call and wait for its result.      *)
AskDialog ==
  /\ pc = "ask" /\ handle = "dialog"
  /\ Go("posted")
  /\ UNCHANGED <<handle, state, error, lastErrorHandleAction, actionOfError,
                 dialog, cause, lost>>

Unsleep ==
  /\ pc = "unsleep"
  /\ Go(IF state = "Sleep" THEN "rise" ELSE "settle")
  /\ UNCHANGED <<handle, state, error, lastErrorHandleAction, actionOfError,
                 dialog, cause, lost>>

Rise ==
  /\ pc = "rise"
  /\ WorkerSets("Running")
  /\ Go("settle")
  /\ UNCHANGED <<handle, error, lastErrorHandleAction, actionOfError, dialog,
                 cause>>

Settle ==
  /\ pc = "settle"
  /\ error' = IF lastErrorHandleAction = "Cancel" THEN "Cancel" ELSE "No"
  /\ Go("return")
  /\ UNCHANGED <<handle, state, lastErrorHandleAction, actionOfError, dialog,
                 cause, lost>>

-----------------------------------------------------------------------------
(* The worker: what the callers of handleError() make of the answer.       *)

SkipSource ==
  /\ pc = "return" /\ lastErrorHandleAction \in Ends(place)
  /\ NextSource
  /\ UNCHANGED <<handle, state, lastErrorHandleAction, actionOfError, dialog,
                 cause, lost>>

(* A read or write that is repeated looks at the state first; the loops    *)
(* around the other calls that can be repeated do not.                     *)
GoOn ==
  /\ pc = "return"
  /\ \/ /\ lastErrorHandleAction \in Continues(place)
        /\ IF place = "Write" THEN Check("work") ELSE Go("work")
     \/ lastErrorHandleAction \in Ends(place) /\ Check("work") \* in a directory
  /\ UNCHANGED <<handle, state, error, lastErrorHandleAction, actionOfError,
                 dialog, cause, lost>>

(* process() returns false: the answer is Cancel, is one the caller does   *)
(* not know, or is Replace for things that cannot replace each other.      *)
GiveUp ==
  /\ pc = "return"
  /\ \/ lastErrorHandleAction \notin Continues(place) \union Ends(place)
     \/ place = "FileExists" /\ lastErrorHandleAction = "Replace"
  /\ Go("end")
  /\ lost' = IF lastErrorHandleAction = "Cancel" THEN lost
                                                 ELSE lost \union {"refused"}
  /\ UNCHANGED <<handle, state, error, lastErrorHandleAction, actionOfError,
                 dialog, cause>>

-----------------------------------------------------------------------------
(* The worker: the end of run().                                           *)

(* A removable target is synced first.                                     *)
End ==
  /\ pc = "end"
  /\ \/ state' = "IOWait" /\ Go("sync")
     \/ state' = state /\ Go("finish")
  /\ UNCHANGED <<handle, error, lastErrorHandleAction, actionOfError, dialog,
                 cause, lost>>

Synced ==
  /\ pc = "sync"
  /\ Go(IF state = "IOWait" THEN "synced" ELSE "finish")
  /\ UNCHANGED <<handle, state, error, lastErrorHandleAction, actionOfError,
                 dialog, cause, lost>>

RestoreState ==
  /\ pc = "synced"
  /\ state' = "Running"
  /\ Go("finish")
  /\ UNCHANGED <<handle, error, lastErrorHandleAction, actionOfError, dialog,
                 cause, lost>>

Finish ==
  /\ pc = "finish"
  /\ state' = "Stopped"
  /\ Go("over")
  /\ UNCHANGED <<handle, error, lastErrorHandleAction, actionOfError, dialog,
                 cause, lost>>

-----------------------------------------------------------------------------
(* The interface thread.  Its event loop runs one handler at a time; a     *)
(* handler takes several steps.                                            *)

PadFor(e) == IF e = "No" THEN "on" ELSE "off"

(* The task is shown after a second, or when its first question comes.     *)
ShowTask ==
  /\ handle = "dialog" /\ ui = "loop" /\ shown = "nothing"
  /\ pc \notin {"new", "over"}
  /\ shown' = "task" /\ pad' = PadFor(error)
  /\ UNCHANGED <<handle, state, error, lastErrorHandleAction, actionOfError,
                 worker, ui, answer, about, cause, lost>>

(* errorChanged is a queued signal: the pause button follows late.         *)
ErrorChanged ==
  /\ ui = "loop" /\ shown # "nothing"
  /\ pad # PadFor(error)
  /\ pad' = PadFor(error)
  /\ UNCHANGED <<handle, state, error, lastErrorHandleAction, actionOfError,
                 worker, ui, shown, answer, about, cause, lost>>

(* handleError() of the handler is called from the event loop behind every *)
(* errorChanged that is already queued; the worker waits for its result.   *)
HandlerReturns(a) ==
  /\ lastErrorHandleAction' = a
  /\ Check("ask")

HandlerEntered ==
  /\ ui = "loop" /\ pc = "posted"
  /\ shown # "nothing" => pad = PadFor(error)
  /\ pad' = PadFor(error)
  /\ UNCHANGED <<handle, error, actionOfError, ui, lost>>

FetchAnswerTwice ==
  /\ HandlerEntered
  /\ answer # "No"
  /\ HandlerReturns(answer)
  /\ UNCHANGED <<state, shown, answer, about, cause>>

FetchAnswer ==
  /\ HandlerEntered
  /\ answer # "No"
  /\ HandlerReturns(answer)
  /\ answer' = "No"
  /\ UNCHANGED <<state, shown, about, cause>>

Refuse ==
  /\ HandlerEntered
  /\ answer = "No" /\ error = "UnknowUrl"
  /\ HandlerReturns("Cancel")
  /\ cause' = "unsupported"
  /\ shown' = IF shown = "nothing" THEN "task" ELSE shown
  /\ UNCHANGED <<state, answer, about>>

KeepBoth ==
  /\ HandlerEntered
  /\ answer = "No" /\ place = "SameFile"
  /\ HandlerReturns("Coexist")
  /\ UNCHANGED <<state, shown, answer, about, cause>>

(* The handler's togglePause(), in one step: the worker waits for it.       *)
Toggled == CASE state = "Stopped" -> "Stopped"
             [] state = "Paused"  -> "Running"
             [] OTHER             -> "Paused"

AskUnseen ==
  /\ HandlerEntered
  /\ answer = "No" /\ error # "UnknowUrl" /\ place # "SameFile"
  /\ HandlerReturns("No")
  /\ about' = faults /\ state' = Toggled
  /\ UNCHANGED <<shown, answer, cause>>

AskUser ==
  /\ HandlerEntered
  /\ answer = "No" /\ error # "UnknowUrl" /\ place # "SameFile"
  /\ HandlerReturns("No")
  /\ shown' = "question" /\ about' = faults /\ state' = Toggled
  /\ UNCHANGED <<answer, cause>>

RunHandler == FetchAnswer \/ Refuse \/ KeepBoth \/ AskUser

NoToggle == "loop"

(* disposeJobError() lets a job run that waits for the answer.             *)
AfterReply == IF state = "Paused" THEN "toggle" ELSE "loop"

(* disposeJobError(): a button of the question, "do not ask again" or not. *)
(* The model ends with the job, which deletes itself before its dialog.    *)
Dispose(a, always) ==
  /\ ui = "loop" /\ shown = "question" /\ pc # "over"
  /\ \/ a \in Offered(error)
     \/ error \notin Errors /\ a = "Skip"
  /\ answer' = a
  /\ actionOfError' = IF always THEN [actionOfError EXCEPT ![error] = a]
                                ELSE actionOfError
  /\ shown' = "task"
  /\ ui' = AfterReply
  /\ UNCHANGED <<handle, state, error, lastErrorHandleAction, worker, pad,
                 about, cause, lost>>

(* The close button: DFileCopyMoveJob::stop().                             *)
ClickClose ==
  /\ ui = "loop" /\ shown # "nothing"
  /\ state # "Stopped"
  /\ ui' = "stop"
  /\ cause' = "stop"
  /\ UNCHANGED <<handle, state, error, lastErrorHandleAction, actionOfError,
                 worker, shown, pad, answer, about, lost>>

StopWithoutWake ==
  /\ ui = "stop"
  /\ state' = "Stopped"
  /\ ui' = "loop"
  /\ UNCHANGED <<handle, error, lastErrorHandleAction, actionOfError, worker,
                 shown, pad, answer, about, cause, lost>>

StopSets ==
  /\ ui = "stop"
  /\ state' = "Stopped"
  /\ ui' = "wakeAll"
  /\ UNCHANGED <<handle, error, lastErrorHandleAction, actionOfError, worker,
                 shown, pad, answer, about, cause, lost>>

(* The pause button: DFileCopyMoveJob::togglePause().                      *)
ClickPad ==
  /\ ui = "loop" /\ shown # "nothing" /\ pad = "on"
  /\ state # "Stopped"
  /\ ui' = "toggle"
  /\ UNCHANGED <<handle, state, error, lastErrorHandleAction, actionOfError,
                 worker, shown, pad, answer, about, cause, lost>>

Toggle ==
  /\ ui = "toggle"
  /\ ui' = IF state = "Paused" THEN "resume" ELSE "pause"
  /\ UNCHANGED <<handle, state, error, lastErrorHandleAction, actionOfError,
                 worker, shown, pad, answer, about, cause, lost>>

ToggleResumes ==
  /\ ui = "resume"
  /\ state' = "Running"
  /\ ui' = "wakeAll"
  /\ UNCHANGED <<handle, error, lastErrorHandleAction, actionOfError, worker,
                 shown, pad, answer, about, cause, lost>>

TogglePauses ==
  /\ ui = "pause"
  /\ state' = "Paused"
  /\ ui' = "loop"
  /\ cause' = IF pc = "woken" THEN "pausedAgain" ELSE cause
  /\ UNCHANGED <<handle, error, lastErrorHandleAction, actionOfError, worker,
                 shown, pad, answer, about, lost>>

(* waitCondition.wakeAll(): it reaches a worker that already waits only.   *)
WakeAll ==
  /\ ui = "wakeAll"
  /\ ui' = "loop"
  /\ Go(IF pc = "asleep" THEN "woken" ELSE pc)
  /\ lost' = IF pc = "toWait" THEN lost \union {"wakeUp"} ELSE lost
  /\ UNCHANGED <<handle, state, error, lastErrorHandleAction, actionOfError,
                 shown, pad, answer, about, cause>>

-----------------------------------------------------------------------------

Handling ==
  \/ \E p \in FaultPlaces : Fault(p)
  \/ AnswerFromList \/ AnswerByDefault \/ FallAsleep
  \/ AskSilently \/ AskDialog \/ Unsleep \/ Rise \/ Settle
  \/ SkipSource \/ GoOn \/ GiveUp

Worker ==
  \/ Begin \/ Finished \/ Abort \/ GiveUpUnreported \/ CheckPoint
  \/ CloseFiles \/ FilesClosed \/ LeaveIOWait
  \/ StateCheck \/ JobWait \/ JobWaited
  \/ Handling
  \/ End \/ Synced \/ RestoreState \/ Finish

(* What the event loop owes: handlers that are running or queued.          *)
Interface ==
  \/ ErrorChanged \/ RunHandler
  \/ StopSets \/ Toggle \/ ToggleResumes \/ TogglePauses \/ WakeAll

User ==
  \/ ShowTask \/ ClickClose \/ ClickPad
  \/ \E a \in Actions, always \in BOOLEAN : Dispose(a, always)

Next == Worker \/ Interface \/ User

(* Both threads run; the user owes nothing.                                *)
Fairness == WF_vars(Worker) /\ WF_vars(Interface)

Spec == Init /\ [][Next]_vars /\ Fairness

-----------------------------------------------------------------------------

SharedOK ==
  /\ handle \in {"none", "silent", "dialog"}
  /\ state \in States
  /\ error \in Codes
  /\ lastErrorHandleAction \in Actions \union {"No"}
  /\ actionOfError \in [Codes -> Actions \union {"No"}]
  /\ cause \in {"none", "nobodyToAsk", "unsupported", "stop", "pausedAgain"}
  /\ lost \subseteq {"overwritten", "refused", "unreported", "wakeUp"}

WorkerOK ==
  /\ left \in 0..Sources
  /\ pc \in {"new", "work", "closing", "closed", "check", "toWait", "asleep",
             "woken", "fault", "ask", "posted", "unsleep", "rise", "settle",
             "return", "end", "sync", "synced", "finish", "over"}
  /\ site \in {"loop", "work", "ask"}
  /\ stage \in {"copy", "verify"}
  /\ place \in Places
  /\ faults \in 0..MaxFaults

DialogOK ==
  /\ ui \in {"loop", "stop", "toggle", "resume", "pause", "wakeAll"}
  /\ shown \in {"nothing", "task", "question"}
  /\ pad \in {"on", "off"}
  /\ answer \in Actions \union {"No"}
  /\ about \in 0..MaxFaults

(* Every variable has a value of its kind.                                 *)
TypeOK == SharedOK /\ WorkerOK /\ DialogOK

(* A job that ends without an error has processed every source, unless a   *)
(* caller of handleError() gave up on an answer it does not know, or       *)
(* doProcess() returned false on one of its two paths without setError():  *)
(* from everywhere else run() leaves its loop early behind setError() only. *)
CleanEndIsComplete ==
  pc = "over" /\ error = "No" =>
    left = 0 \/ lost \intersect {"refused", "unreported"} # {}

(* A job is cancelled only if somebody stopped it, its error could not be  *)
(* decided, or it was paused again before it had noticed that it may run:  *)
(* jobWait() takes every state but RunningState for a stop.                *)
CancelHasCause == error = "Cancel" => cause # "none"

(* An answer goes to the error it was given for, though the handler is     *)
(* called a second time to fetch it, unless a stop() was overwritten while *)
(* the buttons of the old question were still up.                          *)
AnswerFits ==
  pc = "posted" /\ answer # "No" => about = faults \/ "overwritten" \in lost

(* A worker that sleeps until its question is answered has its buttons on  *)
(* the screen or is about to be woken: else it would sleep for ever.       *)
QuestionStaysUp ==
  pc = "asleep" /\ site = "ask" /\ lastErrorHandleAction = "No" =>
    shown = "question" \/ ui # "loop" \/ "wakeUp" \in lost

(* A job that was told to cancel finishes no further source.  The exception *)
(* is the file reopened for its integrity check: that loop leaves on Skip   *)
(* only and reads on after Cancel.                                          *)
CancelEndsJob ==
  [][lastErrorHandleAction = "Cancel" /\ place # "Reopen" => left' = left]_vars

(* Q_ASSERT(d->state != RunningState) in setActionOfErrorType(): an answer  *)
(* "for all" is given only while the worker is not running.  The pause      *)
(* button breaks it: pressed just before it is disabled, it makes the       *)
(* handler's own togglePause() resume the job instead of pausing it.        *)
RememberedWhilePaused ==
  [][actionOfError' # actionOfError => state # "Running"]_vars

(* With Retry as the answer "for all" handleError() returns without a look *)
(* at the state, and so do the loops around the calls other than reading   *)
(* and writing: while such a call fails nobody sees a stop().              *)
RetriesUnseen ==
  pc = "fault" /\ place # "Write" /\ actionOfError[error] = "Retry"

(* What the two properties below need of the file system: no call fails    *)
(* for ever while it is repeated that way.                                 *)
RetriesEnd == <>[]~RetriesUnseen

(* A stop() ends the job, if the worker did not overwrite the state, was    *)
(* not about to wait when it was woken, and does not repeat a failing call  *)
(* for ever without a look at the state.                                    *)
StopHonoured ==
  RetriesEnd =>
    (ui = "stop" ~>
       pc = "over" \/ lost \intersect {"overwritten", "wakeUp"} # {})

(* An answer of the user is fetched, or the job ends, on the same condition. *)
AnswerTaken ==
  RetriesEnd =>
    (answer # "No" ~> answer = "No" \/ pc = "over" \/ "wakeUp" \in lost)

-----------------------------------------------------------------------------
(* handleError() as ErrorDialogue states it: an error is open from the call *)
(* until an action is assigned, and decided from then to the return.        *)

InLoop == pc \in {"check", "toWait", "asleep", "woken"} /\ site = "ask"

Undecided ==
  pc \in {"fault", "ask", "posted"} \/ (InLoop /\ lastErrorHandleAction = "No")

Decided ==
  \/ pc \in {"unsleep", "rise", "settle", "return"}
  \/ InLoop /\ lastErrorHandleAction # "No"

(* What a handler, or no handler, decides without the user.                 *)
Unasked(e) ==
  IF e = "FileExists" THEN {"Skip", "Coexist"} ELSE {"Skip"}

Dialogue == INSTANCE ErrorDialogue WITH
  Buttons  <- Offered,
  Own      <- Unasked,
  open     <- IF Undecided THEN ErrorAt(place) ELSE "No",
  reply    <- answer,
  memory   <- [e \in Errors |-> actionOfError[e]],
  decision <- IF Decided THEN lastErrorHandleAction ELSE "No"

ImplementsDialogue == Dialogue!Spec

=============================================================================
