------------------------------ MODULE RequestEP -----------------------------
(***************************************************************************)
(* The extra properties (tags) of a DFileInfo: extraProperties() arms a    *)
(* timer, the timer puts the info into the queue of RequestEP, RequestEP's *)
(* thread fetches the tags and posts processEPChanged() to the GUI thread. *)
(* An info that goes away withdraws its request: cancelRequestEP().        *)
(*                                                                         *)
(* The GUI thread runs one handler at a time.  A handler is one action,    *)
(* cut where the code lets go of requestEPFilesLock, since the thread can  *)
(* go on there.  Posted calls arrive in the order of posting, with any     *)
(* handlers between them.  A file is one DFileInfoPrivate: another one at  *)
(* the same address, and infos destroyed by other threads, are left out.   *)
(* What the tags are is left out as well.                                  *)
(*                                                                         *)
(* As in the other modules, an unused definition just before another of    *)
(* the same shape is a plausible bug that violates a property.             *)
(***************************************************************************)
EXTENDS Naturals, Sequences, SequencesExt

CONSTANTS Files,
          MaxAsked,     (* bound of the model: timeouts of the timers        *)
          MaxRefreshed  (* bound of the model: calls of refresh()            *)

ASSUME RequestEPAssumption ==
  /\ {"finished", "none"} \cap Files = {}
  /\ MaxAsked \in Nat /\ MaxRefreshed \in Nat

VARIABLES
  alive,           (* the infos that are not destroyed                      *)
  epInitialized,
  timer,           (* getEPTimer: "dying" after deleteLater()               *)
  slots,           (* connections to timeout() of that timer                *)
  requestEP,       (* whether the pointer of this name is set               *)
  requestEPFiles,
  dirtyFileInfos,
  thread,          (* where run() is                                        *)
  hand,            (* what run() took and has not posted                    *)
  gui,             (* where the handler of the GUI thread is                *)
  info, index, calls,  (* its locals                                        *)
  posted,          (* calls posted to the GUI thread, "finished" for the    *)
                   (* signal of the thread                                  *)
  asked, refreshed,
  loaded,          (* history: infos that got the result they asked for     *)
  slipped,         (* history: infos with a result under way that a         *)
                   (* destructor cannot withdraw any more                   *)
  missed,          (* history: infos whose call to ask got lost             *)
  late             (* history: the last request met a thread that was       *)
                   (* leaving                                               *)

infos   == <<alive, epInitialized, timer, slots, requestEP>>
shared  == <<requestEPFiles, dirtyFileInfos>>
handler == <<gui, info, index, calls>>
bounds  == <<asked, refreshed>>
history == <<loaded, slipped, missed, late>>
vars    == <<infos, shared, thread, hand, handler, posted, bounds, history>>

NoFile == "none"
Events == Files \cup {"finished"}

Queued(f)   == Contains(requestEPFiles, f)
Taken(f)    == hand = f \/ Contains(posted, f)
UnderWay(f) == Queued(f) \/ Taken(f)

Init ==
  /\ alive = Files
  /\ epInitialized = [f \in Files |-> FALSE]
  /\ timer = [f \in Files |-> "none"]
  /\ slots = [f \in Files |-> 0]
  /\ requestEP = [f \in Files |-> FALSE]
  /\ requestEPFiles = <<>> /\ dirtyFileInfos = {}
  /\ thread = "off" /\ hand = NoFile
  /\ gui = "idle" /\ info = NoFile /\ index = 0 /\ calls = 0
  /\ posted = <<>>
  /\ asked = 0 /\ refreshed = 0
  /\ loaded = {} /\ slipped = {} /\ missed = {}
  /\ late = FALSE

-----------------------------------------------------------------------------
(* DFileInfo, in the GUI thread.                                           *)

(* A timer that is to be deleted takes the call of start() with it.        *)
ExtraProperties(f) ==
  /\ gui = "idle" /\ f \in alive
  /\ ~epInitialized[f]
  /\ epInitialized' = [epInitialized EXCEPT ![f] = TRUE]
  /\ \/ /\ timer[f] = "dying"
        /\ missed' = missed \cup {f}
        /\ UNCHANGED <<timer, slots>>
     \/ /\ timer[f] # "dying"
        /\ timer' = [timer EXCEPT ![f] = "armed"]
        /\ slots' = [slots EXCEPT ![f] = @ + 1]
        /\ UNCHANGED missed
  /\ UNCHANGED <<alive, requestEP, shared, thread, hand, handler, posted,
                 bounds, loaded, slipped, late>>

Refresh(f) ==
  /\ gui = "idle" /\ f \in alive
  /\ epInitialized[f] /\ refreshed < MaxRefreshed
  /\ epInitialized' = [epInitialized EXCEPT ![f] = FALSE]
  /\ refreshed' = refreshed + 1
  /\ loaded' = loaded \ {f} /\ missed' = missed \ {f}
  /\ UNCHANGED <<alive, timer, slots, requestEP, shared, thread, hand,
                 handler, posted, asked, slipped, late>>

MakeInactiveInitialized(f) ==
  /\ gui = "idle" /\ f \in alive
  /\ timer[f] # "none"
  /\ timer' = [timer EXCEPT ![f] = "dying"]
  /\ slots' = [slots EXCEPT ![f] = 0]
  /\ requestEP' = [requestEP EXCEPT ![f] = FALSE]
  /\ slipped' = IF UnderWay(f) THEN slipped \cup {f} ELSE slipped
  /\ UNCHANGED <<alive, epInitialized, shared, thread, hand, handler, posted,
                 bounds, loaded, missed, late>>

MakeToInactive(f) ==
  /\ gui = "idle" /\ f \in alive
  /\ timer[f] # "none"
  /\ timer' = [timer EXCEPT ![f] = "dying"]
  /\ slots' = [slots EXCEPT ![f] = 0]
  /\ requestEP' = [requestEP EXCEPT ![f] = FALSE]
  /\ epInitialized' = [epInitialized EXCEPT ![f] = FALSE]
  /\ slipped' = IF UnderWay(f) THEN slipped \cup {f} ELSE slipped
  /\ loaded' = loaded \ {f} /\ missed' = missed \ {f}
  /\ UNCHANGED <<alive, shared, thread, hand, handler, posted, bounds, late>>

DeleteTimer(f) ==
  /\ gui = "idle"
  /\ timer[f] = "dying"
  /\ timer' = [timer EXCEPT ![f] = "none"]
  /\ UNCHANGED <<alive, epInitialized, slots, requestEP, shared, thread, hand,
                 handler, posted, bounds, history>>

TimeoutForgets(f) ==
  /\ gui = "idle"
  /\ timer[f] = "armed" /\ asked < MaxAsked
  /\ asked' = asked + 1
  /\ timer' = [timer EXCEPT ![f] = "dying"]
  /\ gui' = "scan" /\ calls' = slots[f]
  /\ UNCHANGED <<alive, epInitialized, slots, requestEP, shared, thread, hand,
                 info, index, posted, refreshed, history>>

(* The timer calls every function connected to it: one requestEP() each.   *)
Timeout(f) ==
  /\ gui = "idle"
  /\ timer[f] = "armed" /\ asked < MaxAsked
  /\ asked' = asked + 1
  /\ requestEP' = [requestEP EXCEPT ![f] = TRUE]
  /\ timer' = [timer EXCEPT ![f] = "dying"]
  /\ slots' = [slots EXCEPT ![f] = 0]
  /\ gui' = "scan" /\ info' = f /\ calls' = slots[f]
  /\ UNCHANGED <<alive, epInitialized, shared, thread, hand, index, posted,
                 refreshed, history>>

-----------------------------------------------------------------------------
(* RequestEP::requestEP().                                                 *)

Return == gui' = "idle" /\ info' = NoFile /\ index' = 0 /\ calls' = 0

NextCall ==
  \/ /\ calls > 1
     /\ gui' = "scan" /\ calls' = calls - 1
     /\ UNCHANGED <<info, index>>
  \/ calls <= 1 /\ Return

Scan ==
  /\ gui = "scan"
  /\ \/ Queued(info) /\ NextCall
     \/ ~Queued(info) /\ gui' = "append" /\ UNCHANGED <<info, index, calls>>
  /\ UNCHANGED <<infos, shared, thread, hand, posted, bounds, history>>

AppendWithoutStart ==
  /\ gui = "append"
  /\ requestEPFiles' = Append(requestEPFiles, info)
  /\ NextCall
  /\ slipped' = IF Taken(info) THEN slipped \cup {info} ELSE slipped
  /\ UNCHANGED <<infos, dirtyFileInfos, thread, hand, posted, bounds,
                 loaded, missed, late>>

AppendRequest ==
  /\ gui = "append"
  /\ requestEPFiles' = Append(requestEPFiles, info)
  /\ gui' = "start"
  /\ slipped' = IF Taken(info) THEN slipped \cup {info} ELSE slipped
  /\ UNCHANGED <<infos, dirtyFileInfos, thread, hand, info, index, calls,
                 posted, bounds, loaded, missed, late>>

(* isRunning() is still true of a thread that has decided to return.       *)
StartThread ==
  /\ gui = "start"
  /\ thread' = IF thread = "off" THEN "look" ELSE thread
  /\ late' = (thread = "leave")
  /\ NextCall
  /\ UNCHANGED <<infos, shared, hand, posted, bounds, loaded, slipped,
                 missed>>

-----------------------------------------------------------------------------
(* ~DFileInfoPrivate() and RequestEP::cancelRequestEP().                   *)

DestroyUnmarked(f) ==
  /\ gui = "idle" /\ f \in alive
  /\ alive' = alive \ {f}
  /\ timer' = [timer EXCEPT ![f] = "none"]
  /\ slots' = [slots EXCEPT ![f] = 0]
  /\ epInitialized' = [epInitialized EXCEPT ![f] = FALSE]
  /\ requestEP' = [requestEP EXCEPT ![f] = FALSE]
  /\ loaded' = loaded \ {f} /\ missed' = missed \ {f}
  /\ requestEPFiles' = SelectSeq(requestEPFiles, LAMBDA g : g # f)
  /\ UNCHANGED <<dirtyFileInfos, thread, hand, handler, posted, bounds, slipped,
                 late>>

Destroy(f) ==
  /\ gui = "idle" /\ f \in alive
  /\ alive' = alive \ {f}
  /\ timer' = [timer EXCEPT ![f] = "none"]
  /\ slots' = [slots EXCEPT ![f] = 0]
  /\ epInitialized' = [epInitialized EXCEPT ![f] = FALSE]
  /\ requestEP' = [requestEP EXCEPT ![f] = FALSE]
  /\ loaded' = loaded \ {f} /\ missed' = missed \ {f}
  /\ IF requestEP[f] THEN dirtyFileInfos' = dirtyFileInfos \cup {f}
                     ELSE UNCHANGED dirtyFileInfos
  /\ \/ /\ requestEP[f]
        /\ \E i \in DOMAIN requestEPFiles :
             /\ requestEPFiles[i] = f
             /\ index' = i
        /\ gui' = "remove" /\ info' = f
     \/ /\ ~(requestEP[f] /\ Queued(f))
        /\ UNCHANGED <<gui, info, index>>
  /\ UNCHANGED <<requestEPFiles, thread, hand, calls, posted, bounds, slipped,
                 late>>

(* The index was found before the lock was let go: the thread may have     *)
(* taken the head since.  Beyond the end removeAt() does nothing or is     *)
(* undefined, by the version of Qt.                                        *)
RemoveRequest ==
  /\ gui = "remove"
  /\ \/ /\ index \in DOMAIN requestEPFiles
        /\ requestEPFiles' = RemoveAt(requestEPFiles, index)
        /\ IF requestEPFiles[index] = info
             THEN UNCHANGED <<slipped, missed>>
             ELSE /\ slipped' = slipped \cup {info}
                  /\ missed' = missed \cup {requestEPFiles[index]}
     \/ /\ index \notin DOMAIN requestEPFiles
        /\ slipped' = slipped \cup {info}
        /\ UNCHANGED <<requestEPFiles, missed>>
  /\ dirtyFileInfos' = dirtyFileInfos \ {info}
  /\ \/ Return
     \/ /\ index \notin DOMAIN requestEPFiles
        /\ gui' = "undefined" /\ UNCHANGED <<info, index, calls>>
  /\ UNCHANGED <<infos, thread, hand, posted, bounds, loaded, late>>

-----------------------------------------------------------------------------
(* What is posted to the GUI thread.                                       *)

ThreadFinished ==
  /\ Head(posted) = "finished"
  /\ dirtyFileInfos' = {}
  /\ slipped' = slipped \cup {f \in dirtyFileInfos : Taken(f)}
  /\ UNCHANGED <<epInitialized, requestEP, loaded>>

ProcessEPChanged(f) ==
  /\ Head(posted) = f
  /\ slipped' = IF Queued(f) \/ hand = f \/ Contains(Tail(posted), f)
                  THEN slipped ELSE slipped \ {f}
  /\ IF f \in dirtyFileInfos
       THEN /\ dirtyFileInfos' = dirtyFileInfos \ {f}
            /\ UNCHANGED <<epInitialized, requestEP, loaded>>
       ELSE /\ epInitialized' = [epInitialized EXCEPT ![f] = f \in alive]
            /\ requestEP' = [requestEP EXCEPT ![f] = FALSE]
            /\ loaded' = loaded \cup ({f} \cap alive)
            /\ UNCHANGED dirtyFileInfos

Deliver ==
  /\ gui = "idle" /\ posted # <<>>
  /\ posted' = Tail(posted)
  /\ ThreadFinished \/ \E f \in Files : ProcessEPChanged(f)
  /\ UNCHANGED <<alive, timer, slots, requestEPFiles, thread, hand, handler,
                 bounds, missed, late>>

-----------------------------------------------------------------------------
(* RequestEP::run().                                                       *)

Look ==
  /\ thread = "look"
  /\ thread' = IF requestEPFiles = <<>> THEN "leave" ELSE "take"
  /\ UNCHANGED <<infos, shared, hand, handler, posted, bounds, history>>

(* The lock was let go after the look: dequeue() of an empty queue is      *)
(* undefined.                                                              *)
Take ==
  /\ thread = "take"
  /\ IF requestEPFiles = <<>>
       THEN /\ thread' = "undefined"
            /\ UNCHANGED <<requestEPFiles, hand>>
       ELSE /\ thread' = "fetch"
            /\ hand' = Head(requestEPFiles)
            /\ requestEPFiles' = Tail(requestEPFiles)
  /\ UNCHANGED <<infos, dirtyFileInfos, handler, posted, bounds, history>>

FetchWithoutTags ==
  /\ thread = "fetch"
  /\ hand' = NoFile
  /\ thread' = "look"
  /\ UNCHANGED <<infos, shared, handler, posted, bounds, history>>

Fetch ==
  /\ thread = "fetch"
  /\ posted' = Append(posted, hand)
  /\ hand' = NoFile
  /\ thread' = "look"
  /\ UNCHANGED <<infos, shared, handler, bounds, history>>

Leave ==
  /\ thread = "leave"
  /\ thread' = "off"
  /\ posted' = Append(posted, "finished")
  /\ UNCHANGED <<infos, shared, hand, handler, bounds, history>>

-----------------------------------------------------------------------------
(* ~RequestEP(), when the GUI thread ends: what is posted dies with the    *)
(* object, and a thread that takes more than a second is terminated.       *)

Quit ==
  /\ gui = "idle"
  /\ gui' = "quit"
  /\ requestEPFiles' = <<>>
  /\ UNCHANGED <<infos, dirtyFileInfos, thread, hand, info, index, calls,
                 posted, bounds, history>>

Ended ==
  /\ gui = "quit"
  /\ gui' = "ended" /\ thread' = "off" /\ hand' = NoFile /\ posted' = <<>>
  /\ UNCHANGED <<infos, shared, info, index, calls, bounds, history>>

-----------------------------------------------------------------------------
Handlers == \E f \in Files :
  \/ ExtraProperties(f) \/ Refresh(f) \/ MakeToInactive(f) \/ DeleteTimer(f)
  \/ Timeout(f) \/ Destroy(f)

GoOn == Scan \/ AppendRequest \/ StartThread \/ RemoveRequest \/ Deliver

Thread == Look \/ Take \/ Fetch \/ Leave

Next == Handlers \/ GoOn \/ Thread \/ Quit \/ Ended

(* The event loop gets to what is posted to it and finishes a handler it   *)
(* began; the thread runs.  Nothing makes the views ask.                   *)
Fairness == WF_vars(GoOn) /\ WF_vars(Thread)

Spec == Init /\ [][Next]_vars /\ Fairness

-----------------------------------------------------------------------------
(* Properties.                                                             *)

(* Variables stay in their types. *)
TypeOK ==
  /\ alive \subseteq Files /\ dirtyFileInfos \subseteq Files
  /\ epInitialized \in [Files -> BOOLEAN]
  /\ timer \in [Files -> {"none", "armed", "dying"}]
  /\ slots \in [Files -> Nat]
  /\ requestEP \in [Files -> BOOLEAN]
  /\ requestEPFiles \in Seq(Files)
  /\ thread \in {"off", "look", "take", "fetch", "leave", "undefined"}
  /\ hand \in Files \cup {NoFile}
  /\ gui \in {"idle", "scan", "append", "start", "remove", "undefined",
              "quit", "ended"}
  /\ info \in Files \cup {NoFile} /\ index \in Nat /\ calls \in Nat
  /\ posted \in Seq(Events)
  /\ asked \in Nat /\ refreshed \in Nat
  /\ late \in BOOLEAN
  /\ loaded \subseteq Files /\ slipped \subseteq Files
  /\ missed \subseteq Files

(* dirtyFileInfos is there so that processEPChanged() leaves a destroyed    *)
(* info alone.  The result of a destroyed info is marked in it (or its      *)
(* request is about to be removed), except where the code lost track of     *)
(* the request: it was asked for twice at a time, its pointer was reset by  *)
(* makeToInactive() while it was under way, the thread took it between the  *)
(* halves of cancelRequestEP(), or finished() wiped the marks.              *)
DestroyedAreMarked ==
  \A f \in Files \ alive :
    UnderWay(f) => f \in dirtyFileInfos \cup slipped

(* epInitialized stops every further call from asking: so where it is set   *)
(* the properties are there or on their way, unless a call was lost to a    *)
(* timer that was going away or to a removal of the wrong entry.            *)
AskedOrLoaded ==
  \A f \in alive :
    epInitialized[f] /\ {gui, thread} \cap {"undefined", "quit", "ended"} = {}
      => \/ f \in loaded \cup missed
         \/ timer[f] = "armed" \/ UnderWay(f)
         \/ gui \in {"scan", "append"} /\ info = f

(* The thread and the queue fit: a request is not left without a thread,    *)
(* unless it met one that had seen the queue empty and not yet returned     *)
(* from run(); and the thread, which lets the lock go between isEmpty() and *)
(* dequeue(), finds the queue empty after all only if an info was destroyed *)
(* meanwhile or the program ends.                                           *)
QueueIsServed ==
  /\ requestEPFiles # <<>> /\ thread \in {"off", "leave"}
       => gui = "start" \/ late
  /\ thread = "undefined" => alive # Files \/ gui \in {"quit", "ended"}

(* An info that asked gets its properties, if it lives, its request is not  *)
(* stranded or lost, and the program goes on.                               *)
Loads == \A f \in Files :
  (gui = "append" /\ info = f)
    ~> \/ f \in loaded \/ f \notin alive \/ f \in missed
       \/ Queued(f) /\ late
       \/ thread = "undefined" \/ gui \in {"undefined", "quit"}

=============================================================================
