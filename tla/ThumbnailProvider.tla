-------------------------- MODULE ThumbnailProvider -------------------------
(***************************************************************************)
(* DThumbnailProvider: a queue of requests, the thread that makes the      *)
(* thumbnails one after the other, and the GUI thread that appends,        *)
(* discards and at the end destroys.  FileIcon says when it does.          *)
(*                                                                         *)
(* An action is what happens between two places where the other thread can *)
(* come in.  dataReadWriteLock is held by the thread at "asleep" (from the *)
(* look at the queue until the wait lets go of it) and at "check", and by  *)
(* the GUI thread within one action.  A request stands for its QFileInfo   *)
(* and callback; a discard is known by the file (and the size, which is    *)
(* Large everywhere).  What createThumbnail() does to make an image is     *)
(* left out: it gives a path or not.                                       *)
(***************************************************************************)
EXTENDS Naturals, Sequences

CONSTANTS Requests,
          Keys,        (* the files                                         *)
          KeyOf,       (* the file of a request: [Requests -> Keys]         *)
          MaxQueue     (* bound of the model: requests that wait            *)

VARIABLES
  produceQueue,
  discardedProduceInfos,
  running,
  thread,          (* where run() is                                        *)
  task,            (* the request that is made                              *)
  path,            (* whether createThumbnail() gave it a path              *)
  gui,             (* what the GUI thread is about to do                    *)
  key,             (* the file it is about to discard                       *)
  overtaken,       (* history: the thread went to wait between the append   *)
                   (* of a request and its wakeAll()                        *)
  unheard          (* history: the thread was not waiting and had no        *)
                   (* request left when ~DThumbnailProvider() woke it       *)

shared  == <<produceQueue, discardedProduceInfos, running>>
worker  == <<thread, task, path>>
caller  == <<gui, key>>
history == <<overtaken, unheard>>
vars    == <<shared, worker, caller, history>>

NoRequest == <<>>
NoKey     == "none"

LockHeld == thread \in {"asleep", "check"}
Started  == thread # "off"

Init ==
  /\ produceQueue = <<>> /\ discardedProduceInfos = {} /\ running = TRUE
  /\ thread = "off" /\ task = NoRequest /\ path = FALSE
  /\ gui = "idle" /\ key = NoKey
  /\ overtaken = FALSE /\ unheard = FALSE

-----------------------------------------------------------------------------
(* The GUI thread.                                                         *)

AppendToProduceQueue(r) ==
  /\ gui = "idle" /\ Len(produceQueue) < MaxQueue
  /\ produceQueue' = Append(produceQueue, r)
  /\ \/ /\ Started /\ ~LockHeld
        /\ gui' = "wake"
        /\ UNCHANGED thread
     \/ /\ ~Started
        /\ thread' = "top"
        /\ UNCHANGED gui
  /\ UNCHANGED <<discardedProduceInfos, running, task, path, key, history>>

WakeAll == thread' = IF thread = "waiting" THEN "woken" ELSE thread

(* The lock is let go before the wakeAll().                                *)
WakeNobody ==
  /\ gui = "wake"
  /\ gui' = "idle"
  /\ UNCHANGED <<shared, worker, key, history>>

WakeThread ==
  /\ gui = "wake"
  /\ WakeAll
  /\ gui' = "idle"
  /\ UNCHANGED <<shared, task, path, key, history>>

DiscardUnnamed(r) ==
  /\ gui = "idle" /\ ~LockHeld
  /\ gui' = "insert"
  /\ UNCHANGED <<shared, worker, key, history>>

(* The locker of removeInProduceQueue() lives in the block of the if only. *)
RemoveInProduceQueue(r) ==
  /\ gui = "idle" /\ ~LockHeld
  /\ gui' = "insert" /\ key' = KeyOf[r]
  /\ UNCHANGED <<shared, worker, history>>

(* The thread looks at the same set under its lock: an insertion that      *)
(* meets it there may get lost.                                            *)
InsertDiscarded ==
  /\ gui = "insert"
  /\ \/ discardedProduceInfos' = discardedProduceInfos \cup {key}
     \/ thread = "check" /\ UNCHANGED discardedProduceInfos
  /\ gui' = "idle" /\ key' = NoKey
  /\ UNCHANGED <<produceQueue, running, worker, history>>

(* ~DThumbnailProvider(), at the end of the program: none of it is locked. *)
StopThread ==
  /\ gui = "idle"
  /\ running' = FALSE
  /\ gui' = "stop"
  /\ UNCHANGED <<produceQueue, discardedProduceInfos, worker, key, history>>

WakeToStop ==
  /\ gui = "stop"
  /\ WakeAll
  /\ gui' = "join"
  /\ unheard' = (Started /\ produceQueue = <<>>
                   /\ thread \notin {"waiting", "woken", "check", "ended"})
  /\ UNCHANGED <<shared, task, path, key, overtaken>>

Joined ==
  /\ gui = "join" /\ thread \in {"off", "ended"}
  /\ gui' = "gone"
  /\ UNCHANGED <<shared, worker, key, history>>

-----------------------------------------------------------------------------
(* DThumbnailProvider::run().                                              *)

LookAtQueue ==
  /\ thread = "top"
  /\ thread' = IF produceQueue = <<>> THEN "asleep" ELSE "check"
  /\ UNCHANGED <<shared, task, path, caller, history>>

Wait ==
  /\ thread = "asleep"
  /\ thread' = "waiting"
  /\ overtaken' = (overtaken \/ gui = "wake")
  /\ UNCHANGED <<shared, task, path, caller, unheard>>

TakeLock ==
  /\ thread = "woken"
  /\ thread' = "check"
  /\ UNCHANGED <<shared, task, path, caller, history>>

(* The flag is looked at after the wait and not before it; the queue is    *)
(* not looked at after it, and dequeue() of an empty one is undefined.     *)
Dequeue ==
  /\ thread = "check"
  /\ \/ /\ ~running
        /\ thread' = "ended"
        /\ UNCHANGED <<produceQueue, discardedProduceInfos, task>>
     \/ /\ running /\ produceQueue = <<>>
        /\ thread' = "undefined"
        /\ UNCHANGED <<produceQueue, discardedProduceInfos, task>>
     \/ /\ running /\ produceQueue # <<>>
        /\ LET r == Head(produceQueue) IN
             /\ produceQueue' = Tail(produceQueue)
             /\ discardedProduceInfos' = discardedProduceInfos \ {KeyOf[r]}
             /\ IF KeyOf[r] \in discardedProduceInfos
                  THEN thread' = "top" /\ UNCHANGED task
                  ELSE thread' = "make" /\ task' = r
  /\ UNCHANGED <<running, path, caller, history>>

CreateThumbnail ==
  /\ thread = "make"
  /\ thread' = "call"
  /\ path' \in BOOLEAN
  /\ UNCHANGED <<shared, task, caller, history>>

CallBack ==
  /\ thread = "call"
  /\ thread' = "top"
  /\ task' = NoRequest /\ path' = FALSE
  /\ UNCHANGED <<shared, caller, history>>

-----------------------------------------------------------------------------
Calls == \E r \in Requests : AppendToProduceQueue(r) \/ RemoveInProduceQueue(r)

GoOn == WakeThread \/ InsertDiscarded \/ WakeToStop \/ Joined

Run == LookAtQueue \/ Wait \/ TakeLock \/ Dequeue \/ CreateThumbnail \/ CallBack

Next == Calls \/ StopThread \/ GoOn \/ Run

Fairness == WF_vars(GoOn) /\ WF_vars(Run)

SafetySpec == Init /\ [][Next]_vars

Spec == SafetySpec /\ Fairness

-----------------------------------------------------------------------------
(* Properties.                                                             *)

(* Variables stay in their types.                                          *)
TypeOK ==
  /\ produceQueue \in Seq(Requests) /\ Len(produceQueue) <= MaxQueue
  /\ discardedProduceInfos \subseteq Keys
  /\ running \in BOOLEAN
  /\ thread \in {"off", "top", "asleep", "waiting", "woken", "check", "make",
                 "call", "ended", "undefined"}
  /\ task \in Requests \cup {NoRequest} /\ path \in BOOLEAN
  /\ gui \in {"idle", "wake", "insert", "stop", "join", "gone"}
  /\ key \in Keys \cup {NoKey}
  /\ overtaken \in BOOLEAN /\ unheard \in BOOLEAN

(* The thread does not wait on a queue with requests unless the one who     *)
(* appended the last of them is about to wake it; it is not woken to an     *)
(* empty queue, which dequeue() does not allow, unless it had taken the     *)
(* request and gone to wait before the append that put it there woke it;    *)
(* and the end of the program waits for ever only if the thread was busy    *)
(* with its last request, or between its look at the queue and its wait,    *)
(* when the destructor woke it.                                             *)
WakesMatchQueue ==
  /\ thread \in {"asleep", "waiting"} /\ produceQueue # <<>> => gui = "wake"
  /\ thread = "undefined" => overtaken
  /\ gui = "join" /\ thread \in {"asleep", "waiting"} => unheard

=============================================================================
