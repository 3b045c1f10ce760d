------------------------------- MODULE FileIcon -----------------------------
(***************************************************************************)
(* The icon of a DFileInfo and the thumbnail provider it asks: fileIcon()  *)
(* looks for a stored thumbnail and else arms a timer, the timer appends a *)
(* request to ThumbnailProvider's queue, the provider's thread stores the  *)
(* thumbnail, has the file announced as updated, which refreshes its info  *)
(* and has it painted again, and calls back; makeToInactive() stops the    *)
(* timer or discards the request.                                          *)
(*                                                                         *)
(* The callback runs in the provider's thread and writes the same fields   *)
(* that fileIcon() is working on in the GUI thread: fileIcon() is cut      *)
(* where it looks at the disk.  Of a thumbnail only the time of the file   *)
(* it is stamped with is kept; an icon is empty, the theme's, a thumbnail, *)
(* or a thumbnail added to the theme's.  Symbolic links, which show the    *)
(* icon of their target, are left out.                                     *)
(***************************************************************************)
EXTENDS Integers, Sequences

CONSTANTS Infos,
          Keys,         (* the files                                        *)
          FileOf,       (* the file of an info                              *)
          MaxChanges,   (* bound of the model: how often a file is changed  *)
          MaxQueue      (* bound of the model: requests that wait           *)

ASSUME FileIconAssumption ==
  /\ FileOf \in [Infos -> Keys]
  /\ "none" \notin Infos \cup Keys
  /\ MaxChanges \in Nat /\ MaxQueue \in Nat

VARIABLES
  produceQueue, discardedProduceInfos, running, thread, task, path, gui, key,
  overtaken, unheard,   (* ThumbnailProvider's                              *)
  lastModified,    (* of a file                                             *)
  stored,          (* the time its stored thumbnail is stamped with         *)
  active, lastKnown, icon, iconFromTheme, needThumbnail, hasThumbnail,
  requestingThumbnail, getIconTimer,  (* of an info; lastKnown is the       *)
                   (* time of the file that its QFileInfo has               *)
  painted,         (* the info whose fileIcon() runs                        *)
  place,           (* where                                                 *)
  posted,          (* infos with an update among the events of the GUI      *)
                   (* thread                                                *)
  behind,          (* those where it is behind the deletion of their timer  *)
  dirty,           (* infos that the view was told to paint                 *)
  raced,           (* history: infos whose callback came during fileIcon()  *)
  swallowed        (* history: infos on the screen whose last request was   *)
                   (* thrown away                                           *)

Times    == 0..MaxChanges
Requests == Infos \X Times
KeyOf    == [r \in Requests |-> FileOf[r[1]]]
NoThumb  == -1
NoInfo   == "none"

Provider == INSTANCE ThumbnailProvider

provider == <<produceQueue, discardedProduceInfos, running, thread, task, path,
              gui, key, overtaken, unheard>>
disk     == <<lastModified, stored>>
look     == <<icon, iconFromTheme, needThumbnail, hasThumbnail>>
asking   == <<requestingThumbnail, getIconTimer>>
seen     == <<active, lastKnown>>
paint    == <<painted, place>>
screen   == <<posted, behind, dirty>>
history  == <<raced, swallowed>>
vars     == <<provider, disk, look, asking, seen, paint, screen, history>>

Idle == gui = "idle" /\ place = "out"

Init ==
  /\ Provider!Init
  /\ lastModified = [k \in Keys |-> 0]
  /\ stored = [k \in Keys |-> NoThumb]
  /\ active = [i \in Infos |-> FALSE]
  /\ lastKnown = [i \in Infos |-> 0]
  /\ icon = [i \in Infos |-> "empty"]
  /\ iconFromTheme = [i \in Infos |-> FALSE]
  /\ needThumbnail = [i \in Infos |-> FALSE]
  /\ hasThumbnail = [i \in Infos |-> "unknown"]
  /\ requestingThumbnail = [i \in Infos |-> FALSE]
  /\ getIconTimer = [i \in Infos |-> "none"]
  /\ painted = NoInfo /\ place = "out"
  /\ posted = {} /\ behind = {} /\ dirty = {}
  /\ raced = {} /\ swallowed = {}

-----------------------------------------------------------------------------
(* fileIcon().                                                             *)

(* An icon that is there and final is returned as it is; one of the theme  *)
(* may have no name and is not final then.                                 *)
Paint(i) ==
  /\ Idle
  /\ icon[i] = "empty" \/ needThumbnail[i] \/ iconFromTheme[i]
  /\ hasThumbnail' \in
       IF hasThumbnail[i] = "unknown"
         THEN {[hasThumbnail EXCEPT ![i] = h] : h \in {"yes", "no"}}
         ELSE {hasThumbnail}
  /\ \/ /\ needThumbnail[i] \/ hasThumbnail'[i] = "yes"
        /\ needThumbnail' = [needThumbnail EXCEPT ![i] = TRUE]
        /\ iconFromTheme' = [iconFromTheme EXCEPT ![i] = FALSE]
        /\ painted' = i /\ place' = "stored"
        /\ UNCHANGED icon
     \/ /\ ~needThumbnail[i] /\ hasThumbnail'[i] = "no"
        /\ icon' = [icon EXCEPT ![i] = "theme"]
        /\ iconFromTheme' = [iconFromTheme EXCEPT ![i] = TRUE]
        /\ UNCHANGED <<needThumbnail, paint>>
  /\ dirty' = dirty \ {i}
  /\ UNCHANGED <<provider, disk, asking, seen, posted, behind, history>>

(* thumbnailFilePath(): a thumbnail with another time than the info knows  *)
(* is removed.                                                             *)
LookForStored ==
  /\ place = "stored"
  /\ LET k == FileOf[painted] IN
       \/ /\ stored[k] = lastKnown[painted]
          /\ icon' = [icon EXCEPT ![painted] =
                        IF @ = "empty" THEN "thumbnail" ELSE "mixed"]
          /\ iconFromTheme' = [iconFromTheme EXCEPT ![painted] = FALSE]
          /\ needThumbnail' = [needThumbnail EXCEPT ![painted] = FALSE]
          /\ painted' = NoInfo /\ place' = "out"
          /\ UNCHANGED stored
       \/ /\ stored[k] # lastKnown[painted]
          /\ stored' = [stored EXCEPT ![k] = NoThumb]
          /\ place' = "ask"
          /\ UNCHANGED <<icon, iconFromTheme, needThumbnail, painted>>
  /\ UNCHANGED <<provider, lastModified, hasThumbnail, asking, seen, screen,
                 history>>

(* start() on a timer that is to be deleted is lost with it.               *)
AskLater ==
  /\ place = "ask"
  /\ getIconTimer' = [getIconTimer EXCEPT ![painted] =
                        IF @ = "none" /\ active[painted] THEN "armed" ELSE @]
  /\ icon' = [icon EXCEPT ![painted] = IF @ = "empty" THEN "theme" ELSE @]
  /\ swallowed' = IF getIconTimer' = getIconTimer THEN swallowed
                                                  ELSE swallowed \ {painted}
  /\ painted' = NoInfo /\ place' = "out"
  /\ UNCHANGED <<provider, disk, iconFromTheme, needThumbnail, hasThumbnail,
                 requestingThumbnail, seen, screen, raced>>

-----------------------------------------------------------------------------
(* The other handlers of the GUI thread.                                   *)

Timeout(i) ==
  /\ Idle /\ getIconTimer[i] = "armed"
  /\ Provider!AppendToProduceQueue(<<i, lastKnown[i]>>)
  /\ requestingThumbnail' = [requestingThumbnail EXCEPT ![i] = TRUE]
  /\ getIconTimer' = [getIconTimer EXCEPT ![i] = "dying"]
  /\ UNCHANGED <<disk, look, seen, paint, screen, history>>

DeleteTimer(i) ==
  /\ Idle /\ getIconTimer[i] = "dying"
  /\ getIconTimer' = [getIconTimer EXCEPT ![i] = "none"]
  /\ posted' = posted \cup (behind \cap {i}) /\ behind' = behind \ {i}
  /\ UNCHANGED <<provider, disk, look, requestingThumbnail, seen, paint, dirty,
                 history>>

MakeToActive(i) ==
  /\ Idle
  /\ active' = [active EXCEPT ![i] = TRUE]
  /\ lastKnown' = [lastKnown EXCEPT ![i] = lastModified[FileOf[i]]]
  /\ UNCHANGED <<provider, disk, look, asking, paint, screen, history>>

(* What is no longer on the screen is not painted.                         *)
MakeToInactive(i) ==
  /\ Idle /\ active[i]
  /\ active' = [active EXCEPT ![i] = FALSE]
  /\ \/ /\ getIconTimer[i] # "none"
        /\ getIconTimer' = [getIconTimer EXCEPT ![i] = "dying"]
        /\ UNCHANGED <<provider, requestingThumbnail>>
     \/ /\ getIconTimer[i] = "none" /\ requestingThumbnail[i]
        /\ requestingThumbnail' = [requestingThumbnail EXCEPT ![i] = FALSE]
        /\ Provider!RemoveInProduceQueue(<<i, lastKnown[i]>>)
        /\ UNCHANGED getIconTimer
     \/ /\ getIconTimer[i] = "none" /\ ~requestingThumbnail[i]
        /\ UNCHANGED <<provider, asking>>
  /\ dirty' = dirty \ {i}
  /\ UNCHANGED <<disk, look, lastKnown, paint, posted, behind, history>>

Forget(i) ==
  /\ lastKnown' = [lastKnown EXCEPT ![i] = lastModified[FileOf[i]]]
  /\ icon' = [icon EXCEPT ![i] = "empty"]
  /\ hasThumbnail' = [hasThumbnail EXCEPT ![i] = "unknown"]
  /\ raced' = raced \ {i}
  /\ UNCHANGED <<provider, disk, iconFromTheme, needThumbnail, asking, active,
                 paint, swallowed>>

Refresh(i) == Idle /\ Forget(i) /\ UNCHANGED screen

(* The model refreshes the info of a file that was announced as updated,   *)
(* and has the view paint it.                                              *)
FileUpdated(i) ==
  /\ Idle /\ i \in posted
  /\ posted' = posted \ {i}
  /\ dirty' = IF active[i] THEN dirty \cup {i} ELSE dirty
  /\ Forget(i)
  /\ UNCHANGED behind

Change(k) ==
  /\ lastModified[k] < MaxChanges
  /\ lastModified' = [lastModified EXCEPT ![k] = @ + 1]
  /\ UNCHANGED <<provider, stored, look, asking, seen, paint, screen, history>>

GUIGoesOn ==
  /\ Provider!GoOn
  /\ UNCHANGED <<disk, look, asking, seen, paint, screen, history>>

(* The provider goes with the program, when the views and models are gone  *)
(* and no event is handled any more.                                       *)
Exit ==
  /\ place = "out"
  /\ Provider!StopThread
  /\ posted' = {} /\ behind' = {} /\ dirty' = {}
  /\ UNCHANGED <<disk, look, asking, seen, paint, history>>

-----------------------------------------------------------------------------
(* The provider's thread.                                                  *)

(* An info on the screen is left without an answer when its last request   *)
(* is thrown away, and no timer is there for another.                      *)
LastRequest(i) ==
  /\ active[i] /\ getIconTimer[i] # "armed"
  /\ \A n \in DOMAIN produceQueue : produceQueue[n][1] = i => n = 1

TakeRequest ==
  /\ Provider!Dequeue
  /\ swallowed' = IF thread' = "top" /\ LastRequest(Head(produceQueue)[1])
                    THEN swallowed \cup {Head(produceQueue)[1]}
                    ELSE swallowed

RunQueue ==
  /\ \/ Provider!LookAtQueue /\ UNCHANGED swallowed
     \/ Provider!Wait /\ UNCHANGED swallowed
     \/ Provider!TakeLock /\ UNCHANGED swallowed
     \/ TakeRequest
  /\ UNCHANGED <<disk, look, asking, seen, paint, screen, raced>>

CreateUnannounced ==
  /\ Provider!CreateThumbnail
  /\ \/ path' /\ stored' = [stored EXCEPT ![KeyOf[task]] = task[2]]
     \/ ~path' /\ UNCHANGED stored
  /\ UNCHANGED <<lastModified, look, asking, seen, paint, screen, history>>

(* The infos of the models that hear of a new thumbnail.                   *)
Announced(r) == {i \in Infos : running /\ FileOf[i] = KeyOf[r]}

(* A file without thumbnail, or of which none can be made, gives no path.  *)
(* Of a thumbnail the signal goes out at once, in this thread, and reaches *)
(* the models behind what is posted to the GUI thread already.             *)
CreateThumbnail ==
  /\ Provider!CreateThumbnail
  /\ \/ /\ path'
        /\ stored' = [stored EXCEPT ![KeyOf[task]] = task[2]]
        /\ behind' = behind \cup {i \in Announced(task) : getIconTimer[i] = "dying"}
        /\ posted' = posted \cup {i \in Announced(task) : getIconTimer[i] # "dying"}
     \/ ~path' /\ UNCHANGED <<stored, posted, behind>>
  /\ UNCHANGED <<lastModified, look, asking, seen, paint, dirty, history>>

CallBackKeepsIcon ==
  /\ Provider!CallBack
  /\ LET i == task[1] IN
       /\ iconFromTheme' = [iconFromTheme EXCEPT ![i] = ~path]
       /\ needThumbnail' = [needThumbnail EXCEPT ![i] = FALSE]
       /\ raced' = IF painted = i THEN raced \cup {i} ELSE raced
  /\ UNCHANGED <<disk, icon, hasThumbnail, asking, seen, paint, screen,
                 swallowed>>

CallBack ==
  /\ Provider!CallBack
  /\ LET i == task[1] IN
       /\ IF path
            THEN /\ icon' = [icon EXCEPT ![i] = "empty"]
                 /\ UNCHANGED iconFromTheme
            ELSE /\ iconFromTheme' = [iconFromTheme EXCEPT ![i] = TRUE]
                 /\ UNCHANGED icon
       /\ needThumbnail' = [needThumbnail EXCEPT ![i] = FALSE]
       /\ raced' = IF painted = i THEN raced \cup {i} ELSE raced
  /\ UNCHANGED <<disk, hasThumbnail, asking, seen, paint, screen, swallowed>>

-----------------------------------------------------------------------------
Handlers == \E i \in Infos :
  \/ Paint(i) \/ Timeout(i) \/ DeleteTimer(i) \/ MakeToActive(i)
  \/ MakeToInactive(i) \/ Refresh(i) \/ FileUpdated(i)

PaintGoesOn == LookForStored \/ AskLater

Run == RunQueue \/ CreateThumbnail \/ CallBack

Next == \/ Handlers \/ PaintGoesOn \/ GUIGoesOn \/ Exit \/ Run
        \/ \E k \in Keys : Change(k)

PaintDirty(i) == active[i] /\ i \in dirty /\ Paint(i)

Event(i) == PaintDirty(i) \/ FileUpdated(i) \/ Timeout(i) \/ DeleteTimer(i)

(* Both threads run on, and the events of the GUI thread are handled:      *)
(* timers fire and are deleted, queued signals are delivered, and a view   *)
(* paints what it was told to paint.  It need not paint anything else:     *)
(* nobody has to move the mouse.                                           *)
Fairness ==
  /\ WF_vars(PaintGoesOn) /\ WF_vars(GUIGoesOn) /\ WF_vars(Run)
  /\ \A i \in Infos : SF_vars(Event(i))

Spec == Init /\ [][Next]_vars /\ Fairness

-----------------------------------------------------------------------------
(* Properties.                                                             *)

(* Variables stay in their types.                                          *)
TypeOK ==
  /\ Provider!TypeOK
  /\ lastModified \in [Keys -> Times]
  /\ stored \in [Keys -> Times \cup {NoThumb}]
  /\ active \in [Infos -> BOOLEAN] /\ lastKnown \in [Infos -> Times]
  /\ icon \in [Infos -> {"empty", "theme", "thumbnail", "mixed"}]
  /\ iconFromTheme \in [Infos -> BOOLEAN]
  /\ needThumbnail \in [Infos -> BOOLEAN]
  /\ hasThumbnail \in [Infos -> {"unknown", "yes", "no"}]
  /\ requestingThumbnail \in [Infos -> BOOLEAN]
  /\ getIconTimer \in [Infos -> {"none", "armed", "dying"}]
  /\ painted \in Infos \cup {NoInfo} /\ place \in {"out", "stored", "ask"}
  /\ posted \subseteq Infos /\ behind \subseteq Infos /\ dirty \subseteq Infos
  /\ raced \subseteq Infos /\ swallowed \subseteq Infos

(* What ThumbnailProvider says of its waits and its end.                    *)
WakesMatchQueue == Provider!WakesMatchQueue

(* An info rests with the theme's icon, and asks no more, only after it was *)
(* told that there is no thumbnail, or if a callback met its fileIcon().    *)
GivesUpOnAnswer ==
  \A i \in Infos :
    icon[i] = "theme" /\ ~needThumbnail[i]
      => iconFromTheme[i] \/ i \in raced \/ painted = i

Shown(i) == icon[i] \in {"thumbnail", "mixed"}

(* An info that has set out to ask, and stays on the screen, gets its       *)
(* thumbnail or is told that there is none, though nothing is painted but   *)
(* what the provider announces.  A request that a discard of an earlier one *)
(* throws away stays without an answer, until something has the info asked  *)
(* for its icon again.                                                      *)
ThumbnailShown == \A i \in Infos :
  getIconTimer[i] = "armed"
    ~> \/ Shown(i) \/ iconFromTheme[i] \/ i \in raced \/ i \in swallowed
       \/ ~active[i] \/ ~running \/ thread = "undefined"

=============================================================================
