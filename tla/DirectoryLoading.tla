-------------------------- MODULE DirectoryLoading --------------------------
(***************************************************************************)
(* How DFileSystemModel fills a directory: the thread of a JobController   *)
(* lists it, a thread of the pool puts the first batch into the model      *)
(* (updateChildren) while the listing is paused, what comes later goes one *)
(* by one through the event loop to the manager of the nodes, and the      *)
(* interface thread starts, stops and replaces all of them.                *)
(*                                                                         *)
(* No lock protects the state of a job or the fields of the model.  A step *)
(* below is what a thread does between two accesses that another one can   *)
(* observe; in the interface thread a handler is one step up to a wait.    *)
(*                                                                         *)
(* A root stands for one visit to a directory: files are <<root, number>>. *)
(* The node manager is reduced to a set of files and whether its thread    *)
(* runs.  Not modelled: sorting, filters, events of the file watcher, and  *)
(* that an insertion of the manager may repeat a row.                      *)
(*                                                                         *)
(* As in CopyJobControl, an unused definition just before another of the   *)
(* same shape is a plausible bug that violates a property.                 *)
(***************************************************************************)
EXTENDS Naturals, Sequences, FiniteSets

CONSTANTS
  Entries,       (* the files of a directory                                 *)
  Iterators,     (* whether a job has an iterator: those without one list at *)
                 (* once                                                     *)
  MaxRequests    (* bound of the model: how often the root is replaced or    *)
                 (* listed again; see MayAsk                                 *)

ASSUME LoadingAssumption ==
  Entries \in Nat /\ Iterators \subseteq BOOLEAN /\ MaxRequests \in Nat

VARIABLES
  root, populated, rows,    (* rootNode, its populatedChildren and children  *)
  state, childrenUpdated,   (* of the model: "Idle" or "Busy"                *)
  enable, queue, manager,   (* FileNodeManagerThread: its queue, and whether *)
                            (* it is "idle", has a "timer" set, "runs", or   *)
                            (* is "ending"                                   *)
  jobController, future,    (* the last job, and the job of the last task of *)
                            (* updateChildren; or None                       *)
  jobs,                     (* the jobs and their threads                    *)
  tasks,                    (* updateChildren() of each job                  *)
  main, eventLoop, posted,  (* where the interface thread is, whether        *)
                            (* fetchMore() waits in a loop of its own, and   *)
                            (* the events it will get                        *)
  parentNode,               (* the root for which fetchMore() waits          *)
  requests,
  lost                      (* history: the races that were lost             *)

content == <<root, populated, rows>>
status  == <<state, childrenUpdated>>
nodes   == <<enable, queue, manager>>
links   == <<jobController, future>>
loop    == <<main, eventLoop, posted, parentNode>>
threads == <<jobs, tasks>>
vars    == <<content, status, nodes, links, threads, loop, requests, lost>>

Jobs  == 1 .. MaxRequests + 1
None  == 0
Roots == 0 .. MaxRequests
FilesOf(r) == {r} \X (1 .. Entries)

isFinished(j) == jobs[j].pc \in {"over", "gone", "unborn"}
Step(j, pc)   == jobs' = [jobs EXCEPT ![j].pc = pc]
Cut(j)        == [jobs EXCEPT ![j].wired = FALSE]

Unborn == [root |-> 0, iterator |-> TRUE, state |-> "Stoped", pc |-> "unborn",
           from |-> 1, done |-> 0, update |-> TRUE, back |-> "loop",
           wired |-> FALSE, dying |-> FALSE]

Done == [pc |-> "done", list |-> {}, job |-> None]

Init ==
  /\ root = 0 /\ populated = FALSE /\ rows = {}
  /\ state = "Idle" /\ childrenUpdated = FALSE
  /\ enable = FALSE /\ queue = {} /\ manager = "idle"
  /\ jobController = None /\ future = None
  /\ jobs = [j \in Jobs |-> Unborn]
  /\ tasks = [j \in Jobs |-> Done]
  /\ main = "loop" /\ eventLoop = FALSE /\ posted = <<>> /\ parentNode = 0
  /\ requests = 0 /\ lost = {}

-----------------------------------------------------------------------------
(* The thread of a job: JobController::run().                              *)

Run(j) ==
  /\ jobs[j].pc = "run"
  /\ jobs' = [jobs EXCEPT ![j] =
       IF jobs[j].iterator
       THEN [@ EXCEPT !.pc = "loop", !.update = TRUE, !.from = jobs[j].done + 1]
       ELSE [@ EXCEPT !.pc = "emit", !.back = "ending", !.from = 1, !.done = Entries]]
  /\ UNCHANGED <<content, status, nodes, links, tasks, loop, requests, lost>>

(* Behind the loop what was not reported yet is.                           *)
Leave(job) ==
  [job EXCEPT !.pc = IF job.update THEN "emit" ELSE "ending",
              !.back = "ending", !.update = FALSE]

(* The state is tested without the mutex.                                  *)
Paused(j) ==
  /\ jobs[j].pc = "loop" /\ jobs[j].done < Entries /\ jobs[j].state = "Paused"
  /\ Step(j, "toWait")
  /\ UNCHANGED <<content, status, nodes, links, tasks, loop, requests, lost>>

WaitForStart(j) ==
  /\ jobs[j].pc = "toWait"
  /\ Step(j, "asleep")
  /\ UNCHANGED <<content, status, nodes, links, tasks, loop, requests, lost>>

RunsOn(job) == job.pc = "awake" \/ (job.pc = "loop" /\ job.state # "Paused")
(* A job that was woken does not test again whether it is paused.          *)
Runs(job) ==
  job.done < Entries /\ (job.pc = "awake" \/ (job.pc = "loop" /\ job.state # "Paused"))

LeaveLoop(j) ==
  /\ \/ jobs[j].pc = "loop" /\ jobs[j].done = Entries
     \/ Runs(jobs[j]) /\ jobs[j].state = "Stoped"
  /\ jobs' = [jobs EXCEPT ![j] = Leave(jobs[j])]
  /\ UNCHANGED <<content, status, nodes, links, tasks, loop, requests, lost>>

Collect(j) ==
  LET next == [jobs[j] EXCEPT !.done = @ + 1, !.pc = "loop"]
  IN  /\ Runs(jobs[j]) /\ jobs[j].state # "Stoped" /\ jobs[j].update
      /\ \/ jobs' = [jobs EXCEPT ![j] = next]
         (* one of the ceilings is reached                                 *)
         \/ jobs' = [jobs EXCEPT ![j] =
                       [next EXCEPT !.pc = "emit", !.back = "loop", !.update = FALSE]]
      /\ UNCHANGED <<content, status, nodes, links, tasks, loop, requests, lost>>

AddChildren(j) ==
  LET next == [jobs[j] EXCEPT !.done = @ + 1, !.pc = "loop"]
  IN  /\ Runs(jobs[j]) /\ jobs[j].state # "Stoped" /\ ~jobs[j].update
      /\ jobs' = [jobs EXCEPT ![j] = next]
      /\ posted' = IF ~next.wired THEN posted
                   ELSE Append(posted, <<"addChildren", <<next.root, next.done>>>>)
      /\ UNCHANGED <<content, status, nodes, links, tasks, main, eventLoop, parentNode,
                     requests, lost>>

(* emit childrenUpdated(): updateChildrenOnNewThread() runs in this thread. *)
EmitUnpaused(j) ==
  /\ jobs[j].pc = "emit"
  /\ Step(j, IF jobs[j].wired THEN "spawn" ELSE jobs[j].back)
  /\ UNCHANGED <<content, status, nodes, links, tasks, loop, requests, lost>>
Emit(j) ==
  /\ jobs[j].pc = "emit"
  /\ Step(j, IF ~jobs[j].wired THEN jobs[j].back
             ELSE IF jobs[j].state = "Started" THEN "pausing" ELSE "spawn")
  /\ UNCHANGED <<content, status, nodes, links, tasks, loop, requests, lost>>

Pause(j) ==
  /\ jobs[j].pc = "pausing"
  /\ jobs' = [jobs EXCEPT ![j].state = "Paused", ![j].pc = "spawn"]
  /\ UNCHANGED <<content, status, nodes, links, tasks, loop, requests, lost>>

Spawn(j) ==
  /\ jobs[j].pc = "spawn"
  /\ tasks' = [tasks EXCEPT ![j] = [pc |-> "begin", job |-> None,
                 list |-> {jobs[j].root} \X (jobs[j].from .. jobs[j].done)]]
  /\ Step(j, "assign")
  /\ UNCHANGED <<content, status, nodes, links, loop, requests, lost>>

Assign(j) ==
  /\ jobs[j].pc = "assign"
  /\ future' = j
  /\ Step(j, jobs[j].back)
  /\ UNCHANGED <<content, status, nodes, jobController, tasks, loop, requests, lost>>

Ending(j) ==
  /\ jobs[j].pc = "ending"
  /\ jobs' = [jobs EXCEPT ![j].state = "Stoped", ![j].pc = "finish"]
  /\ UNCHANGED <<content, status, nodes, links, tasks, loop, requests, lost>>

(* emit finished(), to onJobFinished() and to deleteLater().               *)
Finish(j) ==
  /\ jobs[j].pc = "finish"
  /\ Step(j, "over")
  /\ posted' = posted \o (IF jobs[j].wired THEN <<<<"finished", j>>>> ELSE <<>>)
                      \o (IF jobs[j].dying THEN <<<<"delete", j>>>> ELSE <<>>)
  /\ UNCHANGED <<content, status, nodes, links, tasks, main, eventLoop, parentNode, requests,
                 lost>>

-----------------------------------------------------------------------------
(* A thread of the pool: updateChildren(), started by job j.               *)

TaskAt(j, pc, next) ==
  /\ tasks[j].pc = pc
  /\ tasks' = [tasks EXCEPT ![j] = IF next = "done" THEN Done ELSE [@ EXCEPT !.pc = next]]

(* The job is that of this moment; the root is a reference.                *)
UpdateChildren(j) ==
  /\ tasks[j].pc = "begin"
  /\ tasks' = [tasks EXCEPT ![j].pc = "fill", ![j].job = jobController]
  /\ jobs' = IF jobController # None /\ jobs[jobController].state = "Started"
             THEN [jobs EXCEPT ![jobController].state = "Paused"] ELSE jobs
  /\ UNCHANGED <<content, status, nodes, links, loop, requests, lost>>

(* Neither the root nor the listing need be those of the list.              *)
Late(j) == jobs[j].root # root \/ \E i \in Jobs : i > j /\ jobs[i].pc # "unborn"

SetChildren(j) ==
  /\ tasks[j].pc = "fill"
  /\ tasks' = [tasks EXCEPT ![j].pc = "check", ![j].list = {}]
  /\ rows' = tasks[j].list
  /\ lost' = IF Late(j) THEN lost \union {"lateList"} ELSE lost
  /\ UNCHANGED <<root, populated, status, nodes, links, jobs, loop, requests>>

CheckFinished(j) ==
  /\ TaskAt(j, "check", IF jobController = None \/ isFinished(jobController)
                        THEN "idle" ELSE "updated")
  /\ UNCHANGED <<content, status, nodes, links, jobs, loop, requests, lost>>

SetIdle(j) ==
  /\ TaskAt(j, "idle", "resume")
  /\ state' = "Idle"
  /\ UNCHANGED <<content, childrenUpdated, nodes, links, jobs, loop, requests, lost>>

(* The job may have finished since, and onJobFinished() have found nothing  *)
(* updated.                                                                 *)
Heard(k) ==
  \/ k # None /\ ~isFinished(k)
  \/ \E i \in 1 .. Len(posted) : posted[i] = <<"finished", k>>

SetUpdated(j) ==
  /\ TaskAt(j, "updated", "resume")
  /\ childrenUpdated' = TRUE
  /\ lost' = IF Heard(jobController) THEN lost ELSE lost \union {"lateUpdate"}
  /\ UNCHANGED <<content, state, nodes, links, jobs, loop, requests>>

NoResume(j) ==
  /\ TaskAt(j, "resume", "done")
  /\ UNCHANGED <<content, status, nodes, links, jobs, loop, requests, lost>>
TestPaused(j) ==
  LET k == tasks[j].job
  IN  /\ TaskAt(j, "resume", IF k # None /\ jobs[k].pc # "gone"
                                /\ jobs[k].state = "Paused" THEN "start" ELSE "done")
      /\ UNCHANGED <<content, status, nodes, links, jobs, loop, requests, lost>>

(* waitCondition.wakeAll() reaches a thread that waits already.            *)
Awake(job) == [job EXCEPT !.pc = IF @ = "asleep" THEN "awake" ELSE @]
LostWakeUp(k) == IF jobs[k].pc = "toWait" THEN {"wakeUp"} ELSE {}

(* start() again: a job that has stopped since is started from the top.    *)
(* Bound: that happens once.                                               *)
StartJob(j) ==
  LET k == tasks[j].job
      started == [jobs[k] EXCEPT !.state = "Started"]
  IN  /\ TaskAt(j, "start", "done")
      /\ CASE jobs[k].pc = "gone" ->
               /\ lost' = lost \union {"dangling"}
               /\ UNCHANGED jobs
           [] jobs[k].pc # "gone" /\ jobs[k].state = "Paused" ->
               /\ lost' = lost \union LostWakeUp(k)
               /\ jobs' = [jobs EXCEPT ![k] = Awake(started)]
           [] jobs[k].pc # "gone" /\ jobs[k].state = "Stoped" ->
               /\ lost' = lost \union {"restart"}
               /\ jobs' = [jobs EXCEPT ![k] =
                    IF isFinished(k) /\ "restart" \notin lost
                    THEN [started EXCEPT !.pc = "run"] ELSE started]
           [] OTHER -> UNCHANGED <<jobs, lost>>
      /\ UNCHANGED <<content, status, nodes, links, loop, requests>>

-----------------------------------------------------------------------------
(* FileNodeManagerThread, in short.                                        *)

(* The interface thread takes events and calls of other threads.           *)
Listening == main \in {"loop", "nested", "leave0", "leave1"}

(* The timer runs out, or the one that has a second to do so.              *)
ManagerStart ==
  /\ Listening /\ manager = "timer"
  /\ manager' = "runs"
  /\ UNCHANGED <<content, status, enable, queue, links, threads, loop, requests, lost>>
LateStart ==
  /\ Listening /\ manager = "idle" /\ queue # {}
  /\ manager' = "runs"
  /\ UNCHANGED <<content, status, enable, queue, links, threads, loop, requests, lost>>

(* Insertions run beginInsertRows() in the interface thread.               *)
Insert ==
  /\ Listening /\ manager = "runs"
  /\ \E f \in queue : queue' = queue \ {f} /\ rows' = rows \union {f}
  /\ UNCHANGED <<root, populated, status, enable, manager, links, threads, loop,
                 requests, lost>>

(* The queue was empty when it was asked the last time.                    *)
LastLook ==
  /\ manager = "runs" /\ queue = {}
  /\ manager' = "ending"
  /\ UNCHANGED <<content, status, enable, queue, links, threads, loop, requests, lost>>

ManagerEnd ==
  /\ manager = "ending"
  /\ manager' = "idle"
  /\ posted' = Append(posted, <<"managerFinished">>)
  /\ UNCHANGED <<content, status, enable, queue, links, threads, main, eventLoop,
                 parentNode, requests, lost>>

(* A thread that runs is not started again.                                *)
AddFile(f) ==
  /\ queue' = queue \union {f}
  /\ manager' = IF manager = "idle" THEN "timer" ELSE manager
  /\ lost' = IF manager = "ending" THEN lost \union {"leftOver"} ELSE lost

-----------------------------------------------------------------------------
(* The interface thread: events.                                           *)

Event(kind) == Listening /\ posted # <<>> /\ Head(posted)[1] = kind

OnJobAddChildren ==
  /\ Event("addChildren")
  /\ posted' = Tail(posted)
  /\ IF enable THEN AddFile(Head(posted)[2]) ELSE UNCHANGED <<queue, manager, lost>>
  /\ UNCHANGED <<content, status, enable, links, threads, main, eventLoop, parentNode,
                 requests>>

OnJobFinished ==
  /\ Event("finished")
  /\ posted' = Append(Tail(posted), <<"delete", Head(posted)[2]>>)
  /\ state' = IF childrenUpdated /\ manager \in {"idle", "timer"} THEN "Idle" ELSE state
  /\ UNCHANGED <<content, childrenUpdated, nodes, links, threads, main, eventLoop,
                 parentNode, requests, lost>>

OnManagerFinished ==
  /\ Event("managerFinished")
  /\ posted' = Tail(posted)
  /\ state' = IF jobController = None \/ isFinished(jobController) THEN "Idle" ELSE state
  /\ UNCHANGED <<content, childrenUpdated, nodes, links, threads, main, eventLoop,
                 parentNode, requests, lost>>

(* The job is destroyed, which quits the loop of fetchMore() with code 0    *)
(* even if setRootUrl() has just told it to exit with 1.                   *)
JobDestroyed ==
  LET j == Head(posted)[2]
  IN  /\ Event("delete")
      /\ posted' = Tail(posted)
      /\ jobs' = [jobs EXCEPT ![j] = [Unborn EXCEPT !.root = jobs[j].root, !.pc = "gone"]]
      /\ jobController' = IF jobController = j THEN None ELSE jobController
      /\ main' = IF eventLoop /\ jobs[j].dying /\ jobs[j].pc # "gone" THEN "leave0" ELSE main
      /\ UNCHANGED <<content, status, nodes, future, tasks, eventLoop, parentNode,
                     requests, lost>>

-----------------------------------------------------------------------------
(* The interface thread: fetchMore(), refresh() and setRootUrl().          *)

(* The job that fetchMore() creates for r and starts.                      *)
NewJob(js, r, pst) ==
  /\ \E j \in Jobs, iterator \in Iterators :
       /\ js[j].pc = "unborn" /\ \A i \in 1 .. j - 1 : js[i].pc # "unborn"
       /\ jobs' = [js EXCEPT ![j] = [Unborn EXCEPT !.root = r, !.iterator = iterator,
                     !.state = "Started", !.pc = "run", !.wired = TRUE]]
       /\ jobController' = j
  /\ populated' = (r = root \/ populated)
  /\ state' = "Busy" /\ childrenUpdated' = FALSE
  /\ enable' = TRUE
  /\ main' = "loop" /\ eventLoop' = FALSE /\ posted' = pst
  /\ parentNode' = 0
  /\ UNCHANGED <<root, queue, manager, future, tasks>>

(* Up to the wait for a job that is not finished.                          *)
Fetch ==
  IF jobController # None /\ ~isFinished(jobController)
  THEN /\ jobs' = Cut(jobController)
       /\ populated' = FALSE /\ parentNode' = root
       /\ main' = "stopping" /\ eventLoop' = TRUE
       /\ UNCHANGED <<root, status, nodes, links, tasks, posted, lost>>
  ELSE /\ NewJob(IF jobController = None THEN jobs ELSE Cut(jobController), root,
                 IF jobController = None THEN posted
                 ELSE Append(posted, <<"delete", jobController>>))
       /\ UNCHANGED lost

(* The view asks for more from a timer, behind the events it has: external. *)
FetchMore ==
  /\ main = "loop" /\ posted = <<>> /\ ~populated
  /\ Fetch
  /\ UNCHANGED <<rows, requests>>

(* The bound of the model on new roots and refreshes: none once a race was *)
(* lost, and behind the first only while fetchMore() waits because of it.  *)
MayAsk ==
  /\ requests < MaxRequests /\ lost = {}
  /\ requests = 0 \/ eventLoop

(* A directory that the view has asked for.  Within the loop of fetchMore() *)
(* it asks again later.                                                    *)
Refresh ==
  /\ Listening /\ state = "Idle" /\ populated
  /\ MayAsk
  /\ requests' = requests + 1
  /\ rows' = {}
  /\ IF eventLoop
     THEN /\ populated' = FALSE
          /\ UNCHANGED <<root, status, nodes, links, threads, loop, lost>>
     ELSE Fetch

DeleteLaterOnly ==
  /\ main = "stopping"
  /\ main' = "nested"
  /\ jobs' = [jobs EXCEPT ![jobController].state = "Stoped", ![jobController].dying = TRUE]
  /\ UNCHANGED <<content, status, nodes, links, tasks, eventLoop, posted, parentNode,
                 requests, lost>>
(* stopAndDeleteLater(): a job that has finished since isFinished() was    *)
(* asked is deleted only behind the loop that waits for its end.           *)
StopAndDeleteLater ==
  LET j == jobController
  IN  /\ main = "stopping"
      /\ main' = "nested"
      /\ \/ /\ isFinished(j)
            /\ lost' = lost \union {"noQuit"}
            /\ UNCHANGED jobs
         \/ /\ ~isFinished(j) /\ jobs[j].state = "Stoped"
            /\ jobs' = [jobs EXCEPT ![j].dying = TRUE]
            /\ UNCHANGED lost
         \/ /\ ~isFinished(j) /\ jobs[j].state # "Stoped"
            /\ jobs' = [jobs EXCEPT ![j] =
                 [Awake(jobs[j]) EXCEPT !.state = "Stoped", !.dying = TRUE]]
            /\ lost' = lost \union LostWakeUp(j)
      /\ UNCHANGED <<content, status, nodes, links, tasks, eventLoop, posted, parentNode,
                     requests>>

(* The job is gone: fetchMore() goes on with the directory it was asked for. *)
FetchAfterWait ==
  /\ main = "leave0"
  /\ NewJob(jobs, parentNode, posted)
  /\ lost' = IF parentNode = root THEN lost ELSE lost \union {"oldParent"}
  /\ UNCHANGED <<rows, requests>>

(* fetchMore() in whose loop the root was replaced.                        *)
Terminate ==
  LET j == jobController
  IN  /\ main = "leave1"
      /\ IF j = None
         THEN /\ lost' = lost \union {"dangling"} /\ main' = "crashed"
              /\ UNCHANGED <<jobs, posted>>
         ELSE /\ main' = "loop"
              /\ jobs' = IF isFinished(j) THEN jobs ELSE [jobs EXCEPT ![j].pc = "over"]
              /\ posted' = IF isFinished(j) /\ jobs[j].dying THEN posted
                           ELSE Append(posted, <<"delete", j>>)
              /\ UNCHANGED lost
      /\ jobController' = None /\ eventLoop' = FALSE
      /\ UNCHANGED <<content, status, nodes, future, tasks, parentNode, requests>>

SetRootUrlConnected ==
  /\ Listening
  /\ MayAsk
  /\ requests' = requests + 1
  /\ state' = "Idle"
  /\ main' = "waitFuture"
  /\ UNCHANGED <<content, childrenUpdated, nodes, links, threads, eventLoop, posted,
                 parentNode, lost>>
(* setRootUrl() up to the wait for the task of the pool.                   *)
SetRootUrl ==
  /\ Listening
  /\ MayAsk
  /\ requests' = requests + 1
  /\ state' = "Idle"
  /\ jobs' = IF jobController = None THEN jobs ELSE Cut(jobController)
  /\ main' = "waitFuture"
  /\ UNCHANGED <<content, childrenUpdated, nodes, links, tasks, eventLoop, posted,
                 parentNode, lost>>

NewRootStaysEnabled ==
  /\ main = "waitFuture"
  /\ future # None => tasks[future].pc = "done"
  /\ root' = root + 1 /\ populated' = FALSE /\ rows' = {}
  /\ queue' = {} /\ manager' = "idle"
  /\ posted' = IF manager \in {"runs", "ending"} THEN Append(posted, <<"managerFinished">>)
               ELSE posted
  /\ main' = IF eventLoop THEN "leave1" ELSE "loop"
  /\ UNCHANGED <<status, enable, links, threads, eventLoop, parentNode, requests, lost>>
(* The old children go, and the manager is stopped with what it has.       *)
NewRoot ==
  /\ main = "waitFuture"
  /\ future # None => tasks[future].pc = "done"
  /\ root' = root + 1 /\ populated' = FALSE /\ rows' = {}
  /\ enable' = FALSE /\ queue' = {} /\ manager' = "idle"
  /\ posted' = IF manager \in {"runs", "ending"} THEN Append(posted, <<"managerFinished">>)
               ELSE posted
  /\ main' = IF eventLoop THEN "leave1" ELSE "loop"
  /\ UNCHANGED <<status, links, threads, eventLoop, parentNode, requests, lost>>

-----------------------------------------------------------------------------

JobThread(j) ==
  \/ Run(j) \/ Paused(j) \/ WaitForStart(j)
  \/ LeaveLoop(j) \/ Collect(j) \/ AddChildren(j)
  \/ Emit(j) \/ Pause(j) \/ Spawn(j) \/ Assign(j) \/ Ending(j) \/ Finish(j)

Task(j) ==
  \/ UpdateChildren(j) \/ SetChildren(j)
  \/ CheckFinished(j) \/ SetIdle(j) \/ SetUpdated(j) \/ TestPaused(j) \/ StartJob(j)

Manager == Insert \/ LastLook \/ ManagerEnd

Interface ==
  \/ OnJobAddChildren \/ OnJobFinished \/ OnManagerFinished \/ JobDestroyed
  \/ ManagerStart \/ FetchMore \/ StopAndDeleteLater \/ FetchAfterWait
  \/ NewRoot \/ Terminate

(* What nobody need do.                                                    *)
Maybe == SetRootUrl \/ Refresh \/ LateStart

Next ==
  \/ \E j \in Jobs : JobThread(j) \/ Task(j)
  \/ Manager \/ Interface \/ Maybe

(* Every thread runs, and the view asks for what it does not have.         *)
Fairness ==
  /\ \A j \in Jobs : WF_vars(JobThread(j)) /\ WF_vars(Task(j))
  /\ WF_vars(Manager) /\ WF_vars(Interface)

Spec == Init /\ [][Next]_vars /\ Fairness

-----------------------------------------------------------------------------

JobRecords ==
  [root : Roots, iterator : BOOLEAN, state : {"Started", "Paused", "Stoped"},
   pc : {"unborn", "run", "loop", "toWait", "asleep", "awake", "emit", "pausing",
         "spawn", "assign", "ending", "finish", "over", "gone"},
   from : 1 .. Entries + 1, done : 0 .. Entries, update : BOOLEAN,
   back : {"loop", "ending"}, wired : BOOLEAN, dying : BOOLEAN]

(* Every variable has a value of its kind.                                 *)
TypeOK ==
  /\ root \in Roots /\ populated \in BOOLEAN
  /\ rows \subseteq Roots \X (1 .. Entries)
  /\ state \in {"Idle", "Busy"} /\ childrenUpdated \in BOOLEAN
  /\ enable \in BOOLEAN /\ manager \in {"idle", "timer", "runs", "ending"}
  /\ queue \subseteq Roots \X (1 .. Entries)
  /\ {jobController, future} \subseteq Jobs \union {None}
  /\ jobs \in [Jobs -> JobRecords]
  /\ \A j \in Jobs : tasks[j].pc \in {"begin", "fill", "check", "idle",
                                      "updated", "resume", "start", "done"}
  /\ main \in {"loop", "stopping", "nested", "leave0", "leave1", "waitFuture", "crashed"}
  /\ eventLoop \in BOOLEAN /\ parentNode \in Roots
  /\ requests \in 0 .. MaxRequests
  /\ lost \subseteq {"lateList", "lateUpdate", "wakeUp", "restart", "noQuit", "dangling",
                      "oldParent", "leftOver"}

(* A directory shows its own files only, though signals of the last one    *)
(* are still on their way when the root is replaced.  The exception is a   *)
(* list that comes late: its thread had not handed it over yet when        *)
(* setRootUrl() looked, or fetchMore() went on with its old directory.     *)
OwnFiles == rows \subseteq FilesOf(root) \/ "lateList" \in lost

(* There is one listing at a time and it is of the root: behind            *)
(* setRootUrl() the model is connected to no listing of another directory, *)
(* unless fetchMore() went on with its old one; and the thread of the last *)
(* listing has ended before the next one starts.                           *)
OneListing ==
  /\ \A j \in Jobs : jobs[j].wired => jobs[j].root = root \/ "oldParent" \in lost
  /\ Cardinality({j \in Jobs : ~isFinished(j)}) <= 1 \/ "restart" \in lost

(* Nothing is under way for the root that is shown.                        *)
AtRest ==
  /\ populated /\ main = "loop" /\ posted = <<>> /\ manager = "idle"
  /\ \A j \in Jobs : isFinished(j) /\ tasks[j].pc = "done"

(* A directory that was listed shows all its files: none falls between the *)
(* batch, the thread that puts it in and the signals for the rest.         *)
ListedIsComplete ==
  AtRest => FilesOf(root) \subseteq rows
            \/ lost \intersect {"lateList", "restart", "leftOver"} # {}

(* fetchMore() does not wait for ever for the end of the last listing,     *)
(* unless that thread missed its waking or ended just before it was        *)
(* stopped.                                                                *)
FetchUnblocks == eventLoop ~> ~eventLoop \/ lost \intersect {"wakeUp", "noQuit"} # {}

(* A directory that is shown gets listed to the end, unless one of these   *)
(* happened, or the task of the pool was late to say that it has updated.  *)
GetsListed ==
  ~populated ~> \/ populated /\ state = "Idle"
               \/ lost \intersect {"wakeUp", "noQuit", "lateUpdate", "dangling"} # {}

(* A file that is queued for the model is put into it in the end: a        *)
(* comment of the manager says within a second.                            *)
FilesGetHandled == queue # {} ~> queue = {} \/ lost \ {"leftOver"} # {}

=============================================================================
