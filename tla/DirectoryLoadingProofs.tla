----------------------- MODULE DirectoryLoadingProofs -----------------------
(***************************************************************************)
(* Proofs about DirectoryLoading: first the types of all variables, and    *)
(* that there is one listing at a time, of the root; then what the model   *)
(* shows: its own files only, and all of them once it was listed.          *)
(***************************************************************************)
EXTENDS DirectoryLoading, SequenceTheorems, FiniteSetTheorems, TLAPS

-----------------------------------------------------------------------------
(* The types of the tasks and the events, and where the interface thread   *)
(* is.                                                                     *)

Files == Roots \X (1 .. Entries)

Events ==
  ({"addChildren"} \X Files) \union ({"finished", "delete"} \X Jobs)
  \union {<<"managerFinished">>}

TaskRecords ==
  [pc : {"begin", "fill", "check", "idle", "updated", "resume", "start", "done"},
   list : SUBSET Files, job : Jobs \union {None}]

(* The tasks and the events are of their kinds, the roots are counted by   *)
(* the requests, and whoever is about to start or stop a job has one.      *)
HandsOK ==
  /\ tasks \in [Jobs -> TaskRecords]
  /\ posted \in Seq(Events)
  /\ root + (IF main = "waitFuture" THEN 1 ELSE 0) <= requests
  /\ parentNode <= root
  /\ \A j \in Jobs : tasks[j].pc = "start" => tasks[j].job # None
  /\ main = "stopping" => jobController # None

TypeInv == TypeOK /\ HandsOK

(* What an event carries.                                                  *)
LEMMA EventKinds ==
  ASSUME NEW e \in Events
  PROVE  /\ e[1] = "addChildren" => e[2] \in Files
         /\ e[1] \in {"finished", "delete"} => e[2] \in Jobs
  BY DEF Events

(* Taking an event from the queue, and adding one.                         *)
LEMMA EventTaken ==
  ASSUME NEW q \in Seq(Events), q # <<>>
  PROVE  /\ Head(q) \in Events /\ Tail(q) \in Seq(Events)
         /\ Len(Tail(q)) = Len(q) - 1 /\ Head(q) = q[1] /\ Len(q) \in Nat \ {0}
         /\ \A i \in 1 .. Len(Tail(q)) : Tail(q)[i] = q[i + 1]
  BY HeadTailProperties

(* An event behind the others: the rest of the queue stays as it is.       *)
LEMMA EventAdded ==
  ASSUME NEW q \in Seq(Events), NEW e \in Events
  PROVE  /\ Append(q, e) \in Seq(Events) /\ Len(Append(q, e)) = Len(q) + 1
         /\ Len(q) \in Nat
         /\ \A i \in 1 .. Len(q) : Append(q, e)[i] = q[i]
         /\ Append(q, e)[Len(q) + 1] = e
  BY AppendProperties

(* The events that the program sends are of their kinds.                   *)
LEMMA EventsTyped ==
  /\ \A f \in Files : <<"addChildren", f>> \in Events
  /\ \A j \in Jobs : <<"finished", j>> \in Events /\ <<"delete", j>> \in Events
  /\ <<"managerFinished">> \in Events
  BY DEF Events

(* A job that is not born and a task that is done are of their types.      *)
LEMMA UnbornTyped == Unborn \in JobRecords /\ Done \in TaskRecords
  BY LoadingAssumption DEF Unborn, JobRecords, Roots, Done, TaskRecords, None

(* In the beginning everything is of its type.                             *)
LEMMA TypeInit == Init => TypeInv
<1> SUFFICES ASSUME Init PROVE TypeInv
  OBVIOUS
<1>1. 0 \in Roots /\ 0 \in 0 .. MaxRequests
  BY LoadingAssumption DEF Roots
<1>2. jobs \in [Jobs -> JobRecords] /\ tasks \in [Jobs -> TaskRecords]
  BY UnbornTyped DEF Init
<1>3. \A j \in Jobs : tasks[j].pc = "done"
  BY DEF Init, Done
<1>4. TypeOK
  BY <1>1, <1>2, <1>3 DEF Init, TypeOK
<1>5. posted \in Seq(Events)
  BY DEF Init
<1>6. HandsOK
  BY <1>2, <1>3, <1>5 DEF Init, HandsOK
<1> QED
  BY <1>4, <1>6 DEF TypeInv

(* The threads of the jobs.  Each changes its own record only, but not     *)
(* whose job it is, whom it is connected to, and what becomes of it.       *)
Own(j) ==
  /\ \A i \in Jobs \ {j} : jobs'[i] = jobs[i]
  /\ jobs'[j].root = jobs[j].root /\ jobs'[j].iterator = jobs[j].iterator
  /\ jobs'[j].wired = jobs[j].wired /\ jobs'[j].dying = jobs[j].dying
  /\ jobs[j].pc \notin {"unborn", "over", "gone"}
  /\ jobs'[j].pc \notin {"unborn", "gone"}

(* A step of the thread of job j that sets the record of the job to r.     *)
LEMMA JobSet ==
  ASSUME TypeInv, NEW j \in Jobs, NEW r \in JobRecords,
         jobs' = [jobs EXCEPT ![j] = r],
         jobs[j].pc \notin {"unborn", "over", "gone"}, r.pc \notin {"unborn", "gone"},
         r.root = jobs[j].root, r.iterator = jobs[j].iterator,
         r.wired = jobs[j].wired, r.dying = jobs[j].dying
  PROVE  jobs' \in [Jobs -> JobRecords] /\ jobs'[j] = r /\ Own(j)
  BY DEF TypeInv, TypeOK, Own

(* The thread of a job changes the record of its own job only, and keeps   *)
(* it of its type.                                                         *)
LEMMA ThreadTyped ==
  ASSUME TypeInv, NEW j \in Jobs, JobThread(j)
  PROVE  jobs' \in [Jobs -> JobRecords] /\ Own(j)
<1> DEFINE J == jobs[j]
<1>a. J \in JobRecords /\ jobs \in [Jobs -> JobRecords]
  BY DEF TypeInv, TypeOK
<1>c. /\ J.done \in 0 .. Entries /\ J.done + 1 \in 1 .. Entries + 1
      /\ 1 \in 1 .. Entries + 1 /\ Entries \in 0 .. Entries
      /\ J.done < Entries => J.done + 1 \in 0 .. Entries
  BY <1>a, LoadingAssumption DEF JobRecords
<1>b. ASSUME NEW pc \in {"run", "loop", "toWait", "asleep", "awake", "emit", "pausing",
                        "spawn", "assign", "ending", "finish", "over"},
             Step(j, pc), J.pc \notin {"unborn", "over", "gone"}
      PROVE  jobs' \in [Jobs -> JobRecords] /\ Own(j)
  <2>1. [J EXCEPT !.pc = pc] \in JobRecords /\ jobs' = [jobs EXCEPT ![j] = [J EXCEPT !.pc = pc]]
    BY <1>a, <1>b DEF Step, JobRecords
  <2> QED
    BY <1>a, <1>b, <2>1, JobSet DEF JobRecords
<1>1. CASE Run(j)
  <2> DEFINE r == [J EXCEPT !.pc = "loop", !.update = TRUE, !.from = J.done + 1]
             q == [J EXCEPT !.pc = "emit", !.back = "ending", !.from = 1, !.done = Entries]
  <2>1. r \in JobRecords /\ r.pc = "loop"
        /\ r.root = J.root /\ r.iterator = J.iterator
        /\ r.wired = J.wired /\ r.dying = J.dying
    BY <1>a, <1>c DEF JobRecords
  <2>2. q \in JobRecords /\ q.pc = "emit"
        /\ q.root = J.root /\ q.iterator = J.iterator
        /\ q.wired = J.wired /\ q.dying = J.dying
    BY <1>a, <1>c DEF JobRecords
  <2>3. jobs' = [jobs EXCEPT ![j] = IF J.iterator THEN r ELSE q] /\ J.pc = "run"
    BY <1>1 DEF Run
  <2> HIDE DEF r, q
  <2>4. jobs' = [jobs EXCEPT ![j] = r] \/ jobs' = [jobs EXCEPT ![j] = q]
    BY <2>3
  <2> QED
    BY <2>1, <2>2, <2>3, <2>4, JobSet
<1>2. CASE Paused(j) \/ WaitForStart(j)
  BY <1>2, <1>b DEF Paused, WaitForStart
<1>3. CASE LeaveLoop(j)
  <2> DEFINE r == [J EXCEPT !.pc = IF J.update THEN "emit" ELSE "ending",
                            !.back = "ending", !.update = FALSE]
  <2>1. r \in JobRecords /\ r.pc \in {"emit", "ending"}
        /\ r.root = J.root /\ r.iterator = J.iterator
        /\ r.wired = J.wired /\ r.dying = J.dying
    BY <1>a DEF JobRecords
  <2>2. jobs' = [jobs EXCEPT ![j] = r] /\ J.pc \in {"loop", "awake"}
    BY <1>3 DEF LeaveLoop, Runs, Leave
  <2> HIDE DEF r
  <2> QED
    BY <1>a, <2>1, <2>2, JobSet
<1>4. CASE Collect(j) \/ AddChildren(j)
  <2>a. J.done < Entries /\ J.pc \in {"awake", "loop"}
    BY <1>4 DEF Collect, AddChildren, Runs
  <2> DEFINE next == [J EXCEPT !.done = @ + 1, !.pc = "loop"]
             full == [next EXCEPT !.pc = "emit", !.back = "loop", !.update = FALSE]
  <2>1. next \in JobRecords /\ next.pc = "loop"
        /\ next.root = J.root /\ next.iterator = J.iterator
        /\ next.wired = J.wired /\ next.dying = J.dying
    BY <1>a, <1>c, <2>a DEF JobRecords
  <2>2. jobs' = [jobs EXCEPT ![j] = next] \/ jobs' = [jobs EXCEPT ![j] = full]
    BY <1>4 DEF Collect, AddChildren
  <2> HIDE DEF next
  <2>3. full \in JobRecords /\ full.pc = "emit"
        /\ full.root = J.root /\ full.iterator = J.iterator
        /\ full.wired = J.wired /\ full.dying = J.dying
    BY <2>1 DEF JobRecords
  <2> HIDE DEF full
  <2> QED
    BY <2>a, <2>1, <2>2, <2>3, JobSet
<1>5. CASE Emit(j)
  <2>1. J.back \in {"loop", "ending"} /\ J.pc = "emit"
    BY <1>5, <1>a DEF Emit, JobRecords
  <2>2. Step(j, J.back) \/ Step(j, "pausing") \/ Step(j, "spawn")
    BY <1>5 DEF Emit
  <2> QED
    BY <1>b, <2>1, <2>2
<1>6. CASE Pause(j)
  <2> DEFINE r == [J EXCEPT !.state = "Paused", !.pc = "spawn"]
  <2>1. r \in JobRecords /\ jobs' = [jobs EXCEPT ![j] = r]
    BY <1>6, <1>a DEF Pause, JobRecords
  <2> QED
    BY <1>6, <1>a, <2>1, JobSet DEF JobRecords, Pause
<1>7. CASE Spawn(j)
  BY <1>7, <1>b DEF Spawn
<1>8. CASE Assign(j)
  <2>1. J.back \in {"loop", "ending"}
    BY <1>a DEF JobRecords
  <2> QED
    BY <1>8, <1>b, <2>1 DEF Assign
<1>9. CASE Ending(j)
  <2> DEFINE r == [J EXCEPT !.state = "Stoped", !.pc = "finish"]
  <2>1. r \in JobRecords /\ jobs' = [jobs EXCEPT ![j] = r]
    BY <1>9, <1>a DEF Ending, JobRecords
  <2> QED
    BY <1>9, <1>a, <2>1, JobSet DEF JobRecords, Ending
<1>10. CASE Finish(j)
  BY <1>10, <1>b DEF Finish
<1> QED
  BY <1>1, <1>2, <1>3, <1>4, <1>5, <1>6, <1>7, <1>8, <1>9, <1>10 DEF JobThread

(* What a thread of a job does besides.                                    *)
LEMMA ThreadLeaves ==
  ASSUME NEW j \in Jobs, JobThread(j)
  PROVE  /\ UNCHANGED <<content, status, nodes, jobController, main, eventLoop, parentNode,
                        requests, lost>>
         /\ future' \in {future, j}
  BY DEF JobThread, Run, Paused, WaitForStart, LeaveLoop, Collect, AddChildren, Emit, Pause,
         Spawn, Assign, Ending, Finish, content, status, nodes, links, loop

(* The task that a job starts has a list of files that there are.          *)
LEMMA SpawnedTyped ==
  ASSUME TypeInv, NEW j \in Jobs, Spawn(j)
  PROVE  /\ [pc |-> "begin", job |-> None,
              list |-> {jobs[j].root} \X (jobs[j].from .. jobs[j].done)] \in TaskRecords
         /\ tasks' \in [Jobs -> TaskRecords]
<1> DEFINE F == jobs[j].from .. jobs[j].done
           t == [pc |-> "begin", job |-> None, list |-> {jobs[j].root} \X F]
<1>1. jobs[j].root \in Roots /\ jobs[j].from \in 1 .. Entries + 1 /\ jobs[j].done \in 0 .. Entries
  BY DEF TypeInv, TypeOK, JobRecords
<1>2. F \subseteq 1 .. Entries
  BY <1>1, LoadingAssumption
<1> HIDE DEF F
<1>3. {jobs[j].root} \X F \in SUBSET Files
  BY <1>1, <1>2 DEF Files
<1>4. t \in TaskRecords
  BY <1>3 DEF TaskRecords
<1>5. tasks' = [tasks EXCEPT ![j] = t] /\ tasks \in [Jobs -> TaskRecords]
  BY DEF Spawn, TypeInv, HandsOK, F
<1> HIDE DEF t
<1>6. tasks' \in [Jobs -> TaskRecords]
  BY <1>4, <1>5
<1> QED
  BY <1>4, <1>6 DEF t, F

(* What a thread of a job does to the tasks and the events.                *)
LEMMA ThreadSends ==
  ASSUME TypeInv, NEW j \in Jobs, JobThread(j)
  PROVE  /\ tasks' \in [Jobs -> TaskRecords] /\ posted' \in Seq(Events)
         /\ \A i \in Jobs : tasks'[i].pc = "start" => tasks[i].pc = "start" /\ tasks'[i] = tasks[i]
<1>t. tasks \in [Jobs -> TaskRecords] /\ posted \in Seq(Events)
  BY DEF TypeInv, HandsOK
<1>1. CASE Spawn(j)
  BY <1>1, <1>t, SpawnedTyped DEF Spawn, loop
<1>2. CASE AddChildren(j)
  <2> DEFINE f == <<jobs[j].root, jobs[j].done + 1>>
  <2>1. jobs[j].done + 1 \in 1 .. Entries /\ jobs[j].root \in Roots
    BY <1>2, LoadingAssumption DEF AddChildren, Runs, TypeInv, TypeOK, JobRecords
  <2>2. f \in Files
    BY <2>1 DEF Files
  <2>3. posted' \in {posted, Append(posted, <<"addChildren", f>>)}
    <3>1. jobs[j] \in JobRecords
      BY DEF TypeInv, TypeOK
    <3> DEFINE next == [jobs[j] EXCEPT !.done = @ + 1, !.pc = "loop"]
    <3>2. next.root = jobs[j].root /\ next.done = jobs[j].done + 1
      BY <3>1 DEF JobRecords
    <3>3. posted' \in {posted, Append(posted, <<"addChildren", <<next.root, next.done>>>>)}
      BY <1>2 DEF AddChildren
    <3> HIDE DEF next
    <3> QED
      BY <3>2, <3>3
  <2> QED
    BY <1>2, <1>t, <2>2, <2>3, EventAdded, EventsTyped DEF AddChildren
<1>3. CASE Finish(j)
  <2> DEFINE A == IF jobs[j].wired THEN <<<<"finished", j>>>> ELSE <<>>
             B == IF jobs[j].dying THEN <<<<"delete", j>>>> ELSE <<>>
  <2>1. A \in Seq(Events) /\ B \in Seq(Events)
    BY EventsTyped
  <2>2. posted' = posted \o A \o B
    BY <1>3 DEF Finish
  <2> HIDE DEF A, B
  <2>3. posted \o A \in Seq(Events)
    BY <1>t, <2>1, ConcatProperties
  <2>4. posted' \in Seq(Events)
    BY <2>1, <2>2, <2>3, ConcatProperties
  <2> QED
    BY <1>3, <1>t, <2>4 DEF Finish
<1>4. CASE ~Spawn(j) /\ ~AddChildren(j) /\ ~Finish(j)
  BY <1>4, <1>t DEF JobThread, Run, Paused, WaitForStart, LeaveLoop, Collect, Emit, Pause,
     Assign, Ending, loop
<1> QED
  BY <1>1, <1>2, <1>3, <1>4

(* The thread of a job keeps the types.                                    *)
LEMMA ThreadType ==
  ASSUME TypeInv, NEW j \in Jobs, JobThread(j)
  PROVE  TypeInv'
<1>1. \A i \in Jobs : tasks'[i].pc \in {"begin", "fill", "check", "idle", "updated", "resume",
                                       "start", "done"}
  BY ThreadSends DEF TaskRecords
<1>2. TypeOK'
  BY <1>1, ThreadTyped, ThreadLeaves DEF TypeInv, TypeOK, content, status, nodes
<1>3. HandsOK'
  BY ThreadSends, ThreadLeaves DEF TypeInv, HandsOK, content
<1> QED
  BY <1>2, <1>3 DEF TypeInv

(* What a task does to the jobs: it pauses or starts one.                  *)
Kept(r, job) ==
  /\ r.root = job.root /\ r.iterator = job.iterator
  /\ r.wired = job.wired /\ r.dying = job.dying
  /\ r.from = job.from /\ r.done = job.done
  /\ r.update = job.update /\ r.back = job.back

(* A task starts the finished job k again, which is one of the races.      *)
Restarted(k) ==
  /\ isFinished(k) /\ jobs[k].pc # "gone" /\ jobs'[k].pc = "run" /\ "restart" \in lost'
  /\ \E i \in Jobs : tasks[i].job = k

(* No task changes more of a job than whether it is paused and where it    *)
(* is.                                                                     *)
Touched ==
  \A k \in Jobs :
    /\ Kept(jobs'[k], jobs[k])
    /\ \/ jobs'[k].pc = jobs[k].pc
       \/ jobs[k].pc = "asleep" /\ jobs'[k].pc = "awake"
       \/ Restarted(k)

(* The records that a task or the interface thread makes of a job.         *)
WithState(job, s) == [job EXCEPT !.state = s]
Woken(job, s)     == [Awake(job) EXCEPT !.state = s]
Rerun(job)        == [job EXCEPT !.state = "Started", !.pc = "run"]

(* Such a record keeps all but the state, and the place of a job that      *)
(* slept.                                                                  *)
LEMMA JobTouched ==
  ASSUME TypeInv, NEW k \in Jobs, NEW s \in {"Started", "Paused", "Stoped"},
         NEW r, r = WithState(jobs[k], s) \/ r = Woken(jobs[k], s)
  PROVE  /\ r \in JobRecords /\ r.state = s /\ Kept(r, jobs[k])
         /\ r.pc = jobs[k].pc \/ (jobs[k].pc = "asleep" /\ r.pc = "awake")
<1> DEFINE J == jobs[k]
<1>1. J \in JobRecords
  BY DEF TypeInv, TypeOK
<1>2. CASE J.pc # "asleep" \/ r = WithState(J, s)
  <2>1. r = [J EXCEPT !.state = s]
    <3>1. J.pc # "asleep" => Awake(J) = J
      BY <1>1 DEF Awake, JobRecords
    <3> QED
      BY <1>2, <3>1 DEF WithState, Woken
  <2> HIDE DEF J
  <2>2. r \in JobRecords /\ r.state = s
         /\ r.root = J.root /\ r.iterator = J.iterator /\ r.wired = J.wired
         /\ r.dying = J.dying /\ r.from = J.from /\ r.done = J.done
         /\ r.update = J.update /\ r.back = J.back /\ r.pc = J.pc
    BY <1>1, <2>1 DEF JobRecords
  <2> QED
    BY <2>2 DEF J, Kept
<1>3. CASE J.pc = "asleep" /\ r = Woken(J, s)
  <2>1. r = [J EXCEPT !.state = s, !.pc = "awake"]
    BY <1>1, <1>3 DEF Awake, Woken, JobRecords
  <2> HIDE DEF J
  <2>2. r \in JobRecords /\ r.state = s
         /\ r.root = J.root /\ r.iterator = J.iterator /\ r.wired = J.wired
         /\ r.dying = J.dying /\ r.from = J.from /\ r.done = J.done
         /\ r.update = J.update /\ r.back = J.back /\ r.pc = "awake"
    BY <1>1, <2>1 DEF JobRecords
  <2> QED
    BY <1>3, <2>2 DEF J, Kept
<1> QED
  BY <1>2, <1>3

(* A task changes itself only, and takes nothing into its list.            *)
LEMMA TaskSteps ==
  ASSUME TypeInv, NEW j \in Jobs, Task(j)
  PROVE  /\ tasks' \in [Jobs -> TaskRecords]
         /\ \A i \in Jobs \ {j} : tasks'[i] = tasks[i]
         /\ tasks'[j].pc = "start" => tasks'[j].job # None
         /\ tasks[j].pc # "done"
         /\ tasks'[j].list \subseteq tasks[j].list
         /\ tasks'[j].job \in {tasks[j].job, jobController, None}
<1>t. tasks \in [Jobs -> TaskRecords] /\ jobController \in Jobs \union {None}
  BY DEF TypeInv, HandsOK, TypeOK
<1>a. ASSUME NEW pc \in {"check", "idle", "updated", "resume", "start", "done"}, NEW next,
             next \in {"idle", "updated", "resume", "start", "done"},
             TaskAt(j, pc, next), pc # "done", next = "start" => tasks[j].job # None
      PROVE  /\ tasks' \in [Jobs -> TaskRecords]
             /\ \A i \in Jobs \ {j} : tasks'[i] = tasks[i]
             /\ tasks'[j].pc = "start" => tasks'[j].job # None
             /\ tasks[j].pc # "done"
             /\ tasks'[j].list \subseteq tasks[j].list
             /\ tasks'[j].job \in {tasks[j].job, jobController, None}
  <2> DEFINE r == [tasks[j] EXCEPT !.pc = next]
  <2>1. r \in TaskRecords /\ r.pc = next /\ r.job = tasks[j].job /\ r.list = tasks[j].list
    BY <1>t, <1>a DEF TaskRecords
  <2>2. tasks' = [tasks EXCEPT ![j] = IF next = "done" THEN Done ELSE r]
        /\ tasks[j].pc = pc
    BY <1>a DEF TaskAt
  <2>3. Done.pc = "done" /\ Done.list = {} /\ Done.job = None
    BY DEF Done
  <2> HIDE DEF r
  <2> QED
    BY <1>a, <1>t, <2>1, <2>2, <2>3, UnbornTyped
<1>1. CASE UpdateChildren(j)
  <2> DEFINE r == [tasks[j] EXCEPT !.pc = "fill", !.job = jobController]
  <2>1. r \in TaskRecords /\ r.pc = "fill" /\ r.list = tasks[j].list
        /\ r.job = jobController
    BY <1>t DEF TaskRecords
  <2>2. tasks' = [tasks EXCEPT ![j] = r] /\ tasks[j].pc = "begin"
    BY <1>1, <1>t DEF UpdateChildren, TaskRecords
  <2> HIDE DEF r
  <2> QED
    BY <1>t, <2>1, <2>2
<1>2. CASE SetChildren(j)
  <2> DEFINE r == [tasks[j] EXCEPT !.pc = "check", !.list = {}]
  <2>1. r \in TaskRecords /\ r.pc = "check" /\ r.list = {}
        /\ r.job = tasks[j].job
    BY <1>t DEF TaskRecords
  <2>2. tasks' = [tasks EXCEPT ![j] = r] /\ tasks[j].pc = "fill"
    BY <1>2, <1>t DEF SetChildren, TaskRecords
  <2> HIDE DEF r
  <2> QED
    BY <1>t, <2>1, <2>2
<1>3. CASE CheckFinished(j)
  BY <1>3, <1>a DEF CheckFinished
<1>4. CASE SetIdle(j)
  BY <1>4, <1>a DEF SetIdle
<1>5. CASE SetUpdated(j)
  BY <1>5, <1>a DEF SetUpdated
<1>6. CASE TestPaused(j)
  BY <1>6, <1>a DEF TestPaused
<1>7. CASE StartJob(j)
  BY <1>7, <1>a DEF StartJob
<1> QED
  BY <1>1, <1>2, <1>3, <1>4, <1>5, <1>6, <1>7 DEF Task

(* A task pauses or starts jobs, and does nothing else to them.            *)
LEMMA TaskTouches ==
  ASSUME TypeInv, NEW j \in Jobs, Task(j)
  PROVE  jobs' \in [Jobs -> JobRecords] /\ Touched
<1>t. jobs \in [Jobs -> JobRecords] /\ jobController \in Jobs \union {None}
  BY DEF TypeInv, TypeOK
<1>a. ASSUME UNCHANGED jobs
      PROVE  jobs' \in [Jobs -> JobRecords] /\ Touched
  BY <1>t, <1>a DEF Touched, Kept
<1>b. ASSUME NEW k \in Jobs, NEW r \in JobRecords, jobs' = [jobs EXCEPT ![k] = r],
         Kept(r, jobs[k]),
         \/ r.pc = jobs[k].pc
         \/ jobs[k].pc = "asleep" /\ r.pc = "awake"
         \/ /\ isFinished(k) /\ jobs[k].pc # "gone" /\ r.pc = "run" /\ "restart" \in lost'
            /\ \E i \in Jobs : tasks[i].job = k
      PROVE  jobs' \in [Jobs -> JobRecords] /\ Touched
  <2>1. jobs' \in [Jobs -> JobRecords] /\ jobs'[k] = r /\ \A i \in Jobs \ {k} : jobs'[i] = jobs[i]
    BY <1>t, <1>b
  <2> QED
    BY <1>b, <2>1 DEF Touched, Kept, Restarted
<1>1. CASE UpdateChildren(j)
  <2>1. CASE jobController # None /\ jobs[jobController].state = "Started"
    <3>1. jobController \in Jobs
          /\ jobs' = [jobs EXCEPT ![jobController] = WithState(jobs[jobController], "Paused")]
      BY <1>1, <2>1, <1>t DEF UpdateChildren, WithState
    <3> QED
      BY <1>b, <3>1, JobTouched
  <2> QED
    BY <1>1, <1>a, <2>1 DEF UpdateChildren
<1>2. CASE StartJob(j)
  <2> DEFINE k == tasks[j].job
             J == jobs[k]
             r == [J EXCEPT !.state = "Started"]
  <2>1. k \in Jobs
    BY <1>2 DEF StartJob, TaskAt, TypeInv, HandsOK, TaskRecords
  <2>a. J \in JobRecords
    BY <1>t, <2>1
  <2>2. \/ UNCHANGED jobs
        \/ jobs' = [jobs EXCEPT ![k] = Awake(r)]
        \/ jobs' = [jobs EXCEPT ![k] = r]
        \/ isFinished(k) /\ J.pc # "gone" /\ jobs' = [jobs EXCEPT ![k] = [r EXCEPT !.pc = "run"]]
             /\ "restart" \in lost'
    BY <1>2 DEF StartJob
  <2> HIDE DEF k, J
  <2>3. Awake(r) = Woken(J, "Started") /\ r = WithState(J, "Started")
        /\ [r EXCEPT !.pc = "run"] = Rerun(J)
    BY <2>a DEF Awake, JobRecords, Woken, WithState, Rerun
  <2>4. Rerun(J) \in JobRecords /\ Rerun(J).pc = "run" /\ Kept(Rerun(J), J)
    BY <2>a DEF Rerun, JobRecords, Kept
  <2>5. \/ UNCHANGED jobs
        \/ jobs' = [jobs EXCEPT ![k] = Woken(jobs[k], "Started")]
        \/ jobs' = [jobs EXCEPT ![k] = WithState(jobs[k], "Started")]
        \/ isFinished(k) /\ J.pc # "gone" /\ jobs' = [jobs EXCEPT ![k] = Rerun(J)]
             /\ "restart" \in lost'
    BY <2>2, <2>3 DEF J
  <2>6. CASE jobs' = [jobs EXCEPT ![k] = Woken(jobs[k], "Started")]
    <3> DEFINE q == Woken(jobs[k], "Started")
    <3>1. q \in JobRecords /\ Kept(q, jobs[k])
          /\ (q.pc = jobs[k].pc \/ (jobs[k].pc = "asleep" /\ q.pc = "awake"))
      BY <2>1, JobTouched
    <3> HIDE DEF q
    <3> QED
      BY <1>b, <2>1, <2>6, <3>1 DEF q
  <2>7. CASE jobs' = [jobs EXCEPT ![k] = WithState(jobs[k], "Started")]
    <3> DEFINE q == WithState(jobs[k], "Started")
    <3>1. q \in JobRecords /\ Kept(q, jobs[k])
          /\ (q.pc = jobs[k].pc \/ (jobs[k].pc = "asleep" /\ q.pc = "awake"))
      BY <2>1, JobTouched
    <3> HIDE DEF q
    <3> QED
      BY <1>b, <2>1, <2>7, <3>1 DEF q
  <2>8. CASE isFinished(k) /\ J.pc # "gone" /\ jobs' = [jobs EXCEPT ![k] = Rerun(J)]
             /\ "restart" \in lost'
    <3> DEFINE q == Rerun(jobs[k])
    <3>1. q \in JobRecords /\ Kept(q, jobs[k]) /\ q.pc = "run"
      BY <2>4 DEF J
    <3>2. \E i \in Jobs : tasks[i].job = k
      BY DEF k
    <3> HIDE DEF q
    <3>3. jobs' = [jobs EXCEPT ![k] = q] /\ jobs[k].pc # "gone"
      BY <2>8 DEF J, q
    <3> QED
      BY <1>b, <2>1, <2>8, <3>1, <3>2, <3>3
  <2> QED
    BY <1>a, <2>5, <2>6, <2>7, <2>8
<1>3. CASE ~UpdateChildren(j) /\ ~StartJob(j)
  BY <1>3, <1>a DEF Task, SetChildren, CheckFinished, SetIdle, SetUpdated, TestPaused
<1> QED
  BY <1>1, <1>2, <1>3

(* What a task does besides.                                               *)
LEMMA TaskLeaves ==
  ASSUME TypeInv, NEW j \in Jobs, Task(j)
  PROVE  /\ UNCHANGED <<root, populated, nodes, links, loop, requests>>
         /\ rows' \in {rows, tasks[j].list}
         /\ state' \in {state, "Idle"} /\ childrenUpdated' \in {childrenUpdated, TRUE}
         /\ lost \subseteq lost'
         /\ lost' \subseteq lost \union {"lateList", "lateUpdate", "dangling", "wakeUp", "restart"}
  BY DEF Task, UpdateChildren, SetChildren, CheckFinished, SetIdle, SetUpdated, TestPaused,
     StartJob, LostWakeUp, content, status

(* The tasks keep the types.                                               *)
LEMMA TaskType ==
  ASSUME TypeInv, NEW j \in Jobs, Task(j)
  PROVE  TypeInv'
<1>1. tasks \in [Jobs -> TaskRecords] /\ tasks' \in [Jobs -> TaskRecords]
  BY TaskSteps DEF TypeInv, HandsOK
<1>2. rows' \subseteq Roots \X (1 .. Entries)
  <2>1. tasks[j].list \subseteq Files
    BY <1>1 DEF TaskRecords
  <2> QED
    BY <2>1, TaskLeaves DEF TypeInv, TypeOK, Files
<1>3. \A i \in Jobs : tasks'[i].pc \in {"begin", "fill", "check", "idle", "updated", "resume",
                                       "start", "done"}
  BY <1>1 DEF TaskRecords
<1>4. lost' \subseteq {"lateList", "lateUpdate", "wakeUp", "restart", "noQuit", "dangling",
                      "oldParent", "leftOver"}
  BY TaskLeaves DEF TypeInv, TypeOK
<1>5. TypeOK'
  <2>1. jobs' \in [Jobs -> JobRecords]
    BY TaskTouches
  <2>2. state' \in {"Idle", "Busy"} /\ childrenUpdated' \in BOOLEAN
    BY TaskLeaves DEF TypeInv, TypeOK
  <2>3. UNCHANGED <<root, populated, enable, queue, manager, jobController, future, main,
                    eventLoop, parentNode, requests>>
    BY TaskLeaves DEF nodes, links, loop
  <2> QED
    BY <1>2, <1>3, <1>4, <2>1, <2>2, <2>3 DEF TypeInv, TypeOK
<1>6. HandsOK'
  BY <1>1, TaskSteps, TaskLeaves DEF TypeInv, HandsOK, links, loop
<1> QED
  BY <1>5, <1>6 DEF TypeInv

(* The thread of the manager keeps the types.                              *)
LEMMA ManagerType ==
  ASSUME TypeInv, Manager \/ ManagerStart \/ LateStart
  PROVE  TypeInv'
<1>1. posted' \in Seq(Events)
  BY EventAdded, EventsTyped
  DEF TypeInv, HandsOK, Manager, ManagerStart, LateStart, Insert, LastLook, ManagerEnd, loop
<1>2. /\ UNCHANGED <<root, populated, state, childrenUpdated, enable, jobController, future,
                     jobs, tasks, main, eventLoop, parentNode, requests, lost>>
      /\ manager' \in {"runs", "ending", "idle", manager}
      /\ queue' \subseteq queue /\ rows' \subseteq rows \union queue
  BY DEF Manager, ManagerStart, LateStart, Insert, LastLook, ManagerEnd, loop, content, status,
     links, threads
<1>3. TypeOK'
  BY <1>2 DEF TypeInv, TypeOK
<1>4. HandsOK'
  BY <1>1, <1>2 DEF TypeInv, HandsOK
<1> QED
  BY <1>3, <1>4 DEF TypeInv

(* The event that is taken, and the queue behind it.                       *)
LEMMA EventHead ==
  ASSUME TypeInv, NEW kind, Event(kind)
  PROVE  /\ Head(posted) \in Events /\ Tail(posted) \in Seq(Events) /\ Listening
         /\ Len(Tail(posted)) = Len(posted) - 1 /\ Len(posted) \in Nat \ {0}
         /\ Head(posted) = posted[1] /\ Head(posted)[1] = kind
         /\ \A i \in 1 .. Len(Tail(posted)) : Tail(posted)[i] = posted[i + 1]
         /\ kind = "addChildren" => Head(posted)[2] \in Files
         /\ kind \in {"finished", "delete"} => Head(posted)[2] \in Jobs
  BY EventTaken, EventKinds DEF TypeInv, HandsOK, Event

(* The handlers of events keep the types.                                  *)
LEMMA EventType ==
  ASSUME TypeInv, OnJobAddChildren \/ OnJobFinished \/ OnManagerFinished
  PROVE  TypeInv'
<1>1. CASE OnJobAddChildren
  <2>1. posted' \in Seq(Events) /\ Head(posted)[2] \in Files
    BY <1>1, EventHead DEF OnJobAddChildren
  <2>2. /\ UNCHANGED <<root, populated, rows, state, childrenUpdated, enable, jobController,
                       future, jobs, tasks, main, eventLoop, parentNode, requests>>
        /\ manager' \in {"timer", manager}
        /\ queue' \subseteq queue \union {Head(posted)[2]}
        /\ lost' \subseteq lost \union {"leftOver"}
    BY <1>1 DEF OnJobAddChildren, AddFile, content, status, links, threads
  <2>3. TypeOK'
    BY <2>1, <2>2 DEF TypeInv, TypeOK, Files
  <2>4. HandsOK'
    BY <2>1, <2>2 DEF TypeInv, HandsOK
  <2> QED
    BY <2>3, <2>4 DEF TypeInv
<1>2. CASE OnJobFinished \/ OnManagerFinished
  <2>1. posted' \in Seq(Events)
    <3>1. CASE OnJobFinished
      <4>1. Tail(posted) \in Seq(Events) /\ <<"delete", Head(posted)[2]>> \in Events
        BY <3>1, EventHead, EventsTyped DEF OnJobFinished
      <4> QED
        BY <3>1, <4>1, EventAdded DEF OnJobFinished
    <3>2. CASE OnManagerFinished
      BY <3>2, EventHead DEF OnManagerFinished
    <3> QED
      BY <1>2, <3>1, <3>2
  <2>2. /\ UNCHANGED <<root, populated, rows, childrenUpdated, enable, queue, manager,
                       jobController, future, jobs, tasks, main, eventLoop, parentNode,
                       requests, lost>>
        /\ state' \in {"Idle", state}
    BY <1>2 DEF OnJobFinished, OnManagerFinished, content, nodes, links, threads
  <2>3. TypeOK'
    BY <2>1, <2>2 DEF TypeInv, TypeOK
  <2>4. HandsOK'
    BY <2>1, <2>2 DEF TypeInv, HandsOK
  <2> QED
    BY <2>3, <2>4 DEF TypeInv
<1> QED
  BY <1>1, <1>2

(* What is left of a job that is destroyed.                                *)
Ruin(r) == [Unborn EXCEPT !.root = r, !.pc = "gone"]

(* A job that is gone is of its type.                                      *)
LEMMA RuinTyped ==
  ASSUME NEW r \in Roots
  PROVE  /\ Ruin(r) \in JobRecords /\ Ruin(r).root = r /\ Ruin(r).pc = "gone"
         /\ ~Ruin(r).wired /\ ~Ruin(r).dying /\ Ruin(r).state = "Stoped"
  BY UnbornTyped DEF Ruin, Unborn, JobRecords

(* The destruction of a job keeps the types.                               *)
LEMMA DestroyedType ==
  ASSUME TypeInv, JobDestroyed
  PROVE  /\ TypeInv' /\ Head(posted)[2] \in Jobs
         /\ jobs' = [jobs EXCEPT ![Head(posted)[2]] = Ruin(jobs[Head(posted)[2]].root)]
<1> DEFINE j == Head(posted)[2]
<1>1. j \in Jobs /\ posted' \in Seq(Events) /\ Listening
  BY EventHead DEF JobDestroyed
<1>2. jobs[j].root \in Roots /\ jobs \in [Jobs -> JobRecords]
  BY <1>1 DEF TypeInv, TypeOK, JobRecords
<1>3. jobs' = [jobs EXCEPT ![j] = Ruin(jobs[j].root)]
  BY DEF JobDestroyed, Ruin
<1>4. jobs' \in [Jobs -> JobRecords]
  BY <1>1, <1>2, <1>3, RuinTyped
<1>5. /\ UNCHANGED <<root, populated, rows, state, childrenUpdated, enable, queue, manager,
                     future, tasks, eventLoop, parentNode, requests, lost>>
      /\ jobController' \in {None, jobController} /\ main' \in {main, "leave0"}
  BY DEF JobDestroyed, content, status, nodes
<1>6. TypeOK'
  BY <1>1, <1>4, <1>5 DEF TypeInv, TypeOK
<1>7. main # "stopping" /\ main # "waitFuture"
  BY <1>1 DEF Listening
<1>8. HandsOK'
  BY <1>1, <1>5, <1>7 DEF TypeInv, HandsOK, TypeOK
<1> QED
  BY <1>1, <1>3, <1>6, <1>8 DEF TypeInv

(* The model is told no more of a job.                                     *)
LEMMA CutTyped ==
  ASSUME TypeInv, NEW c \in Jobs
  PROVE  /\ Cut(c) \in [Jobs -> JobRecords]
         /\ \A i \in Jobs \ {c} : Cut(c)[i] = jobs[i]
         /\ ~Cut(c)[c].wired
         /\ Cut(c)[c].root = jobs[c].root /\ Cut(c)[c].pc = jobs[c].pc
         /\ Cut(c)[c].dying = jobs[c].dying /\ Cut(c)[c].update = jobs[c].update
         /\ Cut(c)[c].back = jobs[c].back /\ Cut(c)[c].state = jobs[c].state
         /\ Cut(c)[c].from = jobs[c].from /\ Cut(c)[c].done = jobs[c].done
  BY DEF TypeInv, TypeOK, Cut, JobRecords

(* A new job, started.                                                     *)
Fresh(r, iterator) ==
  [Unborn EXCEPT !.root = r, !.iterator = iterator, !.state = "Started", !.pc = "run",
                 !.wired = TRUE]

(* A job that is new is of its type.                                       *)
LEMMA FreshTyped ==
  ASSUME NEW r \in Roots, NEW iterator \in BOOLEAN
  PROVE  LET f == Fresh(r, iterator)
         IN  /\ f \in JobRecords /\ f.root = r /\ f.pc = "run" /\ f.wired /\ ~f.dying
             /\ f.update /\ f.state = "Started" /\ f.done = 0 /\ f.from = 1
  BY UnbornTyped DEF Fresh, Unborn, JobRecords

(* The job j is born, to list r, into the jobs js.                         *)
BornAs(js, r, j) ==
  /\ js[j].pc = "unborn" /\ \A i \in Jobs : i < j => js[i].pc # "unborn"
  /\ jobs' \in [Jobs -> JobRecords]
  /\ \A i \in Jobs \ {j} : jobs'[i] = js[i]
  /\ jobs'[j].root = r /\ jobs'[j].pc = "run" /\ jobs'[j].wired /\ ~jobs'[j].dying
  /\ jobs'[j].update /\ jobs'[j].state = "Started" /\ jobs'[j].done = 0 /\ jobs'[j].from = 1
  /\ jobController' = j

(* What fetchMore() does to the jobs and to the model when it starts a     *)
(* job.                                                                    *)
LEMMA NewJobBorn ==
  ASSUME NEW js \in [Jobs -> JobRecords], NEW r \in Roots, NEW pst, NewJob(js, r, pst)
  PROVE  /\ \E j \in Jobs : BornAs(js, r, j)
         /\ populated' = (r = root \/ populated)
         /\ state' = "Busy" /\ childrenUpdated' = FALSE /\ enable' = TRUE
         /\ main' = "loop" /\ eventLoop' = FALSE /\ posted' = pst /\ parentNode' = 0
         /\ UNCHANGED <<root, queue, manager, future, tasks>>
<1>1. PICK j \in Jobs, iterator \in Iterators :
        /\ js[j].pc = "unborn" /\ \A i \in 1 .. j - 1 : js[i].pc # "unborn"
        /\ jobs' = [js EXCEPT ![j] = Fresh(r, iterator)]
        /\ jobController' = j
  BY DEF NewJob, Fresh
<1>2. \A i \in Jobs : i < j => i \in 1 .. j - 1
  BY LoadingAssumption DEF Jobs
<1>3. iterator \in BOOLEAN
  BY LoadingAssumption
<1>4. BornAs(js, r, j)
  BY <1>1, <1>2, <1>3, FreshTyped DEF BornAs
<1> QED
  BY <1>4 DEF NewJob

(* The jobs as NewJob() finds them, in fetchMore().                        *)
Left == IF jobController = None THEN jobs ELSE Cut(jobController)

(* The events as NewJob() finds them, with the deletion of the last job.   *)
Sends == IF jobController = None THEN posted ELSE Append(posted, <<"delete", jobController>>)

(* fetchMore() waits for the end of the last job or starts one.            *)
LEMMA FetchCases ==
  ASSUME TypeInv, Fetch
  PROVE  \/ /\ jobController # None /\ ~isFinished(jobController) /\ jobController \in Jobs
            /\ jobs' = Cut(jobController)
            /\ populated' = FALSE /\ parentNode' = root
            /\ main' = "stopping" /\ eventLoop' = TRUE
            /\ UNCHANGED <<root, state, childrenUpdated, enable, queue, manager, jobController,
                           future, tasks, posted, lost>>
         \/ /\ jobController = None \/ isFinished(jobController)
            /\ Left \in [Jobs -> JobRecords] /\ NewJob(Left, root, Sends)
            /\ Sends \in Seq(Events) /\ UNCHANGED lost
<1>1. jobController \in Jobs \union {None} /\ jobs \in [Jobs -> JobRecords]
  BY DEF TypeInv, TypeOK
<1>2. Left \in [Jobs -> JobRecords]
  BY <1>1, CutTyped DEF Left
<1>3. Sends \in Seq(Events)
  BY <1>1, EventAdded, EventsTyped DEF Sends, TypeInv, HandsOK
<1> QED
  BY <1>1, <1>2, <1>3 DEF Fetch, Left, Sends, status, nodes, links

(* A new job keeps the types.                                              *)
LEMMA NewJobType ==
  ASSUME TypeInv, NEW js \in [Jobs -> JobRecords], NEW r \in Roots, NEW pst \in Seq(Events),
         NewJob(js, r, pst), rows' \subseteq rows, requests' \in 0 .. MaxRequests,
         requests <= requests', lost' \subseteq lost \union {"oldParent"}
  PROVE  TypeInv'
<1>1. PICK j \in Jobs : BornAs(js, r, j)
  BY NewJobBorn
<1>2. /\ populated' = (r = root \/ populated)
      /\ state' = "Busy" /\ childrenUpdated' = FALSE /\ enable' = TRUE
      /\ main' = "loop" /\ eventLoop' = FALSE /\ posted' = pst /\ parentNode' = 0
      /\ UNCHANGED <<root, queue, manager, future, tasks>>
  BY NewJobBorn
<1>3. 0 \in Roots
  BY LoadingAssumption DEF Roots
<1>4. TypeOK'
  BY <1>1, <1>2, <1>3 DEF BornAs, TypeInv, TypeOK
<1>5. root' + 0 <= requests' /\ parentNode' <= root'
  BY <1>2, LoadingAssumption DEF TypeInv, TypeOK, HandsOK, Roots
<1>6. HandsOK'
  BY <1>2, <1>5 DEF TypeInv, HandsOK
<1> QED
  BY <1>4, <1>6 DEF TypeInv

(* fetchMore() keeps the types.                                            *)
LEMMA FetchType ==
  ASSUME TypeInv, Fetch, rows' \subseteq rows, requests' \in 0 .. MaxRequests,
         requests <= requests', Listening
  PROVE  TypeInv'
<1>1. CASE /\ jobController # None /\ ~isFinished(jobController) /\ jobController \in Jobs
            /\ jobs' = Cut(jobController)
            /\ populated' = FALSE /\ parentNode' = root
            /\ main' = "stopping" /\ eventLoop' = TRUE
            /\ UNCHANGED <<root, state, childrenUpdated, enable, queue, manager, jobController,
                           future, tasks, posted, lost>>
  <2>1. TypeOK'
    BY <1>1, CutTyped DEF TypeInv, TypeOK
  <2>2. root' + 0 <= requests' /\ parentNode' <= root'
    BY <1>1, LoadingAssumption DEF TypeInv, TypeOK, HandsOK, Roots
  <2>3. HandsOK'
    BY <1>1, <2>2 DEF TypeInv, HandsOK
  <2> QED
    BY <2>1, <2>3 DEF TypeInv
<1>2. CASE Left \in [Jobs -> JobRecords] /\ NewJob(Left, root, Sends)
           /\ Sends \in Seq(Events) /\ UNCHANGED lost
  BY <1>2, NewJobType DEF TypeInv, TypeOK
<1> QED
  BY <1>1, <1>2, FetchCases

(* stopAndDeleteLater() tells the job it found to stop and to go.          *)
LEMMA StopCases ==
  ASSUME TypeInv, StopAndDeleteLater
  PROVE  /\ jobController \in Jobs /\ main = "stopping" /\ main' = "nested"
         /\ UNCHANGED <<root, populated, rows, state, childrenUpdated, enable, queue, manager,
                        jobController, future, tasks, eventLoop, posted, parentNode, requests>>
         /\ lost \subseteq lost' /\ lost' \subseteq lost \union {"noQuit", "wakeUp"}
         /\ jobs' \in [Jobs -> JobRecords]
         /\ \A i \in Jobs \ {jobController} : jobs'[i] = jobs[i]
         /\ \/ UNCHANGED jobs
            \/ /\ ~isFinished(jobController)
               /\ jobs'[jobController].root = jobs[jobController].root
               /\ jobs'[jobController].wired = jobs[jobController].wired
               /\ jobs'[jobController].update = jobs[jobController].update
               /\ jobs'[jobController].back = jobs[jobController].back
               /\ jobs'[jobController].done = jobs[jobController].done
               /\ jobs'[jobController].dying /\ jobs'[jobController].state = "Stoped"
               /\ \/ jobs'[jobController].pc = jobs[jobController].pc
                  \/ /\ jobs[jobController].pc = "asleep"
                     /\ jobs'[jobController].pc = "awake"
<1> DEFINE j == jobController
           J == jobs[j]
           r == [J EXCEPT !.dying = TRUE]
           w == [Woken(J, "Stoped") EXCEPT !.dying = TRUE]
<1>1. j \in Jobs /\ main = "stopping"
  BY DEF StopAndDeleteLater, TypeInv, TypeOK, HandsOK
<1>2. J \in JobRecords /\ jobs \in [Jobs -> JobRecords]
  BY <1>1 DEF TypeInv, TypeOK
<1>3. /\ r \in JobRecords /\ Kept(r, [J EXCEPT !.dying = TRUE]) /\ r.dying
      /\ r.root = J.root /\ r.wired = J.wired /\ r.update = J.update /\ r.back = J.back
      /\ r.done = J.done /\ r.pc = J.pc /\ r.state = J.state
  BY <1>2 DEF JobRecords, Kept
<1>4. Woken(J, "Stoped") \in JobRecords /\ Woken(J, "Stoped").state = "Stoped"
      /\ Kept(Woken(J, "Stoped"), J)
      /\ (Woken(J, "Stoped").pc = J.pc \/ (J.pc = "asleep" /\ Woken(J, "Stoped").pc = "awake"))
  BY <1>1, JobTouched
<1>5. /\ w \in JobRecords /\ w.dying
      /\ w.root = J.root /\ w.wired = J.wired /\ w.update = J.update /\ w.back = J.back
      /\ w.done = J.done /\ (w.pc = J.pc \/ (J.pc = "asleep" /\ w.pc = "awake"))
      /\ w.state = "Stoped"
  BY <1>4 DEF JobRecords, Kept
<1>6. w = [Awake(J) EXCEPT !.state = "Stoped", !.dying = TRUE]
  BY DEF Woken
<1>7. \/ UNCHANGED jobs
      \/ ~isFinished(j) /\ J.state = "Stoped" /\ jobs' = [jobs EXCEPT ![j] = r]
      \/ ~isFinished(j) /\ jobs' = [jobs EXCEPT ![j] = w]
  BY <1>2, <1>6 DEF StopAndDeleteLater
<1> HIDE DEF r, w
<1>8. /\ jobs' \in [Jobs -> JobRecords]
      /\ \A i \in Jobs \ {jobController} : jobs'[i] = jobs[i]
      /\ \/ UNCHANGED jobs
         \/ /\ ~isFinished(j) /\ jobs'[j] \in {r, w}
            /\ (jobs'[j] = r => J.state = "Stoped")
  <2>1. CASE UNCHANGED jobs
    <3>1. jobs' = jobs
      BY <2>1
    <3> QED
      BY <1>2, <3>1
  <2>2. CASE ~isFinished(j) /\ J.state = "Stoped" /\ jobs' = [jobs EXCEPT ![j] = r]
    BY <1>1, <1>2, <1>3, <2>2
  <2>3. CASE ~isFinished(j) /\ jobs' = [jobs EXCEPT ![j] = w]
    <3>1. w = r => J.state = "Stoped"
      BY <1>3, <1>5
    <3> QED
      BY <1>1, <1>2, <1>5, <2>3, <3>1
  <2> QED
    BY <1>7, <2>1, <2>2, <2>3
<1>9. /\ main' = "nested"
      /\ UNCHANGED <<root, populated, rows, state, childrenUpdated, enable, queue, manager,
                     jobController, future, tasks, eventLoop, posted, parentNode, requests>>
      /\ lost \subseteq lost' /\ lost' \subseteq lost \union {"noQuit", "wakeUp"}
  BY DEF StopAndDeleteLater, content, status, nodes, links, LostWakeUp
<1> QED
  BY <1>1, <1>3, <1>5, <1>8, <1>9

(* The stopping of the last job keeps the types.                           *)
LEMMA StopType ==
  ASSUME TypeInv, StopAndDeleteLater
  PROVE  TypeInv'
<1>a. jobs' \in [Jobs -> JobRecords]
  BY StopCases
<1>b. /\ UNCHANGED <<root, populated, rows, state, childrenUpdated, enable, queue, manager,
                     jobController, future, tasks, eventLoop, posted, parentNode, requests>>
      /\ main' = "nested" /\ main = "stopping"
  BY StopCases
<1>d. root' + 0 <= requests'
  BY <1>b DEF TypeInv, HandsOK, TypeOK, Roots
<1>c. lost' \subseteq {"lateList", "lateUpdate", "wakeUp", "restart", "noQuit", "dangling",
                      "oldParent", "leftOver"}
  BY StopCases DEF TypeInv, TypeOK
<1>1. TypeOK'
  BY <1>a, <1>b, <1>c DEF TypeInv, TypeOK
<1>2. HandsOK'
  BY <1>b, <1>d DEF TypeInv, HandsOK
<1> QED
  BY <1>1, <1>2 DEF TypeInv

(* What fetchMore() does when the root was replaced while it waited.       *)
LEMMA TerminateCases ==
  ASSUME TypeInv, Terminate
  PROVE  /\ main = "leave1" /\ jobController' = None /\ eventLoop' = FALSE
         /\ UNCHANGED <<root, populated, rows, state, childrenUpdated, enable, queue, manager,
                        future, tasks, parentNode, requests>>
         /\ \/ /\ jobController = None /\ main' = "crashed" /\ UNCHANGED <<jobs, posted>>
               /\ lost' = lost \union {"dangling"}
            \/ /\ jobController \in Jobs /\ main' = "loop" /\ UNCHANGED lost
               /\ isFinished(jobController) /\ UNCHANGED jobs
               /\ posted' = IF jobs[jobController].dying THEN posted
                            ELSE Append(posted, <<"delete", jobController>>)
            \/ /\ jobController \in Jobs /\ main' = "loop" /\ UNCHANGED lost
               /\ ~isFinished(jobController)
               /\ posted' = Append(posted, <<"delete", jobController>>)
               /\ jobs' \in [Jobs -> JobRecords]
               /\ \A i \in Jobs \ {jobController} : jobs'[i] = jobs[i]
               /\ jobs'[jobController].pc = "over"
               /\ Kept(jobs'[jobController], jobs[jobController])
<1> DEFINE j == jobController
           r == [jobs[j] EXCEPT !.pc = "over"]
<1>1. j \in Jobs \union {None} /\ jobs \in [Jobs -> JobRecords]
  BY DEF TypeInv, TypeOK
<1>2. j \in Jobs => r \in JobRecords /\ r.pc = "over" /\ Kept(r, jobs[j])
  BY <1>1 DEF JobRecords, Kept
<1>3. jobs' = jobs \/ jobs' = [jobs EXCEPT ![j] = r]
  BY <1>1 DEF Terminate
<1>4. CASE j = None
  BY <1>4 DEF Terminate, content, status, nodes
<1>5. CASE j # None /\ isFinished(j)
  BY <1>1, <1>5 DEF Terminate, content, status, nodes
<1>6. CASE j # None /\ ~isFinished(j)
  <2>1. jobs' = [jobs EXCEPT ![j] = r] /\ j \in Jobs
    BY <1>1, <1>6 DEF Terminate
  <2> HIDE DEF r
  <2>2. /\ jobs' \in [Jobs -> JobRecords]
        /\ \A i \in Jobs \ {j} : jobs'[i] = jobs[i]
        /\ jobs'[j].pc = "over" /\ Kept(jobs'[j], jobs[j])
    BY <1>1, <1>2, <2>1
  <2> QED
    BY <1>6, <2>1, <2>2 DEF Terminate, content, status, nodes
<1> QED
  BY <1>4, <1>5, <1>6

(* That keeps the types.                                                   *)
LEMMA TerminateType ==
  ASSUME TypeInv, Terminate
  PROVE  TypeInv'
<1>1. jobs' \in [Jobs -> JobRecords]
  BY TerminateCases DEF TypeInv, TypeOK
<1>2. posted' \in Seq(Events)
  BY TerminateCases, EventAdded, EventsTyped DEF TypeInv, HandsOK
<1>3. TypeOK'
  BY <1>1, TerminateCases DEF TypeInv, TypeOK
<1>4. HandsOK'
  BY <1>2, TerminateCases DEF TypeInv, HandsOK
<1> QED
  BY <1>3, <1>4 DEF TypeInv

(* setRootUrl() keeps the types, and the roots are counted by the          *)
(* requests.                                                               *)
LEMMA RootType ==
  ASSUME TypeInv, SetRootUrl \/ NewRoot
  PROVE  TypeInv'
<1>1. CASE SetRootUrl
  <2>1. jobs' \in [Jobs -> JobRecords]
    BY <1>1, CutTyped DEF SetRootUrl, TypeInv, TypeOK
  <2>2. requests' = requests + 1 /\ requests < MaxRequests /\ root <= requests
        /\ requests \in Nat /\ root \in Nat /\ main # "waitFuture"
    BY <1>1, LoadingAssumption
    DEF SetRootUrl, MayAsk, Listening, TypeInv, TypeOK, HandsOK, Roots
  <2>3. requests' \in 0 .. MaxRequests /\ root + 1 <= requests'
    BY <2>2, LoadingAssumption
  <2>4. UNCHANGED <<root, populated, rows, childrenUpdated, enable, queue, manager,
                    jobController, future, tasks, eventLoop, posted, parentNode, lost>>
        /\ state' = "Idle" /\ main' = "waitFuture"
    BY <1>1 DEF SetRootUrl, content, nodes, links
  <2>5. TypeOK'
    BY <2>1, <2>3, <2>4 DEF TypeInv, TypeOK
  <2>6. HandsOK'
    BY <2>3, <2>4 DEF TypeInv, HandsOK
  <2> QED
    BY <2>5, <2>6 DEF TypeInv
<1>2. CASE NewRoot
  <2>1. UNCHANGED <<state, childrenUpdated, jobController, future, jobs, tasks, eventLoop,
                    parentNode, requests, lost>>
        /\ root' = root + 1 /\ populated' = FALSE /\ rows' = {} /\ enable' = FALSE
        /\ queue' = {} /\ manager' = "idle" /\ main' \in {"leave1", "loop"}
        /\ main = "waitFuture"
        /\ posted' \in {posted, Append(posted, <<"managerFinished">>)}
    BY <1>2 DEF NewRoot, status, links, threads
  <2>2. root' \in Roots /\ root' + 0 <= requests' /\ parentNode' <= root'
    BY <2>1, LoadingAssumption DEF TypeInv, TypeOK, HandsOK, Roots
  <2>3. posted' \in Seq(Events)
    BY <2>1, EventAdded, EventsTyped DEF TypeInv, HandsOK
  <2>4. TypeOK'
    BY <2>1, <2>2 DEF TypeInv, TypeOK
  <2>5. HandsOK'
    BY <2>1, <2>2, <2>3 DEF TypeInv, HandsOK
  <2> QED
    BY <2>4, <2>5 DEF TypeInv
<1> QED
  BY <1>1, <1>2

(* The handlers that ask for a directory keep the types.                   *)
LEMMA AskType ==
  ASSUME TypeInv, Refresh \/ FetchMore \/ FetchAfterWait
  PROVE  TypeInv'
<1>1. CASE FetchMore
  BY <1>1, FetchType DEF FetchMore, Listening, TypeInv, TypeOK
<1>2. CASE FetchAfterWait
  <2>1. lost' \subseteq lost \union {"oldParent"}
    BY <1>2 DEF FetchAfterWait
  <2> QED
    BY <1>2, <2>1, NewJobType DEF FetchAfterWait, TypeInv, TypeOK, HandsOK
<1>3. CASE Refresh
  <2>1. requests' = requests + 1 /\ requests < MaxRequests /\ rows' = {} /\ Listening
    BY <1>3 DEF Refresh, MayAsk
  <2>2. requests' \in 0 .. MaxRequests /\ requests <= requests'
        /\ root + (IF main = "waitFuture" THEN 1 ELSE 0) <= requests'
    BY <2>1, LoadingAssumption DEF TypeInv, TypeOK, HandsOK, Roots
  <2>3. CASE eventLoop
    <3>1. UNCHANGED <<root, state, childrenUpdated, enable, queue, manager, jobController,
                      future, jobs, tasks, main, eventLoop, posted, parentNode, lost>>
          /\ populated' = FALSE
      BY <1>3, <2>3 DEF Refresh, status, nodes, links, threads, loop
    <3>2. TypeOK'
      BY <2>1, <2>2, <3>1 DEF TypeInv, TypeOK
    <3>3. HandsOK'
      BY <2>2, <3>1 DEF TypeInv, HandsOK
    <3> QED
      BY <3>2, <3>3 DEF TypeInv
  <2>4. CASE ~eventLoop
    BY <1>3, <2>1, <2>2, <2>4, FetchType DEF Refresh
  <2> QED
    BY <2>3, <2>4
<1> QED
  BY <1>1, <1>2, <1>3

(* So does a step that changes nothing.                                    *)
LEMMA TypeStutters == ASSUME TypeInv, UNCHANGED vars PROVE TypeInv'
<1>1. UNCHANGED <<root, populated, rows, state, childrenUpdated, enable, queue, manager,
                  jobController, future, jobs, tasks, main, eventLoop, posted, parentNode,
                  requests, lost>>
  BY DEF vars, content, status, nodes, links, threads, loop
<1>2. TypeOK'
  BY <1>1 DEF TypeInv, TypeOK
<1>3. HandsOK'
  BY <1>1 DEF TypeInv, HandsOK
<1> QED
  BY <1>2, <1>3 DEF TypeInv

(* Every step keeps the types.                                             *)
LEMMA TypeStep == TypeInv /\ [Next]_vars => TypeInv'
<1> SUFFICES ASSUME TypeInv, [Next]_vars PROVE TypeInv'
  OBVIOUS
<1>1. ASSUME NEW j \in Jobs, JobThread(j) PROVE TypeInv'
  BY <1>1, ThreadType
<1>2. ASSUME NEW j \in Jobs, Task(j) PROVE TypeInv'
  BY <1>2, TaskType
<1>3. CASE Manager \/ ManagerStart \/ LateStart
  BY <1>3, ManagerType
<1>4. CASE OnJobAddChildren \/ OnJobFinished \/ OnManagerFinished
  BY <1>4, EventType
<1>5. CASE JobDestroyed
  BY <1>5, DestroyedType
<1>6. CASE FetchMore \/ FetchAfterWait \/ Refresh
  BY <1>6, AskType
<1>7. CASE StopAndDeleteLater
  BY <1>7, StopType
<1>8. CASE SetRootUrl \/ NewRoot
  BY <1>8, RootType
<1>9. CASE Terminate
  BY <1>9, TerminateType
<1>10. CASE UNCHANGED vars
  BY <1>10, TypeStutters
<1> QED
  BY <1>1, <1>2, <1>3, <1>4, <1>5, <1>6, <1>7, <1>8, <1>9, <1>10
  DEF Next, Interface, Maybe

(* Every variable keeps a value of its kind: no listing goes beyond its    *)
(* files, no signal names another job, and the tasks, the events and the   *)
(* controller never refer to a job that was not made.                      *)
THEOREM LoadingTypeCorrect == Spec => []TypeOK
<1>1. TypeInv => TypeOK
  BY DEF TypeInv
<1> QED
  BY <1>1, TypeInit, TypeStep, PTL DEF Spec

-----------------------------------------------------------------------------
(* Who is connected to the model, and who runs.                            *)

(* An event is on its way.                                                 *)
In(e, q) == \E i \in 1 .. Len(q) : q[i] = e
Sent(e)  == In(e, posted)

(* What is on its way after an event was put behind the others.            *)
LEMMA InAppend ==
  ASSUME NEW q \in Seq(Events), NEW x \in Events
  PROVE  \A e : In(e, Append(q, x)) <=> In(e, q) \/ e = x
<1>1. \A i : i \in 1 .. Len(q) + 1 <=> i \in 1 .. Len(q) \/ i = Len(q) + 1
  BY EventAdded
<1>2. Len(q) + 1 \notin 1 .. Len(q)
  BY EventAdded
<1> QED
  BY <1>1, <1>2, EventAdded DEF In

(* What is on its way after the first event was taken.                     *)
LEMMA InTail ==
  ASSUME NEW q \in Seq(Events), q # <<>>
  PROVE  /\ \A e : In(e, Tail(q)) => In(e, q)
         /\ \A e : In(e, q) => In(e, Tail(q)) \/ e = Head(q)
         /\ In(Head(q), q)
<1>1. \A i \in 1 .. Len(Tail(q)) : i + 1 \in 1 .. Len(q)
  BY EventTaken
<1>2. \A i \in 1 .. Len(q) : i = 1 \/ (i - 1 \in 1 .. Len(Tail(q)) /\ (i - 1) + 1 = i)
  BY EventTaken
<1>3. \A e : In(e, q) => In(e, Tail(q)) \/ e = Head(q)
  <2> SUFFICES ASSUME NEW i \in 1 .. Len(q), i # 1 PROVE In(q[i], Tail(q))
    BY EventTaken DEF In
  <2>1. i - 1 \in 1 .. Len(Tail(q)) /\ (i - 1) + 1 = i
    BY <1>2
  <2>2. Tail(q)[i - 1] = q[i]
    BY <2>1, EventTaken
  <2> QED
    BY <2>1, <2>2 DEF In
<1>4. 1 \in 1 .. Len(q)
  BY EventTaken
<1> QED
  BY <1>1, <1>3, <1>4, EventTaken DEF In

(* Nothing is on its way in an empty queue.                                *)
LEMMA InNone == \A e : ~In(e, <<>>)
  BY DEF In

(* The steps of the thread of a job, as they change its record.            *)
Moves(J, K) ==
  \/ /\ J.pc = "run" /\ K.pc = "loop" /\ K.update /\ K.from = J.done + 1
     /\ K.state = J.state /\ K.done = J.done
  \/ /\ J.pc = "run" /\ K.pc = "emit" /\ K.back = "ending" /\ K.from = 1
     /\ K.state = J.state /\ K.done = Entries /\ K.update = J.update
  \/ /\ \/ J.pc = "loop" /\ K.pc = "toWait" /\ J.state = "Paused"
        \/ J.pc = "toWait" /\ K.pc = "asleep"
     /\ K.state = J.state /\ K.done = J.done /\ K.from = J.from /\ K.update = J.update
  \/ /\ J.pc \in {"loop", "awake"}
     /\ J.done = Entries \/ J.state = "Stoped"
     /\ K.pc = (IF J.update THEN "emit" ELSE "ending") /\ K.back = "ending" /\ ~K.update
     /\ K.state = J.state /\ K.done = J.done /\ K.from = J.from
  \/ /\ J.pc = "awake" \/ (J.pc = "loop" /\ J.state # "Paused")
     /\ J.state # "Stoped" /\ K.done = J.done + 1
     /\ K.state = J.state /\ K.from = J.from
     /\ \/ K.pc = "loop" /\ K.update = J.update
        \/ K.pc = "emit" /\ K.back = "loop" /\ J.update /\ ~K.update
  \/ /\ J.pc = "emit"
     /\ \/ ~J.wired /\ K.pc = J.back
        \/ J.wired /\ J.state = "Started" /\ K.pc = "pausing"
        \/ J.wired /\ J.state # "Started" /\ K.pc = "spawn"
     /\ K.state = J.state /\ K.done = J.done /\ K.from = J.from /\ K.update = J.update
     /\ K.back = J.back
  \/ /\ J.pc = "pausing" /\ K.pc = "spawn" /\ K.state = "Paused"
     /\ K.done = J.done /\ K.from = J.from /\ K.update = J.update /\ K.back = J.back
  \/ /\ J.pc = "spawn" /\ K.pc = "assign"
     /\ K.state = J.state /\ K.done = J.done /\ K.from = J.from /\ K.update = J.update
     /\ K.back = J.back
  \/ /\ J.pc = "assign" /\ K.pc = J.back
     /\ K.state = J.state /\ K.done = J.done /\ K.from = J.from /\ K.update = J.update
     /\ K.back = J.back
  \/ J.pc = "ending" /\ K.pc = "finish" /\ K.state = "Stoped" /\ K.done = J.done
  \/ J.pc = "finish" /\ K.pc = "over" /\ K.state = J.state /\ K.done = J.done

(* A record with another place in the program.                             *)
LEMMA JobAt ==
  ASSUME NEW J \in JobRecords, NEW pc
  PROVE  LET K == [J EXCEPT !.pc = pc]
         IN  /\ K.pc = pc /\ K.state = J.state /\ K.done = J.done /\ K.from = J.from
             /\ K.update = J.update /\ K.back = J.back
  BY DEF JobRecords

(* A step of the thread that changes the place of the job only.            *)
LEMMA StepAt ==
  ASSUME TypeInv, NEW j \in Jobs, NEW pc, Step(j, pc)
  PROVE  LET J == jobs[j]
             K == jobs'[j]
         IN  /\ K.pc = pc /\ K.state = J.state /\ K.done = J.done /\ K.from = J.from
             /\ K.update = J.update /\ K.back = J.back
<1>1. jobs[j] \in JobRecords /\ jobs \in [Jobs -> JobRecords]
  BY DEF TypeInv, TypeOK
<1>2. jobs'[j] = [jobs[j] EXCEPT !.pc = pc]
  BY <1>1 DEF Step
<1> QED
  BY <1>1, <1>2, JobAt

(* The thread of a job makes one of the moves listed above.                *)
LEMMA ThreadMoves ==
  ASSUME TypeInv, NEW j \in Jobs, JobThread(j)
  PROVE  Moves(jobs[j], jobs'[j])
<1> DEFINE J == jobs[j]
<1>a. J \in JobRecords /\ jobs \in [Jobs -> JobRecords]
  BY DEF TypeInv, TypeOK
<1>1. CASE Run(j)
  <2> DEFINE r == [J EXCEPT !.pc = "loop", !.update = TRUE, !.from = J.done + 1]
             q == [J EXCEPT !.pc = "emit", !.back = "ending", !.from = 1, !.done = Entries]
  <2>1. /\ r.pc = "loop" /\ r.update /\ r.from = J.done + 1 /\ r.state = J.state
        /\ r.done = J.done
        /\ q.pc = "emit" /\ q.back = "ending" /\ q.from = 1 /\ q.state = J.state
        /\ q.done = Entries /\ q.update = J.update
    BY <1>a DEF JobRecords
  <2>2. J.pc = "run" /\ (jobs'[j] = r \/ jobs'[j] = q)
    BY <1>1, <1>a DEF Run
  <2> HIDE DEF r, q
  <2> QED
    BY <2>1, <2>2 DEF Moves
<1>2. CASE Paused(j) \/ WaitForStart(j)
  BY <1>2, StepAt DEF Paused, WaitForStart, Moves
<1>3. CASE LeaveLoop(j)
  <2> DEFINE r == [J EXCEPT !.pc = IF J.update THEN "emit" ELSE "ending",
                            !.back = "ending", !.update = FALSE]
  <2>1. /\ r.pc = (IF J.update THEN "emit" ELSE "ending") /\ r.back = "ending" /\ ~r.update
        /\ r.state = J.state /\ r.done = J.done /\ r.from = J.from
    BY <1>a DEF JobRecords
  <2>2. jobs'[j] = r /\ J.pc \in {"loop", "awake"}
        /\ (J.done = Entries \/ J.state = "Stoped")
    BY <1>3, <1>a DEF LeaveLoop, Runs, Leave
  <2> HIDE DEF r
  <2> QED
    BY <2>1, <2>2 DEF Moves
<1>4. CASE Collect(j) \/ AddChildren(j)
  <2> DEFINE next == [J EXCEPT !.done = @ + 1, !.pc = "loop"]
             full == [next EXCEPT !.pc = "emit", !.back = "loop", !.update = FALSE]
  <2>1. /\ next.pc = "loop" /\ next.done = J.done + 1 /\ next.state = J.state
        /\ next.from = J.from /\ next.update = J.update
        /\ full.pc = "emit" /\ full.done = J.done + 1 /\ full.state = J.state
        /\ full.from = J.from /\ ~full.update /\ full.back = "loop"
    BY <1>a DEF JobRecords
  <2>2. /\ jobs'[j] = next \/ (jobs'[j] = full /\ J.update)
        /\ J.pc = "awake" \/ (J.pc = "loop" /\ J.state # "Paused")
        /\ J.state # "Stoped"
    BY <1>4, <1>a DEF Collect, AddChildren, Runs
  <2> HIDE DEF next, full
  <2> QED
    BY <2>1, <2>2 DEF Moves
<1>5. CASE Emit(j)
  <2>1. J.pc = "emit"
    BY <1>5 DEF Emit
  <2>2. \/ ~J.wired /\ Step(j, J.back)
        \/ J.wired /\ J.state = "Started" /\ Step(j, "pausing")
        \/ J.wired /\ J.state # "Started" /\ Step(j, "spawn")
    BY <1>5 DEF Emit
  <2> QED
    BY <2>1, <2>2, StepAt DEF Moves
<1>6. CASE Pause(j) \/ Ending(j)
  <2> DEFINE r(s, pc) == [J EXCEPT !.state = s, !.pc = pc]
  <2>1. \A s, pc : /\ r(s, pc).pc = pc /\ r(s, pc).state = s /\ r(s, pc).done = J.done
                   /\ r(s, pc).from = J.from /\ r(s, pc).update = J.update
                   /\ r(s, pc).back = J.back
    BY <1>a DEF JobRecords
  <2>2. \/ J.pc = "pausing" /\ jobs'[j] = r("Paused", "spawn")
        \/ J.pc = "ending" /\ jobs'[j] = r("Stoped", "finish")
    BY <1>6, <1>a DEF Pause, Ending
  <2> HIDE DEF r
  <2> QED
    BY <2>1, <2>2 DEF Moves
<1>7. CASE Spawn(j) \/ Assign(j) \/ Finish(j)
  BY <1>7, StepAt DEF Spawn, Assign, Finish, Moves
<1> QED
  BY <1>1, <1>2, <1>3, <1>4, <1>5, <1>6, <1>7 DEF JobThread

(* What the thread of a job sends.                                         *)
Ends(j) ==
  LET fin == <<"finished", j>>
      del == <<"delete", j>>
  IN  /\ jobs[j].pc = "finish" /\ jobs'[j].pc = "over"
      /\ posted' = CASE jobs[j].wired /\ jobs[j].dying -> Append(Append(posted, fin), del)
                     [] jobs[j].wired /\ ~jobs[j].dying -> Append(posted, fin)
                     [] ~jobs[j].wired /\ jobs[j].dying -> Append(posted, del)
                     [] ~jobs[j].wired /\ ~jobs[j].dying -> posted

(* The events that a job sends at its end, one behind the other.           *)
LEMMA Concats ==
  ASSUME NEW q \in Seq(Events), NEW x \in Events, NEW y \in Events
  PROVE  /\ q \o <<x>> \o <<y>> = Append(Append(q, x), y)
         /\ q \o <<x>> \o <<>> = Append(q, x)
         /\ q \o <<>> \o <<y>> = Append(q, y)
         /\ q \o <<>> \o <<>> = q
<1>1. q \o <<x>> = Append(q, x) /\ q \o <<y>> = Append(q, y) /\ q \o <<>> = q
  BY AppendIsConcat, ConcatEmptySeq
<1>2. Append(q, x) \in Seq(Events)
  BY EventAdded
<1>3. Append(q, x) \o <<y>> = Append(Append(q, x), y) /\ Append(q, x) \o <<>> = Append(q, x)
  BY <1>2, AppendIsConcat, ConcatEmptySeq
<1> QED
  BY <1>1, <1>3

(* A thread sends nothing, the file it has listed, or what comes at its    *)
(* end.                                                                    *)
LEMMA ThreadPosts ==
  ASSUME TypeInv, NEW j \in Jobs, JobThread(j)
  PROVE  \/ UNCHANGED posted /\ jobs'[j].pc # "over"
         \/ /\ AddChildren(j) /\ jobs[j].wired /\ jobs'[j].pc = "loop"
            /\ <<jobs[j].root, jobs[j].done + 1>> \in Files
            /\ posted' = Append(posted, <<"addChildren", <<jobs[j].root, jobs[j].done + 1>>>>)
         \/ Ends(j)
<1> DEFINE J == jobs[j]
<1>a. J \in JobRecords /\ jobs \in [Jobs -> JobRecords] /\ posted \in Seq(Events)
  BY DEF TypeInv, TypeOK, HandsOK
<1>1. CASE AddChildren(j)
  <2> DEFINE next == [J EXCEPT !.done = @ + 1, !.pc = "loop"]
  <2>1. J.done + 1 \in 1 .. Entries /\ J.root \in Roots
    BY <1>1, <1>a, LoadingAssumption DEF AddChildren, Runs, JobRecords
  <2>2. next.wired = J.wired /\ next.root = J.root /\ next.done = J.done + 1 /\ next.pc = "loop"
    BY <1>a DEF JobRecords
  <2>3. jobs' = [jobs EXCEPT ![j] = next]
        /\ posted' = IF ~next.wired THEN posted
                     ELSE Append(posted, <<"addChildren", <<next.root, next.done>>>>)
    BY <1>1 DEF AddChildren
  <2> HIDE DEF next
  <2>4. jobs'[j].pc = "loop"
    BY <1>a, <2>2, <2>3
  <2> QED
    BY <1>1, <2>1, <2>2, <2>3, <2>4 DEF Files
<1>2. CASE Finish(j)
  <2>1. jobs'[j].pc = "over" /\ J.pc = "finish"
    BY <1>2, <1>a DEF Finish, Step, JobRecords
  <2>2. <<"finished", j>> \in Events /\ <<"delete", j>> \in Events
    BY EventsTyped
  <2>3. posted' = posted \o (IF J.wired THEN <<<<"finished", j>>>> ELSE <<>>)
                         \o (IF J.dying THEN <<<<"delete", j>>>> ELSE <<>>)
    BY <1>2 DEF Finish
  <2> QED
    BY <1>a, <2>1, <2>2, <2>3, Concats DEF Ends
<1>3. CASE ~AddChildren(j) /\ ~Finish(j)
  <2>1. UNCHANGED posted
    BY <1>3 DEF JobThread, Run, Paused, WaitForStart, LeaveLoop, Collect, Emit, Pause, Spawn,
       Assign, Ending, loop
  <2>2. J.pc # "finish"
    BY <1>3 DEF JobThread, Run, Paused, WaitForStart, LeaveLoop, Collect, Emit, Pause, Spawn,
       Assign, Ending, Runs
  <2>3. jobs'[j].pc # "over"
    BY <1>a, <2>2, ThreadMoves DEF Moves, JobRecords
  <2> QED
    BY <2>1, <2>3
<1> QED
  BY <1>1, <1>2, <1>3

(* The loop of fetchMore(): the interface thread is within it unless it is *)
(* in the loop of the application, and the root is not populated.          *)
LoopOK ==
  /\ main = "loop" => ~eventLoop
  /\ main \in {"stopping", "nested", "leave0", "leave1"} => eventLoop
  /\ eventLoop => ~populated
  /\ main = "stopping" => parentNode = root
  /\ populated => enable

Born(j) == jobs[j].pc # "unborn"

(* Jobs are born in order, and the controller is the last one.             *)
ControllerOK ==
  /\ \A i, k \in Jobs : i < k /\ Born(k) => Born(i)
  /\ jobController # None =>
       Born(jobController) /\ \A k \in Jobs : jobController < k => ~Born(k)

(* The model is connected to no other job, and to none while fetchMore()   *)
(* or setRootUrl() waits.                                                  *)
WiredOK ==
  \A j \in Jobs : jobs[j].wired =>
    /\ j = jobController /\ ~eventLoop /\ main # "waitFuture"
    /\ jobs[j].root = root \/ "oldParent" \in lost

(* Nothing refers to a job that is not born.                               *)
LiveOK == \A j \in Jobs : jobs[j].wired \/ jobs[j].dying => jobs[j].pc \notin {"unborn", "gone"}

(* Tasks are of jobs that were born, and pause and start such jobs only.   *)
TasksBorn ==
  \A j \in Jobs :
    /\ ~Born(j) => tasks[j].pc = "done"
    /\ tasks[j].job # None => Born(tasks[j].job)

(* So are the events about jobs.                                           *)
SentBorn == \A j \in Jobs : Sent(<<"finished", j>>) \/ Sent(<<"delete", j>>) => Born(j)

LastOK == ControllerOK /\ WiredOK /\ LiveOK /\ TasksBorn /\ SentBorn

(* The first part of the invariant: what holds whatever race is lost.      *)
LinkInv == TypeInv /\ LoopOK /\ LastOK

(* Jobs are ordered, and no job is none.                                   *)
LEMMA NoneIsNoJob == None \notin Jobs /\ \A i, k \in Jobs : i # k => i < k \/ k < i
  BY LoadingAssumption DEF None, Jobs

(* In the beginning no job is born.                                        *)
LEMMA LinkInit == Init => LinkInv
<1> SUFFICES ASSUME Init PROVE LinkInv
  OBVIOUS
<1>1. \A j \in Jobs : jobs[j] = Unborn /\ tasks[j] = Done
  BY DEF Init
<1>2. Unborn.pc = "unborn" /\ ~Unborn.wired /\ ~Unborn.dying
      /\ Done.pc = "done" /\ Done.job = None
  BY DEF Unborn, Done
<1>3. LoopOK
  BY DEF Init, LoopOK
<1>4. LastOK
  BY <1>1, <1>2, InNone
  DEF Init, LastOK, ControllerOK, WiredOK, LiveOK, TasksBorn, SentBorn, Born, Sent
<1> QED
  BY <1>3, <1>4, TypeInit DEF LinkInv

(* A thread takes no event back, and sends those about itself at its end   *)
(* only.                                                                   *)
LEMMA ThreadSent ==
  ASSUME TypeInv, NEW j \in Jobs, JobThread(j)
  PROVE  /\ \A e : Sent(e) => Sent(e)'
         /\ \A i \in Jobs : LET fin == <<"finished", i>>
                                del == <<"delete", i>>
                            IN  /\ Sent(fin)' => Sent(fin) \/ (i = j /\ jobs'[j].pc = "over")
                                /\ Sent(del)' => Sent(del) \/ (i = j /\ jobs'[j].pc = "over")
         /\ jobs[j].dying /\ jobs'[j].pc = "over" => Sent(<<"delete", j>>)'
<1>1. posted \in Seq(Events)
  BY DEF TypeInv, HandsOK
<1>2. CASE UNCHANGED posted /\ jobs'[j].pc # "over"
  BY <1>2 DEF Sent
<1>3. CASE /\ jobs'[j].pc = "loop"
           /\ <<jobs[j].root, jobs[j].done + 1>> \in Files
           /\ posted' = Append(posted, <<"addChildren", <<jobs[j].root, jobs[j].done + 1>>>>)
  <2>1. \A e : Sent(e)' <=> Sent(e) \/ e = <<"addChildren", <<jobs[j].root, jobs[j].done + 1>>>>
    BY <1>1, <1>3, InAppend, EventsTyped DEF Sent
  <2> QED
    BY <1>3, <2>1
<1>4. CASE Ends(j)
  <2> DEFINE fin == <<"finished", j>>
             del == <<"delete", j>>
  <2>1. fin \in Events /\ del \in Events
    BY EventsTyped
  <2>2. Append(posted, fin) \in Seq(Events)
    BY <1>1, <2>1, EventAdded
  <2>3. /\ \A e : In(e, Append(posted, fin)) <=> In(e, posted) \/ e = fin
        /\ \A e : In(e, Append(posted, del)) <=> In(e, posted) \/ e = del
        /\ \A e : In(e, Append(Append(posted, fin), del)) <=> In(e, posted) \/ e = fin \/ e = del
    BY <1>1, <2>1, <2>2, InAppend
  <2>4. \/ posted' = Append(Append(posted, fin), del)
        \/ posted' = Append(posted, fin) /\ ~jobs[j].dying
        \/ posted' = Append(posted, del)
        \/ posted' = posted /\ ~jobs[j].dying
    BY <1>4 DEF Ends
  <2>5. jobs'[j].pc = "over"
    BY <1>4 DEF Ends
  <2> HIDE DEF fin, del
  <2>6. \A e : Sent(e) => Sent(e)'
    BY <2>3, <2>4 DEF Sent
  <2>7. \A e : Sent(e)' => Sent(e) \/ e = fin \/ e = del
    BY <2>3, <2>4 DEF Sent
  <2>8. jobs[j].dying => Sent(del)'
    BY <2>3, <2>4 DEF Sent
  <2>9. \A i \in Jobs : (<<"finished", i>> = fin => i = j) /\ <<"finished", i>> # del
                     /\ (<<"delete", i>> = del => i = j) /\ <<"delete", i>> # fin
    BY DEF fin, del
  <2> QED
    BY <2>5, <2>6, <2>7, <2>8, <2>9 DEF del
<1> QED
  BY <1>2, <1>3, <1>4, ThreadPosts

(* The thread of a job keeps the first part of the invariant.              *)
LEMMA ThreadLinks ==
  ASSUME LinkInv, NEW j \in Jobs, JobThread(j)
  PROVE  LinkInv'
<1>1. /\ UNCHANGED <<root, populated, enable, jobController, main, eventLoop, parentNode, lost>>
      /\ Own(j)
  BY ThreadLeaves, ThreadTyped DEF content, nodes, LinkInv
<1>2. LoopOK'
  BY <1>1 DEF LinkInv, LoopOK
<1>3. \A i \in Jobs : /\ jobs'[i].root = jobs[i].root /\ jobs'[i].wired = jobs[i].wired
                      /\ jobs'[i].dying = jobs[i].dying /\ (Born(i)' <=> Born(i))
                      /\ jobs[i].pc # "gone" => jobs'[i].pc # "gone"
  BY <1>1 DEF Own, Born
<1>4. \A i \in Jobs : /\ ~Born(i)' => tasks'[i] = tasks[i]
                      /\ tasks'[i].job \in {tasks[i].job, None}
  <2>1. CASE UNCHANGED tasks
    BY <2>1
  <2>2. CASE Spawn(j)
    <3>1. /\ tasks \in [Jobs -> TaskRecords]
          /\ tasks' = [tasks EXCEPT ![j] = [pc |-> "begin", job |-> None,
                        list |-> {jobs[j].root} \X (jobs[j].from .. jobs[j].done)]]
      BY <2>2 DEF Spawn, LinkInv, TypeInv, HandsOK
    <3>2. \A i \in Jobs \ {j} : tasks'[i] = tasks[i]
      BY <3>1
    <3>3. tasks'[j].job = None
      BY <3>1
    <3>4. Born(j)'
      BY <1>1 DEF Own, Born
    <3> QED
      BY <3>2, <3>3, <3>4
  <2> QED
    BY <2>1, <2>2 DEF JobThread, Run, Paused, WaitForStart, LeaveLoop, Collect, AddChildren,
       Emit, Pause, Assign, Ending, Finish
<1>5. SentBorn'
  <2> SUFFICES ASSUME NEW i \in Jobs, Sent(<<"finished", i>>)' \/ Sent(<<"delete", i>>)'
               PROVE  Born(i)'
    BY DEF SentBorn
  <2>1. Sent(<<"finished", i>>) \/ Sent(<<"delete", i>>) \/ i = j
    BY ThreadSent DEF LinkInv
  <2>2. Born(j)'
    BY <1>1 DEF Own, Born
  <2> QED
    BY <1>3, <2>1, <2>2 DEF LinkInv, LastOK, SentBorn
<1>6. TasksBorn'
  <2> SUFFICES ASSUME NEW i \in Jobs
               PROVE  /\ ~Born(i)' => tasks'[i].pc = "done"
                      /\ tasks'[i].job # None => Born(tasks[i].job)'
    BY DEF TasksBorn
  <2>1. tasks[i].job \in Jobs \union {None}
    BY DEF LinkInv, TypeInv, HandsOK, TaskRecords
  <2>2. tasks'[i].job # None => tasks'[i].job = tasks[i].job
    BY <1>4
  <2> QED
    BY <1>3, <1>4, <2>1, <2>2 DEF LinkInv, LastOK, TasksBorn, Born
<1>7. ControllerOK'
  BY <1>1, <1>3 DEF LinkInv, LastOK, ControllerOK, Born, TypeInv, TypeOK
<1>8. WiredOK' /\ LiveOK'
  BY <1>1, <1>3 DEF LinkInv, LastOK, WiredOK, LiveOK, Born
<1> QED
  BY <1>2, <1>5, <1>6, <1>7, <1>8, ThreadType DEF LinkInv, LastOK

(* So do the tasks.                                                        *)
LEMMA TaskLinks ==
  ASSUME LinkInv, NEW j \in Jobs, Task(j)
  PROVE  LinkInv'
<1>1. /\ UNCHANGED <<root, populated, enable, jobController, main, eventLoop, parentNode, posted>>
      /\ Touched /\ lost \subseteq lost'
  BY TaskLeaves, TaskTouches DEF nodes, links, loop, LinkInv
<1>2. LoopOK'
  BY <1>1 DEF LinkInv, LoopOK
<1>3. \A i \in Jobs : /\ jobs'[i].root = jobs[i].root /\ jobs'[i].wired = jobs[i].wired
                      /\ jobs'[i].dying = jobs[i].dying /\ (Born(i)' <=> Born(i))
                      /\ jobs[i].pc # "gone" => jobs'[i].pc # "gone"
  <2> SUFFICES ASSUME NEW i \in Jobs
               PROVE  /\ jobs'[i].root = jobs[i].root /\ jobs'[i].wired = jobs[i].wired
                      /\ jobs'[i].dying = jobs[i].dying /\ (Born(i)' <=> Born(i))
                      /\ jobs[i].pc # "gone" => jobs'[i].pc # "gone"
    OBVIOUS
  <2>1. /\ jobs'[i].root = jobs[i].root /\ jobs'[i].wired = jobs[i].wired
        /\ jobs'[i].dying = jobs[i].dying
    BY <1>1 DEF Touched, Kept
  <2>2. ASSUME Restarted(i) PROVE Born(i)
    <3>1. PICK t \in Jobs : tasks[t].job = i
      BY <2>2 DEF Restarted
    <3> QED
      BY <3>1, NoneIsNoJob DEF LinkInv, LastOK, TasksBorn
  <2>3. \/ jobs'[i].pc = jobs[i].pc
        \/ jobs[i].pc = "asleep" /\ jobs'[i].pc = "awake"
        \/ Restarted(i) /\ jobs'[i].pc = "run"
    BY <1>1 DEF Touched, Restarted
  <2> QED
    BY <2>1, <2>2, <2>3 DEF Born
<1>4. TasksBorn'
  <2> SUFFICES ASSUME NEW i \in Jobs
               PROVE  /\ ~Born(i)' => tasks'[i].pc = "done"
                      /\ tasks'[i].job # None => Born(tasks[i].job)'
    BY DEF TasksBorn
  <2>1. /\ tasks[i].job \in Jobs \union {None} /\ jobController \in Jobs \union {None}
        /\ jobController # None => Born(jobController)
        /\ tasks[i].job # None => Born(tasks[i].job)
        /\ ~Born(i) => tasks[i].pc = "done"
    BY DEF LinkInv, TypeInv, TypeOK, HandsOK, TaskRecords, LastOK, ControllerOK, TasksBorn
  <2>2. /\ tasks'[i].job \in {tasks[i].job, jobController, None}
        /\ tasks'[i] = tasks[i] \/ (i = j /\ tasks[j].pc # "done")
    BY TaskSteps DEF LinkInv
  <2>3. tasks'[i].job # None => tasks'[i].job \in Jobs /\ Born(tasks[i].job)'
    BY <1>3, <2>1, <2>2 DEF Born
  <2> QED
    BY <1>3, <2>1, <2>2, <2>3
<1>5. ControllerOK'
  BY <1>1, <1>3 DEF LinkInv, LastOK, ControllerOK, Born, TypeInv, TypeOK
<1>6. WiredOK' /\ LiveOK'
  BY <1>1, <1>3 DEF LinkInv, LastOK, WiredOK, LiveOK, Born
<1>7. SentBorn'
  BY <1>1, <1>3 DEF LinkInv, LastOK, SentBorn, Sent
<1> QED
  BY <1>2, <1>4, <1>5, <1>6, <1>7, TaskType DEF LinkInv, LastOK

(* What leaves the jobs and the loop alone.                                *)
LEMMA LinksKept ==
  ASSUME LinkInv, TypeInv', lost \subseteq lost', SentBorn',
         UNCHANGED <<root, populated, enable, jobs, tasks, jobController, main, eventLoop,
                     parentNode>>
  PROVE  LinkInv'
<1>1. LoopOK'
  BY DEF LinkInv, LoopOK
<1>2. ControllerOK' /\ LiveOK' /\ TasksBorn'
  BY DEF LinkInv, LastOK, ControllerOK, LiveOK, TasksBorn, Born
<1>3. WiredOK'
  BY DEF LinkInv, LastOK, WiredOK
<1> QED
  BY <1>1, <1>2, <1>3 DEF LinkInv, LastOK

(* The queue of the events behind a step of the interface thread.          *)
LEMMA SentAdded ==
  ASSUME TypeInv, NEW x \in Events, posted' = Append(posted, x)
  PROVE  \A e : Sent(e)' <=> Sent(e) \/ e = x
  BY InAppend DEF TypeInv, HandsOK, Sent

(* What is on its way after the interface thread took an event.            *)
LEMMA SentTaken ==
  ASSUME TypeInv, NEW kind, Event(kind), posted' = Tail(posted)
  PROVE  /\ \A e : Sent(e)' => Sent(e)
         /\ \A e : Sent(e) => Sent(e)' \/ e = Head(posted)
         /\ Sent(Head(posted))
  BY InTail DEF TypeInv, HandsOK, Sent, Event

(* The thread of the manager keeps the first part of the invariant.        *)
LEMMA ManagerLinks ==
  ASSUME LinkInv, Manager \/ ManagerStart \/ LateStart
  PROVE  LinkInv'
<1>1. TypeInv'
  BY ManagerType DEF LinkInv
<1>2. UNCHANGED <<root, populated, enable, jobs, tasks, jobController, main, eventLoop,
                  parentNode, lost>>
      /\ posted' \in {posted, Append(posted, <<"managerFinished">>)}
  BY DEF Manager, ManagerStart, LateStart, Insert, LastLook, ManagerEnd, loop, content, status,
     links, threads
<1>3. SentBorn'
  <2>1. CASE UNCHANGED posted
    BY <1>2, <2>1 DEF LinkInv, LastOK, SentBorn, Born, Sent
  <2>2. CASE posted' = Append(posted, <<"managerFinished">>)
    <3>1. \A e : Sent(e)' <=> Sent(e) \/ e = <<"managerFinished">>
      BY <2>2, SentAdded, EventsTyped DEF LinkInv
    <3>2. \A j \in Jobs : <<"finished", j>> # <<"managerFinished">>
                          /\ <<"delete", j>> # <<"managerFinished">>
      OBVIOUS
    <3> QED
      BY <1>2, <3>1, <3>2 DEF LinkInv, LastOK, SentBorn, Born
  <2> QED
    BY <1>2, <2>1, <2>2
<1> QED
  BY <1>1, <1>2, <1>3, LinksKept

(* So do the handlers of events.                                           *)
LEMMA EventLinks ==
  ASSUME LinkInv, OnJobAddChildren \/ OnJobFinished \/ OnManagerFinished
  PROVE  LinkInv'
<1>1. TypeInv' /\ TypeInv
  BY EventType DEF LinkInv
<1>2. UNCHANGED <<root, populated, enable, jobs, tasks, jobController, main, eventLoop,
                  parentNode>> /\ lost \subseteq lost'
  BY DEF OnJobAddChildren, OnJobFinished, OnManagerFinished, AddFile, content, status, links,
     threads, nodes
<1>3. SentBorn'
  <2>1. CASE posted' = Tail(posted) /\ \E kind : Event(kind)
    <3>1. \A e : Sent(e)' => Sent(e)
      BY <1>1, <2>1, SentTaken
    <3> QED
      BY <1>2, <3>1 DEF LinkInv, LastOK, SentBorn, Born
  <2>2. CASE OnJobFinished
    <3> DEFINE k == Head(posted)[2]
    <3>1. /\ Event("finished") /\ posted # <<>> /\ posted \in Seq(Events)
          /\ posted' = Append(Tail(posted), <<"delete", k>>)
      BY <1>1, <2>2 DEF OnJobFinished, Event, TypeInv, HandsOK
    <3>2. k \in Jobs /\ Head(posted)[1] = "finished" /\ Head(posted) \in Events
          /\ Tail(posted) \in Seq(Events)
      BY <1>1, <3>1, EventHead
    <3>3. Head(posted) = <<"finished", k>>
      BY <3>2 DEF Events
    <3>4. Sent(<<"finished", k>>)
      BY <3>1, <3>3, InTail DEF Sent
    <3>5. \A e : Sent(e)' => Sent(e) \/ e = <<"delete", k>>
      <4>1. <<"delete", k>> \in Events
        BY <3>2, EventsTyped
      <4>2. \A e : In(e, Append(Tail(posted), <<"delete", k>>))
                     <=> In(e, Tail(posted)) \/ e = <<"delete", k>>
        BY <3>2, <4>1, InAppend
      <4>3. \A e : In(e, Tail(posted)) => In(e, posted)
        BY <3>1, InTail
      <4> QED
        BY <3>1, <4>2, <4>3 DEF Sent
    <3> HIDE DEF k
    <3> QED
      BY <1>2, <3>2, <3>4, <3>5 DEF LinkInv, LastOK, SentBorn, Born
  <2> QED
    BY <2>1, <2>2 DEF OnJobAddChildren, OnManagerFinished
<1> QED
  BY <1>1, <1>2, <1>3, LinksKept

(* A destroyed job is connected to nothing, and the controller is not that *)
(* job.                                                                    *)
LEMMA DestroyedLinks ==
  ASSUME LinkInv, JobDestroyed
  PROVE  LinkInv'
<1> DEFINE j == Head(posted)[2]
<1>1. /\ TypeInv' /\ TypeInv /\ j \in Jobs
      /\ jobs' = [jobs EXCEPT ![j] = Ruin(jobs[j].root)]
      /\ jobs \in [Jobs -> JobRecords] /\ jobs[j].root \in Roots
  BY DestroyedType DEF LinkInv, TypeInv, TypeOK, JobRecords
<1>2. /\ UNCHANGED <<root, populated, enable, tasks, eventLoop, parentNode, lost>>
      /\ posted' = Tail(posted) /\ Event("delete")
      /\ jobController' = IF jobController = j THEN None ELSE jobController
      /\ main' \in {main, "leave0"} /\ (main' # main => eventLoop)
  BY DEF JobDestroyed, content, status, nodes
<1>3. main # "waitFuture" /\ main # "stopping"
  BY <1>2 DEF Event, Listening
<1>4. Born(j)
  <2>1. Head(posted)[1] = "delete" /\ Head(posted) \in Events
    BY <1>1, <1>2, EventHead
  <2>2. Head(posted) = <<"delete", j>>
    BY <2>1 DEF Events
  <2> QED
    BY <1>1, <1>2, <2>2, SentTaken DEF LinkInv, LastOK, SentBorn
<1> HIDE DEF j
<1>5. /\ jobs'[j].pc = "gone" /\ ~jobs'[j].wired /\ ~jobs'[j].dying
      /\ \A i \in Jobs \ {j} : jobs'[i] = jobs[i]
      /\ \A i \in Jobs : Born(i)' <=> Born(i)
  BY <1>1, <1>4, RuinTyped DEF Born
<1>6. LoopOK'
  BY <1>2 DEF LinkInv, LoopOK
<1>7. ControllerOK'
  <2>1. \A i, k \in Jobs : i < k /\ Born(k)' => Born(i)'
    BY <1>5 DEF LinkInv, LastOK, ControllerOK
  <2>2. ASSUME jobController' # None
        PROVE  Born(jobController)' /\ \A k \in Jobs : jobController' < k => ~Born(k)'
    <3>1. jobController' = jobController /\ jobController \in Jobs
      BY <1>1, <1>2, <2>2 DEF TypeInv, TypeOK
    <3> QED
      BY <1>5, <2>2, <3>1 DEF LinkInv, LastOK, ControllerOK, Born
  <2> QED
    BY <2>1, <2>2 DEF ControllerOK
<1>8. WiredOK' /\ LiveOK'
  BY <1>2, <1>3, <1>5 DEF LinkInv, LastOK, WiredOK, LiveOK
<1>9. TasksBorn'
  <2>1. \A i \in Jobs : tasks[i].job \in Jobs \union {None}
    BY DEF LinkInv, TypeInv, HandsOK, TaskRecords
  <2> QED
    BY <1>2, <1>5, <2>1 DEF LinkInv, LastOK, TasksBorn, Born
<1>10. SentBorn'
  <2>1. \A e : Sent(e)' => Sent(e)
    BY <1>1, <1>2, SentTaken
  <2> QED
    BY <1>5, <2>1 DEF LinkInv, LastOK, SentBorn
<1> QED
  BY <1>1, <1>6, <1>7, <1>8, <1>9, <1>10 DEF LinkInv, LastOK

(* Of the jobs js that NewJob() finds, none is connected to the model.     *)
Unwired(js) ==
  \A i \in Jobs : /\ ~js[i].wired /\ js[i].root = jobs[i].root
                  /\ js[i].dying = jobs[i].dying /\ js[i].pc = jobs[i].pc

(* A new job is the last one and the only one connected to the model.      *)
LEMMA NewJobLinks ==
  ASSUME LinkInv, TypeInv', NEW js \in [Jobs -> JobRecords], Unwired(js), NEW r \in Roots,
         NEW pst \in Seq(Events), NewJob(js, r, pst), lost \subseteq lost',
         r = root \/ "oldParent" \in lost',
         \A j \in Jobs : In(<<"finished", j>>, pst) \/ In(<<"delete", j>>, pst) => Born(j)
  PROVE  LinkInv'
<1>1. PICK j \in Jobs : BornAs(js, r, j)
  BY NewJobBorn
<1>2. /\ main' = "loop" /\ eventLoop' = FALSE /\ posted' = pst /\ enable' = TRUE
      /\ UNCHANGED <<root, tasks>> /\ jobController' = j
  <2>1. jobController' = j
    BY <1>1 DEF BornAs
  <2> QED
    BY <2>1, NewJobBorn
<1>3. /\ \A i \in Jobs \ {j} : jobs'[i] = js[i]
      /\ jobs'[j].pc = "run" /\ jobs'[j].wired /\ ~jobs'[j].dying /\ jobs'[j].root = r
      /\ ~Born(j) /\ \A i \in Jobs : i < j => Born(i)
  BY <1>1 DEF BornAs, Unwired, Born
<1>4. \A i \in Jobs : i # j => ~jobs'[i].wired /\ (Born(i)' <=> Born(i))
                               /\ jobs'[i].dying = jobs[i].dying /\ jobs'[i].pc = jobs[i].pc
  BY <1>3 DEF Unwired, Born
<1>5. LoopOK'
  BY <1>2 DEF LoopOK
<1>6. ControllerOK'
  <2>1. \A i \in Jobs : j < i => ~Born(i)
    BY <1>3 DEF LinkInv, LastOK, ControllerOK
  <2>2. Born(j)'
    BY <1>3 DEF Born
  <2>3. \A i, k \in Jobs : i < k /\ Born(k)' => Born(i)'
    <3> SUFFICES ASSUME NEW i \in Jobs, NEW k \in Jobs, i < k, Born(k)' PROVE Born(i)'
      OBVIOUS
    <3>1. CASE i = j
      BY <2>2, <3>1
    <3>2. CASE k = j
      BY <1>3, <1>4, <2>2, <3>2
    <3>3. CASE i # j /\ k # j
      BY <1>4, <3>3 DEF LinkInv, LastOK, ControllerOK
    <3> QED
      BY <3>1, <3>2, <3>3
  <2>4. \A k \in Jobs : j < k => ~Born(k)'
    <3>1. \A k \in Jobs : j < k => k # j
      BY LoadingAssumption DEF Jobs
    <3> QED
      BY <1>4, <2>1, <3>1
  <2> QED
    BY <1>2, <2>2, <2>3, <2>4 DEF ControllerOK, Born
<1>7. WiredOK'
  BY <1>2, <1>3, <1>4 DEF WiredOK
<1>8. LiveOK'
  BY <1>3, <1>4 DEF LinkInv, LastOK, LiveOK
<1>9. TasksBorn'
  <2>1. \A i \in Jobs : tasks[i].job \in Jobs \union {None}
    BY DEF LinkInv, TypeInv, HandsOK, TaskRecords
  <2>2. \A i \in Jobs : Born(i) => Born(i)'
    BY <1>3, <1>4
  <2> QED
    BY <1>2, <2>1, <2>2 DEF LinkInv, LastOK, TasksBorn, Born
<1>10. SentBorn'
  BY <1>2, <1>3, <1>4 DEF SentBorn, Sent, Born
<1> QED
  BY <1>5, <1>6, <1>7, <1>8, <1>9, <1>10 DEF LinkInv, LastOK

(* In fetchMore(), the last job is finished, and connected no more.        *)
LEMMA LeftUnwired ==
  ASSUME LinkInv
  PROVE  /\ Unwired(Left)
         /\ jobController # None => Unwired(Cut(jobController))
         /\ \A j \in Jobs : In(<<"finished", j>>, Sends) \/ In(<<"delete", j>>, Sends) => Born(j)
<1>1. jobController \in Jobs \union {None} /\ posted \in Seq(Events)
  BY DEF LinkInv, TypeInv, TypeOK, HandsOK
<1>2. \A j \in Jobs : jobs[j].wired => j = jobController
  BY DEF LinkInv, LastOK, WiredOK
<1>3. jobController # None => Unwired(Cut(jobController))
  BY <1>1, <1>2, CutTyped DEF LinkInv, Unwired
<1>4. jobController = None => Unwired(jobs)
  BY <1>2, NoneIsNoJob DEF Unwired
<1>5. ASSUME NEW j \in Jobs, In(<<"finished", j>>, Sends) \/ In(<<"delete", j>>, Sends)
      PROVE  Born(j)
  <2>1. CASE jobController = None
    BY <1>5, <2>1 DEF Sends, LinkInv, LastOK, SentBorn, Sent
  <2>2. CASE jobController # None
    <3>1. Born(jobController) /\ <<"delete", jobController>> \in Events
      BY <1>1, <2>2, EventsTyped DEF LinkInv, LastOK, ControllerOK
    <3>2. \A e : In(e, Sends) <=> In(e, posted) \/ e = <<"delete", jobController>>
      BY <1>1, <2>2, <3>1, InAppend DEF Sends
    <3> QED
      BY <1>5, <3>1, <3>2 DEF LinkInv, LastOK, SentBorn, Sent
  <2> QED
    BY <2>1, <2>2
<1> QED
  BY <1>3, <1>4, <1>5 DEF Left

(* What lets no job be born.                                               *)
LEMMA LinksStay ==
  ASSUME LinkInv, TypeInv', LoopOK', WiredOK', LiveOK', UNCHANGED tasks,
         jobController' \in {None, jobController}, \A i \in Jobs : Born(i)' <=> Born(i),
         \A j \in Jobs : Sent(<<"finished", j>>)' \/ Sent(<<"delete", j>>)' => Born(j)
  PROVE  LinkInv'
<1>1. ControllerOK'
  <2>1. \A i, k \in Jobs : i < k /\ Born(k)' => Born(i)'
    BY DEF LinkInv, LastOK, ControllerOK
  <2>2. ASSUME jobController' # None
        PROVE  Born(jobController)' /\ \A k \in Jobs : jobController' < k => ~Born(k)'
    <3>1. jobController' = jobController /\ jobController \in Jobs
      BY <2>2 DEF LinkInv, TypeInv, TypeOK
    <3> QED
      BY <2>2, <3>1 DEF LinkInv, LastOK, ControllerOK, Born
  <2> QED
    BY <2>1, <2>2 DEF ControllerOK
<1>2. TasksBorn'
  <2>1. \A i \in Jobs : tasks[i].job \in Jobs \union {None}
    BY DEF LinkInv, TypeInv, HandsOK, TaskRecords
  <2> QED
    BY <2>1 DEF LinkInv, LastOK, TasksBorn, Born
<1>3. SentBorn'
  BY DEF SentBorn
<1> QED
  BY <1>1, <1>2, <1>3 DEF LinkInv, LastOK

(* fetchMore() keeps the first part of the invariant.                      *)
LEMMA FetchLinks ==
  ASSUME LinkInv, TypeInv', Fetch, main = "loop", ~eventLoop
  PROVE  LinkInv'
<1>1. CASE /\ jobController # None /\ ~isFinished(jobController) /\ jobController \in Jobs
            /\ jobs' = Cut(jobController)
            /\ populated' = FALSE /\ parentNode' = root
            /\ main' = "stopping" /\ eventLoop' = TRUE
            /\ UNCHANGED <<root, state, childrenUpdated, enable, queue, manager, jobController,
                           future, tasks, posted, lost>>
  <2>1. Unwired(jobs')
    BY <1>1, LeftUnwired
  <2>2. LoopOK'
    BY <1>1 DEF LoopOK
  <2>3. WiredOK' /\ LiveOK'
    BY <2>1 DEF Unwired, WiredOK, LinkInv, LastOK, LiveOK
  <2>4. \A i \in Jobs : Born(i)' <=> Born(i)
    BY <2>1 DEF Unwired, Born
  <2>5. \A j \in Jobs : Sent(<<"finished", j>>)' \/ Sent(<<"delete", j>>)' => Born(j)
    BY <1>1 DEF LinkInv, LastOK, SentBorn, Sent
  <2> QED
    BY <1>1, <2>2, <2>3, <2>4, <2>5, LinksStay
<1>2. CASE Left \in [Jobs -> JobRecords] /\ NewJob(Left, root, Sends)
           /\ Sends \in Seq(Events) /\ UNCHANGED lost
  BY <1>2, LeftUnwired, NewJobLinks DEF LinkInv, TypeInv, TypeOK
<1> QED
  BY <1>1, <1>2, FetchCases DEF LinkInv

(* So do the handlers that ask for a directory.                            *)
LEMMA AskLinks ==
  ASSUME LinkInv, Refresh \/ FetchMore \/ FetchAfterWait
  PROVE  LinkInv'
<1>a. TypeInv' /\ TypeInv
  BY AskType DEF LinkInv
<1>1. CASE FetchMore
  BY <1>1, <1>a, FetchLinks DEF FetchMore, LinkInv, LoopOK
<1>2. CASE FetchAfterWait
  <2>1. eventLoop /\ main = "leave0"
    BY <1>2 DEF FetchAfterWait, LinkInv, LoopOK
  <2>2. Unwired(jobs)
    BY <2>1 DEF LinkInv, LastOK, WiredOK, Unwired
  <2>3. lost \subseteq lost' /\ (parentNode = root \/ "oldParent" \in lost')
    BY <1>2 DEF FetchAfterWait
  <2>4. \A j \in Jobs : In(<<"finished", j>>, posted) \/ In(<<"delete", j>>, posted) => Born(j)
    BY DEF LinkInv, LastOK, SentBorn, Sent
  <2>5. jobs \in [Jobs -> JobRecords] /\ parentNode \in Roots /\ posted \in Seq(Events)
    BY <1>a DEF TypeInv, TypeOK, HandsOK
  <2> QED
    BY <1>2, <1>a, <2>2, <2>3, <2>4, <2>5, NewJobLinks DEF FetchAfterWait
<1>3. CASE Refresh
  <2>1. CASE eventLoop
    BY <1>3, <2>1 DEF Refresh, LinkInv, LoopOK
  <2>2. CASE ~eventLoop
    <3>1. Listening /\ Fetch
      BY <1>3, <2>2 DEF Refresh
    <3>2. main = "loop"
      BY <2>2, <3>1 DEF Listening, LinkInv, LoopOK
    <3> QED
      BY <1>a, <2>2, <3>1, <3>2, FetchLinks
  <2> QED
    BY <2>1, <2>2
<1> QED
  BY <1>1, <1>2, <1>3

(* So does the stopping of the last job.                                   *)
LEMMA StopLinks ==
  ASSUME LinkInv, StopAndDeleteLater
  PROVE  LinkInv'
<1> DEFINE c == jobController
<1>a. TypeInv' /\ TypeInv
  BY StopType DEF LinkInv
<1>1. /\ c \in Jobs /\ main = "stopping" /\ main' = "nested"
      /\ UNCHANGED <<root, populated, enable, jobController, tasks, eventLoop, posted, parentNode>>
      /\ \A i \in Jobs \ {c} : jobs'[i] = jobs[i]
  BY <1>a, StopCases
<1>2. \/ UNCHANGED jobs
      \/ /\ ~isFinished(c) /\ jobs'[c].wired = jobs[c].wired
         /\ \/ jobs'[c].pc = jobs[c].pc
            \/ jobs[c].pc = "asleep" /\ jobs'[c].pc = "awake"
  BY <1>a, StopCases
<1>3. eventLoop
  BY <1>1 DEF LinkInv, LoopOK
<1> HIDE DEF c
<1>4. \A i \in Jobs : /\ ~jobs'[i].wired
                      /\ jobs'[i].pc \in {"unborn", "gone"} <=> jobs[i].pc \in {"unborn", "gone"}
                      /\ Born(i)' <=> Born(i)
                      /\ i # c => jobs'[i].dying = jobs[i].dying
                      /\ isFinished(c) => jobs'[i].dying = jobs[i].dying
  <2>1. CASE UNCHANGED jobs
    BY <1>3, <2>1 DEF LinkInv, LastOK, WiredOK, Born
  <2>2. CASE /\ ~isFinished(c) /\ jobs'[c].wired = jobs[c].wired
             /\ \/ jobs'[c].pc = jobs[c].pc
                \/ jobs[c].pc = "asleep" /\ jobs'[c].pc = "awake"
    BY <1>1, <1>3, <2>2 DEF LinkInv, LastOK, WiredOK, Born, isFinished
  <2> QED
    BY <1>2, <2>1, <2>2
<1>5. LoopOK'
  BY <1>1 DEF LinkInv, LoopOK
<1>6. WiredOK' /\ LiveOK'
  BY <1>4 DEF LinkInv, LastOK, WiredOK, LiveOK, isFinished
<1>7. \A j \in Jobs : Sent(<<"finished", j>>)' \/ Sent(<<"delete", j>>)' => Born(j)
  BY <1>1 DEF LinkInv, LastOK, SentBorn, Sent
<1> QED
  BY <1>a, <1>1, <1>4, <1>5, <1>6, <1>7, LinksStay

(* So does fetchMore() when the root was replaced while it waited.         *)
LEMMA TerminateLinks ==
  ASSUME LinkInv, Terminate
  PROVE  LinkInv'
<1> DEFINE c == jobController
<1>a. TypeInv' /\ TypeInv
  BY TerminateType DEF LinkInv
<1>1. /\ main = "leave1" /\ jobController' = None /\ eventLoop' = FALSE
      /\ UNCHANGED <<root, populated, enable, tasks, parentNode>>
      /\ main' \in {"crashed", "loop"}
  BY <1>a, TerminateCases
<1>2. \/ UNCHANGED jobs
      \/ /\ ~isFinished(c) /\ \A i \in Jobs \ {c} : jobs'[i] = jobs[i]
         /\ jobs'[c].pc = "over" /\ Kept(jobs'[c], jobs[c])
  BY <1>a, TerminateCases
<1>3. eventLoop
  BY <1>1 DEF LinkInv, LoopOK
<1>4. \A i \in Jobs : /\ ~jobs'[i].wired /\ jobs'[i].dying = jobs[i].dying
                      /\ jobs'[i].pc \in {"unborn", "gone"} <=> jobs[i].pc \in {"unborn", "gone"}
                      /\ Born(i)' <=> Born(i)
  BY <1>2, <1>3 DEF LinkInv, LastOK, WiredOK, Born, isFinished, Kept
<1>5. LoopOK'
  BY <1>1, <1>3 DEF LinkInv, LoopOK
<1>6. WiredOK' /\ LiveOK'
  BY <1>4 DEF LinkInv, LastOK, WiredOK, LiveOK
<1>7. \A j \in Jobs : Sent(<<"finished", j>>)' \/ Sent(<<"delete", j>>)' => Born(j)
  <2>1. CASE UNCHANGED posted
    BY <2>1 DEF LinkInv, LastOK, SentBorn, Sent
  <2>2. CASE c \in Jobs /\ posted' = Append(posted, <<"delete", c>>)
    <3>1. \A e : Sent(e)' <=> Sent(e) \/ e = <<"delete", c>>
      BY <1>a, <2>2, SentAdded, EventsTyped
    <3>2. Born(c)
      BY <2>2, NoneIsNoJob DEF LinkInv, LastOK, ControllerOK
    <3> HIDE DEF c
    <3> QED
      BY <3>1, <3>2 DEF LinkInv, LastOK, SentBorn
  <2> QED
    BY <1>a, <2>1, <2>2, TerminateCases
<1> QED
  BY <1>a, <1>1, <1>4, <1>5, <1>6, <1>7, LinksStay

(* So does setRootUrl(), which disconnects the last job before it waits.   *)
LEMMA RootLinks ==
  ASSUME LinkInv, SetRootUrl \/ NewRoot
  PROVE  LinkInv'
<1>a. TypeInv' /\ TypeInv
  BY RootType DEF LinkInv
<1>1. CASE SetRootUrl
  <2>1. /\ UNCHANGED <<root, populated, enable, jobController, tasks, eventLoop, posted,
                       parentNode, lost>>
        /\ main' = "waitFuture" /\ jobs' = Left
    BY <1>1 DEF SetRootUrl, content, nodes, links, Left
  <2>2. Unwired(jobs')
    BY <2>1, LeftUnwired
  <2>3. LoopOK'
    BY <2>1 DEF LinkInv, LoopOK
  <2>4. WiredOK' /\ LiveOK'
    BY <2>2 DEF Unwired, WiredOK, LinkInv, LastOK, LiveOK
  <2>5. \A i \in Jobs : Born(i)' <=> Born(i)
    BY <2>2 DEF Unwired, Born
  <2>6. \A j \in Jobs : Sent(<<"finished", j>>)' \/ Sent(<<"delete", j>>)' => Born(j)
    BY <2>1 DEF LinkInv, LastOK, SentBorn, Sent
  <2> QED
    BY <1>a, <2>1, <2>3, <2>4, <2>5, <2>6, LinksStay
<1>2. CASE NewRoot
  <2>1. /\ UNCHANGED <<jobController, jobs, tasks, eventLoop, parentNode, lost>>
        /\ main = "waitFuture" /\ populated' = FALSE
        /\ main' = (IF eventLoop THEN "leave1" ELSE "loop")
        /\ posted' \in {posted, Append(posted, <<"managerFinished">>)}
    BY <1>2 DEF NewRoot, links, threads
  <2>2. LoopOK'
    BY <2>1 DEF LoopOK
  <2>3. WiredOK' /\ LiveOK'
    BY <2>1 DEF LinkInv, LastOK, WiredOK, LiveOK
  <2>4. \A i \in Jobs : Born(i)' <=> Born(i)
    BY <2>1 DEF Born
  <2>5. \A j \in Jobs : Sent(<<"finished", j>>)' \/ Sent(<<"delete", j>>)' => Born(j)
    <3>1. CASE UNCHANGED posted
      BY <3>1 DEF LinkInv, LastOK, SentBorn, Sent
    <3>2. CASE posted' = Append(posted, <<"managerFinished">>)
      <4>1. \A e : Sent(e)' <=> Sent(e) \/ e = <<"managerFinished">>
        BY <1>a, <3>2, SentAdded, EventsTyped
      <4>2. \A j \in Jobs : <<"finished", j>> # <<"managerFinished">>
                            /\ <<"delete", j>> # <<"managerFinished">>
        OBVIOUS
      <4> QED
        BY <4>1, <4>2 DEF LinkInv, LastOK, SentBorn
    <3> QED
      BY <2>1, <3>1, <3>2
  <2> QED
    BY <1>a, <2>1, <2>2, <2>3, <2>4, <2>5, LinksStay
<1> QED
  BY <1>1, <1>2

(* Every step keeps the first part of the invariant.                       *)
LEMMA LinkStep == LinkInv /\ [Next]_vars => LinkInv'
<1> SUFFICES ASSUME LinkInv, [Next]_vars PROVE LinkInv'
  OBVIOUS
<1>1. ASSUME NEW j \in Jobs, JobThread(j) PROVE LinkInv'
  BY <1>1, ThreadLinks
<1>2. ASSUME NEW j \in Jobs, Task(j) PROVE LinkInv'
  BY <1>2, TaskLinks
<1>3. CASE Manager \/ ManagerStart \/ LateStart
  BY <1>3, ManagerLinks
<1>4. CASE OnJobAddChildren \/ OnJobFinished \/ OnManagerFinished
  BY <1>4, EventLinks
<1>5. CASE JobDestroyed
  BY <1>5, DestroyedLinks
<1>6. CASE FetchMore \/ FetchAfterWait \/ Refresh
  BY <1>6, AskLinks
<1>7. CASE StopAndDeleteLater
  BY <1>7, StopLinks
<1>8. CASE SetRootUrl \/ NewRoot
  BY <1>8, RootLinks
<1>9. CASE Terminate
  BY <1>9, TerminateLinks
<1>10. CASE UNCHANGED vars
  <2>1. TypeInv'
    BY <1>10, TypeStutters DEF LinkInv
  <2>2. UNCHANGED <<root, populated, enable, jobs, tasks, jobController, main, eventLoop,
                    posted, parentNode, lost>>
    BY <1>10 DEF vars, content, nodes, links, threads, loop
  <2>3. SentBorn'
    BY <2>2 DEF LinkInv, LastOK, SentBorn, Sent, Born
  <2> QED
    BY <2>1, <2>2, <2>3, LinksKept
<1> QED
  BY <1>1, <1>2, <1>3, <1>4, <1>5, <1>6, <1>7, <1>8, <1>9, <1>10
  DEF Next, Interface, Maybe

(* Unless a job was restarted, only the controller runs, and one that is   *)
(* to be deleted at its end is the one fetchMore() waits for, or its       *)
(* deletion is on the way.                                                 *)
OneRuns == \A j \in Jobs : ~isFinished(j) => j = jobController

(* A job that is to be deleted at its end is connected to nothing. While   *)
(* fetchMore() waits it is the controller, later its deletion is on its    *)
(* way; so it is once the job has ended.                                   *)
DyingOK ==
  \A j \in Jobs : jobs[j].dying =>
    /\ \A i \in Jobs : ~jobs[i].wired
    /\ eventLoop => j = jobController /\ main # "stopping"
    /\ ~eventLoop => ~populated /\ Sent(<<"delete", j>>)
    /\ jobs[j].pc = "over" => Sent(<<"delete", j>>)

(* Only a job that has ended says so, or is deleted.                       *)
SentOver == \A j \in Jobs : Sent(<<"finished", j>>) \/ Sent(<<"delete", j>>) => isFinished(j)

(* What holds unless a job was started again.                              *)
EndOK ==
  OneRuns /\ DyingOK /\ SentOver /\ (main = "leave0" => jobController = None)

(* The inductive invariant of the number of listings.                      *)
OneInv == LinkInv /\ ("restart" \in lost \/ EndOK)

(* The thread of a job keeps EndOK: the job that runs is the controller.   *)
LEMMA ThreadEnds ==
  ASSUME LinkInv, EndOK, NEW j \in Jobs, JobThread(j)
  PROVE  EndOK'
<1>1. /\ UNCHANGED <<populated, jobController, main, eventLoop>> /\ Own(j)
  BY ThreadLeaves, ThreadTyped DEF content, LinkInv
<1>2. j = jobController /\ ~isFinished(j)
  BY <1>1 DEF Own, EndOK, OneRuns, isFinished
<1>3. \A i \in Jobs : /\ jobs'[i].wired = jobs[i].wired /\ jobs'[i].dying = jobs[i].dying
                      /\ i # j => jobs'[i].pc = jobs[i].pc
  BY <1>1 DEF Own
<1>4. /\ \A e : Sent(e) => Sent(e)'
      /\ jobs[j].dying /\ jobs'[j].pc = "over" => Sent(<<"delete", j>>)'
  BY ThreadSent DEF LinkInv
<1>5. OneRuns'
  BY <1>1, <1>2, <1>3 DEF EndOK, OneRuns, isFinished
<1>6. DyingOK'
  BY <1>1, <1>3, <1>4 DEF EndOK, DyingOK
<1>7. SentOver'
  <2> SUFFICES ASSUME NEW i \in Jobs, Sent(<<"finished", i>>)' \/ Sent(<<"delete", i>>)'
               PROVE  isFinished(i)'
    BY DEF SentOver
  <2>1. Sent(<<"finished", i>>) \/ Sent(<<"delete", i>>) \/ (i = j /\ jobs'[j].pc = "over")
    BY ThreadSent DEF LinkInv
  <2>2. Sent(<<"finished", i>>) \/ Sent(<<"delete", i>>) => isFinished(i)
    BY DEF EndOK, SentOver
  <2> QED
    BY <1>2, <1>3, <2>1, <2>2 DEF isFinished
<1> QED
  BY <1>1, <1>5, <1>6, <1>7 DEF EndOK

(* So do the tasks, unless one starts a job again.                         *)
LEMMA TaskEnds ==
  ASSUME LinkInv, EndOK, NEW j \in Jobs, Task(j), "restart" \notin lost'
  PROVE  EndOK'
<1>1. UNCHANGED <<populated, jobController, main, eventLoop, posted>>
  BY TaskLeaves DEF LinkInv, loop, links
<1>2. \A i \in Jobs : /\ jobs'[i].wired = jobs[i].wired /\ jobs'[i].dying = jobs[i].dying
                      /\ \/ jobs'[i].pc = jobs[i].pc
                         \/ jobs[i].pc = "asleep" /\ jobs'[i].pc = "awake"
  BY TaskTouches DEF LinkInv, Touched, Kept, Restarted
<1>3. \A i \in Jobs : /\ isFinished(i)' <=> isFinished(i)
                      /\ jobs'[i].pc = "over" <=> jobs[i].pc = "over"
  BY <1>2 DEF isFinished
<1>4. OneRuns'
  BY <1>1, <1>3 DEF EndOK, OneRuns
<1>5. DyingOK'
  BY <1>1, <1>2, <1>3 DEF EndOK, DyingOK, Sent
<1>6. SentOver'
  BY <1>1, <1>3 DEF EndOK, SentOver, Sent
<1> QED
  BY <1>1, <1>4, <1>5, <1>6 DEF EndOK

(* What leaves the jobs and the loop alone.                                *)
LEMMA EndsKept ==
  ASSUME EndOK, UNCHANGED <<populated, jobs, jobController, main, eventLoop>>, SentOver',
         \A j \in Jobs : Sent(<<"delete", j>>) => Sent(<<"delete", j>>)'
  PROVE  EndOK'
<1>1. OneRuns'
  BY DEF EndOK, OneRuns, isFinished
<1>2. DyingOK'
  BY DEF EndOK, DyingOK
<1> QED
  BY <1>1, <1>2 DEF EndOK

(* The manager and a new root send nothing about a job.                    *)
LEMMA ManagerEnds ==
  ASSUME LinkInv, EndOK, Manager \/ ManagerStart \/ LateStart \/ NewRoot
  PROVE  EndOK'
<1>1. /\ UNCHANGED <<jobs, jobController, eventLoop>>
      /\ posted' \in {posted, Append(posted, <<"managerFinished">>)}
      /\ \/ UNCHANGED <<populated, main>>
         \/ populated' = FALSE /\ main' \in {"leave1", "loop"}
  BY DEF Manager, ManagerStart, LateStart, NewRoot, Insert, LastLook, ManagerEnd, loop, content,
     status, links, threads
<1>2. \A j \in Jobs : /\ Sent(<<"delete", j>>)' <=> Sent(<<"delete", j>>)
                      /\ Sent(<<"finished", j>>)' <=> Sent(<<"finished", j>>)
  <2>1. CASE UNCHANGED posted
    BY <2>1 DEF Sent
  <2>2. CASE posted' = Append(posted, <<"managerFinished">>)
    <3>1. \A e : Sent(e)' <=> Sent(e) \/ e = <<"managerFinished">>
      BY <2>2, SentAdded, EventsTyped DEF LinkInv
    <3>2. \A j \in Jobs : <<"finished", j>> # <<"managerFinished">>
                          /\ <<"delete", j>> # <<"managerFinished">>
      OBVIOUS
    <3> QED
      BY <3>1, <3>2
  <2> QED
    BY <1>1, <2>1, <2>2
<1>3. OneRuns' /\ SentOver'
  BY <1>1, <1>2 DEF EndOK, OneRuns, SentOver, isFinished
<1>4. DyingOK'
  BY <1>1, <1>2 DEF EndOK, DyingOK
<1> QED
  BY <1>1, <1>3, <1>4 DEF EndOK

(* A job whose end was handled is deleted, and has ended.                  *)
LEMMA EventEnds ==
  ASSUME LinkInv, EndOK, OnJobAddChildren \/ OnJobFinished \/ OnManagerFinished
  PROVE  EndOK'
<1>a. TypeInv /\ posted \in Seq(Events)
  BY DEF LinkInv, TypeInv, HandsOK
<1>1. UNCHANGED <<populated, jobs, jobController, main, eventLoop>>
  BY DEF OnJobAddChildren, OnJobFinished, OnManagerFinished, content, status, links, threads,
     nodes
<1>2. PICK kind \in {"addChildren", "finished", "managerFinished"} : Event(kind)
  BY DEF OnJobAddChildren, OnJobFinished, OnManagerFinished
<1>3. posted # <<>> /\ Head(posted)[1] # "delete" /\ Head(posted) \in Events
      /\ Tail(posted) \in Seq(Events)
  BY <1>a, <1>2, EventHead DEF Event
<1>4. /\ \A e : In(e, Tail(posted)) => Sent(e)
      /\ \A j \in Jobs : Sent(<<"delete", j>>) => In(<<"delete", j>>, Tail(posted))
      /\ Sent(Head(posted))
  BY <1>a, <1>3, InTail DEF Sent
<1>5. CASE posted' = Tail(posted)
  <2>1. SentOver'
    BY <1>1, <1>4, <1>5 DEF EndOK, SentOver, isFinished, Sent
  <2>2. \A j \in Jobs : Sent(<<"delete", j>>) => Sent(<<"delete", j>>)'
    BY <1>4, <1>5 DEF Sent
  <2> QED
    BY <1>1, <2>1, <2>2, EndsKept
<1>6. CASE OnJobFinished
  <2> DEFINE k == Head(posted)[2]
  <2>1. k \in Jobs /\ Head(posted)[1] = "finished"
        /\ posted' = Append(Tail(posted), <<"delete", k>>)
    BY <1>a, <1>6, EventHead DEF OnJobFinished
  <2>2. Head(posted) = <<"finished", k>>
    BY <1>3, <2>1 DEF Events
  <2>3. isFinished(k)
    BY <1>4, <2>1, <2>2 DEF EndOK, SentOver
  <2> HIDE DEF k
  <2>4. \A e : Sent(e)' <=> In(e, Tail(posted)) \/ e = <<"delete", k>>
    <3>1. <<"delete", k>> \in Events
      BY <2>1, EventsTyped
    <3> QED
      BY <1>3, <2>1, <3>1, InAppend DEF Sent
  <2>5. SentOver'
    BY <1>1, <1>4, <2>3, <2>4 DEF EndOK, SentOver, isFinished
  <2>6. \A j \in Jobs : Sent(<<"delete", j>>) => Sent(<<"delete", j>>)'
    BY <1>4, <2>4
  <2> QED
    BY <1>1, <2>5, <2>6, EndsKept
<1> QED
  BY <1>5, <1>6 DEF OnJobAddChildren, OnManagerFinished

(* The job that fetchMore() waits for is the controller when it goes.      *)
LEMMA DestroyedEnds ==
  ASSUME LinkInv, EndOK, JobDestroyed
  PROVE  EndOK'
<1> DEFINE j == Head(posted)[2]
<1>1. /\ TypeInv /\ j \in Jobs /\ jobs \in [Jobs -> JobRecords] /\ jobs[j].root \in Roots
      /\ jobs' = [jobs EXCEPT ![j] = Ruin(jobs[j].root)]
  BY DestroyedType DEF LinkInv, TypeInv, TypeOK, JobRecords
<1>2. /\ UNCHANGED <<populated, eventLoop>>
      /\ posted' = Tail(posted) /\ Event("delete")
      /\ jobController' = IF jobController = j THEN None ELSE jobController
      /\ \/ UNCHANGED main
         \/ main' = "leave0" /\ eventLoop /\ jobs[j].dying
  BY DEF JobDestroyed, content
<1>3. main # "stopping"
  BY <1>2 DEF Event, Listening
<1>4. /\ \A e : Sent(e)' => Sent(e)
      /\ \A i \in Jobs : i # j => (Sent(<<"delete", i>>) => Sent(<<"delete", i>>)')
  <2>1. Head(posted)[1] = "delete" /\ Head(posted) \in Events
    BY <1>1, <1>2, EventHead
  <2>2. Head(posted) = <<"delete", j>>
    BY <2>1 DEF Events
  <2>3. \A i \in Jobs : i # j => <<"delete", i>> # <<"delete", j>>
    OBVIOUS
  <2> QED
    BY <1>1, <1>2, <2>2, <2>3, SentTaken
<1> HIDE DEF j
<1>5. /\ jobs'[j].pc = "gone" /\ ~jobs'[j].wired /\ ~jobs'[j].dying
      /\ \A i \in Jobs \ {j} : jobs'[i] = jobs[i]
  BY <1>1, RuinTyped
<1>6. OneRuns'
  BY <1>2, <1>5 DEF EndOK, OneRuns, isFinished
<1>7. main' = "leave0" => jobController' = None
  BY <1>1, <1>2 DEF EndOK, DyingOK
<1>8. DyingOK'
  <2> SUFFICES ASSUME NEW i \in Jobs, jobs'[i].dying
               PROVE  /\ \A k \in Jobs : ~jobs'[k].wired
                      /\ eventLoop' => i = jobController' /\ main' # "stopping"
                      /\ ~eventLoop' => ~populated' /\ Sent(<<"delete", i>>)'
                      /\ jobs'[i].pc = "over" => Sent(<<"delete", i>>)'
    BY DEF DyingOK
  <2>1. i # j /\ jobs'[i] = jobs[i]
    BY <1>5
  <2> QED
    BY <1>2, <1>3, <1>4, <1>5, <2>1 DEF EndOK, DyingOK
<1>9. SentOver'
  BY <1>4, <1>5 DEF EndOK, SentOver, isFinished
<1> QED
  BY <1>6, <1>7, <1>8, <1>9 DEF EndOK

(* A new job is the only one that runs.                                    *)
LEMMA NewJobEnds ==
  ASSUME LinkInv, EndOK, NEW js \in [Jobs -> JobRecords], Unwired(js), NEW r \in Roots,
         NEW pst \in Seq(Events), NewJob(js, r, pst),
         \A i \in Jobs : isFinished(i), \A i \in Jobs : ~jobs[i].dying,
         \A i \in Jobs : In(<<"finished", i>>, pst) \/ In(<<"delete", i>>, pst) =>
           Born(i) /\ isFinished(i)
  PROVE  EndOK'
<1>1. PICK j \in Jobs : BornAs(js, r, j)
  BY NewJobBorn
<1>2. /\ main' = "loop" /\ posted' = pst /\ jobController' = j
  <2>1. jobController' = j
    BY <1>1 DEF BornAs
  <2> QED
    BY <2>1, NewJobBorn
<1>3. /\ \A i \in Jobs \ {j} : jobs'[i].pc = jobs[i].pc /\ ~jobs'[i].dying
      /\ ~jobs'[j].dying /\ ~Born(j)
  BY <1>1 DEF BornAs, Unwired, Born
<1>4. OneRuns'
  BY <1>2, <1>3 DEF OneRuns, isFinished
<1>5. DyingOK'
  BY <1>3 DEF DyingOK
<1>6. SentOver'
  BY <1>2, <1>3 DEF SentOver, Sent, isFinished
<1> QED
  BY <1>2, <1>4, <1>5, <1>6 DEF EndOK

(* A directory is fetched only when no job waits for its end.              *)
LEMMA FetchEnds ==
  ASSUME LinkInv, EndOK, Fetch, \A i \in Jobs : ~jobs[i].dying
  PROVE  EndOK'
<1>a. jobController \in Jobs \union {None} /\ posted \in Seq(Events)
  BY DEF LinkInv, TypeInv, TypeOK, HandsOK
<1>1. CASE /\ jobController # None /\ ~isFinished(jobController) /\ jobController \in Jobs
            /\ jobs' = Cut(jobController)
            /\ populated' = FALSE /\ parentNode' = root
            /\ main' = "stopping" /\ eventLoop' = TRUE
            /\ UNCHANGED <<root, state, childrenUpdated, enable, queue, manager, jobController,
                           future, tasks, posted, lost>>
  <2>1. Unwired(jobs')
    BY <1>1, LeftUnwired
  <2>2. OneRuns' /\ SentOver'
    BY <1>1, <2>1 DEF Unwired, EndOK, OneRuns, SentOver, Sent, isFinished
  <2>3. DyingOK'
    BY <2>1 DEF Unwired, DyingOK
  <2> QED
    BY <1>1, <2>2, <2>3 DEF EndOK
<1>2. CASE /\ jobController = None \/ isFinished(jobController)
           /\ Left \in [Jobs -> JobRecords] /\ NewJob(Left, root, Sends)
           /\ Sends \in Seq(Events) /\ UNCHANGED lost
  <2>1. \A i \in Jobs : isFinished(i)
    BY <1>2, NoneIsNoJob DEF EndOK, OneRuns
  <2>2. Unwired(Left) /\ root \in Roots
    BY LeftUnwired DEF LinkInv, TypeInv, TypeOK
  <2>3. \A i \in Jobs : In(<<"finished", i>>, Sends) \/ In(<<"delete", i>>, Sends) =>
           Born(i) /\ isFinished(i)
    BY <2>1, LeftUnwired
  <2> QED
    BY <1>2, <2>1, <2>2, <2>3, NewJobEnds
<1> QED
  BY <1>1, <1>2, FetchCases DEF LinkInv

(* fetchMore() starts a job only when the last one has ended.              *)
LEMMA AskEnds ==
  ASSUME LinkInv, EndOK, Refresh \/ FetchMore \/ FetchAfterWait
  PROVE  EndOK'
<1>1. CASE FetchMore
  <2>1. Fetch /\ ~eventLoop /\ posted = <<>>
    BY <1>1 DEF FetchMore, LinkInv, LoopOK
  <2>2. \A i \in Jobs : ~jobs[i].dying
    BY <2>1, InNone DEF EndOK, DyingOK, Sent
  <2> QED
    BY <2>1, <2>2, FetchEnds
<1>2. CASE FetchAfterWait
  <2>1. eventLoop /\ jobController = None /\ NewJob(jobs, parentNode, posted)
    BY <1>2 DEF FetchAfterWait, LinkInv, LoopOK, EndOK
  <2>2. Unwired(jobs)
    BY <2>1 DEF LinkInv, LastOK, WiredOK, Unwired
  <2>3. \A i \in Jobs : isFinished(i)
    BY <2>1, NoneIsNoJob DEF EndOK, OneRuns
  <2>4. \A i \in Jobs : ~jobs[i].dying
    BY <2>1, NoneIsNoJob DEF EndOK, DyingOK
  <2>5. \A i \in Jobs : In(<<"finished", i>>, posted) \/ In(<<"delete", i>>, posted) =>
           Born(i) /\ isFinished(i)
    BY <2>3 DEF LinkInv, LastOK, SentBorn, Sent
  <2>6. jobs \in [Jobs -> JobRecords] /\ parentNode \in Roots /\ posted \in Seq(Events)
    BY DEF LinkInv, TypeInv, TypeOK, HandsOK
  <2> QED
    BY <2>1, <2>2, <2>3, <2>4, <2>5, <2>6, NewJobEnds
<1>3. CASE Refresh
  <2>1. ~eventLoop /\ populated
    BY <1>3 DEF Refresh, LinkInv, LoopOK
  <2>2. \A i \in Jobs : ~jobs[i].dying
    BY <2>1 DEF EndOK, DyingOK
  <2> QED
    BY <1>3, <2>1, <2>2, FetchEnds DEF Refresh
<1> QED
  BY <1>1, <1>2, <1>3

(* The job that is stopped is the controller.                              *)
LEMMA StopEnds ==
  ASSUME LinkInv, EndOK, StopAndDeleteLater
  PROVE  EndOK'
<1> DEFINE c == jobController
<1>1. /\ c \in Jobs /\ main = "stopping" /\ main' = "nested"
      /\ UNCHANGED <<populated, jobController, eventLoop, posted>>
      /\ \A i \in Jobs \ {c} : jobs'[i] = jobs[i]
  BY StopCases DEF LinkInv
<1>2. \/ UNCHANGED jobs
      \/ /\ ~isFinished(c) /\ jobs'[c].wired = jobs[c].wired
         /\ \/ jobs'[c].pc = jobs[c].pc
            \/ jobs[c].pc = "asleep" /\ jobs'[c].pc = "awake"
  BY StopCases DEF LinkInv
<1>3. eventLoop /\ \A i \in Jobs : ~jobs[i].wired
  BY <1>1 DEF LinkInv, LoopOK, LastOK, WiredOK
<1>4. \A i \in Jobs : ~jobs[i].dying
  BY <1>1, <1>3 DEF EndOK, DyingOK
<1> HIDE DEF c
<1>5. /\ \A i \in Jobs : /\ ~jobs'[i].wired /\ (i # c => ~jobs'[i].dying)
                         /\ isFinished(i)' <=> isFinished(i)
      /\ jobs'[c].dying => jobs'[c].pc # "over"
  <2>1. CASE UNCHANGED jobs
    BY <1>1, <1>3, <1>4, <2>1 DEF isFinished
  <2>2. CASE /\ ~isFinished(c) /\ jobs'[c].wired = jobs[c].wired
             /\ \/ jobs'[c].pc = jobs[c].pc
                \/ jobs[c].pc = "asleep" /\ jobs'[c].pc = "awake"
    BY <1>1, <1>3, <1>4, <2>2 DEF isFinished
  <2> QED
    BY <1>2, <2>1, <2>2
<1>6. OneRuns' /\ SentOver'
  BY <1>1, <1>5 DEF EndOK, OneRuns, SentOver, Sent
<1>7. DyingOK'
  BY <1>1, <1>3, <1>5 DEF DyingOK, c
<1> QED
  BY <1>1, <1>6, <1>7 DEF EndOK

(* The job that fetchMore() terminates has ended.                          *)
LEMMA TerminateEnds ==
  ASSUME LinkInv, EndOK, Terminate
  PROVE  EndOK'
<1>a. TypeInv
  BY DEF LinkInv
<1>b. PICK c \in Jobs \union {None} : c = jobController
  BY DEF LinkInv, TypeInv, TypeOK
<1>1. /\ main = "leave1" /\ jobController' = None /\ eventLoop' = FALSE
      /\ UNCHANGED populated /\ main' \in {"crashed", "loop"}
  BY <1>a, TerminateCases
<1>2. eventLoop /\ ~populated /\ \A i \in Jobs : ~jobs[i].wired
  BY <1>1 DEF LinkInv, LoopOK, LastOK, WiredOK
<1>3. \A i \in Jobs : jobs[i].dying => i = c
  BY <1>2, <1>b DEF EndOK, DyingOK
<1>4. CASE c = None
  <2>1. UNCHANGED <<jobs, posted>>
    BY <1>4, <1>a, <1>b, TerminateCases, NoneIsNoJob
  <2>2. \A i \in Jobs : isFinished(i) /\ ~jobs[i].dying
    BY <1>3, <1>4, <1>b, NoneIsNoJob DEF EndOK, OneRuns
  <2>3. OneRuns' /\ DyingOK' /\ SentOver'
    BY <2>1, <2>2 DEF OneRuns, DyingOK, SentOver, isFinished
  <2> QED
    BY <1>1, <2>3 DEF EndOK
<1>5. CASE c \in Jobs
  <2>1. /\ \A i \in Jobs \ {c} : jobs'[i] = jobs[i]
        /\ ~jobs'[c].wired /\ jobs'[c].dying = jobs[c].dying
        /\ \/ isFinished(c) /\ UNCHANGED jobs
              /\ posted' = IF jobs[c].dying THEN posted ELSE Append(posted, <<"delete", c>>)
           \/ jobs'[c].pc = "over" /\ posted' = Append(posted, <<"delete", c>>)
    BY <1>2, <1>5, <1>a, <1>b, TerminateCases, NoneIsNoJob DEF Kept
  <2>2. isFinished(c) /\ jobs[c].dying => Sent(<<"delete", c>>)
    BY <1>5 DEF EndOK, DyingOK, LinkInv, LastOK, LiveOK, isFinished
  <2>3. <<"delete", c>> \in Events
    BY <1>5, EventsTyped
  <2>4. /\ \A e : Sent(e) => Sent(e)'
        /\ \A e : Sent(e)' => Sent(e) \/ e = <<"delete", c>>
        /\ jobs[c].dying => Sent(<<"delete", c>>)'
    <3>1. CASE posted' = posted /\ isFinished(c) /\ jobs[c].dying
      BY <2>2, <3>1 DEF Sent
    <3>2. CASE posted' = Append(posted, <<"delete", c>>)
      <4>1. \A e : Sent(e)' <=> Sent(e) \/ e = <<"delete", c>>
        BY <2>3, <3>2, <1>a, SentAdded
      <4> QED
        BY <4>1
    <3> QED
      BY <2>1, <3>1, <3>2
  <2>5. \A i \in Jobs : isFinished(i)'
    BY <2>1, <1>b DEF EndOK, OneRuns, isFinished
  <2>6. OneRuns'
    BY <2>5 DEF OneRuns
  <2>7. SentOver'
    BY <2>5 DEF SentOver
  <2>8. \A i \in Jobs : ~jobs'[i].wired /\ (jobs'[i].dying => i = c /\ jobs[c].dying)
    BY <1>2, <1>3, <2>1
  <2>9. DyingOK'
    <3>1. \A i \in Jobs : jobs'[i].dying => Sent(<<"delete", i>>)'
      BY <2>4, <2>8
    <3> QED
      BY <1>1, <1>2, <2>8, <3>1 DEF DyingOK
  <2> QED
    BY <1>1, <2>6, <2>7, <2>9 DEF EndOK
<1> QED
  BY <1>4, <1>5

(* setRootUrl() disconnects the controller only.                           *)
LEMMA SetRootEnds ==
  ASSUME LinkInv, EndOK, SetRootUrl
  PROVE  EndOK'
<1>1. /\ UNCHANGED <<populated, jobController, eventLoop, posted>>
      /\ main' = "waitFuture" /\ jobs' = Left
  BY DEF SetRootUrl, content, links, Left
<1>2. \A i \in Jobs : /\ ~jobs'[i].wired /\ jobs'[i].dying = jobs[i].dying
                      /\ jobs'[i].pc = jobs[i].pc
  BY <1>1, LeftUnwired DEF Unwired
<1>3. OneRuns' /\ SentOver'
  BY <1>1, <1>2 DEF EndOK, OneRuns, SentOver, Sent, isFinished
<1>4. DyingOK'
  BY <1>1, <1>2 DEF EndOK, DyingOK, Sent
<1> QED
  BY <1>1, <1>3, <1>4 DEF EndOK

(* No race is forgotten.                                                   *)
LEMMA LostGrows == TypeInv /\ [Next]_vars => lost \subseteq lost'
<1> SUFFICES ASSUME TypeInv, [Next]_vars PROVE lost \subseteq lost'
  OBVIOUS
<1>1. ASSUME NEW j \in Jobs, JobThread(j) PROVE lost \subseteq lost'
  BY <1>1, ThreadLeaves
<1>2. ASSUME NEW j \in Jobs, Task(j) PROVE lost \subseteq lost'
  BY <1>2, TaskLeaves
<1>3. CASE Manager \/ ManagerStart \/ LateStart
  BY <1>3 DEF Manager, ManagerStart, LateStart, Insert, LastLook, ManagerEnd
<1>4. CASE OnJobAddChildren \/ OnJobFinished \/ OnManagerFinished \/ JobDestroyed
  BY <1>4 DEF OnJobAddChildren, OnJobFinished, OnManagerFinished, JobDestroyed, AddFile
<1>5. CASE FetchMore \/ FetchAfterWait \/ Refresh
  BY <1>5 DEF FetchMore, FetchAfterWait, Refresh, Fetch
<1>6. CASE StopAndDeleteLater \/ SetRootUrl \/ NewRoot \/ Terminate
  BY <1>6 DEF StopAndDeleteLater, SetRootUrl, NewRoot, Terminate
<1>7. CASE UNCHANGED vars
  BY <1>7 DEF vars
<1> QED
  BY <1>1, <1>2, <1>3, <1>4, <1>5, <1>6, <1>7 DEF Next, Interface, Maybe

(* Every step that does not start a job again keeps EndOK.                 *)
LEMMA EndStep == ASSUME LinkInv, EndOK, [Next]_vars, "restart" \notin lost' PROVE EndOK'
<1>1. ASSUME NEW j \in Jobs, JobThread(j) PROVE EndOK'
  BY <1>1, ThreadEnds
<1>2. ASSUME NEW j \in Jobs, Task(j) PROVE EndOK'
  BY <1>2, TaskEnds
<1>3. CASE Manager \/ ManagerStart \/ LateStart \/ NewRoot
  BY <1>3, ManagerEnds
<1>4. CASE OnJobAddChildren \/ OnJobFinished \/ OnManagerFinished
  BY <1>4, EventEnds
<1>5. CASE JobDestroyed
  BY <1>5, DestroyedEnds
<1>6. CASE FetchMore \/ FetchAfterWait \/ Refresh
  BY <1>6, AskEnds
<1>7. CASE StopAndDeleteLater
  BY <1>7, StopEnds
<1>8. CASE SetRootUrl
  BY <1>8, SetRootEnds
<1>9. CASE Terminate
  BY <1>9, TerminateEnds
<1>10. CASE UNCHANGED vars
  <2>1. UNCHANGED <<populated, jobs, jobController, main, eventLoop, posted>>
    BY <1>10 DEF vars, content, links, threads, loop
  <2>2. SentOver'
    BY <2>1 DEF EndOK, SentOver, Sent, isFinished
  <2> QED
    BY <2>1, <2>2, EndsKept DEF Sent
<1> QED
  BY <1>1, <1>2, <1>3, <1>4, <1>5, <1>6, <1>7, <1>8, <1>9, <1>10
  DEF Next, Interface, Maybe

(* In the beginning no job runs.                                           *)
LEMMA OneInit == Init => OneInv
<1> SUFFICES ASSUME Init PROVE OneInv
  OBVIOUS
<1>1. \A j \in Jobs : jobs[j] = Unborn
  BY DEF Init
<1>2. Unborn.pc = "unborn" /\ ~Unborn.dying
  BY DEF Unborn
<1>3. EndOK
  BY <1>1, <1>2, InNone DEF Init, EndOK, OneRuns, DyingOK, SentOver, Sent, isFinished
<1> QED
  BY <1>3, LinkInit DEF OneInv

(* Every step keeps the invariant.                                         *)
LEMMA OneStep == OneInv /\ [Next]_vars => OneInv'
  BY LinkStep, EndStep, LostGrows DEF OneInv, LinkInv

(* There is one listing at a time and it is of the root: the model is      *)
(* connected to no listing of another directory unless fetchMore() went on *)
(* with its old one, and the thread of the last listing has ended before   *)
(* the next one starts, unless updateChildren() started a job that had     *)
(* stopped.                                                                *)
THEOREM OneAtATime == Spec => []OneListing
<1>1. OneInv => OneListing
  <2> SUFFICES ASSUME OneInv PROVE OneListing
    OBVIOUS
  <2>1. \A j \in Jobs : jobs[j].wired => jobs[j].root = root \/ "oldParent" \in lost
    BY DEF OneInv, LinkInv, LastOK, WiredOK
  <2>2. ASSUME EndOK PROVE Cardinality({j \in Jobs : ~isFinished(j)}) <= 1
    <3> DEFINE R == {j \in Jobs : ~isFinished(j)}
    <3>1. R \subseteq {jobController}
      BY <2>2 DEF EndOK, OneRuns
    <3>2. IsFiniteSet({jobController}) /\ Cardinality({jobController}) = 1
      BY FS_Singleton
    <3>3. Cardinality(R) <= Cardinality({jobController})
      BY <3>1, <3>2, FS_Subset
    <3> QED
      BY <3>2, <3>3
  <2> QED
    BY <2>1, <2>2 DEF OneInv, OneListing
<1> QED
  BY <1>1, OneInit, OneStep, PTL DEF Spec


-----------------------------------------------------------------------------
(* What is on its way, and in which order.                                 *)

(* No event of B is in q, or none behind e.                                *)
Free(q, B) == \A i \in 1 .. Len(q) : q[i] \notin B
FreeBehind(q, e, B) ==
  \A i, k \in 1 .. Len(q) : i < k /\ q[i] = e => q[k] \notin B

(* The events that add a file, and those that add a file of another root.  *)
Signals == {"addChildren"} \X Files
Stale   == {"addChildren"} \X (Files \ FilesOf(root))

(* Signals of another root are on their way only while the manager does    *)
(* not listen, and none comes behind the deletion of a job that fetchMore() *)
(* waits for: no signal at all does, unless a job was restarted.           *)
SignalsOK ==
  /\ enable \/ (eventLoop /\ parentNode = root) \/ main = "leave0" => Free(posted, Stale)
  /\ \A j \in Jobs : jobs[j].dying => FreeBehind(posted, <<"delete", j>>, Stale)
  /\ "restart" \notin lost \/ main = "waitFuture" =>
       \A j \in Jobs : jobs[j].dying => FreeBehind(posted, <<"delete", j>>, Signals)

-----------------------------------------------------------------------------
(* The jobs and their tasks.                                               *)

(* Places in the loop of a job, and on the way through updateChildren().   *)
Looping  == {"loop", "toWait", "asleep", "awake"}
Emitting == {"emit", "pausing", "spawn", "assign"}

(* A job that has its first batch still to hand over, and one that has     *)
(* started the task with it and goes on listing.                           *)
Before(job) ==
  job.pc \in {"run", "emit", "pausing", "spawn"} \/ (job.pc \in Looping /\ job.update)
Behind(job) ==
  \/ job.pc = "assign" /\ job.back = "loop"
  \/ job.pc \in Looping /\ ~job.update

(* The task has not handed its list over yet.                              *)
Filling(task) == task.pc \in {"begin", "fill"}

(* A job hands one batch over.                                             *)
OnceOK(j) == jobs[j].pc \in Emitting /\ jobs[j].back = "loop" => ~jobs[j].update

(* The list of a task is of the root of its job, until it is handed over.  *)
ListOK(j) ==
  /\ tasks[j].list \subseteq FilesOf(jobs[j].root)
  /\ ~Filling(tasks[j]) => tasks[j].list = {}

(* A task pauses its own job or a later one, and restarts its own only.    *)
OwnTask(j) ==
  /\ ~Filling(tasks[j]) => tasks[j].job \in {None, j}
  /\ tasks[j].pc = "fill" => tasks[j].job = None \/ j <= tasks[j].job
  /\ Before(jobs[j]) => tasks[j].pc = "done"

(* A job waits until its task has put the batch in.                        *)
WaitsOK(j) ==
  jobs[j].wired =>
    /\ jobs[j].pc = "spawn" /\ jobs[j].back = "loop" => jobs[j].state # "Started"
    /\ Behind(jobs[j]) /\ Filling(tasks[j]) =>
         jobs[j].state # "Started" /\ jobs[j].pc # "awake"
    /\ Behind(jobs[j]) /\ ~Filling(tasks[j]) => jobs[j].root = root

OwnJob(j) == OnceOK(j) /\ ListOK(j) /\ OwnTask(j) /\ WaitsOK(j)

(* The model and the queue of the manager have files of the root only.     *)
ContentOK == rows \subseteq FilesOf(root) /\ queue \subseteq FilesOf(root)

OwnOK == ContentOK /\ (\A j \in Jobs : OwnJob(j)) /\ SignalsOK

(* Unless a list came late, everything is of its root.                     *)
OwnInv == OneInv /\ ("lateList" \in lost \/ OwnOK)

-----------------------------------------------------------------------------
(* Lemmas about the events on their way.                                   *)

(* An event that is not of B brings none of B behind another one.          *)
LEMMA FreeAppend ==
  ASSUME NEW q \in Seq(Events), NEW x \in Events, NEW B, x \notin B
  PROVE  /\ Free(q, B) => Free(Append(q, x), B)
         /\ \A e : FreeBehind(q, e, B) => FreeBehind(Append(q, x), e, B)
<1>1. \A i \in 1 .. Len(Append(q, x)) : Append(q, x)[i] = x \/ i \in 1 .. Len(q)
  BY EventAdded
<1>2. \A i, k \in 1 .. Len(Append(q, x)) : i < k => i \in 1 .. Len(q)
  BY EventAdded
<1> QED
  BY <1>1, <1>2, EventAdded DEF Free, FreeBehind

(* Nor does taking the first event; what is free behind it is free then.   *)
LEMMA FreeTail ==
  ASSUME NEW q \in Seq(Events), q # <<>>, NEW B
  PROVE  /\ Free(q, B) => Free(Tail(q), B)
         /\ \A e : FreeBehind(q, e, B) => FreeBehind(Tail(q), e, B)
         /\ FreeBehind(q, Head(q), B) => Free(Tail(q), B)
<1>1. \A i \in 1 .. Len(Tail(q)) : i + 1 \in 1 .. Len(q) /\ Tail(q)[i] = q[i + 1] /\ 1 < i + 1
  BY EventTaken
<1>2. \A i, k \in 1 .. Len(Tail(q)) : i < k => i + 1 < k + 1
  BY EventTaken
<1>3. 1 \in 1 .. Len(q) /\ Head(q) = q[1]
  BY EventTaken
<1> QED
  BY <1>1, <1>2, <1>3 DEF Free, FreeBehind

(* The other events are none that add a file.                              *)
LEMMA NoSignals ==
  /\ \A j \in Jobs : \A B \in {Stale, Signals} :
       /\ <<"finished", j>> \in Events \ B
       /\ <<"delete", j>> \in Events \ B
  /\ \A B \in {Stale, Signals} : <<"managerFinished">> \in Events \ B
  BY EventsTyped DEF Stale, Signals

(* No event that is new is a stale signal.                                 *)
Quieter ==
  /\ Free(posted, Stale) => Free(posted', Stale)
  /\ \A B \in {Stale, Signals} : \A e :
       FreeBehind(posted, e, B) => FreeBehind(posted', e, B)

(* An event that adds no file makes no noise.                              *)
LEMMA QuietlyAdded ==
  ASSUME TypeInv, NEW x \in Events, x \notin Stale, x \notin Signals,
         posted' = Append(posted, x)
  PROVE  Quieter
  BY FreeAppend DEF TypeInv, HandsOK, Quieter

(* Nor does the taking of an event.                                        *)
LEMMA QuietlyTaken ==
  ASSUME TypeInv, NEW kind, Event(kind), posted' = Tail(posted)
  PROVE  Quieter
  BY FreeTail DEF TypeInv, HandsOK, Quieter, Event

(* A step that sends no stale signal and starts no wait keeps SignalsOK.   *)
LEMMA SignalsKept ==
  ASSUME SignalsOK, Quieter, UNCHANGED root, \A j \in Jobs : jobs'[j].dying => jobs[j].dying,
         enable' \/ (eventLoop' /\ parentNode' = root') \/ main' = "leave0" =>
           enable \/ (eventLoop /\ parentNode = root) \/ main = "leave0",
         "restart" \notin lost' \/ main' = "waitFuture" =>
           "restart" \notin lost \/ main = "waitFuture"
  PROVE  SignalsOK'
<1>1. Stale' = Stale
  BY DEF Stale, FilesOf
<1>2. enable' \/ (eventLoop' /\ parentNode' = root') \/ main' = "leave0" => Free(posted', Stale')
  BY <1>1 DEF SignalsOK, Quieter
<1>3. \A j \in Jobs : jobs'[j].dying => FreeBehind(posted', <<"delete", j>>, Stale')
  BY <1>1 DEF SignalsOK, Quieter
<1>4. "restart" \notin lost' \/ main' = "waitFuture" =>
        \A j \in Jobs : jobs'[j].dying => FreeBehind(posted', <<"delete", j>>, Signals)
  BY DEF SignalsOK, Quieter
<1> QED
  BY <1>2, <1>3, <1>4 DEF SignalsOK, Free, FreeBehind, Signals, Files, Roots

-----------------------------------------------------------------------------
(* The directory shows its own files.                                      *)

(* A thread starts the task of its own job, with what it has listed.       *)
LEMMA SpawnOrNot ==
  ASSUME TypeInv, NEW j \in Jobs, JobThread(j)
  PROVE  \/ jobs[j].pc # "spawn" /\ UNCHANGED tasks
         \/ /\ jobs[j].pc = "spawn" /\ jobs'[j].pc = "assign"
            /\ jobs'[j].update = jobs[j].update /\ jobs'[j].back = jobs[j].back
            /\ jobs'[j].state = jobs[j].state
            /\ \A i \in Jobs \ {j} : tasks'[i] = tasks[i]
            /\ tasks'[j].pc = "begin" /\ tasks'[j].job = None
            /\ tasks'[j].list = {jobs[j].root} \X (jobs[j].from .. jobs[j].done)
            /\ tasks'[j].list \subseteq FilesOf(jobs[j].root)
<1>1. CASE Spawn(j)
  <2> DEFINE t == [pc |-> "begin", job |-> None,
                   list |-> {jobs[j].root} \X (jobs[j].from .. jobs[j].done)]
  <2>1. jobs[j].from .. jobs[j].done \subseteq 1 .. Entries
    BY LoadingAssumption DEF TypeInv, TypeOK, JobRecords
  <2>2. /\ t.pc = "begin" /\ t.job = None
        /\ t.list = {jobs[j].root} \X (jobs[j].from .. jobs[j].done)
        /\ t.list \subseteq FilesOf(jobs[j].root)
    BY <2>1 DEF FilesOf
  <2>3. tasks' = [tasks EXCEPT ![j] = t] /\ tasks \in [Jobs -> TaskRecords]
    BY <1>1 DEF Spawn, TypeInv, HandsOK
  <2> HIDE DEF t
  <2>4. tasks'[j] = t /\ \A i \in Jobs \ {j} : tasks'[i] = tasks[i]
    BY <2>3
  <2>5. jobs[j].pc = "spawn" /\ Step(j, "assign")
    BY <1>1 DEF Spawn
  <2> QED
    BY <2>2, <2>4, <2>5, StepAt
<1>2. CASE ~Spawn(j)
  BY <1>2 DEF JobThread, Run, Paused, WaitForStart, LeaveLoop, Collect, AddChildren, Emit,
     Pause, Assign, Ending, Finish, Runs
<1> QED
  BY <1>1, <1>2

(* A record of a job and its task as they were.                            *)
LEMMA OwnJobKept ==
  ASSUME NEW i \in Jobs, OwnJob(i), jobs'[i] = jobs[i], tasks'[i] = tasks[i],
         root' = root \/ ~jobs[i].wired
  PROVE  OwnJob(i)'
<1>1. OnceOK(i)' /\ ListOK(i)' /\ OwnTask(i)'
  BY DEF OwnJob, OnceOK, ListOK, OwnTask, FilesOf, Filling, Before
<1>2. WaitsOK(i)'
  BY DEF OwnJob, WaitsOK, Filling, Behind
<1> QED
  BY <1>1, <1>2 DEF OwnJob

(* The thread of a job keeps what is said of its job.                      *)
LEMMA ThreadOwnJob ==
  ASSUME LinkInv, NEW j \in Jobs, JobThread(j), OwnJob(j)
  PROVE  OwnJob(j)'
<1> DEFINE J == jobs[j]
           K == jobs'[j]
<1>a. TypeInv /\ UNCHANGED root /\ Own(j) /\ Moves(J, K)
  BY ThreadLeaves, ThreadTyped, ThreadMoves DEF LinkInv, content
<1>b. K.root = J.root /\ K.wired = J.wired
  BY <1>a DEF Own
<1>c. J \in JobRecords
  BY <1>a DEF TypeInv, TypeOK
<1>1. OnceOK(j)'
  BY <1>a, <1>c DEF Moves, OwnJob, OnceOK, Emitting, JobRecords
<1>2. Before(K) => Before(J) /\ J.pc # "spawn"
  BY <1>a, <1>c DEF Moves, OwnJob, OnceOK, Emitting, Before, Looping, JobRecords
<1>3. CASE J.pc # "spawn" /\ UNCHANGED tasks
  <2>1. ListOK(j)' /\ OwnTask(j)'
    BY <1>b, <1>2, <1>3 DEF OwnJob, ListOK, OwnTask, FilesOf, Filling, Before
  <2>2. J.wired /\ Behind(K) => Behind(J) /\ K.pc # "awake" /\ K.state = J.state
    BY <1>a, <1>c, <1>3 DEF Moves, Behind, Looping, JobRecords
  <2>3. J.wired /\ K.pc = "spawn" => K.state # "Started"
    BY <1>a, <1>c, <1>3 DEF Moves, JobRecords
  <2>4. WaitsOK(j)'
    BY <1>a, <1>b, <1>3, <2>2, <2>3 DEF OwnJob, WaitsOK, Filling
  <2> QED
    BY <1>1, <2>1, <2>4 DEF OwnJob
<1>4. CASE /\ J.pc = "spawn" /\ K.pc = "assign"
           /\ K.update = J.update /\ K.back = J.back /\ K.state = J.state
           /\ tasks'[j].pc = "begin" /\ tasks'[j].job = None
           /\ tasks'[j].list \subseteq FilesOf(J.root)
  <2>1. ListOK(j)' /\ OwnTask(j)'
    BY <1>b, <1>2, <1>4 DEF ListOK, OwnTask, FilesOf, Filling, Before
  <2>2. WaitsOK(j)'
    BY <1>b, <1>4 DEF OwnJob, WaitsOK, Filling, Behind, Looping
  <2> QED
    BY <1>1, <2>1, <2>2 DEF OwnJob
<1> QED
  BY <1>a, <1>3, <1>4, SpawnOrNot

(* The thread of a job sends files of the root only: a job that goes on    *)
(* listing has its first batch in the model, which happens only under its  *)
(* own root.                                                               *)
LEMMA ThreadQuiet ==
  ASSUME OneInv, NEW j \in Jobs, JobThread(j), OwnJob(j), SignalsOK
  PROVE  SignalsOK'
<1>a. /\ TypeInv /\ posted \in Seq(Events) /\ LinkInv
      /\ UNCHANGED <<root, enable, main, eventLoop, parentNode, lost>>
      /\ \A i \in Jobs : jobs'[i].dying = jobs[i].dying
  BY ThreadLeaves, ThreadTyped DEF OneInv, LinkInv, TypeInv, HandsOK, content, nodes, Own
<1>1. CASE UNCHANGED posted
  BY <1>a, <1>1, SignalsKept DEF Quieter
<1>2. CASE Ends(j)
  <2> DEFINE fin == <<"finished", j>>
             del == <<"delete", j>>
  <2>1. \A B \in {Stale, Signals} : fin \notin B /\ del \notin B
    BY NoSignals
  <2>2. fin \in Events /\ del \in Events
    BY EventsTyped
  <2>3. posted' \in {posted, Append(posted, fin), Append(posted, del),
                     Append(Append(posted, fin), del)}
    BY <1>2 DEF Ends
  <2> HIDE DEF fin, del
  <2>4. Append(posted, fin) \in Seq(Events)
    BY <1>a, <2>2, EventAdded
  <2>5. Quieter
    <3>1. ASSUME NEW B \in {Stale, Signals}
          PROVE  /\ Free(posted, B) => Free(posted', B)
                 /\ \A e : FreeBehind(posted, e, B) => FreeBehind(posted', e, B)
      <4>1. /\ Free(posted, B) => Free(Append(posted, fin), B) /\ Free(Append(posted, del), B)
            /\ \A e : FreeBehind(posted, e, B) => /\ FreeBehind(Append(posted, fin), e, B)
                                                 /\ FreeBehind(Append(posted, del), e, B)
        BY <1>a, <2>1, <2>2, FreeAppend
      <4>2. /\ Free(Append(posted, fin), B) => Free(Append(Append(posted, fin), del), B)
            /\ \A e : FreeBehind(Append(posted, fin), e, B) =>
                        FreeBehind(Append(Append(posted, fin), del), e, B)
        BY <2>1, <2>2, <2>4, FreeAppend
      <4> QED
        BY <2>3, <4>1, <4>2
    <3> QED
      BY <3>1 DEF Quieter
  <2> QED
    BY <1>a, <2>5, SignalsKept
<1>3. CASE /\ AddChildren(j) /\ jobs[j].wired
           /\ <<jobs[j].root, jobs[j].done + 1>> \in Files
           /\ posted' = Append(posted, <<"addChildren", <<jobs[j].root, jobs[j].done + 1>>>>)
  <2> DEFINE x == <<"addChildren", <<jobs[j].root, jobs[j].done + 1>>>>
  <2>1. /\ jobs[j].pc = "awake" \/ (jobs[j].pc = "loop" /\ jobs[j].state # "Paused")
        /\ jobs[j].state # "Stoped" /\ ~jobs[j].update
    BY <1>3 DEF AddChildren, Runs
  <2>2. jobs[j].state = "Started" \/ jobs[j].pc = "awake"
    BY <1>a, <2>1 DEF TypeInv, TypeOK, JobRecords
  <2>3. Behind(jobs[j])
    BY <2>1 DEF Behind, Looping
  <2>4. jobs[j].root = root
    BY <1>3, <2>2, <2>3 DEF OwnJob, WaitsOK
  <2>5. x \in Events /\ x \notin Stale
    <3>1. jobs[j].done + 1 \in 1 .. Entries
      BY <1>3 DEF Files
    <3> QED
      BY <1>3, <2>4, <3>1, EventsTyped DEF Stale, FilesOf
  <2>6. "restart" \notin lost \/ main = "waitFuture" => \A i \in Jobs : ~jobs[i].dying
    BY <1>3 DEF OneInv, LinkInv, LastOK, WiredOK, EndOK, DyingOK
  <2> HIDE DEF x
  <2>7. posted' = Append(posted, x)
    BY <1>3 DEF x
  <2>8. /\ Free(posted, Stale) => Free(posted', Stale)
        /\ \A e : FreeBehind(posted, e, Stale) => FreeBehind(posted', e, Stale)
    BY <1>a, <2>5, <2>7, FreeAppend
  <2>9. Stale' = Stale
    BY <1>a DEF Stale, FilesOf
  <2> QED
    BY <1>a, <2>6, <2>8, <2>9 DEF SignalsOK
<1> QED
  BY <1>a, <1>1, <1>2, <1>3, ThreadPosts

(* The thread of a job keeps all of OwnOK.                                 *)
LEMMA ThreadOwns ==
  ASSUME OneInv, OwnOK, NEW j \in Jobs, JobThread(j)
  PROVE  OwnOK'
<1>1. TypeInv /\ LinkInv /\ UNCHANGED <<root, rows, queue>> /\ Own(j)
  BY ThreadLeaves, ThreadTyped DEF OneInv, LinkInv, content, nodes
<1>2. ContentOK'
  BY <1>1 DEF OwnOK, ContentOK, FilesOf
<1>3. \A i \in Jobs \ {j} : jobs'[i] = jobs[i] /\ tasks'[i] = tasks[i]
  BY <1>1, SpawnOrNot DEF Own
<1>4. \A i \in Jobs : OwnJob(i)'
  BY <1>1, <1>3, OwnJobKept, ThreadOwnJob DEF OwnOK
<1> QED
  BY <1>2, <1>4, ThreadQuiet DEF OwnOK

(* The three kinds of steps of a task: it notes the controller and pauses  *)
(* it, it hands its list over, and what is behind.                         *)
LEMMA UpdateMoves ==
  ASSUME TypeInv, NEW j \in Jobs, UpdateChildren(j)
  PROVE  /\ tasks[j].pc = "begin" /\ tasks'[j].pc = "fill"
         /\ tasks'[j].job = jobController /\ tasks'[j].list = tasks[j].list
         /\ \A k \in Jobs : jobs'[k].state \in {jobs[k].state, "Paused"}
                            /\ jobs'[k].pc = jobs[k].pc
         /\ rows' = rows
<1>t. tasks \in [Jobs -> TaskRecords] /\ jobs \in [Jobs -> JobRecords]
  BY DEF TypeInv, TypeOK, HandsOK
<1>1. tasks' = [tasks EXCEPT ![j] = [tasks[j] EXCEPT !.pc = "fill", !.job = jobController]]
      /\ tasks[j].pc = "begin" /\ rows' = rows
  BY <1>t DEF UpdateChildren, TaskRecords, content
<1>2. /\ tasks'[j].pc = "fill" /\ tasks'[j].job = jobController
      /\ tasks'[j].list = tasks[j].list
  BY <1>t, <1>1 DEF TaskRecords
<1>3. ASSUME NEW k \in Jobs
      PROVE  jobs'[k].state \in {jobs[k].state, "Paused"} /\ jobs'[k].pc = jobs[k].pc
  <2>1. jobs'[k] = jobs[k] \/ jobs'[k] = [jobs[k] EXCEPT !.state = "Paused"]
    BY <1>t DEF UpdateChildren
  <2> QED
    BY <1>t, <2>1 DEF JobRecords
<1> QED
  BY <1>1, <1>2, <1>3

(* The task hands its list over, late or not.                              *)
LEMMA SetMoves ==
  ASSUME TypeInv, NEW j \in Jobs, SetChildren(j)
  PROVE  /\ tasks[j].pc = "fill" /\ tasks'[j].pc = "check"
         /\ tasks'[j].job = tasks[j].job /\ tasks'[j].list = {}
         /\ jobs' = jobs /\ rows' = tasks[j].list
         /\ "lateList" \notin lost' => ~Late(j)
<1>t. tasks \in [Jobs -> TaskRecords]
  BY DEF TypeInv, HandsOK
<1>1. tasks' = [tasks EXCEPT ![j] = [tasks[j] EXCEPT !.pc = "check", !.list = {}]]
      /\ tasks[j].pc = "fill"
  BY <1>t DEF SetChildren, TaskRecords
<1>2. tasks'[j].pc = "check" /\ tasks'[j].job = tasks[j].job /\ tasks'[j].list = {}
  BY <1>t, <1>1 DEF TaskRecords
<1> QED
  BY <1>1, <1>2 DEF SetChildren

(* What the task does behind that: it starts no job but the one it has     *)
(* noted.                                                                  *)
LEMMA LaterMoves ==
  ASSUME TypeInv, NEW j \in Jobs, Task(j), ~UpdateChildren(j), ~SetChildren(j)
  PROVE  /\ ~Filling(tasks[j]) /\ ~Filling(tasks'[j])
         /\ tasks'[j].job \in {tasks[j].job, None}
         /\ \A k \in Jobs : jobs'[k] = jobs[k] \/ (k = tasks[j].job /\ tasks[j].pc = "start")
         /\ tasks[j].pc = "start" => tasks'[j].pc = "done"
         /\ rows' = rows
<1>t. tasks \in [Jobs -> TaskRecords] /\ jobs \in [Jobs -> JobRecords]
  BY DEF TypeInv, TypeOK, HandsOK
<1>1. ASSUME NEW pc \in {"check", "idle", "updated", "resume", "start"},
             NEW next \in {"idle", "updated", "resume", "start", "done"}, TaskAt(j, pc, next),
             pc = "start" => next = "done"
      PROVE  /\ ~Filling(tasks[j]) /\ ~Filling(tasks'[j])
             /\ tasks'[j].job \in {tasks[j].job, None}
             /\ tasks[j].pc = "start" => tasks'[j].pc = "done"
  <2> DEFINE r == [tasks[j] EXCEPT !.pc = next]
  <2>1. r.pc = next /\ r.job = tasks[j].job
    BY <1>t DEF TaskRecords
  <2>2. tasks'[j] = (IF next = "done" THEN Done ELSE r) /\ tasks[j].pc = pc
    BY <1>t, <1>1 DEF TaskAt
  <2>3. Done.pc = "done" /\ Done.job = None
    BY DEF Done
  <2> HIDE DEF r
  <2> QED
    BY <1>1, <2>1, <2>2, <2>3 DEF Filling
<1>2. CASE ~StartJob(j)
  BY <1>1, <1>2 DEF Task, CheckFinished, SetIdle, SetUpdated, TestPaused, content
<1>3. CASE StartJob(j)
  <2>1. TaskAt(j, "start", "done") /\ rows' = rows
    BY <1>3 DEF StartJob, content
  <2>2. tasks[j].pc = "start" /\ \A k \in Jobs : jobs'[k] = jobs[k] \/ k = tasks[j].job
    BY <1>3, <1>t DEF StartJob, TaskAt
  <2> QED
    BY <1>1, <2>1, <2>2
<1> QED
  BY <1>2, <1>3

(* A task that begins keeps what is said of every job.                     *)
LEMMA UpdateOwns ==
  ASSUME LinkInv, NEW j \in Jobs, UpdateChildren(j), \A i \in Jobs : OwnJob(i),
         NEW i \in Jobs
  PROVE  OwnJob(i)'
<1>a. TypeInv /\ Task(j)
  BY DEF LinkInv, Task
<1>b. Kept(jobs'[i], jobs[i]) /\ UNCHANGED root
  BY <1>a, TaskTouches, TaskLeaves DEF Touched
<1>c. /\ jobs'[i].pc = jobs[i].pc /\ jobs'[i].state \in {jobs[i].state, "Paused"}
      /\ tasks[j].pc = "begin" /\ tasks'[j].pc = "fill" /\ tasks'[j].job = jobController
      /\ tasks'[j].list = tasks[j].list
      /\ i # j => tasks'[i] = tasks[i]
  BY <1>a, UpdateMoves, TaskSteps
<1>d. Filling(tasks'[i]) <=> Filling(tasks[i])
  BY <1>c DEF Filling
<1>e. Before(jobs'[i]) <=> Before(jobs[i])
  BY <1>b, <1>c DEF Before, Kept
<1>1. OnceOK(i)'
  BY <1>b, <1>c DEF OwnJob, OnceOK, Kept
<1>2. ListOK(i)'
  BY <1>b, <1>c, <1>d DEF OwnJob, ListOK, Kept, FilesOf, Filling
<1>3. jobController = None \/ j <= jobController
  <2>1. Born(j)
    BY <1>c DEF LinkInv, LastOK, TasksBorn
  <2>2. ASSUME jobController # None PROVE j <= jobController
    <3>1. jobController \in Jobs /\ ~(jobController < j)
      BY <2>1, <2>2 DEF LinkInv, LastOK, ControllerOK, TypeInv, TypeOK
    <3> QED
      BY <3>1, LoadingAssumption DEF Jobs
  <2> QED
    BY <2>2
<1>4. OwnTask(i)'
  BY <1>c, <1>d, <1>e, <1>3 DEF OwnJob, OwnTask, Filling
<1>5. WaitsOK(i)'
  <2>1. Behind(jobs'[i]) <=> Behind(jobs[i])
    BY <1>b, <1>c DEF Behind, Kept
  <2> QED
    BY <1>b, <1>c, <1>d, <2>1 DEF OwnJob, WaitsOK, Kept, Filling
<1> QED
  BY <1>1, <1>2, <1>4, <1>5 DEF OwnJob

(* A list that is not late is of the root and of the last job.             *)
LEMMA SetOwns ==
  ASSUME LinkInv, NEW j \in Jobs, SetChildren(j), \A i \in Jobs : OwnJob(i),
         "lateList" \notin lost', NEW i \in Jobs
  PROVE  OwnJob(i)' /\ rows' \subseteq FilesOf(root)
<1>a. TypeInv /\ Task(j)
  BY DEF LinkInv, Task
<1>b. jobs' = jobs /\ UNCHANGED root /\ rows' = tasks[j].list
  BY <1>a, TaskLeaves, SetMoves
<1>c. /\ tasks[j].pc = "fill" /\ tasks'[j].pc = "check" /\ tasks'[j].job = tasks[j].job
      /\ tasks'[j].list = {}
      /\ i # j => tasks'[i] = tasks[i]
  BY <1>a, SetMoves, TaskSteps
<1>d. jobs[j].root = root /\ \A k \in Jobs : k > j => ~Born(k)
  BY <1>a, SetMoves DEF Late, Born
<1>e. tasks[j].job \in {None, j}
  <2>1. tasks[j].job \in Jobs \union {None} /\ (tasks[j].job = None \/ j <= tasks[j].job)
    BY <1>a, <1>c DEF TypeInv, HandsOK, TaskRecords, OwnJob, OwnTask
  <2>2. tasks[j].job \in Jobs => Born(tasks[j].job)
    BY NoneIsNoJob DEF LinkInv, LastOK, TasksBorn
  <2> QED
    BY <1>d, <2>1, <2>2, LoadingAssumption DEF Jobs
<1>1. rows' \subseteq FilesOf(root)
  BY <1>b, <1>d DEF OwnJob, ListOK
<1>2. CASE i # j
  BY <1>1, <1>2, <1>b, <1>c, OwnJobKept
<1>3. CASE i = j
  <2>1. OnceOK(j)'
    BY <1>b DEF OwnJob, OnceOK
  <2>2. ListOK(j)'
    BY <1>c DEF ListOK
  <2>3. OwnTask(j)'
    BY <1>b, <1>c, <1>e DEF OwnJob, OwnTask, Before
  <2>4. WaitsOK(j)'
    BY <1>b, <1>c, <1>d DEF OwnJob, WaitsOK, Filling
  <2> QED
    BY <1>1, <1>3, <2>1, <2>2, <2>3, <2>4 DEF OwnJob
<1> QED
  BY <1>2, <1>3

(* What a task does behind that keeps what is said of every job.           *)
LEMMA LaterOwns ==
  ASSUME LinkInv, NEW j \in Jobs, Task(j), ~UpdateChildren(j), ~SetChildren(j),
         \A i \in Jobs : OwnJob(i), NEW i \in Jobs
  PROVE  OwnJob(i)'
<1>a. TypeInv
  BY DEF LinkInv
<1>b. /\ ~Filling(tasks[j]) /\ ~Filling(tasks'[j])
      /\ tasks'[j].job \in {tasks[j].job, None} /\ tasks'[j].list \subseteq tasks[j].list
      /\ jobs'[i] = jobs[i] \/ (i = tasks[j].job /\ tasks[j].pc = "start")
      /\ tasks[j].pc = "start" => tasks'[j].pc = "done"
      /\ i # j => tasks'[i] = tasks[i]
  BY <1>a, LaterMoves, TaskSteps
<1>c. Kept(jobs'[i], jobs[i]) /\ UNCHANGED root
  BY <1>a, TaskTouches, TaskLeaves DEF Touched
<1>d. tasks[j].job \in {None, j} /\ tasks[j].list = {}
  BY <1>b DEF OwnJob, OwnTask, ListOK
<1>1. CASE i # j
  <2>1. jobs'[i] = jobs[i]
    BY <1>1, <1>b, <1>d, NoneIsNoJob
  <2> QED
    BY <1>1, <1>b, <1>c, <2>1, OwnJobKept
<1>2. CASE i = j
  <2>1. \/ jobs'[j] = jobs[j] /\ tasks[j].pc # "start"
        \/ tasks'[j].pc = "done"
    BY <1>2, <1>b
  <2>2. ListOK(j)' /\ jobs'[j].root = jobs[j].root /\ jobs'[j].wired = jobs[j].wired
    BY <1>2, <1>b, <1>c, <1>d DEF ListOK, Kept, FilesOf
  <2>3. \/ jobs'[j].pc = jobs[j].pc
        \/ jobs[j].pc = "asleep" /\ jobs'[j].pc = "awake"
        \/ jobs'[j].pc = "run"
    BY <1>2, <1>a, TaskTouches DEF Touched, Restarted
  <2>4. OnceOK(j)'
    BY <1>2, <1>c, <2>3 DEF OwnJob, OnceOK, Emitting, Kept
  <2>5. OwnTask(j)'
    <3>1. tasks[j].pc # "done"
      BY <1>a, TaskSteps
    <3>2. ~Before(jobs[j])
      BY <3>1 DEF OwnJob, OwnTask
    <3>3. Before(jobs'[j]) => tasks'[j].pc = "done"
      BY <2>1, <3>2
    <3>4. tasks'[j].pc # "fill"
      BY <1>b DEF Filling
    <3> QED
      BY <1>b, <1>d, <3>3, <3>4 DEF OwnTask
  <2>6. WaitsOK(j)'
    <3>1. tasks[j].pc # "done"
      BY <1>a, TaskSteps
    <3>2. jobs[j].pc # "spawn"
      BY <3>1 DEF OwnJob, OwnTask, Before
    <3>3. jobs'[j].pc # "spawn" /\ (Behind(jobs'[j]) => Behind(jobs[j]))
      BY <1>2, <1>c, <2>3, <3>2 DEF Behind, Kept, Looping
    <3> QED
      BY <1>b, <1>c, <2>2, <3>3 DEF OwnJob, WaitsOK
  <2> QED
    BY <1>2, <2>2, <2>4, <2>5, <2>6 DEF OwnJob
<1> QED
  BY <1>1, <1>2

(* The tasks keep OwnOK, unless a list comes late.                         *)
LEMMA TaskOwns ==
  ASSUME OneInv, OwnOK, NEW j \in Jobs, Task(j), "lateList" \notin lost'
  PROVE  OwnOK'
<1>a. TypeInv /\ LinkInv /\ \A i \in Jobs : OwnJob(i)
  BY DEF OneInv, LinkInv, OwnOK
<1>b. /\ UNCHANGED <<root, enable, queue, main, eventLoop, parentNode, posted>>
      /\ lost \subseteq lost'
  BY <1>a, TaskLeaves DEF nodes, loop
<1>c. \A i \in Jobs : jobs'[i].dying = jobs[i].dying
  BY <1>a, TaskTouches DEF Touched, Kept
<1>1. \A i \in Jobs : OwnJob(i)'
  BY <1>a, UpdateOwns, SetOwns, LaterOwns
<1>2. rows' \subseteq FilesOf(root)
  <2>1. rows' = rows \/ SetChildren(j)
    BY <1>a, UpdateMoves, LaterMoves
  <2> QED
    BY <1>a, <2>1, SetOwns DEF OwnOK, ContentOK
<1>3. ContentOK'
  BY <1>b, <1>2 DEF OwnOK, ContentOK, FilesOf
<1>4. SignalsOK'
  BY <1>b, <1>c, SignalsKept DEF OwnOK, Quieter
<1> QED
  BY <1>1, <1>3, <1>4 DEF OwnOK

(* The end of the manager adds no file.                                    *)
LEMMA ManagerQuiet ==
  ASSUME TypeInv, posted' \in {posted, Append(posted, <<"managerFinished">>)}
  PROVE  Quieter
<1>1. CASE posted' = posted
  BY <1>1 DEF Quieter
<1>2. CASE posted' = Append(posted, <<"managerFinished">>)
  BY <1>2, NoSignals, QuietlyAdded
<1> QED
  BY <1>1, <1>2

(* A step that leaves the jobs and the loop alone keeps OwnOK.             *)
LEMMA OwnStays ==
  ASSUME OwnOK, UNCHANGED <<root, jobs, tasks, enable, main, eventLoop, parentNode>>,
         rows' \subseteq FilesOf(root), queue' \subseteq FilesOf(root), lost \subseteq lost',
         Quieter
  PROVE  OwnOK'
<1>1. \A i \in Jobs : OwnJob(i)'
  BY OwnJobKept DEF OwnOK
<1>2. ContentOK'
  BY DEF ContentOK, FilesOf
<1>3. SignalsOK'
  BY SignalsKept DEF OwnOK
<1> QED
  BY <1>1, <1>2, <1>3 DEF OwnOK

(* The thread of the manager keeps OwnOK: its queue has files of the root. *)
LEMMA ManagerOwns ==
  ASSUME LinkInv, OwnOK, Manager \/ ManagerStart \/ LateStart
  PROVE  OwnOK'
<1>1. /\ UNCHANGED <<root, jobs, tasks, enable, main, eventLoop, parentNode, lost>>
      /\ queue' \subseteq queue /\ rows' \subseteq rows \union queue
      /\ posted' \in {posted, Append(posted, <<"managerFinished">>)}
  BY DEF Manager, ManagerStart, LateStart, Insert, LastLook, ManagerEnd, loop, content, status,
     links, threads
<1>2. Quieter
  BY <1>1, ManagerQuiet DEF LinkInv
<1> QED
  BY <1>1, <1>2, OwnStays DEF OwnOK, ContentOK

(* A file that is queued is of the root: the manager listens only then.    *)
LEMMA EventOwns ==
  ASSUME LinkInv, OwnOK, OnJobAddChildren \/ OnJobFinished \/ OnManagerFinished
  PROVE  OwnOK'
<1>a. TypeInv /\ posted \in Seq(Events)
  BY DEF LinkInv, TypeInv, HandsOK
<1>1. /\ UNCHANGED <<root, rows, jobs, tasks, enable, main, eventLoop, parentNode>>
      /\ lost \subseteq lost'
  BY DEF OnJobAddChildren, OnJobFinished, OnManagerFinished, AddFile, content, status, links,
     threads, nodes
<1>2. Quieter
  <2>1. CASE posted' = Tail(posted) /\ \E kind : Event(kind)
    BY <1>a, <2>1, QuietlyTaken
  <2>2. CASE OnJobFinished
    <3>1. PICK k \in Jobs : k = Head(posted)[2]
      BY <1>a, <2>2, EventHead DEF OnJobFinished
    <3>2. /\ posted # <<>> /\ Tail(posted) \in Seq(Events)
          /\ posted' = Append(Tail(posted), <<"delete", k>>)
      BY <1>a, <2>2, <3>1, EventHead DEF OnJobFinished, Event
    <3>3. ASSUME NEW B \in {Stale, Signals}
          PROVE  /\ Free(posted, B) => Free(posted', B)
                 /\ \A e : FreeBehind(posted, e, B) => FreeBehind(posted', e, B)
      <4>1. <<"delete", k>> \in Events /\ <<"delete", k>> \notin B
        BY <3>1, NoSignals
      <4>2. /\ Free(Tail(posted), B) => Free(posted', B)
            /\ \A e : FreeBehind(Tail(posted), e, B) => FreeBehind(posted', e, B)
        BY <3>2, <4>1, FreeAppend
      <4>3. /\ Free(posted, B) => Free(Tail(posted), B)
            /\ \A e : FreeBehind(posted, e, B) => FreeBehind(Tail(posted), e, B)
        BY <1>a, <3>2, FreeTail
      <4> QED
        BY <4>2, <4>3
    <3> QED
      BY <3>3 DEF Quieter
  <2> QED
    BY <2>1, <2>2 DEF OnJobAddChildren, OnManagerFinished
<1>3. queue' \subseteq FilesOf(root)
  <2>1. CASE OnJobAddChildren /\ enable
    <3>1. /\ Head(posted) \in Events /\ Head(posted)[1] = "addChildren"
          /\ Head(posted)[2] \in Files /\ Head(posted) = posted[1] /\ Len(posted) \in Nat \ {0}
      BY <1>a, <2>1, EventHead DEF OnJobAddChildren
    <3>2. 1 \in 1 .. Len(posted)
      BY <3>1
    <3>3. Head(posted) \notin Stale
      BY <2>1, <3>1, <3>2 DEF OwnOK, SignalsOK, Free
    <3>4. Head(posted)[2] \in FilesOf(root)
      BY <3>1, <3>3 DEF Events, Stale
    <3> QED
      BY <2>1, <3>4 DEF OnJobAddChildren, AddFile, OwnOK, ContentOK
  <2>2. CASE UNCHANGED queue
    BY <2>2 DEF OwnOK, ContentOK
  <2> QED
    BY <2>1, <2>2 DEF OnJobAddChildren, OnJobFinished, OnManagerFinished, nodes
<1> QED
  BY <1>1, <1>2, <1>3, OwnStays DEF OwnOK, ContentOK

(* Behind the deletion that ends the wait of fetchMore() nothing stale     *)
(* comes.                                                                  *)
LEMMA DestroyedOwns ==
  ASSUME LinkInv, OwnOK, JobDestroyed
  PROVE  OwnOK'
<1>1. PICK j \in Jobs : j = Head(posted)[2]
  BY DestroyedType DEF LinkInv
<1>2. /\ TypeInv /\ jobs \in [Jobs -> JobRecords] /\ jobs[j].root \in Roots
      /\ jobs' = [jobs EXCEPT ![j] = Ruin(jobs[j].root)]
  BY <1>1, DestroyedType DEF LinkInv, TypeInv, TypeOK, JobRecords
<1>3. /\ UNCHANGED <<root, rows, queue, enable, tasks, eventLoop, parentNode, lost>>
      /\ posted' = Tail(posted) /\ Event("delete")
      /\ \/ UNCHANGED main
         \/ main' = "leave0" /\ eventLoop /\ jobs[j].dying
  BY <1>1 DEF JobDestroyed, content, nodes
<1>4. /\ jobs'[j].pc = "gone" /\ ~jobs'[j].wired /\ ~jobs'[j].dying /\ jobs'[j].root = jobs[j].root
      /\ \A i \in Jobs \ {j} : jobs'[i] = jobs[i]
  BY <1>2, RuinTyped
<1>5. OwnJob(j)'
  BY <1>3, <1>4
  DEF OwnOK, OwnJob, OnceOK, ListOK, OwnTask, WaitsOK, FilesOf, Filling, Before, Emitting, Looping
<1>6. \A i \in Jobs : OwnJob(i)'
  BY <1>3, <1>4, <1>5, OwnJobKept DEF OwnOK
<1>7. ContentOK'
  BY <1>3 DEF OwnOK, ContentOK, FilesOf
<1>8. SignalsOK'
  <2>1. CASE UNCHANGED main
    BY <1>2, <1>3, <1>4, <2>1, QuietlyTaken, SignalsKept DEF OwnOK
  <2>2. CASE main' = "leave0" /\ eventLoop /\ jobs[j].dying
    <3>1. Head(posted)[1] = "delete" /\ Head(posted) \in Events
      BY <1>2, <1>3, EventHead
    <3>2. Head(posted) = <<"delete", j>>
      BY <1>1, <3>1 DEF Events
    <3>3. posted # <<>> /\ posted \in Seq(Events)
      BY <1>2, <1>3 DEF Event, TypeInv, HandsOK
    <3>4. FreeBehind(posted, Head(posted), Stale)
      BY <2>2, <3>2 DEF OwnOK, SignalsOK
    <3>5. Free(Tail(posted), Stale)
      BY <3>3, <3>4, FreeTail
    <3>6. Stale' = Stale
      BY <1>3 DEF Stale, FilesOf
    <3>7. Free(posted', Stale')
      BY <1>3, <3>5, <3>6
    <3>8. Quieter
      BY <1>2, <1>3, QuietlyTaken
    <3>9. \A i \in Jobs : jobs'[i].dying => FreeBehind(posted', <<"delete", i>>, Stale')
      BY <1>4, <3>6, <3>8 DEF OwnOK, SignalsOK, Quieter
    <3>10. "restart" \notin lost' =>
             \A i \in Jobs : jobs'[i].dying => FreeBehind(posted', <<"delete", i>>, Signals)
      BY <1>3, <1>4, <3>8 DEF OwnOK, SignalsOK, Quieter
    <3>11. main' # "waitFuture"
      BY <2>2
    <3> QED
      BY <3>7, <3>9, <3>10, <3>11 DEF SignalsOK, Free, FreeBehind, Signals, Files, Roots
  <2> QED
    BY <1>3, <2>1, <2>2
<1> QED
  BY <1>6, <1>7, <1>8 DEF OwnOK

(* The jobs js are those there are, connected to the model no more.        *)
CutAll(js) ==
  \A i \in Jobs : /\ ~js[i].wired /\ js[i].root = jobs[i].root
                  /\ js[i].dying = jobs[i].dying /\ js[i].pc = jobs[i].pc
                  /\ js[i].update = jobs[i].update /\ js[i].back = jobs[i].back

(* The jobs as fetchMore() finds them are connected to nothing.            *)
LEMMA LeftCut ==
  ASSUME LinkInv
  PROVE  CutAll(Left) /\ (jobController # None => CutAll(Cut(jobController)))
<1>1. jobController \in Jobs \union {None}
  BY DEF LinkInv, TypeInv, TypeOK
<1>2. \A j \in Jobs : jobs[j].wired => j = jobController
  BY DEF LinkInv, LastOK, WiredOK
<1>3. jobController # None => CutAll(Cut(jobController))
  BY <1>1, <1>2, CutTyped DEF LinkInv, CutAll
<1>4. jobController = None => CutAll(jobs)
  BY <1>2, NoneIsNoJob DEF CutAll
<1> QED
  BY <1>3, <1>4 DEF Left

(* A job that is disconnected sends nothing; what is said of it stays.     *)
LEMMA CutOwns ==
  ASSUME NEW js, CutAll(js), NEW i \in Jobs, OwnJob(i), jobs'[i] = js[i], tasks'[i] = tasks[i]
  PROVE  OwnJob(i)'
<1>1. /\ ~jobs'[i].wired /\ jobs'[i].root = jobs[i].root /\ jobs'[i].pc = jobs[i].pc
      /\ jobs'[i].update = jobs[i].update /\ jobs'[i].back = jobs[i].back
  BY DEF CutAll
<1>2. OnceOK(i)' /\ ListOK(i)' /\ OwnTask(i)' /\ WaitsOK(i)'
  BY <1>1 DEF OwnJob, OnceOK, ListOK, OwnTask, WaitsOK, FilesOf, Filling, Before
<1> QED
  BY <1>2 DEF OwnJob

(* A new job of the root begins while nothing stale is on its way.         *)
LEMMA NewJobOwns ==
  ASSUME LinkInv, OwnOK, NEW js \in [Jobs -> JobRecords], CutAll(js), NEW r \in Roots,
         NEW pst \in Seq(Events), NewJob(js, r, pst), rows' \subseteq FilesOf(root),
         lost \subseteq lost', Quieter, Free(posted, Stale)
  PROVE  OwnOK'
<1>1. PICK j \in Jobs : BornAs(js, r, j)
  BY NewJobBorn
<1>2. /\ main' = "loop" /\ eventLoop' = FALSE /\ UNCHANGED <<root, queue, tasks>>
  BY NewJobBorn
<1>3. /\ \A i \in Jobs \ {j} : jobs'[i] = js[i]
      /\ jobs'[j].pc = "run" /\ ~jobs'[j].dying /\ ~Born(j)
  BY <1>1 DEF BornAs, CutAll, Born
<1>4. OwnJob(j)'
  <2>1. tasks[j].pc = "done"
    BY <1>3 DEF LinkInv, LastOK, TasksBorn
  <2> QED
    BY <1>2, <1>3, <2>1
    DEF OwnOK, OwnJob, OnceOK, ListOK, OwnTask, WaitsOK, Filling, Behind, Emitting, Looping
<1>5. \A i \in Jobs : OwnJob(i)'
  BY <1>2, <1>3, <1>4, CutOwns DEF OwnOK
<1>6. ContentOK'
  BY <1>2 DEF OwnOK, ContentOK, FilesOf
<1>7. SignalsOK'
  <2>1. Stale' = Stale
    BY <1>2 DEF Stale, FilesOf
  <2>2. Free(posted', Stale')
    BY <2>1 DEF Quieter
  <2>3. \A i \in Jobs : jobs'[i].dying => jobs[i].dying
    BY <1>3 DEF CutAll
  <2>4. \A i \in Jobs : jobs'[i].dying => FreeBehind(posted', <<"delete", i>>, Stale')
    BY <2>1, <2>3 DEF OwnOK, SignalsOK, Quieter
  <2>5. "restart" \notin lost' =>
          \A i \in Jobs : jobs'[i].dying => FreeBehind(posted', <<"delete", i>>, Signals)
    BY <2>3 DEF OwnOK, SignalsOK, Quieter
  <2>6. main' # "waitFuture"
    BY <1>2
  <2> QED
    BY <2>2, <2>4, <2>5, <2>6 DEF SignalsOK, Free, FreeBehind, Signals, Files, Roots
<1> QED
  BY <1>5, <1>6, <1>7 DEF OwnOK

(* The deletion of the last job adds no file.                              *)
LEMMA SendsQuiet ==
  ASSUME LinkInv, posted' = Sends
  PROVE  Quieter
<1>1. CASE jobController = None
  BY <1>1 DEF Sends, Quieter
<1>2. CASE jobController # None
  <2>1. PICK c \in Jobs : c = jobController
    BY <1>2 DEF LinkInv, TypeInv, TypeOK
  <2>2. posted' = Append(posted, <<"delete", c>>)
    BY <1>2, <2>1 DEF Sends
  <2> QED
    BY <2>2, NoSignals, QuietlyAdded DEF LinkInv
<1> QED
  BY <1>1, <1>2

(* fetchMore() keeps OwnOK.                                                *)
LEMMA FetchOwns ==
  ASSUME LinkInv, OwnOK, Fetch, rows' \subseteq FilesOf(root), Free(posted, Stale)
  PROVE  OwnOK'
<1>1. CASE /\ jobController # None /\ ~isFinished(jobController) /\ jobController \in Jobs
            /\ jobs' = Cut(jobController)
            /\ populated' = FALSE /\ parentNode' = root
            /\ main' = "stopping" /\ eventLoop' = TRUE
            /\ UNCHANGED <<root, state, childrenUpdated, enable, queue, manager, jobController,
                           future, tasks, posted, lost>>
  <2>1. CutAll(jobs')
    BY <1>1, LeftCut
  <2>2. \A i \in Jobs : OwnJob(i)'
    BY <1>1, <2>1, CutOwns DEF OwnOK
  <2>3. ContentOK'
    BY <1>1 DEF OwnOK, ContentOK, FilesOf
  <2>4. SignalsOK'
    <3>1. Stale' = Stale
      BY <1>1 DEF Stale, FilesOf
    <3>2. \A i \in Jobs : jobs'[i].dying = jobs[i].dying
      BY <2>1 DEF CutAll
    <3> QED
      BY <1>1, <3>1, <3>2 DEF OwnOK, SignalsOK
  <2> QED
    BY <2>2, <2>3, <2>4 DEF OwnOK
<1>2. CASE Left \in [Jobs -> JobRecords] /\ NewJob(Left, root, Sends)
           /\ Sends \in Seq(Events) /\ UNCHANGED lost
  <2>1. root \in Roots
    BY DEF LinkInv, TypeInv, TypeOK
  <2>2. posted' = Sends
    BY <1>2, <2>1, NewJobBorn
  <2>3. Quieter
    BY <2>2, SendsQuiet
  <2> QED
    BY <1>2, <2>1, <2>2, <2>3, LeftCut, NewJobOwns
<1> QED
  BY <1>1, <1>2, FetchCases DEF LinkInv

(* So do the handlers that ask for a directory.                            *)
LEMMA AskOwns ==
  ASSUME LinkInv, OwnOK, Refresh \/ FetchMore \/ FetchAfterWait
  PROVE  OwnOK'
<1>1. CASE FetchMore
  <2>1. Fetch /\ rows' = rows /\ posted = <<>>
    BY <1>1 DEF FetchMore
  <2>2. Free(posted, Stale)
    BY <2>1 DEF Free
  <2> QED
    BY <2>1, <2>2, FetchOwns DEF OwnOK, ContentOK
<1>2. CASE FetchAfterWait
  <2>1. /\ eventLoop /\ main = "leave0" /\ NewJob(jobs, parentNode, posted)
        /\ rows' = rows /\ lost \subseteq lost'
    BY <1>2 DEF FetchAfterWait, LinkInv, LoopOK
  <2>2. CutAll(jobs)
    BY <2>1 DEF LinkInv, LastOK, WiredOK, CutAll
  <2>3. posted' = posted /\ jobs \in [Jobs -> JobRecords] /\ parentNode \in Roots
        /\ posted \in Seq(Events)
    BY <2>1, NewJobBorn DEF LinkInv, TypeInv, TypeOK, HandsOK
  <2>4. Quieter /\ Free(posted, Stale)
    BY <2>1, <2>3 DEF Quieter, OwnOK, SignalsOK
  <2> QED
    BY <2>1, <2>2, <2>3, <2>4, NewJobOwns DEF OwnOK, ContentOK
<1>3. CASE Refresh
  <2>1. Fetch /\ rows' = {} /\ enable
    BY <1>3 DEF Refresh, LinkInv, LoopOK
  <2>2. Free(posted, Stale)
    BY <2>1 DEF OwnOK, SignalsOK
  <2> QED
    BY <2>1, <2>2, FetchOwns
<1> QED
  BY <1>1, <1>2, <1>3

(* A job is told to stop while no signal of another root is on its way.    *)
LEMMA StopOwns ==
  ASSUME OneInv, OwnOK, StopAndDeleteLater
  PROVE  OwnOK'
<1>a. TypeInv /\ LinkInv
  BY DEF OneInv, LinkInv
<1>1. PICK c \in Jobs : c = jobController
  BY <1>a, StopCases
<1>2. /\ main = "stopping" /\ main' = "nested"
      /\ UNCHANGED <<root, rows, queue, enable, tasks, eventLoop, posted, parentNode>>
      /\ \A i \in Jobs \ {c} : jobs'[i] = jobs[i]
      /\ lost \subseteq lost'
  BY <1>a, <1>1, StopCases
<1>3. \/ UNCHANGED jobs
      \/ /\ ~isFinished(c) /\ jobs'[c].wired = jobs[c].wired /\ jobs'[c].root = jobs[c].root
         /\ jobs'[c].update = jobs[c].update /\ jobs'[c].back = jobs[c].back
         /\ \/ jobs'[c].pc = jobs[c].pc
            \/ jobs[c].pc = "asleep" /\ jobs'[c].pc = "awake"
  BY <1>a, <1>1, StopCases
<1>4. /\ eventLoop /\ parentNode = root /\ Free(posted, Stale)
      /\ \A i \in Jobs : ~jobs[i].wired
  BY <1>a, <1>2 DEF LinkInv, LoopOK, LastOK, WiredOK, OwnOK, SignalsOK
<1>5. OwnJob(c)'
  <2>1. CASE UNCHANGED jobs
    BY <1>2, <2>1, OwnJobKept DEF OwnOK
  <2>2. CASE /\ jobs'[c].wired = jobs[c].wired /\ jobs'[c].root = jobs[c].root
             /\ jobs'[c].update = jobs[c].update /\ jobs'[c].back = jobs[c].back
             /\ \/ jobs'[c].pc = jobs[c].pc
                \/ jobs[c].pc = "asleep" /\ jobs'[c].pc = "awake"
    <3>1. ~jobs'[c].wired
      BY <1>4, <2>2
    <3>2. OnceOK(c)' /\ ListOK(c)'
      BY <1>2, <2>2 DEF OwnOK, OwnJob, OnceOK, ListOK, Filling, FilesOf, Emitting
    <3>3. OwnTask(c)'
      BY <1>2, <2>2 DEF OwnOK, OwnJob, OwnTask, Filling, Before, Looping
    <3>4. WaitsOK(c)'
      BY <3>1 DEF WaitsOK
    <3> QED
      BY <3>2, <3>3, <3>4 DEF OwnJob
  <2> QED
    BY <1>3, <2>1, <2>2
<1>6. \A i \in Jobs : OwnJob(i)'
  BY <1>2, <1>5, OwnJobKept DEF OwnOK
<1>7. ContentOK'
  BY <1>2 DEF OwnOK, ContentOK, FilesOf
<1>8. SignalsOK'
  <2>1. Stale' = Stale
    BY <1>2 DEF Stale, FilesOf
  <2>2. \A e : FreeBehind(posted', e, Stale')
    BY <1>2, <1>4, <2>1 DEF Free, FreeBehind
  <2>3. Free(posted', Stale')
    BY <1>2, <1>4, <2>1
  <2>4. ASSUME "restart" \notin lost', NEW i \in Jobs, jobs'[i].dying
        PROVE  FreeBehind(posted', <<"delete", i>>, Signals)
    <3>1. EndOK /\ "restart" \notin lost
      BY <1>2, <2>4 DEF OneInv
    <3>2. CASE jobs[i].dying
      BY <1>2, <3>1, <3>2 DEF OwnOK, SignalsOK
    <3>3. CASE i = c /\ ~isFinished(c)
      <4>1. ~Sent(<<"delete", i>>)
        BY <3>1, <3>3 DEF EndOK, SentOver
      <4> QED
        BY <1>2, <4>1 DEF Sent, In, FreeBehind
    <3> QED
      BY <1>2, <1>3, <2>4, <3>2, <3>3
  <2>5. main' # "waitFuture"
    BY <1>2
  <2> QED
    BY <2>2, <2>3, <2>4, <2>5 DEF SignalsOK, Free, FreeBehind, Signals, Files, Roots
<1> QED
  BY <1>6, <1>7, <1>8 DEF OwnOK

(* fetchMore() keeps OwnOK when the root was replaced while it waited.     *)
LEMMA TerminateOwns ==
  ASSUME LinkInv, OwnOK, Terminate
  PROVE  OwnOK'
<1>a. TypeInv
  BY DEF LinkInv
<1>b. PICK c \in Jobs \union {None} : c = jobController
  BY <1>a DEF TypeInv, TypeOK
<1>1. /\ main = "leave1" /\ eventLoop' = FALSE /\ main' \in {"crashed", "loop"}
      /\ UNCHANGED <<root, rows, queue, enable, tasks, parentNode>> /\ lost \subseteq lost'
      /\ \/ posted' = posted
         \/ c \in Jobs /\ posted' = Append(posted, <<"delete", c>>)
  BY <1>a, <1>b, TerminateCases
<1>2. \/ UNCHANGED jobs
      \/ /\ \A i \in Jobs \ {c} : jobs'[i] = jobs[i]
         /\ jobs'[c].pc = "over" /\ Kept(jobs'[c], jobs[c])
  BY <1>a, <1>b, TerminateCases
<1>3. \A i \in Jobs : ~jobs[i].wired
  BY <1>1 DEF LinkInv, LoopOK, LastOK, WiredOK
<1>4. Quieter
  <2>1. CASE posted' = posted
    BY <2>1 DEF Quieter
  <2>2. CASE c \in Jobs /\ posted' = Append(posted, <<"delete", c>>)
    BY <1>a, <2>2, NoSignals, QuietlyAdded
  <2> QED
    BY <1>1, <2>1, <2>2
<1>5. ASSUME NEW i \in Jobs PROVE OwnJob(i)' /\ jobs'[i].dying = jobs[i].dying
  <2>1. CASE jobs'[i] = jobs[i]
    BY <1>1, <2>1, OwnJobKept DEF OwnOK
  <2>2. CASE jobs'[i].pc = "over" /\ Kept(jobs'[i], jobs[i])
    <3>1. ~jobs'[i].wired /\ jobs'[i].dying = jobs[i].dying /\ jobs'[i].root = jobs[i].root
      BY <1>3, <2>2 DEF Kept
    <3>2. OwnJob(i)'
      BY <1>1, <2>2, <3>1 DEF OwnOK, OwnJob, OnceOK, ListOK, OwnTask, WaitsOK, Filling, FilesOf,
         Before, Emitting, Looping
    <3> QED
      BY <3>1, <3>2
  <2> QED
    BY <1>2, <2>1, <2>2
<1>6. ContentOK'
  BY <1>1 DEF OwnOK, ContentOK, FilesOf
<1>7. SignalsOK'
  BY <1>1, <1>4, <1>5, SignalsKept DEF OwnOK
<1> QED
  BY <1>5, <1>6, <1>7 DEF OwnOK

(* setRootUrl() empties the model and the queue, and the manager listens   *)
(* no more: what is on its way is stale from then on, and ignored.         *)
LEMMA RootOwns ==
  ASSUME LinkInv, OwnOK, SetRootUrl \/ NewRoot
  PROVE  OwnOK'
<1>a. TypeInv
  BY DEF LinkInv
<1>1. CASE SetRootUrl
  <2>1. /\ UNCHANGED <<root, rows, queue, enable, tasks, eventLoop, posted, parentNode, lost>>
        /\ main' = "waitFuture" /\ jobs' = Left /\ lost = {}
    BY <1>1 DEF SetRootUrl, MayAsk, content, nodes, Left
  <2>2. CutAll(jobs')
    BY <2>1, LeftCut
  <2>3. \A i \in Jobs : OwnJob(i)'
    BY <2>1, <2>2, CutOwns DEF OwnOK
  <2>4. ContentOK'
    BY <2>1 DEF OwnOK, ContentOK, FilesOf
  <2>5. Quieter /\ \A i \in Jobs : jobs'[i].dying => jobs[i].dying
    BY <2>1, <2>2 DEF Quieter, CutAll
  <2>6. SignalsOK'
    BY <2>1, <2>5, SignalsKept DEF OwnOK
  <2> QED
    BY <2>3, <2>4, <2>6 DEF OwnOK
<1>2. CASE NewRoot
  <2>1. /\ UNCHANGED <<jobs, tasks, eventLoop, parentNode, lost>> /\ root' = root + 1
        /\ rows' = {} /\ queue' = {} /\ enable' = FALSE
        /\ main = "waitFuture" /\ main' \in {"leave1", "loop"}
        /\ posted' \in {posted, Append(posted, <<"managerFinished">>)}
    BY <1>2 DEF NewRoot, links, threads
  <2>2. \A i \in Jobs : OwnJob(i)'
    BY <2>1, OwnJobKept DEF OwnOK, LinkInv, LastOK, WiredOK
  <2>3. ContentOK'
    BY <2>1 DEF ContentOK
  <2>4. parentNode' # root'
    BY <1>a, <2>1, LoadingAssumption DEF TypeInv, TypeOK, HandsOK, Roots
  <2>5. \A i \in Jobs : jobs[i].dying => FreeBehind(posted', <<"delete", i>>, Signals)
    <3>1. Quieter
      BY <1>a, <2>1, ManagerQuiet
    <3> QED
      BY <2>1, <3>1 DEF OwnOK, SignalsOK, Quieter
  <2>6. Stale' \subseteq Signals
    BY DEF Stale, Signals
  <2>7. SignalsOK'
    BY <2>1, <2>4, <2>5, <2>6 DEF SignalsOK, FreeBehind, Signals, Files, Roots
  <2> QED
    BY <2>2, <2>3, <2>7 DEF OwnOK
<1> QED
  BY <1>1, <1>2

(* In the beginning nothing is shown.                                      *)
LEMMA OwnInit == Init => OwnInv
<1> SUFFICES ASSUME Init PROVE OwnInv
  OBVIOUS
<1>1. \A j \in Jobs : jobs[j] = Unborn /\ tasks[j] = Done
  BY DEF Init
<1>2. /\ Unborn.pc = "unborn" /\ ~Unborn.wired /\ ~Unborn.dying
      /\ Done.pc = "done" /\ Done.job = None /\ Done.list = {}
  BY DEF Unborn, Done
<1>3. \A j \in Jobs : OwnJob(j)
  BY <1>1, <1>2
  DEF OwnJob, OnceOK, ListOK, OwnTask, WaitsOK, Filling, Before, Emitting, Looping
<1>4. ContentOK
  BY DEF Init, ContentOK
<1>5. SignalsOK
  BY <1>1, <1>2 DEF Init, SignalsOK
<1> QED
  BY <1>3, <1>4, <1>5, OneInit DEF OwnInv, OwnOK

(* Every step keeps the invariant.                                         *)
LEMMA OwnStep == OwnInv /\ [Next]_vars => OwnInv'
<1> SUFFICES ASSUME OwnInv, [Next]_vars PROVE OwnInv'
  OBVIOUS
<1>1. OneInv' /\ LinkInv /\ lost \subseteq lost'
  BY OneStep, LostGrows DEF OwnInv, OneInv, LinkInv
<1>2. ASSUME OneInv, OwnOK, "lateList" \notin lost' PROVE OwnOK'
  <2>1. ASSUME NEW j \in Jobs, JobThread(j) PROVE OwnOK'
    BY <1>2, <2>1, ThreadOwns
  <2>2. ASSUME NEW j \in Jobs, Task(j) PROVE OwnOK'
    BY <1>2, <2>2, TaskOwns
  <2>3. CASE Manager \/ ManagerStart \/ LateStart
    BY <1>1, <1>2, <2>3, ManagerOwns
  <2>4. CASE OnJobAddChildren \/ OnJobFinished \/ OnManagerFinished
    BY <1>1, <1>2, <2>4, EventOwns
  <2>5. CASE JobDestroyed
    BY <1>1, <1>2, <2>5, DestroyedOwns
  <2>6. CASE FetchMore \/ FetchAfterWait \/ Refresh
    BY <1>1, <1>2, <2>6, AskOwns
  <2>7. CASE StopAndDeleteLater
    BY <1>2, <2>7, StopOwns
  <2>8. CASE SetRootUrl \/ NewRoot
    BY <1>1, <1>2, <2>8, RootOwns
  <2>9. CASE Terminate
    BY <1>1, <1>2, <2>9, TerminateOwns
  <2>10. CASE UNCHANGED vars
    <3>1. UNCHANGED <<root, rows, queue, jobs, tasks, enable, main, eventLoop, parentNode,
                      posted, lost>>
      BY <2>10 DEF vars, content, nodes, threads, loop
    <3>2. Quieter
      BY <3>1 DEF Quieter
    <3> QED
      BY <1>2, <3>1, <3>2, OwnStays DEF OwnOK, ContentOK
  <2> QED
    BY <2>1, <2>2, <2>3, <2>4, <2>5, <2>6, <2>7, <2>8, <2>9, <2>10
    DEF Next, Interface, Maybe
<1> QED
  BY <1>1, <1>2 DEF OwnInv

(* A directory shows its own files only, though signals of the last one    *)
(* are still on their way when setRootUrl() replaces the root, unless a    *)
(* list came late.                                                         *)
THEOREM ShowsItsOwn == Spec => []OwnFiles
<1>1. OwnInv => OwnFiles
  BY DEF OwnInv, OwnOK, ContentOK, OwnFiles
<1> QED
  BY <1>1, OwnInit, OwnStep, PTL DEF Spec

-----------------------------------------------------------------------------
(* A directory that was listed shows all its files.                        *)

(* The job j is the last one that was born.                                *)
Last(j) == Born(j) /\ \A k \in Jobs : j < k => ~Born(k)

(* How far job j came.                                                     *)
Reached(j) == IF jobs[j].pc = "gone" THEN Entries ELSE jobs[j].done

(* The places of the last job: it lists from the first file, it is not     *)
(* stopped before the end, and it ends behind the last file.               *)
PlaceOK(job) ==
  /\ job.pc = "run" => job.done = 0
  /\ Before(job) => job.from = 1
  /\ job.pc \in Looping \union {"run"} => job.state # "Stoped"
  /\ job.pc \in {"ending", "finish", "over"} => job.done = Entries
  /\ job.pc \in Emitting => IF job.back = "ending" THEN job.done = Entries
                            ELSE job.state # "Stoped"

(* File n of the root is in the list of job j or of its task, in the       *)
(* model or the queue of the manager, or on its way.                       *)
Somewhere(j, n) ==
  \/ Before(jobs[j])
  \/ Filling(tasks[j]) /\ <<root, n>> \in tasks[j].list
  \/ /\ ~Filling(tasks[j])
     /\ <<root, n>> \in rows \union queue \/ Sent(<<"addChildren", <<root, n>>>>)

(* What the last job has listed is not lost.                               *)
Accounted(j) ==
  /\ jobs[j].root = root
  /\ jobs[j].pc # "gone" => jobs[j].wired
  /\ PlaceOK(jobs[j])
  /\ \A n \in 1 .. Reached(j) : Somewhere(j, n)

(* One of the races that lose a file was lost.                             *)
Excused == lost \intersect {"lateList", "restart", "leftOver"} # {}

(* The root is shown, and setRootUrl() is not about to replace it.         *)
Showing == populated /\ main # "waitFuture"

(* The manager takes what is in its queue.                                 *)
QueueOK == queue # {} => manager \in {"timer", "runs"}

CompleteOK == QueueOK /\ (Showing => \E j \in Jobs : Last(j) /\ Accounted(j))

(* Unless one of the races was lost, the last listing of a directory that  *)
(* is shown accounts for all it has listed.                                *)
CompleteInv == OwnInv /\ (Excused \/ CompleteOK)

(* There is one last job.                                                  *)
LEMMA OneLast ==
  ASSUME NEW i \in Jobs, NEW j \in Jobs, Last(i), Last(j)
  PROVE  i = j
  BY NoneIsNoJob DEF Last

(* The last job is the last one until another one is born.                 *)
LEMMA LastKept ==
  ASSUME NEW j \in Jobs, Last(j), \A k \in Jobs : Born(k)' => Born(k), Born(j)'
  PROVE  Last(j)'
  BY DEF Last

(* A job and its task as they were account for what they did if nothing    *)
(* falls out of the model, the queue and the events.                       *)
LEMMA AccountedKept ==
  ASSUME NEW j \in Jobs, Accounted(j), jobs'[j] = jobs[j], tasks'[j] = tasks[j], root' = root,
         \A n : <<root, n>> \in rows \union queue \/ Sent(<<"addChildren", <<root, n>>>>)
                => <<root, n>> \in rows' \union queue' \/ Sent(<<"addChildren", <<root, n>>>>)'
  PROVE  Accounted(j)'
<1>1. Reached(j)' = Reached(j)
  BY DEF Reached
<1>2. PlaceOK(jobs[j])'
  BY DEF Accounted, PlaceOK, Before
<1>3. \A n : Somewhere(j, n) => Somewhere(j, n)'
  BY DEF Somewhere, Before, Filling
<1> QED
  BY <1>1, <1>2, <1>3 DEF Accounted

-----------------------------------------------------------------------------
(* The thread of the job.                                                  *)

(* The signal of a job that lists a file behind its first batch.           *)
LEMMA FileAdded ==
  ASSUME TypeInv, NEW j \in Jobs, AddChildren(j), jobs[j].wired
  PROVE  /\ posted' = Append(posted, <<"addChildren", <<jobs[j].root, jobs[j].done + 1>>>>)
         /\ <<"addChildren", <<jobs[j].root, jobs[j].done + 1>>>> \in Events
<1> DEFINE J == jobs[j]
           next == [J EXCEPT !.done = @ + 1, !.pc = "loop"]
<1>a. J \in JobRecords
  BY DEF TypeInv, TypeOK
<1>1. J.done + 1 \in 1 .. Entries /\ J.root \in Roots
  BY <1>a, LoadingAssumption DEF AddChildren, Runs, JobRecords
<1>2. next.wired = J.wired /\ next.root = J.root /\ next.done = J.done + 1
  BY <1>a DEF JobRecords
<1>3. posted' = IF ~next.wired THEN posted
                ELSE Append(posted, <<"addChildren", <<next.root, next.done>>>>)
  BY DEF AddChildren
<1> HIDE DEF next
<1>4. <<J.root, J.done + 1>> \in Files
  BY <1>1 DEF Files
<1> QED
  BY <1>2, <1>3, <1>4, EventsTyped

(* Behind its first batch a job lists nothing without sending it.          *)
LEMMA ListsOrSends ==
  ASSUME TypeInv, NEW j \in Jobs, JobThread(j), jobs[j].pc # "run", ~jobs[j].update
  PROVE  jobs'[j].done = jobs[j].done \/ AddChildren(j)
<1>a. jobs[j] \in JobRecords /\ jobs \in [Jobs -> JobRecords]
  BY DEF TypeInv, TypeOK
<1>1. ASSUME NEW pc, Step(j, pc) PROVE jobs'[j].done = jobs[j].done
  BY <1>1, StepAt
<1>2. CASE LeaveLoop(j) \/ Pause(j) \/ Ending(j)
  <2>1. jobs' = [jobs EXCEPT ![j] = Leave(jobs[j])]
        \/ jobs' = [jobs EXCEPT ![j] = [jobs[j] EXCEPT !.state = "Paused", !.pc = "spawn"]]
        \/ jobs' = [jobs EXCEPT ![j] = [jobs[j] EXCEPT !.state = "Stoped", !.pc = "finish"]]
    BY <1>2, <1>a DEF LeaveLoop, Pause, Ending
  <2>2. Leave(jobs[j]).done = jobs[j].done
    BY <1>a DEF Leave, JobRecords
  <2>3. /\ [jobs[j] EXCEPT !.state = "Paused", !.pc = "spawn"].done = jobs[j].done
        /\ [jobs[j] EXCEPT !.state = "Stoped", !.pc = "finish"].done = jobs[j].done
    BY <1>a DEF JobRecords
  <2> QED
    BY <1>a, <2>1, <2>2, <2>3
<1> QED
  BY <1>1, <1>2 DEF JobThread, Run, Paused, WaitForStart, Collect, Emit, Spawn, Assign, Finish

(* The moves of a job that is connected keep PlaceOK, and its first batch  *)
(* ends where it hands it over.                                            *)
LEMMA ThreadPlace ==
  ASSUME NEW J \in JobRecords, NEW K \in JobRecords, Moves(J, K), PlaceOK(J), J.wired,
         J.pc \in Emitting /\ J.back = "loop" => ~J.update
  PROVE  /\ PlaceOK(K)
         /\ ~Before(K) => ~Before(J) \/ J.pc = "spawn"
         /\ Before(J) /\ ~Before(K) => K.done = J.done
<1>1. K.pc # "run"
  BY DEF Moves, JobRecords
<1>2. Before(K) => K.from = 1
  BY DEF Moves, PlaceOK, Before, Looping, Emitting, JobRecords
<1>3. K.pc \in Looping \union {"run"} => K.state # "Stoped"
  BY DEF Moves, PlaceOK, Looping, Emitting, JobRecords
<1>4. K.pc \in {"ending", "finish", "over"} => K.done = Entries
  BY DEF Moves, PlaceOK, Looping, Emitting, JobRecords
<1>5. K.pc \in Emitting => IF K.back = "ending" THEN K.done = Entries ELSE K.state # "Stoped"
  BY DEF Moves, PlaceOK, Looping, Emitting, JobRecords
<1>6. ~Before(K) => ~Before(J) \/ J.pc = "spawn"
  BY DEF Moves, Before, Looping, JobRecords
<1>7. Before(J) /\ ~Before(K) => K.done = J.done
  BY <1>6 DEF Moves, Before, JobRecords
<1> QED
  BY <1>1, <1>2, <1>3, <1>4, <1>5, <1>6, <1>7 DEF PlaceOK

(* A file that a job lists is in its first batch, which it puts into the   *)
(* list of its task, or it is sent; the task has handed its list over by   *)
(* then.                                                                   *)
LEMMA ThreadSomewhere ==
  ASSUME OneInv, NEW j \in Jobs, JobThread(j), OwnJob(j), Accounted(j), root' = root,
         rows' = rows, queue' = queue, NEW n \in 1 .. Reached(j)', ~Before(jobs'[j])
  PROVE  Somewhere(j, n)'
<1> DEFINE J == jobs[j]
           K == jobs'[j]
<1>a. TypeInv /\ LinkInv /\ Moves(J, K) /\ Own(j)
  BY ThreadMoves, ThreadTyped DEF OneInv, LinkInv
<1>b. J \in JobRecords /\ K \in JobRecords
  BY <1>a, ThreadTyped DEF TypeInv, TypeOK
<1>c. /\ J.wired /\ J.root = root /\ J.pc # "gone" /\ K.pc # "gone" /\ PlaceOK(J)
      /\ K.root = J.root
  BY <1>a DEF Own, Accounted
<1>d. /\ ~Before(J) \/ J.pc = "spawn"
      /\ Before(J) => K.done = J.done
  BY <1>a, <1>b, <1>c, ThreadPlace DEF OwnJob, OnceOK
<1>e. n \in 1 .. K.done
  BY <1>c DEF Reached
<1>1. CASE J.pc = "spawn"
  <2>1. /\ tasks'[j].pc = "begin"
        /\ tasks'[j].list = {J.root} \X (J.from .. J.done)
    BY <1>1, <1>a, SpawnOrNot
  <2>2. J.from = 1 /\ K.done = J.done
    BY <1>1, <1>c, <1>d DEF PlaceOK, Before
  <2>3. <<root, n>> \in tasks'[j].list
    BY <1>c, <1>e, <2>1, <2>2
  <2> QED
    BY <2>1, <2>3 DEF Somewhere, Filling
<1>2. CASE J.pc # "spawn"
  <2>1. UNCHANGED tasks /\ ~Before(J)
    BY <1>2, <1>a, <1>d, SpawnOrNot
  <2>2. \A e : Sent(e) => Sent(e)'
    BY <1>a, ThreadSent
  <2>3. CASE n \in 1 .. J.done
    <3>1. Somewhere(j, n)
      BY <1>c, <2>3 DEF Accounted, Reached
    <3> QED
      BY <2>1, <2>2, <3>1 DEF Somewhere, Filling
  <2>4. CASE n \notin 1 .. J.done
    <3>1. J.pc # "run" /\ K.done # J.done
      BY <1>e, <2>1, <2>4 DEF Before
    <3>2. ~J.update
      BY <1>a, <1>b, <2>1, <3>1 DEF Moves, Before, Looping, JobRecords
    <3>3. AddChildren(j)
      BY <1>a, <3>1, <3>2, ListsOrSends
    <3>4. K.done = J.done + 1 /\ J.pc \in {"loop", "awake"}
          /\ (J.pc = "awake" \/ J.state # "Paused") /\ J.state # "Stoped"
      BY <1>a, <1>b, <3>1, <3>2, <3>3 DEF Moves, AddChildren, Runs, JobRecords
    <3>5. n = J.done + 1
      BY <1>b, <1>e, <2>4, <3>4, LoadingAssumption DEF JobRecords
    <3>6. ~Filling(tasks[j])
      <4>1. Behind(J) /\ (J.pc = "awake" \/ J.state = "Started")
        BY <1>b, <3>2, <3>4 DEF Behind, Looping, JobRecords
      <4> QED
        BY <1>c, <4>1 DEF OwnJob, WaitsOK
    <3>7. Sent(<<"addChildren", <<root, n>>>>)'
      <4>1. /\ posted' = Append(posted, <<"addChildren", <<root, n>>>>)
            /\ <<"addChildren", <<root, n>>>> \in Events
        BY <1>a, <1>c, <3>3, <3>5, FileAdded
      <4> QED
        BY <1>a, <4>1, SentAdded
    <3> QED
      BY <1>c, <2>1, <3>6, <3>7 DEF Somewhere, Filling
  <2> QED
    BY <2>3, <2>4
<1> QED
  BY <1>1, <1>2

(* The thread of a job loses no file.                                      *)
LEMMA ThreadCompletes ==
  ASSUME OneInv, EndOK, OwnOK, CompleteOK, NEW j \in Jobs, JobThread(j)
  PROVE  CompleteOK'
<1>a. TypeInv /\ LinkInv /\ Own(j) /\ Moves(jobs[j], jobs'[j])
      /\ UNCHANGED <<root, populated, rows, queue, manager, main>>
  BY ThreadLeaves, ThreadTyped, ThreadMoves DEF OneInv, LinkInv, content, nodes
<1>b. jobs[j] \in JobRecords /\ jobs'[j] \in JobRecords
  BY <1>a, ThreadTyped DEF TypeInv, TypeOK
<1>1. QueueOK'
  BY <1>a DEF CompleteOK, QueueOK
<1>2. ASSUME Showing' PROVE Last(j)' /\ Accounted(j)'
  <2>1. PICK l \in Jobs : Last(l) /\ Accounted(l)
    BY <1>a, <1>2 DEF CompleteOK, Showing
  <2>2. j = jobController
    BY <1>a DEF EndOK, OneRuns, Own, isFinished
  <2>3. Last(j)
    BY <2>2, NoneIsNoJob DEF OneInv, LinkInv, LastOK, ControllerOK, Last
  <2>4. Accounted(j)
    BY <2>1, <2>3, OneLast
  <2>5. Last(j)'
    BY <1>a, <2>3, LastKept DEF Own, Born
  <2>6. jobs'[j].root = root' /\ jobs'[j].wired /\ jobs[j].wired
    BY <1>a, <2>4 DEF Own, Accounted
  <2>7. PlaceOK(jobs'[j])
    BY <1>a, <1>b, <2>4, <2>6, ThreadPlace DEF Accounted, OwnOK, OwnJob, OnceOK
  <2>8. ASSUME NEW n \in 1 .. Reached(j)' PROVE Somewhere(j, n)'
    <3>1. CASE Before(jobs'[j])
      BY <3>1 DEF Somewhere, Before
    <3>2. CASE ~Before(jobs'[j])
      BY <1>a, <2>4, <3>2, ThreadSomewhere DEF OwnOK
    <3> QED
      BY <3>1, <3>2
  <2>9. PlaceOK(jobs[j])'
    BY <2>7 DEF PlaceOK, Before
  <2> QED
    BY <2>5, <2>6, <2>8, <2>9 DEF Accounted
<1> QED
  BY <1>1, <1>2 DEF CompleteOK

-----------------------------------------------------------------------------
(* The tasks.                                                              *)

(* No task stops a job.                                                    *)
LEMMA TaskStopsNone ==
  ASSUME TypeInv, NEW j \in Jobs, Task(j), NEW k \in Jobs, jobs'[k].state = "Stoped"
  PROVE  jobs[k].state = "Stoped"
<1>t. jobs \in [Jobs -> JobRecords]
  BY DEF TypeInv, TypeOK
<1>1. CASE UpdateChildren(j)
  BY <1>1, UpdateMoves
<1>2. CASE jobs' = jobs
  BY <1>2
<1>3. CASE StartJob(j)
  <2> DEFINE t == tasks[j].job
             started == [jobs[t] EXCEPT !.state = "Started"]
             rerun == [started EXCEPT !.pc = "run"]
  <2>1. \/ jobs'[k] = jobs[k]
        \/ k = t /\ jobs'[k] \in {Awake(started), rerun, started}
    BY <1>3, <1>t DEF StartJob
  <2>2. CASE k = t /\ jobs'[k] \in {Awake(started), rerun, started}
    <3>1. started \in JobRecords /\ started.state = "Started"
      BY <1>t, <2>2 DEF JobRecords
    <3> HIDE DEF started
    <3>2. Awake(started).state = started.state /\ rerun.state = started.state
      BY <3>1 DEF Awake, JobRecords
    <3> QED
      BY <2>2, <3>1, <3>2
  <2> QED
    BY <2>1, <2>2
<1> QED
  BY <1>1, <1>2, <1>3 DEF Task, SetChildren, CheckFinished, SetIdle, SetUpdated, TestPaused

(* A job that is paused or started keeps PlaceOK.                          *)
LEMMA TaskPlace ==
  ASSUME NEW J \in JobRecords, NEW K \in JobRecords, PlaceOK(J), Kept(K, J),
         K.pc = J.pc \/ (J.pc = "asleep" /\ K.pc = "awake"),
         K.state = "Stoped" => J.state = "Stoped"
  PROVE  PlaceOK(K) /\ (Before(K) <=> Before(J))
<1>1. Before(K) <=> Before(J)
  BY DEF Kept, Before, Looping
<1>2. K.pc \in Looping <=> J.pc \in Looping
  BY DEF Looping
<1>3. K.pc \in Emitting <=> J.pc \in Emitting
  BY DEF Emitting
<1> QED
  BY <1>1, <1>2, <1>3 DEF PlaceOK, Kept

(* The list of a task gets from the task into the model.                   *)
LEMMA TaskSomewhere ==
  ASSUME OneInv, OwnOK, NEW j \in Jobs, Task(j), NEW l \in Jobs, Last(l), NEW n,
         "lateList" \notin lost', Before(jobs'[l]) <=> Before(jobs[l]), Somewhere(l, n)
  PROVE  Somewhere(l, n)'
<1>a. /\ TypeInv /\ LinkInv
      /\ UNCHANGED <<root, queue, posted>>
      /\ \A i \in Jobs \ {j} : tasks'[i] = tasks[i]
      /\ tasks[j].pc # "done"
  BY TaskLeaves, TaskSteps DEF OneInv, LinkInv, nodes, loop
<1>b. Born(j)
  BY <1>a DEF LinkInv, LastOK, TasksBorn
<1>c. j = l \/ j < l
  BY <1>b, NoneIsNoJob DEF Last
<1>1. CASE SetChildren(j) /\ j # l
  <2>1. Late(j)
    BY <1>c, <1>1, NoneIsNoJob DEF Late, Last, Born
  <2> QED
    BY <1>1, <1>a, <2>1, SetMoves
<1>2. CASE SetChildren(j) /\ j = l
  <2>1. /\ tasks[l].pc = "fill" /\ tasks'[l].pc = "check" /\ rows' = tasks[l].list
    BY <1>2, <1>a, SetMoves
  <2> QED
    BY <1>a, <2>1 DEF Somewhere, Filling, Before, Sent
<1>3. CASE UpdateChildren(j)
  <2>1. /\ tasks[j].pc = "begin" /\ tasks'[j].pc = "fill"
        /\ tasks'[j].list = tasks[j].list /\ rows' = rows
    BY <1>3, <1>a, UpdateMoves
  <2> QED
    BY <1>a, <2>1 DEF Somewhere, Filling, Before, Sent
<1>4. CASE ~UpdateChildren(j) /\ ~SetChildren(j)
  <2>1. ~Filling(tasks[j]) /\ ~Filling(tasks'[j]) /\ rows' = rows
    BY <1>4, <1>a, LaterMoves
  <2> QED
    BY <1>a, <2>1 DEF Somewhere, Filling, Before, Sent
<1> QED
  BY <1>1, <1>2, <1>3, <1>4

(* The tasks lose no file, unless one is late or starts a job again.       *)
LEMMA TaskCompletes ==
  ASSUME OneInv, OwnOK, CompleteOK, NEW j \in Jobs, Task(j),
         "lateList" \notin lost', "restart" \notin lost'
  PROVE  CompleteOK'
<1>a. /\ TypeInv /\ LinkInv /\ Touched
      /\ UNCHANGED <<root, populated, queue, manager, main>>
      /\ jobs \in [Jobs -> JobRecords] /\ jobs' \in [Jobs -> JobRecords]
  BY TaskLeaves, TaskTouches DEF OneInv, LinkInv, TypeInv, TypeOK, nodes, loop
<1>b. \A k \in Jobs : /\ Kept(jobs'[k], jobs[k])
                      /\ \/ jobs'[k].pc = jobs[k].pc
                         \/ jobs[k].pc = "asleep" /\ jobs'[k].pc = "awake"
  BY <1>a DEF Touched, Restarted
<1>1. QueueOK'
  BY <1>a DEF CompleteOK, QueueOK
<1>2. ASSUME Showing', NEW l \in Jobs, Last(l), Accounted(l)
      PROVE  Last(l)' /\ Accounted(l)'
  <2>1. Last(l)'
    BY <1>b, <1>2, LastKept DEF Born, Last
  <2>2. jobs'[l].root = jobs[l].root /\ jobs'[l].wired = jobs[l].wired
        /\ (jobs'[l].pc = "gone" <=> jobs[l].pc = "gone") /\ Reached(l)' = Reached(l)
    BY <1>b DEF Kept, Reached
  <2>3. PlaceOK(jobs'[l]) /\ (Before(jobs'[l]) <=> Before(jobs[l]))
    BY <1>a, <1>b, <1>2, TaskStopsNone, TaskPlace DEF Accounted
  <2>4. \A n \in 1 .. Reached(l) : Somewhere(l, n)'
    BY <1>2, <2>3, TaskSomewhere DEF Accounted
  <2>5. PlaceOK(jobs[l])'
    BY <2>3 DEF PlaceOK, Before
  <2> QED
    BY <1>a, <1>2, <2>1, <2>2, <2>4, <2>5 DEF Accounted
<1> QED
  BY <1>a, <1>1, <1>2 DEF CompleteOK, Showing

-----------------------------------------------------------------------------
(* The manager and the interface thread.                                   *)

(* The jobs and their tasks are left alone, and no file is lost.           *)
LEMMA CompleteStays ==
  ASSUME CompleteOK, QueueOK', Showing' => Showing, UNCHANGED <<jobs, tasks, root>>,
         Showing =>
           \A n : <<root, n>> \in rows \union queue \/ Sent(<<"addChildren", <<root, n>>>>)
                  => <<root, n>> \in rows' \union queue' \/ Sent(<<"addChildren", <<root, n>>>>)'
  PROVE  CompleteOK'
<1>1. ASSUME Showing', NEW l \in Jobs, Last(l), Accounted(l)
      PROVE  Last(l)' /\ Accounted(l)'
  BY <1>1, AccountedKept DEF Last, Born
<1> QED
  BY <1>1 DEF CompleteOK

(* The manager ends with an empty queue, and puts in what it takes.        *)
LEMMA ManagerCompletes ==
  ASSUME LinkInv, CompleteOK, Manager \/ ManagerStart \/ LateStart
  PROVE  CompleteOK'
<1>1. /\ UNCHANGED <<root, jobs, tasks, populated, main>>
      /\ rows \union queue \subseteq rows' \union queue'
      /\ posted' \in {posted, Append(posted, <<"managerFinished">>)}
  BY DEF Manager, ManagerStart, LateStart, Insert, LastLook, ManagerEnd, loop, content, status,
     links, threads
<1>2. QueueOK'
  BY DEF Manager, ManagerStart, LateStart, Insert, LastLook, ManagerEnd, CompleteOK, QueueOK
<1>3. \A e : Sent(e) => Sent(e)'
  <2>1. CASE posted' = posted
    BY <2>1 DEF Sent
  <2>2. CASE posted' = Append(posted, <<"managerFinished">>)
    BY <2>2, SentAdded, EventsTyped DEF LinkInv
  <2> QED
    BY <1>1, <2>1, <2>2
<1> QED
  BY <1>1, <1>2, <1>3, CompleteStays DEF Showing

(* A signal that is handled puts its file into the queue, of a manager     *)
(* that is not ending.                                                     *)
LEMMA EventCompletes ==
  ASSUME LinkInv, CompleteOK, OnJobAddChildren \/ OnJobFinished \/ OnManagerFinished,
         "leftOver" \notin lost'
  PROVE  CompleteOK'
<1>a. TypeInv /\ posted \in Seq(Events)
  BY DEF LinkInv, TypeInv, HandsOK
<1>1. UNCHANGED <<root, rows, populated, jobs, tasks, enable, main>>
  BY DEF OnJobAddChildren, OnJobFinished, OnManagerFinished, AddFile, content, status, links,
     threads, nodes
<1>2. CASE OnJobAddChildren
  <2>1. Head(posted)[1] = "addChildren" /\ Head(posted) \in Events /\ posted' = Tail(posted)
        /\ Event("addChildren")
    BY <1>a, <1>2, EventHead DEF OnJobAddChildren
  <2>2. \A e : Sent(e) => Sent(e)' \/ e = Head(posted)
    BY <1>a, <2>1, SentTaken
  <2>3. IF enable THEN AddFile(Head(posted)[2]) ELSE UNCHANGED <<queue, manager, lost>>
    BY <1>2 DEF OnJobAddChildren
  <2>4. QueueOK' /\ queue \subseteq queue'
    <3>1. enable => manager # "ending"
      BY <2>3 DEF AddFile
    <3>2. manager \in {"idle", "timer", "runs", "ending"}
      BY <1>a DEF TypeInv, TypeOK
    <3> QED
      BY <2>3, <3>1, <3>2 DEF AddFile, CompleteOK, QueueOK
  <2>5. ASSUME Showing, NEW n,
               <<root, n>> \in rows \union queue \/ Sent(<<"addChildren", <<root, n>>>>)
        PROVE  <<root, n>> \in rows' \union queue' \/ Sent(<<"addChildren", <<root, n>>>>)'
    <3>1. enable
      BY <2>5 DEF LinkInv, LoopOK, Showing
    <3>2. Head(posted)[2] \in queue'
      BY <2>3, <3>1 DEF AddFile
    <3>3. CASE <<"addChildren", <<root, n>>>> = Head(posted)
      BY <3>2, <3>3
    <3> QED
      BY <1>1, <2>2, <2>4, <2>5, <3>3
  <2> QED
    BY <1>1, <2>4, <2>5, CompleteStays DEF Showing
<1>3. CASE OnJobFinished \/ OnManagerFinished
  <2>1. QueueOK' /\ queue' = queue
    BY <1>3 DEF OnJobFinished, OnManagerFinished, nodes, CompleteOK, QueueOK
  <2>2. ASSUME NEW n, Sent(<<"addChildren", <<root, n>>>>)
        PROVE  Sent(<<"addChildren", <<root, n>>>>)'
    <3>1. CASE OnManagerFinished
      <4>1. Event("managerFinished") /\ posted' = Tail(posted)
            /\ Head(posted)[1] = "managerFinished"
        BY <3>1 DEF OnManagerFinished, Event
      <4> QED
        BY <1>1, <1>a, <2>2, <4>1, SentTaken
    <3>2. CASE OnJobFinished
      <4>1. PICK k \in Jobs : k = Head(posted)[2]
        BY <1>a, <3>2, EventHead DEF OnJobFinished
      <4>2. /\ posted # <<>> /\ Tail(posted) \in Seq(Events) /\ Head(posted)[1] = "finished"
            /\ posted' = Append(Tail(posted), <<"delete", k>>)
        BY <1>a, <3>2, <4>1, EventHead DEF OnJobFinished, Event
      <4>3. In(<<"addChildren", <<root, n>>>>, Tail(posted))
        BY <1>a, <2>2, <4>2, InTail DEF Sent
      <4>4. In(<<"addChildren", <<root, n>>>>, posted')
        BY <4>2, <4>3, InAppend, EventsTyped
      <4> QED
        BY <1>1, <4>4 DEF Sent
    <3> QED
      BY <1>3, <3>1, <3>2
  <2> QED
    BY <1>1, <2>1, <2>2, CompleteStays DEF Showing
<1> QED
  BY <1>2, <1>3

(* A job that is destroyed has ended, and so has it listed all.            *)
LEMMA DestroyedCompletes ==
  ASSUME OneInv, EndOK, CompleteOK, JobDestroyed
  PROVE  CompleteOK'
<1>a. TypeInv /\ LinkInv
  BY DEF OneInv, LinkInv
<1>1. PICK j \in Jobs : j = Head(posted)[2]
  BY <1>a, DestroyedType
<1>2. /\ jobs \in [Jobs -> JobRecords] /\ jobs[j].root \in Roots
      /\ jobs' = [jobs EXCEPT ![j] = Ruin(jobs[j].root)]
  BY <1>1, <1>a, DestroyedType DEF TypeInv, TypeOK, JobRecords
<1>3. /\ UNCHANGED <<root, rows, queue, manager, populated, tasks>>
      /\ posted' = Tail(posted) /\ Event("delete")
      /\ main' = IF eventLoop /\ jobs[j].dying /\ jobs[j].pc # "gone" THEN "leave0" ELSE main
  BY <1>1 DEF JobDestroyed, content, nodes
<1>4. /\ jobs'[j].pc = "gone" /\ jobs'[j].root = jobs[j].root
      /\ \A i \in Jobs \ {j} : jobs'[i] = jobs[i]
  BY <1>2, RuinTyped
<1>5. Head(posted) = <<"delete", j>> /\ isFinished(j) /\ Born(j)
  <2>1. Head(posted)[1] = "delete" /\ Head(posted) \in Events
    BY <1>a, <1>3, EventHead
  <2>2. Head(posted) = <<"delete", j>>
    BY <1>1, <2>1 DEF Events
  <2>3. Sent(<<"delete", j>>)
    BY <1>a, <1>3, <2>2, SentTaken
  <2> QED
    BY <1>a, <2>2, <2>3 DEF EndOK, SentOver, LinkInv, LastOK, SentBorn
<1>6. QueueOK'
  BY <1>3 DEF CompleteOK, QueueOK
<1>7. ASSUME NEW n, Sent(<<"addChildren", <<root, n>>>>)
      PROVE  Sent(<<"addChildren", <<root, n>>>>)'
  BY <1>a, <1>3, <1>5, <1>7, SentTaken
<1>8. ASSUME Showing', NEW l \in Jobs, Last(l), Accounted(l)
      PROVE  Last(l)' /\ Accounted(l)'
  <2>1. Last(l)'
    BY <1>4, <1>5, <1>8, LastKept DEF Born, Last
  <2>2. CASE l # j
    BY <1>3, <1>4, <1>7, <1>8, <2>1, <2>2, AccountedKept
  <2>3. CASE l = j
    <3>1. jobs[j].pc \in {"over", "gone"}
      BY <1>5 DEF isFinished, Born
    <3>2. Reached(j) = Entries /\ Reached(j)' = Entries
      BY <1>4, <1>8, <2>3, <3>1 DEF Reached, Accounted, PlaceOK
    <3>3. PlaceOK(jobs[j])' /\ ~Before(jobs[j])
      BY <1>4, <3>1 DEF PlaceOK, Before, Looping, Emitting
    <3>4. \A n \in 1 .. Entries : Somewhere(j, n)'
      BY <1>3, <1>7, <1>8, <2>3, <3>2, <3>3 DEF Accounted, Somewhere, Filling
    <3> QED
      BY <1>3, <1>4, <1>8, <2>1, <2>3, <3>2, <3>3, <3>4 DEF Accounted
  <2> QED
    BY <2>2, <2>3
<1>9. Showing' => Showing
  BY <1>a, <1>3 DEF Showing, LinkInv, LoopOK
<1> QED
  BY <1>6, <1>8, <1>9 DEF CompleteOK

(* A new job for the root has listed nothing yet.                          *)
LEMMA NewJobCompletes ==
  ASSUME LinkInv, CompleteOK, NEW js \in [Jobs -> JobRecords], CutAll(js), NEW r \in Roots,
         NEW pst, NewJob(js, r, pst), r = root \/ ~populated
  PROVE  CompleteOK'
<1>1. PICK j \in Jobs : BornAs(js, r, j)
  BY NewJobBorn
<1>2. /\ populated' = (r = root \/ populated) /\ UNCHANGED <<root, queue, manager>>
  BY NewJobBorn
<1>3. QueueOK'
  BY <1>2 DEF CompleteOK, QueueOK
<1>4. CASE r = root
  <2>1. Last(j)'
    <3>1. ~Born(j) /\ \A k \in Jobs \ {j} : Born(k)' <=> Born(k)
      BY <1>1 DEF BornAs, CutAll, Born
    <3>2. \A k \in Jobs : j < k => ~Born(k)
      BY <3>1 DEF LinkInv, LastOK, ControllerOK
    <3> QED
      BY <1>1, <3>1, <3>2, NoneIsNoJob DEF Last, Born, BornAs
  <2>2. Reached(j)' = 0
    BY <1>1 DEF BornAs, Reached
  <2>3. PlaceOK(jobs[j])'
    BY <1>1 DEF BornAs, PlaceOK, Looping, Emitting
  <2>4. Accounted(j)'
    BY <1>1, <1>2, <1>4, <2>2, <2>3 DEF BornAs, Accounted
  <2> QED
    BY <1>3, <2>1, <2>4 DEF CompleteOK
<1>5. CASE r # root
  BY <1>2, <1>3, <1>5 DEF CompleteOK, Showing
<1> QED
  BY <1>4, <1>5

(* The handlers that ask for a directory lose no file: a refresh lists it  *)
(* again.                                                                  *)
LEMMA AskCompletes ==
  ASSUME LinkInv, CompleteOK, Refresh \/ FetchMore \/ FetchAfterWait
  PROVE  CompleteOK'
<1>1. CASE FetchAfterWait
  <2>1. eventLoop /\ ~populated /\ NewJob(jobs, parentNode, posted)
    BY <1>1 DEF FetchAfterWait, LinkInv, LoopOK
  <2>2. CutAll(jobs) /\ jobs \in [Jobs -> JobRecords] /\ parentNode \in Roots
    BY <2>1 DEF LinkInv, LastOK, WiredOK, CutAll, TypeInv, TypeOK
  <2> QED
    BY <2>1, <2>2, NewJobCompletes
<1>2. CASE Fetch
  <2>1. CASE populated' = FALSE /\ UNCHANGED <<queue, manager>>
    BY <2>1 DEF CompleteOK, QueueOK, Showing
  <2>2. CASE Left \in [Jobs -> JobRecords] /\ NewJob(Left, root, Sends)
    <3>1. CutAll(Left) /\ root \in Roots
      BY LeftCut DEF LinkInv, TypeInv, TypeOK
    <3> QED
      BY <2>2, <3>1, NewJobCompletes
  <2> QED
    BY <1>2, <2>1, <2>2, FetchCases DEF LinkInv
<1>3. CASE Refresh /\ eventLoop
  BY <1>3 DEF Refresh, CompleteOK, QueueOK, Showing, nodes
<1> QED
  BY <1>1, <1>2, <1>3 DEF Refresh, FetchMore

(* These happen while the root is not shown, or hide it.                   *)
LEMMA HiddenCompletes ==
  ASSUME LinkInv, CompleteOK, StopAndDeleteLater \/ Terminate \/ SetRootUrl \/ NewRoot
  PROVE  CompleteOK'
<1>1. CASE StopAndDeleteLater \/ Terminate
  <2>1. UNCHANGED <<populated, queue, manager>> /\ eventLoop
    BY <1>1, StopCases, TerminateCases DEF LinkInv, LoopOK
  <2> QED
    BY <2>1 DEF LinkInv, LoopOK, CompleteOK, QueueOK, Showing
<1>2. CASE SetRootUrl
  BY <1>2 DEF SetRootUrl, nodes, CompleteOK, QueueOK, Showing
<1>3. CASE NewRoot
  BY <1>3 DEF NewRoot, CompleteOK, QueueOK, Showing
<1> QED
  BY <1>1, <1>2, <1>3

-----------------------------------------------------------------------------

(* In the beginning nothing is listed.                                     *)
LEMMA CompleteInit == Init => CompleteInv
<1>1. Init => CompleteOK
  BY DEF Init, CompleteOK, QueueOK, Showing
<1> QED
  BY <1>1, OwnInit DEF CompleteInv

(* Every step keeps the invariant.                                         *)
LEMMA CompleteStep == CompleteInv /\ [Next]_vars => CompleteInv'
<1> SUFFICES ASSUME CompleteInv, [Next]_vars PROVE CompleteInv'
  OBVIOUS
<1>1. OwnInv' /\ OwnInv /\ OneInv /\ LinkInv /\ lost \subseteq lost'
  BY OwnStep, LostGrows DEF CompleteInv, OwnInv, OneInv, LinkInv
<1>2. ASSUME ~Excused' PROVE CompleteOK'
  <2>a. /\ "lateList" \notin lost' /\ "restart" \notin lost' /\ "leftOver" \notin lost'
        /\ OwnOK /\ EndOK /\ CompleteOK
    BY <1>1, <1>2 DEF Excused, CompleteInv, OwnInv, OneInv
  <2>1. ASSUME NEW j \in Jobs, JobThread(j) PROVE CompleteOK'
    BY <1>1, <2>a, <2>1, ThreadCompletes
  <2>2. ASSUME NEW j \in Jobs, Task(j) PROVE CompleteOK'
    BY <1>1, <2>a, <2>2, TaskCompletes
  <2>3. CASE Manager \/ ManagerStart \/ LateStart
    BY <1>1, <2>a, <2>3, ManagerCompletes
  <2>4. CASE OnJobAddChildren \/ OnJobFinished \/ OnManagerFinished
    BY <1>1, <2>a, <2>4, EventCompletes
  <2>5. CASE JobDestroyed
    BY <1>1, <2>a, <2>5, DestroyedCompletes
  <2>6. CASE FetchMore \/ FetchAfterWait \/ Refresh
    BY <1>1, <2>a, <2>6, AskCompletes
  <2>7. CASE StopAndDeleteLater \/ Terminate \/ SetRootUrl \/ NewRoot
    BY <1>1, <2>a, <2>7, HiddenCompletes
  <2>8. CASE UNCHANGED vars
    <3>1. UNCHANGED <<root, populated, rows, queue, manager, jobs, tasks, main, posted>>
      BY <2>8 DEF vars, content, nodes, threads, loop
    <3>2. QueueOK'
      BY <2>a, <3>1 DEF CompleteOK, QueueOK
    <3> QED
      BY <2>a, <3>1, <3>2, CompleteStays DEF Showing, Sent
  <2> QED
    BY <2>1, <2>2, <2>3, <2>4, <2>5, <2>6, <2>7, <2>8 DEF Next, Interface, Maybe
<1> QED
  BY <1>1, <1>2 DEF CompleteInv

(* A directory that was listed shows all its files: none falls between the *)
(* first batch of its job, the task of the pool that puts it in, the       *)
(* signals for the rest and the queue of the manager, unless a list came   *)
(* late, a job was started again or the manager was just ending.           *)
THEOREM ListsEverything == Spec => []ListedIsComplete
<1>1. ASSUME OwnInv, CompleteOK, AtRest PROVE FilesOf(root) \subseteq rows
  <2>1. PICK j \in Jobs : Last(j) /\ Accounted(j)
    BY <1>1 DEF AtRest, CompleteOK, Showing
  <2>2. /\ isFinished(j) /\ tasks[j].pc = "done" /\ posted = <<>> /\ manager = "idle"
    BY <1>1 DEF AtRest
  <2>3. jobs[j].pc \in {"over", "gone"}
    BY <2>1, <2>2 DEF isFinished, Last, Born
  <2>4. Reached(j) = Entries /\ ~Before(jobs[j]) /\ ~Filling(tasks[j])
    BY <2>1, <2>2, <2>3 DEF Accounted, PlaceOK, Reached, Before, Looping, Filling
  <2>5. queue = {} /\ \A e : ~Sent(e)
    BY <1>1, <2>2, InNone DEF CompleteOK, QueueOK, Sent
  <2>6. \A n \in 1 .. Entries : <<root, n>> \in rows
    BY <2>1, <2>4, <2>5 DEF Accounted, Somewhere
  <2> QED
    BY <2>6 DEF FilesOf
<1>2. CompleteInv => ListedIsComplete
  BY <1>1 DEF CompleteInv, Excused, ListedIsComplete
<1> QED
  BY <1>2, CompleteInit, CompleteStep, PTL DEF Spec
=============================================================================
