# Verification of gxde-file-manager

This directory holds TLA+ specifications of the parts of gxde-file-manager
whose correctness depends on the order of things: the job that copies, moves
and deletes files, the listing of a directory into its model, the grid of
icons on the desktop, and the two threads that fetch thumbnails and extra
properties for the infos of files. TLC checks them on small instances, and
TLAPS proves the theorems listed below for every value of the constants.
`PROJECT.json` maps each definition to the lines it translates.

Paths below are relative to `src/`; `io/`, `interfaces/`, `controllers/` and
`dialogs/` are directories of `gxde-file-manager-lib/`, and `presenter/` and
`view/` of `gxde-desktop-panel/`.

To run a check: `tlc -config CopyFile.cfg MCCopyFile`. To check a proof:
`tlapm CopyFileProofs.tla`.

## 1. The system

| Part | State it keeps | Operations | Talks to |
|---|---|---|---|
| File job, `io/dfilecopymovejob.cpp` | state, error, last action, remembered answers, stack of directories, open devices, counters | start, stop, pause, answer; copy, rename, remove, link, merge | the error handler, called from the worker thread; the file system |
| Task dialog, `dialogs/dtaskdialog.cpp`, and `ErrorHandle` in it and in `controllers/filecontroller.cpp` | widget of a task, the answer of the user | show a question, take the answer, pause, close | signals queued from the worker; direct calls of `togglePause()` and `stop()` |
| Icon grid, `presenter/gridmanager.cpp` | icon of a cell, cell of an icon, cells in use, overlapping icons, saved profiles | add, remove, move, arrange, merge, resize | handlers of `view/canvasgridview.cpp` |
| Directory listing, `controllers/jobcontroller.cpp`, `interfaces/dfilesystemmodel.cpp` | state of the job, batch of files, state of the model | list, pause, stop, fetch, refresh | a thread per listing; signals to the model |
| Node manager, `FileNodeManagerThread` in `interfaces/dfilesystemmodel.cpp` | lock free queue of file events | add, remove, drain | file watcher, model |
| Thumbnails, `interfaces/dthumbnailprovider.cpp` | queue of requests, set of discarded ones | append, remove, create, destroy | infos; one thread |
| File info, `interfaces/dfileinfo.cpp`: icon and extra properties | icon and its flags, two timers, pointer to `RequestEP` | `fileIcon()`, `extraProperties()`, `refresh()`, make active and inactive, destroy | thumbnail provider; `RequestEP`, a queue and a thread of its own |
| Statistics job, `io/dfilestatisticsjob.cpp` | state, counters | start, stop, pause | property dialog, file job |
| Undo stack, `controllers/operatorrevocation.cpp` | stack of operations | push, revoke | event dispatcher |
| Trash and the older jobs, `fileoperations/filejob.cpp` | state, counters | move to trash, restore | trash controller |
| Services, controllers, watchers, tags, devices, shares, views, plugins, daemon, tools | tables, widgets, data of external services | | D-Bus, udisks, GIO, samba, inotify |

How they interact. A controller starts one file job per request. The job runs
in its own thread; when it meets an error it calls the handler *in that
thread*, and the handler decides alone or pauses the job, has the dialog show
the question by a queued signal, and is called a second time to fetch the
answer. The dialog in turn changes the job's state from the interface thread,
with no lock. File events caused by the job reach the models and the desktop as
signals of the watchers, in the interface thread, where the handlers of the
icon view change the grid. The views ask an info for its icon and properties
whenever they paint it. The info answers with what it has, arms a timer for the
rest, and gets it later from a thread: the thumbnail by a callback *in that
thread*, the properties by a call that is posted to the interface thread.

What is hard:

- **Threads without locks.** `d->state` is tested and assigned by both threads.
  A request may come between the test and the wait, or be overwritten.
- **A dialogue in two calls.** The answer travels through a field of the
  handler and a second call. It may meet another error than its own.
- **Failures in the middle.** Every call of the file system may fail and be
  retried, skipped or cancelled, with the devices open and half a chunk written.
- **Answers that outlive their question.** `lastErrorHandleAction` decides what
  is reported, whether a source is removed and whether a loop goes on.
- **Answers for objects that are gone or changed.** A request holds a pointer
  or a file name. The info may be destroyed, made inactive or have asked again
  before the answer comes.
- **Redundant state.** The grid keeps four structures that must agree, plus
  saved profiles, and two dozen handlers that change them in any order.

What makes each part correct:

- *job control*: a stop ends the job; a resume wakes it; an answer decides the
  error it was given for; a job that ends without an error has done its work;
  a job is not cancelled without a cause; no question is lost.
- *transfer of a file*: the source of a move goes only behind a whole target;
  the units are in order; what is reported as done is done.
- *walk over the sources*: nothing is lost; nothing old is replaced without
  consent; everything that was not skipped is transferred.
- *icon grid*: the structures agree; no icon vanishes, none outlives its file;
  positions are saved and restored; an arranged desktop is packed.
- *listing*: a directory shows all its files and no others; one listing runs at
  a time; a model does not stay busy.
- *node manager*: every queued event is applied, in order, before it ends.
- *thumbnails*: the thread sleeps only on an empty queue and wakes only to a
  full one; an info that stays on the screen and set out to ask gets its
  thumbnail or is told that there is none; the program ends.
- *extra properties*: the info that asked gets them; nothing is written to an
  info that was destroyed; no request is left in a queue without a thread.

## 2. The plan

The order follows the damage a fault would do.

| Step | Modules | Abstract specification | Status |
|---|---|---|---|
| 1 | `CopyJobControl`, `CopyJobProofs` | `ErrorDialogue` | done |
| 2 | `CopyFile`, `CopyFileProofs` | `FileTransfer` | done |
| 3 | `CopyTree`, `CopyTreeProofs` | uses the outcomes of `FileTransfer` | done |
| 4 | `GridManager`, `GridProofs`, `LoopProofs` | | done |
| 5 | `DirectoryLoading`, `DirectoryLoadingProofs` | | done, but for repeated rows and the same root set again |
| 6 | `RequestEP`, `RequestEPProofs` | | done |
| 7 | `ThumbnailProvider`, `FileIcon`, `FileIconProofs` | `ThumbnailProvider` is what the infos may use, and `FileIcon` is shown to use it so | done |
| 8 | node manager with its lock free queue, and the refresh of the model by file events | a queue that is drained | left |

Theorems left: none of the modelled parts. Every invariant and every action
property that a passing run checks is proved; the properties that need fairness
stay with the runs.

The parts compose by outcomes. `CopyJobControl` takes what is done to a source
as any sequence of checks, errors and ends. `CopyFile` and `CopyTree` take a
question as any of the answers its caller can get, which `ErrorDialogue` limits
and `CopyJobControl` implements. `CopyTree` takes the transfer of a file as one
step with the outcomes of `FileTransfer`, which `CopyFile` implements.
`FileIcon` instantiates `ThumbnailProvider` and adds who calls it and when:
each of its steps that changes the provider's variables is a step of
`ThumbnailProvider`, and its requests are pairs of an info and the time of the
file that the info knew.

## 3. The modules

### CopyJobControl: worker, interface thread, dialogue

The state is `d->state`, `d->error`, `lastErrorHandleAction`, `actionOfError`,
the position of the worker (`pc`, with the caller of `stateCheck()` in `site`
and that of `handleError()` in `place`), the position of the interface thread
in the handler it runs (`ui`), the widget (`shown`, `pad`) and the answer held
by `ErrorHandle`. A step is what a thread does between two accesses the other
can observe. `stop()`, `togglePause()` and `setState()` are therefore several
steps each. The worker's wait is three: `JobWait` (the mutex is the worker's
own, so nothing keeps a `wakeAll()` out before it), `WakeAll` by the other
thread, and `JobWaited`, which looks at the state only then.

`handle` chooses one of the three ways the code gives a job: none, the handler
without a dialog, and the dialog's.

The history variables say what happened, and no guard reads them:

- `cause`: why a job may be cancelled;
- `about`: which error the last question was about;
- `lost`: that a stop was overwritten by `setState()`, a `wakeAll()` came
  before the wait, a caller of `handleError()` did not know the answer and
  returned false with no error set (`refused`), or `doProcess()` failed on one
  of its two paths without `setError()` (`unreported`: it gets no info for the
  new target, lines 599-602, or the source is neither link, file nor directory,
  line 795).

The properties that mention `lost` name the races that the code has. They say
that there are no others.

With Retry as the answer for all errors of a kind, `handleError()` returns
without asking, and the call is made again. A repeated `read()` or `write()`
looks at the state first. The loops around the other calls do not. Such repeats
(`Again`) are not counted by `MaxFaults`: a call may fail for ever, and the run
contains the behaviours in which it does.

| Action | Code |
|---|---|
| `Begin`, `NextSource`, `Finished`, `End`, `Synced`, `RestoreState`, `Finish` | `run()` |
| `StateCheck`, `JobWait`, `JobWaited` | `stateCheck()`, `jobWait()` |
| `CloseFiles`, `FilesClosed`, `LeaveIOWait` | the end of `doCopyFile()` |
| `GiveUpUnreported` | the two paths of `doProcess()` that fail without `setError()` |
| `Fault`, `AnswerFromList` ... `GoOn`, `GiveUp` | `handleError()`, `setAndhandleError()` and their callers |
| `ErrorChanged`, `FetchAnswer`, `Refuse`, `KeepBoth`, `AskUser` | `ErrorHandle::handleError()` and the widget's slots |
| `ClickPad`, `Toggle`, `ToggleResumes`, `TogglePauses`, `WakeAll` | `togglePause()` and its button |
| `ClickClose`, `StopSets` | `stop()` |
| `Dispose` | the buttons of the question |

### CopyFile: one file

The control flow of `doRenameFile()`, `doCopyFile()`, `doRemoveFile()` and
`joinToCompletedFileList()` for a file of `Size` units read in blocks of
`Block`. The target is a function from positions to units, so that a unit in
the wrong place, a gap or a leftover of an old file shows. Each call may fail,
writes may be short, and each failure gets the answers its caller can get.
`Damaged` is a difference found by the integrity check. The `Reopen` of that
check goes on after Cancel, as the code does. `FileTransfer` states the promise
without positions, devices or retries.

### CopyTree: directories, conflicts, links

The loop of `run()` and the recursion of `doProcess()` and `mergeDirectory()`,
with a stack of frames (`dir`, the entries still to do, and the `skip` that the
caller sees). The target holds any old entry of the same name (file, link,
directory or nothing) at every node. `mode` is copy, move or delete. `spoilt`
collects entries written through an old link, and `agreed` and `skipped` are
histories of the user's answers.

The entries are any forest below `Top`, given by `Kind` and `Parent`. `Above[n]`
is the path from a source down to the directory of `n`. It is defined as the
smallest set that has the directory of `n` and the directory of each of its
members, and not by recursion, so that it can be reasoned about.

### GridManager: icons of the desktop

All of it runs in the interface thread, so a handler of `CanvasGridView` is one
step. What varies is their order. `grid` is the record of
`GridManagerPrivate`'s fields. Its operations are pure operators on that
record, named as in the source (`AddPrivate`, `RemovePrivate`, `arrange`,
`changeGridSize`, `restoreProfile`, `move`, ...), and the handlers are the
actions. The grid starts with no profile saved, any files on the desktop, any of
the sizes, and either setting of arrangement and merging. Profiles of other sizes
that have become stale arise from the handlers that follow.

### DirectoryLoading: listing thread, pool, node manager, interface thread

A listing (`JobController`) collects a first batch, hands it over by a direct
call, and sends what follows as queued signals. The call pauses the listing and
starts a task of the thread pool that replaces the rows of the model and resumes
the listing. `jobs` holds the listings that were ever started, each with its
thread's position, `tasks` the task of each, `posted` the events that the
interface thread has yet to take, in order. `fetchMore()` may wait in an event
loop of its own for the end of the last listing (`eventLoop`), in which
`setRootUrl()`, `refresh()` and other events arrive; `main` says where it is.

Deferred deletion follows Qt: an object whose `deleteLater()` was called before
a nested loop started is not deleted within it. `exit(1)` followed by `quit()`
before the loop looks leaves it with code 0.

`lost` is a history of the races that the code loses. Only bounds read it:
nothing new is asked of a model behind a lost race, and a listing is restarted
once.

| `lost` | What happened |
|---|---|
| `wakeUp` | a listing was resumed or stopped after it tested its state and before it waited |
| `restart` | a listing ended between the test for Paused and `start()`, which runs it again |
| `lateUpdate` | the task found the listing unfinished, and it was over when `childrenUpdated` was set |
| `lateList` | a task put in a list behind the next root or listing, which had not waited for it |
| `noQuit` | a listing ended between `isFinished()` and `stopAndDeleteLater()`, and the loop never quits |
| `oldParent` | `fetchMore()` went on with the directory it was asked for, though the root is another |
| `dangling` | `terminate()` or `start()` was called on a job that is gone |
| `leftOver` | a file was queued between the node manager's last look and its end |

| Action | Code |
|---|---|
| `Run`, `Paused`, `WaitForStart`, `LeaveLoop`, `Collect`, `AddChildren`, `Ending` | `JobController::run()` |
| `Emit`, `Pause`, `Spawn`, `Assign` | `updateChildrenOnNewThread()` |
| `UpdateChildren` ... `StartJob` | `updateChildren()`, `pause()` and `start()` of the job |
| `ManagerStart`, `LateStart`, `Insert`, `LastLook`, `ManagerEnd` | `FileNodeManagerThread`, in short |
| `OnJobAddChildren`, `OnJobFinished`, `OnManagerFinished`, `JobDestroyed` | the slots |
| `FetchMore`, `Refresh`, `StopAndDeleteLater`, `FetchAfterWait`, `Terminate` | `fetchMore()`, `refresh()` |
| `SetRootUrl`, `NewRoot` | `setRootUrl()` before and behind its wait |

### RequestEP: extra properties of a file

`requestEPFiles` is the queue, `dirtyFileInfos` the set of infos whose result
is to be dropped, `thread` the position of `run()`, `hand` the entry that it
took, and `posted` the calls it posted to the interface thread, in order. The
queue has a lock, but `run()`, `requestEP()` and `cancelRequestEP()` let it go
between reading and writing; a handler of the interface thread is cut there
(`gui`). `slots` counts the connections to the timer: `extraProperties()` adds
one each time, and each calls `requestEP()` when the timer fires.

| Action | Code |
|---|---|
| `ExtraProperties`, `Refresh`, `MakeToInactive`, `Timeout`, `DeleteTimer` | `DFileInfo` and its timer |
| `Scan`, `AppendRequest`, `StartThread` | `RequestEP::requestEP()` |
| `Destroy`, `RemoveRequest` | `~DFileInfoPrivate()` and `cancelRequestEP()` |
| `Look`, `Take`, `Fetch`, `Leave` | `RequestEP::run()` |
| `Deliver` (`ProcessEPChanged`, `ThreadFinished`) | the posted calls and `finished()` |
| `Quit`, `Ended` | `~RequestEP()` |

The histories name what the code loses: `slipped` holds infos with a result
under way that their destructor cannot withdraw any more, `missed` those whose
call to ask was lost, `late` says that the last request met a thread that was
leaving, and `loaded` holds the infos that got what they asked for.

### ThumbnailProvider and FileIcon: the thread and its users

`ThumbnailProvider` is the queue with its lock and condition. `thread` tells
apart whether `run()` holds the lock and is about to wait (`asleep`), waits
(`waiting`), or was woken and has to take the lock again (`woken`). Appending
is two steps, because `wakeAll()` comes after the lock was let go, and so is
discarding, whose insertion is not locked at all. `~DThumbnailProvider()` is
`StopThread`, `WakeToStop` and `Joined`. `dequeue()` of an empty queue is
undefined behaviour: `thread = "undefined"`, of which nothing more is said.

`FileIcon` is `fileIcon()`, in three steps because the callback may come
between them, its timer, `makeToActive()`, `makeToInactive()`, `refresh()` and
the callback. A file has the time of its last change and the time its stored
thumbnail is stamped with; an info remembers the time it saw last.

Who has a new thumbnail painted? The callback only clears the icon. But before
it, still in the provider's thread, the signal `createThumbnailFinished` reaches
a handler of `initThumbnailConnection()` (`interfaces/dfmglobal.cpp:417`), which
announces the *file* as changed, and this goes to the models as a queued signal
(`interfaces/dfilesystemmodel.cpp:1741`): `_q_onFileUpdated()` refreshes the info
and tells the view to paint it. `posted` holds the infos with such a signal on
its way, `behind` those where it is queued behind the deletion of their timer,
and `dirty` those that the view was told to paint. A request for which no
thumbnail can be made is announced to nobody. `swallowed` is a history: it holds
the infos on the screen whose last request was thrown away because of the
discard of an earlier one.

| Action | Code |
|---|---|
| `Paint`, `LookForStored`, `AskLater` | `fileIcon()` |
| `Timeout`, `DeleteTimer` | its timer |
| `MakeToActive`, `MakeToInactive`, `Refresh` | the functions of these names |
| `GUIGoesOn`, `Exit`, `RunQueue`, `CreateThumbnail` | steps of the provider |
| `CallBack` | the callback, in the provider's thread |
| `FileUpdated`, `PaintDirty` | `_q_onFileUpdated()` of the model, and the painting it asks for |
| `Change` | another program writes the file |

### Proof modules and MC modules

`CopyJobProofs`, `CopyFileProofs`, `CopyTreeProofs`, `GridProofs`,
`DirectoryLoadingProofs`, `RequestEPProofs` and `FileIconProofs` extend the
modules they are about. `LoopProofs` is about loops as such: its constant is the
body of one, and `GridProofs` instantiates it for each loop of the grid. The
modules whose names begin with `MC` give the constants their values.

### Plausible bugs

A definition that no other uses, standing just before one of the same shape
(`JobWaitedInverted` before `JobWaited`), is the other with a bug that could be
made in that code: a dropped condition, a lost save, an off-by-one. Put in its
place it violates a property of a run. `PROJECT.json` lists them under
`mutants`, one for each property, so that each property is known to be able to
fail.

## 4. The runs

| Run | Instance | What it shows |
|---|---|---|
| `CopyJobControl.cfg` | one source, one error at any of seven places, or two at a conflict and the reopening, 0.9 million states | with every interleaving: clean ends are complete, cancellations have a cause, answers fit, questions stay up, a cancelled job takes no further source; stops and answers reach the worker unless a call fails for ever while a remembered Retry repeats it; `ErrorDialogue` is implemented |
| `CopyJobAssert.cfg` | one source, one conflict | **violation** of `RememberedWhilePaused` |
| `CopyFile.cfg` | three units, blocks of two, three failures | nothing lost, in order, counted once; `FileTransfer` is implemented |
| `CopyTree.cfg` | two nested directories, two files, a link; two failures; 3.2 million states | nothing lost, nothing replaced without consent, completeness |
| `GridManager.cfg` | three files, one of them hidden, grids of 2, 3 and 4 cells, five handlers, drops of one icon or of all, 0.4 million states | consistency, saving, packing, no icon lost or left over, return to a former size |
| `GridResize.cfg` | five files, from 2x2 to 3x1, four handlers | **violation** of `PositionsOnGrid` |
| `GridSync.cfg` | three files, 1x2, late events, four handlers | **violation** of `DataInSync` |
| `DirectoryLoading.cfg` | two files, a new root or refresh and a second one while `fetchMore()` waits, jobs with an iterator, 2.9 million states | own files only, all of them, one listing at a time |
| `LoadingLive.cfg` | two files, one new root or refresh, jobs of both kinds, 0.1 million states | `fetchMore()` comes back, a directory gets listed |
| `LoadingLeftOver.cfg` | three files, no request | **violation** of `FilesGetHandled` |
| `RequestEP.cfg` | two infos, two timeouts, one refresh, 0.2 million states | results reach the infos that asked and no destroyed ones, the queue has a thread, an info that asks gets its properties |
| `FileIcon.cfg` | one info, one change of its file, two requests in the queue, 0.6 million states | waits and wakings match the queue, an info gives up only on an answer, and one on the screen that set out to ask gets its thumbnail or is told that there is none, unless its request was swallowed |

Why the bounds are enough.

- *Errors*: two in one job are the fewest for which the answer to one can meet
  the other. The two that may come behind each other are a conflict, whose
  answers go on with the source in two ways, and the reopening, whose caller
  does not look for Cancel; each of the other places is met once. The control
  is the same for every source, so one is enough for two errors to meet; that a
  job takes no further source is about the count that is left. Two sources and
  two conflicts were also checked (0.9 million states).
- *File*: three units in blocks of two give a full and a short chunk and a
  write of part of a chunk. Three failures allow a retry of a retry.
- *Tree*: an answer must pass through two levels of directories to be lost,
  which needs a directory in a directory and a file beside the outer one. With
  two failures one may be in the inner directory and one in its parent.
- *Grid*: three files overlap on two cells, fit on three and leave a gap on
  four. Growing, shrinking, going back and one handler on either side are five
  steps. Four files and four handlers were also checked (0.6 million states),
  and drops of any two icons with three files and five handlers.
- *Listing*: two files put one in the first batch and one behind it. A second
  request comes only while `fetchMore()` waits because of the first (`MayAsk`);
  behind the end of that wait it would meet the state that the first one met.
  Without that bound two requests were also checked (4.5 million states).
  Three files are the fewest of which one finds the node manager leaving.
- *Extra properties*: two infos let one be in the hand of the thread while the
  other is behind it in the queue, where a removal meets the wrong entry; two
  timeouts let an info ask again while its first request is under way.
- *Thumbnails*: one info with two requests in the queue has a request that is
  discarded and one that is not; its file changes between them. The proofs do
  without these bounds.

Deadlock is not checked: a directory that is listed is at rest, a job that is
over stops for good, a job that waits for the user may wait for ever, a queue
that nobody fills stays empty, the program ends, and the grid stops at its
bound on handlers. It also stops if an icon is put behind the
last cell, where the code's behaviour is undefined.

### Fairness

`CopyJobControl`, `DirectoryLoading`, `RequestEP` and `FileIcon` have liveness
properties; the other modules state safety only. In `CopyJobControl`,
`WF_vars(Worker)`: the worker is a thread that the operating system runs
whenever it has something to do. `WF_vars(Interface)`: the event loop finishes
the handler it runs and delivers what is queued. There is no fairness on `User`,
because nobody has to press a button. A question may wait for ever, and no
property says otherwise.

The two liveness properties of the job have a premise instead of more fairness:
`RetriesEnd`, that no call fails for ever while a remembered Retry repeats it
without a look at the state. The file system need not grant it, and without it
the properties are false of the code (section 7), so it is part of what they say.

In `DirectoryLoading` the thread of every listing, every task of the pool
(`updateChildrenOnNewThread()` makes the pool larger when it is full), the node
manager and the event loop have weak fairness. The event loop's includes the
view's `fetchMore()`, which a timer of the view calls while there is more to
fetch. New roots, refreshes and the timer that may already have fired
(`LateStart`) have none.

In `RequestEP` the thread and the event loop, which finishes a handler and
delivers what is posted, have weak fairness. Nothing makes the views ask, and
timers need not fire: `Loads` starts with the request.

In `FileIcon` both threads have weak fairness. The events of the interface
thread have strong fairness for each info (`Event`): its timer fires and is
deleted, an announced file is updated, and what the view was told to paint is
painted, though other handlers may come between again and again. No other
painting is fair: the mouse need not pass, and the view need not scroll.
`MakeToActive`, `MakeToInactive`, `Refresh` and `Change` have no fairness either.

## 5. The proofs

The only assumptions are those on the constants, and for the grid the
hypothesis named there. `ControlAssumption`: at least
one source, any number of errors, any set of the places. `CopyFileAssumption`:
any size, any positive block, any number of failures. `RequestEPAssumption` and
`FileIconAssumption`: any infos and files, any file for an info, any bounds, and
two names that are no infos. `CopyTreeAssumption`: each entry is of some kind and
lies in a directory or in `Top`. `EntriesHaveSources`: on the path of each entry
there is one that lies in `Top`, which is what it means to be met from a source
and keeps entries from being their own ancestors. Neither says that the entries
are finitely many, and no proof needs it. `LoadingAssumption`: any number of
files and of requests, jobs with or without an iterator. `GridAssumption`: any
number of files, any of them hidden, a set of sizes with at least one column and
one row, and any bounds on handlers and on what is selected.

**`CopyJobProofs`**, for any number of sources and errors.

- `TypeCorrect`: `Spec => []TypeOK`, action by action. In particular the
  sources are never counted below none.
- `CancelledForACause`: `Spec => []CancelHasCause`. The invariant alone is not
  inductive: a job gets its error `Cancel` in `JobWaited` or `StateCheck`
  because of a *state* that the other thread set several steps before, and in
  `GiveUp` because of an *answer* decided before. `CauseInv` adds what those
  steps rely on:
  - no remembered answer is Cancel (`AnswersNeverCancel`);
  - the action Cancel had a cause when it was decided (`CancelWasDecided`);
  - a stopped job that is under way was stopped (`StopHasCause`);
  - while the worker waits, the state is one that the interface thread sets
    (`WaitIsInPause`);
  - it is not Paused when `wakeAll()` is called, and a worker that is awake
    again in any state but Running has a cause to be cancelled
    (`WakeAllLetsGo`, `WokenHasCause`).

  Steps that touch none of these are dealt with by one lemma,
  `QuietStepKeepsCause`.
- `CleanEnd`: `Spec => []CleanEndIsComplete`. `EndInv` says of the places on the
  way out of `run()`'s loop why the worker got there: an error, no source left, a
  refusal, or one of the two failures that `doProcess()` does not report. It
  needs `CauseInv`: a worker that leaves because of Cancel or a stop must have
  set its error.
- `CancelledJobEnds`: `Spec => CancelEndsJob`, from the same two invariants.

And of the dialogue:

- `AnswersFit`: `Spec => []AnswerFits`.
- `QuestionsStayUp`: `Spec => []QuestionStaysUp`.
- `JobImplementsDialogue`: `Spec => Dialogue!Spec`.

Neither `AnswerFits` nor `QuestionStaysUp` is inductive, and each needs the other
half of the dialogue. `QuestionInv` says what the two threads know of each other:

  - an error that is being decided is the one that `d->error` shows
    (`ErrorIsOpen`);
  - while the worker waits for an answer its buttons are up, or one was pressed
    and its answer not fetched (`Up`); the question is that of the error being
    served, and with the pause button off the other thread can only let the
    worker run or stop it (`Asked`);
  - buttons that are still up when the worker does not wait are those of a
    question that a stop ended (`Stopping`);
  - a worker that sleeps is paused, or the other thread is about to call
    `wakeAll()` (`SleepsInPause`), and a worker that will not pass the next look
    at the state has its question shown (`WaitIsShown`).

Each of these has the exceptions in which the code really loses something: a
stop that was overwritten or a waking before the wait (`lost`). The refinement
maps the open error, the remembered answers and the decision (`Open`, `Memory`,
`Decision`). One lemma for each action of `ErrorDialogue` says when a step of the
job is such a step, and three say when it is a stutter. `DialogueStep` then goes
through the actions of the job.

**`CopyFileProofs`**, for every size, block and number of failures.

- `CopyTypeCorrect`: nothing is read, written or summed beyond the end.
- `CopyInOrder`: `Spec => []WrittenInOrder`.
- `MoveNeverLoses`: `Spec => []NeverLost`.
- `CopyImplementsTransfer`: every initial state of `CopyFile` is one of
  `FileTransfer`, and every step is a step of it or a stutter.
- `ReportedCountsOnce`: `Spec => []CountedOnce`.

All five rest on `CopyInv`: positions of the two devices and the rest of the
chunk add up (`PositionsOK`), the checksum is that of the prefix read
(`SumOK`), the target agrees with the source up to the write position
(`TargetOK`), the worker reaches the removal of a source only with a whole
target or a skip (`ReturnOK`), and a source that is gone has a whole target
(`SourceOK`). The facts about contents (a prefix of full length is the whole)
are lemmas of their own. The last one adds `CountInv`: what was counted is the
read position while reading and the write position while writing, and a file
that was renamed or skipped counts when it is reported and not before.

**`CopyTreeProofs`**, for every forest of entries, any old target and any number
of failures.

- `TreeTypeCorrect`: `Spec => []TypeOK`.
- `ReplacesOnlyAgreed`: `Spec => OnlyAgreedReplaced`.
- `LosesNothing`: `Spec => []NothingLost`.
- `ReportsWhatIsDone`: `Spec => []ReportedIsDone`.
- `WalkIsComplete`: `Spec => []CompleteUnlessSkipped`.

What is known of trees comes first. Since `Above[n]` is a smallest closed set,
an induction along the path becomes a set of entries that is shown to be closed
(`AboveIsLeast`): so no entry is above itself (`NothingAboveItself`), two that
are above the same entry are above one another (`PathsAreChains`), and what lies
below two entries of the same directory is disjoint (`EntriesApart`). Then come the
three things that the walk does to its stack, pushing, popping and replacing its
top. The invariants build on each other:

1. `WhereInv`: the stack leads from the directory at hand up to a source, each
   frame holds entries of its own directory only, and `doProcess()` knows at each
   of its places what kind of entry it has and what it may overwrite
   (`PlaceOK`).
2. `WalkInv`: the entries in the frames lie apart (`Apart`), so that none is
   taken twice, and nothing below an entry still to do was touched
   (`Untouched`).
3. `KeptInv`: what is in the target arrived there (`ArrivedInv`), with
   `NothingLost` and `ReportedIsDone`. It needs 2 where a directory is
   renamed: all that is below goes with it, so none of it may have gone before.
4. `SkipInv`: a Skip that the code still remembers is about the entry at hand or
   the directory on top, and a frame is marked only if something below its
   directory was skipped.
5. `CoverInv`: every entry is still to do, below one that is, open on the stack,
   dealt with, or excused by a skip above or below it. At the end of the walk
   the stack holds nothing more, which leaves the last two.

The steps that change the files but not the walk, and those that change the walk
but not the files, are told apart once (`Working`, `StepsOfTheWalk`,
`FileEffects`, `WalkLeavesFiles`), and each invariant looks at what it needs.

**`DirectoryLoadingProofs`**, for any number of files and requests, and jobs of
either kind.

- `LoadingTypeCorrect`: `Spec => []TypeOK`.
- `OneAtATime`: `Spec => []OneListing`.

`TypeInv` adds the types of the tasks and of the posted events, and what bounds
the roots: each has its request. `LinkInv` holds whatever race is lost: jobs are
born in order and the controller is the last one (`ControllerOK`), the model is
connected to no other, and to none while `fetchMore()` or `setRootUrl()` waits
(`WiredOK`), and no task and no event is about a job that was never born. This is
half of `OneListing`. That two threads do not list at once needs `EndOK`: only
the controller runs, a job whose deletion was asked for is the one that
`fetchMore()` waits for or has its deletion on the way (`DyingOK`), and an event
that reports a job's end is posted by a job that has ended (`SentOver`). So when
the deletion arrives that lets `fetchMore()` go on, the controller is gone.
`EndOK` is lost once a task starts a finished job again, and with it the
property; nothing else loses it, and that is proved as well.

From the same invariant, what the model shows:

- `ShowsItsOwn`: `Spec => []OwnFiles`.
- `ListsEverything`: `Spec => []ListedIsComplete`.

*Own files.* A signal for a file of the last root may be queued when
`setRootUrl()` returns, and is harmless only because the manager does not listen
until `fetchMore()` enables it. `SignalsOK` says why no such signal is left by
then: `fetchMore()` without a wait runs behind all events, and one that waited
goes on behind the deletion of the old job, and a job that is to be deleted has
sent all it sends before. The first batch goes another way, through a task.
`OwnJob` says that a job that goes on listing sends nothing until its task has
put the batch in (`WaitsOK`), that it hands over one batch (`OnceOK`), and that a
task resumes its own job only (`OwnTask`). All of this is lost with the first
list that comes late.

*All files.* `Accounted` is said of the last job of a root that is shown: each
file that it has listed is in its batch, in the list of its task, in the model,
in the queue of the manager, or on its way as a signal (`Somewhere`). Its batch
begins at the first file and the job is not stopped before the last one
(`PlaceOK`), for whoever stops it hides the root first. The manager has a timer
or runs while its queue is not empty (`QueueOK`). At rest all places but the
model are empty. The task replaces the rows of the model by its list, which loses
nothing because the job waits: this is where the proof needs `OwnInv`.

**`GridProofs`**, for any number of files and of handlers in a row and any sizes
of the grid, if no file is announced while its icon overlaps (`~LateEvents`).

- `GridTypeOK`: `Spec => []TypeOK`.
- `GridConsistent`: `Spec => []Consistent`.
- `GridSavedIsShown`: `Spec => []SavedIsShown`.
- `GridArrangedIsPacked`: `Spec => []ArrangedIsPacked`.
- `GridRoundTrip`: `Spec => RoundTrip`.
- `GridIconsFollowFiles`: `Spec => IconsFollowFiles`.
- `GridLeftOnlyByOverlap`: `Spec => [][grid.over = <<>> => InsideGrid']_vars`.

The hypothesis is one of the two findings about the grid: with late events the
maps come apart (`GridSync.cfg`). The other, that `changeGridSize()` may write
behind the grid (`GridResize.cfg`), is no hypothesis. `TypeOK` and `Consistent`
are stated so that they hold of such a grid too: positions are numbers, of cells
or not, the maps agree, and the status is kept of the cells only. That an icon
has a cell is `PositionsOnGrid`, which is false, and the last theorem says when:
only if icons overlap. Behind such a write no handler is modelled.

`GridInv` is the invariant. Its parts need each other:

  - `Sound`: the two maps are inverse to each other, the status of the cells is
    what they say, nothing overlaps that has a cell, or twice. It alone is not
    kept: a removal puts the first overlapping icon into the last cell, so one
    must know that this cell was taken (`Good`);
  - `Dense`: if icons are arranged they have the first cells and overlap only
    when there is no other. `ArrangedIsPacked` is this, and a removal keeps it
    only because its handler arranges afterwards (`Settled`);
  - `SavedShown` and `SavedFits`: the profile of the present size is on the
    screen, and each profile is a placement of its size, which is what
    `restoreProfile()` relies on when it restores one.

Each operation has a lemma for each of these: `AddPrivate` and `RemovePrivate`
on the cells, then the operations of `GridManager` that save, then those that
repeat them (`removeAll`, `addAll`, `addAtAll`), and at last the handlers
(`StaysFit`). Three arguments are more than bookkeeping.

*The loops.* The model writes a loop as a recursive function. The lemma
`LoopSteps` of `LoopProofs` shows that it exists, whatever it repeats, from the
least number for which it would not. So `LoopProofs` needs no induction theorem,
and `EachUpTo` turns what a round preserves into what the loop preserves. Both
take sets and a module constant where the library takes operators.

*The drop.* `DestinationsDiffer`: the cells that `move()` computes for the
selected icons differ from one another and from those of the other icons, if all
selected ones have cells. There are then at least as many free cells, counting
their own, as icons to be dropped, and wherever the first one is chosen enough of
them follow. This is what the assertion at `presenter/gridmanager.cpp:641` asks
for. If an icon that overlaps is selected the hypothesis fails, and so may the
assertion.

*The change of the size.* `changeGridSize()` counts cells: behind the last one
that may stay empty there is room for all icons that must move, unless icons
overlap. The counts are about `Ascending`, of which
`AscendingEnumerates` says that it lists a set of numbers in order, once each.

`RoundTrip` and `IconsFollowFiles` are properties of steps and go handler by
handler from the invariant. A removal loses no other icon, an addition gives an
icon to the new one only, an arrangement permutes the icons, and a listing gives
one to each file that is listed. The exceptions for a crowded desktop are the
two moves, whose additions may fail because the cell is taken.

**`RequestEPProofs`**, for any set of infos, any number of timeouts and
refreshes.

- `TypeCorrect`: `Spec => []TypeOK`.
- `DestroyedStayMarked`: `Spec => []DestroyedAreMarked`.
- `AskedIsLoaded`: `Spec => []AskedOrLoaded`.
- `QueueGetsServed`: `Spec => []QueueIsServed`.

`DestroyedAreMarked` is not inductive: the destructor withdraws a request only
if the info still has its pointer, so one must know that an info with a request
under way has the pointer or has `slipped`, and that it is under way *once*, for
a second result would find the mark removed by the first. `IInv` adds this
(`Placed`), what the handler and the thread hold in their hands (`HandlerOK`,
`ThreadOK`), and the two properties that need each other, `AskedOrLoaded` and
`QueueIsServed`. Lemmas about `Append`, `Tail` and `RemoveAt` say what they do
to the entries of a queue.

**`FileIconProofs`**, for any infos, files, changes of the files and lengths of
the queue.

- `IconTypeCorrect`: `Spec => []TypeOK`.
- `WakesMatch`: `Spec => []WakesMatchQueue`.
- `GivesUpAfterAnswer`: `Spec => []GivesUpOnAnswer`.
- `IconsUseProvider`: `Spec => Provider!SafetySpec`. Every step of an info or of
  the thread is a step of `ThumbnailProvider` or changes none of its variables.

The argument follows the composition. `StepIsProviderStep` is the refinement.
`ProviderStep` shows that a step of the provider, whoever makes it, keeps
`ProviderInv`: besides the property it says that the queue is empty from the
look of the thread to its wait, that a thread that is woken finds a request
unless it had overtaken the waking (`ProviderOK`). With both, `WakesMatch` needs
nothing about icons. `PaintOK` says what `fileIcon()` knows between its steps.

**Only model-checked**: liveness (`StopHonoured`, `AnswerTaken`,
`FetchUnblocks`, `GetsListed`, `Loads`, `ThumbnailShown`), because fairness is
out of the prover's reach, and the four properties that a run violates. Of all
modules every invariant and every action property that a passing run checks is
proved. No module of the project declares a RECURSIVE operator, so that all of
them can be used in proofs.

## 6. Findings

Four runs end in a violation, each of something the repository says itself.

1. **An answer "for all" while the job runs** (`CopyJobAssert.cfg`).
   `setActionOfErrorType()` asserts that the job is not running
   (`io/dfilecopymovejob.cpp:1478`). The question pauses the job with
   `togglePause()`, but the pause button is disabled by a queued signal only. A
   click just before makes the handler's toggle resume the job instead.
2. **Icons behind the last cell** (`GridResize.cfg`). `changeGridSize()`
   (`presenter/gridmanager.cpp:418`) adds the number of overlapping icons where
   it should subtract them. If icons overlap while cells are free, a smaller
   grid gets icons behind its end, and `m_cellStatus` is written out of bounds.
3. **One icon in two cells** (`GridSync.cfg`). `add()`
   (`presenter/gridmanager.cpp:578`) looks for an icon among those with a cell
   only. One that overlaps and is announced again gets a cell and stays in the
   overlapping list, and "data sync failed" (line 270) follows.
4. **A file left in the queue** (`LoadingLeftOver.cfg`). `addFile()` of the node
   manager starts no timer while its thread runs
   (`interfaces/dfilesystemmodel.cpp:475`), and the thread may have looked at
   its queue for the last time. The comment at line 476 promises that handling
   a file takes at most a second.

## 7. What the code does and the properties leave room for

These are modelled. The properties name them as exceptions, because no text of
the repository says otherwise:

- A stop between the last `stateCheck()` and `setState()` is overwritten, and a
  `wakeAll()` before the wait is lost: the worker then sleeps until the next
  one (`lost`).
- A resume followed quickly by a pause cancels the job (`cause` is
  `pausedAgain`).
- Replace for a directory over a file is refused by returning false, and the
  job ends early without an error (`lost` contains `refused`). So it does when
  `doProcess()` gets no info for the new target, or meets a source that is
  neither link, file nor directory (`io/dfilecopymovejob.cpp:601` and `795`,
  `unreported`).
- With a remembered Retry, the loops around `open()`, `mkdir()`, `remove()`,
  `link()` and the check of the free space repeat a call that fails for ever
  without a look at the state (lines 704, 803-815, 898-934, 1106-1113,
  1189-1201, 1250-1257, and 326 in `handleError()`). No `stop()` is seen
  meanwhile (`RetriesEnd`).
- After Cancel at the reopening for the integrity check the job goes on.
- A write repeated after a part of the chunk was written counts that part
  twice.
- A move that cannot rename writes through an old link of the target.
- On a desktop with more files than cells a move, a new file or a resize may
  take an icon off the grid until it is loaded again. The assertion at
  `presenter/gridmanager.cpp:641` speaks of the first.
- `clear()` while the desktop is merged saves an empty profile for the
  desktop that is not.
- A new file that is deleted before its queued move gets an icon again.
- A result of extra properties is written to a destroyed info if the info asked
  twice at a time, was made inactive while the request was under way (which
  resets `requestEP`), the thread took the request between the two halves of
  `cancelRequestEP()`, or the signal `finished()` of an earlier run wiped the
  marks (`slipped`).
- A request that is put into the queue while the thread returns from `run()` is
  served with the next request only (`late`). One that meets a timer that is to
  be deleted, or is removed in the place of another, is lost until the info is
  refreshed (`missed`).
- The thread of the thumbnails may be woken to an empty queue and take from it
  (`overtaken`), and the end of the program waits for ever for a thread that was
  not waiting when it was woken (`unheard`).
- A callback of the provider that comes during `fileIcon()` of the same info may
  leave the icon of the theme with nothing more to ask (`raced`).
- A discard is known by its file only. A request that is thrown away because of
  the discard of an earlier one gets no answer, and is not announced: the info
  keeps the icon of the theme until something else has it painted (`swallowed`).
- The races of a listing (`lost` in section 3). A lost waking or end leaves
  `fetchMore()` waiting until the root is replaced, a late update leaves the
  model busy, and a late list shows files of the directory before. A restarted
  listing may be restarted again, any number of times.

## 8. What is not modelled

In the modelled parts: an info that a service does not create, but for what it
does to the end of the job (`GiveUpUnreported`; `CopyTree` has no such entry),
speed and progress timers, permissions and times of
files, a target inside its source, the volumes of a stack of directories,
starting a job twice, the life of the dialog after its job; hidden icons
(`hideIcon`), the animation that makes room for a drag, a model that lags
behind the directory. The contents of files are abstracted to units, checksums
to the content they are made from, names to the entries they stand for.

Of the listing: sorting, filters, events of the watcher, a root set to the
directory it has already, a service that returns no job, the closing of an
iterator in use, and rows that are inserted twice.

Of the infos: icons of symbolic links, infos that other threads destroy, a new
info at the address of an old one, how `createThumbnail()` makes an image, files that lie
in the directory of the thumbnails (they are shown as they are and announced to
nobody), models of private directories (they hear of no change), and the list of watchers that `ghostSignal()` reads in the provider's
thread without a lock.
Infos are one thread's here, as they are in the views.

Other parts: the node manager's queue is planned (section 2). The statistics
job repeats the pause and stop protocol of the file job with counters only, the
undo stack is changed by one thread, and `fileoperations/filejob.cpp` is the
predecessor of the file job with the same structure. File services dispatch sequentially by a table.
Tags, devices, shares and the daemon are thin layers over a database, udisks,
GIO, samba and system tools, where the protocol lives. Views, dialogs, plugins
and the tools are presentation or sequences of external commands.
`PROJECT.json` lists every component with its reason.
