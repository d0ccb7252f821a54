# A verification project for Harpoon2

Harpoon2 is a Django and Celery program that follows a download from the moment
a manager (Sonarr, Radarr, Mylar3, Bindery, a watched folder, ...) grabs it, over
its completion on a seedbox, to the local copy that the manager imports. This
directory holds TLA+ models of its core, the TLC runs that check them and the
TLAPS proofs about them. All paths below are relative to the repository;
"tasks.py" alone is `itemqueue/tasks.py`, "views.py" is `harpoon2/views.py`.

## 1. Inventory

The state is a PostgreSQL database (`Item`, `FileTransfer`, `ItemHistory`), a
Redis server (Celery's broker, the transfer semaphore, a polling cursor), the
local disk and the seedbox. Celery runs four worker processes
(`supervisord.conf`), acknowledges tasks late and has beat start the periodic
tasks (`harpoon2/celery.py:51-100`); the web views run beside them. Transactions
are READ COMMITTED and mostly one statement long. `item.save()` writes **every**
column as it was read and re-inserts a deleted row: this, and the number of
tasks that hold an `Item` object for minutes, is where most hazards come from.

| Component | State | Operations | Correct when |
|---|---|---|---|
| Transfer semaphore, tasks.py:547-575, 1378-1386 | Redis key `transfer_lock:<hash>` and its time to live | INCR, DECR, EXPIRE of each task; expiry, FLUSHDB, errors, deaths | one transfer per item; nobody locked out for ever; the count does not drift |
| Pipeline: `check_downloaders` 1490, `postprocess_item` 1389, `transfer_files_async` 514 | `Item.status`, `size`, the `FileTransfer` rows, local files, seedbox files, queued tasks | verify, list, register (STEP 1), copy (STEP 2), extract, post-process, clean up, mark | rows tell the truth about the disk; nothing is deleted that is not here; the item gets out of PostProcessing; a missing file is not forgotten |
| Recovery tick: `check_stalled_transfers` 1836 | `last_recovery_at`, rows, status | reopen, fail stalled rows, delete unfinished rows and dispatch | repairs what a dead or failed run left, harms no live one |
| Retry chains: `retry_postprocessing` 1952 | `attempt_count`, `last_recovery_at`, queued retries | cap, cooldown, call the manager, reschedule | bounded, not swallowed by their own cooldown |
| `check_downloader_failures` 2175 | status | mark Failed what SABnzbd reports | - |
| User actions: views.py:324-683 | status, rows, archive flag | cancel, reset, retry, complete, set status, archive | the user's decision holds |
| Drain gate: `_active_transfer_count` 47 | per-process cache of a count | inspect the workers, 5 s cache, fail open | at most `MAX_CONCURRENT_TRANSFERS` dispatches |
| Celery watchdog 2283 | - | flush an overlong queue, revoke old tasks | frees wedged workers, loses nothing that matters |
| SFTP stall watchdog `_sftp_get_with_timeout` 152, copy loop 1071 | stop event, progress time, result holder of a thread | watch a `sftp.get` in a second thread | a stalled copy fails, its leaked thread writes no more |
| AirDC++ check 2362, `process_completed` `entities/downloaders/airdcpp.py:454` | `next_check_at`, `airdcpp_check_count` | search the share, dispatch or postpone, give up | every item is found or failed in the end |
| Manager polls `entities/tasks.py:16-274`, `entities/managers.py` | new items, status, Redis cursor of Mylar3 | read queues and logs, create and update items | no grab missed, no status of the pipeline overwritten |
| Blackhole intake `entities/tasks.py:299` | watched folder, items | send a file to a downloader, record it, delete it | each file sent once |
| Assignment `entities/tasks.py:442` | `Item.downloader` | match a manager's queue with the downloaders | - |
| Bindery post-processing `entities/managers.py:1259-1632` | library files, Bindery's queue rows | move, import, delete stale rows | files and rows agree after a failure in the middle |
| Downloader and manager clients, status cache, pages, users, vendored libraries | - | remote calls, read-only views | see PROJECT.json |

The components meet in the database (all of them write `Item.status`), in
Celery's queue (`postprocess_item.delay`, `transfer_files_async.delay` and
`apply_async`, the retries with a countdown) and in Redis (semaphore and broker
share one database, which the watchdog flushes).

The hard behaviours, each listed at its line under "hazards" in PROJECT.json:
interleaved tasks of one item; whole-row saves of stale objects; deaths and
early returns between two writes; a lease shorter than the work it protects;
rows deleted under a live run; retries that share one counter; redelivered and
lost tasks.

## 2. Modules

| Module | Content |
|---|---|
| `SingleTransfer` | what the semaphore promises: one transfer of an item at a time |
| `TransferLock` | the semaphore, command by command; refines `SingleTransfer` |
| `TransferLockProofs` | proofs about it |
| `RetryChain` | the retry chains of one item and the columns they share |
| `RetryChainProofs` | proofs about them |
| `Pipeline` | one item and its files from Grabbed to Completed, with recovery, users and the retry chains (an instance of `RetryChain`) |
| `PipelineProofs` | proofs about it, with those of `RetryChainProofs` carried over |
| `FileOutcome` | what the copy of a run's files looks like from outside, without tries, connections and threads |
| `FileCopy` | the copy loop of a run with its stall watchdog, thread by thread; refines `FileOutcome` |
| `FileCopyProofs` | proofs about it |
| `Mylar3Intake` | Mylar3's log, the poll with its Redis cursor, the AirDC++ completion check, up to the pipeline |
| `Mylar3IntakeProofs` | proofs about it |
| `BinderyImport` | the recovery of a failed Bindery import, request by request, beside the poll and Bindery itself |
| `BinderyImportProofs` | proofs about it |
| `MC...` | the sets the configurations substitute |

`Pipeline` contains `RetryChain` (its step `RetryStep` *is* a step of an
instance), assumes of the semaphore what `SingleTransfer` promises and
`TransferLock` implements, and takes the copy of one file as the outcome that
`FileCopy` details and `FileOutcome` summarises. `Mylar3Intake` ends and `Pipeline` begins with the
`postprocess_item` that makes an item PostProcessing; the set `moving` stands
for the pipeline there. `BinderyImport` zooms in on one `post_process` call,
which `Pipeline` takes as `PostSucceeds` or `PostFails`.

### TransferLock

`count` and `ttl` are the Redis key (a key that does not exist has count 0 and
`ttl = "absent"`; one without a time to live has `"unset"`); `pc[w]` says where
worker `w` is. `Incr`, `SetLease`, `Refuse` and `Finish` are the four commands of
tasks.py:557, 567, 559 and 1381. `GuardFails` is the one `except` clause for the
first three (568-575): whichever command raised, the task goes on *without* the
semaphore, even one that had just been refused. A command that raised may have
been executed. `Lapse`, `Flush` and `Crash` are the environment; the constants
`LapseDuring`, `CrashIn`, `RedisFails` and `Flushes` say how bad it may be, so
each property is checked and proved under the weakest environment it needs.
`CountCap` bounds the count in steps that leak one; it is a bound of the model.

### RetryChain

Time is abstracted to what the code compares: `marker` is who wrote
`last_recovery_at` within the last 60 s, or `"stale"`. A countdown of 300 s ends
only when the marker it saw at its start is stale; a marker written while the
countdown ran can always be taken to be written after it. `Interfere` is the
rest of the program, restricted by the constant `Outside`; a whole-row save may
bring back any earlier count or marker. The history lines, the path that is
sent to the manager and the check that the manager has a client are left out.

### Pipeline

| Variable | Stands for |
|---|---|
| `status`, `attempts`, `marker`, `size` | the columns of `Item`; `size` as the set of files it counts |
| `rows[f]` | `FileTransfer.status` of file `f`, `"none"` without a row |
| `disk[f]`, `remote` | the local copy (none, truncated, whole, extracted and deleted); the files on the seedbox |
| `tasks` | the queued `postprocess_item` and `transfer_files_async` |
| `verify[p]`, `reader`, `run` | the running tasks with the `Item` object each holds; `run` is the one past the semaphore |
| `chain` | the retry chains |
| `spent` | how many faults, deaths and user actions have happened (bounds) |

A run walks `list`, `register` (one file a step, tasks.py:945-1053), `copy`,
`open`, `fetch`, `fetched` (1071-1168), `extract`, `post`, `mark`. `Save(item, s)`
is `item.save()`: status, count and size become what the task read, the marker
may become stale. STEP 2 works on *every* record STEP 1 collected, the completed
ones included: that is what the code does. `Dies` is any end without the final
write: the early returns of 583-616 and 840-893, an exception that reaches 1372,
the time limit, a lost worker; the task may be redelivered.

Abstractions, all of which allow at least what the code does unless said
otherwise:
- one item; a tick's reads of the item and its writes are one step, and so are
  the two statements of a user action. Two overlapping ticks are not covered.
- at most one run at a time, the promise of the semaphore. This is *stronger*
  than the code when a transfer outlasts the lease of 300 s
  (`lock_long_transfer`).
- a file's size never changes on the seedbox, a local file of the right size is
  the right file, and a local file of the wrong size can be removed (1028).
- the three tries of a copy are one (`FileCopy` has all of them); a failed one
  leaves a truncated file. The one late save of a try that was given up, which
  `FileOutcome` allows after the file's outcome is known, is left out here:
  `InFlightHasOwner` speaks of runs without one.
- ZIP and RAR are one extraction; a failed ZIP, which only logs, is not told
  apart from a failed RAR, which fails the item.
- the kind of the item's manager is chosen at each post-processing from the
  constant `Managers`.
- the Blackhole move to the final folder (1206-1234) is left out.

### FileCopy

| Variable | Stands for |
|---|---|
| `pc`, `todo`, `file`, `try` | the loop of tasks.py:1071-1169: the records it has not come to, the variable `transfer`, the tries so far |
| `link` | whether `sftp` is usable; the watchdog closes it, only `Reconnect` (1130-1153) opens another |
| `object[f]`, `row[f]` | the status in the `FileTransfer` object and in its row |
| `disk[f]` | the local copy |
| `thread[f, n]` | the thread of the nth try: place, stop event, stall, the save it is about to execute, saves after the stop |

`StartTry` starts a thread, `Copied`, `Raised` and `GivesUp` are the three ends
of `_sftp_get_with_timeout`, and `TryFails` is the `except` branch. A callback
is four steps: look at the stop event (`Progress`), decide (`Throttled`), build
the statement from the loop's *current* object (`MakeSave`, the closure is late
bound), execute it (`ExecuteSave`). `StallCheck` is the part of the recovery tick
that fails rows without progress. Abstractions: the throttle is a free choice; a
thread without a connection opens the local file and raises; a thread that was
given up writes nothing more to the local file, since the channel it reads from
is closed; its `sftp.get` opened the local file long before it could be given up;
a database that fails between two statements is left out.

`FileOutcome` is what the rest of the program may rely on: files are begun once
and one at a time, only the copy under way touches its local file, completed is
saved over a whole copy only, and each try that was given up saves at most one
row more, of a file already begun: an outcome that file has or had, never a wrong
completed. `FileCopy` implements it with `row` and `disk` as they are, `At` as
the file being copied (none between two files) and `Stray` as what a stopped
thread may still do: `"saves"` from the look at the stop event to the save, `"gone"`
otherwise.

### Mylar3Intake

| Variable | Stands for |
|---|---|
| `log`, `cursor` | Mylar3's log with timestamps; the Redis key `mylar3_dedup:<id>` (0: absent) |
| `poll[p]` | a poll: entries it knows, the cursor it read, the newest time it saw, the `Item` it holds |
| `item[c]` | status, `next_check_at` (none, waiting, due) and `airdcpp_check_count` of the row |
| `share`, `events` | files on the share; "has finished downloading" events AirDC++ still shows |
| `queue`, `worker`, `moving` | queued `postprocess_item`, the row one holds, comics in the pipeline |
| `check` | the `check_airdcpp_completions` under way, with the batch and counts it read |
| `excused` | history: comics that nothing in the code can find again |

The log is fetched *before* the cursor is read (managers.py:652-684), entries are
taken newest first down to the cursor, the row is saved whole (`SaveTimer`) and
the cursor is written at the end. `Defer`, `Dispatch`, `ClearTimer` and `Missed`
save named columns only, as the code does. `Flush` empties queue and cursor
together. `excused` names the losses the code does not repair: a task that dies
with its worker, a flush while a poll holds the old cursor or before the check
has cleared the timer, a status taken back by a stale save, a user's retry
without a timer. Left out: the matching of names, the downloader's assignment,
the time to live of the cursor (every poll renews it; an absent cursor only
makes a poll read more), the limit of 20 items of a check.

### BinderyImport

| Variable | Stands for |
|---|---|
| `rows[r]` | Bindery's queue: the row "download", the only one with the item's hash, and those of manual imports |
| `files`, `moves` | where the transferred files are; whether a folder of Bindery is configured |
| `status`, `count` | columns of the item |
| `proc[p]` | the `post_process` called by the transfer run or by a retry |
| `retry` | the attempt of the queued `retry_postprocessing` |
| `read`, `poll` | the item as the run read it; the status a poll is about to save |
| `excused` | history: Bindery did not answer, resumed or dropped a row; two callers overlapped |

`Locate`, `Lookup`, `InFlight`, `ManualImport`, `Recheck` and `Delete` are the
file checks and the five requests of managers.py:1259-1632 that change what
follows; each may fail as the code lets it. `transient` stands for a recoverable
row whose error message has the configured substring. One item and one book; at
most one retry is queued (its chain is `RetryChain`'s subject); a cooldown of
the retries is left out; Bindery's own behaviour (`Downloaded`, `ImportEnds`,
`Resumes`, `Pruned`) is external and as free as the code's comments say.

## 3. What the runs check

| Run | States | Shows |
|---|---|---|
| `lock_exclusive` | 977 | 4 workers, deaths anywhere, a Redis that answers and keeps the key: `MutualExclusion`, `OwnerIsCounted`, refinement of `SingleTransfer` |
| `lock_faults` | 10,211 | 3 workers, everything may go wrong, fair steps: `DriftIsBounded`, `DeadOwnerReleases` |
| `lock_long_transfer` | *violated* | a lease that lapses under its owner: two transfers of one item |
| `retry_chains` | 3,840 | 2 chains, cap 3, any interference: `OwnMarkerFades`, `ChainEnds` |
| `pipeline_files` | 4.5 million | 2 files (1 archive), all managers, 1 chain with cap 2, any 2 of 1 fault, 1 death anywhere, 1 user action: `CompletedRowIsLocal`, `NothingLost`, `InFlightHasOwner`, refinement of `RetryChain` (`RetriesAsSpecified`) |
| `pipeline_recovers` | 0.7 million | 2 files, 2 concurrent `postprocess_item`, 1 failed copy or post-processing, 1 death while copying, fairness: `NeverStranded`, `LeavesPostProcessing` |
| `pipeline_stuck` | *violated* | 1 death before the first row: PostProcessing for ever |
| `pipeline_missing` | *violated* | 1 failed copy: Completed without the file and without a row that says so |
| `file_copy` | 139,451 | 2 files, 3 tries, 3 faults, up to 6 threads: `CompletedIsWhole`, `OneLateSave`, `Settles`, refinement of `FileOutcome` (`ImplementsFileOutcome`) |
| `intake` | 0.7 million | 2 comics (1 of AirDC++), 2 log entries, cap 2, 1 fault or retry: `CursorNeverSkips`, `NeverForgotten`, `EveryGrabEnds` |
| `bindery_import` | 1.8 million | 2 manual imports, 2 runs, cap 3, 2 faults, with and without a folder: `NoDuplicateImport`, `Superseded`, `StaleRowHeals` |
| `bindery_imported` | *violated* | no fault: imported, and never Completed |

A passing run is a statement about every interleaving within its bounds. Two
files are needed because the interesting failures are about one file while the
run is busy with another; a third adds no new relation between files. One fault,
one death and one action each may come at any point, and one of each in any
order reaches every pair of repairs; `MaxTasks = 1` still allows three transfer
tasks at once (queued, reading, running). Two workers are enough for a violated
mutual exclusion, three for a refusal beside it, and the fourth shows nothing
new. In `file_copy` three faults let every try of one file hang, or a try of each
file and a reconnection; a late save needs only two files. In `intake` the second
entry is what an overtaken cursor would skip, and one fault may fall between any
two steps of poll, check and worker; two of them would only add excuses. In
`bindery_import` a second manual import is the duplicate, and two faults cover an
import whose answer is lost followed by one that is refused. Runs without
deadlock checking stop where the code has nothing to do.

Every property of a passing run has a mutant in PROJECT.json: a definition of
the model changed as a plausible bug would, under which the property fails.

### Fairness

`TransferLock!FairSpec`: a task that runs reaches its next command, and the
clock of Redis runs. Deaths, errors and new tasks are never required.
`RetryChain!FairSpec`: time passes and a delivered task starts. The end of a
countdown and the return of a call are strongly fair: a countdown does not wait
for the marker (its guard is an abstraction of time), and not every call is cut
short by a restart. `Pipeline!FairSpec`: each running task goes on, Celery
delivers what is queued, beat ticks every 20 s, a row without progress is
noticed after five minutes; weak fairness everywhere but the retries. The drain
gate can delay `CheckDownloaders` and `Recover`; weak fairness assumes it is
open at some tick, which holds as transfers have a time limit of an hour.
`FileCopy!FairSpec`: the loop goes on (it sleeps one second at a time), beat
ticks, and a thread that neither hangs nor was given up reaches the end of its
callbacks and of its file (strong fairness: each callback disables the end for a
moment); a thread that hangs or was given up owes nothing. `Mylar3Intake!FairSpec`:
beat starts polls and checks, workers go on, time passes; Mylar3, AirDC++ and
the user owe nothing. `BinderyImport!FairSpec`: beat polls every 20 s, workers go
on, and Bindery ends the imports it began.

## 4. What is proved

For every finite set of workers, `TransferLockProofs` shows
- `TypeCorrect`: `[]TypeOK`, in any environment;
- `DriftBounded`: `[]DriftIsBounded`, in any environment. With `TypeOK` it is
  inductive: a worker's step changes the count and the number of workers between
  INCR and DECR together, or only raises the first relative to the second
  (`WorkerStepCount`), and a key that vanishes starts again from 0;
- `OwnerStaysCounted`: `[](OwnerIsCounted /\ OneOwner)`, if the key outlives the
  tasks counted at it (`KeyOutlivesTasks`: it does not lapse while a worker is
  between INCR and DECR, and nobody flushes). Workers may die and commands fail
  anywhere, which is more than `lock_exclusive` lets happen: a task that goes on
  without the semaphore still does not take the owner's count away. The invariant `Safe` says that the count is at least the
  number of workers between INCR and DECR and that at most one worker owns the
  slot; a second INCR then sees a count above one;
- `OneTransferAtATime`: `[]MutualExclusion`, if Redis answers besides
  (`RedisAnswers`). `Guarded` adds to `Safe` that nobody transfers unguarded;
- `LockImplementsSingleTransfer`: in the same environment the semaphore refines
  `SingleTransfer`. A task counts as transferring from the INCR that let it in.

For every set of chains, every cap and every interference, `RetryChainProofs`
shows
- `TypeCorrect`: `[]TypeOK`: no attempt beyond the cap is ever queued;
- `OwnMarkerNeverBlocks`: `[]OwnMarkerFades`, from the invariant that as long as
  the marker of a chain is fresh, the retry it queued is still counting down.

For every set of files, any number of workers, any faults, deaths and user
actions, `PipelineProofs` shows `TypeCorrect`, `CompletedRowsAreLocal`,
`NoFileIsLost` (`[]NothingLost`), `NoOrphanRows` (`[]InFlightHasOwner`) and
`PipelineUsesRetries` (`RetriesAsSpecified`, the refinement of `RetryChain`), and
within the faults of `RecoverySees` also `RecoveryReachesItem`
(`[]NeverStranded`).
- The three file properties depend on what the run under way holds, so none is
  inductive. `FileInv` adds it: the file that a run copies is one of its records
  (`InRecords`), its row is not completed while its copy may be truncated
  (`RowsInv`), all that the run still has to copy is on the seedbox (`RemoteInv`),
  and outside the copy phase it has no record left (`OwnerInv`).
- All actors but the run are treated at once: `ByOthers` says that they touch
  neither disk, seedbox nor run, and make no row completed or in flight that was
  not; it implies `FileInv'` by itself (`ByOthersFiles`).
- Towards the chains, any step that leaves them alone and keeps the types is an
  `Interfere` of `RetryChain`. So its theorems hold of the composed pipeline:
  `CooldownsDoNotBlock` is `OwnMarkerNeverBlocks` with transfers, recovery ticks
  and users writing the marker, too.
- `RecoverySees` allows incomplete lists, failed copies, stalls, failed
  post-processing, deaths while a file is copied, and users who complete, requeue
  or retransfer, without archives, retry chains and Bindery; with a death only
  "complete", and no stall. Each exclusion has a way to strand an item: a lost
  dispatch and a death outside the copy leave nothing to find; a stall or a user
  beside a death fails the row of the live run, the recovery hands it to a
  transfer that the semaphore refuses, and the run dies afterwards; an item that
  failed, or that Bindery refused, is not marked at the end of its run. The last
  two are statements about other parts of the code, the first two are what
  `pipeline_stuck` finds. `StrandInv` adds to `NeverStranded` that a run which has the
  semaphore is going to mark the item Completed (`RunsComplete`) and that, where
  deaths are allowed, the row of the file in flight says transferring
  (`DeathLeavesRow`): so whoever lets go of the item last leaves a transfer
  queued, a row, or Completed.

For every set of files, number of tries and faults, `FileCopyProofs` shows
`TypeCorrect`, `CompletedCopiesAreWhole` (`[]CompletedIsWhole`),
`AtMostOneLateSave` (`[]OneLateSave`) and `CopyLoopImplementsOutcome`
(`ImplementsFileOutcome`). None of the invariants is inductive: a callback executes a
statement it built before, from an object that may be another file's. `CopyInv`
adds what holds it together: threads exist only of files the loop has come to
(`StartedOK`); the loop never returns to a file whose object says completed, so
no try truncates it, and a statement under way says completed only of such a file
(`CompletedOK`); a thread that was stopped and is past its check has not saved
since (`LateOK`). The refinement needs `SeenInv` besides: a row is pending exactly
as long as its file was not begun (`RowsSeen`), a statement under way is about a
file that was, and says transferring of the file being copied (`SaveSeen`), and no
thread exists of a try that is still to come (`ThreadSeen`). `ThreadOutcome` then
maps the step of any thread, stopped or not, and `LoopOutcome` those of the loop;
a `TryFails` that gives the file up is `Fail`; before the last try it is `GiveUp` if a
thread is left alone, and else a stutter.

For every set of comics, any number of overlapping polls and any fault,
`Mylar3IntakeProofs` shows `TypeCorrect` and, if the log's clock runs
(`LogClockRuns`: timestamps rise strictly), `CursorIsSafe`
(`[]CursorNeverSkips`) and `NoGrabIsForgotten` (`[]NeverForgotten`). Both follow
from `IntakeInv`, whose notion is `Watched`: the comics that have a row and, if
AirDC++ fetches them, something that will look for them again while they are
Grabbed (a timer, a task) or an excuse. All up to the cursor is watched
(`LogSafe`); of every poll, what is newer than the entry it is at, up to the
newest it saw, is watched, as is all up to the cursor it started from
(`PollSafe`). `WatchInv` says that whoever holds an item holds one with a row, that
the check clears a timer only where it has left a task or an excuse, and that every
row comes from the log: so what is not watched will be read again. Without `LogClockRuns` the theorems are
false: an entry with the time of the newest one seen is never read.

For every set of rows, cap, number of runs and faults, `BinderyImportProofs` shows
`TypeCorrect`, `ImportsOnce` (`[]NoDuplicateImport`) and `DeletesSuperseded`
(`[]Superseded`). `ImportInv` says that without an excuse one caller is at work
(`OneCaller`), that nothing is active for a caller that has looked and is about
to ask for an import (`NothingActive`), that the row it found failed has not come
to life (`FoundFailed`), and that a row about to be deleted is replaced
(`Replaced`).

The assumptions are the ASSUMEs of the modules, evaluated by TLC on each run:
finite `Workers`, a positive cap, identities that are not the words the models
use, faults and bounds of the right kind. Liveness (`DeadOwnerReleases`,
`ChainEnds`, `LeavesPostProcessing`, `Settles`, `EveryGrabEnds`, `StaleRowHeals`)
is out of the prover's reach and model-checked only. Every invariant and every
refinement that a passing run checks is a theorem; `NeverStranded` is one under
`RecoverySees`, which the constants of `pipeline_recovers` satisfy.

## 5. Where the code and its documentation disagree

1. `lock_long_transfer`: tasks.py:547-552 says the semaphore "closes the
   duplicate-work race"; the lease of 300 s (567) is set once, transfers take up
   to an hour.
2. `pipeline_stuck`: the guide (USER_GUIDE.md:396) says the tick "requeues
   transfers for PostProcessing items with none"; `_recover_one_item`
   (1554-1590) wants a failed or pending row.
3. `pipeline_missing`: 1926-1927 deletes failed rows of a live run; the task it
   dispatches is refused by the semaphore, and the run marks the item Completed
   without looking at the rows (1351-1353).
4. `bindery_imported`: "the Bindery poll owns their state (recoverable failure or
   Completed once imported)" (1342-1343). The manual import deletes the only row
   that carries the hash (managers.py:1429), so no poll sees the item again; a run
   that read it as Failed, or a retry that succeeds (2052-2054), marks nothing.

Observations without a run of their own:

- "The 4th invocation is a no-op" (1955): a failing second attempt has written
  `attempt_count = 3`, and 1982 refuses the third.
- "Already transferred successfully - reuse the record" (970): STEP 2 puts the
  records STEP 1 took over in flight and copies them again (1071-1078). An item
  whose files need more than the task limit together starts over in every run.
- "The progress_callback's stop_event prevents the leaked thread from corrupting
  the FileTransfer row" (170-172): one callback may have passed the check, and its
  save may be of the *next* file's row, whose `bytes_transferred` it overwrites.
- The connection the watchdog closed is only opened again between two tries of a
  file: the file after one that was given up loses its first try.
- A death between INCR and EXPIRE leaves a key without a time to live (against
  565-566, "not a held-forever key"); an INCR on a key about to lapse loses its
  count even in a short transfer.
- `.delay` at 1928 runs before the commit of the transaction at 1912, though the
  comment at 1914-1917 calls the marker "committed the moment the statement
  returns".
- A transient import failure is mapped to PostProcessing before the imported rows
  are looked at (managers.py:1211-1229): a stale row of that kind keeps an
  imported item from staying Completed.
- With a folder of Bindery configured the first `post_process` moves the files;
  every retry after a failed import then finds "No staged file" (1307).
- USER_GUIDE.md:387 and 401 speak of retries "every 10 min" and "ad infinitum";
  they come after five minutes, three at most.

## 6. What is not modelled, and why

- Two runs of one item after a lapsed lease. `lock_long_transfer` shows that they
  happen; what they do to one file depends on the file system's order of
  truncations and writes, about which the code says nothing. `Pipeline` therefore
  assumes one run, and its results hold for transfers within the lease.
- Two overlapping recovery ticks: the row lock and the marker keep the second to a
  dispatch that the semaphore refuses.
- `cancel_download`, which deletes the item under a run: the row is inserted again
  by the run's save as it was read.
- The drain gate: it only delays a dispatch, fails open on purpose and promises no
  exact limit; the models let a dispatch happen at any time.
- Blackhole intake and the assignment of downloaders: the outcome of a repeated
  send, and the match of names, are decided by the remote programs.
- The Arr history poll keeps no cursor and creates a row per unknown hash.
- The recovery with `PIPELINE_HARDENING_ENABLED` off: superseded code that
  promises nothing the present one does not.
- Remote APIs and their translation in the downloader and manager clients (the
  models see outcomes), pages, forms, users and notifications (no interplay with
  the pipeline), migrations and deployment.
- The JavaScript under `static/` is vendored (jQuery UI, Font Awesome, Bootstrap
  plugins) or page decoration; the program's own code, and all that is modelled,
  is Python.

What could be proved next: `RecoveryReachesItem` with retry chains, which mark an
item Completed after the run is gone, and with archives, whose extraction may
fail the item; and the file properties of `Pipeline` with the late save that
`FileOutcome` allows, which needs an owner of the row other than the run.

## 7. Running

    tlc -workers 2 -config pipeline_recovers.cfg MCPipeline.tla
    tlapm TransferLockProofs.tla
