---------------------------- MODULE Mylar3Intake ----------------------------
(***************************************************************************)
(* From Mylar3's log to post-processing, for comics that AirDC++ fetches.  *)
(*                                                                         *)
(* poll_manager reads the log of Mylar3, newest entry first, down to a     *)
(* cursor in Redis, creates an Item for each grab and starts a timer for   *)
(* it (entities/managers.py:638-793).  check_airdcpp_completions looks for *)
(* the files of the items whose timer is due (itemqueue/tasks.py:2363-     *)
(* 2460); process_completed does so for the finished bundles AirDC++ still *)
(* remembers (entities/downloaders/airdcpp.py:454-530).  Both queue        *)
(* postprocess_item, which hands the item to the transfer pipeline.        *)
(*                                                                         *)
(* The cursor, the Celery queue and the rows live in different places and  *)
(* are written at different times: what one of them says was done may be   *)
(* lost from another.                                                      *)
(***************************************************************************)
EXTENDS Integers, Sequences

CONSTANTS
  Comics,
  AirDcpp,     \* the comics that Mylar3 hands to AirDC++; others only get a row
  Pollers,     \* the polls of the one manager that may overlap
  ClockSteps,  \* by how much the timestamps of successive entries differ
  MaxChecks,   \* AIRDCPP_MAX_CHECKS
  Faults,      \* what may go wrong, and "retry" when the user may retry
  MaxLog, MaxFaults, MaxTasks  \* bounds: entries, faults in all, tasks of a comic

FaultKinds == {"poll", "redis", "ssh", "unreadable", "gate", "verify", "flush", "lost", "retry"}

ASSUME IntakeAssumption ==
  /\ AirDcpp \subseteq Comics /\ "none" \notin Comics
  /\ ClockSteps \subseteq Int
  /\ MaxChecks \in Nat \ {0}
  /\ Faults \subseteq FaultKinds
  /\ {MaxLog, MaxFaults, MaxTasks} \subseteq Nat

VARIABLES
  log,      \* Mylar3's log, oldest entry first: the comic and its timestamp
  cursor,   \* mylar3_dedup:<id> in Redis, 0 when the key is absent
  poll,     \* poll[p]: the poll of p
  item,     \* item[c]: the row of c
  share,    \* the comics on the share of the seedbox
  events,   \* the comics whose "has finished downloading" AirDC++ still shows
  queue,    \* queue[c]: the postprocess_item tasks queued for c
  worker,   \* worker[c]: the row of c as a postprocess_item read it
  moving,   \* the comics with a transfer queued or under way (see Pipeline)
  check,    \* the check_airdcpp_completions under way
  excused,  \* history: the comics that a lost task, a retry or a status taken
            \* back has left to themselves
  spent     \* how much of MaxFaults was used

pollVars == <<log, cursor, poll>>
taskVars == <<queue, worker, moving>>
vars == <<pollVars, item, share, events, taskVars, check, excused, spent>>

Statuses == {"Grabbed", "PostProcessing", "Completed", "Failed"}
Row ==
  [status : Statuses \union {"none"}, timer : {"none", "waiting", "due"}, count : Nat]
NoRow == [status |-> "none", timer |-> "none", count |-> 0]
NewRow == [NoRow EXCEPT !.status = "Grabbed"]
Idle == [pc |-> "idle", next |-> 0, last |-> 0, newest |-> 0, cached |-> FALSE,
         comic |-> "none", row |-> NoRow]
NoCheck == [pc |-> "idle", todo |-> {}, comic |-> "none", count |-> 0]

Exists(c) == item[c].status # "none"
Grabbed(c) == item[c].status = "Grabbed"

Set(c, row) == item' = [item EXCEPT ![c] = row]
Fault(kind) ==
  /\ kind \in Faults /\ spent < MaxFaults
  /\ spent' = spent + 1
NoFault == UNCHANGED spent
-----------------------------------------------------------------------------
Init ==
  /\ log = <<>> /\ cursor = 0
  /\ poll = [p \in Pollers |-> Idle]
  /\ item = [c \in Comics |-> NoRow]
  /\ share = {} /\ events = {}
  /\ queue = [c \in Comics |-> 0]
  /\ worker = [c \in Comics |-> NoRow]
  /\ moving = {}
  /\ check = NoCheck
  /\ excused = {}
  /\ spent = 0
-----------------------------------------------------------------------------
(* Mylar3 logs that it attempts to download a comic, perhaps once more. *)
Latest == IF log = <<>> THEN 0 ELSE log[Len(log)].at

Grab(c) ==
  /\ Len(log) < MaxLog
  /\ \E d \in ClockSteps :
       /\ Latest + d > 0
       /\ log' = Append(log, [comic |-> c, at |-> Latest + d])
  /\ UNCHANGED <<cursor, poll, item, share, events, taskVars, check, excused, spent>>

Logged(c) == \E k \in 1..Len(log) : log[k].comic = c

(* AirDC++ finishes the download. *)
Land(c) ==
  /\ c \in AirDcpp /\ Logged(c) /\ c \notin share
  /\ share' = share \union {c}
  /\ events' = events \union {c}
  /\ UNCHANGED <<pollVars, item, taskVars, check, excused, spent>>

(* The event drops out of the 100 that AirDC++ keeps, or AirDC++ restarts. *)
Forget(c) ==
  /\ c \in events
  /\ events' = events \ {c}
  /\ UNCHANGED <<pollVars, item, share, taskVars, check, excused, spent>>
-----------------------------------------------------------------------------
PollAt(p, pc) == poll[p].pc = pc
PollKeeps == UNCHANGED <<log, share, events, taskVars, check, excused>>

(* The log is fetched before the cursor is read: entries 1..next are known. *)
FetchLog(p) ==
  /\ PollAt(p, "idle")
  /\ poll' = [poll EXCEPT ![p] = [@ EXCEPT !.pc = "cursor", !.next = Len(log)]]
  /\ PollKeeps /\ UNCHANGED <<cursor, item, spent>>

(* Without Redis the poll reads the whole log and keeps no cursor. *)
ReadCursor(p) ==
  /\ PollAt(p, "cursor")
  /\ \/ /\ NoFault
        /\ poll' = [poll EXCEPT ![p] =
             [@ EXCEPT !.pc = "entry", !.last = cursor, !.newest = cursor, !.cached = TRUE]]
     \/ /\ Fault("redis")
        /\ poll' = [poll EXCEPT ![p] = [@ EXCEPT !.pc = "entry"]]
  /\ PollKeeps /\ UNCHANGED <<cursor, item>>

MoreEntries(p) ==
  /\ PollAt(p, "entry")
  /\ poll[p].next > 0 /\ log[poll[p].next].at > poll[p].last

(* The Item of the next entry is read, or created; the poll of a comic of   *)
(* AirDC++ goes on with its timer.                                          *)
TakeEntry(p) ==
  /\ MoreEntries(p)
  /\ LET e == log[poll[p].next]
         row == IF Exists(e.comic) THEN item[e.comic] ELSE NewRow
         newest == IF e.at > poll[p].newest THEN e.at ELSE poll[p].newest
     IN /\ Set(e.comic, row)
        /\ poll' = [poll EXCEPT ![p] =
             IF e.comic \in AirDcpp
             THEN [@ EXCEPT !.pc = "timer", !.newest = newest, !.comic = e.comic, !.row = row]
             ELSE [@ EXCEPT !.newest = newest, !.next = poll[p].next - 1]]
  /\ PollKeeps /\ UNCHANGED <<cursor, spent>>

(* A timer that was never set, or was cleared, is set; item.save() writes   *)
(* the whole row as TakeEntry read it, so that it may take back a status.   *)
TakesBack(p) ==
  LET c == poll[p].comic
  IN c \notin moving /\ poll[p].row.status = "Grabbed" /\ ~Grabbed(c)

SaveTimer(p) ==
  /\ PollAt(p, "timer")
  /\ Set(poll[p].comic,
         [poll[p].row EXCEPT !.timer = IF @ = "none" THEN "waiting" ELSE @])
  /\ poll' = [poll EXCEPT ![p] =
       [@ EXCEPT !.pc = "entry", !.next = poll[p].next - 1, !.comic = "none", !.row = NoRow]]
  /\ excused' = IF TakesBack(p) THEN excused \union {poll[p].comic} ELSE excused
  /\ UNCHANGED <<log, cursor, share, events, taskVars, check, spent>>

(* The first entry that is not newer than the cursor ends the poll. *)
PollEnds(p) ==
  /\ PollAt(p, "entry") /\ ~MoreEntries(p)
  /\ cursor' = IF poll[p].cached THEN poll[p].newest ELSE cursor
  /\ poll' = [poll EXCEPT ![p] = Idle]
  /\ PollKeeps /\ UNCHANGED <<item, spent>>

(* Mutant of PollFails: the cursor is written in a finally block. *)
PollFailsFinally(p) ==
  /\ ~PollAt(p, "idle")
  /\ Fault("poll")
  /\ cursor' = IF PollAt(p, "cursor") THEN cursor ELSE poll[p].newest
  /\ poll' = [poll EXCEPT ![p] = Idle]
  /\ PollKeeps /\ UNCHANGED item

(* Any exception ends the poll and leaves the cursor; so does a dead worker. *)
PollFails(p) ==
  /\ ~PollAt(p, "idle")
  /\ Fault("poll")
  /\ poll' = [poll EXCEPT ![p] = Idle]
  /\ PollKeeps /\ UNCHANGED <<cursor, item>>
-----------------------------------------------------------------------------
Enqueue(c) ==
  /\ queue[c] < MaxTasks
  /\ queue' = [queue EXCEPT ![c] = @ + 1]

(* process_completed, for one event: no drain gate, and an item of its own  *)
(* for a bundle that Mylar3 did not announce yet.                           *)
Finished(c) ==
  /\ c \in events
  /\ \/ Grabbed(c) /\ UNCHANGED item
     \/ ~Exists(c) /\ Set(c, NewRow)
  /\ Enqueue(c)
  /\ UNCHANGED <<pollVars, share, events, worker, moving, check, excused, spent>>

CheckKeeps == UNCHANGED <<pollVars, share, events, worker, moving, excused>>
CheckAt(pc) == check.pc = pc
CheckNext == check' = [NoCheck EXCEPT !.pc = "next", !.todo = check.todo]

(* The items that are due are read once, with their counts. *)
StartCheck ==
  /\ CheckAt("idle")
  /\ check' = [NoCheck EXCEPT !.pc = "next",
       !.todo = {[comic |-> c, count |-> item[c].count] :
                   c \in {d \in AirDcpp : Grabbed(d) /\ item[d].timer = "due"}}]
  /\ CheckKeeps /\ UNCHANGED <<item, queue, spent>>

(* The walk of the share for one of them; a directory that cannot be read   *)
(* counts as empty, and without SSH the item is left as it is.              *)
Walk ==
  /\ CheckAt("next")
  /\ \E d \in check.todo :
       \/ /\ NoFault
          /\ check' = [check EXCEPT !.pc = IF d.comic \in share THEN "found" ELSE "missed",
                                   !.todo = @ \ {d}, !.comic = d.comic, !.count = d.count]
       \/ /\ Fault("unreadable")
          /\ check' = [check EXCEPT !.pc = "missed",
                                   !.todo = @ \ {d}, !.comic = d.comic, !.count = d.count]
       \/ /\ Fault("ssh")
          /\ check' = [check EXCEPT !.todo = @ \ {d}]
  /\ CheckKeeps /\ UNCHANGED <<item, queue>>

(* save(update_fields=...) writes some columns of the row. *)
SetTimer(timer) == [item[check.comic] EXCEPT !.timer = timer]

(* Mutant of Defer: the timer is cleared before the gate is looked at. *)
DeferCleared ==
  /\ CheckAt("found")
  /\ Fault("gate")
  /\ Set(check.comic, SetTimer("none"))
  /\ CheckNext
  /\ CheckKeeps /\ UNCHANGED queue

(* Found while the transfers leave no room: later. *)
Defer ==
  /\ CheckAt("found")
  /\ Fault("gate")
  /\ Set(check.comic, SetTimer("waiting"))
  /\ CheckNext
  /\ CheckKeeps /\ UNCHANGED queue

Dispatch ==
  /\ CheckAt("found")
  /\ Enqueue(check.comic)
  /\ check' = [check EXCEPT !.pc = "clear"]
  /\ CheckKeeps /\ UNCHANGED <<item, spent>>

ClearTimer ==
  /\ CheckAt("clear")
  /\ Set(check.comic, [item[check.comic] EXCEPT !.timer = "none", !.count = 0])
  /\ CheckNext
  /\ CheckKeeps /\ UNCHANGED <<queue, spent>>

(* Mutant of Missed: the count is left out of update_fields. *)
MissedUncounted ==
  /\ CheckAt("missed")
  /\ Set(check.comic,
         IF check.count + 1 >= MaxChecks THEN [item[check.comic] EXCEPT !.status = "Failed"]
                                            ELSE SetTimer("waiting"))
  /\ CheckNext
  /\ CheckKeeps /\ UNCHANGED <<queue, spent>>

(* The last look fails the item, any other sets the timer again. *)
Missed ==
  /\ CheckAt("missed")
  /\ Set(check.comic,
         IF check.count + 1 >= MaxChecks
         THEN [item[check.comic] EXCEPT !.count = check.count + 1, !.status = "Failed"]
         ELSE [item[check.comic] EXCEPT !.count = check.count + 1, !.timer = "waiting"])
  /\ CheckNext
  /\ CheckKeeps /\ UNCHANGED <<queue, spent>>

CheckEnds ==
  /\ CheckAt("next") /\ check.todo = {}
  /\ check' = NoCheck
  /\ CheckKeeps /\ UNCHANGED <<item, queue, spent>>

TimePasses(c) ==
  /\ Exists(c) /\ item[c].timer = "waiting"
  /\ Set(c, [item[c] EXCEPT !.timer = "due"])
  /\ UNCHANGED <<pollVars, share, events, taskVars, check, excused, spent>>
-----------------------------------------------------------------------------
(* postprocess_item reads the item; only a Grabbed one is acted on. *)
ReadGrabbed(c) ==
  /\ queue[c] > 0 /\ worker[c] = NoRow
  /\ queue' = [queue EXCEPT ![c] = @ - 1]
  /\ worker' = [worker EXCEPT ![c] = IF Grabbed(c) THEN item[c] ELSE NoRow]
  /\ UNCHANGED <<pollVars, item, share, events, moving, check, excused, spent>>

(* Mutant of SaveStatus: a status the other queries do not know. *)
SaveStatusMisspelt(c) ==
  /\ worker[c] # NoRow
  /\ worker' = [worker EXCEPT ![c] = NoRow]
  /\ Set(c, [worker[c] EXCEPT !.status = "Postprocessing"])
  /\ moving' = moving \union {c}
  /\ UNCHANGED <<pollVars, share, events, queue, check, excused, spent>>

(* It saves the row as it read it, as PostProcessing with a transfer queued *)
(* or as Failed.                                                            *)
SaveStatus(c) ==
  /\ worker[c] # NoRow
  /\ worker' = [worker EXCEPT ![c] = NoRow]
  /\ \/ /\ NoFault
        /\ Set(c, [worker[c] EXCEPT !.status = "PostProcessing"])
        /\ moving' = moving \union {c}
     \/ /\ Fault("verify")
        /\ Set(c, [worker[c] EXCEPT !.status = "Failed"])
        /\ UNCHANGED moving
  /\ UNCHANGED <<pollVars, share, events, queue, check, excused>>

(* The pipeline ends, whatever the status has become meanwhile. *)
PipelineEnds(c) ==
  /\ c \in moving
  /\ moving' = moving \ {c}
  /\ \E s \in {"Completed", "Failed"} : Set(c, [item[c] EXCEPT !.status = s])
  /\ UNCHANGED <<pollVars, share, events, queue, worker, check, excused, spent>>

(* A worker is killed with its task. *)
TaskLost(c) ==
  /\ worker[c] # NoRow
  /\ Fault("lost")
  /\ worker' = [worker EXCEPT ![c] = NoRow]
  /\ excused' = excused \union {c}
  /\ UNCHANGED <<pollVars, item, share, events, queue, moving, check>>

(* The watchdog flushes the Redis database with the queue and the cursor: a *)
(* task that is lost is made up for by reading the log again, unless a poll *)
(* that read the cursor before writes it back after, or the check has yet   *)
(* to clear the timer.                                                      *)
Flush ==
  /\ Fault("flush")
  /\ queue' = [c \in Comics |-> 0]
  /\ cursor' = 0
  /\ excused' = excused \union
       {c \in Comics : /\ queue[c] > 0
                       /\ \/ \E p \in Pollers : poll[p].pc \in {"entry", "timer"}
                          \/ CheckAt("clear") /\ check.comic = c}
  /\ UNCHANGED <<log, poll, item, share, events, worker, moving, check>>

(* retry_failed_item: Grabbed again, with the timer and the count it had. *)
RetryFailed(c) ==
  /\ Exists(c) /\ item[c].status = "Failed"
  /\ Fault("retry")
  /\ Set(c, [item[c] EXCEPT !.status = "Grabbed"])
  /\ excused' = IF item[c].timer = "none" \/ (CheckAt("clear") /\ check.comic = c)
                  THEN excused \union {c} ELSE excused
  /\ UNCHANGED <<pollVars, share, events, taskVars, check>>
-----------------------------------------------------------------------------
PollStep(p) ==
  FetchLog(p) \/ ReadCursor(p) \/ TakeEntry(p) \/ SaveTimer(p) \/ PollEnds(p)
CheckStep ==
  StartCheck \/ Walk \/ Defer \/ Dispatch \/ ClearTimer \/ Missed \/ CheckEnds
PostprocessStep(c) == ReadGrabbed(c) \/ SaveStatus(c)

Next ==
  \/ \E c \in Comics :
       \/ Grab(c) \/ Land(c) \/ Forget(c)
       \/ Finished(c) \/ TimePasses(c) \/ PostprocessStep(c)
       \/ PipelineEnds(c) \/ TaskLost(c) \/ RetryFailed(c)
  \/ \E p \in Pollers : PollStep(p) \/ PollFails(p)
  \/ CheckStep
  \/ Flush

Spec == Init /\ [][Next]_vars

(* Beat starts the polls and the checks, workers go on, time passes.  Mylar3, *)
(* AirDC++, the user and the faults owe nothing.                             *)
FairSpec ==
  /\ Spec
  /\ \A p \in Pollers : WF_vars(PollStep(p))
  /\ WF_vars(CheckStep)
  /\ \A c \in Comics :
       WF_vars(Finished(c)) /\ WF_vars(TimePasses(c)) /\ WF_vars(PostprocessStep(c))
       /\ WF_vars(PipelineEnds(c))
-----------------------------------------------------------------------------
PollType ==
  [pc : {"idle", "cursor", "entry", "timer"}, next : Nat, last : Nat, newest : Nat,
   cached : BOOLEAN, comic : Comics \union {"none"}, row : Row]
CheckType ==
  [pc : {"idle", "next", "found", "missed", "clear"},
   todo : SUBSET [comic : Comics, count : Nat],
   comic : Comics \union {"none"}, count : Nat]

Entry == [comic : Comics, at : Nat \ {0}]
LogOK == log \in Seq(Entry) /\ cursor \in Nat
PollOK ==
  /\ poll \in [Pollers -> PollType]
  /\ \A p \in Pollers :
       /\ poll[p].next <= Len(log)
       /\ PollAt(p, "timer") => poll[p].comic # "none" /\ poll[p].next > 0
RowsOK == item \in [Comics -> Row]
TasksOK ==
  /\ queue \in [Comics -> Nat]
  /\ worker \in [Comics -> Row]
  /\ moving \subseteq Comics
CheckOK ==
  /\ check \in CheckType
  /\ check.pc \in {"found", "missed", "clear"} => check.comic # "none"

TypeOK ==
  /\ LogOK /\ PollOK /\ RowsOK /\ TasksOK /\ CheckOK
  /\ share \subseteq Comics /\ events \subseteq Comics /\ excused \subseteq Comics
  /\ spent \in Nat

(* What the cursor says was read has an Item: overlapping polls, a poll that *)
(* fails half-way, a flush or a Redis error never move it past a grab nobody *)
(* recorded (managers.py:655-661, 691, 787-790).                            *)
CursorNeverSkips ==
  \A k \in 1..Len(log) : log[k].at <= cursor => Exists(log[k].comic)

HasTask(c) == queue[c] > 0 \/ worker[c] # NoRow \/ c \in moving
Reread(c) == \E k \in 1..Len(log) : log[k].comic = c /\ log[k].at > cursor

(* A Grabbed item is watched: by a timer, by a task or by the next poll,     *)
(* which will read an entry of its comic again, whether AirDC++ still shows  *)
(* an event or not: "AirDC++ doesn't emit a download-complete event harpoon  *)
(* can see", and without one of these the item would sit "in 'Grabbed'       *)
(* forever" (tasks.py:2368-2373).                                            *)
NeverForgotten ==
  \A c \in AirDcpp : Grabbed(c) =>
    item[c].timer # "none" \/ HasTask(c) \/ Reread(c) \/ c \in excused

(* Every grab that Mylar3 logs is post-processed or fails: the timer is not  *)
(* pushed out for ever, the count reaches the cap, no dispatch is lost.      *)
EveryGrabEnds ==
  \A c \in AirDcpp :
    Logged(c) ~> c \in excused \/ (Exists(c) /\ ~Grabbed(c))
=============================================================================
