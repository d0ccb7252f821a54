------------------------- MODULE Mylar3IntakeProofs -------------------------
(***************************************************************************)
(* Proofs about the intake, for any comics, any number of overlapping      *)
(* polls and any faults: every variable keeps its type and, as long as the *)
(* timestamps of Mylar3's log grow, the cursor never passes a grab that    *)
(* nobody recorded and no comic of AirDC++ is left Grabbed with nothing to *)
(* wake it.                                                                *)
(***************************************************************************)
EXTENDS Mylar3Intake, TLAPS

(* Successive log entries carry growing timestamps. *)
LogClockRuns == ClockSteps \subseteq Nat \ {0}

ComicStep(c) ==
  \/ Land(c) \/ Forget(c) \/ Finished(c) \/ TimePasses(c) \/ ReadGrabbed(c)
  \/ SaveStatus(c) \/ PipelineEnds(c) \/ TaskLost(c) \/ RetryFailed(c)

LEMMA NextCases ==
  ASSUME Next
  PROVE  \/ \E c \in Comics : Grab(c) \/ ComicStep(c)
         \/ \E p \in Pollers : PollStep(p) \/ PollFails(p)
         \/ CheckStep \/ Flush
BY DEF Next, ComicStep, PostprocessStep
-----------------------------------------------------------------------------
(* What replacing one poll, or one row, does to their types.                *)
LEMMA PollUpdate ==
  ASSUME PollOK, NEW p \in Pollers, NEW r \in PollType,
         poll' = [poll EXCEPT ![p] = r], UNCHANGED log,
         r.next <= Len(log), r.pc = "timer" => r.comic # "none" /\ r.next > 0
  PROVE  PollOK'
<1>1. poll' \in [Pollers -> PollType]
  BY DEF PollOK
<1>2. ASSUME NEW q \in Pollers
      PROVE  /\ poll'[q].next <= Len(log)
             /\ poll'[q].pc = "timer" => poll'[q].comic # "none" /\ poll'[q].next > 0
  <2>1. CASE q = p BY <2>1 DEF PollOK
  <2>2. CASE q # p BY <2>2 DEF PollOK, PollAt
  <2>3. QED BY <2>1, <2>2
<1>3. QED
  BY <1>1, <1>2 DEF PollOK, PollAt

LEMMA RowUpdate ==
  ASSUME RowsOK, NEW c \in Comics, NEW row \in Row, Set(c, row)
  PROVE  RowsOK'
BY DEF RowsOK, Set

LEMMA NewRowType == NoRow \in Row /\ NewRow \in Row /\ NewRow.status = "Grabbed"
BY DEF NoRow, NewRow, Row, Statuses

(* The parts of the state a step leaves alone keep their types.             *)
LEMMA Kept ==
  ASSUME TypeOK
  PROVE  /\ UNCHANGED <<log, cursor>> => LogOK'
         /\ UNCHANGED <<log, poll>> => PollOK'
         /\ UNCHANGED item => RowsOK'
         /\ UNCHANGED taskVars => TasksOK'
         /\ UNCHANGED check => CheckOK'
BY DEF TypeOK, LogOK, PollOK, PollAt, RowsOK, TasksOK, CheckOK, taskVars

LEMMA EntryType ==
  ASSUME LogOK, NEW k \in 1..Len(log)
  PROVE  log[k] \in Entry /\ log[k].comic \in Comics /\ log[k].at \in Nat \ {0}
<1>1. log[k] \in Entry
  BY DEF LogOK
<1>2. QED
  BY <1>1 DEF Entry

LEMMA LatestType ==
  ASSUME LogOK
  PROVE  Latest \in Nat /\ (log # <<>> => Latest = log[Len(log)].at)
<1>1. CASE log = <<>>
  BY <1>1 DEF Latest
<1>2. CASE log # <<>>
  <2>1. Len(log) \in 1..Len(log)
    BY <1>2 DEF LogOK
  <2>2. log[Len(log)].at \in Nat
    BY <2>1, EntryType
  <2>3. QED
    BY <1>2, <2>2 DEF Latest
<1>3. QED
  BY <1>1, <1>2

LEMMA GrabLog ==
  ASSUME TypeOK, NEW c \in Comics, Grab(c)
  PROVE  \E d \in ClockSteps :
           /\ [comic |-> c, at |-> Latest + d] \in Entry
           /\ log' = Append(log, [comic |-> c, at |-> Latest + d])
           /\ Len(log') = Len(log) + 1 /\ LogOK'
<1>1. PICK d \in ClockSteps :
        /\ Latest + d > 0
        /\ log' = Append(log, [comic |-> c, at |-> Latest + d])
  BY DEF Grab
<1>2. Latest \in Nat /\ d \in Int
  BY LatestType, IntakeAssumption DEF TypeOK
<1>3. [comic |-> c, at |-> Latest + d] \in Entry
  BY <1>1, <1>2 DEF Entry
<1>4. log' \in Seq(Entry) /\ Len(log') = Len(log) + 1
  BY <1>1, <1>3 DEF TypeOK, LogOK
<1>5. QED
  BY <1>1, <1>3, <1>4 DEF Grab, TypeOK, LogOK

LEMMA GrabType ==
  ASSUME TypeOK, NEW c \in Comics, Grab(c)
  PROVE  TypeOK'
<1>1. LogOK' /\ Len(log') = Len(log) + 1
  BY GrabLog
<1>2. PollOK'
  <2>1. Len(log) \in Nat /\ UNCHANGED poll
    BY DEF TypeOK, LogOK, Grab
  <2>2. \A p \in Pollers : poll[p].next \in Nat
    BY DEF TypeOK, PollOK, PollType
  <2>3. QED
    BY <1>1, <2>1, <2>2 DEF TypeOK, PollOK, PollAt
<1>3. RowsOK' /\ TasksOK' /\ CheckOK'
  BY Kept DEF Grab
<1>4. QED
  BY <1>1, <1>2, <1>3 DEF Grab, TypeOK

LEMMA ComicStepType ==
  ASSUME TypeOK, NEW c \in Comics, ComicStep(c)
  PROVE  TypeOK'
<1>1. /\ LogOK' /\ PollOK' /\ CheckOK'
      /\ share' \subseteq Comics /\ events' \subseteq Comics /\ excused' \subseteq Comics
      /\ spent' \in Nat
  <2>1. UNCHANGED pollVars /\ UNCHANGED check
    BY DEF ComicStep, Land, Forget, Finished, TimePasses, ReadGrabbed, SaveStatus,
           PipelineEnds, TaskLost, RetryFailed
  <2>2. /\ share' \in {share, share \union {c}}
        /\ events' \in {events, events \union {c}, events \ {c}}
        /\ excused' \in {excused, excused \union {c}}
        /\ spent' \in {spent, spent + 1}
    BY DEF ComicStep, Land, Forget, Finished, TimePasses, ReadGrabbed, SaveStatus,
           PipelineEnds, TaskLost, RetryFailed, NoFault, Fault
  <2>3. QED
    BY <2>1, <2>2, Kept DEF TypeOK, pollVars
<1>2. TasksOK'
  <2>1. /\ queue' \in [Comics -> Nat]
        /\ moving' \in {moving, moving \union {c}, moving \ {c}}
    BY DEF ComicStep, Land, Forget, Finished, TimePasses, ReadGrabbed, SaveStatus,
           PipelineEnds, TaskLost, RetryFailed, Enqueue, taskVars, TypeOK, TasksOK
  <2>2. \/ UNCHANGED worker
        \/ worker' = [worker EXCEPT ![c] = NoRow]
        \/ worker' = [worker EXCEPT ![c] = item[c]]
    BY DEF ComicStep, Land, Forget, Finished, TimePasses, ReadGrabbed, SaveStatus,
           PipelineEnds, TaskLost, RetryFailed, taskVars
  <2>3. worker' \in [Comics -> Row]
    BY <2>2, NewRowType DEF TypeOK, TasksOK, RowsOK
  <2>4. QED
    BY <2>1, <2>3 DEF TypeOK, TasksOK
<1>3. RowsOK'
  <2>1. \/ UNCHANGED item
        \/ Set(c, NewRow)
        \/ \E s \in Statuses : Set(c, [worker[c] EXCEPT !.status = s])
        \/ \E s \in Statuses : Set(c, [item[c] EXCEPT !.status = s])
        \/ Set(c, [item[c] EXCEPT !.timer = "due"])
    BY DEF ComicStep, Land, Forget, Finished, TimePasses, ReadGrabbed, SaveStatus,
           PipelineEnds, TaskLost, RetryFailed, Statuses
  <2>2. item[c] \in Row /\ worker[c] \in Row
    BY DEF TypeOK, TasksOK, RowsOK
  <2>3. /\ [item[c] EXCEPT !.timer = "due"] \in Row
        /\ \A s \in Statuses : /\ [worker[c] EXCEPT !.status = s] \in Row
                               /\ [item[c] EXCEPT !.status = s] \in Row
    BY <2>2 DEF Row
  <2>4. QED
    BY <2>1, <2>3, NewRowType, RowUpdate, Kept DEF TypeOK
<1>4. QED
  BY <1>1, <1>2, <1>3 DEF TypeOK

LEMMA PollStepType ==
  ASSUME TypeOK, NEW p \in Pollers, PollStep(p) \/ PollFails(p)
  PROVE  TypeOK'
<1>1. /\ TasksOK' /\ CheckOK' /\ UNCHANGED log
      /\ share' \subseteq Comics /\ events' \subseteq Comics /\ spent' \in Nat
  <2>1. /\ UNCHANGED taskVars /\ UNCHANGED <<check, log, share, events>>
        /\ spent' \in {spent, spent + 1}
    BY DEF PollStep, FetchLog, ReadCursor, TakeEntry, SaveTimer, PollEnds, PollFails,
           PollKeeps, NoFault, Fault
  <2>2. QED
    BY <2>1, Kept DEF TypeOK
<1>0. /\ poll[p] \in PollType /\ poll[p].next <= Len(log) /\ Len(log) \in Nat
      /\ PollAt(p, "timer") => poll[p].comic # "none" /\ poll[p].next > 0
      /\ cursor \in Nat /\ PollOK /\ RowsOK
  BY DEF TypeOK, PollOK, LogOK
<1> USE DEF PollAt
<1>2. CASE FetchLog(p)
  <2> DEFINE r == [poll[p] EXCEPT !.pc = "cursor", !.next = Len(log)]
  <2>1. r \in PollType /\ r.next = Len(log) /\ r.pc # "timer"
    BY <1>0 DEF PollType
  <2>2. poll' = [poll EXCEPT ![p] = r]
    BY <1>2 DEF FetchLog
  <2>. r.next <= Len(log)
    BY <1>0, <2>1
  <2> HIDE DEF r
  <2>3. PollOK'
    BY <1>0, <1>1, <2>1, <2>2, PollUpdate
  <2>4. QED
    BY <1>1, <1>2, <2>3, Kept DEF FetchLog, PollKeeps, TypeOK
<1>3. CASE ReadCursor(p)
  <2> DEFINE r == [poll[p] EXCEPT !.pc = "entry", !.last = cursor, !.newest = cursor,
                                  !.cached = TRUE]
             s == [poll[p] EXCEPT !.pc = "entry"]
  <2>1. /\ r \in PollType /\ r.next <= Len(log) /\ r.pc # "timer"
        /\ s \in PollType /\ s.next <= Len(log) /\ s.pc # "timer"
    BY <1>0 DEF PollType
  <2>2. poll' = [poll EXCEPT ![p] = r] \/ poll' = [poll EXCEPT ![p] = s]
    BY <1>3 DEF ReadCursor
  <2>3. PollOK'
    BY <1>0, <1>1, <2>1, <2>2, PollUpdate
  <2>4. QED
    BY <1>1, <1>3, <2>3, Kept DEF ReadCursor, PollKeeps, TypeOK
<1>4. CASE TakeEntry(p)
  <2> DEFINE e == log[poll[p].next]
             row == IF Exists(e.comic) THEN item[e.comic] ELSE NewRow
             newest == IF e.at > poll[p].newest THEN e.at ELSE poll[p].newest
             r == [poll[p] EXCEPT !.pc = "timer", !.newest = newest, !.comic = e.comic,
                                  !.row = row]
             n == poll[p].next - 1
             s == [poll[p] EXCEPT !.newest = newest, !.next = n]
  <2>1. poll[p].next \in 1..Len(log) /\ poll[p].pc = "entry" /\ poll[p].newest \in Nat
    BY <1>0, <1>4 DEF TakeEntry, MoreEntries, PollType
  <2>2. e.comic \in Comics /\ e.at \in Nat
    BY <1>0, <2>1, EntryType DEF TypeOK
  <2>3. row \in Row /\ newest \in Nat /\ n \in Nat
    BY <1>0, <2>1, <2>2, NewRowType DEF RowsOK
  <2>4. /\ poll' = [poll EXCEPT ![p] = r] \/ poll' = [poll EXCEPT ![p] = s]
        /\ Set(e.comic, row)
    BY <1>4 DEF TakeEntry
  <2>5. e.comic # "none"
    BY <2>2, IntakeAssumption
  <2> HIDE DEF row, newest, e, n
  <2>6. /\ r \in PollType /\ r.next = poll[p].next /\ r.comic = e.comic
        /\ s \in PollType /\ s.next = n /\ s.pc = "entry"
    <3>1. r \in PollType /\ r.next = poll[p].next /\ r.comic = e.comic
      BY <1>0, <2>1, <2>2, <2>3 DEF PollType
    <3>2. s \in PollType /\ s.next = n /\ s.pc = "entry"
      BY <1>0, <2>1, <2>3 DEF PollType
    <3>3. QED
      BY <3>1, <3>2
  <2>7. r.next > 0 /\ r.next <= Len(log) /\ s.next <= Len(log)
    BY <1>0, <2>1, <2>6 DEF n
  <2> HIDE DEF r, s
  <2>8. PollOK'
    BY <1>0, <1>1, <2>4, <2>5, <2>6, <2>7, PollUpdate
  <2>9. RowsOK'
    BY <1>0, <2>2, <2>3, <2>4, RowUpdate
  <2>10. QED
    BY <1>1, <1>4, <2>8, <2>9, Kept DEF TakeEntry, PollKeeps, TypeOK
<1>5. CASE SaveTimer(p)
  <2> DEFINE n == poll[p].next - 1
             r == [poll[p] EXCEPT !.pc = "entry", !.next = n, !.comic = "none",
                                  !.row = NoRow]
             row == [poll[p].row EXCEPT
                      !.timer = IF poll[p].row.timer = "none" THEN "waiting"
                                ELSE poll[p].row.timer]
  <2>1. /\ poll[p].pc = "timer" /\ poll[p].next \in 1..Len(log) /\ n \in Nat
        /\ poll[p].comic \in Comics /\ poll[p].row \in Row
    BY <1>0, <1>5 DEF SaveTimer, PollType
  <2>4. poll' = [poll EXCEPT ![p] = r] /\ Set(poll[p].comic, row)
    BY <1>5 DEF SaveTimer
  <2> HIDE DEF n
  <2>2. r \in PollType /\ r.next = n /\ r.pc = "entry"
    BY <1>0, <2>1, NewRowType DEF PollType
  <2>3. row \in Row
    BY <2>1 DEF Row
  <2>5. r.next <= Len(log)
    BY <1>0, <2>1, <2>2 DEF n
  <2> HIDE DEF r, row
  <2>6. PollOK'
    BY <1>0, <1>1, <2>2, <2>4, <2>5, PollUpdate
  <2>7. RowsOK'
    BY <1>0, <2>1, <2>3, <2>4, RowUpdate
  <2>8. excused' \subseteq Comics
    BY <1>5, <2>1 DEF SaveTimer, TypeOK
  <2>9. QED
    BY <1>1, <1>5, <2>6, <2>7, <2>8, Kept DEF SaveTimer, TypeOK
<1>6. CASE PollEnds(p) \/ PollFails(p)
  <2>1. Idle \in PollType /\ Idle.next <= Len(log) /\ Idle.pc # "timer"
    BY <1>0, NewRowType DEF Idle, PollType
  <2>2. poll' = [poll EXCEPT ![p] = Idle]
    BY <1>6 DEF PollEnds, PollFails
  <2>3. PollOK'
    BY <1>0, <1>1, <2>1, <2>2, PollUpdate
  <2>4. cursor' \in {cursor, poll[p].newest} /\ poll[p].newest \in Nat
    BY <1>0, <1>6 DEF PollEnds, PollFails, PollType
  <2>5. LogOK'
    BY <1>0, <1>1, <2>4 DEF TypeOK, LogOK
  <2>6. QED
    BY <1>1, <1>6, <2>3, <2>5, Kept DEF PollEnds, PollFails, PollKeeps, TypeOK
<1>7. QED
  BY <1>2, <1>3, <1>4, <1>5, <1>6 DEF PollStep

LEMMA CheckStepType ==
  ASSUME TypeOK, CheckStep
  PROVE  TypeOK'
<1> USE DEF CheckAt
<1>1. /\ LogOK' /\ PollOK'
      /\ share' \subseteq Comics /\ events' \subseteq Comics /\ excused' \subseteq Comics
      /\ spent' \in Nat
  <2>1. CheckKeeps /\ spent' \in {spent, spent + 1}
    BY DEF CheckStep, StartCheck, Walk, Defer, Dispatch, ClearTimer, Missed, CheckEnds,
           NoFault, Fault
  <2>2. QED
    BY <2>1, Kept DEF TypeOK, CheckKeeps, pollVars
<1>2. TasksOK'
  <2>1. UNCHANGED <<worker, moving>> /\ (UNCHANGED queue \/ Enqueue(check.comic))
    BY DEF CheckStep, StartCheck, Walk, Defer, Dispatch, ClearTimer, Missed, CheckEnds,
           CheckKeeps
  <2>2. queue \in [Comics -> Nat]
    BY DEF TypeOK, TasksOK
  <2>3. queue' \in [Comics -> Nat]
    BY <2>1, <2>2 DEF Enqueue
  <2>4. QED
    BY <2>1, <2>3 DEF TypeOK, TasksOK
<1>3. check \in CheckType /\ \A c \in Comics : item[c] \in Row
  BY DEF TypeOK, CheckOK, RowsOK
<1>4. CheckOK'
  <2>1. NoCheck \in CheckType /\ NoCheck.pc = "idle"
    BY DEF NoCheck, CheckType
  <2>2. CASE StartCheck
    <3> DEFINE due == {[comic |-> c, count |-> item[c].count] :
                         c \in {d \in AirDcpp : Grabbed(d) /\ item[d].timer = "due"}}
    <3>1. due \in SUBSET [comic : Comics, count : Nat]
      BY <1>3, IntakeAssumption DEF Row
    <3>2. check' = [NoCheck EXCEPT !.pc = "next", !.todo = due]
      BY <2>2 DEF StartCheck
    <3> HIDE DEF due
    <3>3. QED
      BY <2>1, <3>1, <3>2 DEF CheckOK, CheckType
  <2>3. CASE Walk
    <3>1. PICK d \in check.todo :
            \/ \E pc \in {"found", "missed"} :
                 check' = [check EXCEPT !.pc = pc, !.todo = check.todo \ {d},
                                        !.comic = d.comic, !.count = d.count]
            \/ check' = [check EXCEPT !.todo = check.todo \ {d}] /\ check.pc = "next"
      BY <2>3 DEF Walk
    <3>2. d.comic \in Comics /\ d.comic # "none" /\ d.count \in Nat
      BY <1>3, IntakeAssumption DEF CheckType
    <3>3. QED
      BY <1>3, <3>1, <3>2 DEF CheckOK, CheckType
  <2>4. CASE Dispatch
    BY <1>3, <2>4 DEF Dispatch, CheckOK, CheckType, TypeOK
  <2>5. CASE CheckNext
    BY <1>3, <2>1, <2>5 DEF CheckNext, CheckOK, CheckType
  <2>6. QED
    BY <2>1, <2>2, <2>3, <2>4, <2>5
    DEF CheckStep, Defer, ClearTimer, Missed, CheckEnds, CheckOK
<1>5. RowsOK'
  <2>1. CASE check.pc \in {"found", "missed", "clear"}
    <3>1. check.comic \in Comics /\ check.count + 1 \in Nat /\ item[check.comic] \in Row
      BY <1>3, <2>1 DEF TypeOK, CheckOK, CheckType
    <3> DEFINE row == item[check.comic]
               n == check.count + 1
    <3>2. \/ UNCHANGED item
          \/ \E t \in {"none", "waiting"} : Set(check.comic, [row EXCEPT !.timer = t])
          \/ Set(check.comic, [row EXCEPT !.timer = "none", !.count = 0])
          \/ Set(check.comic, [row EXCEPT !.count = n, !.status = "Failed"])
          \/ Set(check.comic, [row EXCEPT !.count = n, !.timer = "waiting"])
      BY <2>1 DEF CheckStep, StartCheck, Walk, Defer, Dispatch, ClearTimer, Missed,
           CheckEnds, SetTimer
    <3> HIDE DEF row, n
    <3>3. /\ \A t \in {"none", "waiting"} : [row EXCEPT !.timer = t] \in Row
          /\ [row EXCEPT !.timer = "none", !.count = 0] \in Row
          /\ [row EXCEPT !.count = n, !.status = "Failed"] \in Row
          /\ [row EXCEPT !.count = n, !.timer = "waiting"] \in Row
      <4>1. row \in Row /\ n \in Nat
        BY <3>1 DEF row, n
      <4>2. QED
        BY <4>1 DEF Row, Statuses
    <3>4. QED
      BY <3>1, <3>2, <3>3, RowUpdate, Kept DEF TypeOK
  <2>2. CASE check.pc \notin {"found", "missed", "clear"}
    BY <2>2, Kept DEF CheckStep, StartCheck, Walk, Defer, Dispatch, ClearTimer, Missed,
       CheckEnds
  <2>3. QED
    BY <2>1, <2>2
<1>6. QED
  BY <1>1, <1>2, <1>4, <1>5 DEF TypeOK

LEMMA FlushType ==
  ASSUME TypeOK, Flush
  PROVE  TypeOK'
<1>1. PollOK' /\ RowsOK' /\ CheckOK'
  BY Kept DEF Flush
<1>2. LogOK' /\ TasksOK'
  BY DEF Flush, TypeOK, LogOK, TasksOK
<1>3. QED
  BY <1>1, <1>2 DEF Flush, Fault, TypeOK

LEMMA InitType ==
  ASSUME Init
  PROVE  TypeOK
<1>1. LogOK /\ RowsOK /\ TasksOK
  BY NewRowType DEF Init, LogOK, RowsOK, TasksOK
<1>2. CheckOK
  BY DEF Init, CheckOK, CheckType, NoCheck
<1>3. Idle \in PollType /\ Idle.next = 0 /\ Idle.pc = "idle"
  BY NewRowType DEF Idle, PollType
<1>4. Len(log) = 0
  BY DEF Init
<1>5. PollOK
  BY <1>3, <1>4 DEF Init, PollOK, PollAt
<1>6. QED
  BY <1>1, <1>2, <1>5 DEF Init, TypeOK

LEMMA StepType ==
  ASSUME TypeOK, [Next]_vars
  PROVE  TypeOK'
<1>1. CASE UNCHANGED vars
  BY <1>1, Kept DEF TypeOK, vars, pollVars, taskVars
<1>2. CASE Next
  BY <1>2, NextCases, GrabType, ComicStepType, PollStepType, CheckStepType, FlushType
<1>3. QED
  BY <1>1, <1>2

(* The log, the cursor, the polls, the rows and the tasks keep their types.  *)
THEOREM TypeCorrect == Spec => []TypeOK
<1>1. TypeOK /\ [Next]_vars => TypeOK'
  BY StepType
<1>2. QED
  BY <1>1, InitType, PTL DEF Spec
-----------------------------------------------------------------------------
(* No step takes a row away, provided a poll only saves rows that were there. *)
RowsStay == \A c \in Comics : item[c].status # "none" => item'[c].status # "none"
PollsHoldRows == \A p \in Pollers : poll[p].pc = "timer" => poll[p].row.status # "none"

LEMMA SetStays ==
  ASSUME RowsOK, NEW c, NEW row, Set(c, row), row.status # "none"
  PROVE  RowsStay
BY DEF RowsOK, Set, RowsStay

LEMMA ComicStepRows ==
  ASSUME TypeOK, NEW c \in Comics, Grab(c) \/ ComicStep(c)
  PROVE  RowsStay
<1>1. item[c] \in Row /\ worker[c] \in Row
  BY DEF TypeOK, TasksOK, RowsOK
<1>2. \/ UNCHANGED item
      \/ Set(c, NewRow)
      \/ \E s \in Statuses : Set(c, [worker[c] EXCEPT !.status = s])
      \/ \E s \in Statuses : Set(c, [item[c] EXCEPT !.status = s])
      \/ Set(c, [item[c] EXCEPT !.timer = "due"]) /\ Exists(c)
  BY DEF Grab, ComicStep, Land, Forget, Finished, TimePasses, ReadGrabbed, SaveStatus,
         PipelineEnds, TaskLost, RetryFailed, Statuses
<1>3. /\ \A s \in Statuses : /\ [worker[c] EXCEPT !.status = s].status # "none"
                             /\ [item[c] EXCEPT !.status = s].status # "none"
      /\ Exists(c) => [item[c] EXCEPT !.timer = "due"].status # "none"
  BY <1>1 DEF Row, Statuses, Exists
<1>4. QED
  BY <1>2, <1>3, NewRowType, SetStays DEF TypeOK, RowsStay

LEMMA CheckStepRows ==
  ASSUME TypeOK, CheckStep
  PROVE  RowsStay
<1> DEFINE row == item[check.comic]
<1>1. CASE check.pc \in {"found", "missed", "clear"}
  <2>1. check.comic \in Comics /\ row \in Row
    BY <1>1 DEF TypeOK, CheckOK, CheckType, RowsOK
  <2>2. \/ UNCHANGED item
        \/ \E t \in {"none", "waiting"} : Set(check.comic, [row EXCEPT !.timer = t])
        \/ Set(check.comic, [row EXCEPT !.timer = "none", !.count = 0])
        \/ Set(check.comic, [row EXCEPT !.count = check.count + 1, !.status = "Failed"])
        \/ Set(check.comic, [row EXCEPT !.count = check.count + 1, !.timer = "waiting"])
    BY <1>1 DEF CheckStep, CheckAt, StartCheck, Walk, Defer, Dispatch, ClearTimer, Missed,
         CheckEnds, SetTimer
  <2>3. \/ UNCHANGED item
        \/ \E r \in Row : item' = [item EXCEPT ![check.comic] = r]
                          /\ (r.status = row.status \/ r.status = "Failed")
    <3>1. /\ \A t \in {"none", "waiting"} :
               [row EXCEPT !.timer = t] \in Row /\ [row EXCEPT !.timer = t].status = row.status
          /\ [row EXCEPT !.timer = "none", !.count = 0] \in Row
          /\ [row EXCEPT !.timer = "none", !.count = 0].status = row.status
      BY <2>1 DEF Row
    <3>2. check.count + 1 \in Nat
      BY DEF TypeOK, CheckOK, CheckType
    <3>3. /\ [row EXCEPT !.count = check.count + 1, !.status = "Failed"] \in Row
          /\ [row EXCEPT !.count = check.count + 1, !.status = "Failed"].status = "Failed"
          /\ [row EXCEPT !.count = check.count + 1, !.timer = "waiting"] \in Row
          /\ [row EXCEPT !.count = check.count + 1, !.timer = "waiting"].status = row.status
      BY <2>1, <3>2 DEF Row, Statuses
    <3> HIDE DEF row
    <3>4. QED
      BY <2>2, <3>1, <3>3 DEF Set
  <2>4. QED
    BY <2>1, <2>3 DEF TypeOK, RowsOK, RowsStay
<1>2. CASE check.pc \notin {"found", "missed", "clear"}
  BY <1>2 DEF CheckStep, CheckAt, StartCheck, Walk, Defer, Dispatch, ClearTimer, Missed,
     CheckEnds, RowsStay
<1>3. QED
  BY <1>1, <1>2

LEMMA PollStepRows ==
  ASSUME TypeOK, PollsHoldRows, NEW p \in Pollers, PollStep(p) \/ PollFails(p)
  PROVE  RowsStay
<1>1. CASE TakeEntry(p)
  <2> DEFINE e == log[poll[p].next]
  <2>1. Set(e.comic, IF Exists(e.comic) THEN item[e.comic] ELSE NewRow)
    BY <1>1 DEF TakeEntry
  <2>2. (IF Exists(e.comic) THEN item[e.comic] ELSE NewRow).status # "none"
    BY NewRowType DEF Exists
  <2>3. QED
    BY <2>1, <2>2, SetStays DEF TypeOK
<1>2. CASE SaveTimer(p)
  <2> DEFINE row == [poll[p].row EXCEPT
                      !.timer = IF poll[p].row.timer = "none" THEN "waiting"
                                ELSE poll[p].row.timer]
  <2>1. Set(poll[p].comic, row)
    BY <1>2 DEF SaveTimer
  <2>2. poll[p].row \in Row /\ poll[p].row.status # "none"
    BY <1>2 DEF SaveTimer, PollAt, PollsHoldRows, TypeOK, PollOK, PollType
  <2>3. row.status # "none"
    BY <2>2 DEF Row
  <2> HIDE DEF row
  <2>4. QED
    BY <2>1, <2>3, SetStays DEF TypeOK
<1>3. CASE FetchLog(p) \/ ReadCursor(p) \/ PollEnds(p) \/ PollFails(p)
  BY <1>3 DEF FetchLog, ReadCursor, PollEnds, PollFails, RowsStay
<1>4. QED
  BY <1>1, <1>2, <1>3 DEF PollStep
-----------------------------------------------------------------------------
(* Who watches an item.  A watched item has a row and, while Grabbed, a timer *)
(* or a task, or is excused: nothing else has to happen for it to go on.      *)
Tended(c) == HasTask(c) \/ c \in excused
Free(c) == Grabbed(c) => Tended(c)

Watched ==
  {c \in Comics : /\ Exists(c)
                  /\ c \in AirDcpp /\ Grabbed(c) => item[c].timer # "none" \/ Tended(c)}

(* A check that is about to clear a timer leaves the item to a task; whoever  *)
(* holds an item holds one that has a row; rows and events come from the log. *)
Holders ==
  /\ \A c \in Comics : c \in moving \/ worker[c] # NoRow => Exists(c)
  /\ \A d \in check.todo : Exists(d.comic)
  /\ check.pc \in {"found", "missed", "clear"} => Exists(check.comic)
  /\ check.pc = "clear" => Free(check.comic)
FromLog == \A c \in Comics : Exists(c) \/ c \in events => Logged(c)

WatchInv == Holders /\ FromLog

LEMMA LoggedStays ==
  ASSUME UNCHANGED log \/ (\E e : log' = Append(log, e)), LogOK, NEW c, Logged(c)
  PROVE  Logged(c)'
<1>1. PICK k \in 1..Len(log) : log[k].comic = c
  BY DEF Logged
<1>2. k \in 1..Len(log') /\ log'[k] = log[k]
  BY DEF LogOK
<1>3. QED
  BY <1>1, <1>2 DEF Logged

(* What the step of one comic does to the others: nothing.                   *)
LEMMA ComicStepFrame ==
  ASSUME TypeOK, NEW c \in Comics, ComicStep(c)
  PROVE  /\ UNCHANGED <<log, cursor, poll, check>>
         /\ \A d \in Comics \ {c} :
              /\ item'[d] = item[d] /\ queue'[d] = queue[d] /\ worker'[d] = worker[d]
              /\ d \in moving' <=> d \in moving
              /\ d \in excused' <=> d \in excused
              /\ d \in events' <=> d \in events
<1>1. UNCHANGED <<log, cursor, poll, check>>
  BY DEF ComicStep, Land, Forget, Finished, TimePasses, ReadGrabbed, SaveStatus,
         PipelineEnds, TaskLost, RetryFailed, pollVars
<1>2. /\ moving' \in {moving, moving \union {c}, moving \ {c}}
      /\ excused' \in {excused, excused \union {c}}
      /\ events' \in {events, events \union {c}, events \ {c}}
  BY DEF ComicStep, Land, Forget, Finished, TimePasses, ReadGrabbed, SaveStatus,
         PipelineEnds, TaskLost, RetryFailed, taskVars
<1>3. /\ UNCHANGED item \/ \E r : item' = [item EXCEPT ![c] = r]
      /\ UNCHANGED queue \/ \E n : queue' = [queue EXCEPT ![c] = n]
      /\ UNCHANGED worker \/ \E r : worker' = [worker EXCEPT ![c] = r]
  BY DEF ComicStep, Land, Forget, Finished, TimePasses, ReadGrabbed, SaveStatus,
         PipelineEnds, TaskLost, RetryFailed, taskVars, Set, Enqueue
<1>4. QED
  BY <1>1, <1>2, <1>3 DEF TypeOK, TasksOK, RowsOK

(* Only a retry makes an item Grabbed again without giving it a task: it then *)
(* has a timer that no check is about to clear.                              *)
LEMMA ComicStepTends ==
  ASSUME TypeOK, NEW c \in Comics, ComicStep(c)
  PROVE  \/ Free(c) => Free(c)'
         \/ /\ item'[c].timer # "none" /\ Exists(c)'
            /\ ~(check.pc = "clear" /\ check.comic = c)
<1>0. /\ item[c] \in Row /\ worker[c] \in Row /\ queue[c] \in Nat
      /\ item \in [Comics -> Row] /\ queue \in [Comics -> Nat] /\ worker \in [Comics -> Row]
  BY DEF TypeOK, TasksOK, RowsOK
<1> USE DEF Free, Tended, HasTask, Grabbed, Exists
<1>1. CASE Land(c) \/ Forget(c)
  BY <1>1 DEF Land, Forget, taskVars
<1>2. CASE Finished(c)
  <2>1. queue'[c] > 0
    BY <1>0, <1>2 DEF Finished, Enqueue
  <2>2. QED
    BY <2>1
<1>3. CASE TimePasses(c)
  <2>1. item'[c].status = item[c].status
    BY <1>0, <1>3 DEF TimePasses, Set, Row
  <2>2. QED
    BY <1>3, <2>1 DEF TimePasses, taskVars
<1>4. CASE ReadGrabbed(c)
  <2>1. UNCHANGED item /\ worker'[c] = IF item[c].status = "Grabbed" THEN item[c] ELSE NoRow
    BY <1>0, <1>4 DEF ReadGrabbed
  <2>2. item[c].status = "Grabbed" => item[c] # NoRow
    BY DEF NoRow
  <2>3. QED
    BY <2>1, <2>2
<1>5. CASE SaveStatus(c) \/ PipelineEnds(c)
  <2>1. item'[c].status # "Grabbed"
    BY <1>0, <1>5 DEF SaveStatus, PipelineEnds, Set, Row
  <2>2. QED
    BY <2>1
<1>6. CASE TaskLost(c)
  BY <1>6 DEF TaskLost
<1>7. CASE RetryFailed(c)
  <2>1. item'[c].timer = item[c].timer /\ item'[c].status = "Grabbed"
    BY <1>0, <1>7 DEF RetryFailed, Set, Row
  <2>2. CASE item[c].timer = "none" \/ (check.pc = "clear" /\ check.comic = c)
    BY <1>7, <2>2 DEF RetryFailed, CheckAt
  <2>3. QED
    BY <2>1, <2>2
<1>8. QED
  BY <1>1, <1>2, <1>3, <1>4, <1>5, <1>6, <1>7 DEF ComicStep

LEMMA ComicStepTimer ==
  ASSUME TypeOK, NEW c \in Comics, ComicStep(c), item[c].timer # "none", Exists(c)
  PROVE  item'[c].timer # "none" \/ Free(c)'
<1>0. item[c] \in Row /\ item \in [Comics -> Row]
  BY DEF TypeOK, RowsOK
<1>1. CASE Land(c) \/ Forget(c) \/ ReadGrabbed(c) \/ TaskLost(c)
  BY <1>1 DEF Land, Forget, ReadGrabbed, TaskLost
<1>2. CASE Finished(c)
  BY <1>2 DEF Finished, Grabbed, Exists
<1>3. CASE TimePasses(c) \/ PipelineEnds(c) \/ RetryFailed(c)
  BY <1>0, <1>3 DEF TimePasses, PipelineEnds, RetryFailed, Set, Row
<1>4. CASE SaveStatus(c)
  <2>1. item'[c].status # "Grabbed"
    BY <1>0, <1>4 DEF SaveStatus, Set, Row, TypeOK, TasksOK
  <2>2. QED
    BY <2>1 DEF Free, Grabbed
<1>5. QED
  BY <1>1, <1>2, <1>3, <1>4 DEF ComicStep

LEMMA ComicStepWatch ==
  ASSUME TypeOK, TypeOK', WatchInv, NEW c \in Comics, ComicStep(c)
  PROVE  Watched \subseteq Watched' /\ WatchInv'
<1>1. RowsStay /\ UNCHANGED <<log, check>>
  BY ComicStepRows, ComicStepFrame
<1>2. ASSUME NEW d \in Watched PROVE d \in Watched'
  <2>1. d \in Comics /\ Exists(d)'
    BY <1>1 DEF Watched, RowsStay, Exists
  <2>2. CASE d # c
    BY <2>1, <2>2, ComicStepFrame DEF Watched, Exists, Grabbed, Tended, HasTask
  <2>3. CASE d = c
    BY <2>1, <2>3, ComicStepTends, ComicStepTimer DEF Watched, Free
  <2>4. QED
    BY <2>2, <2>3
<1>3. Holders'
  <2>1. ASSUME NEW d \in Comics, d \in moving' \/ worker'[d] # NoRow PROVE Exists(d)'
    <3>1. CASE d # c
      BY <1>1, <2>1, <3>1, ComicStepFrame DEF WatchInv, Holders, RowsStay, Exists
    <3>2. CASE d = c /\ (ReadGrabbed(c) \/ SaveStatus(c) \/ TaskLost(c))
      <4>1. Exists(c)
        BY <2>1, <3>2 DEF ReadGrabbed, SaveStatus, TaskLost, WatchInv, Holders, Grabbed,
           Exists, TypeOK, TasksOK
      <4>2. QED
        BY <1>1, <3>2, <4>1 DEF RowsStay, Exists
    <3>3. CASE d = c /\ ~(ReadGrabbed(c) \/ SaveStatus(c) \/ TaskLost(c))
      <4>1. moving' \subseteq moving /\ UNCHANGED worker
        BY <3>3 DEF ComicStep, Land, Forget, Finished, TimePasses, PipelineEnds,
           RetryFailed, taskVars
      <4>2. QED
        BY <1>1, <2>1, <4>1 DEF RowsStay, Exists, WatchInv, Holders
    <3>4. QED
      BY <3>1, <3>2, <3>3
  <2>2. \A d \in check.todo : Exists(d.comic)'
    BY <1>1 DEF WatchInv, Holders, RowsStay, Exists, TypeOK, CheckOK, CheckType
  <2>3. check.pc \in {"found", "missed", "clear"} => (Exists(check.comic))'
    BY <1>1 DEF WatchInv, Holders, RowsStay, Exists, TypeOK, CheckOK, CheckType
  <2>4. ASSUME check.pc = "clear" PROVE (Free(check.comic))'
    <3>1. check.comic \in Comics /\ Free(check.comic) /\ UNCHANGED check
      BY <1>1, <2>4 DEF WatchInv, Holders, TypeOK, CheckOK, CheckType
    <3>2. CASE check.comic = c
      BY <1>1, <2>4, <3>1, <3>2, ComicStepTends
    <3>3. CASE check.comic # c
      BY <3>1, <3>3, ComicStepFrame DEF Free, Grabbed, Tended, HasTask
    <3>4. QED
      BY <3>1, <3>2, <3>3
  <2>5. QED
    BY <1>1, <2>1, <2>2, <2>3, <2>4 DEF Holders
<1>4. FromLog'
  <2>1. ASSUME NEW d \in Comics, Exists(d)' \/ d \in events' PROVE Logged(d)
    <3>1. CASE d # c
      BY <2>1, <3>1, ComicStepFrame DEF WatchInv, FromLog, Exists
    <3>2. CASE d = c
      <4>1. Land(c) => Logged(c)
        BY DEF Land
      <4>2. ~Land(c) => events' \subseteq events
        BY DEF ComicStep, Forget, Finished, TimePasses, ReadGrabbed, SaveStatus,
           PipelineEnds, TaskLost, RetryFailed
      <4>3. Finished(c) \/ UNCHANGED item \/ Exists(c)
        BY DEF ComicStep, Land, Forget, TimePasses, ReadGrabbed, SaveStatus,
           PipelineEnds, TaskLost, RetryFailed, WatchInv, Holders
      <4>4. Finished(c) => c \in events
        BY DEF Finished
      <4>5. QED
        BY <2>1, <3>2, <4>1, <4>2, <4>3, <4>4 DEF WatchInv, FromLog, Exists
    <3>3. QED
      BY <3>1, <3>2
  <2>2. QED
    BY <1>1, <2>1 DEF FromLog, Logged
<1>5. QED
  BY <1>2, <1>3, <1>4 DEF WatchInv

(* A check step leaves the tasks, and touches the row of one item that has    *)
(* one; it takes the timer only where a task was left.                        *)
LEMMA CheckStepFrame ==
  ASSUME TypeOK, CheckStep
  PROVE  /\ UNCHANGED <<log, cursor, poll, events, worker, moving, excused>>
         /\ \A d \in Comics : \/ item'[d] = item[d]
                              \/ d = check.comic /\ check.pc \in {"found", "missed", "clear"}
         /\ \A d \in Comics : queue'[d] = queue[d] \/ queue'[d] > 0
         /\ \A d \in Comics : Tended(d) => Tended(d)'
<1>1. UNCHANGED <<log, cursor, poll, events, worker, moving, excused>>
  BY DEF CheckStep, StartCheck, Walk, Defer, Dispatch, ClearTimer, Missed, CheckEnds,
         CheckKeeps, pollVars
<1>2. \/ UNCHANGED item
      \/ /\ check.pc \in {"found", "missed", "clear"}
         /\ \E r : item' = [item EXCEPT ![check.comic] = r]
  BY DEF CheckStep, StartCheck, Walk, Defer, Dispatch, ClearTimer, Missed, CheckEnds,
         CheckAt, Set
<1>3. UNCHANGED queue \/ Enqueue(check.comic)
  BY DEF CheckStep, StartCheck, Walk, Defer, Dispatch, ClearTimer, Missed, CheckEnds
<1>4. item \in [Comics -> Row] /\ queue \in [Comics -> Nat]
  BY DEF TypeOK, RowsOK, TasksOK
<1>5. ASSUME NEW d \in Comics PROVE queue'[d] = queue[d] \/ queue'[d] > 0
  BY <1>3, <1>4 DEF Enqueue
<1>6. ASSUME NEW d \in Comics, Tended(d) PROVE Tended(d)'
  BY <1>1, <1>5, <1>6 DEF Tended, HasTask
<1>7. QED
  BY <1>1, <1>2, <1>4, <1>5, <1>6

LEMMA CheckStepWatch ==
  ASSUME TypeOK, TypeOK', WatchInv, CheckStep
  PROVE  Watched \subseteq Watched' /\ WatchInv'
<1> DEFINE c == check.comic
           acts == check.pc \in {"found", "missed", "clear"}
<1>0. /\ item \in [Comics -> Row] /\ queue \in [Comics -> Nat]
      /\ check \in CheckType /\ (acts => c \in Comics /\ Exists(c))
  BY DEF TypeOK, RowsOK, TasksOK, CheckOK, CheckType, WatchInv, Holders
<1>1. RowsStay
  BY CheckStepRows
<1>2. acts => \/ item'[c].status # "Grabbed"
              \/ item'[c].timer # "none" /\ check.pc # "clear"
              \/ check.pc = "clear" /\ item'[c].status = item[c].status
              \/ item'[c] = item[c] /\ check.pc # "clear"
  <2>1. CASE Defer
    BY <1>0, <2>1 DEF Defer, CheckAt, Set, SetTimer, Row
  <2>2. CASE Dispatch
    BY <1>0, <2>2 DEF Dispatch, CheckAt
  <2>3. CASE ClearTimer
    BY <1>0, <2>3 DEF ClearTimer, CheckAt, Set, Row
  <2>4. CASE Missed
    BY <1>0, <2>4 DEF Missed, CheckAt, Set, Row
  <2>5. CASE StartCheck \/ Walk \/ CheckEnds
    BY <2>5 DEF StartCheck, Walk, CheckEnds, CheckAt
  <2>6. QED
    BY <2>1, <2>2, <2>3, <2>4, <2>5 DEF CheckStep
<1>3. ASSUME NEW d \in Watched PROVE d \in Watched'
  <2>1. d \in Comics /\ Exists(d)' /\ (Tended(d) => Tended(d)')
    BY <1>1, CheckStepFrame DEF Watched, RowsStay, Exists
  <2>2. CASE item'[d] = item[d]
    BY <2>1, <2>2 DEF Watched, Grabbed
  <2>3. CASE d = c /\ acts
    <3>1. check.pc = "clear" => Free(c)
      BY DEF WatchInv, Holders
    <3>2. CASE check.pc = "clear" /\ item'[c].status = item[c].status
      BY <2>1, <2>3, <3>1, <3>2 DEF Watched, Grabbed, Free
    <3>3. QED
      BY <1>2, <2>1, <2>2, <2>3, <3>2 DEF Watched, Grabbed
  <2>4. QED
    BY <2>1, <2>2, <2>3, CheckStepFrame
<1>4. Holders'
  <2>1. \A d \in Comics : d \in moving' \/ worker'[d] # NoRow => Exists(d)'
    BY <1>1, CheckStepFrame DEF WatchInv, Holders, RowsStay, Exists
  <2>2. ASSUME NEW d \in check'.todo PROVE Exists(d.comic)
    <3>1. CASE StartCheck
      <4>1. check'.todo = {[comic |-> e, count |-> item[e].count] :
                             e \in {f \in AirDcpp : Grabbed(f) /\ item[f].timer = "due"}}
        BY <3>1 DEF StartCheck, NoCheck
      <4>2. QED
        BY <2>2, <4>1 DEF Grabbed, Exists
    <3>2. CASE ~StartCheck
      <4>1. check'.todo \subseteq check.todo
        <5>1. CASE Walk
          BY <1>0, <5>1 DEF Walk, CheckType
        <5>2. CASE Dispatch
          BY <1>0, <5>2 DEF Dispatch, CheckType
        <5>3. CASE check' = NoCheck
          BY <5>3 DEF NoCheck
        <5>4. CASE CheckNext
          BY <5>4 DEF CheckNext, NoCheck
        <5>5. QED
          BY <3>2, <5>1, <5>2, <5>3, <5>4 DEF CheckStep, Defer, ClearTimer, Missed, CheckEnds
      <4>2. QED
        BY <2>2, <4>1 DEF WatchInv, Holders
    <3>3. QED
      BY <3>1, <3>2
  <2>3. ASSUME NEW d \in Comics, Exists(d) PROVE Exists(d)'
    BY <1>1, <2>3 DEF RowsStay, Exists
  <2>4. check' \in CheckType
    BY DEF TypeOK, CheckOK
  <2>5. (\A d \in check.todo : Exists(d.comic))'
    <3>1. ASSUME NEW d \in check'.todo PROVE d.comic \in Comics
      BY <2>4 DEF CheckType
    <3>2. QED
      BY <2>2, <2>3, <3>1
  <2>6. (acts => Exists(c))' /\ (check.pc = "clear" => Free(check.comic))'
    <3>1. CASE Walk
      <4>1. PICK d \in check.todo : \/ check'.comic = d.comic /\ check'.pc # "clear"
                                    \/ check'.pc = "next"
        BY <1>0, <3>1 DEF Walk, CheckType, CheckAt
      <4>2. Exists(d.comic) /\ d.comic \in Comics
        BY <1>0 DEF WatchInv, Holders, CheckType
      <4>3. QED
        BY <2>3, <4>1, <4>2
    <3>2. CASE Dispatch
      <4>1. check'.comic = c /\ c \in Comics /\ Exists(c) /\ queue'[c] > 0
        BY <1>0, <3>2 DEF Dispatch, CheckAt, CheckType, Enqueue
      <4>2. QED
        BY <2>3, <4>1 DEF Free, Tended, HasTask
    <3>3. CASE check'.pc \in {"idle", "next"}
      BY <3>3
    <3>4. CASE ~Walk /\ ~Dispatch
      <4>1. CheckNext => check'.pc = "next"
        BY DEF CheckNext, NoCheck
      <4>2. StartCheck => check'.pc = "next"
        BY DEF StartCheck, NoCheck
      <4>3. CheckEnds => check'.pc = "idle"
        BY DEF CheckEnds, NoCheck
      <4>4. QED
        BY <3>3, <3>4, <4>1, <4>2, <4>3 DEF CheckStep, Defer, ClearTimer, Missed
    <3>5. QED
      BY <3>1, <3>2, <3>4
  <2>7. QED
    BY <2>1, <2>5, <2>6 DEF Holders
<1>5. FromLog'
  <2>1. ASSUME NEW d \in Comics, Exists(d)' PROVE Exists(d)
    BY <1>0, <2>1, CheckStepFrame DEF Exists
  <2>2. QED
    BY <2>1, CheckStepFrame DEF WatchInv, FromLog, Logged
<1>6. QED
  BY <1>3, <1>4, <1>5 DEF WatchInv

(* A flush takes the queued tasks: it excuses the items of those a poll has   *)
(* already passed, and of the one whose timer a check is about to clear.      *)
LEMMA FlushWatch ==
  ASSUME TypeOK, WatchInv, Flush
  PROVE  /\ WatchInv'
         /\ \A p \in Pollers : poll[p].pc \in {"entry", "timer"} => Watched \subseteq Watched'
<1>1. /\ UNCHANGED <<log, poll, item, events, worker, moving, check>>
      /\ excused \subseteq excused'
      /\ \A c \in Comics :
           queue[c] > 0 /\ ( \/ \E p \in Pollers : poll[p].pc \in {"entry", "timer"}
                             \/ check.pc = "clear" /\ check.comic = c) => c \in excused'
  BY DEF Flush, CheckAt
<1>2. check.pc = "clear" => check.comic \in Comics
  BY DEF TypeOK, CheckOK, CheckType
<1>3. WatchInv'
  BY <1>1, <1>2 DEF WatchInv, Holders, FromLog, Exists, Logged, Free, Grabbed, Tended, HasTask
<1>4. ASSUME NEW p \in Pollers, poll[p].pc \in {"entry", "timer"}
      PROVE  Watched \subseteq Watched'
  BY <1>1, <1>4 DEF Watched, Exists, Grabbed, Tended, HasTask
<1>5. QED
  BY <1>3, <1>4

LEMMA GrabWatch ==
  ASSUME TypeOK, WatchInv, NEW c \in Comics, Grab(c)
  PROVE  Watched' = Watched /\ WatchInv'
<1>1. UNCHANGED <<item, events, taskVars, check, excused>> /\ \E e : log' = Append(log, e)
  BY DEF Grab
<1>2. Watched' = Watched
  BY <1>1 DEF Watched, Exists, Grabbed, Tended, HasTask, taskVars
<1>3. Holders'
  BY <1>1 DEF WatchInv, Holders, Exists, Free, Grabbed, Tended, HasTask, taskVars
<1>4. FromLog'
  <2>1. ASSUME NEW d \in Comics, Logged(d) PROVE Logged(d)'
    BY <1>1, <2>1, LoggedStays DEF TypeOK
  <2>2. QED
    BY <1>1, <2>1 DEF WatchInv, FromLog, Exists
<1>5. QED
  BY <1>2, <1>3, <1>4 DEF WatchInv

(* A poll takes nothing from a watched item; the item whose timer it saves is *)
(* watched from then on.                                                      *)
LEMMA PollStepWatch ==
  ASSUME TypeOK, TypeOK', WatchInv, PollsHoldRows,
         NEW p \in Pollers, PollStep(p) \/ PollFails(p),
         poll[p].pc = "timer" => Logged(poll[p].comic)
  PROVE  /\ Watched \subseteq Watched' /\ WatchInv'
         /\ SaveTimer(p) => poll[p].comic \in Watched'
         /\ TakeEntry(p) => \/ log[poll[p].next].comic \in Watched'
                            \/ poll'[p].pc = "timer"
<1>0. /\ item \in [Comics -> Row] /\ item' \in [Comics -> Row] /\ poll[p] \in PollType
      /\ poll \in [Pollers -> PollType]
  BY DEF TypeOK, RowsOK, PollOK
<1>1. /\ RowsStay /\ UNCHANGED <<log, events, taskVars, check>>
      /\ excused \subseteq excused'
  <2>1. UNCHANGED <<log, events, taskVars, check>> /\ excused \subseteq excused'
    BY DEF PollStep, FetchLog, ReadCursor, TakeEntry, SaveTimer, PollEnds, PollFails, PollKeeps
  <2>2. QED
    BY <2>1, PollStepRows
<1>2. ASSUME NEW d, Tended(d) PROVE Tended(d)'
  BY <1>1, <1>2 DEF Tended, HasTask, taskVars
<1>3. ASSUME UNCHANGED item
      PROVE  Watched \subseteq Watched' /\ WatchInv'
  BY <1>1, <1>2, <1>3 DEF Watched, WatchInv, Holders, FromLog, Exists, Logged, Free,
     Grabbed, taskVars
<1>4. CASE TakeEntry(p)
  <2>1. poll[p].next \in 1..Len(log) /\ poll[p].pc = "entry"
    BY <1>0, <1>4 DEF TakeEntry, MoreEntries, PollAt, PollType, TypeOK, PollOK, LogOK
  <2>2. PICK c \in Comics : c = log[poll[p].next].comic /\ Logged(c)
    BY <2>1, EntryType DEF TypeOK, Logged
  <2>3. \A d \in Comics : item'[d] = IF d = c /\ ~Exists(c) THEN NewRow ELSE item[d]
    BY <1>0, <1>4, <2>2 DEF TakeEntry, Set
  <2>4. ~SaveTimer(p)
    BY <2>1 DEF SaveTimer, PollAt
  <2>5. /\ c \notin AirDcpp => c \in Watched'
        /\ c \in AirDcpp => poll'[p].pc = "timer"
    <3>1. Exists(c)'
      BY <2>2, <2>3, NewRowType DEF Exists
    <3>2. c \notin AirDcpp => c \in Watched'
      BY <2>2, <3>1 DEF Watched
    <3>3. c \in AirDcpp => poll'[p].pc = "timer"
      <4> DEFINE newest == IF log[poll[p].next].at > poll[p].newest
                           THEN log[poll[p].next].at ELSE poll[p].newest
                 row == IF Exists(c) THEN item[c] ELSE NewRow
                 r == [poll[p] EXCEPT !.pc = "timer", !.newest = newest, !.comic = c,
                                      !.row = row]
      <4>1. c \in AirDcpp => poll' = [poll EXCEPT ![p] = r]
        BY <1>4, <2>2 DEF TakeEntry
      <4> HIDE DEF newest, row
      <4>2. r.pc = "timer"
        BY <1>0 DEF PollType
      <4> HIDE DEF r
      <4>3. QED
        BY <1>0, <4>1, <4>2
    <3>4. QED
      BY <3>2, <3>3
  <2>6. \A d \in Comics : Exists(d) => item'[d] = item[d]
    BY <2>3
  <2>7. Watched \subseteq Watched'
    BY <1>2, <2>6 DEF Watched, Exists, Grabbed
  <2>8. Holders'
    <3>1. \A d \in Comics : d \in moving' \/ worker'[d] # NoRow => Exists(d)'
      BY <1>1, <2>6 DEF WatchInv, Holders, taskVars, Exists
    <3>2. check \in CheckType /\ UNCHANGED check
          /\ (check.pc \in {"found", "missed", "clear"} => check.comic \in Comics)
      BY <1>1 DEF TypeOK, CheckOK, CheckType
    <3>3. (\A d \in check.todo : Exists(d.comic))'
      BY <2>6, <3>2 DEF WatchInv, Holders, Exists, CheckType
    <3>4. (check.pc \in {"found", "missed", "clear"} => Exists(check.comic))'
      BY <2>6, <3>2 DEF WatchInv, Holders, Exists
    <3>5. (check.pc = "clear" => Free(check.comic))'
      BY <1>2, <2>6, <3>2 DEF WatchInv, Holders, Free, Grabbed
    <3>6. QED
      BY <3>1, <3>3, <3>4, <3>5 DEF Holders
  <2>9. FromLog'
    BY <1>1, <2>2, <2>3 DEF WatchInv, FromLog, Exists, Logged
  <2>10. QED
    BY <2>2, <2>4, <2>5, <2>7, <2>8, <2>9 DEF WatchInv
<1>5. CASE SaveTimer(p)
  <2> DEFINE row == [poll[p].row EXCEPT
                      !.timer = IF poll[p].row.timer = "none" THEN "waiting"
                                ELSE poll[p].row.timer]
  <2>0. PICK c \in Comics : c = poll[p].comic /\ Logged(c)
    BY <1>0, <1>5 DEF SaveTimer, PollAt, TypeOK, PollOK, PollType
  <2>1. /\ poll[p].pc = "timer"
        /\ poll[p].row \in Row /\ poll[p].row.status # "none"
    BY <1>0, <1>5 DEF SaveTimer, PollAt, TypeOK, PollOK, PollType, PollsHoldRows
  <2>2. row.timer # "none" /\ row.status = poll[p].row.status
    BY <2>1 DEF Row
  <2>3. Set(c, row) /\ (TakesBack(p) => c \in excused')
    BY <1>5, <2>0 DEF SaveTimer
  <2> HIDE DEF row
  <2>4. item'[c] = row /\ \A d \in Comics \ {c} : item'[d] = item[d]
    BY <1>0, <2>1, <2>3 DEF Set
  <2>5. c \in Watched'
    BY <2>1, <2>2, <2>4 DEF Watched, Exists
  <2>6. Watched \subseteq Watched'
    BY <1>2, <2>4, <2>5 DEF Watched, Exists, Grabbed
  <2>7. ASSUME Free(c) PROVE Free(c)'
    <3>1. CASE Grabbed(c)
      BY <1>2, <2>7, <3>1 DEF Free
    <3>2. CASE ~Grabbed(c)
      BY <1>1, <2>0, <2>2, <2>3, <2>4, <3>2 DEF TakesBack, Free, Grabbed, Tended, HasTask, taskVars
    <3>3. QED
      BY <3>1, <3>2
  <2>8. Holders'
    <3>1. \A d \in Comics : Exists(d) => Exists(d)'
      BY <1>1 DEF RowsStay, Exists
    <3>2. check \in CheckType /\ UNCHANGED check
          /\ (check.pc \in {"found", "missed", "clear"} => check.comic \in Comics)
      BY <1>1 DEF TypeOK, CheckOK, CheckType
    <3>3. (\A d \in check.todo : Exists(d.comic))'
      BY <3>1, <3>2 DEF WatchInv, Holders, CheckType
    <3>4. (check.pc \in {"found", "missed", "clear"} => Exists(check.comic))'
      BY <3>1, <3>2 DEF WatchInv, Holders
    <3>5. (check.pc = "clear" => Free(check.comic))'
      <4>1. \A d \in Comics \ {c} : Free(d) => Free(d)'
        BY <1>2, <2>4 DEF Free, Grabbed
      <4>2. QED
        BY <2>7, <3>2, <4>1 DEF WatchInv, Holders
    <3>6. \A d \in Comics : d \in moving' \/ worker'[d] # NoRow => Exists(d)'
      BY <1>1, <3>1 DEF WatchInv, Holders, taskVars
    <3>7. QED
      BY <3>3, <3>4, <3>5, <3>6 DEF Holders
  <2>9. FromLog'
    BY <1>1, <2>0, <2>4 DEF WatchInv, FromLog, Exists, Logged
  <2>10. ~TakeEntry(p)
    BY <2>1 DEF TakeEntry, MoreEntries, PollAt
  <2>11. QED
    BY <2>0, <2>5, <2>6, <2>8, <2>9, <2>10 DEF WatchInv
<1>6. CASE FetchLog(p) \/ ReadCursor(p) \/ PollEnds(p) \/ PollFails(p)
  <2>1. UNCHANGED item
    BY <1>6 DEF FetchLog, ReadCursor, PollEnds, PollFails
  <2>2. CASE SaveTimer(p) \/ TakeEntry(p)
    BY <1>4, <1>5, <2>2
  <2>3. QED
    BY <1>3, <2>1, <2>2
<1>7. QED
  BY <1>4, <1>5, <1>6 DEF PollStep
-----------------------------------------------------------------------------
(* The inductive invariant.  Recorded(l, S, t, n): the entries of l after the *)
(* first n that are not newer than t are of comics in S.  For a poll that has *)
(* read down to entry "next" they are watched if they lie after "next" and    *)
(* are not newer than "newest", or not newer than the cursor it started from. *)
Recorded(l, S, t, n) ==
  \A k \in 1..Len(l) : k > n /\ l[k].at <= t => l[k].comic \in S

Rises(l) == \A j, k \in 1..Len(l) : j < k => l[j].at < l[k].at
LatestOf(l) == IF l = <<>> THEN 0 ELSE l[Len(l)].at

PollSafe(l, S, r) ==
  /\ r.newest <= LatestOf(l) /\ r.last <= LatestOf(l)
  /\ r.pc \in {"idle", "cursor"} => r.newest = 0 /\ r.last = 0
  /\ Recorded(l, S, r.last, 0)
  /\ r.pc \in {"entry", "timer"} => Recorded(l, S, r.newest, r.next)
  /\ r.pc = "timer" => r.comic = l[r.next].comic /\ r.row.status # "none"

LogSafe(l, S, t) ==
  Rises(l) /\ t <= LatestOf(l) /\ Recorded(l, S, t, 0)

IntakeInv ==
  /\ TypeOK /\ WatchInv
  /\ LogSafe(log, Watched, cursor)
  /\ \A p \in Pollers : PollSafe(log, Watched, poll[p])

LEMMA LatestOfType ==
  ASSUME NEW l \in Seq(Entry)
  PROVE  LatestOf(l) \in Nat
<1>1. CASE l = <<>>
  BY <1>1 DEF LatestOf
<1>2. CASE l # <<>>
  <2>1. l[Len(l)] \in Entry
    BY <1>2
  <2>2. QED
    BY <1>2, <2>1 DEF LatestOf, Entry
<1>3. QED
  BY <1>1, <1>2

LEMMA LatestIsLast ==
  ASSUME NEW l \in Seq(Entry), Rises(l), NEW k \in 1..Len(l)
  PROVE  l[k].at <= LatestOf(l)
<1>1. Len(l) \in 1..Len(l) /\ l # <<>>
  OBVIOUS
<1>2. l[k] \in Entry /\ l[Len(l)] \in Entry
  BY <1>1
<1>3. l[k].at \in Nat /\ l[Len(l)].at \in Nat
  BY <1>2 DEF Entry
<1>4. k = Len(l) \/ l[k].at < l[Len(l)].at
  BY <1>1 DEF Rises
<1>5. QED
  BY <1>1, <1>3, <1>4 DEF LatestOf

(* One more entry, newer than the others, leaves what is known of those.      *)
LEMMA RecordedGrows ==
  ASSUME NEW l \in Seq(Entry), NEW e \in Entry, Rises(l), e.at > LatestOf(l)
  PROVE  /\ Rises(Append(l, e)) /\ LatestOf(l) <= LatestOf(Append(l, e))
         /\ \A k \in 1..Len(l) : Append(l, e)[k] = l[k]
         /\ \A S, n : \A t \in Nat :
              t <= LatestOf(l) /\ Recorded(l, S, t, n) => Recorded(Append(l, e), S, t, n)
<1> DEFINE m == Append(l, e)
<1>1. /\ Len(m) = Len(l) + 1 /\ Len(l) \in Nat /\ m # <<>>
      /\ m[Len(l) + 1] = e /\ \A k \in 1..Len(l) : m[k] = l[k]
  OBVIOUS
<1>2. LatestOf(m) = e.at /\ e.at \in Nat /\ LatestOf(l) \in Nat
  BY <1>1, LatestOfType DEF LatestOf, Entry
<1>3. \A k \in 1..Len(l) : l[k].at <= LatestOf(l) /\ l[k].at \in Nat
  <2>1. ASSUME NEW k \in 1..Len(l) PROVE l[k].at \in Nat
    <3>1. l[k] \in Entry
      OBVIOUS
    <3>2. QED
      BY <3>1 DEF Entry
  <2>2. QED
    BY <2>1, LatestIsLast
<1> HIDE DEF m
<1>4. Rises(m)
  <2> SUFFICES ASSUME NEW j \in 1..Len(m), NEW k \in 1..Len(m), j < k
               PROVE  m[j].at < m[k].at
    BY DEF Rises
  <2>1. j \in 1..Len(l)
    BY <1>1
  <2>2. CASE k \in 1..Len(l)
    BY <1>1, <2>1, <2>2 DEF Rises
  <2>3. CASE k = Len(l) + 1
    BY <1>1, <1>2, <1>3, <2>1, <2>3
  <2>4. QED
    BY <1>1, <2>2, <2>3
<1>5. ASSUME NEW S, NEW n, NEW t \in Nat, t <= LatestOf(l), Recorded(l, S, t, n)
      PROVE  Recorded(m, S, t, n)
  <2> SUFFICES ASSUME NEW k \in 1..Len(m), k > n, m[k].at <= t
               PROVE  m[k].comic \in S
    BY DEF Recorded
  <2>1. k # Len(l) + 1
    BY <1>1, <1>2, <1>5
  <2>2. k \in 1..Len(l)
    BY <1>1, <2>1
  <2>3. QED
    BY <1>1, <1>5, <2>2 DEF Recorded
<1>6. QED
  BY <1>1, <1>2, <1>4, <1>5 DEF m

LEMMA RecordedWidens ==
  ASSUME NEW l, NEW S, NEW T, S \subseteq T, NEW t, NEW n, Recorded(l, S, t, n)
  PROVE  Recorded(l, T, t, n)
BY DEF Recorded

LEMMA PollWidens ==
  ASSUME NEW l, NEW S, NEW T, S \subseteq T, NEW r, PollSafe(l, S, r)
  PROVE  PollSafe(l, T, r)
BY RecordedWidens DEF PollSafe

LEMMA NothingAtZero ==
  ASSUME LogOK, NEW S, NEW n
  PROVE  Recorded(log, S, 0, n)
BY EntryType DEF Recorded

(* Each poll step keeps what the poll knows, and the cursor it may write.     *)
LEMMA PollStepSafe ==
  ASSUME IntakeInv, TypeOK', NEW p \in Pollers, PollStep(p) \/ PollFails(p)
  PROVE  /\ UNCHANGED log /\ Watched \subseteq Watched' /\ WatchInv'
         /\ \E r : poll' = [poll EXCEPT ![p] = r] /\ PollSafe(log, Watched', r)
         /\ LogSafe(log, Watched', cursor')
<1>1. UNCHANGED log
  BY DEF PollStep, FetchLog, ReadCursor, TakeEntry, SaveTimer, PollEnds, PollFails, PollKeeps
<1>2. /\ TypeOK /\ LogOK /\ poll[p] \in PollType /\ poll[p].next <= Len(log) /\ cursor \in Nat
      /\ poll[p].pc = "timer" => poll[p].next \in 1..Len(log)
      /\ Rises(log) /\ LatestOf(log) \in Nat /\ Len(log) \in Nat
      /\ LogSafe(log, Watched, cursor) /\ PollSafe(log, Watched, poll[p])
  BY LatestType DEF IntakeInv, LogSafe, TypeOK, PollOK, PollType, PollAt, LogOK, LatestOf, Latest
<1>3. /\ Watched \subseteq Watched' /\ WatchInv'
      /\ SaveTimer(p) => poll[p].comic \in Watched'
      /\ TakeEntry(p) => log[poll[p].next].comic \in Watched' \/ poll'[p].pc = "timer"
  <2>1. PollsHoldRows
    BY DEF IntakeInv, PollSafe, PollsHoldRows
  <2>2. poll[p].pc = "timer" => Logged(poll[p].comic)
    BY <1>2 DEF PollSafe, Logged
  <2>3. QED
    BY <2>1, <2>2, PollStepWatch DEF IntakeInv
<1>4. LogSafe(log, Watched', cursor) /\ PollSafe(log, Watched', poll[p])
  BY <1>2, <1>3, PollWidens, RecordedWidens DEF LogSafe
<1>5. PollSafe(log, Watched', Idle)
  BY <1>2, NothingAtZero DEF PollSafe, Idle
<1> USE DEF PollAt
<1>6. CASE FetchLog(p)
  <2> DEFINE r == [poll[p] EXCEPT !.pc = "cursor", !.next = Len(log)]
  <2>1. r.last = poll[p].last /\ r.newest = poll[p].newest /\ r.pc = "cursor"
    BY <1>2 DEF PollType
  <2>2. poll' = [poll EXCEPT ![p] = r] /\ cursor' = cursor /\ poll[p].pc = "idle"
    BY <1>6 DEF FetchLog
  <2> HIDE DEF r
  <2>3. QED
    BY <1>1, <1>3, <1>4, <2>1, <2>2 DEF PollSafe
<1>7. CASE ReadCursor(p)
  <2> DEFINE r == [poll[p] EXCEPT !.pc = "entry", !.last = cursor, !.newest = cursor,
                                  !.cached = TRUE]
             s == [poll[p] EXCEPT !.pc = "entry"]
  <2>1. /\ r.last = cursor /\ r.newest = cursor /\ r.pc = "entry" /\ r.next \in Nat
        /\ s.last = poll[p].last /\ s.newest = poll[p].newest /\ s.pc = "entry"
    BY <1>2 DEF PollType
  <2>2. /\ poll' = [poll EXCEPT ![p] = r] \/ poll' = [poll EXCEPT ![p] = s]
        /\ cursor' = cursor /\ poll[p].pc = "cursor"
    BY <1>7 DEF ReadCursor
  <2> HIDE DEF r, s
  <2>3. PollSafe(log, Watched', r)
    BY <1>4, <2>1 DEF PollSafe, LogSafe, Recorded
  <2>4. PollSafe(log, Watched', s)
    BY <1>2, <1>4, <2>1, <2>2, NothingAtZero DEF PollSafe
  <2>5. QED
    BY <1>1, <1>3, <1>4, <2>2, <2>3, <2>4
<1>8. CASE TakeEntry(p)
  <2> DEFINE next == poll[p].next
             e == log[next]
             row == IF Exists(e.comic) THEN item[e.comic] ELSE NewRow
             newest == IF e.at > poll[p].newest THEN e.at ELSE poll[p].newest
             r == [poll[p] EXCEPT !.pc = "timer", !.newest = newest, !.comic = e.comic,
                                  !.row = row]
             n == next - 1
             s == [poll[p] EXCEPT !.newest = newest, !.next = n]
  <2>1. next \in 1..Len(log) /\ poll[p].pc = "entry"
    BY <1>2, <1>8 DEF TakeEntry, MoreEntries, PollType
  <2>2. /\ e.comic \in Comics /\ e.at \in Nat /\ e.at <= LatestOf(log)
        /\ poll[p].newest \in Nat
    BY <1>2, <2>1, EntryType, LatestIsLast DEF LogOK, PollType
  <2>3. row.status # "none"
    BY NewRowType DEF Exists
  <2>4. /\ poll' = [poll EXCEPT ![p] = r] \/ poll' = [poll EXCEPT ![p] = s]
        /\ cursor' = cursor
    BY <1>8 DEF TakeEntry
  <2>5. newest \in Nat /\ newest <= LatestOf(log)
    BY <1>2, <2>2 DEF PollSafe
  <2>6. Recorded(log, Watched', newest, next)
    <3> SUFFICES ASSUME NEW k \in 1..Len(log), k > next, log[k].at <= newest
                 PROVE  log[k].comic \in Watched'
      BY DEF Recorded
    <3>1. e.at < log[k].at /\ log[k].at \in Nat
      BY <1>2, <2>1, EntryType DEF Rises
    <3>2. log[k].at <= poll[p].newest
      BY <2>2, <3>1
    <3>3. QED
      BY <1>4, <2>1, <3>2 DEF PollSafe, Recorded
  <2> HIDE DEF row, newest
  <2>7. /\ r.last = poll[p].last /\ r.newest = newest /\ r.pc = "timer"
        /\ r.next = poll[p].next /\ r.row = row /\ r.comic = e.comic
        /\ s.last = poll[p].last /\ s.newest = newest /\ s.pc = "entry" /\ s.next = n
    BY <1>2, <2>1 DEF PollType
  <2> HIDE DEF r, s
  <2>8. PollSafe(log, Watched', r)
    BY <1>4, <2>3, <2>5, <2>6, <2>7 DEF PollSafe
  <2>9. CASE poll' = [poll EXCEPT ![p] = s]
    <3>1. poll'[p].pc = "entry"
      BY <2>7, <2>9, <1>2 DEF IntakeInv, TypeOK, PollOK
    <3>2. e.comic \in Watched'
      BY <1>3, <1>8, <3>1
    <3>3. Recorded(log, Watched', newest, n)
      BY <2>1, <2>6, <3>2 DEF Recorded
    <3>4. PollSafe(log, Watched', s)
      BY <1>4, <2>5, <2>7, <3>3 DEF PollSafe
    <3>5. QED
      BY <1>1, <1>3, <1>4, <2>4, <2>9, <3>4
  <2>10. QED
    BY <1>1, <1>3, <1>4, <2>4, <2>8, <2>9
<1>9. CASE SaveTimer(p)
  <2> DEFINE n == poll[p].next - 1
             r == [poll[p] EXCEPT !.pc = "entry", !.next = n, !.comic = "none",
                                  !.row = NoRow]
  <2>1. poll' = [poll EXCEPT ![p] = r] /\ cursor' = cursor /\ poll[p].pc = "timer"
    BY <1>9 DEF SaveTimer
  <2>2. Recorded(log, Watched', poll[p].newest, n)
    <3>1. poll[p].comic \in Watched' /\ poll[p].comic = log[poll[p].next].comic
      BY <1>2, <1>3, <1>9, <2>1 DEF PollSafe
    <3>2. QED
      BY <1>2, <1>4, <2>1, <3>1 DEF PollSafe, Recorded
  <2> HIDE DEF n
  <2>3. /\ r.last = poll[p].last /\ r.newest = poll[p].newest /\ r.pc = "entry"
        /\ r.next = n
    BY <1>2 DEF PollType
  <2> HIDE DEF r
  <2>4. QED
    BY <1>1, <1>3, <1>4, <2>1, <2>2, <2>3 DEF PollSafe
<1>10. CASE PollEnds(p)
  <2> DEFINE r == poll[p]
  <2>1. /\ r.pc = "entry" /\ cursor' \in {cursor, r.newest} /\ poll' = [poll EXCEPT ![p] = Idle]
        /\ ~(r.next > 0 /\ log[r.next].at > r.last)
    BY <1>10 DEF PollEnds, MoreEntries
  <2>2. /\ Recorded(log, Watched', r.newest, r.next) /\ Recorded(log, Watched', r.last, 0)
        /\ r.newest <= LatestOf(log) /\ r.next \in Nat /\ r.last \in Nat
    BY <1>2, <1>4, <2>1 DEF PollSafe, PollType
  <2>3. Recorded(log, Watched', r.newest, 0)
    <3> SUFFICES ASSUME NEW k \in 1..Len(log), log[k].at <= r.newest
                 PROVE  log[k].comic \in Watched'
      BY DEF Recorded
    <3>1. CASE k > r.next
      BY <2>2, <3>1 DEF Recorded
    <3>2. CASE k <= r.next
      <4>1. r.next \in 1..Len(log) /\ log[r.next].at <= r.last
        BY <1>2, <2>1, <2>2, <3>2, EntryType
      <4>2. log[k].at <= r.last
        BY <1>2, <2>2, <3>2, <4>1, EntryType DEF Rises
      <4>3. QED
        BY <2>2, <4>2 DEF Recorded
    <3>3. QED
      BY <2>2, <3>1, <3>2
  <2>4. LogSafe(log, Watched', cursor')
    BY <1>4, <2>1, <2>2, <2>3 DEF LogSafe
  <2>5. QED
    BY <1>1, <1>3, <1>5, <2>1, <2>4
<1>11. CASE PollFails(p)
  BY <1>1, <1>3, <1>4, <1>5, <1>11 DEF PollFails
<1>12. QED
  BY <1>6, <1>7, <1>8, <1>9, <1>10, <1>11 DEF PollStep

LEMMA Start ==
  ASSUME Init
  PROVE  IntakeInv
<1>1. TypeOK
  BY InitType
<1>2. Len(log) = 0 /\ log = <<>> /\ cursor = 0
  BY DEF Init
<1>3. PollSafe(log, Watched, Idle)
  BY <1>2 DEF PollSafe, Idle, Recorded, LatestOf
<1>4. LogSafe(log, Watched, cursor)
  BY <1>2 DEF LogSafe, Rises, Recorded, LatestOf
<1>5. WatchInv
  BY DEF Init, WatchInv, Holders, FromLog, Exists, NoRow, NoCheck
<1>6. QED
  BY <1>1, <1>3, <1>4, <1>5 DEF Init, IntakeInv

LEMMA Step ==
  ASSUME LogClockRuns, IntakeInv, [Next]_vars
  PROVE  IntakeInv'
<1>1. TypeOK /\ TypeOK' /\ LogOK /\ WatchInv
  BY StepType DEF IntakeInv, TypeOK
<1>2. ASSUME UNCHANGED <<log, cursor, poll>>, Watched \subseteq Watched', WatchInv'
      PROVE  IntakeInv'
  <2>1. \A p \in Pollers : PollSafe(log, Watched', poll[p])
    BY <1>2, PollWidens DEF IntakeInv
  <2>2. Recorded(log, Watched', cursor, 0)
    BY <1>2, RecordedWidens DEF IntakeInv, LogSafe
  <2>3. QED
    BY <1>1, <1>2, <2>1, <2>2 DEF IntakeInv, LogSafe
<1>3. CASE UNCHANGED vars
  <2>1. UNCHANGED <<log, cursor, poll>>
    BY <1>3 DEF vars, pollVars
  <2>2. Watched' = Watched
    BY <1>3 DEF vars, taskVars, Watched, Exists, Grabbed, Tended, HasTask
  <2>3. WatchInv'
    BY <1>1, <1>3 DEF vars, pollVars, taskVars, WatchInv, Holders, FromLog, Exists, Logged,
       Free, Grabbed, Tended, HasTask
  <2>4. QED
    BY <1>2, <2>1, <2>2, <2>3
<1>4. ASSUME NEW c \in Comics, Grab(c) PROVE IntakeInv'
  <2>1. PICK d \in ClockSteps :
          /\ [comic |-> c, at |-> Latest + d] \in Entry
          /\ log' = Append(log, [comic |-> c, at |-> Latest + d])
    BY <1>1, <1>4, GrabLog
  <2>2. Latest + d > LatestOf(log) /\ LatestOf(log) \in Nat /\ log \in Seq(Entry)
    BY <1>1, LatestType DEF LogClockRuns, Latest, LatestOf, LogOK
  <2>3. /\ Rises(log') /\ LatestOf(log) <= LatestOf(log')
        /\ \A k \in 1..Len(log) : log'[k] = log[k]
        /\ \A n : \A t \in Nat : t <= LatestOf(log) /\ Recorded(log, Watched, t, n)
                                   => Recorded(log', Watched, t, n)
    BY <2>1, <2>2, RecordedGrows DEF IntakeInv, LogSafe
  <2>4. LatestOf(log') \in Nat
    <3>1. log' \in Seq(Entry)
      BY <1>1 DEF TypeOK, LogOK
    <3>2. QED
      BY <3>1, LatestOfType
  <2>5. LogSafe(log', Watched, cursor)
    BY <1>1, <2>2, <2>3, <2>4 DEF IntakeInv, LogSafe, LogOK
  <2>6. ASSUME NEW p \in Pollers PROVE PollSafe(log', Watched, poll[p])
    <3>1. /\ poll[p].last \in Nat /\ poll[p].newest \in Nat
          /\ poll[p].pc = "timer" => poll[p].next \in 1..Len(log)
      BY <1>1 DEF TypeOK, PollOK, PollType, PollAt, LogOK
    <3>2. QED
      BY <2>2, <2>3, <2>4, <3>1 DEF IntakeInv, PollSafe
  <2>7. Watched' = Watched /\ WatchInv'
    BY <1>1, <1>4, GrabWatch
  <2>8. QED
    BY <1>1, <1>4, <2>5, <2>6, <2>7 DEF Grab, IntakeInv
<1>5. ASSUME NEW c \in Comics, ComicStep(c) PROVE IntakeInv'
  BY <1>1, <1>2, <1>5, ComicStepFrame, ComicStepWatch
<1>6. CASE CheckStep
  BY <1>1, <1>2, <1>6, CheckStepFrame, CheckStepWatch
<1>7. ASSUME NEW p \in Pollers, PollStep(p) \/ PollFails(p) PROVE IntakeInv'
  <2>1. /\ UNCHANGED log /\ Watched \subseteq Watched' /\ WatchInv'
        /\ LogSafe(log, Watched', cursor')
    BY <1>1, <1>7, PollStepSafe
  <2>2. PICK r : poll' = [poll EXCEPT ![p] = r] /\ PollSafe(log, Watched', r)
    BY <1>1, <1>7, PollStepSafe
  <2>3. ASSUME NEW q \in Pollers PROVE PollSafe(log, Watched', poll'[q])
    <3>1. PollSafe(log, Watched', poll[q])
      BY <2>1, PollWidens DEF IntakeInv
    <3>2. poll'[q] = IF q = p THEN r ELSE poll[q]
      BY <1>1, <2>2 DEF TypeOK, PollOK
    <3>3. QED
      BY <2>2, <3>1, <3>2
  <2>4. QED
    BY <1>1, <2>1, <2>3 DEF IntakeInv
<1>8. CASE Flush
  <2>1. UNCHANGED <<log, poll>> /\ cursor' = 0
    BY <1>8 DEF Flush
  <2>2. WatchInv'
    BY <1>1, <1>8, FlushWatch
  <2>3. ASSUME NEW p \in Pollers PROVE PollSafe(log, Watched', poll[p])
    <3>1. CASE poll[p].pc \in {"entry", "timer"}
      BY <1>1, <1>8, <3>1, FlushWatch, PollWidens DEF IntakeInv
    <3>2. CASE poll[p].pc \in {"idle", "cursor"}
      BY <1>1, <3>2, NothingAtZero DEF IntakeInv, PollSafe
    <3>3. QED
      BY <1>1, <3>1, <3>2 DEF TypeOK, PollOK, PollType
  <2>4. LogSafe(log, Watched', 0)
    BY <1>1, NothingAtZero, LatestType DEF IntakeInv, LogSafe, LatestOf, Latest
  <2>5. QED
    BY <1>1, <2>1, <2>2, <2>3, <2>4 DEF IntakeInv
<1>9. QED
  BY <1>3, <1>4, <1>5, <1>6, <1>7, <1>8, NextCases

LEMMA Invariant ==
  ASSUME LogClockRuns
  PROVE  Spec => []IntakeInv
<1>1. IntakeInv /\ [Next]_vars => IntakeInv'
  BY Step
<1>2. QED
  BY <1>1, Start, PTL DEF Spec

(* With growing timestamps, overlapping polls, polls that fail half-way,      *)
(* Redis errors and flushes never leave the cursor past an entry without row. *)
THEOREM CursorIsSafe ==
  ASSUME LogClockRuns
  PROVE  Spec => []CursorNeverSkips
<1>1. IntakeInv => CursorNeverSkips
  <2> SUFFICES ASSUME IntakeInv, NEW k \in 1..Len(log), log[k].at <= cursor
               PROVE  Exists(log[k].comic)
    BY DEF CursorNeverSkips
  <2>1. log[k].comic \in Watched
    BY DEF IntakeInv, LogSafe, Recorded
  <2>2. QED
    BY <2>1 DEF Watched
<1>2. QED
  BY <1>1, Invariant, PTL

(* And no comic that AirDC++ fetches stays Grabbed with nothing to wake it:   *)
(* what the cursor has passed is watched, what it has not is read again.      *)
THEOREM NoGrabIsForgotten ==
  ASSUME LogClockRuns
  PROVE  Spec => []NeverForgotten
<1>1. IntakeInv => NeverForgotten
  <2> SUFFICES ASSUME IntakeInv, NEW c \in AirDcpp, Grabbed(c)
               PROVE  item[c].timer # "none" \/ HasTask(c) \/ Reread(c) \/ c \in excused
    BY DEF NeverForgotten
  <2>1. PICK k \in 1..Len(log) : log[k].comic = c
    BY IntakeAssumption DEF IntakeInv, WatchInv, FromLog, Grabbed, Exists, Logged
  <2>2. CASE log[k].at > cursor
    BY <2>1, <2>2 DEF Reread
  <2>3. CASE log[k].at <= cursor
    <3>1. c \in Watched
      BY <2>1, <2>3 DEF IntakeInv, LogSafe, Recorded, TypeOK, LogOK
    <3>2. QED
      BY <3>1 DEF Watched, Tended
  <2>4. QED
    BY <2>1, <2>2, <2>3, EntryType DEF IntakeInv, TypeOK, LogOK
<1>2. QED
  BY <1>1, Invariant, PTL
=============================================================================
