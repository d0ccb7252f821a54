------------------------ MODULE BinderyImportProofs ------------------------
(***************************************************************************)
(* Proofs about the manual import, for any number of rows, retries, runs   *)
(* and faults: as long as Bindery answers and leaves its failed rows alone *)
(* and one caller at a time is in post_process, a book is never imported   *)
(* twice at once, and the row of the download is deleted only in favour of *)
(* a manual import.                                                        *)
(***************************************************************************)
EXTENDS BinderyImport, TLAPS

ProcType ==
  [pc : {"idle", "queued", "locate", "lookup", "inflight", "post", "recheck", "delete", "mark"},
   found : BOOLEAN, attempt : Nat]
FlowType == rows \in [Rows -> RowStatus] /\ proc \in [Callers -> ProcType] /\ retry \in Nat

(* The strengthening.  One caller at a time; nothing is active while it is   *)
(* about to ask for an import; the row it found has not come back to life.   *)
OneCaller == excused = {} => At("run", "idle") \/ At("retry", "idle")
NothingActive ==
  \A p \in Callers : At(p, "post") /\ excused = {} => \A r \in Rows : rows[r] \notin Active
Resumed == excused \intersect {"resumed", "pruned"} # {}
FoundFailed ==
  \A p \in Callers :
    At(p, "inflight") /\ proc[p].found => rows["download"] \notin Active \/ Resumed
Replaced ==
  \A p \in Callers :
    At(p, "recheck") \/ At(p, "delete") => (\E r \in Manual : Listed(r)) \/ Resumed

ImportInv ==
  FlowType /\ OneCaller /\ NothingActive /\ NoDuplicateImport /\ FoundFailed /\ Replaced
-----------------------------------------------------------------------------
LEMMA IdleType == /\ Idle \in ProcType /\ Idle.pc = "idle"
                  /\ [Idle EXCEPT !.pc = "mark"] \in ProcType
                  /\ [Idle EXCEPT !.pc = "mark"].pc = "mark"
BY DEF Idle, ProcType

(* Setting the place of a caller, and where a step may leave it.             *)
LEMMA GotoType ==
  ASSUME FlowType, NEW p \in Callers,
         NEW pc \in {"queued", "locate", "lookup", "inflight", "post", "recheck", "delete"},
         Goto(p, pc)
  PROVE  /\ proc' \in [Callers -> ProcType]
         /\ proc'[p].pc = pc /\ proc'[p].found = proc[p].found
         /\ \A q \in Callers : q # p => proc'[q] = proc[q]
<1>1. proc[p] \in ProcType /\ [proc[p] EXCEPT !.pc = pc] \in ProcType
  BY DEF FlowType, ProcType
<1>2. /\ [proc[p] EXCEPT !.pc = pc].pc = pc
      /\ [proc[p] EXCEPT !.pc = pc].found = proc[p].found
  BY <1>1 DEF ProcType
<1>3. proc' = [proc EXCEPT ![p] = [proc[p] EXCEPT !.pc = pc]]
  BY DEF Goto
<1>4. QED
  BY <1>1, <1>2, <1>3 DEF FlowType

LEMMA EndsType ==
  ASSUME FlowType, NEW p \in Callers,
         Fails(p) \/ Succeeds(p)
  PROVE  /\ proc' \in [Callers -> ProcType]
         /\ proc'[p].pc \in {"idle", "mark"}
         /\ \A q \in Callers : q # p => proc'[q] = proc[q]
BY IdleType DEF FlowType, Fails, Succeeds

(* Every step of a caller p leaves the other caller where it is, and does to *)
(* p, the rows and the excuses one of these things.                          *)
OthersStay(p) == \A q \in Callers : q # p => proc'[q] = proc[q]

LEMMA CallerStep ==
  ASSUME ImportInv, NEW p \in Callers, ProcStep(p) \/ Dies(p)
  PROVE  /\ FlowType' /\ OthersStay(p) /\ ~At(p, "idle")
         /\ excused \subseteq excused'
         /\ \/ UNCHANGED rows
            \/ /\ At(p, "post") /\ proc'[p].pc \in {"idle", "mark", "recheck"}
               /\ \E r \in Manual : rows[r] = "none" /\ SetRow(r, "importing")
            \/ /\ At(p, "delete") /\ proc'[p].pc \in {"idle", "mark"}
               /\ SetRow("download", "none")
         /\ \/ proc'[p].pc \in {"idle", "mark", "queued", "locate", "lookup"}
            \/ /\ proc'[p].pc = "inflight" /\ UNCHANGED rows
               /\ proc'[p].found => rows["download"] \in Recoverable
            \/ /\ proc'[p].pc = "post" /\ UNCHANGED rows
               /\ ~BookInFlight \/ excused' # {}
            \/ /\ proc'[p].pc = "recheck" /\ At(p, "inflight") /\ proc[p].found
               /\ UNCHANGED rows /\ BookInFlight
            \/ /\ proc'[p].pc = "recheck"
               /\ \E r \in Manual : rows[r] = "none" /\ SetRow(r, "importing")
            \/ proc'[p].pc = "delete" /\ At(p, "recheck") /\ UNCHANGED rows
<1>1. FlowType /\ proc[p] \in ProcType /\ p \in {"run", "retry"}
  BY DEF ImportInv, FlowType, Callers
<1>2. \A n \in Nat : n + 1 \in Nat
  OBVIOUS
<1>3. CASE Locate(p)
  <2>1. CASE Fails(p)
    <3>1. retry' \in Nat
      BY <1>1, <2>1 DEF Fails, FlowType, ProcType
    <3>2. QED
      BY <1>1, <1>3, <2>1, <3>1, EndsType DEF Locate, At, FlowType, OthersStay
  <2>2. CASE Goto(p, "lookup") /\ UNCHANGED retry
    BY <1>1, <1>3, <2>2, GotoType DEF Locate, At, FlowType, OthersStay
  <2>3. QED
    BY <1>3, <2>1, <2>2 DEF Locate
<1>4. CASE Lookup(p)
  <2> DEFINE r(f) == [proc[p] EXCEPT !.pc = "inflight", !.found = f]
  <2>1. \A f \in BOOLEAN : r(f) \in ProcType /\ r(f).pc = "inflight" /\ r(f).found = f
    BY <1>1 DEF ProcType
  <2>2. \/ Succeeds(p)
        \/ \E f \in BOOLEAN : /\ proc' = [proc EXCEPT ![p] = r(f)]
                              /\ f => rows["download"] \in Recoverable
    BY <1>4 DEF Lookup
  <2> HIDE DEF r
  <2>3. UNCHANGED <<rows, retry, excused>> /\ ~At(p, "idle")
    BY <1>4 DEF Lookup, LookKeeps, At
  <2>4. CASE Succeeds(p)
    BY <1>1, <2>3, <2>4, EndsType DEF FlowType, OthersStay
  <2>5. CASE \E f \in BOOLEAN : /\ proc' = [proc EXCEPT ![p] = r(f)]
                                /\ f => rows["download"] \in Recoverable
    BY <1>1, <2>1, <2>3, <2>5 DEF FlowType, OthersStay
  <2>6. QED
    BY <2>2, <2>4, <2>5
<1>5. CASE InFlight(p)
  <2>1. UNCHANGED <<rows, retry>> /\ ~At(p, "idle") /\ At(p, "inflight")
    BY <1>5 DEF InFlight, LookKeeps, At
  <2>2. \/ Goto(p, "post") /\ ~BookInFlight /\ UNCHANGED excused
        \/ Goto(p, "post") /\ excused' = excused \union {"unreachable"}
        \/ Goto(p, "recheck") /\ BookInFlight /\ proc[p].found /\ UNCHANGED excused
        \/ Succeeds(p) /\ UNCHANGED excused
    BY <1>5 DEF InFlight, Excuse
  <2>3. QED
    BY <1>1, <2>1, <2>2, GotoType, EndsType DEF FlowType, OthersStay
<1>6. CASE ManualImport(p)
  <2>1. UNCHANGED excused /\ ~At(p, "idle") /\ At(p, "post")
    BY <1>6 DEF ManualImport, At
  <2>2. \/ /\ \E r \in Manual : rows[r] = "none" /\ SetRow(r, "importing")
           /\ Goto(p, "recheck") \/ Succeeds(p)
           /\ UNCHANGED retry
        \/ /\ UNCHANGED rows \/ \E r \in Manual : rows[r] = "none" /\ SetRow(r, "importing")
           /\ Fails(p)
    BY <1>6 DEF ManualImport, NewRow, Posted
  <2>3. retry' \in Nat
    BY <1>1, <2>2 DEF Fails, FlowType, ProcType
  <2>4. rows' \in [Rows -> RowStatus]
    BY <1>1, <2>2 DEF FlowType, SetRow, RowStatus, Active
  <2>5. QED
    BY <1>1, <2>1, <2>2, <2>3, <2>4, GotoType, EndsType DEF FlowType, OthersStay
<1>7. CASE Recheck(p)
  <2>1. UNCHANGED <<rows, retry, excused>> /\ ~At(p, "idle") /\ At(p, "recheck")
    BY <1>7 DEF Recheck, LookKeeps, At
  <2>2. Goto(p, "delete") \/ Succeeds(p)
    BY <1>7 DEF Recheck
  <2>3. QED
    BY <1>1, <2>1, <2>2, GotoType, EndsType DEF FlowType, OthersStay
<1>8. CASE Delete(p)
  <2>1. UNCHANGED <<retry, excused>> /\ ~At(p, "idle") /\ At(p, "delete") /\ Succeeds(p)
    BY <1>8 DEF Delete, At
  <2>2. UNCHANGED rows \/ SetRow("download", "none")
    BY <1>8 DEF Delete
  <2>3. rows' \in [Rows -> RowStatus]
    BY <1>1, <2>2 DEF FlowType, SetRow, RowStatus
  <2>4. QED
    BY <1>1, <2>1, <2>2, <2>3, EndsType DEF FlowType, OthersStay
<1>9. CASE Dies(p)
  <2> DEFINE r == [pc |-> IF p = "run" THEN "queued" ELSE "locate",
                   found |-> FALSE, attempt |-> proc[p].attempt]
  <2>1. r \in ProcType /\ r.pc \in {"queued", "locate"}
    BY <1>1 DEF ProcType
  <2>2. proc' = [proc EXCEPT ![p] = Idle] \/ proc' = [proc EXCEPT ![p] = r]
    BY <1>9 DEF Dies
  <2> HIDE DEF r
  <2>3. QED
    BY <1>1, <1>9, <2>1, <2>2, IdleType DEF Dies, At, FlowType, OthersStay
<1>10. QED
  BY <1>3, <1>4, <1>5, <1>6, <1>7, <1>8, <1>9 DEF ProcStep

(* So they keep the invariant.                                               *)
LEMMA CallerStepInv ==
  ASSUME ImportInv, NEW p \in Callers, ProcStep(p) \/ Dies(p)
  PROVE  ImportInv'
<1> USE DEF At
<1>1. FlowType /\ FlowType' /\ p \in {"run", "retry"} /\ OthersStay(p)
  BY CallerStep DEF ImportInv, Callers
<1>2. OneCaller'
  <2>1. \A q \in Callers : q # p => proc'[q].pc = proc[q].pc
    BY <1>1 DEF OthersStay
  <2>2. QED
    BY <1>1, <2>1, CallerStep DEF ImportInv, OneCaller, Callers
<1>3. \A q \in Callers : q # p /\ excused' = {} => proc'[q].pc = "idle"
  BY <1>1, CallerStep DEF ImportInv, OneCaller, OthersStay, Callers
<1>4. NothingActive'
  <2> SUFFICES ASSUME NEW q \in Callers, proc'[q].pc = "post", excused' = {},
                      NEW r \in Rows
               PROVE  rows'[r] \notin Active
    BY DEF NothingActive
  <2>1. q = p
    BY <1>3
  <2>2. UNCHANGED rows /\ ~BookInFlight
    BY <2>1, CallerStep
  <2>3. QED
    BY <2>2 DEF BookInFlight
<1>5. NoDuplicateImport'
  <2> SUFFICES ASSUME excused' = {}, NEW r \in Rows, NEW s \in Rows,
                      rows'[r] \in Active, rows'[s] \in Active
               PROVE  r = s
    BY DEF NoDuplicateImport
  <2>1. excused = {}
    BY CallerStep
  <2>2. CASE UNCHANGED rows
    BY <2>1, <2>2 DEF ImportInv, NoDuplicateImport
  <2>3. CASE SetRow("download", "none")
    <3>1. \A t \in Rows : rows'[t] \in Active => rows[t] \in Active
      BY <1>1, <2>3 DEF FlowType, SetRow, Active
    <3>2. QED
      BY <2>1, <3>1 DEF ImportInv, NoDuplicateImport
  <2>4. CASE At(p, "post") /\ \E m \in Manual : SetRow(m, "importing")
    <3>1. \A t \in Rows : rows[t] \notin Active
      BY <2>1, <2>4 DEF ImportInv, NothingActive
    <3>2. PICK m \in Manual : rows' = [rows EXCEPT ![m] = "importing"]
      BY <2>4 DEF SetRow
    <3>3. \A t \in Rows : t # m => rows'[t] = rows[t]
      BY <1>1, <3>2 DEF FlowType
    <3>4. QED
      BY <3>1, <3>3
  <2>5. QED
    BY <2>2, <2>3, <2>4, CallerStep
<1>6. FoundFailed'
  <2> SUFFICES ASSUME NEW q \in Callers, proc'[q].pc = "inflight", proc'[q].found
               PROVE  rows'["download"] \notin Active \/ Resumed'
    BY DEF FoundFailed
  <2>1. Resumed => Resumed'
    BY CallerStep DEF Resumed
  <2>2. CASE q = p
    BY <2>2, CallerStep DEF Recoverable, Active
  <2>3. CASE q # p
    <3>1. rows["download"] \notin Active \/ Resumed
      BY <1>1, <2>3 DEF ImportInv, FoundFailed, OthersStay
    <3>2. rows'["download"] = rows["download"] \/ rows'["download"] = "none"
      <4>1. "download" \in Rows /\ \A m \in Manual : m # "download"
        BY BinderyAssumption DEF Rows
      <4>2. \/ UNCHANGED rows
            \/ \E m \in Manual : rows' = [rows EXCEPT ![m] = "importing"]
            \/ rows' = [rows EXCEPT !["download"] = "none"]
        BY CallerStep DEF SetRow
      <4>3. QED
        BY <1>1, <4>1, <4>2 DEF FlowType
    <3>3. QED
      BY <2>1, <3>1, <3>2 DEF Active
  <2>4. QED
    BY <2>2, <2>3
<1>7. Replaced'
  <2> SUFFICES ASSUME NEW q \in Callers, proc'[q].pc \in {"recheck", "delete"}
               PROVE  (\E m \in Manual : rows'[m] # "none") \/ Resumed'
    BY DEF Replaced, Listed
  <2>1. Resumed => Resumed'
    BY CallerStep DEF Resumed
  <2>2. /\ (\E m \in Manual : rows[m] # "none") => \E m \in Manual : rows'[m] # "none"
        /\ (\E m \in Manual : SetRow(m, "importing")) => \E m \in Manual : rows'[m] # "none"
    <3>1. Manual \subseteq Rows /\ "download" \notin Manual
      BY BinderyAssumption DEF Rows
    <3>2. \/ UNCHANGED rows
          \/ \E m \in Manual : rows' = [rows EXCEPT ![m] = "importing"]
          \/ rows' = [rows EXCEPT !["download"] = "none"]
      BY CallerStep DEF SetRow
    <3>3. QED
      BY <1>1, <3>1, <3>2 DEF FlowType, SetRow
  <2>3. CASE q # p
    BY <1>1, <2>1, <2>2, <2>3 DEF ImportInv, Replaced, Listed, OthersStay
  <2>4. CASE q = p /\ At(p, "recheck") /\ proc'[p].pc = "delete"
    BY <2>1, <2>2, <2>4 DEF ImportInv, Replaced, Listed
  <2>5. CASE q = p /\ \E m \in Manual : SetRow(m, "importing")
    BY <2>2, <2>5
  <2>6. CASE q = p /\ At(p, "inflight") /\ proc[p].found /\ BookInFlight
    <3>1. rows["download"] \notin Active \/ Resumed
      BY <2>6 DEF ImportInv, FoundFailed
    <3>2. (\E m \in Manual : rows[m] # "none") \/ Resumed
      BY <2>6, <3>1 DEF BookInFlight, Rows, Active
    <3>3. QED
      BY <2>1, <2>2, <3>2
  <2>7. QED
    BY <2>3, <2>4, <2>5, <2>6, CallerStep
<1>8. QED
  BY <1>1, <1>2, <1>4, <1>5, <1>6, <1>7 DEF ImportInv

(* Bindery ends an import: a row that was active is not, or still is.        *)
LEMMA RowEndsInv ==
  ASSUME ImportInv, UNCHANGED <<proc, retry, excused>>,
         NEW r \in Rows, rows[r] \in Active,
         NEW s \in Active \union Recoverable \union {"failed"}, SetRow(r, s)
  PROVE  ImportInv'
<1> USE DEF At
<1>1. FlowType /\ rows' \in [Rows -> RowStatus] /\ rows'[r] = s /\ s # "none"
      /\ \A t \in Rows : t # r => rows'[t] = rows[t]
  BY DEF ImportInv, FlowType, SetRow, RowStatus, Active, Recoverable
<1>2. FlowType' /\ OneCaller' /\ (Resumed => Resumed')
  BY <1>1 DEF ImportInv, FlowType, OneCaller, Resumed
<1>3. NothingActive'
  BY DEF ImportInv, NothingActive
<1>4. NoDuplicateImport'
  BY <1>1 DEF ImportInv, NoDuplicateImport
<1>5. FoundFailed'
  <2>1. "download" \in Rows
    BY DEF Rows
  <2>2. rows["download"] \notin Active => rows'["download"] \notin Active
    BY <1>1, <2>1
  <2>3. QED
    BY <1>2, <2>2 DEF ImportInv, FoundFailed
<1>6. Replaced'
  <2>1. \A m \in Manual : rows[m] # "none" => rows'[m] # "none"
    BY <1>1 DEF Rows
  <2>2. QED
    BY <1>2, <2>1 DEF ImportInv, Replaced, Listed
<1>7. QED
  BY <1>2, <1>3, <1>4, <1>5, <1>6 DEF ImportInv

(* Bindery resumes or drops a row: that is an excuse.                        *)
LEMMA RowChangesInv ==
  ASSUME ImportInv, UNCHANGED <<proc, retry>>, rows' \in [Rows -> RowStatus],
         NEW kind \in {"resumed", "pruned"}, Excuse(kind)
  PROVE  ImportInv'
<1>1. kind \in excused' /\ excused' # {} /\ Resumed'
  BY DEF Excuse, Resumed
<1>2. FlowType'
  BY DEF ImportInv, FlowType
<1>3. QED
  BY <1>1, <1>2 DEF ImportInv, OneCaller, NothingActive, NoDuplicateImport, FoundFailed, Replaced

(* A caller starts, is transferring or is done; it holds no row.             *)
LEMMA CallerSetsOutInv ==
  ASSUME ImportInv, UNCHANGED rows, NEW p \in Callers, proc' \in [Callers -> ProcType],
         proc'[p].pc \in {"idle", "queued", "locate"}, OthersStay(p),
         retry' \in Nat, excused \subseteq excused', OneCaller'
  PROVE  ImportInv'
<1> USE DEF At
<1>1. FlowType' /\ (Resumed => Resumed') /\ (excused' = {} => excused = {})
  BY DEF ImportInv, FlowType, Resumed
<1>2. \A q \in Callers : proc'[q].pc \in {"post", "inflight", "recheck", "delete"}
                           => proc'[q] = proc[q]
  BY DEF OthersStay
<1>3. NothingActive' /\ NoDuplicateImport'
  BY <1>1, <1>2 DEF ImportInv, NothingActive, NoDuplicateImport
<1>4. FoundFailed' /\ Replaced'
  BY <1>1, <1>2 DEF ImportInv, FoundFailed, Replaced, Listed
<1>5. QED
  BY <1>1, <1>3, <1>4 DEF ImportInv

LEMMA InitInv == Init => ImportInv
<1> SUFFICES ASSUME Init PROVE ImportInv
  OBVIOUS
<1> USE DEF Init
<1>1. FlowType
  BY IdleType DEF FlowType, RowStatus, Active
<1>2. \A p \in Callers : proc[p].pc = "idle"
  BY IdleType
<1>3. "run" \in Callers /\ NoDuplicateImport
  BY DEF Callers, NoDuplicateImport, Active
<1>4. QED
  BY <1>1, <1>2, <1>3
  DEF ImportInv, OneCaller, NothingActive, FoundFailed, Replaced, At

LEMMA NextInv == ImportInv /\ [Next]_vars => ImportInv'
<1> SUFFICES ASSUME ImportInv, [Next]_vars PROVE ImportInv'
  OBVIOUS
<1>1. FlowType /\ "run" \in Callers /\ "retry" \in Callers /\ "download" \in Rows
  BY DEF ImportInv, Callers, Rows
<1>2. CASE Downloaded
  BY <1>1, <1>2, RowEndsInv DEF Downloaded, BinderyKeeps, Active
<1>3. ASSUME NEW r \in Rows, ImportEnds(r) PROVE ImportInv'
  <2>1. PICK s \in Active \union Recoverable \union {"failed"} : SetRow(r, s)
    BY <1>3 DEF ImportEnds, Active
  <2>2. UNCHANGED <<proc, retry, excused>> /\ rows[r] \in Active
    BY <1>3 DEF ImportEnds, BinderyKeeps, Active
  <2>3. QED
    BY <2>1, <2>2, RowEndsInv
<1>4. ASSUME NEW r \in Rows, Resumes(r) \/ Pruned(r) PROVE ImportInv'
  <2>1. rows' \in [Rows -> RowStatus] /\ UNCHANGED <<proc, retry>>
    BY <1>1, <1>4 DEF Resumes, Pruned, SetRow, FlowType, RowStatus, Active, BinderyKeeps
  <2>2. QED
    BY <1>4, <2>1, RowChangesInv DEF Resumes, Pruned
<1>5. CASE PollReads \/ PollSaves \/ UNCHANGED vars
  <2>1. UNCHANGED <<rows, proc, retry, excused>>
    BY <1>5 DEF PollReads, PollSaves, PollKeeps, vars
  <2>2. QED
    BY <2>1 DEF ImportInv, FlowType, OneCaller, NothingActive, NoDuplicateImport,
      FoundFailed, Replaced, At, Listed, Resumed
<1>6. CASE RunStarts
  <2>1. Goto("run", "queued") /\ UNCHANGED <<rows, retry>> /\ excused \subseteq excused'
        /\ (excused' = {} => At("retry", "idle"))
    BY <1>6 DEF RunStarts
  <2>2. /\ proc' \in [Callers -> ProcType] /\ proc'["run"].pc = "queued"
        /\ OthersStay("run") /\ proc'["retry"] = proc["retry"]
    BY <1>1, <2>1, GotoType DEF OthersStay
  <2>3. QED
    BY <1>1, <2>1, <2>2, CallerSetsOutInv DEF FlowType, OneCaller, At
<1>7. CASE RunTransfers
  <2>1. Goto("run", "locate") /\ At("run", "queued") /\ UNCHANGED <<rows, retry, excused>>
    BY <1>7 DEF RunTransfers, ProcKeeps
  <2>2. /\ proc' \in [Callers -> ProcType] /\ proc'["run"].pc = "locate"
        /\ OthersStay("run") /\ proc'["retry"] = proc["retry"]
    BY <1>1, <2>1, GotoType DEF OthersStay
  <2>3. OneCaller'
    BY <2>1, <2>2 DEF ImportInv, OneCaller, At
  <2>4. QED
    BY <1>1, <2>1, <2>2, <2>3, CallerSetsOutInv DEF FlowType
<1>8. CASE MarkCompleted
  <2>1. proc' = [proc EXCEPT !["run"] = Idle] /\ UNCHANGED <<rows, retry, excused>>
    BY <1>8 DEF MarkCompleted, ProcKeeps
  <2>2. /\ proc' \in [Callers -> ProcType] /\ proc'["run"].pc = "idle" /\ OthersStay("run")
    BY <1>1, <2>1, IdleType DEF FlowType, OthersStay
  <2>3. QED
    BY <1>1, <2>1, <2>2, CallerSetsOutInv DEF FlowType, OneCaller, At
<1>9. CASE RetryStarts
  <2> DEFINE s == [Idle EXCEPT !.pc = "locate", !.attempt = retry]
  <2>1. s \in ProcType /\ s.pc = "locate"
    BY <1>1 DEF Idle, ProcType, FlowType
  <2>2. /\ UNCHANGED rows /\ retry' = 0 /\ excused \subseteq excused' /\ At("retry", "idle")
        /\ \/ UNCHANGED <<proc, excused>>
           \/ proc' = [proc EXCEPT !["retry"] = s] /\ (excused' = {} => At("run", "idle"))
    BY <1>9 DEF RetryStarts, RetryKeeps
  <2> HIDE DEF s
  <2>3. CASE UNCHANGED <<proc, excused>>
    BY <1>1, <2>2, <2>3, CallerSetsOutInv DEF FlowType, ImportInv, OneCaller, At, OthersStay
  <2>4. CASE proc' = [proc EXCEPT !["retry"] = s] /\ (excused' = {} => At("run", "idle"))
    <3>1. /\ proc' \in [Callers -> ProcType] /\ proc'["retry"].pc = "locate"
          /\ OthersStay("retry") /\ proc'["run"] = proc["run"]
      BY <1>1, <2>1, <2>4 DEF FlowType, OthersStay, Callers
    <3>2. QED
      BY <1>1, <2>2, <2>4, <3>1, CallerSetsOutInv DEF OneCaller, At
  <2>5. QED
    BY <2>2, <2>3, <2>4
<1>10. ASSUME NEW p \in Callers, ProcStep(p) \/ Dies(p) PROVE ImportInv'
  BY <1>10, CallerStepInv
<1>11. QED
  BY <1>2, <1>3, <1>4, <1>5, <1>6, <1>7, <1>8, <1>9, <1>10 DEF Next

(* A book is in flight or imported in one row at most, unless Bindery did not *)
(* answer, resumed a row or dropped one, or two callers overlapped.           *)
THEOREM ImportsOnce == Spec => []NoDuplicateImport
<1>1. ImportInv => NoDuplicateImport
  BY DEF ImportInv
<1>2. QED
  BY <1>1, InitInv, NextInv, PTL DEF Spec

(* A caller that is about to delete the row of the download has seen a manual *)
(* import take its place, or the row resumed or was dropped in between.       *)
THEOREM DeletesSuperseded == Spec => []Superseded
<1>1. ImportInv => Superseded
  BY DEF ImportInv, Replaced, Superseded, Resumed
<1>2. QED
  BY <1>1, InitInv, NextInv, PTL DEF Spec
-----------------------------------------------------------------------------
(* Type correctness.  The attempt of a retry is bounded by the comparison in *)
(* RetryStarts and the one in Fails.                                         *)
CappedProc ==
  [pc : {"idle", "queued", "locate", "lookup", "inflight", "post", "recheck", "delete", "mark"},
   found : BOOLEAN, attempt : 0..RetryCap]
ProcOK == proc \in [Callers -> CappedProc] /\ proc["run"].attempt = 0
RowsOK == rows \in [Rows -> RowStatus] /\ files \in {"none", "staged", "moved", "taken"}
                                       /\ moves \in BOOLEAN
ItemOK ==
  /\ status \in Statuses /\ poll \in Statuses \union {"none"}
  /\ count \in 0..RetryCap /\ retry \in 0..RetryCap
  /\ read \in [failed : BOOLEAN, count : 0..RetryCap]
SpentOK ==
  /\ runs \in 0..MaxRuns /\ spent \in 0..MaxFaults
  /\ excused \subseteq {"unreachable", "resumed", "pruned", "overlap"}

LEMMA TypeParts == /\ TypeOK <=> ProcOK /\ RowsOK /\ ItemOK /\ SpentOK
                   /\ TypeOK' <=> ProcOK' /\ RowsOK' /\ ItemOK' /\ SpentOK'
BY DEF TypeOK, ProcOK, RowsOK, ItemOK, SpentOK, CappedProc

LEMMA SetProc ==
  ASSUME ProcOK, NEW p \in Callers, NEW r \in CappedProc, p = "run" => r.attempt = 0,
         proc' = [proc EXCEPT ![p] = r]
  PROVE  ProcOK'
BY DEF ProcOK, Callers

LEMMA GotoProc ==
  ASSUME ProcOK, NEW p \in Callers,
         NEW pc \in {"queued", "locate", "lookup", "inflight", "post", "recheck", "delete"},
         Goto(p, pc)
  PROVE  ProcOK'
<1> DEFINE r == [proc[p] EXCEPT !.pc = pc]
<1>1. proc[p] \in CappedProc /\ (p = "run" => proc[p].attempt = 0)
  BY DEF ProcOK
<1>2. r \in CappedProc /\ (p = "run" => r.attempt = 0)
  BY <1>1 DEF CappedProc
<1>3. proc' = [proc EXCEPT ![p] = r]
  BY DEF Goto
<1> HIDE DEF r
<1>4. QED
  BY <1>2, <1>3, SetProc

LEMMA IdleProc ==
  /\ Idle \in CappedProc /\ Idle.attempt = 0
  /\ [Idle EXCEPT !.pc = "mark"] \in CappedProc /\ [Idle EXCEPT !.pc = "mark"].attempt = 0
<1>1. 0 \in 0..RetryCap
  BY BinderyAssumption
<1>2. QED
  BY <1>1 DEF Idle, CappedProc

LEMMA SucceedsProc ==
  ASSUME ProcOK, NEW p \in Callers, Succeeds(p)
  PROVE  ProcOK'
BY IdleProc, SetProc DEF Succeeds

LEMMA FailsType ==
  ASSUME ProcOK, ItemOK, UNCHANGED <<poll, read>>, NEW p \in Callers, Fails(p)
  PROVE  ProcOK' /\ ItemOK'
<1>1. ProcOK'
  BY IdleProc, SetProc DEF Fails
<1>2. proc[p].attempt \in 0..RetryCap /\ (p # "retry" => proc[p].attempt = 0)
  BY DEF ProcOK, CappedProc, Callers
<1>3. ~(p = "retry" /\ proc[p].attempt + 1 > RetryCap) => proc[p].attempt + 1 \in 0..RetryCap
  BY <1>2, BinderyAssumption
<1>4. status' \in Statuses /\ count' \in 0..RetryCap /\ retry' \in 0..RetryCap
  BY <1>3 DEF Fails, ItemOK, Statuses
<1>5. QED
  BY <1>1, <1>4 DEF ItemOK

LEMMA FaultType ==
  ASSUME SpentOK, UNCHANGED runs,
         excused' = excused \/ \E k \in {"unreachable", "resumed", "pruned"} : Excuse(k),
         NoFault \/ \E k \in FaultKinds : Fault(k)
  PROVE  SpentOK'
<1>1. spent' \in 0..MaxFaults
  <2>1. spent' = spent \/ (spent < MaxFaults /\ spent' = spent + 1)
    BY DEF NoFault, Fault
  <2>2. MaxFaults \in Nat /\ spent \in 0..MaxFaults
    BY BinderyAssumption DEF SpentOK
  <2>3. QED
    BY <2>1, <2>2
<1>2. excused' \subseteq {"unreachable", "resumed", "pruned", "overlap"}
  BY DEF SpentOK, Excuse
<1>3. QED
  BY <1>1, <1>2 DEF SpentOK

LEMMA RowType ==
  ASSUME RowsOK, NEW r \in Rows, NEW s \in RowStatus, SetRow(r, s),
         files' \in {files, "taken"}, UNCHANGED moves
  PROVE  RowsOK'
BY DEF RowsOK, SetRow

LEMMA InitType == Init => TypeOK
<1> SUFFICES ASSUME Init PROVE TypeOK
  OBVIOUS
<1>1. ProcOK
  BY IdleProc DEF Init, ProcOK, Callers
<1>2. RowsOK /\ ItemOK /\ SpentOK
  BY BinderyAssumption
  DEF Init, RowsOK, ItemOK, SpentOK, RowStatus, Active, Statuses, NoItem
<1>3. QED
  BY <1>1, <1>2, TypeParts

LEMMA CallerStepType ==
  ASSUME TypeOK, NEW p \in Callers, ProcStep(p) \/ Dies(p)
  PROVE  TypeOK'
<1>1. ProcOK /\ RowsOK /\ ItemOK /\ SpentOK
  BY TypeParts
<1> USE <1>1
<1>2. UNCHANGED <<moves, poll, runs>>
  BY DEF ProcStep, Locate, Lookup, InFlight, ManualImport, Recheck, Delete, Dies, ProcKeeps
<1>3. CASE Locate(p)
  <2>1. UNCHANGED <<rows, read, excused>> /\ files' \in {files, "moved"}
    BY <1>3 DEF Locate
  <2>2. RowsOK' /\ SpentOK'
    BY <1>2, <1>3, <2>1, FaultType DEF Locate, RowsOK, FaultKinds, NoFault
  <2>3. ProcOK' /\ ItemOK'
    BY <1>2, <1>3, <2>1, FailsType, GotoProc DEF Locate, ItemOK
  <2>4. QED
    BY <2>2, <2>3, TypeParts
<1>4. CASE Lookup(p)
  <2> DEFINE r(f) == [proc[p] EXCEPT !.pc = "inflight", !.found = f]
  <2>1. \A f \in BOOLEAN : r(f) \in CappedProc /\ (p = "run" => r(f).attempt = 0)
    <3>1. proc[p] \in CappedProc /\ (p = "run" => proc[p].attempt = 0)
      BY DEF ProcOK
    <3>2. QED
      BY <3>1 DEF CappedProc
  <2>2. Succeeds(p) \/ \E f \in BOOLEAN : proc' = [proc EXCEPT ![p] = r(f)]
    BY <1>4 DEF Lookup
  <2> HIDE DEF r
  <2>3. ProcOK'
    BY <2>1, <2>2, SucceedsProc, SetProc
  <2>4. RowsOK' /\ ItemOK'
    BY <1>2, <1>4 DEF Lookup, LookKeeps, RowsOK, ItemOK
  <2>5. SpentOK'
    BY <1>2, <1>4, FaultType DEF Lookup, FaultKinds
  <2>6. QED
    BY <2>3, <2>4, <2>5, TypeParts
<1>5. CASE InFlight(p)
  <2>1. ProcOK'
    BY <1>5, GotoProc, SucceedsProc DEF InFlight
  <2>2. RowsOK' /\ ItemOK'
    BY <1>2, <1>5 DEF InFlight, LookKeeps, RowsOK, ItemOK
  <2>3. SpentOK'
    BY <1>2, <1>5, FaultType DEF InFlight, FaultKinds
  <2>4. QED
    BY <2>1, <2>2, <2>3, TypeParts
<1>6. CASE ManualImport(p)
  <2>1. UNCHANGED <<files, read, excused>>
    BY <1>6 DEF ManualImport
  <2>2. ProcOK' /\ ItemOK'
    BY <1>2, <1>6, <2>1, GotoProc, SucceedsProc, FailsType DEF ManualImport, Posted, ItemOK
  <2>3. RowsOK'
    <3>1. UNCHANGED rows \/ \E r \in Rows : SetRow(r, "importing")
      BY <1>6 DEF ManualImport, NewRow, Rows
    <3>2. "importing" \in RowStatus
      BY DEF RowStatus, Active
    <3>3. QED
      BY <1>2, <2>1, <3>1, <3>2, RowType DEF RowsOK
  <2>4. SpentOK'
    BY <1>2, <1>6, <2>1, FaultType DEF ManualImport, FaultKinds
  <2>5. QED
    BY <2>2, <2>3, <2>4, TypeParts
<1>7. CASE Recheck(p)
  <2>1. ProcOK'
    BY <1>7, GotoProc, SucceedsProc DEF Recheck
  <2>2. RowsOK' /\ ItemOK'
    BY <1>2, <1>7 DEF Recheck, LookKeeps, RowsOK, ItemOK
  <2>3. SpentOK'
    BY <1>2, <1>7, FaultType DEF Recheck, FaultKinds
  <2>4. QED
    BY <2>1, <2>2, <2>3, TypeParts
<1>8. CASE Delete(p)
  <2>1. ProcOK' /\ ItemOK'
    BY <1>2, <1>8, SucceedsProc DEF Delete, ItemOK
  <2>2. RowsOK'
    <3>1. "download" \in Rows /\ "none" \in RowStatus
      BY DEF Rows, RowStatus
    <3>2. QED
      BY <1>2, <1>8, <3>1, RowType DEF Delete, RowsOK
  <2>3. SpentOK'
    BY <1>2, <1>8, FaultType DEF Delete, FaultKinds
  <2>4. QED
    BY <2>1, <2>2, <2>3, TypeParts
<1>9. CASE Dies(p)
  <2> DEFINE r == [pc |-> IF p = "run" THEN "queued" ELSE "locate",
                   found |-> FALSE, attempt |-> proc[p].attempt]
  <2>1. r \in CappedProc /\ (p = "run" => r.attempt = 0)
    BY DEF ProcOK, CappedProc
  <2>2. proc' = [proc EXCEPT ![p] = Idle] \/ proc' = [proc EXCEPT ![p] = r]
    BY <1>9 DEF Dies
  <2> HIDE DEF r
  <2>3. ProcOK'
    BY <2>1, <2>2, IdleProc, SetProc
  <2>4. RowsOK' /\ ItemOK'
    BY <1>2, <1>9 DEF Dies, RowsOK, ItemOK
  <2>5. SpentOK'
    BY <1>2, <1>9, FaultType DEF Dies, FaultKinds
  <2>6. QED
    BY <2>3, <2>4, <2>5, TypeParts
<1>10. QED
  BY <1>3, <1>4, <1>5, <1>6, <1>7, <1>8, <1>9 DEF ProcStep

(* For any set of rows, cap and bounds: no retry carries an attempt beyond    *)
(* the cap, whatever runs, polls and Bindery do meanwhile.                    *)
THEOREM TypeCorrect == Spec => []TypeOK
<1>1. TypeOK /\ [Next]_vars => TypeOK'
  <2> SUFFICES ASSUME TypeOK, [Next]_vars PROVE TypeOK'
    OBVIOUS
  <2>1. ProcOK /\ RowsOK /\ ItemOK /\ SpentOK
    BY TypeParts
  <2> USE <2>1
  <2>2. CASE Downloaded \/ \E r \in Rows : ImportEnds(r) \/ Resumes(r) \/ Pruned(r)
    <3>1. UNCHANGED <<moves, status, count, proc, retry, read, poll, runs>>
      BY <2>2 DEF Downloaded, ImportEnds, Resumes, Pruned, BinderyKeeps
    <3>2. \E r \in Rows, s \in RowStatus : SetRow(r, s)
      BY <2>2 DEF Downloaded, ImportEnds, Resumes, Pruned, RowStatus, Active, Recoverable, Rows
    <3>3. files' \in {files, "taken"}
      BY <2>2 DEF Downloaded, ImportEnds, Resumes, Pruned
    <3>4. RowsOK'
      BY <3>1, <3>2, <3>3, RowType
    <3>5. SpentOK'
      BY <2>2, <3>1, FaultType DEF Downloaded, ImportEnds, Resumes, Pruned, FaultKinds, NoFault
    <3>6. ProcOK' /\ ItemOK'
      BY <3>1 DEF ProcOK, ItemOK
    <3>7. QED
      BY <3>4, <3>5, <3>6, TypeParts
  <2>3. CASE PollReads \/ PollSaves
    <3>1. UNCHANGED <<rows, files, moves, count, proc, retry, read, runs, spent, excused>>
      BY <2>3 DEF PollReads, PollSaves, PollKeeps
    <3>2. rows["download"] \in RowStatus
      BY DEF RowsOK, Rows
    <3>3. status' \in Statuses /\ poll' \in Statuses \union {"none"}
      BY <2>3, <3>2
      DEF PollReads, PollSaves, MappedStatus, Listed, ItemOK, Statuses, RowStatus, Active, Recoverable
    <3>4. ProcOK' /\ RowsOK' /\ ItemOK' /\ SpentOK'
      BY <3>1, <3>3 DEF ProcOK, RowsOK, ItemOK, SpentOK
    <3>5. QED
      BY <3>4, TypeParts
  <2>4. CASE RunStarts
    <3>1. ProcOK'
      BY <2>4, GotoProc DEF RunStarts, Callers
    <3>2. RowsOK' /\ ItemOK' /\ SpentOK'
      BY <2>4, BinderyAssumption DEF RunStarts, RowsOK, ItemOK, SpentOK, Statuses
    <3>3. QED
      BY <3>1, <3>2, TypeParts
  <2>5. CASE RunTransfers
    <3>1. ProcOK'
      BY <2>5, GotoProc DEF RunTransfers, Callers
    <3>2. RowsOK' /\ ItemOK' /\ SpentOK'
      BY <2>5 DEF RunTransfers, ProcKeeps, RowsOK, ItemOK, SpentOK
    <3>3. QED
      BY <3>1, <3>2, TypeParts
  <2>6. CASE MarkCompleted
    <3>1. ProcOK'
      BY <2>6, IdleProc, SetProc DEF MarkCompleted, Callers
    <3>2. RowsOK' /\ ItemOK' /\ SpentOK'
      BY <2>6, BinderyAssumption
      DEF MarkCompleted, ProcKeeps, RowsOK, ItemOK, SpentOK, Statuses, NoItem
    <3>3. QED
      BY <3>1, <3>2, TypeParts
  <2>7. CASE RetryStarts
    <3> DEFINE r == [Idle EXCEPT !.pc = "locate", !.attempt = retry]
    <3>1. r \in CappedProc
      BY DEF Idle, CappedProc, ItemOK
    <3>2. UNCHANGED proc \/ proc' = [proc EXCEPT !["retry"] = r]
      BY <2>7 DEF RetryStarts
    <3> HIDE DEF r
    <3>3. ProcOK'
      BY <3>1, <3>2, SetProc DEF ProcOK, Callers
    <3>4. RowsOK' /\ ItemOK' /\ SpentOK'
      BY <2>7, BinderyAssumption DEF RetryStarts, RetryKeeps, RowsOK, ItemOK, SpentOK, Statuses
    <3>5. QED
      BY <3>3, <3>4, TypeParts
  <2>8. CASE \E p \in Callers : ProcStep(p) \/ Dies(p)
    BY <2>8, CallerStepType
  <2>9. CASE UNCHANGED vars
    <3>1. ProcOK' /\ RowsOK' /\ ItemOK' /\ SpentOK'
      BY <2>9 DEF vars, ProcOK, RowsOK, ItemOK, SpentOK
    <3>2. QED
      BY <3>1, TypeParts
  <2>10. QED
    BY <2>2, <2>3, <2>4, <2>5, <2>6, <2>7, <2>8, <2>9 DEF Next
<1>2. QED
  BY <1>1, InitType, PTL DEF Spec
=============================================================================
