-------------------------- MODULE VmPending_proofs --------------------------
(***************************************************************************)
(* Proofs about VmPending, for any number of operations, overlapping or     *)
(* not: the VM's row agrees with its mark, a mark lasts as long as it must,  *)
(* and a revert asks for the restart of the VM it took down, or the VM is    *)
(* where it cannot be started.                                              *)
(***************************************************************************)
EXTENDS VmPending, TLAPS

----------------------------------------------------------------------------
(* Types.                                                                   *)

LEMMA PendingInit == Init => TypeOK
<1> SUFFICES ASSUME Init PROVE TypeOK
  OBVIOUS
<1>1. op \in [Ops -> Operation]
  BY DEF Init, Operation, AllKinds, Ages
<1> QED
  BY <1>1 DEF Init, TypeOK, VmStates, Labels, NoEntry

\* Replacing one operation's record.
LEMMA OpUpdate ==
  ASSUME NEW o \in Ops, NEW r \in Operation, op \in [Ops -> Operation],
         op' = [op EXCEPT ![o] = r]
  PROVE  op' \in [Ops -> Operation]
OBVIOUS

PCs == {"idle", "invoked", "launched", "watching", "nameless", "marked", "saving",
        "awaitingSaved", "applying", "awaitingApply", "resuming", "holding", "thrown",
        "finished"}
Jobs == {"none", "running", "applying", "starting", "failed"}

\* What a step of o makes of the operations.
Turned(o, pc, job, owes) ==
  /\ op' \in [Ops -> Operation]
  /\ op'[o].pc = pc /\ op'[o].job = job /\ op'[o].kind = op[o].kind
  /\ op'[o].resumeAfter = owes
  /\ \A q \in Ops \ {o} : op'[q] = op[q]

\* The updates that set several fields, or one.
LEMMA Updates ==
  ASSUME NEW o \in Ops, op \in [Ops -> Operation], NEW pc \in PCs, NEW job \in Jobs
  PROVE  /\ Goto(o, pc) => Turned(o, pc, op[o].job, op[o].resumeAfter)
         /\ Finish(o) => Turned(o, "finished", op[o].job, FALSE)
         /\ op' = [op EXCEPT ![o] = [@ EXCEPT !.pc = pc, !.resumeAfter = FALSE]]
              => Turned(o, pc, op[o].job, FALSE)
         /\ op' = [op EXCEPT ![o] = [@ EXCEPT !.pc = pc, !.job = job]]
              => Turned(o, pc, job, op[o].resumeAfter)
         /\ op' = [op EXCEPT ![o] = [@ EXCEPT !.pc = pc, !.job = job,
                                              !.resumeAfter = FALSE]]
              => Turned(o, pc, job, FALSE)
<1>1. ASSUME NEW r \in Operation, r.kind = op[o].kind, op' = [op EXCEPT ![o] = r]
      PROVE  Turned(o, r.pc, r.job, r.resumeAfter)
  BY <1>1 DEF Turned
<1> USE DEF PCs, Jobs, Ages, Operation
<1>2. ASSUME Goto(o, pc) PROVE Turned(o, pc, op[o].job, op[o].resumeAfter)
  <2> DEFINE r == [op[o] EXCEPT !.pc = pc]
  <2>1. /\ r \in Operation /\ r.kind = op[o].kind /\ r.pc = pc /\ r.job = op[o].job
        /\ r.resumeAfter = op[o].resumeAfter
    OBVIOUS
  <2>2. op' = [op EXCEPT ![o] = r]
    BY <1>2 DEF Goto
  <2> HIDE DEF r, Operation
  <2> QED
    BY <1>1, <2>1, <2>2
<1>3. ASSUME Finish(o) PROVE Turned(o, "finished", op[o].job, FALSE)
  <2> DEFINE r == [op[o] EXCEPT !.pc = "finished", !.age = "young", !.resumeAfter = FALSE]
  <2>1. /\ r \in Operation /\ r.kind = op[o].kind /\ r.pc = "finished" /\ r.job = op[o].job
        /\ r.resumeAfter = FALSE
    OBVIOUS
  <2>2. op' = [op EXCEPT ![o] = r]
    BY <1>3 DEF Finish
  <2> HIDE DEF r, Operation
  <2> QED
    BY <1>1, <2>1, <2>2
<1>4. ASSUME op' = [op EXCEPT ![o] = [@ EXCEPT !.pc = pc, !.resumeAfter = FALSE]]
      PROVE  Turned(o, pc, op[o].job, FALSE)
  <2> DEFINE r == [op[o] EXCEPT !.pc = pc, !.resumeAfter = FALSE]
  <2>1. /\ r \in Operation /\ r.kind = op[o].kind /\ r.pc = pc /\ r.job = op[o].job
        /\ r.resumeAfter = FALSE
    OBVIOUS
  <2>2. op' = [op EXCEPT ![o] = r]
    BY <1>4
  <2> HIDE DEF r, Operation
  <2> QED
    BY <1>1, <2>1, <2>2
<1>5. ASSUME op' = [op EXCEPT ![o] = [@ EXCEPT !.pc = pc, !.job = job]]
      PROVE  Turned(o, pc, job, op[o].resumeAfter)
  <2> DEFINE r == [op[o] EXCEPT !.pc = pc, !.job = job]
  <2>1. /\ r \in Operation /\ r.kind = op[o].kind /\ r.pc = pc /\ r.job = job
        /\ r.resumeAfter = op[o].resumeAfter
    OBVIOUS
  <2>2. op' = [op EXCEPT ![o] = r]
    BY <1>5
  <2> HIDE DEF r, Operation
  <2> QED
    BY <1>1, <2>1, <2>2
<1>6. ASSUME op' = [op EXCEPT ![o] = [@ EXCEPT !.pc = pc, !.job = job,
                                              !.resumeAfter = FALSE]]
      PROVE  Turned(o, pc, job, FALSE)
  <2> DEFINE r == [op[o] EXCEPT !.pc = pc, !.job = job, !.resumeAfter = FALSE]
  <2>1. /\ r \in Operation /\ r.kind = op[o].kind /\ r.pc = pc /\ r.job = job
        /\ r.resumeAfter = FALSE
    OBVIOUS
  <2>2. op' = [op EXCEPT ![o] = r]
    BY <1>6
  <2> HIDE DEF r, Operation
  <2> QED
    BY <1>1, <2>1, <2>2
<1> QED
  BY <1>2, <1>3, <1>4, <1>5, <1>6

\* The steps of a worker that waits, and its last.
LEMMA WorkerTurns ==
  ASSUME NEW o \in Ops, op \in [Ops -> Operation]
  PROVE  /\ WorkerSaves(o) =>
              \/ Turned(o, "resuming", op[o].job, op[o].resumeAfter) /\ vm' = vm
              \/ Turned(o, "awaitingSaved", op[o].job, op[o].resumeAfter) /\ vm' = "Saved"
              \/ Turned(o, "awaitingSaved", "running", op[o].resumeAfter) /\ vm' \in {vm, "Changing"}
         /\ WorkerAwaitsSaved(o) =>
              \/ vm = "Saved" /\ Turned(o, "applying", "none", op[o].resumeAfter)
              \/ Turned(o, "resuming", op[o].job, op[o].resumeAfter) /\ Fail(o)
         /\ WorkerApplies(o) =>
              \/ Turned(o, "resuming", op[o].job, op[o].resumeAfter)
              \/ Turned(o, "awaitingApply", "applying", op[o].resumeAfter)
         /\ WorkerAwaitsApply(o) =>
              \/ Busy(o) /\ Fail(o) /\ Turned(o, "resuming", op[o].job, op[o].resumeAfter)
              \/ ~Busy(o) /\ Turned(o, "resuming", "none", op[o].resumeAfter)
         /\ WorkerResumes(o) =>
              \/ vm' \in {vm, "Running"} /\ vm \in AtRest /\ Turned(o, "holding", op[o].job, FALSE)
              \/ Turned(o, "holding", "starting", FALSE)
              \/ /\ Turned(o, "holding", op[o].job, op[o].resumeAfter)
                 /\ vm' = vm /\ (op[o].resumeAfter => vm \notin AtRest)
         /\ WorkerThrows(o) => Turned(o, "thrown", op[o].job, FALSE)
<1>1. ASSUME NEW pc \in PCs, NEW job \in Jobs
      PROVE  /\ Goto(o, pc) => Turned(o, pc, op[o].job, op[o].resumeAfter)
             /\ op' = [op EXCEPT ![o] = [@ EXCEPT !.pc = pc, !.resumeAfter = FALSE]]
                  => Turned(o, pc, op[o].job, FALSE)
             /\ op' = [op EXCEPT ![o] = [@ EXCEPT !.pc = pc, !.job = job]]
                  => Turned(o, pc, job, op[o].resumeAfter)
             /\ op' = [op EXCEPT ![o] = [@ EXCEPT !.pc = pc, !.job = job,
                                                  !.resumeAfter = FALSE]]
                  => Turned(o, pc, job, FALSE)
  BY Updates
<1> USE DEF PCs, Jobs
<1>2. ASSUME WorkerSaves(o)
      PROVE  \/ Turned(o, "resuming", op[o].job, op[o].resumeAfter) /\ vm' = vm
             \/ Turned(o, "awaitingSaved", op[o].job, op[o].resumeAfter) /\ vm' = "Saved"
             \/ Turned(o, "awaitingSaved", "running", op[o].resumeAfter) /\ vm' \in {vm, "Changing"}
  BY <1>1, <1>2 DEF WorkerSaves
<1>3. ASSUME WorkerAwaitsSaved(o)
      PROVE  \/ vm = "Saved" /\ Turned(o, "applying", "none", op[o].resumeAfter)
             \/ Turned(o, "resuming", op[o].job, op[o].resumeAfter) /\ Fail(o)
  BY <1>1, <1>3 DEF WorkerAwaitsSaved
<1>4. ASSUME WorkerApplies(o)
      PROVE  \/ Turned(o, "resuming", op[o].job, op[o].resumeAfter)
             \/ Turned(o, "awaitingApply", "applying", op[o].resumeAfter)
  BY <1>1, <1>4 DEF WorkerApplies
<1>5. ASSUME WorkerAwaitsApply(o)
      PROVE  \/ Busy(o) /\ Fail(o) /\ Turned(o, "resuming", op[o].job, op[o].resumeAfter)
             \/ ~Busy(o) /\ Turned(o, "resuming", "none", op[o].resumeAfter)
  BY <1>1, <1>5 DEF WorkerAwaitsApply
<1>6. ASSUME WorkerResumes(o)
      PROVE  \/ vm' \in {vm, "Running"} /\ vm \in AtRest /\ Turned(o, "holding", op[o].job, FALSE)
             \/ Turned(o, "holding", "starting", FALSE)
             \/ /\ Turned(o, "holding", op[o].job, op[o].resumeAfter)
                /\ vm' = vm /\ (op[o].resumeAfter => vm \notin AtRest)
  BY <1>1, <1>6 DEF WorkerResumes
<1>7. ASSUME WorkerThrows(o) PROVE Turned(o, "thrown", op[o].job, FALSE)
  BY <1>1, <1>7 DEF WorkerThrows
<1> QED
  BY <1>2, <1>3, <1>4, <1>5, <1>6, <1>7

\* One step for each action; a step of Next is one of these or stutters.
LEMMA PendingTypes == TypeOK /\ [Next]_vars => TypeOK'
<1> SUFFICES ASSUME TypeOK, [Next]_vars PROVE TypeOK'
  OBVIOUS
<1> USE KindsAssumption DEF TypeOK
<1>a. \A kind \in AllKinds : Label(kind) \in Labels /\ Target(kind) \in VmStates
  BY DEF AllKinds, Label, Labels, Target, VmStates
<1>b. "" \in Labels
  BY DEF Labels
<1>k. Kinds \subseteq AllKinds
  BY DEF AllKinds
<1>1. ASSUME NEW o \in Ops, NEW kind \in AllKinds, NEW pc \in {"invoked", "launched"},
             NEW job \in {"none", "running"}, Began(o, kind, pc, job)
      PROVE  op' \in [Ops -> Operation]
  <2> DEFINE r == [op[o] EXCEPT !.kind = kind, !.pc = pc, !.job = job]
  <2>1. r \in Operation
    BY ZenonT(60) DEF Operation
  <2>2. op' = [op EXCEPT ![o] = r]
    BY <1>1 DEF Began
  <2> HIDE DEF r
  <2> QED
    BY <2>1, <2>2, OpUpdate
<1>2. ASSUME NEW o \in Ops, NEW kind \in Kinds,
             BeginDone(o, kind) \/ BeginJob(o, kind) \/ BeginRefused(o, kind)
      PROVE  TypeOK'
  <2>1. op' \in [Ops -> Operation]
    <3>1. CASE BeginDone(o, kind) \/ BeginJob(o, kind)
      BY <1>k, <1>1, <3>1 DEF BeginDone, BeginJob
    <3>2. CASE BeginRefused(o, kind)
      BY <3>2 DEF BeginRefused, Goto, Operation
    <3> QED
      BY <1>2, <3>1, <3>2
  <2>2. vm' \in VmStates /\ errors' \subseteq Ops
    BY <1>a, <1>k, <1>2 DEF BeginDone, BeginJob, BeginRefused, VmStates
  <2> QED
    BY <1>2, <2>1, <2>2 DEF BeginDone, BeginJob, BeginRefused
<1>3. ASSUME NEW o \in Ops, BeginRevert(o) PROVE TypeOK'
  <2>1. op' \in [Ops -> Operation]
    BY <1>1, <1>3 DEF BeginRevert, AllKinds
  <2> QED
    BY <1>3, <2>1 DEF BeginRevert
<1>4. ASSUME NEW o \in Ops, Mark(o) PROVE TypeOK'
  <2>1. op' \in [Ops -> Operation]
    BY <1>4 DEF Mark, MarkedAs, Goto, Operation
  <2>2. op[o].kind \in AllKinds
    BY DEF Operation
  <2>3. /\ pending' \in [op : Ops, old : VmStates] \cup {NoEntry}
        /\ cache' \in [st : VmStates, pending : BOOLEAN, label : Labels]
    BY <1>a, <1>4, <2>2 DEF Mark, MarkPendingStateChange, Entry, NoEntry, VmStates
  <2> QED
    BY <1>4, <2>1, <2>3 DEF Mark
<1>5. ASSUME NEW o \in Ops, NEW ok \in BOOLEAN, JobEnds(o, ok) PROVE TypeOK'
  <2>1. op' \in [Ops -> Operation]
    BY <1>5 DEF JobEnds, Operation
  <2>2. op[o].kind \in AllKinds
    BY DEF Operation
  <2>3. vm' \in VmStates
    BY <1>a, <1>5, <2>2 DEF JobEnds, JobTargets, AtRest, VmStates
  <2> QED
    BY <1>5, <2>1, <2>3 DEF JobEnds
<1>6. ASSUME NEW o \in Ops, Watched(o) \/ WorkerThrows(o) PROVE TypeOK'
  <2>1. op' \in [Ops -> Operation]
    <3>1. CASE Watched(o)
      BY <3>1 DEF Watched, Goto, Operation
    <3>2. CASE WorkerThrows(o)
      BY <3>2, WorkerTurns DEF Turned
    <3> QED
      BY <1>6, <3>1, <3>2
  <2> QED
    BY <1>6, <2>1 DEF Watched, WorkerThrows, Fail
<1>7. ASSUME NEW o \in Ops, Clear(o) \/ WatchesNothing(o) PROVE TypeOK'
  <2>1. op' \in [Ops -> Operation] /\ errors' \subseteq Ops
    <3>1. Finish(o)
      BY <1>7 DEF Clear, WatchesNothing
    <3>2. Turned(o, "finished", op[o].job, FALSE)
      BY <3>1, Updates DEF PCs, Jobs
    <3> QED
      BY <3>1, <3>2 DEF Turned, Finish
  <2>2. cache' \in [st : VmStates, pending : BOOLEAN, label : Labels]
    BY <1>b, <1>7 DEF Clear, WatchesNothing, ClearPendingStateChange
  <2> QED
    BY <1>7, <2>1, <2>2 DEF Clear, WatchesNothing, ClearPendingStateChange
<1>8. ASSUME NEW o \in Ops, WorkerLooks(o) PROVE TypeOK'
  <2>1. op' \in [Ops -> Operation]
    <3> DEFINE r == [op[o] EXCEPT
                       !.pc = IF vm \in AtRest THEN "applying" ELSE "saving",
                       !.resumeAfter = vm \notin AtRest]
    <3>1. r \in Operation
      BY ZenonT(60) DEF Operation
    <3>2. op' = [op EXCEPT ![o] = r]
      BY <1>8 DEF WorkerLooks
    <3> HIDE DEF r
    <3> QED
      BY <3>1, <3>2, OpUpdate
  <2> QED
    BY <1>8, <2>1 DEF WorkerLooks
<1>9. ASSUME NEW o \in Ops,
             \/ WorkerSaves(o) \/ WorkerAwaitsSaved(o)
             \/ WorkerApplies(o) \/ WorkerAwaitsApply(o)
      PROVE  TypeOK'
  <2>1. op' \in [Ops -> Operation]
    BY <1>9, WorkerTurns DEF Turned
  <2>2. vm' \in VmStates /\ errors' \subseteq Ops
    BY <1>9 DEF WorkerSaves, WorkerAwaitsSaved, WorkerApplies, WorkerAwaitsApply,
         Fail, VmStates, AtRest
  <2> QED
    BY <1>9, <2>1, <2>2 DEF WorkerSaves, WorkerAwaitsSaved, WorkerApplies, WorkerAwaitsApply
<1>10. ASSUME NEW o \in Ops, WorkerResumes(o) PROVE TypeOK'
  <2>1. op' \in [Ops -> Operation]
    BY <1>10, WorkerTurns DEF Turned
  <2>2. vm' \in VmStates
    BY <1>10 DEF WorkerResumes, VmStates
  <2> QED
    BY <1>10, <2>1, <2>2 DEF WorkerResumes
<1>11. ASSUME NEW o \in Ops, Age(o) PROVE TypeOK'
  BY <1>11 DEF Age, Operation, Ages
<1>12. CASE Read
  BY <1>12 DEF Read
<1>13. CASE Merge
  <2> DEFINE kept == IF pending # NoEntry /\ Drops(pending, poll.st) THEN NoEntry ELSE pending
  <2>1. kept \in [op : Ops, old : VmStates] \cup {NoEntry}
    OBVIOUS
  <2>2. (IF kept = NoEntry THEN "" ELSE Label(op[kept.op].kind)) \in Labels
    <3>1. CASE kept = NoEntry
      BY <1>b, <3>1
    <3>2. CASE kept # NoEntry
      <4>1. kept.op \in Ops
        BY <2>1, <3>2
      <4>2. op[kept.op].kind \in AllKinds
        BY <4>1 DEF Operation
      <4> QED
        BY <1>a, <3>2, <4>2
    <3> QED
      BY <3>1, <3>2
  <2>3. pending' = kept /\ cache' = [st |-> poll.st, pending |-> kept # NoEntry,
          label |-> IF kept = NoEntry THEN "" ELSE Label(op[kept.op].kind)]
    BY <1>13 DEF Merge
  <2>4. poll' \in [pc : {"idle", "read"}, st : VmStates]
    BY <1>13 DEF Merge
  <2>5. UNCHANGED <<vm, op, errors>>
    BY <1>13 DEF Merge
  <2>6. poll.st \in VmStates /\ (kept # NoEntry) \in BOOLEAN
    OBVIOUS
  <2> HIDE DEF kept
  <2>7. pending' \in [op : Ops, old : VmStates] \cup {NoEntry}
    BY <2>1, <2>3
  <2>8. cache' \in [st : VmStates, pending : BOOLEAN, label : Labels]
    BY <2>2, <2>3, <2>6
  <2> QED
    BY <2>4, <2>5, <2>7, <2>8
<1>14. CASE UNCHANGED vars
  BY <1>14 DEF vars
<1> QED
  BY <1>2, <1>3, <1>4, <1>5, <1>6, <1>7, <1>8, <1>9, <1>10, <1>11, <1>12, <1>13,
     <1>14 DEF Next, Start, Thread, Worker

\* Every variable keeps its type, whatever operations overlap.
THEOREM PendingTypeCorrect == Spec => []TypeOK
BY PendingInit, PendingTypes, PTL DEF Spec

----------------------------------------------------------------------------
(* The row and the mark.  An entry speaks of the kind of its operation,     *)
(* which only a step that begins an operation sets; an operation that has   *)
(* not begun has no entry.                                                  *)

MarkedBegun == \A o \in Ops : op[o].pc \in {"idle", "invoked", "launched"} => pending.op # o

MarkInv == TypeOK /\ MarkedBegun /\ BlinkAgrees

\* A step that neither makes nor erases a mark, and begins only the idle.
KeepsMarks ==
  /\ UNCHANGED pending
  /\ cache'.pending = cache.pending /\ cache'.label = cache.label
  /\ \A q \in Ops :
       /\ op'[q].kind = op[q].kind \/ op[q].pc = "idle"
       /\ op'[q].pc \in {"idle", "invoked", "launched"} =>
            op[q].pc \in {"idle", "invoked", "launched"}

LEMMA KeepsMarksOK == MarkInv /\ KeepsMarks => MarkedBegun' /\ BlinkAgrees'
<1> SUFFICES ASSUME MarkInv, KeepsMarks PROVE MarkedBegun' /\ BlinkAgrees'
  OBVIOUS
<1>1. MarkedBegun'
  BY DEF MarkInv, MarkedBegun, KeepsMarks
<1>2. pending # NoEntry => pending.op \in Ops
  BY DEF MarkInv, TypeOK
<1>3. pending # NoEntry => op'[pending.op].kind = op[pending.op].kind
  BY <1>2 DEF MarkInv, MarkedBegun, KeepsMarks
<1>4. CASE pending = NoEntry
  <2>1. BlinkAgrees'
    BY <1>4 DEF MarkInv, BlinkAgrees, KeepsMarks
  <2> QED
    BY <1>1, <2>1
<1>5. CASE pending # NoEntry
  <2>1. cache.pending <=> TRUE
    BY <1>5 DEF MarkInv, BlinkAgrees
  <2>2. cache'.label = Label(op[pending.op].kind)
    BY <1>5 DEF MarkInv, BlinkAgrees, KeepsMarks
  <2>3. cache'.label = Label(op'[pending.op].kind)
    BY <1>3, <1>5, <2>2
  <2>4. BlinkAgrees'
    BY <1>5, <2>1, <2>3 DEF BlinkAgrees, KeepsMarks
  <2> QED
    BY <1>1, <2>4
<1> QED
  BY <1>4, <1>5

LEMMA MarkStep == MarkInv /\ [Next]_vars => MarkInv'
<1> SUFFICES ASSUME MarkInv, [Next]_vars PROVE MarkedBegun' /\ BlinkAgrees'
  BY PendingTypes DEF MarkInv
<1>a. TypeOK /\ TypeOK'
  BY PendingTypes DEF MarkInv
<1>b. op \in [Ops -> Operation] /\ op' \in [Ops -> Operation]
  BY <1>a DEF TypeOK
<1>1. ASSUME NEW o \in Ops, NEW kind \in Kinds,
             BeginDone(o, kind) \/ BeginJob(o, kind) \/ BeginRefused(o, kind)
      PROVE  KeepsMarks
  BY <1>1, <1>b DEF BeginDone, BeginJob, BeginRefused, Starts, Began, Goto, KeepsMarks, Operation
<1>2. ASSUME NEW o \in Ops, BeginRevert(o) PROVE KeepsMarks
  BY <1>2, <1>b DEF BeginRevert, Starts, Began, KeepsMarks, Operation
<1>3. ASSUME NEW o \in Ops, Mark(o) PROVE MarkedBegun' /\ BlinkAgrees'
  <2>1. /\ pending'.op = o
        /\ cache'.pending = TRUE /\ cache'.label = Label(op[o].kind)
    BY <1>3, <1>a DEF Mark, MarkPendingStateChange, Entry, TypeOK
  <2>2. /\ op'[o].kind = op[o].kind
        /\ op'[o].pc \notin {"idle", "invoked", "launched"}
    BY <1>3, <1>b DEF Mark, MarkedAs, Goto, Operation
  <2>3. pending' # NoEntry
    BY <2>1, OpsAssumption DEF NoEntry
  <2>4. BlinkAgrees'
    BY <2>1, <2>2, <2>3 DEF BlinkAgrees
  <2>5. MarkedBegun'
    BY <2>1, <2>2 DEF MarkedBegun
  <2> QED
    BY <2>4, <2>5
<1>4. ASSUME NEW o \in Ops, NEW ok \in BOOLEAN, JobEnds(o, ok) PROVE KeepsMarks
  BY <1>4, <1>b DEF JobEnds, KeepsMarks, Operation
<1>5. ASSUME NEW o \in Ops, Watched(o) PROVE KeepsMarks
  BY <1>5, <1>b DEF Watched, Goto, KeepsMarks, Operation
<1>6. ASSUME NEW o \in Ops, Clear(o) \/ WatchesNothing(o) PROVE MarkedBegun' /\ BlinkAgrees'
  <2>1. pending' = NoEntry /\ cache'.pending = FALSE /\ cache'.label = ""
    BY <1>6, <1>a DEF Clear, WatchesNothing, ClearPendingStateChange, TypeOK
  <2>2. BlinkAgrees'
    BY <2>1 DEF BlinkAgrees
  <2>3. MarkedBegun'
    BY <2>1, OpsAssumption DEF MarkedBegun, NoEntry
  <2> QED
    BY <2>2, <2>3
<1>7. ASSUME NEW o \in Ops, WorkerLooks(o) PROVE KeepsMarks
  BY <1>7, <1>b DEF WorkerLooks, KeepsMarks, Operation
<1>8. ASSUME NEW o \in Ops,
             NEW pc \in {"resuming", "awaitingSaved", "applying", "awaitingApply",
                         "holding", "thrown"},
             NEW job, NEW owes, Turned(o, pc, job, owes), UNCHANGED <<cache, pending>>
      PROVE  KeepsMarks
  BY <1>8 DEF Turned, KeepsMarks
<1>9. ASSUME NEW o \in Ops,
             \/ WorkerSaves(o) \/ WorkerAwaitsSaved(o)
             \/ WorkerApplies(o) \/ WorkerAwaitsApply(o)
             \/ WorkerResumes(o) \/ WorkerThrows(o)
      PROVE  KeepsMarks
  <2>1. UNCHANGED <<cache, pending>>
    BY <1>9 DEF WorkerSaves, WorkerAwaitsSaved, WorkerApplies, WorkerAwaitsApply,
         WorkerResumes, WorkerThrows
  <2>2. \E pc \in {"resuming", "awaitingSaved", "applying", "awaitingApply",
                   "holding", "thrown"} : \E job, owes : Turned(o, pc, job, owes)
    BY <1>9, <1>b, WorkerTurns
  <2> QED
    BY <1>8, <2>1, <2>2
<1>10. ASSUME NEW o \in Ops, Age(o) PROVE KeepsMarks
  BY <1>10, <1>b DEF Age, KeepsMarks, Operation
<1>11. CASE Read
  <2>1. KeepsMarks
    BY <1>11 DEF Read, KeepsMarks
  <2> QED
    BY <2>1, KeepsMarksOK
<1>12. CASE Merge
  <2>1. UNCHANGED op
    BY <1>12 DEF Merge
  <2>2. pending' \in {pending, NoEntry}
    BY <1>12 DEF Merge
  <2>3. MarkedBegun'
    BY <2>1, <2>2, OpsAssumption DEF MarkInv, MarkedBegun, NoEntry
  <2>4. BlinkAgrees'
    BY <1>12 DEF Merge, BlinkAgrees
  <2> QED
    BY <2>3, <2>4
<1>13. CASE UNCHANGED vars
  BY <1>13 DEF vars, MarkInv, MarkedBegun, BlinkAgrees
<1> QED
  BY <1>1, <1>2, <1>3, <1>4, <1>5, <1>6, <1>7, <1>8, <1>9, <1>10, <1>11, <1>12,
     <1>13, KeepsMarksOK DEF Next, Start, Thread, Worker

\* The row of the VM shows exactly what its mark says, for any number of
\* operations: MarkPendingStateChange, ClearPendingStateChange and the poll's
\* merge each change both under m_lock.
THEOREM BlinkAgreement == Spec => []BlinkAgrees
<1>1. Init => MarkInv
  <2> SUFFICES ASSUME Init PROVE MarkInv
    OBVIOUS
  <2>1. TypeOK
    BY PendingInit
  <2>2. MarkedBegun
    BY OpsAssumption DEF Init, MarkedBegun, NoEntry
  <2>3. cache.pending = FALSE /\ cache.label = "" /\ pending = NoEntry
    BY DEF Init
  <2>4. BlinkAgrees
    BY <2>3 DEF BlinkAgrees
  <2> QED
    BY <2>1, <2>2, <2>4 DEF MarkInv
<1>2. MarkInv => BlinkAgrees
  BY DEF MarkInv
<1> QED
  BY <1>1, <1>2, MarkStep, PTL DEF Spec

----------------------------------------------------------------------------
(* Reverts.                                                                 *)

Unlooked == {"idle", "invoked", "launched", "watching", "nameless"}
Jobless  == {"idle", "invoked", "marked", "saving", "applying"}
Working  == {"marked", "saving", "awaitingSaved", "applying", "awaitingApply", "resuming"}

\* Before a worker has looked at the VM there is nothing to resume; the worker is
\* a revert's; and one that goes on while its job does has told the user.
WorkerOK(o) ==
  /\ op[o].pc \in Unlooked => ~op[o].resumeAfter
  /\ op[o].pc \in Jobless => op[o].job = "none"
  /\ op[o].pc \in Working => op[o].kind = "revert"
  /\ op[o].pc = "launched" => op[o].kind # "revert"
  /\ op[o].pc = "resuming" /\ Busy(o) => o \in errors

\* A job whose end, however it ends, leaves the VM at rest or running.
Moves(o) == Busy(o) /\ op[o].kind # "snapshot"

ResumeInv ==
  /\ TypeOK
  /\ \A o \in Ops : WorkerOK(o)
  /\ vm = "Changing" => \E o \in Ops : Moves(o)

\* No step ends a worker that owes a start, unless there is none to ask for.
Resumes ==
  \A o \in Ops :
    (op[o].pc # "holding" /\ op'[o].pc = "holding" /\ op'[o].resumeAfter)
      => /\ vm \notin AtRest
         /\ \/ o \in errors
            \/ vm = "Running" /\ ~Busy(o)
            \/ \E other \in Ops \ {o} : Busy(other)

\* The operations but o are as they were.
Others(o) == \A q \in Ops \ {o} : op'[q] = op[q] /\ (q \in errors' <=> q \in errors)

LEMMA OthersOK ==
  ASSUME NEW o \in Ops, \A q \in Ops : WorkerOK(q), Others(o), WorkerOK(o)'
  PROVE  \A q \in Ops : WorkerOK(q)'
<1>1. ASSUME NEW q \in Ops \ {o} PROVE WorkerOK(q)'
  BY <1>1 DEF Others, WorkerOK, Busy
<1> QED
  BY <1>1

\* A step of o that leaves it holding only if nothing is owed, and the VM changing
\* only if it was and o has not ended the job that moves it.
LEMMA QuietStep ==
  ASSUME ResumeInv, TypeOK', NEW o \in Ops, Others(o), WorkerOK(o)',
         op'[o].pc = "holding" => op[o].pc = "holding" \/ ~op'[o].resumeAfter,
         vm' = "Changing" => Moves(o)' \/ (vm = "Changing" /\ (Moves(o) => Moves(o)'))
  PROVE  ResumeInv' /\ Resumes
<1>1. \A q \in Ops : WorkerOK(q)'
  BY OthersOK DEF ResumeInv
<1>2. ASSUME vm' = "Changing" PROVE \E q \in Ops : Moves(q)'
  <2>1. CASE Moves(o)'
    BY <2>1
  <2>2. CASE ~Moves(o)'
    <3>1. PICK x \in Ops : Moves(x)
      BY <1>2, <2>2 DEF ResumeInv
    <3>2. x # o
      BY <1>2, <2>2, <3>1
    <3>3. Moves(x)'
      BY <3>1, <3>2 DEF Others, Moves, Busy
    <3> QED
      BY <3>3
  <2> QED
    BY <2>1, <2>2
<1>3. Resumes
  BY DEF Resumes, Others
<1> QED
  BY <1>1, <1>2, <1>3 DEF ResumeInv

LEMMA ResumeStep ==
  ASSUME ResumeInv, [Next]_vars
  PROVE  ResumeInv' /\ Resumes
<1>a. TypeOK /\ TypeOK'
  BY PendingTypes DEF ResumeInv
<1>b. op \in [Ops -> Operation] /\ op' \in [Ops -> Operation] /\ vm \in VmStates
  BY <1>a DEF TypeOK
<1>c. \A o \in Ops : WorkerOK(o)
  BY DEF ResumeInv
<1> USE DEF Unlooked, Jobless, Working
<1>1. ASSUME NEW o \in Ops, NEW kind \in Kinds, BeginDone(o, kind)
      PROVE  ResumeInv' /\ Resumes
  <2>1. op[o].pc = "idle" /\ ~op[o].resumeAfter /\ op[o].job = "none"
    BY <1>1, <1>c DEF BeginDone, Starts, WorkerOK
  <2>2. /\ op'[o].pc = "invoked" /\ op'[o].job = "none"
        /\ op'[o].resumeAfter = op[o].resumeAfter
    BY <1>1, <1>b DEF BeginDone, Began, Operation
  <2>3. Others(o)
    BY <1>1, <1>b DEF BeginDone, Began, Others
  <2>4. vm' # "Changing"
    BY <1>1 DEF BeginDone, Target
  <2>5. WorkerOK(o)'
    BY <2>1, <2>2 DEF WorkerOK, Busy
  <2> QED
    BY <1>a, <2>2, <2>3, <2>4, <2>5, QuietStep
<1>2. ASSUME NEW o \in Ops, NEW kind \in Kinds, BeginJob(o, kind)
      PROVE  ResumeInv' /\ Resumes
  <2>1. op[o].pc = "idle" /\ ~op[o].resumeAfter /\ op[o].job = "none"
    BY <1>2, <1>c DEF BeginJob, Starts, WorkerOK
  <2>2. /\ op'[o].pc = "launched" /\ op'[o].job = "running" /\ op'[o].kind = kind
        /\ op'[o].resumeAfter = op[o].resumeAfter
    BY <1>2, <1>b DEF BeginJob, Began, Operation
  <2>3. Others(o)
    BY <1>2, <1>b DEF BeginJob, Began, Others
  <2>4. WorkerOK(o)'
    BY <1>2, <2>1, <2>2 DEF WorkerOK, Busy, BeginJob
  <2>5. ~Moves(o)
    BY <2>1 DEF Moves, Busy
  <2>6. vm' = "Changing" => Moves(o)' \/ vm = "Changing"
    BY <1>2, <2>2 DEF BeginJob, Moves, Busy
  <2> QED
    BY <1>a, <2>2, <2>3, <2>4, <2>5, <2>6, QuietStep
<1>3. ASSUME NEW o \in Ops, NEW kind \in Kinds, BeginRefused(o, kind)
      PROVE  ResumeInv' /\ Resumes
  <2>1. op[o].pc = "idle" /\ op[o].job = "none"
    BY <1>3, <1>c DEF BeginRefused, Starts, WorkerOK
  <2>2. op'[o].pc = "finished" /\ Others(o) /\ vm' = vm
    BY <1>3, <1>b DEF BeginRefused, Goto, Operation, Others
  <2>3. WorkerOK(o)' /\ ~Moves(o)
    BY <2>1, <2>2 DEF WorkerOK, Moves, Busy
  <2> QED
    BY <1>a, <2>2, <2>3, QuietStep
<1>4. ASSUME NEW o \in Ops, BeginRevert(o) PROVE ResumeInv' /\ Resumes
  <2>1. op[o].pc = "idle" /\ ~op[o].resumeAfter /\ op[o].job = "none"
    BY <1>4, <1>c DEF BeginRevert, Starts, WorkerOK
  <2>2. /\ op'[o].pc = "invoked" /\ op'[o].job = "none"
        /\ op'[o].resumeAfter = op[o].resumeAfter
    BY <1>4, <1>b DEF BeginRevert, Began, Operation
  <2>3. Others(o) /\ vm' = vm
    BY <1>4, <1>b DEF BeginRevert, Began, Others
  <2>4. WorkerOK(o)' /\ ~Moves(o)
    BY <2>1, <2>2 DEF WorkerOK, Moves, Busy
  <2> QED
    BY <1>a, <2>2, <2>3, <2>4, QuietStep
<1>5. ASSUME NEW o \in Ops, Mark(o) PROVE ResumeInv' /\ Resumes
  <2>1. PICK pc \in MarkedAs(o) : Goto(o, pc)
    BY <1>5 DEF Mark
  <2>2. op'[o] = [op[o] EXCEPT !.pc = pc] /\ Others(o) /\ vm' = vm
    BY <1>5, <1>b, <2>1 DEF Mark, Goto, Others
  <2>3. /\ op'[o].pc = pc /\ op'[o].job = op[o].job /\ op'[o].kind = op[o].kind
        /\ op'[o].resumeAfter = op[o].resumeAfter
    BY <1>b, <2>2 DEF Operation
  <2>4. op[o].pc \in {"invoked", "launched"} /\ WorkerOK(o)
    BY <1>5, <1>c DEF Mark
  <2>5. \/ pc = "marked" /\ op[o].kind = "revert"
        \/ pc \in {"watching", "nameless", "finished"}
    BY <2>1 DEF MarkedAs
  <2>6. WorkerOK(o)'
    BY <2>3, <2>4, <2>5 DEF WorkerOK, Busy
  <2>7. Moves(o) => Moves(o)'
    BY <2>3 DEF Moves, Busy
  <2> QED
    BY <1>a, <2>2, <2>3, <2>5, <2>6, <2>7, QuietStep
<1>6. ASSUME NEW o \in Ops, NEW ok \in BOOLEAN, JobEnds(o, ok)
      PROVE  ResumeInv' /\ Resumes
  <2>1. PICK job \in {"none", "failed"} : op' = [op EXCEPT ![o].job = job]
    BY <1>6 DEF JobEnds
  <2>2. /\ op'[o].pc = op[o].pc /\ op'[o].job = job /\ op'[o].kind = op[o].kind
        /\ op'[o].resumeAfter = op[o].resumeAfter
    BY <1>b, <2>1 DEF Operation
  <2>3. Others(o)
    BY <1>6, <1>b, <2>1 DEF JobEnds, Others
  <2>4. Busy(o) /\ WorkerOK(o)
    BY <1>6, <1>c DEF JobEnds
  <2>5. WorkerOK(o)'
    BY <2>2, <2>4 DEF WorkerOK, Busy
  <2>6. op[o].kind # "snapshot" => vm' # "Changing"
    BY <1>6, <2>4 DEF JobEnds, JobTargets, Busy, AtRest, Target
  <2>7. op[o].kind = "snapshot" => (vm' = "Changing" => vm = "Changing")
    BY <1>6 DEF JobEnds, JobTargets, AtRest
  <2>8. op[o].kind = "snapshot" => ~Moves(o)
    BY DEF Moves
  <2> QED
    BY <1>a, <2>2, <2>3, <2>5, <2>6, <2>7, <2>8, QuietStep
<1>7. ASSUME NEW o \in Ops, Watched(o) PROVE ResumeInv' /\ Resumes
  <2>1. /\ op[o].pc = "watching" /\ op'[o].pc = "holding" /\ op'[o].job = op[o].job
        /\ op'[o].kind = op[o].kind /\ op'[o].resumeAfter = op[o].resumeAfter
    BY <1>7, <1>b DEF Watched, Goto, Operation
  <2>2. Others(o) /\ vm' = vm
    BY <1>7, <1>b DEF Watched, Goto, Others
  <2>3. WorkerOK(o)' /\ ~op'[o].resumeAfter
    BY <1>c, <2>1 DEF WorkerOK, Busy
  <2>4. Moves(o) => Moves(o)'
    BY <2>1 DEF Moves, Busy
  <2> QED
    BY <1>a, <2>2, <2>3, <2>4, QuietStep
<1>8. ASSUME NEW o \in Ops, Clear(o) \/ WatchesNothing(o) PROVE ResumeInv' /\ Resumes
  <2>1. /\ op'[o].pc = "finished" /\ op'[o].job = op[o].job
        /\ op'[o].kind = op[o].kind
    <3>1. Finish(o)
      BY <1>8 DEF Clear, WatchesNothing
    <3> QED
      BY <1>b, <3>1, Updates DEF PCs, Jobs, Turned
  <2>2. Others(o) /\ vm' = vm
    BY <1>8, <1>b DEF Clear, WatchesNothing, Finish, Others
  <2>3. WorkerOK(o)'
    BY <2>1 DEF WorkerOK, Busy
  <2>4. Moves(o) => Moves(o)'
    BY <2>1 DEF Moves, Busy
  <2> QED
    BY <1>a, <2>1, <2>2, <2>3, <2>4, QuietStep
<1>9. ASSUME NEW o \in Ops, Age(o) PROVE ResumeInv' /\ Resumes
  <2>1. /\ op'[o].pc = op[o].pc /\ op'[o].job = op[o].job
        /\ op'[o].kind = op[o].kind /\ op'[o].resumeAfter = op[o].resumeAfter
    BY <1>9, <1>b DEF Age, Operation
  <2>2. Others(o) /\ vm' = vm /\ errors' = errors
    BY <1>9, <1>b DEF Age, Others
  <2>3. WorkerOK(o)'
    BY <1>c, <2>1, <2>2 DEF WorkerOK, Busy
  <2>4. Moves(o) => Moves(o)'
    BY <2>1 DEF Moves, Busy
  <2> QED
    BY <1>a, <2>1, <2>2, <2>3, <2>4, QuietStep
<1>10. ASSUME NEW o \in Ops, WorkerThrows(o) PROVE ResumeInv' /\ Resumes
  <2>1. op'[o].pc = "thrown" /\ op'[o].job = op[o].job /\ op'[o].kind = op[o].kind
    BY <1>10, <1>b, WorkerTurns DEF Turned
  <2>2. Others(o) /\ vm' = vm
    BY <1>10, <1>b DEF WorkerThrows, Fail, Others
  <2>3. WorkerOK(o)'
    BY <2>1 DEF WorkerOK, Busy
  <2>4. Moves(o) => Moves(o)'
    BY <2>1 DEF Moves, Busy
  <2> QED
    BY <1>a, <2>1, <2>2, <2>3, <2>4, QuietStep
<1>11. ASSUME NEW o \in Ops, WorkerLooks(o) PROVE ResumeInv' /\ Resumes
  <2>1. /\ op[o].pc = "marked" /\ op'[o].pc \in {"applying", "saving"}
        /\ op'[o].job = op[o].job /\ op'[o].kind = op[o].kind
    BY <1>11, <1>b DEF WorkerLooks, Operation
  <2>2. Others(o) /\ vm' = vm
    BY <1>11, <1>b DEF WorkerLooks, Others
  <2>3. WorkerOK(o)'
    BY <1>c, <2>1 DEF WorkerOK, Busy
  <2>4. Moves(o) => Moves(o)'
    BY <2>1 DEF Moves, Busy
  <2> QED
    BY <1>a, <2>1, <2>2, <2>3, <2>4, QuietStep
<1>12. ASSUME NEW o \in Ops, WorkerSaves(o) PROVE ResumeInv' /\ Resumes
  <2>1. op[o].pc = "saving" /\ op[o].kind = "revert" /\ op[o].job = "none"
    BY <1>12, <1>c DEF WorkerSaves, WorkerOK
  <2>2. \/ Turned(o, "resuming", op[o].job, op[o].resumeAfter) /\ vm' = vm
        \/ Turned(o, "awaitingSaved", op[o].job, op[o].resumeAfter) /\ vm' = "Saved"
        \/ Turned(o, "awaitingSaved", "running", op[o].resumeAfter)
    BY <1>12, <1>b, WorkerTurns
  <2>3. Others(o)
    BY <1>12, <2>2 DEF WorkerSaves, Fail, Turned, Others
  <2>4. WorkerOK(o)' /\ op'[o].pc # "holding" /\ ~Moves(o)
    BY <2>1, <2>2 DEF WorkerOK, Busy, Moves, Turned
  <2>5. vm' = "Changing" => Moves(o)' \/ vm = "Changing"
    BY <2>1, <2>2 DEF Moves, Busy, Turned
  <2> QED
    BY <1>a, <2>3, <2>4, <2>5, QuietStep
<1>13. ASSUME NEW o \in Ops, WorkerAwaitsSaved(o) PROVE ResumeInv' /\ Resumes
  <2>1. op[o].pc = "awaitingSaved" /\ op[o].kind = "revert"
    BY <1>13, <1>c DEF WorkerAwaitsSaved, WorkerOK
  <2>2. \/ vm = "Saved" /\ Turned(o, "applying", "none", op[o].resumeAfter)
        \/ Turned(o, "resuming", op[o].job, op[o].resumeAfter) /\ Fail(o)
    BY <1>13, <1>b, WorkerTurns
  <2>3. Others(o) /\ vm' = vm
    BY <1>13, <2>2 DEF WorkerAwaitsSaved, Fail, Turned, Others
  <2>4. WorkerOK(o)' /\ op'[o].pc # "holding"
    BY <2>1, <2>2 DEF WorkerOK, Busy, Turned, Fail
  <2>5. vm = "Changing" => (Moves(o) => Moves(o)')
    BY <2>2 DEF Moves, Busy, Turned
  <2> QED
    BY <1>a, <2>3, <2>4, <2>5, QuietStep
<1>14. ASSUME NEW o \in Ops, WorkerApplies(o) PROVE ResumeInv' /\ Resumes
  <2>1. op[o].pc = "applying" /\ op[o].kind = "revert" /\ op[o].job = "none"
    BY <1>14, <1>c DEF WorkerApplies, WorkerOK
  <2>2. \/ Turned(o, "resuming", op[o].job, op[o].resumeAfter)
        \/ Turned(o, "awaitingApply", "applying", op[o].resumeAfter)
    BY <1>14, <1>b, WorkerTurns
  <2>3. Others(o) /\ (vm' = "Changing" => vm = "Changing")
    BY <1>14, <2>2 DEF WorkerApplies, Fail, Turned, Others, AtRest
  <2>4. WorkerOK(o)' /\ op'[o].pc # "holding" /\ ~Moves(o)
    BY <2>1, <2>2 DEF WorkerOK, Busy, Moves, Turned
  <2> QED
    BY <1>a, <2>3, <2>4, QuietStep
<1>15. ASSUME NEW o \in Ops, WorkerAwaitsApply(o) PROVE ResumeInv' /\ Resumes
  <2>1. op[o].pc = "awaitingApply" /\ op[o].kind = "revert"
    BY <1>15, <1>c DEF WorkerAwaitsApply, WorkerOK
  <2>2. \/ Busy(o) /\ Fail(o) /\ Turned(o, "resuming", op[o].job, op[o].resumeAfter)
        \/ ~Busy(o) /\ Turned(o, "resuming", "none", op[o].resumeAfter)
    BY <1>15, <1>b, WorkerTurns
  <2>3. Others(o) /\ vm' = vm
    BY <1>15, <2>2 DEF WorkerAwaitsApply, Fail, Turned, Others
  <2>4. WorkerOK(o)' /\ op'[o].pc # "holding"
    BY <2>1, <2>2 DEF WorkerOK, Busy, Turned, Fail
  <2>5. Moves(o) => Moves(o)'
    BY <2>2 DEF Moves, Busy, Turned
  <2> QED
    BY <1>a, <2>3, <2>4, <2>5, QuietStep
<1>16. ASSUME NEW o \in Ops, WorkerResumes(o) PROVE ResumeInv' /\ Resumes
  <2>1. op[o].pc = "resuming" /\ op[o].kind = "revert" /\ (Busy(o) => o \in errors)
    BY <1>16, <1>c DEF WorkerResumes, WorkerOK
  <2>2. \/ vm' \in {vm, "Running"} /\ vm \in AtRest /\ Turned(o, "holding", op[o].job, FALSE)
        \/ Turned(o, "holding", "starting", FALSE)
        \/ /\ Turned(o, "holding", op[o].job, op[o].resumeAfter)
           /\ vm' = vm /\ (op[o].resumeAfter => vm \notin AtRest)
    BY <1>16, <1>b, WorkerTurns
  <2>3. Others(o) /\ op'[o].pc = "holding"
    BY <1>16, <2>2 DEF WorkerResumes, Turned, Others
  <2>4. WorkerOK(o)' /\ (Moves(o) => Moves(o)')
    BY <2>1, <2>2 DEF WorkerOK, Moves, Busy, Turned
  <2>5. vm' = "Changing" => Moves(o)' \/ vm = "Changing"
    BY <2>1, <2>2 DEF Moves, Busy, Turned, AtRest
  <2>6. CASE ~op'[o].resumeAfter
    BY <1>a, <2>3, <2>4, <2>5, <2>6, QuietStep
  <2>7. CASE op'[o].resumeAfter
    <3>1. vm \in {"Running", "Changing"} /\ vm \notin AtRest
      BY <1>b, <2>2, <2>7 DEF Turned, VmStates, AtRest
    <3>2. vm = "Changing" => \E x \in Ops : Busy(x)
      BY DEF ResumeInv, Moves
    <3>3. Resumes
      BY <2>1, <2>3, <3>1, <3>2 DEF Resumes, Others
    <3>4. \A q \in Ops : WorkerOK(q)'
      BY <1>c, <2>3, <2>4, OthersOK
    <3>5. vm' = "Changing" => \E q \in Ops : Moves(q)'
      BY <2>3, <2>4, <2>5 DEF ResumeInv, Others, Moves, Busy
    <3> QED
      BY <1>a, <3>3, <3>4, <3>5 DEF ResumeInv
  <2> QED
    BY <2>6, <2>7
<1>17. ASSUME UNCHANGED <<op, vm, errors>> PROVE ResumeInv' /\ Resumes
  <2>1. \A o \in Ops : WorkerOK(o)'
    BY <1>c, <1>17 DEF WorkerOK, Busy
  <2>2. vm' = "Changing" => \E o \in Ops : Moves(o)'
    BY <1>17 DEF ResumeInv, Moves, Busy
  <2>3. Resumes
    BY <1>17 DEF Resumes
  <2> QED
    BY <1>a, <2>1, <2>2, <2>3 DEF ResumeInv
<1>18. ASSUME Read \/ Merge \/ UNCHANGED vars PROVE UNCHANGED <<op, vm, errors>>
  BY <1>18 DEF Read, Merge, vars
<1> QED
  BY <1>1, <1>2, <1>3, <1>4, <1>5, <1>6, <1>7, <1>8, <1>9, <1>10, <1>11, <1>12, <1>13,
     <1>14, <1>15, <1>16, <1>17, <1>18 DEF Next, Start, Thread, Worker

\* SaveThenApplySnapshot, overlapped by any number of operations: a revert that
\* took the VM down, whatever was refused, failed or timed out, ends without an
\* exception only after asking for the restart, or with the VM neither off nor
\* saved and a reason: the user was told, or it runs with the save over, or a job
\* of another operation has it.
THEOREM RevertAlwaysResumes == Spec => RevertResumes
<1>1. Init => ResumeInv
  <2> SUFFICES ASSUME Init PROVE ResumeInv
    OBVIOUS
  <2>1. TypeOK
    BY PendingInit
  <2>2. \A o \in Ops : op[o].pc = "idle" /\ ~op[o].resumeAfter /\ op[o].job = "none"
    BY DEF Init
  <2>3. vm # "Changing"
    BY DEF Init
  <2>4. \A o \in Ops : WorkerOK(o)
    BY <2>2 DEF WorkerOK, Busy, Unlooked, Jobless, Working
  <2> QED
    BY <2>1, <2>3, <2>4 DEF ResumeInv
<1>2. ResumeInv /\ [Next]_vars => ResumeInv'
  BY ResumeStep
<1>3. ResumeInv /\ [Next]_vars => [Resumes]_vars
  BY ResumeStep
<1> QED
  BY <1>1, <1>2, <1>3, PTL DEF Spec, RevertResumes, Resumes
----------------------------------------------------------------------------
(* Blinks.                                                                  *)

\* What MarkLasts says of a step.
Lasts ==
  (/\ pending # NoEntry /\ pending' = NoEntry
   /\ ~ClearedByAnother /\ ~WatchesNothing(pending.op)) =>
    LET o == pending.op IN
      /\ op[o].age # "young"
      /\ Label(op[o].kind) # "" => Through(o) \/ op[o].age = "expired"

\* Only the poll and the watchers that clear erase a mark.
LEMMA OnlyTheseErase ==
  ASSUME Next, pending # NoEntry, pending' = NoEntry
  PROVE  Merge \/ \E o \in Ops : Clear(o) \/ WatchesNothing(o)
<1>1. ASSUME NEW o \in Ops, Mark(o) PROVE FALSE
  <2>1. PICK old : pending' = [op |-> o, old |-> old]
    BY <1>1 DEF Mark, MarkPendingStateChange, Entry
  <2> QED
    BY <2>1, OpsAssumption DEF NoEntry
<1> QED
  BY <1>1 DEF Next, Start, Thread, Worker, BeginDone, BeginJob, BeginRefused,
       BeginRevert, Watched, WorkerThrows, WorkerLooks, WorkerSaves, WorkerAwaitsSaved,
       WorkerApplies, WorkerAwaitsApply, WorkerResumes, Age, JobEnds, Read

\* A blink lasts its minimum and a label as long as its operation, for any
\* number of operations: only the safety net, or another operation's watcher,
\* ends one early (MergePendingStateChanges, ClearPendingStateChange).
THEOREM MarksLast == Spec => MarkLasts
<1>1. ASSUME [Next]_vars PROVE Lasts
  <2> SUFFICES ASSUME pending # NoEntry, pending' = NoEntry, ~ClearedByAnother,
                      ~WatchesNothing(pending.op)
               PROVE  /\ op[pending.op].age # "young"
                      /\ Label(op[pending.op].kind) # "" =>
                           Through(pending.op) \/ op[pending.op].age = "expired"
    BY DEF Lasts
  <2>1. Next
    BY <1>1 DEF vars
  <2>2. ASSUME NEW o \in Ops, Clear(o) \/ WatchesNothing(o)
        PROVE  o = pending.op /\ Clear(o)
    BY <2>2 DEF ClearedByAnother
  <2>3. ASSUME NEW o \in Ops, Clear(o) \/ WatchesNothing(o)
        PROVE  op[pending.op].age # "young" /\ Through(pending.op)
    BY <2>2, <2>3 DEF Clear
  <2>4. CASE Merge
    <3>1. Drops(pending, poll.st)
      BY <2>4 DEF Merge
    <3> QED
      BY <3>1 DEF Drops
  <2> QED
    BY <2>1, <2>3, <2>4, OnlyTheseErase
<1> QED
  BY <1>1, PTL DEF Spec, MarkLasts, Lasts
=============================================================================
