----------------------------- MODULE VmPending -----------------------------
(***************************************************************************)
(* State changes and snapshot operations of one VM, as VMManager runs them: *)
(* the UI thread invokes the WMI method and marks the VM as pending, a      *)
(* detached watcher waits for the job and clears the mark, and the poll     *)
(* thread merges marks into every snapshot it publishes.  Marks are keyed   *)
(* by the VM, so the operations of one VM share a single entry.             *)
(*                                                                          *)
(* A revert (ApplySnapshot on a VM that is not off) runs in a worker of its *)
(* own: save, apply, start again.  Time is the age of an operation's mark:  *)
(* "young" below kMinPendingBlink, "expired" beyond the 60 s safety net.    *)
(***************************************************************************)
EXTENDS Naturals, FiniteSets

CONSTANTS
  Ops,        \* the operations the user starts, numbered in the order of their starts
  Kinds,      \* the kinds of operations started
  WmiThrows   \* whether a WMI call may throw, or a watcher not find its job

ASSUME KindsAssumption ==
  /\ Kinds \subseteq {"start", "turnOff", "save", "shutdown", "snapshot", "revert"}
  /\ WmiThrows \in BOOLEAN

VARIABLES
  vm,      \* the VM's state in Hyper-V
  cache,   \* its row in m_vms: state and pendingStateChange, pendingJobLabel
  pending, \* its entry in m_pendingStateChange
  poll,    \* the poll thread: what the cycle has read, before it is merged
  op,      \* the operations and their watchers or workers
  errors   \* reverts not yet over whose worker has called NotifyError

vars == <<vm, cache, pending, poll, op, errors>>

----------------------------------------------------------------------------
\* "Running" stands for a paused VM too; "Changing" for every state in transition.
VmStates == {"Running", "Off", "Saved", "Changing"}
AtRest   == {"Off", "Saved"}
AllKinds == {"start", "turnOff", "save", "shutdown", "snapshot", "revert"}
Ages     == {"young", "mature", "expired"}
NoOp     == 0

\* Operations with a progress label; the others only blink.
Labels   == {"", "snapshot", "revert"}

\* "snapshot" is taking or deleting one, or applying one to a stopped VM.
Label(kind) == IF kind \in {"snapshot", "revert"} THEN kind ELSE ""

\* The state a power operation leads to.
Target(kind) ==
  CASE kind = "start" -> "Running"
    [] kind \in {"turnOff", "shutdown"} -> "Off"
    [] OTHER -> "Saved"

ASSUME OpsAssumption == Ops \subseteq Nat \ {NoOp}

NoEntry == [op |-> NoOp, old |-> "Off"]

\* "job" is the job Hyper-V runs for the operation, if it runs one: its own
\* ("running"; a revert's is its save), or a revert's apply or start; "failed" is
\* one that ended so and is watched.  "launched" is invoked with a job, "nameless"
\* marked with one that has no path.  "resumeAfter": a revert has the VM's restart
\* yet to ask for.
Operation ==
  [kind : AllKinds, age : Ages,
   pc  : {"idle", "invoked", "launched", "watching", "nameless", "marked", "saving", "awaitingSaved",
          "applying", "awaitingApply", "resuming", "holding", "thrown", "finished"},
   job : {"none", "running", "applying", "starting", "failed"},
   resumeAfter : BOOLEAN]

Busy(o) == op[o].job \in {"running", "applying", "starting"}

TypeOK ==
  /\ vm \in VmStates
  /\ cache \in [st : VmStates, pending : BOOLEAN, label : Labels]
  /\ pending \in [op : Ops, old : VmStates] \cup {NoEntry}
  /\ poll \in [pc : {"idle", "read"}, st : VmStates]
  /\ op \in [Ops -> Operation]
  /\ errors \subseteq Ops

Init ==
  /\ vm \in VmStates \ {"Changing"}
  /\ cache = [st |-> vm, pending |-> FALSE, label |-> ""]
  /\ pending = NoEntry
  /\ poll = [pc |-> "idle", st |-> vm]
  /\ op = [o \in Ops |->
             [kind |-> "start", age |-> "young", pc |-> "idle", job |-> "none",
              resumeAfter |-> FALSE]]
  /\ errors = {}

Goto(o, pc) == op' = [op EXCEPT ![o].pc = pc]

Fail(o) == errors' = errors \cup {o}

\* The operation is over: but for a job that still runs, nothing of it matters.
Finish(o) ==
  /\ op' = [op EXCEPT ![o] = [@ EXCEPT !.pc = "finished", !.age = "young",
                                       !.resumeAfter = FALSE]]
  /\ errors' = errors \ {o}

----------------------------------------------------------------------------
(* Marks.                                                                   *)

\* The cached state is remembered; under a label it is never read again.
Entry(o, kind) ==
  /\ pending' = [op |-> o, old |-> IF Label(kind) = "" THEN cache.st ELSE NoEntry.old]
  /\ cache' = [cache EXCEPT !.pending = TRUE, !.label = Label(kind)]

\* MarkPendingStateChange overwrites whatever entry the VM has.
MarkPendingStateChange(o) == Entry(o, op[o].kind)

\* ClearPendingStateChange erases the VM's entry, whoever made it.
ClearPendingStateChange ==
  /\ pending' = NoEntry
  /\ cache' = [cache EXCEPT !.pending = FALSE, !.label = ""]

----------------------------------------------------------------------------
(* The UI thread starts an operation.                                       *)

\* The operation is over but for the rest of its blink.
Through(o) == op[o].pc \in {"holding", "thrown"}

UiIdle == \A o \in Ops : op[o].pc \notin {"invoked", "launched"}

\* The state-gated menu items, from the cached state.
Offered(kind) ==
  CASE kind = "start" -> cache.st \in AtRest
    [] kind \in {"turnOff", "save", "shutdown"} -> cache.st = "Running"
    [] OTHER -> cache.st # "Changing"

\* The user starts an operation.
Starts(o, kind) ==
  /\ UiIdle
  /\ op[o].pc = "idle"
  /\ \A earlier \in {e \in Ops : e < o} : op[earlier].pc # "idle"
  /\ Offered(kind)

Began(o, kind, pc, job) ==
  op' = [op EXCEPT ![o] = [@ EXCEPT !.kind = kind, !.pc = pc, !.job = job]]

\* A power operation that Hyper-V performs at once (RequestStateChange, 0).
BeginDone(o, kind) ==
  /\ Starts(o, kind)
  /\ kind \in {"start", "turnOff", "save"}
  /\ Began(o, kind, "invoked", "none")
  /\ vm' = Target(kind)
  /\ UNCHANGED <<cache, pending, poll, errors>>

\* An operation for which Hyper-V starts a job (4096); for a shutdown the "job" is
\* what the guest makes of the request.  The VM may be in transition until it ends.
BeginJob(o, kind) ==
  /\ Starts(o, kind)
  /\ kind # "revert"
  /\ Began(o, kind, "launched", "running")
  /\ vm' \in IF kind = "snapshot" THEN {vm} ELSE {vm, "Changing"}
  /\ UNCHANGED <<cache, pending, poll, errors>>

\* Hyper-V refuses the request, or the call throws: reported or not, it is over.
BeginRefused(o, kind) ==
  /\ Starts(o, kind)
  /\ kind # "revert"
  /\ Goto(o, "finished")
  /\ UNCHANGED <<vm, cache, pending, poll, errors>>

\* ApplySnapshot on a VM that is not cached as off or saved is left to a worker.
BeginRevert(o) ==
  /\ Starts(o, "revert")
  /\ cache.st \notin AtRest
  /\ Began(o, "revert", "invoked", "none")
  /\ UNCHANGED <<vm, cache, pending, poll, errors>>

\* What becomes of a marked operation: a job is left to a watcher if it has a
\* path, a revert to its worker.  A shutdown has no watcher.
MarkedAs(o) ==
  CASE op[o].kind = "revert" -> {"marked"}
    [] op[o].pc = "launched" /\ op[o].kind # "shutdown" -> {"watching", "nameless"}
    [] OTHER -> {"finished"}

\* The method has returned: mark the VM.
Mark(o) ==
  /\ op[o].pc \in {"invoked", "launched"}
  /\ MarkPendingStateChange(o)
  /\ \E pc \in MarkedAs(o) : Goto(o, pc)
  /\ UNCHANGED <<vm, poll, errors>>

----------------------------------------------------------------------------
(* Hyper-V: jobs end, guests shut down.                                     *)

\* Where the VM may be when the operation's job is done.
JobTargets(o) ==
  CASE op[o].job = "applying"   -> AtRest
    [] op[o].job = "starting"   -> {"Running"}
    [] op[o].kind = "snapshot"  -> {vm}
    [] OTHER                    -> {Target(op[o].kind)}

\* Somebody will look at how the job ended.
Awaited(o) == op[o].pc = "awaitingApply"

\* A failed job leaves the VM where it was, or somewhere if it was in transition.
JobEnds(o, ok) ==
  /\ Busy(o)
  /\ vm' \in CASE ok -> JobTargets(o)
              [] ~ok /\ vm = "Changing" -> {"Running", "Off", "Saved"}
              [] OTHER -> {vm}
  /\ op' = [op EXCEPT ![o].job = IF ok \/ ~Awaited(o) THEN "none" ELSE "failed"]
  /\ UNCHANGED <<cache, pending, poll, errors>>

----------------------------------------------------------------------------
(* WatchStateChangeJob and WatchJob: wait, report a failure, hold the blink *)
(* for its minimum, clear it.  (WatchJob also waits for a poll, with a      *)
(* time-out, before it clears.)                                             *)

\* The wait ends with the job, or after 60 s ("Job timed out"), or when a call
\* throws or the job is not found.  What there is to report is reported.
Watched(o) ==
  /\ op[o].pc = "watching"
  /\ Busy(o) => WmiThrows \/ op[o].age # "young"
  /\ Goto(o, "holding")
  /\ UNCHANGED <<vm, cache, pending, poll, errors>>

\* A job without a path is not waited for.
WatchesNothing(o) ==
  /\ op[o].pc = "nameless"
  /\ ClearPendingStateChange
  /\ Finish(o)
  /\ UNCHANGED <<vm, poll>>

Clear(o) ==
  /\ Through(o)
  /\ op[o].age # "young"
  /\ ClearPendingStateChange
  /\ Finish(o)
  /\ UNCHANGED <<vm, poll>>

----------------------------------------------------------------------------
(* The worker of SaveThenApplySnapshot.  A WmiException anywhere leaves the *)
(* try block: the worker reports "The operation failed." and clears, with   *)
(* nothing of what it has yet to do.                                        *)

WorkerThrows(o) ==
  /\ op[o].pc \in {"marked", "saving", "awaitingSaved", "applying", "awaitingApply",
                   "resuming"}
  /\ WmiThrows
  /\ Fail(o)
  /\ op' = [op EXCEPT ![o] = [@ EXCEPT !.pc = "thrown", !.resumeAfter = FALSE]]
  /\ UNCHANGED <<vm, cache, pending, poll>>

\* Look at the VM; one that is neither off nor saved is saved first.
WorkerLooks(o) ==
  /\ op[o].pc = "marked"
  /\ op' = [op EXCEPT ![o] =
               [@ EXCEPT !.pc = IF vm \in AtRest THEN "applying" ELSE "saving",
                         !.resumeAfter = vm \notin AtRest]]
  /\ UNCHANGED <<vm, cache, pending, poll, errors>>

\* Ask for the save: refused and reported, done at once, or left to a job.
WorkerSaves(o) ==
  /\ op[o].pc = "saving"
  /\ \/ Fail(o) /\ Goto(o, "resuming") /\ UNCHANGED vm
     \/ vm' = "Saved" /\ Goto(o, "awaitingSaved") /\ UNCHANGED errors
     \/ /\ vm' \in {vm, "Changing"}
        /\ op' = [op EXCEPT ![o] = [@ EXCEPT !.pc = "awaitingSaved", !.job = "running"]]
        /\ UNCHANGED errors
  /\ UNCHANGED <<cache, pending, poll>>

\* WaitForJob and waitForState: the VM is seen saved, and the save is over, or the
\* waits give up while the save, if there is one, goes on.
WorkerAwaitsSaved(o) ==
  /\ op[o].pc = "awaitingSaved"
  /\ IF vm = "Saved"
     THEN /\ op' = [op EXCEPT ![o] = [@ EXCEPT !.pc = "applying", !.job = "none"]]
          /\ UNCHANGED errors
     ELSE Goto(o, "resuming") /\ Fail(o)
  /\ UNCHANGED <<vm, cache, pending, poll>>

\* Mutation: an apply that is refused ends the operation there.
WorkerAppliesOrQuits(o) ==
  /\ op[o].pc = "applying"
  /\ \/ Fail(o) /\ Goto(o, "holding") /\ UNCHANGED vm
     \/ /\ vm \in AtRest
        /\ vm' \in AtRest
        /\ Goto(o, "resuming")
        /\ UNCHANGED errors
     \/ /\ vm \in AtRest
        /\ op' = [op EXCEPT ![o] = [@ EXCEPT !.pc = "awaitingApply", !.job = "applying"]]
        /\ UNCHANGED <<vm, errors>>
  /\ UNCHANGED <<cache, pending, poll>>

\* The snapshot is gone or refused, applied at once, or left to a job.
WorkerApplies(o) ==
  /\ op[o].pc = "applying"
  /\ \/ Fail(o) /\ Goto(o, "resuming") /\ UNCHANGED vm
     \/ /\ vm \in AtRest
        /\ vm' \in AtRest
        /\ Goto(o, "resuming")
        /\ UNCHANGED errors
     \/ /\ vm \in AtRest
        /\ op' = [op EXCEPT ![o] = [@ EXCEPT !.pc = "awaitingApply", !.job = "applying"]]
        /\ UNCHANGED <<vm, errors>>
  /\ UNCHANGED <<cache, pending, poll>>

\* WaitForJob: the apply's job ends, or the wait for it times out.
WorkerAwaitsApply(o) ==
  /\ op[o].pc = "awaitingApply"
  /\ \/ Busy(o) /\ Fail(o) /\ Goto(o, "resuming")
     \/ /\ ~Busy(o)
        /\ IF op[o].job = "failed" THEN Fail(o) ELSE UNCHANGED errors
        /\ op' = [op EXCEPT ![o] = [@ EXCEPT !.pc = "resuming", !.job = "none"]]
  /\ UNCHANGED <<vm, cache, pending, poll>>

\* Ask for the start of a VM the worker meant to save, if it is off or saved by
\* now; whether that is granted, and what becomes of its job, is not looked at.
WorkerResumes(o) ==
  /\ op[o].pc = "resuming"
  /\ IF op[o].resumeAfter /\ vm \in AtRest
     THEN \/ /\ vm' \in {vm, "Running"}
             /\ op' = [op EXCEPT ![o] = [@ EXCEPT !.pc = "holding", !.resumeAfter = FALSE]]
          \/ /\ vm' \in {vm, "Changing"}
             /\ op' = [op EXCEPT ![o] = [@ EXCEPT !.pc = "holding", !.job = "starting",
                                                  !.resumeAfter = FALSE]]
     ELSE Goto(o, "holding") /\ UNCHANGED vm
  /\ UNCHANGED <<cache, pending, poll, errors>>

----------------------------------------------------------------------------
(* The poll thread.                                                         *)

Read ==
  /\ poll.pc = "idle"
  /\ poll' = [pc |-> "read", st |-> vm]
  /\ UNCHANGED <<vm, cache, pending, op, errors>>

\* Mutation: a moved state ends labelled operations too.
DropsLabelled(entry, st) ==
  LET o == op[entry.op]
  IN \/ st # entry.old /\ o.age # "young"
     \/ o.age = "expired"

\* Mutation: no safety net.
DropsNeverExpired(entry, st) ==
  LET o == op[entry.op]
  IN st # entry.old /\ o.age # "young" /\ Label(o.kind) = ""

\* What the poll makes of the entry, under m_lock: it is dropped when the
\* state has moved (after the minimum, and if it has no label) or when it
\* has expired.
Drops(entry, st) ==
  LET o == op[entry.op]
  IN \/ st # entry.old /\ o.age # "young" /\ Label(o.kind) = ""
     \/ o.age = "expired"

\* Mutation: a row the merge does not find pending keeps its old flags.
MergeKeepsFlags ==
  /\ poll.pc = "read"
  /\ pending' = IF pending # NoEntry /\ Drops(pending, poll.st) THEN NoEntry ELSE pending
  /\ cache' = [cache EXCEPT !.st = poll.st]
  /\ poll' = [poll EXCEPT !.pc = "idle"]
  /\ UNCHANGED <<vm, op, errors>>

Merge ==
  /\ poll.pc = "read"
  /\ LET kept == IF pending # NoEntry /\ Drops(pending, poll.st) THEN NoEntry ELSE pending
     IN /\ pending' = kept
        /\ cache' = [st |-> poll.st, pending |-> kept # NoEntry,
                     label |-> IF kept = NoEntry THEN "" ELSE Label(op[kept.op].kind)]
  /\ poll' = [poll EXCEPT !.pc = "idle"]
  /\ UNCHANGED <<vm, op, errors>>

----------------------------------------------------------------------------
\* Time passes for a mark and its watcher.
Age(o) ==
  /\ pending.op = o \/ Through(o)
  /\ op[o].age # "expired"
  /\ op' = [op EXCEPT ![o].age = IF @ = "young" THEN "mature" ELSE "expired"]
  /\ UNCHANGED <<vm, cache, pending, poll, errors>>

Start(o)  ==
  \/ \E kind \in Kinds : BeginDone(o, kind) \/ BeginJob(o, kind) \/ BeginRefused(o, kind)
  \/ "revert" \in Kinds /\ BeginRevert(o)
Worker(o) == \/ WorkerLooks(o) \/ WorkerSaves(o) \/ WorkerAwaitsSaved(o)
             \/ WorkerApplies(o) \/ WorkerAwaitsApply(o) \/ WorkerResumes(o)
Thread(o) == Mark(o) \/ Watched(o) \/ WatchesNothing(o) \/ Clear(o) \/ Worker(o)

Next ==
  \/ \E o \in Ops : \/ Start(o) \/ Thread(o) \/ WorkerThrows(o) \/ Age(o)
                    \/ \E ok \in BOOLEAN : JobEnds(o, ok)
  \/ Read \/ Merge

Spec == Init /\ [][Next]_vars

\* Threads run, time passes and the poll goes round; a job may hang and a
\* guest may refuse to shut down.
Fairness ==
  /\ WF_vars(Read \/ Merge)
  /\ \A o \in Ops : WF_vars(Thread(o)) /\ WF_vars(Age(o))

FairSpec == Spec /\ Fairness

----------------------------------------------------------------------------
(* Properties.                                                              *)

\* The row the UI shows and the table of marks agree, although the poll reads
\* the host long before it publishes and marks come and go meanwhile.
BlinkAgrees ==
  /\ cache.pending <=> pending # NoEntry
  /\ cache.label = IF pending = NoEntry THEN "" ELSE Label(op[pending.op].kind)

\* Another operation's watcher clears the entry it finds, which is not its own:
\* overlapping operations share one.  (What the code does, VMManager.cpp:1502,
\* and not what it says at VMManager.h:938 and VMManager.cpp:1337.)
ClearedByAnother == \E o \in Ops \ {pending.op} : Clear(o) \/ WatchesNothing(o)

\* Unless another operation's watcher ends it, or its own has no job to wait for,
\* a blink is visible for kMinPendingBlink, also when the poll ends it, and a
\* labelled operation shows its label until its own watcher or worker is through,
\* whatever the VM's state does meanwhile, or the safety net bites.
MarkLasts ==
  [][(/\ pending # NoEntry /\ pending' = NoEntry
      /\ ~ClearedByAnother /\ ~WatchesNothing(pending.op)) =>
       LET o == pending.op IN
         /\ op[o].age # "young"
         /\ Label(op[o].kind) # "" => Through(o) \/ op[o].age = "expired"]_vars

\* No blink lasts: the safety net ends what no watcher does.
BlinkEnds == cache.pending ~> ~cache.pending

\* A revert does not leave behind the VM it took down: whatever was refused, failed
\* or timed out before, it does not end, but for a WMI exception, without asking for
\* the restart, unless the VM runs all the same, or is in transition: then the user
\* was told (its save has outlasted the waits, and nobody starts the VM when it
\* ends), or another operation is moving the VM.
RevertResumes ==
  [][\A o \in Ops :
       (op[o].pc # "holding" /\ op'[o].pc = "holding" /\ op'[o].resumeAfter)
         => /\ vm \notin AtRest
            /\ \/ o \in errors
               \/ vm = "Running" /\ ~Busy(o)
               \/ \E other \in Ops \ {o} : Busy(other)]_vars
=============================================================================
