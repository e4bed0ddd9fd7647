--------------------------- MODULE VmPoll_proofs ---------------------------
(***************************************************************************)
(* Proofs about VmPoll: type correctness, that a wait served by a cycle     *)
(* which read the host leaves a fresh cache, and that a VM once in the      *)
(* cache loses its tab only by being deleted.  They hold for any VMs,       *)
(* callers, bounds and failures.                                            *)
(***************************************************************************)
EXTENDS VmPoll, TLAPS

----------------------------------------------------------------------------
(* The inductive invariant.  Requests are registered after the edit they    *)
(* stand for, and a cycle snapshots the counter before it reads; so along a *)
(* cycle whatever it serves was edited before its reading.                  *)

\* The two counters a cycle publishes never run ahead of the requests.
CountersOK ==
  /\ poller.servicing <= req
  /\ goodServiced <= req

\* A pending edit is on the host, its request among those counted.
CallersOK ==
  \A c \in Callers :
    /\ caller[c].pc \in {"edited", "waiting"} => caller[c].edit <= host.rev
    /\ caller[c].pc = "waiting" => caller[c].req <= req

\* The reading in flight is between the cache and the host.
ReadingOK ==
  /\ cache.rev <= host.rev
  /\ poller.pc = "publish"
       => /\ poller.ok
          /\ cache.rev <= poller.snap.rev
          /\ poller.snap.rev <= host.rev

\* The reading, then the cache, holds the edits of the requests being served.
ServingOK ==
  \A c \in Callers :
    (caller[c].pc = "waiting" /\ poller.servicing >= caller[c].req)
      => /\ poller.pc = "publish" => poller.snap.rev >= caller[c].edit
         /\ (poller.pc \in {"notify", "bump", "serve"} /\ poller.ok)
              => cache.rev >= caller[c].edit

FreshInv ==
  TypeOK /\ CountersOK /\ CallersOK /\ ReadingOK /\ ServingOK /\ ServedIsFresh

----------------------------------------------------------------------------
LEMMA PollInit == Init => FreshInv
<1> SUFFICES ASSUME Init PROVE FreshInv
  OBVIOUS
<1> USE BoundsAssumption, ResultsAssumption
<1>1. TypeOK
  <2>1. /\ host \in [rev : Nat, vms : SUBSET Vms, unborn : SUBSET Vms]
        /\ tabs \subseteq Vms
    BY DEF Init
  <2>2. NeverRead \in Snapshots
    BY DEF NeverRead, Snapshots
  <2>3. caller \in [Callers -> [pc : CallerSteps, edit : Nat, made : SUBSET Vms,
                                 req : Nat]]
    <3>1. caller = [c \in Callers |->
                      [pc |-> "idle", edit |-> 0, made |-> {}, req |-> 0]]
      BY DEF Init
    <3>2. {} \in SUBSET Vms
      OBVIOUS
    <3> QED
      BY <3>1, <3>2 DEF CallerSteps
  <2>4. poller \in [pc : PollSteps, service : BOOLEAN, servicing : Nat,
                     snap : Snapshots, ok : BOOLEAN]
    BY <2>2 DEF Init, PollSteps
  <2>5. status \in BOOLEAN
    BY DEF Init
  <2>6. welcome \in [rendered : BOOLEAN, view : {"error", "loading", "list"}]
    BY <2>5 DEF Init, RenderAllVms
  <2>7. cache \in Snapshots
    BY <2>2 DEF Init
  <2>8. /\ polled \in BOOLEAN /\ stop \in BOOLEAN
        /\ req \in Nat /\ serviced \in Nat /\ goodServiced \in Nat
        /\ known \subseteq Vms
    BY DEF Init
  <2>9. ticks \in 0..MaxTicks
    BY DEF Init
  <2> QED
    BY <2>1, <2>3, <2>4, <2>5, <2>6, <2>7, <2>8, <2>9 DEF TypeOK
<1>2. CountersOK /\ CallersOK /\ ReadingOK /\ ServingOK /\ ServedIsFresh
  BY DEF Init, CountersOK, CallersOK, ReadingOK, ServingOK, ServedIsFresh, NeverRead
<1> QED
  BY <1>1, <1>2 DEF FreshInv

----------------------------------------------------------------------------
LEMMA PollTypes == TypeOK /\ [Next]_vars => TypeOK'
<1> SUFFICES ASSUME TypeOK, [Next]_vars PROVE TypeOK'
  OBVIOUS
<1> USE BoundsAssumption, ResultsAssumption
<1>1. ASSUME NEW r \in SetupResults, Setup(r) PROVE TypeOK'
  BY <1>1 DEF Setup, TypeOK, PollSteps
<1>2. CASE Begin
  BY <1>2 DEF Begin, TypeOK, PollSteps
<1>3. ASSUME NEW ok \in ReadResults, Read(ok) PROVE TypeOK'
  BY <1>3 DEF Read, TypeOK, PollSteps, Snapshots
<1>4. CASE Publish
  BY <1>4 DEF Publish, Goto, TypeOK, PollSteps, Snapshots
<1>5. CASE Notify
  BY <1>5 DEF Notify, Goto, TypeOK, PollSteps
<1>6. CASE Bump
  BY <1>6 DEF Bump, Goto, TypeOK, PollSteps
<1>7. CASE Serve
  BY <1>7 DEF Serve, Goto, TypeOK, PollSteps
<1>8. CASE Wake
  BY <1>8 DEF Wake, Goto, TypeOK, PollSteps
<1>9. ASSUME NEW c \in Callers, NEW made \in SUBSET host.unborn, Edit(c, made)
      PROVE TypeOK'
  BY <1>9 DEF Edit, Revise, TypeOK, CallerSteps
<1>10. ASSUME NEW c \in Callers, Register(c) PROVE TypeOK'
  <2>1. /\ req \in Nat
        /\ caller \in [Callers -> [pc : CallerSteps, edit : Nat,
                                    made : SUBSET Vms, req : Nat]]
    BY DEF TypeOK
  <2>2. req' \in Nat
    BY <1>10, <2>1 DEF Register
  <2>3. caller' \in [Callers -> [pc : CallerSteps, edit : Nat,
                                  made : SUBSET Vms, req : Nat]]
    <3> DEFINE C == [pc : CallerSteps, edit : Nat, made : SUBSET Vms, req : Nat]
               d == [pc |-> "waiting", edit |-> caller[c].edit,
                     made |-> caller[c].made, req |-> req + 1]
    <3>1. caller' = [caller EXCEPT ![c] = d]
      BY <1>10, <2>1 DEF Register
    <3>2. caller[c] \in C
      BY <2>1
    <3>3. d \in C
      <4>1. caller[c].edit \in Nat /\ caller[c].made \in SUBSET Vms
        BY <3>2
      <4>2. "waiting" \in CallerSteps /\ req + 1 \in Nat
        BY <2>1 DEF CallerSteps
      <4> QED
        BY <4>1, <4>2
    <3> HIDE DEF d, C
    <3>4. caller \in [Callers -> C] => caller' \in [Callers -> C]
      BY <3>1, <3>3
    <3>5. caller \in [Callers -> C]
      BY <2>1 DEF C
    <3>6. caller' \in [Callers -> C]
      BY <3>4, <3>5
    <3> QED
      BY <3>6 DEF C
  <2> QED
    BY <1>10, <2>2, <2>3 DEF Register, TypeOK
<1>11. ASSUME NEW c \in Callers, Return(c) PROVE TypeOK'
  BY <1>11 DEF Return, TypeOK, CallerSteps
<1>12. ASSUME NEW c \in Callers, Finish(c) PROVE TypeOK'
  BY <1>12 DEF Finish, TypeOK, CallerSteps
<1>13. CASE Tick
  BY <1>13 DEF Tick, Closable, RenderAllVms, TypeOK
<1>14. ASSUME NEW v \in Vms, OpenTab(v) PROVE TypeOK'
  BY <1>14 DEF OpenTab, TypeOK
<1>15. ASSUME NEW ok \in ConnectResults, RetryConnect(ok) PROVE TypeOK'
  BY <1>15 DEF RetryConnect, RenderAllVms, Goto, TypeOK, PollSteps
<1>16. ASSUME NEW v \in Vms, Elsewhere(v) PROVE TypeOK'
  BY <1>16 DEF Elsewhere, Revise, TypeOK
<1>17. CASE Stop
  BY <1>17 DEF Stop, TypeOK
<1>18. CASE UNCHANGED vars
  BY <1>18 DEF vars, TypeOK
<1> QED
  BY <1>1, <1>2, <1>3, <1>4, <1>5, <1>6, <1>7, <1>8, <1>9, <1>10, <1>11, <1>12,
     <1>13, <1>14, <1>15, <1>16, <1>17, <1>18
     DEF Next, PollThread, Caller, Ui

----------------------------------------------------------------------------
\* The invariant's remaining parts, step by step.
LEMMA PollStep == FreshInv /\ [Next]_vars => FreshInv'
<1> SUFFICES ASSUME FreshInv, [Next]_vars PROVE FreshInv'
  OBVIOUS
<1> DEFINE Rest == CountersOK /\ CallersOK /\ ReadingOK /\ ServingOK /\ ServedIsFresh
<1>a. TypeOK /\ TypeOK'
  BY PollTypes DEF FreshInv
<1> SUFFICES Rest'
  BY <1>a DEF FreshInv
<1>b. /\ req \in Nat /\ host.rev \in Nat /\ cache.rev \in Nat
      /\ goodServiced \in Nat /\ poller.servicing \in Nat
      /\ poller.snap.rev \in Nat
      /\ \A c \in Callers : caller[c].edit \in Nat /\ caller[c].req \in Nat
  BY <1>a DEF TypeOK, Snapshots
<1>c. Rest
  BY DEF FreshInv
<1> USE <1>b, <1>c DEF CountersOK, CallersOK, ReadingOK, ServingOK, ServedIsFresh
<1>1. ASSUME NEW r \in SetupResults, Setup(r) PROVE Rest'
  BY <1>1, <1>a DEF Setup, TypeOK
<1>2. CASE Begin
  BY <1>2, <1>a DEF Begin, TypeOK
<1>3. ASSUME NEW ok \in ReadResults, Read(ok) PROVE Rest'
  BY <1>3, <1>a DEF Read, TypeOK
<1>4. CASE Publish
  BY <1>4, <1>a DEF Publish, Goto, TypeOK
<1>5. CASE Notify
  BY <1>5, <1>a DEF Notify, Goto, TypeOK
<1>6. CASE Bump
  BY <1>6, <1>a DEF Bump, Goto, TypeOK
<1>7. CASE Serve
  BY <1>7, <1>a DEF Serve, Goto, TypeOK
<1>8. CASE Wake
  BY <1>8, <1>a DEF Wake, Goto, TypeOK
<1>9. ASSUME NEW c \in Callers, NEW made \in SUBSET host.unborn, Edit(c, made)
      PROVE Rest'
  BY <1>9, <1>a DEF Edit, Revise, TypeOK
<1>10. ASSUME NEW c \in Callers, Register(c) PROVE Rest'
  BY <1>10, <1>a DEF Register, TypeOK
<1>11. ASSUME NEW c \in Callers, Return(c) PROVE Rest'
  BY <1>11, <1>a DEF Return, TypeOK
<1>12. ASSUME NEW c \in Callers, Finish(c) PROVE Rest'
  BY <1>12, <1>a DEF Finish, TypeOK
<1>13. CASE Tick
  BY <1>13 DEF Tick
<1>14. ASSUME NEW v \in Vms, OpenTab(v) PROVE Rest'
  BY <1>14 DEF OpenTab
<1>15. ASSUME NEW ok \in ConnectResults, RetryConnect(ok) PROVE Rest'
  BY <1>15, <1>a DEF RetryConnect, Goto, TypeOK
<1>16. ASSUME NEW v \in Vms, Elsewhere(v) PROVE Rest'
  BY <1>16 DEF Elsewhere, Revise
<1>17. CASE Stop
  BY <1>17 DEF Stop
<1>18. CASE UNCHANGED vars
  BY <1>18 DEF vars
<1> QED
  BY <1>1, <1>2, <1>3, <1>4, <1>5, <1>6, <1>7, <1>8, <1>9, <1>10, <1>11, <1>12,
     <1>13, <1>14, <1>15, <1>16, <1>17, <1>18
     DEF Next, PollThread, Caller, Ui
LEMMA FreshInvariant == Spec => []FreshInv
BY PollInit, PollStep, PTL DEF Spec

\* Every variable of the poll model keeps its type, whatever the bounds.
THEOREM PollTypeCorrect == Spec => []TypeOK
<1>1. FreshInv => TypeOK
  BY DEF FreshInv
<1> QED
  BY <1>1, FreshInvariant, PTL

\* KickPollAndWait: when the cycle that served a request did read the host,
\* the caller's edit is in the cache.
THEOREM ServedFreshness == Spec => []ServedIsFresh
<1>1. FreshInv => ServedIsFresh
  BY DEF FreshInv
<1> QED
  BY <1>1, FreshInvariant, PTL

----------------------------------------------------------------------------
(* Auto-close.  Guids are never used twice, so a VM that was in the cache   *)
(* and is on the host has been there ever since.                            *)

KnownInv ==
  /\ known \cap host.unborn = {}
  /\ host.vms \cap host.unborn = {}
  /\ known \cap host.vms \subseteq cache.vms
  /\ poller.pc = "publish"
       => /\ poller.snap.vms \cap host.unborn = {}
          /\ known \cap host.vms \subseteq poller.snap.vms

\* No tab is closed over a VM that was once cached and is still there.
Spares == (tabs \ tabs') \cap known \cap host.vms = {}

LEMMA KnownInit == Init => KnownInv
BY DEF Init, KnownInv

LEMMA KnownStep == TypeOK /\ KnownInv /\ [Next]_vars => KnownInv' /\ (Spares \/ UNCHANGED vars)
<1> SUFFICES ASSUME TypeOK, KnownInv, [Next]_vars
             PROVE  KnownInv' /\ (Spares \/ UNCHANGED vars)
  OBVIOUS
<1> USE DEF KnownInv, Spares
<1>1. ASSUME NEW r \in SetupResults, Setup(r) PROVE KnownInv' /\ Spares
  BY <1>1 DEF Setup, TypeOK
<1>2. ASSUME Begin PROVE KnownInv' /\ Spares
  BY <1>2 DEF Begin, TypeOK
<1>3. ASSUME NEW ok \in ReadResults, Read(ok) PROVE KnownInv' /\ Spares
  BY <1>3 DEF Read, TypeOK
<1>4. ASSUME Publish PROVE KnownInv' /\ Spares
  BY <1>4 DEF Publish, Goto, TypeOK
<1>5. ASSUME Notify \/ Bump \/ Serve \/ Wake PROVE KnownInv' /\ Spares
  BY <1>5 DEF Notify, Bump, Serve, Wake, Goto, TypeOK
<1>6. ASSUME NEW c \in Callers, NEW made \in SUBSET host.unborn, Edit(c, made)
      PROVE  KnownInv' /\ Spares
  BY <1>6 DEF Edit, Revise
<1>7. ASSUME NEW c \in Callers, Register(c) \/ Return(c) \/ Finish(c)
      PROVE  KnownInv' /\ Spares
  BY <1>7 DEF Register, Return, Finish
<1>8. ASSUME Tick PROVE KnownInv' /\ Spares
  BY <1>8 DEF Tick, Closable
<1>9. ASSUME NEW v \in Vms, OpenTab(v) PROVE KnownInv' /\ Spares
  BY <1>9 DEF OpenTab
<1>10. ASSUME NEW ok \in ConnectResults, RetryConnect(ok) PROVE KnownInv' /\ Spares
  BY <1>10 DEF RetryConnect, Goto, TypeOK
<1>11. ASSUME NEW v \in Vms, Elsewhere(v) PROVE KnownInv' /\ Spares
  BY <1>11 DEF Elsewhere, Revise
<1>12. ASSUME Stop PROVE KnownInv' /\ Spares
  BY <1>12 DEF Stop
<1>13. CASE UNCHANGED vars
  BY <1>13 DEF vars
<1> QED
  BY <1>1, <1>2, <1>3, <1>4, <1>5, <1>6, <1>7, <1>8, <1>9, <1>10, <1>11, <1>12,
     <1>13 DEF Next, PollThread, Caller, Ui

\* The auto-close of MainWindow::OnVmManagerChanged spares every VM that a
\* poll has shown once, however many of the reads fail.
THEOREM KnownTabsSpared == Spec => AutoCloseSparesKnown
<1>1. TypeOK /\ KnownInv /\ [Next]_vars => [Spares]_vars
  BY KnownStep
<1> QED
  BY <1>1, KnownInit, KnownStep, PollTypeCorrect, PTL DEF Spec, AutoCloseSparesKnown, Spares
=============================================================================
