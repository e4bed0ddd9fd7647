------------------------------ MODULE VmPoll -------------------------------
(***************************************************************************)
(* VMManager's polling thread and the two things the rest of the program    *)
(* believes about it: that KickPollAndWait returns with a cache no older    *)
(* than the caller's edit, and that a VM absent from the cache after the    *)
(* first poll has been deleted (MainWindow then closes its tab).            *)
(*                                                                          *)
(* Actors: the poll thread, one step per shared access; dialogs and job     *)
(* watchers, which edit the host and wait for a poll; the UI thread, which  *)
(* runs the queued ticks; and Hyper-V, on which VMs come and go.  The 1 s   *)
(* timed wait of the loop may end at any moment, so the kick itself only    *)
(* makes it end sooner and is not a variable.                               *)
(***************************************************************************)
EXTENDS Naturals, FiniteSets

CONSTANTS
  Vms,            \* VM guids; a guid is never used twice
  Callers,        \* dialogs and job watchers
  MaxRevision,    \* bound: changes of the host
  MaxTicks,       \* bound: ticks queued on the UI thread
  ConnectResults, \* what TryConnect may return
  SetupResults,   \* what the poll thread's own WMI setup may come to
  ReadResults,    \* what GetSummaryInformation may come to
  WaitsMayExpire  \* whether a KickPollAndWait may run into its time-out

ASSUME BoundsAssumption  == MaxRevision \in Nat /\ MaxTicks \in Nat
ASSUME ResultsAssumption ==
  /\ ConnectResults \subseteq BOOLEAN
  /\ SetupResults \subseteq {"ok", "noService", "throws"}
  /\ ReadResults \subseteq BOOLEAN
  /\ WaitsMayExpire \in BOOLEAN

VARIABLES
  host,      \* Hyper-V: its revision, the VMs it has, the guids it never had
  cache,     \* m_vms, with the revision of the host it was read at
  status,    \* m_connectStatus is Ok
  poller,    \* the poll thread
  polled,    \* m_pollGen > 0
  req,       \* m_pollReq
  serviced,  \* m_pollServiced
  stop,      \* m_stop
  caller,    \* the callers of KickPollAndWait
  ticks,     \* ticks queued on the UI thread
  tabs,      \* VMs with an open tab
  welcome,   \* WelcomePage: m_firstSnapshotRendered and what it shows
  goodServiced, \* history: the last request published by a cycle that read
  known      \* history: VMs that have been in the cache

vars == <<host, cache, status, poller, polled, req, serviced, stop, caller,
          ticks, tabs, welcome, goodServiced, known>>

----------------------------------------------------------------------------
PollSteps   == {"off", "setup", "begin", "read", "publish", "notify", "bump",
                "serve", "wait", "exited"}
CallerSteps == {"idle", "edited", "waiting", "returned"}
Snapshots   == [rev : Nat, vms : SUBSET Vms]
NeverRead   == [rev |-> 0, vms |-> {}]

\* Of the poll thread: vsms ("service"), the request it serves, what UpdateAll
\* read and whether it read anything.  Of a caller: the host's revision after
\* its edit and the VM it made, if any.
TypeOK ==
  /\ host \in [rev : Nat, vms : SUBSET Vms, unborn : SUBSET Vms]
  /\ cache \in Snapshots
  /\ poller \in [pc : PollSteps, service : BOOLEAN, servicing : Nat,
                 snap : Snapshots, ok : BOOLEAN]
  /\ caller \in [Callers -> [pc : CallerSteps, edit : Nat, made : SUBSET Vms,
                             req : Nat]]
  /\ status \in BOOLEAN /\ polled \in BOOLEAN /\ stop \in BOOLEAN
  /\ req \in Nat /\ serviced \in Nat /\ goodServiced \in Nat
  /\ ticks \in 0..MaxTicks /\ tabs \subseteq Vms /\ known \subseteq Vms
  /\ welcome \in [rendered : BOOLEAN, view : {"error", "loading", "list"}]

\* The welcome page's view of the local VMs.
RenderAllVms(connected, rendered, firstSnapshot) ==
  CASE ~connected -> "error"
    [] connected /\ (rendered \/ firstSnapshot) -> "list"
    [] OTHER -> "loading"

Init ==
  /\ \E present \in SUBSET Vms, unborn \in SUBSET Vms :
       /\ present \cap unborn = {}
       /\ host = [rev |-> 1, vms |-> present, unborn |-> unborn]
       /\ tabs \in SUBSET (Vms \ unborn)      \* RestoreOpenTabs gates on nothing
  /\ cache = NeverRead
  /\ status \in ConnectResults
  /\ poller = [pc |-> IF status THEN "setup" ELSE "off", service |-> FALSE,
               servicing |-> 0, snap |-> NeverRead, ok |-> FALSE]
  /\ polled = FALSE /\ req = 0 /\ serviced = 0 /\ stop = FALSE
  /\ caller = [c \in Callers |->
                 [pc |-> "idle", edit |-> 0, made |-> {}, req |-> 0]]
  /\ ticks = 0 /\ goodServiced = 0 /\ known = {}
  /\ welcome = [rendered |-> FALSE, view |-> RenderAllVms(status, FALSE, FALSE)]

----------------------------------------------------------------------------
(* Hyper-V, changed from outside the program.                               *)

Revise(vms, unborn) ==
  /\ host.rev < MaxRevision
  /\ host' = [rev |-> host.rev + 1, vms |-> vms, unborn |-> unborn]

\* A VM is created or deleted with some other tool.
Elsewhere(v) ==
  /\ \/ v \in host.vms /\ Revise(host.vms \ {v}, host.unborn)
     \/ v \in host.unborn /\ Revise(host.vms \cup {v}, host.unborn \ {v})
  /\ UNCHANGED <<cache, status, poller, polled, req, serviced, stop, caller,
                 ticks, tabs, welcome, goodServiced, known>>

----------------------------------------------------------------------------
(* The poll thread.                                                         *)

Goto(pc) == poller' = [poller EXCEPT !.pc = pc]

\* The thread's own scope and management service.  The service's singleton
\* is missing on a host without VMs; an exception ends the thread.
Setup(result) ==
  /\ poller.pc = "setup"
  /\ result = "noService" => host.vms = {}
  /\ poller' = [poller EXCEPT !.pc = IF result = "throws" THEN "exited" ELSE "begin",
                              !.service = result = "ok"]
  /\ UNCHANGED <<host, cache, status, polled, req, serviced, stop, caller,
                 ticks, tabs, welcome, goodServiced, known>>

\* Snapshot the request counter before the cycle reads anything.
Begin ==
  /\ poller.pc = "begin"
  /\ poller' = [poller EXCEPT !.pc = "read", !.servicing = req]
  /\ UNCHANGED <<host, cache, status, polled, req, serviced, stop, caller,
                 ticks, tabs, welcome, goodServiced, known>>

\* Mutation: a failed read publishes the empty list it was about to fill.
ReadPublishesEmpty(ok) ==
  /\ poller.pc = "read"
  /\ poller' = [poller EXCEPT !.pc = "publish", !.ok = ok /\ poller.service,
                  !.snap = [rev |-> host.rev,
                            vms |-> IF ok /\ poller.service THEN host.vms ELSE {}]]
  /\ UNCHANGED <<host, cache, status, polled, req, serviced, stop, caller,
                 ticks, tabs, welcome, goodServiced, known>>

\* UpdateAll reads the host; without the service, or on an error, it returns
\* before it publishes anything.
Read(ok) ==
  /\ poller.pc = "read"
  /\ poller' = IF ok /\ poller.service
               THEN [poller EXCEPT !.pc = "publish", !.ok = TRUE,
                       !.snap = [rev |-> host.rev, vms |-> host.vms]]
               ELSE [poller EXCEPT !.pc = "notify", !.ok = FALSE]
  /\ UNCHANGED <<host, cache, status, polled, req, serviced, stop, caller,
                 ticks, tabs, welcome, goodServiced, known>>

Publish ==
  /\ poller.pc = "publish"
  /\ cache' = poller.snap
  /\ known' = known \cup poller.snap.vms
  /\ Goto("notify")
  /\ UNCHANGED <<host, status, polled, req, serviced, stop, caller, ticks,
                 tabs, welcome, goodServiced>>

\* Mutation: only a cycle that published something notifies.
NotifyIfPublished ==
  /\ poller.pc = "notify"
  /\ ticks < MaxTicks
  /\ ticks' = ticks + (IF poller.ok THEN 1 ELSE 0)
  /\ Goto("bump")
  /\ UNCHANGED <<host, cache, status, polled, req, serviced, stop, caller,
                 tabs, welcome, goodServiced, known>>

\* Mutation: only the first cycle notifies.
NotifyOnce ==
  /\ poller.pc = "notify"
  /\ ticks < MaxTicks
  /\ ticks' = ticks + (IF polled THEN 0 ELSE 1)
  /\ Goto("bump")
  /\ UNCHANGED <<host, cache, status, polled, req, serviced, stop, caller,
                 tabs, welcome, goodServiced, known>>

\* NotifyChanged queues one tick on the UI thread, whatever UpdateAll did.
Notify ==
  /\ poller.pc = "notify"
  /\ ticks < MaxTicks
  /\ ticks' = ticks + 1
  /\ Goto("bump")
  /\ UNCHANGED <<host, cache, status, polled, req, serviced, stop, caller,
                 tabs, welcome, goodServiced, known>>

Bump ==
  /\ poller.pc = "bump"
  /\ polled' = TRUE
  /\ Goto("serve")
  /\ UNCHANGED <<host, cache, status, req, serviced, stop, caller, ticks,
                 tabs, welcome, goodServiced, known>>

\* Mutation: publishes the counter as it is at the end of the cycle.
ServeLatest ==
  /\ poller.pc = "serve"
  /\ serviced' = req
  /\ goodServiced' = IF poller.ok THEN req ELSE goodServiced
  /\ Goto("wait")
  /\ UNCHANGED <<host, cache, status, polled, req, stop, caller, ticks, tabs,
                 welcome, known>>

Serve ==
  /\ poller.pc = "serve"
  /\ serviced' = poller.servicing
  /\ goodServiced' = IF poller.ok THEN poller.servicing ELSE goodServiced
  /\ Goto("wait")
  /\ UNCHANGED <<host, cache, status, polled, req, stop, caller, ticks, tabs,
                 welcome, known>>

\* The timed wait ends: stopped, kicked, or after kPollIntervalMs.
Wake ==
  /\ poller.pc = "wait"
  /\ Goto(IF stop THEN "exited" ELSE "begin")
  /\ UNCHANGED <<host, cache, status, polled, req, serviced, stop, caller,
                 ticks, tabs, welcome, goodServiced, known>>

\* ~VMManager, at the end of the process; it then joins the thread.
Stop ==
  /\ stop' = TRUE
  /\ UNCHANGED <<host, cache, status, poller, polled, req, serviced, caller,
                 ticks, tabs, welcome, goodServiced, known>>

----------------------------------------------------------------------------
(* Callers of KickPollAndWait.                                              *)

\* The edit itself: a Set* call or a job's effect, or a VM created.
Edit(c, made) ==
  /\ caller[c].pc = "idle"
  /\ made \subseteq host.unborn /\ Cardinality(made) <= 1
  /\ Revise(host.vms \cup made, host.unborn \ made)
  /\ caller' = [caller EXCEPT ![c] =
                  [pc |-> "edited", edit |-> host.rev + 1, made |-> made,
                   req |-> 0]]
  /\ UNCHANGED <<cache, status, poller, polled, req, serviced, stop, ticks,
                 tabs, welcome, goodServiced, known>>

Register(c) ==
  /\ caller[c].pc = "edited"
  /\ req' = req + 1
  /\ caller' = [caller EXCEPT ![c] =
                  [pc |-> "waiting", edit |-> @.edit, made |-> @.made,
                   req |-> req + 1]]
  /\ UNCHANGED <<host, cache, status, poller, polled, serviced, stop, ticks,
                 tabs, welcome, goodServiced, known>>

Served(c) == serviced >= caller[c].req

\* The wait ends; NewVmDialog's caller then opens a tab for the VM it made.
Return(c) ==
  /\ caller[c].pc = "waiting"
  /\ Served(c) \/ WaitsMayExpire
  /\ caller' = [caller EXCEPT ![c].pc = "returned"]
  /\ UNCHANGED <<host, cache, status, poller, polled, req, serviced, stop,
                 ticks, tabs, welcome, goodServiced, known>>

Finish(c) ==
  /\ caller[c].pc = "returned"
  /\ tabs' = tabs \cup caller[c].made
  /\ caller' = [caller EXCEPT ![c] =
                  [pc |-> "idle", edit |-> 0, made |-> {}, req |-> 0]]
  /\ UNCHANGED <<host, cache, status, poller, polled, req, serviced, stop,
                 ticks, welcome, goodServiced, known>>

----------------------------------------------------------------------------
(* The UI thread.                                                           *)

\* The tabs a tick closes: their VM is not in the cache of a completed poll.
Closable == IF polled THEN tabs \ cache.vms ELSE {}

\* MainWindow::OnVmManagerChanged and the WelcomePage's.
Tick ==
  /\ ticks > 0
  /\ ticks' = ticks - 1
  /\ tabs' = tabs \ Closable
  /\ welcome' = [rendered |-> TRUE, view |-> RenderAllVms(status, TRUE, polled)]
  /\ UNCHANGED <<host, cache, status, poller, polled, req, serviced, stop,
                 caller, goodServiced, known>>

\* The rail and the welcome page offer the VMs of the cache.
OpenTab(v) ==
  /\ v \in cache.vms
  /\ tabs' = tabs \cup {v}
  /\ UNCHANGED <<host, cache, status, poller, polled, req, serviced, stop,
                 caller, ticks, welcome, goodServiced, known>>

\* WelcomePage::OnRetryConnectClick: RetryConnect, then the spinner again.
\* The button belongs to the connection-error panel.
RetryConnect(ok) ==
  /\ ~status
  /\ ok
  /\ status' = TRUE
  /\ IF poller.pc = "off" THEN Goto("setup") ELSE UNCHANGED poller
  /\ welcome' = [rendered |-> FALSE, view |-> RenderAllVms(TRUE, FALSE, polled)]
  /\ UNCHANGED <<host, cache, polled, req, serviced, stop, caller, ticks,
                 tabs, goodServiced, known>>

----------------------------------------------------------------------------
PollThread ==
  \/ \E r \in SetupResults : Setup(r)
  \/ Begin
  \/ \E ok \in ReadResults : Read(ok)
  \/ Publish \/ Notify \/ Bump \/ Serve \/ Wake

Caller(c) ==
  \/ \E made \in SUBSET host.unborn : Edit(c, made)
  \/ Register(c) \/ Return(c) \/ Finish(c)

Ui ==
  \/ Tick
  \/ \E v \in Vms : OpenTab(v)
  \/ \E ok \in ConnectResults : RetryConnect(ok)

Next ==
  \/ PollThread
  \/ \E c \in Callers : Caller(c)
  \/ Ui
  \/ \E v \in Vms : Elsewhere(v)
  \/ Stop

Spec == Init /\ [][Next]_vars

\* The poll thread runs, and so do the UI thread and the callers.  Users,
\* other tools and the end of the process are owed nothing.
ThreadFairness ==
  /\ WF_vars(PollThread)
  /\ WF_vars(Tick)
  /\ \A c \in Callers : WF_vars(Register(c) \/ Return(c) \/ Finish(c))

LiveSpec == Spec /\ ThreadFairness

----------------------------------------------------------------------------
(* Properties.                                                              *)

\* A wait that a cycle which read the host has served leaves the caller with
\* a cache that holds its edit: the hand-shake of m_pollReq and
\* m_pollServiced, whatever cycle was in flight when the request was made.
ServedIsFresh ==
  \A c \in Callers :
    (caller[c].pc = "waiting" /\ goodServiced >= caller[c].req)
      => cache.rev >= caller[c].edit

\* A VM that has once been in the cache loses its tab only if it was deleted,
\* whatever fails: a failed read never looks like an empty host.
AutoCloseSparesKnown == [][(tabs \ tabs') \cap known \cap host.vms = {}]_vars

\* Hyper-V does not fail every read for ever, nor the thread's own set-up: what
\* the two properties below ask of the world.
ReadsSucceed == []<>(poller.ok)

\* The tab of a deleted VM goes away, although a tick that runs before
\* m_pollGen is bumped closes nothing.
DeletedTabsClose ==
  ReadsSucceed =>
    \A v \in Vms :
      (v \in tabs /\ v \notin host.vms /\ status /\ ~stop) ~> (v \notin tabs \/ stop)

\* A VM on the host ends up in the cache, where the rail and the tabs look,
\* also when Hyper-V became reachable only after a Retry.
HostVmsAppear ==
  \A v \in Vms :
    (v \in host.vms /\ status /\ ~stop)
      ~> (v \in cache.vms \/ v \notin host.vms \/ stop)

\* The cold-start spinner ends, even if every UpdateAll fails, unless the
\* thread's own set-up threw: it then ends without a word, and the spinner
\* goes on (VMManager.cpp:5718).
LoadingEnds ==
  (welcome.view = "loading" /\ ~stop)
    ~> (welcome.view # "loading" \/ stop \/ poller.pc = "exited")

\* A launch settles: the spinner ends, and the list has the host's VMs if the
\* reads succeed from some time on (ThreadProc, WelcomePage::RenderAllVms).
LaunchSettles == LoadingEnds /\ (ReadsSucceed => HostVmsAppear)
=============================================================================
