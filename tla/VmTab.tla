------------------------------- MODULE VmTab -------------------------------
(***************************************************************************)
(* One VM tab (VmTabPage): the state machine that decides, on the UI        *)
(* thread, when an rdphost child is spawned, stopped or respawned, what the *)
(* placeholder shows, and when the child's popup window may be visible.     *)
(*                                                                          *)
(* The page is driven by four sources that interleave freely: the child's   *)
(* events, which the receive thread enqueues on the UI queue; the poll      *)
(* thread, which replaces the cached VM and enqueues a "changed" tick; the  *)
(* reconnect timer and the time-outs; and the user (tab strip, dialogs,     *)
(* Start, Retry, Close).  Every handler of the page is an operator from one *)
(* page state to the next, composed the way the handlers call each other;   *)
(* one action runs one handler to its end, as the UI thread does.           *)
(***************************************************************************)
EXTENDS Naturals, Sequences

CONSTANTS
  MaxQueue,            \* bound: UI work items queued at a time
  MaxConnectFailures,  \* kMaxConnectFailures
  VmViews,             \* what the poll may report of the VM
  EnhancedViews,       \* values of "enhanced available and wanted by the user"
  SpawnOutcomes,       \* what a spawn may come to
  UserActs,            \* which optional user operations occur
  PollPeriod,          \* kPollIntervalMs, in units of time
  UpgradeDelay,        \* the delays of ScheduleReconnect in the same units: before
  RetryDelay,          \*   an upgrade, before another basic (or early) attempt,
  EnhancedRetryDelay   \*   and before another enhanced attempt

ASSUME QueueAssumption    == MaxQueue \in Nat \ {0}
ASSUME FailuresAssumption == MaxConnectFailures \in Nat \ {0}
ASSUME ViewsAssumption ==
  /\ VmViews \subseteq {"missing", "stopped", "job", "changing", "running"}
  /\ EnhancedViews \subseteq BOOLEAN
  /\ SpawnOutcomes \subseteq {"connecting", "failed", "none"}
  /\ UserActs \subseteq {"deselect", "dialog", "settings", "close"}
ASSUME TimesAssumption ==
  {PollPeriod, UpgradeDelay, RetryDelay, EnhancedRetryDelay} \subseteq Nat

VARIABLES
  page,   \* the VmTabPage object (and the window and session of its child)
  vm,     \* VMManager's cached view of the VM; "unpolled" before the first poll
  usable, \* enhancedSessionAvailable and the user's preference
  uiq,    \* the UI dispatcher queue, restricted to what concerns this page
  life,   \* "open" in the tab strip, "closed" but retained, "gone" (released)
  untilPoll  \* time left of the poll thread's wait

vars == <<page, vm, usable, uiq, life, untilPoll>>

----------------------------------------------------------------------------
(* The page's state.  "host" is the client and what its child is doing:     *)
(* "none" is a null m_client; "failed" a client whose ConnectLocalVm        *)
(* returned false; "exited" one whose process died.  A latch with a         *)
(* timestamp is "no", "fresh" or "expired" (older than its time-out).       *)
(* "reconnectIn" is what is left of the delay of an armed reconnect timer.  *)

Hosts  == {"none", "failed", "connecting", "live", "dropped", "exited"}
Latch  == {"no", "fresh", "expired"}
Placeholders == {"loading", "missing", "status", "start", "starting",
                 "connecting", "error", "session"}

PageState ==
  [host: Hosts, connected: BOOLEAN, everConnected: BOOLEAN,
   everEnhanced: BOOLEAN, wantedEnhanced: BOOLEAN, enhancedReady: BOOLEAN,
   cooldown: BOOLEAN, hadConnectError: BOOLEAN, connectFailures: Nat,
   pendingConnect: Latch, startRequested: Latch, reconnectTimer: BOOLEAN, reconnectIn: Nat,
   placeholder: Placeholders, wantsVisible: BOOLEAN, deferredShow: BOOLEAN,
   popupSuppressed: BOOLEAN, shown: BOOLEAN, pinned: BOOLEAN,
   border: {"unmounted", "pending", "measured"}, loaded: BOOLEAN]

Events == {"changed", "connected", "connectedEnhanced", "enhancedReady",
           "disconnected", "disconnectedFatal", "error"}

HasClient(p) == p.host # "none"
HasWindow(p) == p.host \in {"connecting", "live", "dropped"}
Running      == vm = "running"

----------------------------------------------------------------------------
(* The popup window: RdpHostClient::Show / Hide act on the child's HWND.    *)

Show(p) == [p EXCEPT !.shown = HasWindow(p)]
Hide(p) == [p EXCEPT !.shown = FALSE]

\* Move the popup onto the Border; does nothing while it has no layout.
UpdateRdphostBounds(p) ==
  [p EXCEPT !.pinned = @ \/ (HasClient(p) /\ p.border = "measured")]

ShowPopup(p) ==
  LET wanted == [p EXCEPT !.wantsVisible = TRUE]
      ready  == ~p.popupSuppressed /\ HasClient(p) /\ p.connected
  IN CASE ~ready -> wanted
       [] ready /\ p.border = "measured" ->
            [Show(UpdateRdphostBounds(wanted)) EXCEPT !.deferredShow = FALSE]
       [] OTHER -> [wanted EXCEPT !.deferredShow = TRUE]

HidePopup(p) ==
  Hide([p EXCEPT !.wantsVisible = FALSE, !.deferredShow = FALSE])

\* Mutation: the last dialog closes and nothing re-runs the show.
SetPopupSuppressedNoReshow(p, suppressed) ==
  LET q == [p EXCEPT !.popupSuppressed = suppressed]
  IN IF suppressed THEN Hide(q) ELSE q

SetPopupSuppressed(p, suppressed) ==
  LET q == [p EXCEPT !.popupSuppressed = suppressed]
  IN CASE suppressed -> Hide(q)
       [] ~suppressed /\ p.wantsVisible -> ShowPopup(q)
       [] OTHER -> q

\* Mutation: the deferred show forgets the dialog.
ResolveDeferredShowOverDialog(p) ==
  IF HasClient(p) /\ p.wantsVisible /\ p.connected /\ p.deferredShow
  THEN [Show(p) EXCEPT !.deferredShow = FALSE]
  ELSE p

\* The deferred show, once the Border has a size.
ResolveDeferredShow(p) ==
  IF /\ HasClient(p) /\ p.wantsVisible /\ p.connected
     /\ p.deferredShow /\ ~p.popupSuppressed
  THEN [Show(p) EXCEPT !.deferredShow = FALSE]
  ELSE p

----------------------------------------------------------------------------
(* The client's life.                                                       *)

TearDownClient(p) ==
  IF HasClient(p)
  THEN [Hide(p) EXCEPT !.host = "none", !.connected = FALSE,
                       !.deferredShow = FALSE, !.pinned = FALSE]
  ELSE p

\* Stops and drops the client, and nothing else.
ShutdownClient(p) == [Hide(p) EXCEPT !.host = "none", !.pinned = FALSE]

\* Stops the one-shot timer and starts it again: arming it once more postpones it.
ScheduleReconnect(p, delay) ==
  [p EXCEPT !.reconnectTimer = TRUE, !.reconnectIn = delay]

WantEnhanced(p) == usable /\ ~p.cooldown

\* Mutation: every new child starts the count of failures over.
StartConnectionForgetsFailures(p, outcome) ==
  IF HasClient(p) \/ outcome = "none"
  THEN p
  ELSE [p EXCEPT !.host = outcome, !.connectFailures = 0,
                 !.wantedEnhanced = WantEnhanced(p),
                 !.enhancedReady = FALSE,
                 !.pinned = p.border = "measured"]

\* "outcome" is how far ConnectLocalVm got: "none" when there is no
\* rdphost.exe to spawn.
StartConnection(p, outcome) ==
  IF HasClient(p) \/ outcome = "none"
  THEN p
  ELSE [p EXCEPT !.host = outcome,
                 !.wantedEnhanced = WantEnhanced(p),
                 !.enhancedReady = FALSE,
                 !.pinned = p.border = "measured"]

WantClient(p) == Running \/ p.pendingConnect # "no"

\* The optimistic-start latch ends when the VM runs or after 25 s.
AgePendingConnect(p) ==
  IF Running \/ p.pendingConnect = "expired"
  THEN [p EXCEPT !.pendingConnect = "no"]
  ELSE p

ForgetConnectError(p) ==
  [p EXCEPT !.hadConnectError = FALSE, !.connectFailures = 0]

DriveClient(p, outcome) ==
  LET waiting == IF Running THEN "connecting" ELSE "starting"
  IN CASE ~HasClient(p) ->
            StartConnection([p EXCEPT !.placeholder =
                               IF Running THEN "session" ELSE "starting"],
                            outcome)
       [] HasClient(p) /\ p.connected -> [p EXCEPT !.placeholder = "session"]
       [] OTHER -> [p EXCEPT !.placeholder = waiting]

DriveStopped(p) ==
  LET requested == IF vm = "job" \/ p.startRequested = "expired"
                   THEN "no" ELSE p.startRequested
  IN [TearDownClient(p) EXCEPT
        !.startRequested = requested,
        !.placeholder = IF vm = "stopped" /\ requested = "no"
                        THEN "start" ELSE "status"]

UpdatePlaceholderAndClient(p, outcome) ==
  LET aged    == AgePendingConnect(p)
      cleared == IF aged.hadConnectError THEN ForgetConnectError(aged) ELSE aged
  IN CASE vm = "unpolled" -> [TearDownClient(p) EXCEPT !.placeholder = "loading"]
       [] vm = "missing"  -> [TearDownClient(p) EXCEPT !.placeholder = "missing"]
       [] OTHER ->
            CASE WantClient(aged) /\ aged.hadConnectError ->
                   [TearDownClient(aged) EXCEPT !.placeholder = "error"]
              [] WantClient(aged) /\ ~aged.hadConnectError ->
                   DriveClient(aged, outcome)
              [] OTHER -> DriveStopped(cleared)

\* Both ways to force a fresh child while the VM is to be connected.
Respawn(p, outcome) == UpdatePlaceholderAndClient(TearDownClient(p), outcome)

DoReconnect(p, outcome) ==
  IF WantClient(p)
  THEN Respawn(p, outcome)
  ELSE UpdatePlaceholderAndClient(p, outcome)

ReapplyConnectionSettings(p, outcome) ==
  IF HasClient(p) THEN Respawn(p, outcome) ELSE p

\* Mutation: the error view is shown over a child left running.
ShowConnectErrorKeepsChild(p) ==
  [p EXCEPT !.hadConnectError = TRUE, !.placeholder = "error"]

ShowConnectError(p) ==
  [TearDownClient(p) EXCEPT !.hadConnectError = TRUE, !.placeholder = "error"]

----------------------------------------------------------------------------
(* The handlers the UI queue runs.                                          *)

Upgradable(p) ==
  HasClient(p) /\ p.connected /\ ~p.wantedEnhanced /\ Running /\ WantEnhanced(p)

\* Mutation: the upgrade waits as long as an enhanced retry does.
OnVmManagerChangedPatient(p, outcome) ==
  UpdatePlaceholderAndClient(
    IF Upgradable(p) THEN ScheduleReconnect(p, EnhancedRetryDelay) ELSE p, outcome)

\* Mutation: a tick that does not see the VM running drops the start latch.
OnVmManagerChangedDropsLatch(p, outcome) ==
  UpdatePlaceholderAndClient([p EXCEPT !.pendingConnect = "no"], outcome)

\* Mutation: a tab in the background ignores the ticks.
OnVmManagerChangedWhenMounted(p, outcome) ==
  IF p.border = "unmounted" THEN p ELSE UpdatePlaceholderAndClient(p, outcome)

OnVmManagerChanged(p, outcome) ==
  UpdatePlaceholderAndClient(
    IF Upgradable(p) THEN ScheduleReconnect(p, UpgradeDelay) ELSE p, outcome)

OnConnected(p, enhanced, outcome) ==
  LET live == [ForgetConnectError(p) EXCEPT
                 !.connected = TRUE, !.everConnected = TRUE,
                 !.everEnhanced = @ \/ enhanced]
      q    == UpdatePlaceholderAndClient(live, outcome)
  IN IF q.wantsVisible /\ HasClient(q) /\ ~q.popupSuppressed
     THEN Show(UpdateRdphostBounds(q))
     ELSE q

OnEnhancedReady(p) ==
  UpdateRdphostBounds(
    [p EXCEPT !.enhancedReady = TRUE, !.everEnhanced = TRUE])

EverLive(p) == p.connected \/ p.everConnected

TooManyFailures(n) == n >= MaxConnectFailures

EnhancedNeverCameUp(p) ==
  p.wantedEnhanced /\ ~p.enhancedReady /\ ~p.everEnhanced

OnDisconnected(p, fatal, outcome) ==
  LET everLive == EverLive(p)
      counted  == IF everLive THEN 0
                  ELSE p.connectFailures + (IF fatal THEN 1 ELSE 0)
      down     == Hide([p EXCEPT
                    !.connected = FALSE,
                    !.cooldown = @ \/ EnhancedNeverCameUp(p),
                    !.enhancedReady = FALSE])
      tallied  == [down EXCEPT !.connectFailures = counted]
      giveUp   == fatal /\ ~everLive /\ TooManyFailures(counted)
      delay    == IF p.wantedEnhanced THEN EnhancedRetryDelay ELSE RetryDelay
  IN CASE Running /\ giveUp                       -> ShowConnectError(tallied)
       [] Running /\ ~giveUp                      -> ScheduleReconnect(tallied, delay)
       [] ~Running /\ p.pendingConnect # "no"     -> ScheduleReconnect(down, RetryDelay)
       [] OTHER -> UpdatePlaceholderAndClient(down, outcome)

OnError(p) == ShowConnectError(p)

Handle(e, p, outcome) ==
  CASE e = "changed" /\ life = "open" -> OnVmManagerChanged(p, outcome)
    [] e = "changed" /\ life # "open" -> p
    [] e = "connected"         -> OnConnected(p, FALSE, outcome)
    [] e = "connectedEnhanced" -> OnConnected(p, TRUE, outcome)
    [] e = "enhancedReady"     -> OnEnhancedReady(p)
    [] e = "disconnected"      -> OnDisconnected(p, FALSE, outcome)
    [] e = "disconnectedFatal" -> OnDisconnected(p, TRUE, outcome)
    [] OTHER                   -> OnError(p)

----------------------------------------------------------------------------
(* Layout and the user's clicks.                                            *)

\* MainWindow::CloseTabItem on this page.
CloseTabItem(p) == [ShutdownClient(HidePopup(p)) EXCEPT !.border = "unmounted"]

OnLoaded(p, outcome) ==
  ResolveDeferredShow(UpdateRdphostBounds(
    UpdatePlaceholderAndClient([p EXCEPT !.loaded = TRUE], outcome)))

OnRdpHostSizeChanged(p) == ResolveDeferredShow(UpdateRdphostBounds(p))

OnPlaceholderStartClick(p, outcome) ==
  UpdatePlaceholderAndClient(
    [ForgetConnectError(p) EXCEPT
       !.startRequested = "fresh", !.pendingConnect = "fresh",
       !.placeholder = "starting"], outcome)

OnPlaceholderRetryClick(p, outcome) ==
  UpdatePlaceholderAndClient(ForgetConnectError(p), outcome)

----------------------------------------------------------------------------
(* The initial page: the tab was just opened or restored.                   *)

InitPage ==
  [host |-> "none", connected |-> FALSE, everConnected |-> FALSE,
   everEnhanced |-> FALSE, wantedEnhanced |-> FALSE, enhancedReady |-> FALSE,
   cooldown |-> FALSE, hadConnectError |-> FALSE, connectFailures |-> 0,
   pendingConnect |-> "no", startRequested |-> "no", reconnectTimer |-> FALSE,
   reconnectIn |-> 0,
   placeholder |-> "loading", wantsVisible |-> FALSE, deferredShow |-> FALSE,
   popupSuppressed |-> FALSE, shown |-> FALSE, pinned |-> FALSE,
   border |-> "unmounted", loaded |-> FALSE]

Init ==
  /\ page = InitPage
  /\ vm \in VmViews \cup {"unpolled"}
  /\ usable \in EnhancedViews
  /\ uiq = <<>>
  /\ life = "open"
  /\ untilPoll = 0

----------------------------------------------------------------------------
(* Actions of the other threads and of the child.                           *)

Enqueue(e) ==
  /\ Len(uiq) < MaxQueue
  /\ uiq' = Append(uiq, e)

\* The cached VM is replaced and the pages are notified.
Notify ==
  /\ vm' \in VmViews
  /\ usable' \in EnhancedViews
  /\ Enqueue("changed")
  /\ UNCHANGED <<page, life>>

\* The poll thread's wait is over; it always notifies, and waits again.
Poll ==
  /\ untilPoll = 0
  /\ Notify
  /\ untilPoll' = PollPeriod

\* A notification out of turn: a WMI event or a finished operation kicks the
\* poll, which restarts its wait, or a pending mark changes, which does not.
Kick ==
  /\ untilPoll > 0
  /\ Notify
  /\ untilPoll' \in {untilPoll, PollPeriod}

\* The child reports a change of its session; rx marshals it.
HostEvent(from, to, e) ==
  /\ page.host = from
  /\ page' = [page EXCEPT !.host = to]
  /\ Enqueue(e)
  /\ UNCHANGED <<vm, usable, life, untilPoll>>

HostConnects ==
  \/ HostEvent("connecting", "live", "connected")
  \/ page.wantedEnhanced /\ HostEvent("connecting", "live", "connectedEnhanced")

HostLogsIn == page.wantedEnhanced /\ HostEvent("live", "live", "enhancedReady")

HostDrops ==
  \E from \in {"connecting", "live"}, e \in {"disconnected", "disconnectedFatal"} :
    HostEvent(from, "dropped", e)

HostReportsError == HostEvent("connecting", "dropped", "error")

\* The process dies on its own; OnChildExited only logs, so nothing is queued
\* that the page acts on.  Its window dies with it.
HostExits ==
  /\ HasWindow(page)
  /\ page' = [page EXCEPT !.host = "exited", !.shown = FALSE]
  /\ UNCHANGED <<vm, usable, uiq, life, untilPoll>>

----------------------------------------------------------------------------
(* Actions of the UI thread.                                                *)

UiStep(next) ==
  /\ life # "gone"
  /\ page' = next
  /\ UNCHANGED <<vm, usable, untilPoll>>

\* Before a tick reaches the pages, MainWindow closes the tab of a deleted VM.
AutoCloses == Head(uiq) = "changed" /\ vm = "missing" /\ life = "open"

Dispatch ==
  /\ uiq # <<>>
  /\ uiq' = Tail(uiq)
  /\ IF AutoCloses
     THEN life' = "closed" /\ UiStep(CloseTabItem(page))
     ELSE /\ \E outcome \in SpawnOutcomes :
               UiStep(Handle(Head(uiq), page, outcome))
          /\ UNCHANGED life

TimerDue == life # "gone" /\ page.reconnectTimer /\ page.reconnectIn = 0

ReconnectTick ==
  /\ TimerDue
  /\ \E outcome \in SpawnOutcomes :
       UiStep(DoReconnect([page EXCEPT !.reconnectTimer = FALSE], outcome))
  /\ UNCHANGED <<uiq, life>>

\* Time passes for the armed timer and the waiting poll thread.  It does not pass
\* a due timer: the UI thread runs its handler within a unit.
Elapse ==
  LET less(n) == IF n = 0 THEN 0 ELSE n - 1
  IN /\ ~TimerDue
     /\ page.reconnectIn + untilPoll > 0
     /\ page' = [page EXCEPT !.reconnectIn = less(@)]
     /\ untilPoll' = less(untilPoll)
     /\ UNCHANGED <<vm, usable, uiq, life>>

\* A time-out that the next handler will read has run out.
CooldownExpires ==
  /\ page.cooldown
  /\ UiStep([page EXCEPT !.cooldown = FALSE])
  /\ UNCHANGED <<uiq, life>>

PendingConnectExpires ==
  /\ page.pendingConnect = "fresh"
  /\ UiStep([page EXCEPT !.pendingConnect = "expired"])
  /\ UNCHANGED <<uiq, life>>

StartRequestExpires ==
  /\ page.startRequested = "fresh"
  /\ UiStep([page EXCEPT !.startRequested = "expired"])
  /\ UNCHANGED <<uiq, life>>

InTabStrip(next) ==
  /\ life = "open"
  /\ UiStep(next)
  /\ UNCHANGED <<uiq, life>>

\* MainWindow selects this tab: mounts it and asks for its popup, before layout.
Activate ==
  /\ page.border = "unmounted"
  /\ InTabStrip(ShowPopup([page EXCEPT !.border = "pending", !.pinned = FALSE]))

Deactivate ==
  /\ "deselect" \in UserActs
  /\ page.border # "unmounted"
  /\ InTabStrip([HidePopup(page) EXCEPT !.border = "unmounted"])

\* First mount: Loaded, sometimes before the first arrange pass.
Load ==
  /\ page.border = "pending" /\ ~page.loaded
  /\ \E b \in {"pending", "measured"}, outcome \in SpawnOutcomes :
       InTabStrip(OnLoaded([page EXCEPT !.border = b], outcome))

Measure ==
  /\ page.border = "pending" /\ page.loaded
  /\ InTabStrip(OnRdpHostSizeChanged([page EXCEPT !.border = "measured"]))

\* A modal dialog opens or closes over the window.
OpenDialog ==
  /\ "dialog" \in UserActs /\ ~page.popupSuppressed
  /\ InTabStrip(SetPopupSuppressed(page, TRUE))

CloseDialog == page.popupSuppressed /\ InTabStrip(SetPopupSuppressed(page, FALSE))

ClickStart ==
  /\ page.placeholder = "start" /\ page.wantsVisible /\ ~page.popupSuppressed
  /\ \E outcome \in SpawnOutcomes :
       InTabStrip(OnPlaceholderStartClick(page, outcome))

ClickRetry ==
  /\ page.placeholder = "error" /\ page.wantsVisible /\ ~page.popupSuppressed
  /\ \E outcome \in SpawnOutcomes :
       InTabStrip(OnPlaceholderRetryClick(page, outcome))

ApplySettings ==
  /\ "settings" \in UserActs /\ HasClient(page)
  /\ \E outcome \in SpawnOutcomes :
       InTabStrip(ReapplyConnectionSettings(page, outcome))

CloseTab ==
  /\ "close" \in UserActs /\ life = "open"
  /\ life' = "closed"
  /\ UiStep(CloseTabItem(page))
  /\ UNCHANGED uiq

\* The framework drops its last reference: the destructor stops the client.
Release ==
  /\ life = "closed"
  /\ life' = "gone"
  /\ page' = ShutdownClient(page)
  /\ UNCHANGED <<vm, usable, uiq, untilPoll>>

User == \/ Activate \/ Deactivate \/ OpenDialog \/ CloseDialog
        \/ ClickStart \/ ClickRetry \/ ApplySettings \/ CloseTab \/ Release

Host == HostConnects \/ HostLogsIn \/ HostDrops \/ HostReportsError \/ HostExits

Timers == CooldownExpires \/ PendingConnectExpires \/ StartRequestExpires

Next == \/ Poll \/ Kick \/ Elapse \/ Host \/ Dispatch \/ ReconnectTick
        \/ Timers \/ Load \/ Measure \/ User

Spec == Init /\ [][Next]_vars

\* The dispatcher runs what is queued, a due timer fires, the poll thread loops,
\* time goes on, and notifications out of turn do not come for ever.  Nothing is
\* assumed of the child, of time-outs or of the user.
Fairness ==
  /\ WF_vars(Dispatch) /\ WF_vars(ReconnectTick) /\ WF_vars(Poll) /\ WF_vars(Elapse)
  /\ <>[][~Kick]_vars

FairSpec == Spec /\ Fairness
----------------------------------------------------------------------------
(* Properties.                                                              *)

TypeOK ==
  /\ page \in PageState
  /\ vm \in VmViews \cup {"unpolled"}
  /\ usable \in EnhancedViews
  /\ uiq \in Seq(Events) /\ Len(uiq) <= MaxQueue
  /\ life \in {"open", "closed", "gone"}
  /\ untilPoll \in Nat

\* The popup, a top-level window of another process, is on screen only for the
\* selected tab of the strip, never over a modal dialog, and only while the page
\* believes the session connected: whatever callback arrives late.
PopupOnlyWhenWanted ==
  page.shown => /\ life = "open" /\ page.wantsVisible
                /\ ~page.popupSuppressed
                /\ page.connected /\ HasWindow(page)

\* While the connect error is latched no child exists and the error view (with
\* its Retry button) is what the placeholder shows: no tick, timer or late event
\* respawns behind it.
ErrorLatchHolds ==
  page.hadConnectError => page.host = "none" /\ page.placeholder \in {"error", "missing"}

\* The page agrees with its child.  The pane is cleared for the popup only when a
\* client exists to fill it, and offers Start, or shows a stopped, missing or
\* failed VM, only when none is left behind it.  Once the queue is drained and no
\* reconnect is armed, a live session is known to be connected, and is on screen
\* over its Border whenever the tab is selected, laid out and not under a dialog:
\* no show request is lost between mount, layout, dialog and connect.
PageAgreesWithChild ==
  life = "open" =>
    /\ page.placeholder = "session" => HasClient(page)
    /\ page.placeholder \in {"start", "status", "missing", "loading", "error"}
         => ~HasClient(page)
    /\ (uiq = <<>> /\ ~page.reconnectTimer /\ page.host = "live")
         => /\ page.connected
            /\ (page.wantsVisible /\ ~page.popupSuppressed /\ page.border = "measured")
                 => page.shown /\ page.pinned

\* A start in flight keeps its early session: a poll tick that does not yet see
\* the VM running never stops the child the Start click spawned.
TickKeepsPreconnectedChild ==
  [][(/\ uiq # <<>> /\ uiq' = Tail(uiq) /\ Head(uiq) = "changed"
      /\ page.pendingConnect = "fresh" /\ vm \notin {"missing", "unpolled"}
      /\ ~page.hadConnectError)
       => page'.host = page.host \/ page.host = "none"]_vars

\* The tab of a running VM does not stay without a session.  One that drops is
\* respawned, torn down for a VM that stopped, or surfaced as an error; a VM that
\* runs gets a child, or the error view.
SessionsComeUp ==
  /\ (life = "open" /\ page.host = "dropped")
       ~> (page.host # "dropped" \/ life # "open")
  /\ (life = "open" /\ Running)
       ~> (HasClient(page) \/ page.hadConnectError \/ ~Running \/ life # "open")

\* A basic session of a VM that offers enhanced is upgraded once the back-off
\* is over: every tick stops the timer and starts it again, and yet it fires
\* before the next poll stops it.
BasicSessionUpgrades ==
  LET stuckBasic == life = "open" /\ page.host = "live" /\ Upgradable(page)
  IN stuckBasic ~> ~stuckBasic

\* A console that never accepts the session is given up: on a VM that keeps
\* running, a tab that has never connected does not see fatal drops for ever
\* unless the user keeps asking, however its children are respawned meanwhile.
\* (A tab that has connected before, and one whose drops are not fatal, the code
\* means to retry for ever.)
FailuresEscalate ==
  LET neverUp == life = "open" /\ Running /\ ~page.everConnected
      failure == uiq # <<>> /\ uiq' = Tail(uiq) /\ Head(uiq) = "disconnectedFatal"
  IN (<>[]neverUp /\ <>[][~(ClickStart \/ ClickRetry)]_vars) => <>[][~failure]_vars

----------------------------------------------------------------------------
(* What the comments say and the code does not keep.                        *)

\* "Deterministic teardown of the rdphost child": a closed tab has no child.
ClosedTabHasNoChild == life # "open" => page.host = "none"
=============================================================================
