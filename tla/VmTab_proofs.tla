---------------------------- MODULE VmTab_proofs ----------------------------
(***************************************************************************)
(* Safety of the VM tab, for every queue bound, failure threshold and set   *)
(* of VM views.                                                             *)
(*                                                                          *)
(* None of the first three invariants needs another, but all need the type of*)
(* the page, and every handler is a composition of the same few operators.  *)
(* So the argument is one predicate of a page, PageOK, and one lemma per    *)
(* operator: it maps a page that is OK to a page that is OK and says what   *)
(* it leaves alone.  The inductive invariant IInv adds what relates the     *)
(* page to the rest: a tab out of the strip no longer wants its popup, and  *)
(* before the first poll there is neither a child, nor an error, nor work.  *)
(* PageAgreesWithChild has an invariant of its own on top of it, Agreed.     *)
(***************************************************************************)
EXTENDS VmTab, TLAPS

\* What PopupOnlyWhenWanted and ErrorLatchHolds say of a page, and what bounds its count.
PopupOK(p) ==
  p.shown => p.wantsVisible /\ ~p.popupSuppressed /\ p.connected /\ HasWindow(p)

ErrorOK(p) ==
  p.hadConnectError =>
    /\ p.host = "none"
    /\ p.placeholder \in {"error", "missing"}

FailuresOK(p) == p.connectFailures >= MaxConnectFailures => p.hadConnectError

PageOK(p) == p \in PageState /\ PopupOK(p) /\ ErrorOK(p) /\ FailuresOK(p)

\* Hiding the popup (RdpHostClient::Hide) keeps a page OK.
LEMMA HideOK ==
  ASSUME NEW p, PageOK(p)
  PROVE  PageOK(Hide(p)) /\ Hide(p).wantsVisible = p.wantsVisible
BY DEF Hide, PageOK, PopupOK, ErrorOK, FailuresOK, PageState, HasWindow

\* Moving the popup onto the Border keeps a page OK.
LEMMA BoundsOK ==
  ASSUME NEW p, PageOK(p)
  PROVE  /\ PageOK(UpdateRdphostBounds(p))
         /\ UpdateRdphostBounds(p).wantsVisible = p.wantsVisible
BY DEF UpdateRdphostBounds, HasClient, PageOK, PopupOK, ErrorOK, FailuresOK, PageState, HasWindow

\* ShowPopup keeps a page OK: it shows only what is wanted, undimmed and connected.
LEMMA ShowPopupOK ==
  ASSUME NEW p, PageOK(p)
  PROVE  /\ PageOK(ShowPopup(p)) /\ ShowPopup(p).host = p.host
         /\ ShowPopup(p).hadConnectError = p.hadConnectError
<1> DEFINE wanted == [p EXCEPT !.wantsVisible = TRUE]
           ready  == ~p.popupSuppressed /\ HasClient(p) /\ p.connected
           placed == UpdateRdphostBounds(wanted)
           q      == ShowPopup(p)
<1>1. /\ PageOK(wanted) /\ wanted.host = p.host /\ wanted.wantsVisible = TRUE
      /\ wanted.hadConnectError = p.hadConnectError
      /\ wanted.connected = p.connected
      /\ wanted.popupSuppressed = p.popupSuppressed
  BY DEF PageOK, PopupOK, ErrorOK, FailuresOK, PageState, HasWindow
<1>2. CASE ~ready
  BY <1>1, <1>2 DEF ShowPopup
<1>3. CASE ready /\ p.border = "measured"
  <2>1. q = [placed EXCEPT !.shown = HasWindow(placed), !.deferredShow = FALSE]
    BY <1>3 DEF ShowPopup, Show
  <2> HIDE DEF wanted
  <2>2. /\ PageOK(placed) /\ placed.wantsVisible = TRUE /\ placed.host = p.host
        /\ placed.hadConnectError = p.hadConnectError
        /\ placed.popupSuppressed = FALSE /\ placed.connected = TRUE
    <3>1. PageOK(placed)
      BY <1>1, BoundsOK
    <3>2. QED BY <1>1, <1>3, <3>1 DEF UpdateRdphostBounds, PageOK, PageState
  <2> HIDE DEF placed, q
  <2>3. placed \in PageState /\ HasWindow(placed) \in BOOLEAN
    BY <2>2 DEF PageOK, HasWindow
  <2>4. q \in PageState
    BY <2>1, <2>3 DEF PageState
  <2>5. PopupOK(q)
    BY <2>1, <2>2, <2>3 DEF PageState, PopupOK, HasWindow
  <2>6. /\ ErrorOK(q) /\ FailuresOK(q) /\ q.host = p.host
        /\ q.hadConnectError = p.hadConnectError
    BY <2>1, <2>2, <2>3 DEF PageOK, PageState, ErrorOK, FailuresOK
  <2>7. QED BY <2>4, <2>5, <2>6 DEF PageOK, q
<1>4. CASE ready /\ p.border # "measured"
  <2>1. q = [wanted EXCEPT !.deferredShow = TRUE]
    BY <1>4 DEF ShowPopup
  <2> HIDE DEF wanted, q
  <2>2. wanted \in PageState
    BY <1>1 DEF PageOK
  <2>3. q \in PageState
    BY <2>1, <2>2 DEF PageState
  <2>4. PopupOK(q)
    BY <1>1, <2>1, <2>2 DEF PageOK, PageState, PopupOK, HasWindow
  <2>5. /\ ErrorOK(q) /\ FailuresOK(q) /\ q.host = p.host
        /\ q.hadConnectError = p.hadConnectError
    BY <1>1, <2>1, <2>2 DEF PageOK, PageState, ErrorOK, FailuresOK
  <2>6. QED BY <2>3, <2>4, <2>5 DEF PageOK, q
<1>5. QED BY <1>2, <1>3, <1>4

\* TearDownClient keeps a page OK and leaves no child.
LEMMA TearOK ==
  ASSUME NEW p, PageOK(p)
  PROVE  /\ PageOK(TearDownClient(p))
         /\ TearDownClient(p).host = "none"
         /\ TearDownClient(p).wantsVisible = p.wantsVisible
         /\ TearDownClient(p).hadConnectError = p.hadConnectError
<1>1. CASE ~HasClient(p)
  BY <1>1 DEF TearDownClient, HasClient
<1>2. CASE HasClient(p)
  <2> DEFINE q == TearDownClient(p)
  <2>1. q = [p EXCEPT !.shown = FALSE, !.host = "none", !.connected = FALSE,
                       !.deferredShow = FALSE, !.pinned = FALSE]
    BY <1>2 DEF TearDownClient, Hide
  <2>2. q \in PageState
    BY ZenonT(60), <2>1 DEF PageOK, PageState, Hosts
  <2>3. /\ PopupOK(q) /\ ErrorOK(q) /\ FailuresOK(q) /\ q.host = "none"
        /\ q.wantsVisible = p.wantsVisible /\ q.hadConnectError = p.hadConnectError
    BY <2>1 DEF PageOK, PageState, PopupOK, ErrorOK, FailuresOK
  <2>4. QED BY <2>2, <2>3 DEF PageOK
<1>3. QED BY <1>1, <1>2

\* Spawning a child without a latched error keeps a page OK.
LEMMA StartOK ==
  ASSUME NEW p, PageOK(p), NEW outcome \in SpawnOutcomes, ~p.hadConnectError
  PROVE  /\ PageOK(StartConnection(p, outcome))
         /\ StartConnection(p, outcome).connected = p.connected
         /\ StartConnection(p, outcome).wantsVisible = p.wantsVisible
<1> DEFINE q == StartConnection(p, outcome)
<1>1. CASE HasClient(p) \/ outcome = "none"
  BY <1>1 DEF StartConnection
<1>2. CASE ~(HasClient(p) \/ outcome = "none")
  <2>1. q = [p EXCEPT !.host = outcome, !.wantedEnhanced = WantEnhanced(p),
                      !.enhancedReady = FALSE, !.pinned = p.border = "measured"]
    BY <1>2 DEF StartConnection
  <2>2. outcome \in Hosts
    BY ViewsAssumption DEF Hosts
  <2>3. WantEnhanced(p) \in BOOLEAN
    BY DEF WantEnhanced
  <2>4. q \in PageState
    BY ZenonT(60), <2>1, <2>2, <2>3 DEF PageState, PageOK
  <2>5. PopupOK(q) /\ q.connected = p.connected /\ q.wantsVisible = p.wantsVisible
    BY <2>1, <1>2 DEF PopupOK, PageOK, HasWindow, HasClient, PageState
  <2>6. ErrorOK(q) /\ FailuresOK(q)
    BY <2>1 DEF PageOK, ErrorOK, FailuresOK, PageState
  <2>7. QED BY <2>4, <2>5, <2>6 DEF PageOK
<1>3. QED BY <1>1, <1>2

\* Ageing the optimistic-start latch keeps a page OK.
LEMMA AgeOK ==
  ASSUME NEW p, PageOK(p)
  PROVE  /\ PageOK(AgePendingConnect(p))
         /\ AgePendingConnect(p).connected = p.connected
         /\ AgePendingConnect(p).hadConnectError = p.hadConnectError
         /\ AgePendingConnect(p).wantsVisible = p.wantsVisible
BY DEF AgePendingConnect, PageOK, PopupOK, ErrorOK, FailuresOK, PageState, HasWindow, Latch

\* Clearing the error latch and its counter keeps a page OK.
LEMMA ForgetOK ==
  ASSUME NEW p, PageOK(p)
  PROVE  /\ PageOK(ForgetConnectError(p))
         /\ ForgetConnectError(p).hadConnectError = FALSE
         /\ ForgetConnectError(p).wantsVisible = p.wantsVisible
<1> DEFINE q == ForgetConnectError(p)
<1>1. q = [p EXCEPT !.hadConnectError = FALSE, !.connectFailures = 0]
  BY DEF ForgetConnectError
<1> HIDE DEF q
<1>2. q \in PageState
  <2>1. p \in PageState
    BY DEF PageOK
  <2>2. QED BY <1>1, <2>1 DEF PageState
<1>3. PopupOK(q) /\ ErrorOK(q) /\ q.hadConnectError = FALSE /\ q.wantsVisible = p.wantsVisible
  BY <1>1 DEF PageOK, PageState, PopupOK, ErrorOK, HasWindow
<1>4. FailuresOK(q)
  BY <1>1, FailuresAssumption DEF PageOK, PageState, FailuresOK
<1>5. QED BY <1>2, <1>3, <1>4 DEF PageOK, q

\* Changing the placeholder of a page without a latched error.
LEMMA PlaceholderOK ==
  ASSUME NEW p, PageOK(p), NEW ph \in Placeholders,
         p.hadConnectError => p.host = "none" /\ ph \in {"error", "missing"}
  PROVE  /\ PageOK([p EXCEPT !.placeholder = ph])
         /\ [p EXCEPT !.placeholder = ph].wantsVisible = p.wantsVisible
         /\ [p EXCEPT !.placeholder = ph].connected = p.connected
         /\ [p EXCEPT !.placeholder = ph].host = p.host
         /\ [p EXCEPT !.placeholder = ph].hadConnectError = p.hadConnectError
BY DEF PageOK, PopupOK, ErrorOK, FailuresOK, PageState, HasWindow

\* The branch that wants a client keeps a page OK, and a live client connected.
LEMMA DriveOK ==
  ASSUME NEW p, PageOK(p), NEW outcome \in SpawnOutcomes, ~p.hadConnectError
  PROVE  /\ PageOK(DriveClient(p, outcome))
         /\ p.connected => DriveClient(p, outcome).connected
         /\ DriveClient(p, outcome).wantsVisible = p.wantsVisible
<1> DEFINE at(ph) == [p EXCEPT !.placeholder = ph]
<1>1. \A ph \in Placeholders : /\ PageOK(at(ph)) /\ ~at(ph).hadConnectError
                               /\ at(ph).connected = p.connected
                               /\ at(ph).wantsVisible = p.wantsVisible
  BY PlaceholderOK
<1>2. /\ (IF Running THEN "session" ELSE "starting") \in Placeholders
      /\ (IF Running THEN "connecting" ELSE "starting") \in Placeholders
      /\ "session" \in Placeholders
  BY DEF Placeholders
<1>3. CASE ~HasClient(p)
  <2>1. DriveClient(p, outcome) = StartConnection(at(IF Running THEN "session" ELSE "starting"), outcome)
    BY <1>3 DEF DriveClient
  <2> HIDE DEF at
  <2>2. QED BY <1>1, <1>2, <2>1, StartOK
<1>4. CASE HasClient(p) /\ p.connected
  <2>1. DriveClient(p, outcome) = at("session")
    BY <1>4 DEF DriveClient
  <2> HIDE DEF at
  <2>2. QED BY <1>1, <1>2, <2>1
<1>5. CASE HasClient(p) /\ ~p.connected
  <2>1. DriveClient(p, outcome) = at(IF Running THEN "connecting" ELSE "starting")
    BY <1>5 DEF DriveClient
  <2> HIDE DEF at
  <2>2. QED BY <1>1, <1>2, <2>1
<1>6. QED BY <1>3, <1>4, <1>5

\* The branch of a stopped VM keeps a page OK and leaves no child.
LEMMA StoppedOK ==
  ASSUME NEW p, PageOK(p), ~p.hadConnectError
  PROVE  /\ PageOK(DriveStopped(p)) /\ DriveStopped(p).host = "none"
         /\ DriveStopped(p).wantsVisible = p.wantsVisible
<1> DEFINE torn == TearDownClient(p)
           requested == IF vm = "job" \/ p.startRequested = "expired"
                        THEN "no" ELSE p.startRequested
           ph == IF vm = "stopped" /\ requested = "no" THEN "start" ELSE "status"
<1>1. requested \in Latch /\ ph \in Placeholders
  BY DEF Latch, Placeholders, PageOK, PageState
<1>2. /\ PageOK(torn) /\ torn.host = "none" /\ ~torn.hadConnectError
      /\ torn.wantsVisible = p.wantsVisible
  BY TearOK
<1>3. DriveStopped(p) = [torn EXCEPT !.startRequested = requested, !.placeholder = ph]
  BY DEF DriveStopped
<1> HIDE DEF torn, requested, ph
<1>4. QED BY <1>1, <1>2, <1>3 DEF PageOK, PopupOK, ErrorOK, FailuresOK, PageState, HasWindow

\* UpdatePlaceholderAndClient keeps a page OK in all its branches.
LEMMA UpdateOK ==
  ASSUME NEW p, PageOK(p), NEW outcome \in SpawnOutcomes,
         vm = "unpolled" => ~p.hadConnectError
  PROVE  LET u == UpdatePlaceholderAndClient(p, outcome)
         IN /\ PageOK(u)
            /\ u.wantsVisible = p.wantsVisible
            /\ HasClient(u) /\ p.connected => u.connected
            /\ vm = "unpolled" => u.host = "none" /\ ~u.hadConnectError
<1> DEFINE u       == UpdatePlaceholderAndClient(p, outcome)
           aged    == AgePendingConnect(p)
           cleared == IF aged.hadConnectError THEN ForgetConnectError(aged) ELSE aged
           tornTo(q, ph) == [TearDownClient(q) EXCEPT !.placeholder = ph]
           Good(q) == /\ PageOK(q)
                      /\ q.wantsVisible = p.wantsVisible
                      /\ HasClient(q) /\ p.connected => q.connected
<1>1. /\ PageOK(aged) /\ aged.connected = p.connected
      /\ aged.hadConnectError = p.hadConnectError
      /\ aged.wantsVisible = p.wantsVisible
  BY AgeOK
<1>2. /\ PageOK(cleared) /\ ~cleared.hadConnectError
      /\ cleared.wantsVisible = p.wantsVisible
  BY <1>1, ForgetOK
<1>3. \A q, ph : PageOK(q) /\ ph \in Placeholders
                 /\ (q.hadConnectError => ph \in {"error", "missing"})
         => /\ PageOK(tornTo(q, ph)) /\ tornTo(q, ph).host = "none"
            /\ tornTo(q, ph).wantsVisible = q.wantsVisible
            /\ tornTo(q, ph).hadConnectError = q.hadConnectError
  <2> SUFFICES ASSUME NEW q, NEW ph \in Placeholders, PageOK(q),
                      q.hadConnectError => ph \in {"error", "missing"}
               PROVE  /\ PageOK(tornTo(q, ph)) /\ tornTo(q, ph).host = "none"
                      /\ tornTo(q, ph).wantsVisible = q.wantsVisible
                      /\ tornTo(q, ph).hadConnectError = q.hadConnectError
    OBVIOUS
  <2>1. /\ PageOK(TearDownClient(q)) /\ TearDownClient(q).host = "none"
        /\ TearDownClient(q).wantsVisible = q.wantsVisible
        /\ TearDownClient(q).hadConnectError = q.hadConnectError
    BY TearOK
  <2>2. QED BY <2>1, PlaceholderOK
<1>4. {"loading", "missing", "error"} \subseteq Placeholders
  BY DEF Placeholders
<1>5. CASE vm = "unpolled"
  <2>1. u = tornTo(p, "loading")
    BY <1>5 DEF UpdatePlaceholderAndClient
  <2> HIDE DEF u, tornTo
  <2>2. QED BY <1>3, <1>4, <1>5, <2>1 DEF HasClient, u
<1>6. CASE vm = "missing"
  <2>1. u = tornTo(p, "missing")
    BY <1>6 DEF UpdatePlaceholderAndClient
  <2> HIDE DEF u, tornTo
  <2>2. QED BY <1>3, <1>4, <1>6, <2>1 DEF HasClient, u
<1>7. CASE vm \notin {"unpolled", "missing"}
  <2>1. CASE WantClient(aged) /\ aged.hadConnectError
    <3>1. u = tornTo(aged, "error")
      BY <1>7, <2>1 DEF UpdatePlaceholderAndClient
    <3> HIDE DEF u, tornTo, aged
    <3>2. QED BY <1>1, <1>3, <1>4, <1>7, <3>1 DEF HasClient, u
  <2>2. CASE WantClient(aged) /\ ~aged.hadConnectError
    <3>1. u = DriveClient(aged, outcome)
      BY <1>7, <2>2 DEF UpdatePlaceholderAndClient
    <3> HIDE DEF u, aged
    <3>2. QED BY <1>1, <1>7, <2>2, <3>1, DriveOK DEF u
  <2>3. CASE ~WantClient(aged)
    <3>1. u = DriveStopped(cleared)
      BY <1>7, <2>3 DEF UpdatePlaceholderAndClient
    <3> HIDE DEF u, cleared
    <3>2. QED BY <1>2, <1>7, <3>1, StoppedOK DEF HasClient, u
  <2>4. QED BY <2>1, <2>2, <2>3
<1>8. QED BY <1>5, <1>6, <1>7

\* Tearing down and re-driving the page keeps it OK.
LEMMA RespawnOK ==
  ASSUME NEW p, PageOK(p), NEW outcome \in SpawnOutcomes,
         vm = "unpolled" => ~p.hadConnectError
  PROVE  LET u == Respawn(p, outcome)
         IN /\ PageOK(u)
            /\ u.wantsVisible = p.wantsVisible
            /\ vm = "unpolled" => u.host = "none" /\ ~u.hadConnectError
<1>1. /\ PageOK(TearDownClient(p))
      /\ TearDownClient(p).wantsVisible = p.wantsVisible
      /\ TearDownClient(p).hadConnectError = p.hadConnectError
  BY TearOK
<1>2. QED BY <1>1, UpdateOK DEF Respawn

\* The reconnect timer's handler keeps a page OK.
LEMMA ReconnectOK ==
  ASSUME NEW p, PageOK(p), NEW outcome \in SpawnOutcomes,
         vm = "unpolled" => ~p.hadConnectError
  PROVE  LET u == DoReconnect(p, outcome)
         IN /\ PageOK(u)
            /\ u.wantsVisible = p.wantsVisible
            /\ vm = "unpolled" => u.host = "none" /\ ~u.hadConnectError
BY UpdateOK, RespawnOK DEF DoReconnect

\* Arming the reconnect timer keeps a page OK.
LEMMA ScheduleOK ==
  ASSUME NEW p, PageOK(p), NEW delay \in Nat
  PROVE  /\ PageOK(ScheduleReconnect(p, delay))
         /\ ScheduleReconnect(p, delay).wantsVisible = p.wantsVisible
BY DEF ScheduleReconnect, PageOK, PopupOK, ErrorOK, FailuresOK, PageState, HasWindow

\* The failure count of p need not be below the threshold yet: latching the
\* error is what restores the invariant.
LEMMA ShowErrorOK ==
  ASSUME NEW p \in PageState, PopupOK(p)
  PROVE  /\ PageOK(ShowConnectError(p))
         /\ ShowConnectError(p).wantsVisible = p.wantsVisible
<1> DEFINE q == ShowConnectError(p)
<1>1. "error" \in Placeholders /\ "none" \in Hosts
  BY DEF Placeholders, Hosts
<1>2. CASE HasClient(p)
  <2>1. q = [p EXCEPT !.shown = FALSE, !.host = "none", !.connected = FALSE,
                      !.deferredShow = FALSE, !.pinned = FALSE,
                      !.hadConnectError = TRUE, !.placeholder = "error"]
    BY <1>2 DEF ShowConnectError, TearDownClient, Hide
  <2> HIDE DEF q
  <2>2. q \in PageState
    BY ZenonT(60), <1>1, <2>1 DEF PageState
  <2>3. PopupOK(q) /\ ErrorOK(q) /\ FailuresOK(q) /\ q.wantsVisible = p.wantsVisible
    BY <2>1 DEF PageState, PopupOK, ErrorOK, FailuresOK
  <2>4. QED BY <2>2, <2>3 DEF PageOK, q
<1>3. CASE ~HasClient(p)
  <2>1. q = [p EXCEPT !.hadConnectError = TRUE, !.placeholder = "error"]
    BY <1>3 DEF ShowConnectError, TearDownClient
  <2> HIDE DEF q
  <2>2. q \in PageState
    BY <1>1, <2>1 DEF PageState
  <2>3. PopupOK(q) /\ ErrorOK(q) /\ FailuresOK(q) /\ q.wantsVisible = p.wantsVisible
    BY <1>3, <2>1 DEF PageState, PopupOK, ErrorOK, FailuresOK, HasWindow, HasClient
  <2>4. QED BY <2>2, <2>3 DEF PageOK, q
<1>4. QED BY <1>2, <1>3

\* A poll tick keeps a page OK.
LEMMA ChangedOK ==
  ASSUME NEW p, PageOK(p), NEW outcome \in SpawnOutcomes, vm # "unpolled"
  PROVE  /\ PageOK(OnVmManagerChanged(p, outcome))
         /\ OnVmManagerChanged(p, outcome).wantsVisible = p.wantsVisible
<1>1. /\ PageOK(ScheduleReconnect(p, UpgradeDelay))
      /\ ScheduleReconnect(p, UpgradeDelay).wantsVisible = p.wantsVisible
  BY ScheduleOK, TimesAssumption
<1>2. QED BY <1>1, UpdateOK DEF OnVmManagerChanged

\* A Connected event, however stale, keeps a page OK.
LEMMA ConnectedOK ==
  ASSUME NEW p, PageOK(p), NEW outcome \in SpawnOutcomes, NEW e \in BOOLEAN,
         vm # "unpolled"
  PROVE  /\ PageOK(OnConnected(p, e, outcome))
         /\ OnConnected(p, e, outcome).wantsVisible = p.wantsVisible
<1> DEFINE forgot == ForgetConnectError(p)
           live   == [forgot EXCEPT !.connected = TRUE, !.everConnected = TRUE,
                                    !.everEnhanced = @ \/ e]
           q      == UpdatePlaceholderAndClient(live, outcome)
           placed == UpdateRdphostBounds(q)
<1>1. /\ PageOK(forgot) /\ forgot.hadConnectError = FALSE
      /\ forgot.wantsVisible = p.wantsVisible
  BY ForgetOK
<1>2. /\ PageOK(live) /\ live.connected = TRUE
      /\ live.wantsVisible = p.wantsVisible
  <2> HIDE DEF forgot
  <2> forgot \in PageState
    BY <1>1 DEF PageOK
  <2>1. live \in PageState
    BY DEF PageState
  <2>2. PopupOK(live) /\ ErrorOK(live) /\ FailuresOK(live)
    BY <1>1 DEF PageOK, PageState, PopupOK, ErrorOK, FailuresOK, HasWindow
  <2>3. live.connected = TRUE /\ live.wantsVisible = p.wantsVisible
    BY <1>1 DEF PageState
  <2>4. QED BY <2>1, <2>2, <2>3 DEF PageOK
<1>3. /\ PageOK(q) /\ q.wantsVisible = p.wantsVisible
      /\ HasClient(q) => q.connected
  <2> HIDE DEF live
  <2>1. QED BY <1>2, UpdateOK
<1>4. CASE q.wantsVisible /\ HasClient(q) /\ ~q.popupSuppressed
  <2> HIDE DEF q
  <2>1. OnConnected(p, e, outcome) = Show(placed)
    BY <1>4 DEF OnConnected, q
  <2>2. PageOK(placed) /\ placed.wantsVisible = q.wantsVisible
    BY <1>3, BoundsOK
  <2>3. placed.connected = TRUE /\ placed.popupSuppressed = FALSE /\ placed.wantsVisible = TRUE
    BY <1>3, <1>4 DEF UpdateRdphostBounds, PageOK, PageState
  <2> HIDE DEF placed
  <2>4. Show(placed) = [placed EXCEPT !.shown = HasWindow(placed)]
    BY DEF Show
  <2>5. HasWindow(placed) \in BOOLEAN
    BY DEF HasWindow
  <2>6. placed \in PageState
    BY <2>2 DEF PageOK
  <2>7. Show(placed) \in PageState
    BY <2>4, <2>5, <2>6 DEF PageState
  <2>8. PopupOK(Show(placed)) /\ Show(placed).wantsVisible = p.wantsVisible
    BY <1>3, <2>2, <2>3, <2>4, <2>6 DEF PopupOK, PageState, HasWindow
  <2>9. ErrorOK(Show(placed)) /\ FailuresOK(Show(placed))
    BY <2>2, <2>4 DEF PageOK, PageState, ErrorOK, FailuresOK
  <2>10. QED BY <2>1, <2>7, <2>8, <2>9 DEF PageOK
<1>5. CASE ~(q.wantsVisible /\ HasClient(q) /\ ~q.popupSuppressed)
  BY <1>3, <1>5 DEF OnConnected
<1>6. QED BY <1>4, <1>5

\* An EnhancedReady event keeps a page OK.
LEMMA ReadyOK ==
  ASSUME NEW p, PageOK(p)
  PROVE  /\ PageOK(OnEnhancedReady(p))
         /\ OnEnhancedReady(p).wantsVisible = p.wantsVisible
<1> DEFINE q == [p EXCEPT !.enhancedReady = TRUE, !.everEnhanced = TRUE]
<1>1. PageOK(q) /\ q.wantsVisible = p.wantsVisible
  BY DEF PageOK, PopupOK, ErrorOK, FailuresOK, PageState, HasWindow
<1> HIDE DEF q
<1>2. QED BY <1>1, BoundsOK DEF OnEnhancedReady, q

\* A Disconnected event keeps a page OK: a count at the threshold latches the error.
LEMMA DisconnectedOK ==
  ASSUME NEW p, PageOK(p), NEW outcome \in SpawnOutcomes, NEW fatal \in BOOLEAN,
         vm # "unpolled"
  PROVE  /\ PageOK(OnDisconnected(p, fatal, outcome))
         /\ OnDisconnected(p, fatal, outcome).wantsVisible = p.wantsVisible
<1> DEFINE everLive == EverLive(p)
           counted  == IF everLive THEN 0
                       ELSE p.connectFailures + (IF fatal THEN 1 ELSE 0)
           down     == Hide([p EXCEPT
                         !.connected = FALSE,
                         !.cooldown = @ \/ EnhancedNeverCameUp(p),
                         !.enhancedReady = FALSE])
           tallied  == [down EXCEPT !.connectFailures = counted]
           giveUp   == fatal /\ ~everLive /\ TooManyFailures(counted)
           delay    == IF p.wantedEnhanced THEN EnhancedRetryDelay ELSE RetryDelay
           r        == OnDisconnected(p, fatal, outcome)
<1> delay \in Nat /\ RetryDelay \in Nat
  BY TimesAssumption
<1>1. p \in PageState /\ p.connectFailures \in Nat
  BY DEF PageOK, PageState
<1>2. down = [p EXCEPT !.connected = FALSE,
                       !.cooldown = @ \/ EnhancedNeverCameUp(p),
                       !.enhancedReady = FALSE, !.shown = FALSE]
  BY DEF Hide
<1>3. /\ PageOK(down) /\ down.wantsVisible = p.wantsVisible
      /\ down.connectFailures = p.connectFailures
      /\ down.hadConnectError = p.hadConnectError /\ down.shown = FALSE
  <2> HIDE DEF down
  <2>1. (p.cooldown \/ EnhancedNeverCameUp(p)) \in BOOLEAN
    BY DEF EnhancedNeverCameUp
  <2>2. down \in PageState
    BY ZenonT(60), <1>1, <1>2, <2>1 DEF PageState
  <2>3. /\ down.wantsVisible = p.wantsVisible /\ down.shown = FALSE
        /\ down.connectFailures = p.connectFailures
        /\ down.hadConnectError = p.hadConnectError
        /\ down.host = p.host /\ down.placeholder = p.placeholder
    BY <1>1, <1>2 DEF PageState
  <2>4. PopupOK(down) /\ ErrorOK(down) /\ FailuresOK(down)
    BY <2>3 DEF PageOK, PopupOK, ErrorOK, FailuresOK
  <2>5. QED BY <2>2, <2>3, <2>4 DEF PageOK
<1>4. counted \in Nat
  BY <1>1
<1>5. /\ tallied \in PageState /\ PopupOK(tallied) /\ ErrorOK(tallied)
      /\ tallied.wantsVisible = p.wantsVisible
      /\ tallied.connectFailures = counted
      /\ tallied.hadConnectError = p.hadConnectError
  <2> HIDE DEF down, counted
  <2>1. down \in PageState
    BY <1>3 DEF PageOK
  <2>2. tallied \in PageState
    BY <1>4, <2>1 DEF PageState
  <2>3. QED BY <1>3, <2>1, <2>2 DEF PageOK, PageState, PopupOK, ErrorOK
<1>6. CASE Running /\ giveUp
  <2>1. r = ShowConnectError(tallied)
    BY <1>6 DEF OnDisconnected
  <2> HIDE DEF tallied, r
  <2>2. QED BY <1>5, <2>1, ShowErrorOK DEF r
<1>7. CASE Running /\ ~giveUp
  <2>1. r = ScheduleReconnect(tallied, delay)
    BY <1>7 DEF OnDisconnected
  <2>2. counted >= MaxConnectFailures => p.hadConnectError
    <3>1. CASE everLive
      BY <1>1, <3>1, FailuresAssumption
    <3>2. CASE ~everLive /\ fatal
      BY <1>7, <3>2 DEF TooManyFailures
    <3>3. CASE ~everLive /\ ~fatal
      BY <1>1, <3>3 DEF PageOK, FailuresOK
    <3>4. QED BY <3>1, <3>2, <3>3
  <2> HIDE DEF tallied, counted, delay, r
  <2>3. PageOK(tallied)
    BY <1>5, <2>2 DEF PageOK, FailuresOK
  <2>4. QED BY <1>5, <2>1, <2>3, ScheduleOK DEF r
<1>8. CASE ~Running /\ p.pendingConnect # "no"
  <2>1. r = ScheduleReconnect(down, RetryDelay)
    BY <1>8 DEF OnDisconnected
  <2> HIDE DEF down, r
  <2>2. QED BY <1>3, <2>1, ScheduleOK DEF r
<1>9. CASE ~Running /\ p.pendingConnect = "no"
  <2>1. r = UpdatePlaceholderAndClient(down, outcome)
    BY <1>9 DEF OnDisconnected
  <2> HIDE DEF down, r
  <2>2. QED BY <1>3, <2>1, UpdateOK DEF r
<1>10. QED BY <1>6, <1>7, <1>8, <1>9

\* Every item of the UI queue keeps a page OK and its wantsVisible.
LEMMA HandleOK ==
  ASSUME NEW p, PageOK(p), NEW outcome \in SpawnOutcomes, NEW e,
         vm # "unpolled"
  PROVE  /\ PageOK(Handle(e, p, outcome))
         /\ Handle(e, p, outcome).wantsVisible = p.wantsVisible
<1>1. /\ PageOK(OnError(p)) /\ OnError(p).wantsVisible = p.wantsVisible
  BY ShowErrorOK DEF OnError, PageOK
<1>2. QED BY <1>1, ChangedOK, ConnectedOK, ReadyOK, DisconnectedOK DEF Handle

\* The deferred show keeps a page OK.
LEMMA ResolveOK ==
  ASSUME NEW p, PageOK(p)
  PROVE  /\ PageOK(ResolveDeferredShow(p))
         /\ ResolveDeferredShow(p).host = p.host
         /\ ResolveDeferredShow(p).hadConnectError = p.hadConnectError
<1> DEFINE q == ResolveDeferredShow(p)
           due == /\ HasClient(p) /\ p.wantsVisible /\ p.connected
                  /\ p.deferredShow /\ ~p.popupSuppressed
<1>1. CASE due
  <2>1. q = [p EXCEPT !.shown = HasWindow(p), !.deferredShow = FALSE]
    BY <1>1 DEF ResolveDeferredShow, Show
  <2> HIDE DEF q
  <2>2. p \in PageState /\ HasWindow(p) \in BOOLEAN
    BY DEF PageOK, HasWindow
  <2>3. q \in PageState
    BY <2>1, <2>2 DEF PageState
  <2>4. PopupOK(q)
    BY <1>1, <2>1, <2>2 DEF PageState, PopupOK, HasWindow
  <2>5. /\ ErrorOK(q) /\ FailuresOK(q) /\ q.host = p.host
        /\ q.hadConnectError = p.hadConnectError
    BY <2>1, <2>2 DEF PageOK, PageState, ErrorOK, FailuresOK
  <2>6. QED BY <2>3, <2>4, <2>5 DEF PageOK, q
<1>2. CASE ~due
  BY <1>2 DEF ResolveDeferredShow
<1>3. QED BY <1>1, <1>2

\* The inductive invariant.
IInv ==
  /\ TypeOK
  /\ PageOK(page)
  /\ life # "open" => ~page.wantsVisible
  /\ vm = "unpolled" =>
       page.host = "none" /\ ~page.hadConnectError /\ uiq = <<>>

\* A fresh tab satisfies the invariant.
LEMMA InitIInv == Init => IInv
<1> SUFFICES ASSUME Init PROVE IInv
  OBVIOUS
<1>1. page \in PageState
  BY DEF Init, InitPage, PageState, Hosts, Latch, Placeholders
<1>2. PopupOK(page) /\ ErrorOK(page)
  BY DEF Init, InitPage, PopupOK, ErrorOK
<1>3. FailuresOK(page)
  BY FailuresAssumption DEF Init, InitPage, FailuresOK
<1>4. uiq \in Seq(Events) /\ Len(uiq) <= MaxQueue
  BY QueueAssumption DEF Init
<1>5. life = "open" /\ page.host = "none" /\ page.hadConnectError = FALSE
  BY DEF Init, InitPage
<1>6. QED BY <1>1, <1>2, <1>3, <1>4, <1>5 DEF Init, IInv, TypeOK, PageOK

\* What is left to show of a step of the UI thread that keeps queue and life.
LEMMA UiStepIInv ==
  ASSUME IInv, UNCHANGED <<vm, usable, uiq, life, untilPoll>>,
         PageOK(page'),
         life # "open" => ~page'.wantsVisible,
         vm = "unpolled" => page'.host = "none" /\ ~page'.hadConnectError
  PROVE  IInv'
BY DEF IInv, TypeOK, PageOK

\* The same, for a tab of the strip.
LEMMA TabStripIInv ==
  ASSUME IInv, life = "open", UNCHANGED <<vm, usable, uiq, life, untilPoll>>,
         PageOK(page'),
         vm = "unpolled" => page'.host = "none" /\ ~page'.hadConnectError
  PROVE  IInv'
BY UiStepIInv

\* A time-out touches nothing the invariant speaks of.
LEMMA TimeoutOK ==
  ASSUME NEW p, PageOK(p), NEW q,
         \/ q = [p EXCEPT !.cooldown = FALSE]
         \/ q = [p EXCEPT !.pendingConnect = "expired"]
         \/ q = [p EXCEPT !.startRequested = "expired"]
  PROVE  /\ PageOK(q) /\ q.host = p.host
         /\ q.hadConnectError = p.hadConnectError
         /\ q.wantsVisible = p.wantsVisible
<1>1. p \in PageState
  BY DEF PageOK
<1>2. q \in PageState
  BY ZenonT(60), <1>1 DEF PageState, Latch
<1>3. /\ q.shown = p.shown /\ q.host = p.host /\ q.placeholder = p.placeholder
      /\ q.hadConnectError = p.hadConnectError /\ q.connected = p.connected
      /\ q.connectFailures = p.connectFailures
      /\ q.popupSuppressed = p.popupSuppressed
      /\ q.wantsVisible = p.wantsVisible
  BY <1>1 DEF PageState
<1>4. PopupOK(q) /\ ErrorOK(q) /\ FailuresOK(q)
  BY <1>3 DEF PageOK, PopupOK, ErrorOK, FailuresOK, HasWindow
<1>5. QED BY <1>2, <1>3, <1>4 DEF PageOK

\* The bounded UI queue keeps its type.
LEMMA EnqueueType ==
  ASSUME TypeOK, NEW e \in Events, Enqueue(e)
  PROVE  uiq' \in Seq(Events) /\ Len(uiq') <= MaxQueue
BY QueueAssumption DEF TypeOK, Enqueue

\* A change of the child's session keeps the invariant.
LEMMA HostEventIInv ==
  ASSUME IInv, NEW from \in {"connecting", "live"}, NEW to \in {"live", "dropped"},
         NEW e \in Events, HostEvent(from, to, e)
  PROVE  IInv'
<1>1. page \in PageState /\ page' = [page EXCEPT !.host = to] /\ page.host = from
  BY DEF IInv, TypeOK, HostEvent
<1>2. page' \in PageState
  BY <1>1 DEF PageState, Hosts
<1>3. /\ page'.shown = page.shown /\ page'.host = to
      /\ page'.wantsVisible = page.wantsVisible
      /\ page'.popupSuppressed = page.popupSuppressed
      /\ page'.connected = page.connected
      /\ page'.hadConnectError = page.hadConnectError
      /\ page'.connectFailures = page.connectFailures
  BY <1>1 DEF PageState
<1>4. PopupOK(page') /\ ErrorOK(page') /\ FailuresOK(page')
  BY <1>1, <1>3 DEF IInv, PageOK, PopupOK, ErrorOK, FailuresOK, HasWindow
<1>5. vm # "unpolled"
  BY <1>1 DEF IInv
<1>6. uiq' \in Seq(Events) /\ Len(uiq') <= MaxQueue
  BY EnqueueType DEF IInv, HostEvent
<1>7. QED BY <1>2, <1>3, <1>4, <1>5, <1>6 DEF IInv, TypeOK, PageOK, HostEvent

\* Opening and closing a dialog keeps a page OK.
LEMMA DialogOK ==
  ASSUME NEW p, PageOK(p), NEW b \in BOOLEAN
  PROVE  /\ PageOK(SetPopupSuppressed(p, b))
         /\ SetPopupSuppressed(p, b).host = p.host
         /\ SetPopupSuppressed(p, b).hadConnectError = p.hadConnectError
<1> DEFINE q == [p EXCEPT !.popupSuppressed = b]
<1>1. p \in PageState /\ q \in PageState
  BY DEF PageOK, PageState
<1>2. /\ q.shown = p.shown /\ q.host = p.host /\ q.placeholder = p.placeholder
      /\ q.hadConnectError = p.hadConnectError /\ q.connected = p.connected
      /\ q.connectFailures = p.connectFailures /\ q.popupSuppressed = b
      /\ q.wantsVisible = p.wantsVisible
  BY <1>1 DEF PageState
<1>3. ErrorOK(q) /\ FailuresOK(q)
  BY <1>2 DEF PageOK, ErrorOK, FailuresOK
<1>4. CASE b
  <2>1. SetPopupSuppressed(p, b) = [q EXCEPT !.shown = FALSE]
    BY <1>4 DEF SetPopupSuppressed, Hide
  <2> HIDE DEF q
  <2>2. [q EXCEPT !.shown = FALSE] \in PageState
    BY <1>1 DEF PageState
  <2>3. QED BY <1>1, <1>2, <1>3, <2>1, <2>2 DEF PageOK, PageState, PopupOK, ErrorOK, FailuresOK
<1>5. CASE ~b
  <2>1. PopupOK(q)
    BY <1>2, <1>5 DEF PageOK, PopupOK, HasWindow
  <2>2. PageOK(q)
    BY <1>1, <1>3, <2>1 DEF PageOK
  <2> HIDE DEF q
  <2>3. PageOK(ShowPopup(q)) /\ ShowPopup(q).host = q.host
        /\ ShowPopup(q).hadConnectError = q.hadConnectError
    BY <2>2, ShowPopupOK
  <2>4. SetPopupSuppressed(p, b) \in {q, ShowPopup(q)}
    BY <1>5 DEF SetPopupSuppressed, q
  <2>5. QED BY <1>2, <2>2, <2>3, <2>4
<1>6. QED BY <1>4, <1>5

\* ShutdownClient keeps a page OK and leaves no child.
LEMMA ShutdownOK ==
  ASSUME NEW p, PageOK(p)
  PROVE  /\ PageOK(ShutdownClient(p)) /\ ShutdownClient(p).host = "none"
         /\ ShutdownClient(p).hadConnectError = p.hadConnectError
         /\ ShutdownClient(p).wantsVisible = p.wantsVisible
<1> DEFINE q == ShutdownClient(p)
<1>1. q = [p EXCEPT !.shown = FALSE, !.host = "none", !.pinned = FALSE]
  BY DEF ShutdownClient, Hide
<1>2. p \in PageState
  BY DEF PageOK
<1> HIDE DEF q
<1>3. q \in PageState
  BY <1>1, <1>2 DEF PageState, Hosts
<1>4. /\ PopupOK(q) /\ ErrorOK(q) /\ FailuresOK(q) /\ q.host = "none"
      /\ q.hadConnectError = p.hadConnectError /\ q.wantsVisible = p.wantsVisible
  BY <1>1, <1>2 DEF PageOK, PageState, PopupOK, ErrorOK, FailuresOK
<1>5. QED BY <1>3, <1>4 DEF PageOK, q

\* HidePopup keeps a page OK and withdraws the wish for the popup.
LEMMA HidePopupOK ==
  ASSUME NEW p, PageOK(p)
  PROVE  /\ PageOK(HidePopup(p)) /\ HidePopup(p).host = p.host
         /\ HidePopup(p).hadConnectError = p.hadConnectError
         /\ ~HidePopup(p).wantsVisible /\ ~HidePopup(p).shown
<1> DEFINE q == HidePopup(p)
<1>1. q = [p EXCEPT !.wantsVisible = FALSE, !.deferredShow = FALSE, !.shown = FALSE]
  BY DEF HidePopup, Hide
<1>2. p \in PageState
  BY DEF PageOK
<1> HIDE DEF q
<1>3. q \in PageState
  BY <1>1, <1>2 DEF PageState
<1>4. /\ PopupOK(q) /\ ErrorOK(q) /\ FailuresOK(q) /\ q.host = p.host
      /\ q.hadConnectError = p.hadConnectError /\ ~q.wantsVisible /\ ~q.shown
  BY <1>1, <1>2 DEF PageOK, PageState, PopupOK, ErrorOK, FailuresOK
<1>5. QED BY <1>3, <1>4 DEF PageOK, q

\* Closing the tab keeps its page OK, without child and without popup.
LEMMA CloseOK ==
  ASSUME NEW p, PageOK(p)
  PROVE  /\ PageOK(CloseTabItem(p)) /\ CloseTabItem(p).host = "none"
         /\ CloseTabItem(p).hadConnectError = p.hadConnectError
         /\ ~CloseTabItem(p).wantsVisible
<1> DEFINE q == ShutdownClient(HidePopup(p))
<1>1. /\ PageOK(q) /\ q.host = "none" /\ ~q.wantsVisible
      /\ q.hadConnectError = p.hadConnectError
  BY HidePopupOK, ShutdownOK
<1>2. CloseTabItem(p) = [q EXCEPT !.border = "unmounted"]
  BY DEF CloseTabItem
<1> HIDE DEF q
<1>3. QED BY <1>1, <1>2 DEF PageOK, PopupOK, ErrorOK, FailuresOK, PageState, HasWindow

\* The invariant is inductive: one step per action of Next.
LEMMA NextIInv == IInv /\ [Next]_vars => IInv'
<1> SUFFICES ASSUME IInv, [Next]_vars PROVE IInv'
  OBVIOUS
<1> PageOK(page) /\ page \in PageState
  BY DEF IInv, TypeOK
<1> USE DEF Running
<1>1. CASE Poll \/ Kick
  <2>1. uiq' \in Seq(Events) /\ Len(uiq') <= MaxQueue
    BY <1>1, EnqueueType DEF Events, IInv, Poll, Kick, Notify
  <2>2. vm' # "unpolled"
    BY <1>1, ViewsAssumption DEF Poll, Kick, Notify
  <2>3. QED BY <1>1, <2>1, <2>2, TimesAssumption DEF IInv, TypeOK, Poll, Kick, Notify
<1>2. CASE HostConnects
  BY <1>2, HostEventIInv DEF HostConnects, Events
<1>3. CASE HostLogsIn
  BY <1>3, HostEventIInv DEF HostLogsIn, Events
<1>4. CASE HostDrops
  BY <1>4, HostEventIInv DEF HostDrops, Events
<1>5. CASE HostReportsError
  BY <1>5, HostEventIInv DEF HostReportsError, Events
<1>6. CASE HostExits
  <2>1. page' = [page EXCEPT !.host = "exited", !.shown = FALSE] /\ page.host # "none"
    BY <1>6 DEF HostExits, HasWindow
  <2>2. page' \in PageState
    BY <2>1 DEF PageState, Hosts
  <2>3. /\ PopupOK(page') /\ ErrorOK(page') /\ FailuresOK(page')
        /\ page'.wantsVisible = page.wantsVisible
    BY <2>1 DEF PageOK, PageState, PopupOK, ErrorOK, FailuresOK
  <2>4. PageOK(page')
    BY <2>2, <2>3 DEF PageOK
  <2>5. vm # "unpolled"
    BY <2>1 DEF IInv
  <2>6. QED BY <1>6, <2>3, <2>4, <2>5, UiStepIInv DEF HostExits, IInv
<1>7. CASE Dispatch
  <2>1. /\ uiq # <<>> /\ vm # "unpolled"
        /\ uiq' \in Seq(Events) /\ Len(uiq') <= MaxQueue
    BY <1>7, QueueAssumption DEF Dispatch, IInv, TypeOK
  <2>2. CASE AutoCloses
    <3>1. page' = CloseTabItem(page) /\ life' = "closed" /\ UNCHANGED <<vm, usable, untilPoll>>
      BY <1>7, <2>2 DEF Dispatch, UiStep
    <3>2. QED BY <2>1, <3>1, CloseOK DEF IInv, TypeOK, PageOK
  <2>3. CASE ~AutoCloses
    <3>1. PICK outcome \in SpawnOutcomes : UiStep(Handle(Head(uiq), page, outcome))
      BY <1>7, <2>3 DEF Dispatch
    <3>2. PageOK(page') /\ page'.wantsVisible = page.wantsVisible
      BY <2>1, <3>1, HandleOK DEF UiStep
    <3>3. QED BY <1>7, <2>1, <2>3, <3>1, <3>2 DEF IInv, TypeOK, PageOK, Dispatch, UiStep
  <2>4. QED BY <2>2, <2>3
<1>8. CASE ReconnectTick
  <2> DEFINE p == [page EXCEPT !.reconnectTimer = FALSE]
  <2>1. /\ PageOK(p) /\ p.hadConnectError = page.hadConnectError
        /\ p.wantsVisible = page.wantsVisible
    BY DEF PageOK, PopupOK, ErrorOK, FailuresOK, PageState, HasWindow
  <2>2. PICK outcome \in SpawnOutcomes : UiStep(DoReconnect(p, outcome))
    BY <1>8 DEF ReconnectTick
  <2> HIDE DEF p
  <2>3. /\ PageOK(page') /\ page'.wantsVisible = page.wantsVisible
        /\ vm = "unpolled" => page'.host = "none" /\ ~page'.hadConnectError
    BY <2>1, <2>2, ReconnectOK DEF UiStep, IInv
  <2>4. QED BY <1>8, <2>2, <2>3, UiStepIInv DEF ReconnectTick, UiStep, IInv
<1>9. CASE Timers
  <2>1. /\ \/ page' = [page EXCEPT !.cooldown = FALSE]
           \/ page' = [page EXCEPT !.pendingConnect = "expired"]
           \/ page' = [page EXCEPT !.startRequested = "expired"]
        /\ UNCHANGED <<vm, usable, uiq, life, untilPoll>>
    BY <1>9 DEF Timers, CooldownExpires, PendingConnectExpires,
                StartRequestExpires, UiStep
  <2>2. /\ PageOK(page') /\ page'.host = page.host
        /\ page'.hadConnectError = page.hadConnectError
        /\ page'.wantsVisible = page.wantsVisible
    BY <2>1, TimeoutOK
  <2>3. QED BY <2>1, <2>2, UiStepIInv DEF IInv
<1>10. CASE Load
  <2>1. PICK b \in {"pending", "measured"}, outcome \in SpawnOutcomes :
          InTabStrip(OnLoaded([page EXCEPT !.border = b], outcome))
    BY <1>10 DEF Load
  <2> DEFINE p == [[page EXCEPT !.border = b] EXCEPT !.loaded = TRUE]
             u == UpdatePlaceholderAndClient(p, outcome)
  <2>2. PageOK(p) /\ p.hadConnectError = page.hadConnectError
    <3>1. p = [page EXCEPT !.border = b, !.loaded = TRUE, !.pinned = page.pinned]
      BY DEF PageState
    <3>2. page.pinned \in BOOLEAN
      BY DEF PageState
    <3>3. p \in PageState
      BY <3>1, <3>2 DEF PageState
    <3>4. /\ PopupOK(p) /\ ErrorOK(p) /\ FailuresOK(p)
          /\ p.hadConnectError = page.hadConnectError
      BY DEF PageOK, PageState, PopupOK, ErrorOK, FailuresOK, HasWindow
    <3>5. QED BY <3>3, <3>4 DEF PageOK
  <2>3. page' = ResolveDeferredShow(UpdateRdphostBounds(u))
    BY <2>1 DEF InTabStrip, UiStep, OnLoaded
  <2> HIDE DEF p
  <2>4. PageOK(u) /\ (vm = "unpolled" => u.host = "none" /\ ~u.hadConnectError)
    BY <2>2, UpdateOK DEF IInv
  <2> HIDE DEF u
  <2>5. /\ PageOK(UpdateRdphostBounds(u))
        /\ UpdateRdphostBounds(u).host = u.host
        /\ UpdateRdphostBounds(u).hadConnectError = u.hadConnectError
    BY <2>4, BoundsOK DEF UpdateRdphostBounds, PageOK, PageState
  <2>6. /\ PageOK(page')
        /\ vm = "unpolled" => page'.host = "none" /\ ~page'.hadConnectError
    BY <2>3, <2>4, <2>5, ResolveOK
  <2>7. QED BY <2>1, <2>6, TabStripIInv DEF InTabStrip, UiStep
<1>11. CASE Measure
  <2> DEFINE p == [page EXCEPT !.border = "measured"]
  <2>1. /\ PageOK(p) /\ p.host = page.host
        /\ p.hadConnectError = page.hadConnectError
    BY DEF PageOK, PopupOK, ErrorOK, FailuresOK, PageState, HasWindow
  <2>2. page' = ResolveDeferredShow(UpdateRdphostBounds(p))
    BY <1>11 DEF Measure, InTabStrip, UiStep, OnRdpHostSizeChanged
  <2> HIDE DEF p
  <2>3. /\ PageOK(UpdateRdphostBounds(p))
        /\ UpdateRdphostBounds(p).host = p.host
        /\ UpdateRdphostBounds(p).hadConnectError = p.hadConnectError
    BY <2>1, BoundsOK DEF UpdateRdphostBounds, PageOK, PageState
  <2>4. /\ PageOK(page')
        /\ vm = "unpolled" => page'.host = "none" /\ ~page'.hadConnectError
    BY <2>1, <2>2, <2>3, ResolveOK DEF IInv
  <2>5. QED BY <1>11, <2>4, TabStripIInv DEF Measure, InTabStrip, UiStep
<1>12. CASE Activate
  <2> DEFINE p == [page EXCEPT !.border = "pending", !.pinned = FALSE]
  <2>1. /\ PageOK(p) /\ p.host = page.host
        /\ p.hadConnectError = page.hadConnectError
    BY DEF PageOK, PopupOK, ErrorOK, FailuresOK, PageState, HasWindow
  <2>2. page' = ShowPopup(p)
    BY <1>12 DEF Activate, InTabStrip, UiStep
  <2> HIDE DEF p
  <2>3. QED BY <1>12, <2>1, <2>2, ShowPopupOK, TabStripIInv
            DEF Activate, InTabStrip, UiStep, IInv
<1>13. CASE Deactivate
  <2> DEFINE p == HidePopup(page)
  <2>1. /\ PageOK(p) /\ p.host = page.host
        /\ p.hadConnectError = page.hadConnectError
    BY HidePopupOK
  <2>2. page' = [p EXCEPT !.border = "unmounted"]
    BY <1>13 DEF Deactivate, InTabStrip, UiStep
  <2> HIDE DEF p
  <2>3. /\ PageOK(page') /\ page'.host = p.host
        /\ page'.hadConnectError = p.hadConnectError
    BY <2>1, <2>2 DEF PageOK, PopupOK, ErrorOK, FailuresOK, PageState, HasWindow
  <2>4. QED BY <1>13, <2>1, <2>3, TabStripIInv DEF Deactivate, InTabStrip, UiStep, IInv
<1>14. CASE OpenDialog \/ CloseDialog
  BY <1>14, DialogOK, TabStripIInv
     DEF OpenDialog, CloseDialog, InTabStrip, UiStep, IInv
<1>15. CASE ClickStart
  <2>1. PICK outcome \in SpawnOutcomes :
          InTabStrip(OnPlaceholderStartClick(page, outcome))
    BY <1>15 DEF ClickStart
  <2> DEFINE f == ForgetConnectError(page)
             p == [f EXCEPT !.startRequested = "fresh", !.pendingConnect = "fresh",
                            !.placeholder = "starting"]
  <2>2. PageOK(f) /\ f.hadConnectError = FALSE
    BY ForgetOK
  <2> HIDE DEF f
  <2>3. PageOK(p) /\ p.hadConnectError = FALSE
    <3>1. f \in PageState
      BY <2>2 DEF PageOK
    <3>2. p \in PageState
      BY <3>1 DEF PageState, Latch, Placeholders
    <3>3. QED BY <2>2, <3>1, <3>2 DEF PageOK, PageState, PopupOK, ErrorOK, FailuresOK, HasWindow
  <2>4. page' = UpdatePlaceholderAndClient(p, outcome)
    BY <2>1 DEF InTabStrip, UiStep, OnPlaceholderStartClick, f
  <2> HIDE DEF p
  <2>5. QED BY <2>1, <2>3, <2>4, UpdateOK, TabStripIInv DEF InTabStrip, UiStep
<1>16. CASE ClickRetry
  <2>1. PICK outcome \in SpawnOutcomes :
          InTabStrip(OnPlaceholderRetryClick(page, outcome))
    BY <1>16 DEF ClickRetry
  <2>2. PageOK(ForgetConnectError(page)) /\ ForgetConnectError(page).hadConnectError = FALSE
    BY ForgetOK
  <2>3. page' = UpdatePlaceholderAndClient(ForgetConnectError(page), outcome)
    BY <2>1 DEF InTabStrip, UiStep, OnPlaceholderRetryClick
  <2>4. QED BY <2>1, <2>2, <2>3, UpdateOK, TabStripIInv DEF InTabStrip, UiStep
<1>17. CASE ApplySettings
  <2>1. PICK outcome \in SpawnOutcomes :
          InTabStrip(ReapplyConnectionSettings(page, outcome))
    BY <1>17 DEF ApplySettings
  <2>2. page' = Respawn(page, outcome)
    BY <1>17, <2>1 DEF ApplySettings, InTabStrip, UiStep, ReapplyConnectionSettings
  <2>3. QED BY <2>1, <2>2, RespawnOK, TabStripIInv DEF InTabStrip, UiStep, IInv
<1>18. CASE CloseTab
  <2>1. page' = CloseTabItem(page) /\ life' = "closed"
    BY <1>18 DEF CloseTab, UiStep
  <2>2. QED BY <1>18, <2>1, CloseOK DEF CloseTab, UiStep, IInv, TypeOK, PageOK
<1>19. CASE Release
  <2>1. page' = ShutdownClient(page) /\ life' = "gone" /\ life = "closed"
    BY <1>19 DEF Release
  <2>2. /\ PageOK(page') /\ page'.host = "none" /\ page'.wantsVisible = page.wantsVisible
        /\ page'.hadConnectError = page.hadConnectError
    BY <2>1, ShutdownOK
  <2>3. QED BY <1>19, <2>1, <2>2 DEF Release, IInv, TypeOK, PageOK
<1>20. CASE Elapse
  <2>1. PICK n \in Nat : page' = [page EXCEPT !.reconnectIn = n]
    BY <1>20 DEF Elapse, PageState
  <2>2. /\ PageOK(page') /\ page'.host = page.host
        /\ page'.hadConnectError = page.hadConnectError
        /\ page'.wantsVisible = page.wantsVisible
    BY <2>1 DEF PageOK, PopupOK, ErrorOK, FailuresOK, PageState, HasWindow
  <2>3. untilPoll' \in Nat
    BY <1>20 DEF Elapse, IInv, TypeOK
  <2>4. QED BY <1>20, <2>2, <2>3 DEF Elapse, IInv, TypeOK, PageOK
<1>21. CASE UNCHANGED vars
  BY <1>21 DEF vars, IInv, TypeOK, PageOK
<1>22. QED
  BY <1>1, <1>2, <1>3, <1>4, <1>5, <1>6, <1>7, <1>8, <1>9, <1>10, <1>11, <1>12,
     <1>13, <1>14, <1>15, <1>16, <1>17, <1>18, <1>19, <1>20, <1>21 DEF Next, Host, User

\* Type correctness.
THEOREM TypeCorrect == Spec => []TypeOK
<1>1. IInv => TypeOK
  BY DEF IInv
<1>2. QED BY <1>1, InitIInv, NextIInv, PTL DEF Spec

\* The popup is on screen only when the tab is open, selected, not under a
\* dialog, and its page believes the session connected (ShowPopup, OnConnected).
THEOREM PopupSafety == Spec => []PopupOnlyWhenWanted
<1>1. IInv => PopupOnlyWhenWanted
  BY DEF IInv, PageOK, PopupOK, PopupOnlyWhenWanted
<1>2. QED BY <1>1, InitIInv, NextIInv, PTL DEF Spec

\* While the error view is latched no child runs behind it (ShowConnectError).
THEOREM ErrorLatchSafety == Spec => []ErrorLatchHolds
<1>1. IInv => ErrorLatchHolds
  BY DEF IInv, PageOK, ErrorOK, ErrorLatchHolds
<1>2. QED BY <1>1, InitIInv, NextIInv, PTL DEF Spec

\* The failure counter reaches kMaxConnectFailures only with the error latched
\* (OnDisconnected, ShowConnectError).
THEOREM FailureBound == Spec => []FailuresOK(page)
<1>1. IInv => FailuresOK(page)
  BY DEF IInv, PageOK
<1>2. QED BY <1>1, InitIInv, NextIInv, PTL DEF Spec

----------------------------------------------------------------------------
(* The page and its child.  PageAgreesWithChild speaks of a drained queue;   *)
(* what is kept while work is queued is that a live session the page does    *)
(* not know, or does not show, has its Connected event still to come, with   *)
(* no report of a drop behind it.                                            *)

Drops    == {"disconnected", "disconnectedFatal", "error"}
Connects == {"connected", "connectedEnhanced"}

NoDrop(q)     == \A i \in DOMAIN q : q[i] \notin Drops
ConnectDue(q) ==
  \E i \in DOMAIN q : /\ q[i] \in Connects
                      /\ \A j \in DOMAIN q : j > i => q[j] \notin Drops

\* The pane is cleared for a client, and offers Start or an error without one.
Cleared(p) ==
  /\ p.placeholder = "session" => HasClient(p)
  /\ p.placeholder \in {"start", "status", "missing", "loading", "error"}
       => ~HasClient(p)

\* A mounted Border with a size has the client's popup pinned to it.
LaidOut(p) ==
  /\ p.wantsVisible => p.border # "unmounted"
  /\ HasClient(p) /\ p.border = "measured" => p.pinned

\* A wanted popup is on screen, or its show waits for the layout.
ShowKept(p) ==
  p.wantsVisible /\ ~p.popupSuppressed =>
    p.shown \/ (p.deferredShow /\ p.border = "pending")

Known(p)   == p.host = "live" => p.connected /\ ShowKept(p)
Told(p, q) == p.host = "live" => ConnectDue(q) \/ (NoDrop(q) /\ Known(p))

\* What a handler may do to the child: leave it, drop it, or spawn one.
Keeps(p, u) ==
  /\ u \in PageState
  /\ u.border = p.border /\ u.wantsVisible = p.wantsVisible
  /\ u.popupSuppressed = p.popupSuppressed
  /\ \/ u.host = "none"
     \/ u.host \in {"connecting", "failed"} /\ (p.border = "measured" => u.pinned)
     \/ /\ HasClient(p) /\ u.host = p.host /\ u.connected = p.connected
        /\ u.shown = p.shown /\ u.deferredShow = p.deferredShow /\ u.pinned = p.pinned

\* TearDownClient leaves no child and the wishes of the user.
LEMMA TearKeeps ==
  ASSUME NEW p \in PageState
  PROVE  LET u == TearDownClient(p)
         IN /\ u \in PageState /\ u.host = "none" /\ u.border = p.border
            /\ u.wantsVisible = p.wantsVisible
            /\ u.popupSuppressed = p.popupSuppressed
<1> DEFINE u == TearDownClient(p)
<1>1. CASE ~HasClient(p)
  BY <1>1 DEF TearDownClient, HasClient
<1>2. CASE HasClient(p)
  <2>1. u = [p EXCEPT !.shown = FALSE, !.host = "none", !.connected = FALSE,
                       !.deferredShow = FALSE, !.pinned = FALSE]
    BY <1>2 DEF TearDownClient, Hide
  <2> HIDE DEF u
  <2> QED
    BY ZenonT(60), <2>1 DEF PageState, Hosts, u
<1> QED
  BY <1>1, <1>2

\* The fields StartConnection writes keep their types.
LEMMA SpawnType ==
  ASSUME NEW x \in PageState, NEW h \in Hosts, NEW b \in BOOLEAN, NEW c \in BOOLEAN
  PROVE  [x EXCEPT !.host = h, !.wantedEnhanced = b, !.enhancedReady = FALSE,
                   !.pinned = c] \in PageState
BY DEF PageState

\* DriveClient spawns a child where there is none, and leaves one that is there.
LEMMA DriveKeeps ==
  ASSUME NEW p \in PageState, NEW outcome \in SpawnOutcomes \ {"none"}
  PROVE  /\ Keeps(p, DriveClient(p, outcome)) /\ Cleared(DriveClient(p, outcome))
         /\ HasClient(DriveClient(p, outcome))
         /\ HasClient(p) => DriveClient(p, outcome).host = p.host
<1> DEFINE u == DriveClient(p, outcome)
           at(ph) == [p EXCEPT !.placeholder = ph]
           empty  == IF Running THEN "session" ELSE "starting"
           busy   == IF Running THEN "connecting" ELSE "starting"
<1>1. CASE ~HasClient(p)
  <2>1. outcome \in {"connecting", "failed"} /\ outcome \in Hosts
    BY ViewsAssumption DEF Hosts
  <2> DEFINE a == at(empty)
  <2>2. /\ a \in PageState /\ a.host = p.host /\ a.border = p.border
        /\ a.wantsVisible = p.wantsVisible /\ a.popupSuppressed = p.popupSuppressed
        /\ a.placeholder \in {"session", "starting"}
    BY DEF PageState, Placeholders
  <2> DEFINE enhanced == WantEnhanced(a)
             measured == a.border = "measured"
  <2>3. u = [a EXCEPT !.host = outcome, !.wantedEnhanced = enhanced,
                      !.enhancedReady = FALSE, !.pinned = measured]
    BY <1>1, <2>1, <2>2 DEF DriveClient, StartConnection, HasClient
  <2>4. enhanced \in BOOLEAN /\ measured \in BOOLEAN /\ (a.border = "measured" => measured)
    BY DEF WantEnhanced
  <2> HIDE DEF u, a, enhanced, measured
  <2>5. u \in PageState
    BY <2>1, <2>2, <2>3, <2>4, SpawnType
  <2>6. /\ u.host = outcome /\ u.pinned = measured /\ u.border = a.border
        /\ u.placeholder = a.placeholder /\ u.wantsVisible = a.wantsVisible
        /\ u.popupSuppressed = a.popupSuppressed
    BY <2>2, <2>3 DEF PageState
  <2> QED
    BY <1>1, <2>1, <2>2, <2>4, <2>5, <2>6 DEF Keeps, Cleared, HasClient, u
<1>2. CASE HasClient(p)
  <2>1. PICK ph \in {"session", "connecting", "starting"} : u = at(ph)
    BY <1>2 DEF DriveClient
  <2> HIDE DEF u
  <2>2. u \in PageState
    BY <2>1 DEF PageState, Placeholders
  <2> QED
    BY <1>2, <2>1, <2>2 DEF Keeps, Cleared, HasClient, PageState, u
<1> QED
  BY <1>1, <1>2

\* However it ends, UpdatePlaceholderAndClient leaves pane and client agreed.
LEMMA UpdateKeeps ==
  ASSUME NEW p \in PageState, NEW outcome \in SpawnOutcomes \ {"none"}
  PROVE  LET u == UpdatePlaceholderAndClient(p, outcome)
         IN Keeps(p, u) /\ Cleared(u)
<1> DEFINE u       == UpdatePlaceholderAndClient(p, outcome)
           aged    == AgePendingConnect(p)
           cleared == IF aged.hadConnectError THEN ForgetConnectError(aged) ELSE aged
           tornTo(q, ph) == [TearDownClient(q) EXCEPT !.placeholder = ph]
           Like(q) == /\ q \in PageState
                      /\ q.host = p.host /\ q.connected = p.connected
                      /\ q.shown = p.shown /\ q.deferredShow = p.deferredShow
                      /\ q.pinned = p.pinned /\ q.border = p.border
                      /\ q.wantsVisible = p.wantsVisible
                      /\ q.popupSuppressed = p.popupSuppressed
<1>1. Like(aged)
  BY DEF AgePendingConnect, PageState, Latch
<1>2. Like(cleared)
  <2> HIDE DEF aged
  <2>1. CASE aged.hadConnectError
    BY <1>1, <2>1 DEF ForgetConnectError, PageState
  <2> QED
    BY <1>1, <2>1
<1>3. ASSUME NEW q, Like(q), NEW ph \in Placeholders \ {"session"}
      PROVE  Keeps(p, tornTo(q, ph)) /\ Cleared(tornTo(q, ph))
  <2> DEFINE t == TearDownClient(q)
  <2>1. /\ t \in PageState /\ t.host = "none" /\ t.border = p.border
        /\ t.wantsVisible = p.wantsVisible /\ t.popupSuppressed = p.popupSuppressed
    BY <1>3, TearKeeps
  <2> HIDE DEF t
  <2>2. tornTo(q, ph) \in PageState
    BY <2>1 DEF PageState, t
  <2> QED
    BY <2>1, <2>2 DEF Keeps, Cleared, HasClient, PageState, t
<1>4. CASE vm \in {"unpolled", "missing"}
  <2>1. u = tornTo(p, IF vm = "unpolled" THEN "loading" ELSE "missing")
    BY <1>4 DEF UpdatePlaceholderAndClient
  <2> HIDE DEF u, tornTo
  <2> QED
    BY <1>3, <2>1 DEF Placeholders, u
<1>5. CASE vm \notin {"unpolled", "missing"} /\ WantClient(aged) /\ aged.hadConnectError
  <2>1. u = tornTo(aged, "error")
    BY <1>5 DEF UpdatePlaceholderAndClient
  <2> HIDE DEF u, tornTo, aged
  <2> QED
    BY <1>1, <1>3, <2>1 DEF Placeholders, u
<1>6. CASE vm \notin {"unpolled", "missing"} /\ WantClient(aged) /\ ~aged.hadConnectError
  <2>1. u = DriveClient(aged, outcome)
    BY <1>6 DEF UpdatePlaceholderAndClient
  <2> HIDE DEF u, aged
  <2>2. Keeps(aged, u) /\ Cleared(u)
    BY <1>1, <2>1, DriveKeeps
  <2> QED
    BY <1>1, <2>2 DEF Keeps, HasClient, u
<1>7. CASE vm \notin {"unpolled", "missing"} /\ ~WantClient(aged)
  <2> DEFINE requested == IF vm = "job" \/ cleared.startRequested = "expired"
                          THEN "no" ELSE cleared.startRequested
             ph == IF vm = "stopped" /\ requested = "no" THEN "start" ELSE "status"
             t  == TearDownClient(cleared)
  <2>1. u = [t EXCEPT !.startRequested = requested, !.placeholder = ph]
    BY <1>7 DEF UpdatePlaceholderAndClient, DriveStopped
  <2> HIDE DEF cleared
  <2>2. /\ t \in PageState /\ t.host = "none" /\ t.border = p.border
        /\ t.wantsVisible = p.wantsVisible /\ t.popupSuppressed = p.popupSuppressed
    BY <1>2, TearKeeps
  <2>3. requested \in Latch /\ ph \in {"start", "status"}
    BY <1>2 DEF Latch, PageState
  <2> HIDE DEF u, t, requested, ph
  <2>4. u \in PageState
    BY <2>1, <2>2, <2>3 DEF PageState, Placeholders
  <2> QED
    BY <2>1, <2>2, <2>3, <2>4 DEF Keeps, Cleared, HasClient, PageState, u
<1> QED
  BY <1>4, <1>5, <1>6, <1>7

\* A handler's page, and that it did not find a live session by itself.
Fit(p)        == Cleared(p) /\ LaidOut(p)
Settled(p, u) == Fit(u) /\ (u.host = "live" => p.host = "live")

\* A page that keeps its child, or changes it for none or a new one, stays fit.
LEMMA KeepsSettled ==
  ASSUME NEW p, NEW u, LaidOut(p), Keeps(p, u), Cleared(u)
  PROVE  Settled(p, u) /\ (Known(p) => Known(u))
BY DEF LaidOut, Keeps, Settled, Fit, Known, ShowKept, HasClient

\* A tick leaves the page fit, and a live session as known as it was.
LEMMA ChangedSettled ==
  ASSUME NEW p \in PageState, Fit(p), NEW outcome \in SpawnOutcomes \ {"none"}
  PROVE  LET u == OnVmManagerChanged(p, outcome)
         IN Settled(p, u) /\ (Known(p) => Known(u))
<1> DEFINE q == ScheduleReconnect(p, UpgradeDelay)
<1> UpgradeDelay \in Nat
  BY TimesAssumption
<1>1. /\ q \in PageState /\ LaidOut(q) /\ q.host = p.host
      /\ Known(p) => Known(q)
  BY DEF ScheduleReconnect, PageState, Fit, LaidOut, Known, ShowKept, HasClient
<1>2. PICK r \in {p, q} :
        OnVmManagerChanged(p, outcome) = UpdatePlaceholderAndClient(r, outcome)
  BY DEF OnVmManagerChanged
<1> HIDE DEF q
<1>3. Keeps(r, OnVmManagerChanged(p, outcome)) /\ Cleared(OnVmManagerChanged(p, outcome))
  BY <1>1, <1>2, UpdateKeeps
<1> QED
  BY <1>1, <1>2, <1>3, KeepsSettled DEF Fit, Settled

\* Connected, however late, leaves a live session known and its popup shown.
LEMMA ConnectedSettled ==
  ASSUME NEW p \in PageState, Fit(p), NEW outcome \in SpawnOutcomes \ {"none"},
         NEW e \in BOOLEAN
  PROVE  LET u == OnConnected(p, e, outcome)
         IN Settled(p, u) /\ Known(u)
<1> DEFINE live == [ForgetConnectError(p) EXCEPT
                     !.connected = TRUE, !.everConnected = TRUE,
                     !.everEnhanced = @ \/ e]
           q == UpdatePlaceholderAndClient(live, outcome)
           placed == UpdateRdphostBounds(q)
           u == OnConnected(p, e, outcome)
<1>1. /\ live \in PageState /\ live.connected /\ live.host = p.host
      /\ live.border = p.border /\ live.pinned = p.pinned
      /\ live.wantsVisible = p.wantsVisible
  <2> DEFINE f == ForgetConnectError(p)
  <2>1. /\ f \in PageState /\ f.host = p.host /\ f.border = p.border
        /\ f.pinned = p.pinned /\ f.wantsVisible = p.wantsVisible
    BY DEF ForgetConnectError, PageState
  <2> HIDE DEF f
  <2>2. (f.everEnhanced \/ e) \in BOOLEAN
    OBVIOUS
  <2>3. live = [f EXCEPT !.connected = TRUE, !.everConnected = TRUE,
                         !.everEnhanced = f.everEnhanced \/ e]
    BY <2>1 DEF PageState, f
  <2> HIDE DEF live
  <2> QED
    BY ZenonT(60), <2>1, <2>2, <2>3 DEF PageState
<1> HIDE DEF live
<1>2. Keeps(live, q) /\ Cleared(q)
  BY <1>1, UpdateKeeps
<1>3. LaidOut(live)
  BY <1>1 DEF Fit, LaidOut, HasClient
<1>4. Settled(p, q) /\ (q.host = "live" => q.connected)
  <2>1. Settled(live, q)
    BY <1>2, <1>3, KeepsSettled
  <2> QED
    BY <1>1, <1>2, <2>1 DEF Settled, Keeps
<1>5. CASE q.wantsVisible /\ HasClient(q) /\ ~q.popupSuppressed
  <2>1. u = [placed EXCEPT !.shown = HasWindow(placed)]
    BY <1>5 DEF OnConnected, Show, live
  <2> HIDE DEF q
  <2>2. q \in PageState
    BY <1>2 DEF Keeps
  <2>3. /\ placed \in PageState /\ placed.host = q.host
        /\ placed.connected = q.connected /\ placed.border = q.border
        /\ placed.wantsVisible = q.wantsVisible /\ placed.placeholder = q.placeholder
        /\ q.border = "measured" => placed.pinned
    BY <1>5, <2>2 DEF UpdateRdphostBounds, PageState
  <2> HIDE DEF placed, u
  <2>4. /\ u.host = q.host /\ u.connected = q.connected /\ u.border = q.border
        /\ u.wantsVisible = q.wantsVisible /\ u.placeholder = q.placeholder
        /\ u.pinned = placed.pinned /\ u.shown = HasWindow(q)
    BY <2>1, <2>3 DEF PageState, HasWindow
  <2> QED
    BY <1>4, <2>3, <2>4 DEF Settled, Fit, Cleared, LaidOut, Known, ShowKept,
                            HasClient, HasWindow, u
<1>6. CASE ~(q.wantsVisible /\ HasClient(q) /\ ~q.popupSuppressed)
  <2>1. u = q
    BY <1>6 DEF OnConnected, q, live
  <2> HIDE DEF q, u
  <2> QED
    BY <1>4, <1>6, <2>1 DEF Known, ShowKept, HasClient, u
<1> QED
  BY <1>5, <1>6

\* EnhancedReady only moves the popup.
LEMMA ReadySettled ==
  ASSUME NEW p \in PageState, Fit(p)
  PROVE  LET u == OnEnhancedReady(p)
         IN Settled(p, u) /\ (Known(p) => Known(u))
<1> DEFINE q == [p EXCEPT !.enhancedReady = TRUE, !.everEnhanced = TRUE]
           u == OnEnhancedReady(p)
<1>1. /\ q \in PageState /\ q.host = p.host /\ q.placeholder = p.placeholder
      /\ q.border = p.border /\ q.wantsVisible = p.wantsVisible
      /\ q.popupSuppressed = p.popupSuppressed /\ q.connected = p.connected
      /\ q.shown = p.shown /\ q.deferredShow = p.deferredShow /\ q.pinned = p.pinned
  BY DEF PageState
<1>2. u = [q EXCEPT !.pinned = @ \/ (HasClient(q) /\ q.border = "measured")]
  BY DEF OnEnhancedReady, UpdateRdphostBounds
<1> HIDE DEF q, u
<1>3. /\ u.host = q.host /\ u.placeholder = q.placeholder
      /\ u.border = q.border /\ u.wantsVisible = q.wantsVisible
      /\ u.popupSuppressed = q.popupSuppressed /\ u.connected = q.connected
      /\ u.shown = q.shown /\ u.deferredShow = q.deferredShow
      /\ q.pinned => u.pinned
  BY <1>1, <1>2 DEF PageState
<1> QED
  BY <1>1, <1>3 DEF Settled, Fit, Cleared, LaidOut, Known, ShowKept, HasClient, u

\* The error view leaves no child.
LEMMA ErrorSettled ==
  ASSUME NEW p \in PageState, p.wantsVisible => p.border # "unmounted"
  PROVE  Settled(p, ShowConnectError(p))
<1> DEFINE t == TearDownClient(p)
           u == ShowConnectError(p)
<1>1. /\ t \in PageState /\ t.host = "none" /\ t.border = p.border
      /\ t.wantsVisible = p.wantsVisible
  BY TearKeeps
<1>2. u = [t EXCEPT !.hadConnectError = TRUE, !.placeholder = "error"]
  BY DEF ShowConnectError
<1> HIDE DEF t, u
<1>3. /\ u.host = "none" /\ u.border = p.border /\ u.placeholder = "error"
      /\ u.wantsVisible = p.wantsVisible
  BY <1>1, <1>2 DEF PageState
<1> QED
  BY <1>3 DEF Settled, Fit, Cleared, LaidOut, HasClient, u

\* Disconnected leaves the page fit: it re-drives it, or arms the timer.
LEMMA DisconnectedSettled ==
  ASSUME NEW p \in PageState, Fit(p), NEW outcome \in SpawnOutcomes \ {"none"},
         NEW fatal \in BOOLEAN
  PROVE  Settled(p, OnDisconnected(p, fatal, outcome))
<1> DEFINE everLive == EverLive(p)
           counted  == IF everLive THEN 0
                       ELSE p.connectFailures + (IF fatal THEN 1 ELSE 0)
           cooldown == p.cooldown \/ EnhancedNeverCameUp(p)
           quiet    == [p EXCEPT !.connected = FALSE,
                                 !.cooldown = @ \/ EnhancedNeverCameUp(p),
                                 !.enhancedReady = FALSE]
           down     == Hide(quiet)
           tallied  == [down EXCEPT !.connectFailures = counted]
           giveUp   == fatal /\ ~everLive /\ TooManyFailures(counted)
           u        == OnDisconnected(p, fatal, outcome)
           delay    == IF p.wantedEnhanced THEN EnhancedRetryDelay ELSE RetryDelay
           Like(q)  == /\ q \in PageState
                       /\ q.host = p.host /\ q.placeholder = p.placeholder
                       /\ q.border = p.border /\ q.pinned = p.pinned
                       /\ q.wantsVisible = p.wantsVisible
<1>1. counted \in Nat
  BY DEF PageState
<1>2. cooldown \in BOOLEAN
  OBVIOUS
<1>3. down = [p EXCEPT !.connected = FALSE, !.cooldown = cooldown,
                       !.enhancedReady = FALSE, !.shown = FALSE]
  BY DEF Hide, PageState
<1> HIDE DEF cooldown, down, counted
<1>4. Like(down)
  BY ZenonT(60), <1>2, <1>3 DEF PageState
<1>5. Like(tallied)
  BY <1>1, <1>4 DEF PageState
<1> HIDE DEF tallied
<1>6. ASSUME NEW q, Like(q), NEW n \in Nat
      PROVE  Settled(p, ScheduleReconnect(q, n)) /\ Settled(p, ShowConnectError(q))
  <2>1. Settled(p, ScheduleReconnect(q, n))
    BY <1>6 DEF ScheduleReconnect, PageState, Settled, Fit, Cleared, LaidOut, HasClient
  <2>2. Settled(q, ShowConnectError(q))
    BY <1>6, ErrorSettled DEF Fit, LaidOut
  <2> QED
    BY <1>6, <2>1, <2>2 DEF Settled
<1>7. Settled(p, UpdatePlaceholderAndClient(down, outcome))
  <2>1. LaidOut(down)
    BY <1>4 DEF Fit, LaidOut, HasClient
  <2>2. Settled(down, UpdatePlaceholderAndClient(down, outcome))
    BY <1>4, <2>1, UpdateKeeps, KeepsSettled
  <2> QED
    BY <1>4, <2>2 DEF Settled
<1>8. \/ u \in {ScheduleReconnect(down, RetryDelay), ScheduleReconnect(tallied, delay)}
      \/ u = ShowConnectError(tallied)
      \/ u = UpdatePlaceholderAndClient(down, outcome)
  BY DEF OnDisconnected, down, tallied, counted
<1>9. RetryDelay \in Nat /\ delay \in Nat
  BY TimesAssumption
<1> HIDE DEF delay
<1> QED
  BY <1>4, <1>5, <1>6, <1>7, <1>8, <1>9

\* Dispatching the head of the queue: what is still to come is in the tail.
LEMMA TailTold ==
  ASSUME NEW q \in Seq(Events), q # <<>>, NEW p, Told(p, q), p.host = "live"
  PROVE  \/ ConnectDue(Tail(q))
         \/ NoDrop(Tail(q)) /\ Head(q) \in Connects
         \/ NoDrop(Tail(q)) /\ Head(q) \notin Drops /\ Known(p)
<1>1. /\ DOMAIN q = 1 .. Len(q) /\ Len(q) \in Nat \ {0} /\ Head(q) = q[1]
      /\ DOMAIN Tail(q) = 1 .. Len(q) - 1
      /\ \A i \in 1 .. Len(q) - 1 : Tail(q)[i] = q[i + 1]
  OBVIOUS
<1>2. ASSUME NoDrop(q) PROVE NoDrop(Tail(q)) /\ Head(q) \notin Drops
  BY <1>1, <1>2 DEF NoDrop
<1>3. ASSUME ConnectDue(q)
      PROVE  ConnectDue(Tail(q)) \/ (NoDrop(Tail(q)) /\ Head(q) \in Connects)
  <2>1. PICK i \in DOMAIN q : /\ q[i] \in Connects
                              /\ \A j \in DOMAIN q : j > i => q[j] \notin Drops
    BY <1>3 DEF ConnectDue
  <2>2. CASE i = 1
    BY <1>1, <2>1, <2>2 DEF NoDrop
  <2>3. CASE i # 1
    <3>1. i - 1 \in DOMAIN Tail(q) /\ Tail(q)[i - 1] \in Connects
      BY <1>1, <2>1, <2>3
    <3>2. ASSUME NEW j \in DOMAIN Tail(q), j > i - 1 PROVE Tail(q)[j] \notin Drops
      BY <1>1, <2>1, <3>2
    <3> QED
      BY <3>1, <3>2 DEF ConnectDue
  <2> QED
    BY <2>2, <2>3
<1> QED
  BY <1>2, <1>3 DEF Told

\* Every item of the UI queue leaves an open tab's page fit, and a live session
\* known or its Connected still queued.
LEMMA HandleSettled ==
  ASSUME NEW p \in PageState, NEW q \in Seq(Events), q # <<>>, life = "open",
         Fit(p), Told(p, q), NEW outcome \in SpawnOutcomes \ {"none"}
  PROVE  LET u == Handle(Head(q), p, outcome)
         IN Fit(u) /\ Told(u, Tail(q))
<1> DEFINE e == Head(q)
           u == Handle(e, p, outcome)
<1>1. e \in Events
  OBVIOUS
<1>2. CASE e \in Drops
  <2>1. Settled(p, u)
    BY <1>2, DisconnectedSettled, ErrorSettled DEF Handle, Drops, OnError, Fit, LaidOut
  <2> QED
    BY <1>2, <2>1, TailTold DEF Settled, Told, Drops, Connects
<1>3. CASE e \in Connects
  <2>1. Settled(p, u) /\ Known(u)
    BY <1>3, ConnectedSettled DEF Handle, Connects
  <2> QED
    BY <2>1, TailTold DEF Settled, Told
<1>4. CASE e \in {"changed", "enhancedReady"}
  <2>1. Settled(p, u) /\ (Known(p) => Known(u))
    BY <1>4, ChangedSettled, ReadySettled DEF Handle
  <2> QED
    BY <1>4, <2>1, TailTold DEF Settled, Told, Connects
<1> QED
  BY <1>1, <1>2, <1>3, <1>4 DEF Events, Drops, Connects

\* An item at the end of the queue: a Connected is due, or nothing is undone.
LEMMA AppendTold ==
  ASSUME NEW q \in Seq(Events), NEW e \in Events
  PROVE  /\ e \in Connects => ConnectDue(Append(q, e))
         /\ e \notin Drops => \A p : Told(p, q) => Told(p, Append(q, e))
<1> DEFINE r == Append(q, e)
<1>1. /\ DOMAIN q = 1 .. Len(q) /\ Len(q) \in Nat /\ DOMAIN r = 1 .. Len(q) + 1
      /\ r[Len(q) + 1] = e /\ \A i \in 1 .. Len(q) : r[i] = q[i]
  OBVIOUS
<1> HIDE DEF r
<1>2. ASSUME e \in Connects PROVE ConnectDue(r)
  <2>1. \A j \in DOMAIN r : ~(j > Len(q) + 1)
    BY <1>1
  <2> QED
    BY <1>1, <1>2, <2>1 DEF ConnectDue
<1>3. ASSUME e \notin Drops, NoDrop(q) PROVE NoDrop(r)
  <2>1. \A i \in DOMAIN r : i \in DOMAIN q \/ i = Len(q) + 1
    BY <1>1
  <2> QED
    BY <1>1, <1>3, <2>1 DEF NoDrop
<1>4. ASSUME e \notin Drops, ConnectDue(q) PROVE ConnectDue(r)
  <2>1. PICK i \in DOMAIN q : /\ q[i] \in Connects
                              /\ \A j \in DOMAIN q : j > i => q[j] \notin Drops
    BY <1>4 DEF ConnectDue
  <2>2. i \in DOMAIN r /\ r[i] \in Connects
    BY <1>1, <2>1
  <2>3. \A j \in DOMAIN r : j \in DOMAIN q \/ j = Len(q) + 1
    BY <1>1
  <2>4. \A j \in DOMAIN r : j > i => r[j] \notin Drops
    BY <1>1, <1>4, <2>1, <2>3
  <2> QED
    BY <2>2, <2>4 DEF ConnectDue
<1> QED
  BY <1>2, <1>3, <1>4 DEF Told, r

\* Once the Border has a size the popup is pinned, and shown if that was put off.
LEMMA LayoutSettled ==
  ASSUME NEW p \in PageState, Cleared(p), p.wantsVisible => p.border # "unmounted"
  PROVE  LET u == ResolveDeferredShow(UpdateRdphostBounds(p))
         IN /\ Fit(u) /\ u.host = p.host
            /\ p.connected /\ (p.wantsVisible /\ ~p.popupSuppressed
                                 => p.shown \/ p.deferredShow)
                 => Known(u)
<1> DEFINE q == UpdateRdphostBounds(p)
           u == ResolveDeferredShow(q)
<1>1. /\ q \in PageState /\ q.host = p.host /\ q.placeholder = p.placeholder
      /\ q.border = p.border /\ q.wantsVisible = p.wantsVisible
      /\ q.popupSuppressed = p.popupSuppressed /\ q.connected = p.connected
      /\ q.shown = p.shown /\ q.deferredShow = p.deferredShow
      /\ HasClient(q) /\ q.border = "measured" => q.pinned
  BY DEF UpdateRdphostBounds, PageState, HasClient
<1> HIDE DEF q
<1>2. CASE /\ HasClient(q) /\ q.wantsVisible /\ q.connected
           /\ q.deferredShow /\ ~q.popupSuppressed
  <2>1. u = [q EXCEPT !.shown = HasWindow(q), !.deferredShow = FALSE]
    BY <1>2 DEF ResolveDeferredShow, Show
  <2> HIDE DEF u
  <2>2. /\ u.host = q.host /\ u.placeholder = q.placeholder /\ u.border = q.border
        /\ u.wantsVisible = q.wantsVisible /\ u.connected = q.connected
        /\ u.pinned = q.pinned /\ u.shown = HasWindow(q)
    BY <1>1, <2>1 DEF PageState
  <2> QED
    BY <1>1, <2>2 DEF Fit, Cleared, LaidOut, Known, ShowKept, HasClient, HasWindow, u, q
<1>3. CASE ~(/\ HasClient(q) /\ q.wantsVisible /\ q.connected
             /\ q.deferredShow /\ ~q.popupSuppressed)
  <2>1. u = q
    BY <1>3 DEF ResolveDeferredShow
  <2> HIDE DEF u
  <2> QED
    BY <1>1, <1>3, <2>1 DEF Fit, Cleared, LaidOut, Known, ShowKept, HasClient, u, q
<1> QED
  BY <1>2, <1>3

\* Showing the popup of a laid-out page.
LEMMA ShowSettled ==
  ASSUME NEW p \in PageState, Fit(p), p.border # "unmounted"
  PROVE  LET u == ShowPopup(p)
         IN /\ Fit(u) /\ u.host = p.host
            /\ p.connected => Known(u)
<1> DEFINE wanted == [p EXCEPT !.wantsVisible = TRUE]
           ready  == ~p.popupSuppressed /\ HasClient(p) /\ p.connected
           placed == UpdateRdphostBounds(wanted)
           u      == ShowPopup(p)
<1>1. /\ wanted \in PageState /\ wanted.host = p.host
      /\ wanted.placeholder = p.placeholder /\ wanted.border = p.border
      /\ wanted.wantsVisible /\ wanted.popupSuppressed = p.popupSuppressed
      /\ wanted.connected = p.connected /\ wanted.pinned = p.pinned
  BY DEF PageState
<1>2. CASE ~ready
  BY <1>1, <1>2 DEF ShowPopup, Fit, Cleared, LaidOut, Known, ShowKept, HasClient
<1>3. CASE ready /\ p.border = "measured"
  <2>1. u = [placed EXCEPT !.shown = HasWindow(placed), !.deferredShow = FALSE]
    BY <1>3 DEF ShowPopup, Show
  <2> HIDE DEF wanted
  <2>2. /\ placed \in PageState /\ placed.host = p.host
        /\ placed.placeholder = p.placeholder /\ placed.border = p.border
        /\ placed.pinned /\ placed.wantsVisible /\ placed.connected = p.connected
    BY <1>1, <1>3 DEF UpdateRdphostBounds, PageState, HasClient
  <2> HIDE DEF placed, u
  <2>3. /\ u.host = p.host /\ u.placeholder = p.placeholder /\ u.border = p.border
        /\ u.pinned /\ u.wantsVisible /\ u.connected = p.connected
        /\ u.shown = HasWindow(placed)
    BY <2>1, <2>2 DEF PageState
  <2> QED
    BY <1>3, <2>2, <2>3 DEF Fit, Cleared, LaidOut, Known, ShowKept, HasClient, HasWindow, u
<1>4. CASE ready /\ p.border # "measured"
  <2>1. u = [wanted EXCEPT !.deferredShow = TRUE]
    BY <1>4 DEF ShowPopup
  <2> HIDE DEF wanted, u
  <2>2. /\ u.host = p.host /\ u.placeholder = p.placeholder /\ u.border = "pending"
        /\ u.deferredShow /\ u.connected = p.connected
    BY <1>1, <1>4, <2>1 DEF PageState
  <2> QED
    BY <1>4, <2>2 DEF Fit, Cleared, LaidOut, Known, ShowKept, HasClient, u
<1> QED
  BY <1>2, <1>3, <1>4

\* A fresh child is not a live session, whatever it replaces.
LEMMA RespawnSettled ==
  ASSUME NEW p \in PageState, p.wantsVisible => p.border # "unmounted",
         NEW outcome \in SpawnOutcomes \ {"none"}
  PROVE  LET u == Respawn(p, outcome)
         IN Fit(u) /\ u.host # "live"
<1> DEFINE t == TearDownClient(p)
           u == UpdatePlaceholderAndClient(t, outcome)
<1>1. /\ t \in PageState /\ t.host = "none" /\ t.border = p.border
      /\ t.wantsVisible = p.wantsVisible
  BY TearKeeps
<1> HIDE DEF t
<1>2. Keeps(t, u) /\ Cleared(u)
  BY <1>1, UpdateKeeps
<1>3. LaidOut(t)
  BY <1>1 DEF LaidOut, HasClient
<1>4. Settled(t, u)
  BY <1>2, <1>3, KeepsSettled
<1> QED
  BY <1>1, <1>4 DEF Settled, Respawn, t

\* What makes PageAgreesWithChild inductive.
Agreed == life = "open" => Fit(page) /\ Told(page, uiq)

\* A change of the child's session leaves the page fit; a session that comes up
\* has its Connected at the end of the queue.
LEMMA HostEventAgreed ==
  ASSUME TypeOK, Fit(page), Told(page, uiq),
         NEW from \in {"connecting", "live"}, NEW to \in {"live", "dropped"},
         NEW e \in Events,
         to = "live" => e \in Connects \/ (from = "live" /\ e \notin Drops),
         HostEvent(from, to, e)
  PROVE  Fit(page') /\ Told(page', uiq')
<1>0. page \in PageState /\ page' = [page EXCEPT !.host = to]
  BY DEF TypeOK, HostEvent
<1>1. page.host = from /\ uiq \in Seq(Events) /\ uiq' = Append(uiq, e)
  BY DEF TypeOK, HostEvent, Enqueue
<1>2. /\ page'.host = to /\ page'.placeholder = page.placeholder
      /\ page'.border = page.border /\ page'.wantsVisible = page.wantsVisible
      /\ page'.popupSuppressed = page.popupSuppressed
      /\ page'.connected = page.connected /\ page'.shown = page.shown
      /\ page'.deferredShow = page.deferredShow /\ page'.pinned = page.pinned
  BY <1>0 DEF PageState
<1>3. Fit(page')
  BY <1>1, <1>2 DEF Fit, Cleared, LaidOut, HasClient
<1>4. CASE to = "dropped" \/ e \in Connects
  <2>1. e \in Connects => ConnectDue(uiq')
    BY <1>1, AppendTold
  <2> QED
    BY <1>2, <1>3, <1>4, <2>1 DEF Told
<1>5. CASE from = "live" /\ to = "live" /\ e \notin Drops
  <2>1. Told(page', uiq)
    BY <1>1, <1>2, <1>5 DEF Told, Known, ShowKept
  <2> QED
    BY <1>1, <1>3, <1>5, <2>1, AppendTold
<1> QED
  BY <1>3, <1>4, <1>5

\* The invariant is kept by every step: one step per action of Next.
LEMMA NextAgreed ==
  ASSUME "none" \notin SpawnOutcomes, IInv, Agreed, [Next]_vars
  PROVE  Agreed'
<1> SUFFICES ASSUME life' = "open" PROVE Fit(page') /\ Told(page', uiq')
  BY DEF Agreed
<1>1. /\ page \in PageState /\ uiq \in Seq(Events) /\ TypeOK
      /\ \A outcome \in SpawnOutcomes : outcome \in SpawnOutcomes \ {"none"}
  BY DEF IInv, TypeOK
<1>2. life = "open"
  BY DEF Next, Poll, Kick, Notify, Elapse, Host, HostConnects, HostLogsIn, HostDrops, HostReportsError,
         HostExits, HostEvent, Dispatch, ReconnectTick, Timers, CooldownExpires,
         PendingConnectExpires, StartRequestExpires, Load, Measure, User, Activate,
         Deactivate, OpenDialog, CloseDialog, ClickStart, ClickRetry, ApplySettings,
         CloseTab, Release, InTabStrip, UiStep, vars
<1>3. Fit(page) /\ Told(page, uiq)
  BY <1>2 DEF Agreed
<1>4. ASSUME UNCHANGED uiq, page'.host = "live" => page.host = "live",
             Known(page) => Known(page')
      PROVE  Told(page', uiq')
  BY <1>3, <1>4 DEF Told
<1>5. CASE Poll \/ Kick
  BY <1>1, <1>3, <1>5, AppendTold DEF Poll, Kick, Notify, Enqueue, Events, Drops
<1>6. CASE HostConnects \/ HostLogsIn \/ HostDrops \/ HostReportsError
  BY <1>1, <1>3, <1>6, HostEventAgreed
     DEF HostConnects, HostLogsIn, HostDrops, HostReportsError, Events, Connects, Drops
<1>7. CASE HostExits
  <2>1. page' = [page EXCEPT !.host = "exited", !.shown = FALSE] /\ HasWindow(page)
    BY <1>7 DEF HostExits
  <2>2. /\ page'.host = "exited" /\ page'.placeholder = page.placeholder
        /\ page'.border = page.border /\ page'.pinned = page.pinned
        /\ page'.wantsVisible = page.wantsVisible
    BY <1>1, <2>1 DEF PageState
  <2> QED
    BY <1>3, <2>1, <2>2 DEF Fit, Cleared, LaidOut, Told, HasClient, HasWindow
<1>8. CASE Dispatch
  <2>1. PICK outcome \in SpawnOutcomes : page' = Handle(Head(uiq), page, outcome)
    BY <1>8 DEF Dispatch, UiStep
  <2>2. uiq # <<>> /\ uiq' = Tail(uiq)
    BY <1>8 DEF Dispatch
  <2> QED
    BY <1>1, <1>2, <1>3, <2>1, <2>2, HandleSettled
<1>9. CASE ReconnectTick
  <2> DEFINE p == [page EXCEPT !.reconnectTimer = FALSE]
  <2>1. PICK outcome \in SpawnOutcomes : page' = DoReconnect(p, outcome)
    BY <1>9 DEF ReconnectTick, UiStep
  <2>2. /\ p \in PageState /\ LaidOut(p) /\ p.host = page.host
        /\ Known(page) => Known(p)
    BY <1>1, <1>3 DEF PageState, Fit, LaidOut, Known, ShowKept, HasClient
  <2> HIDE DEF p
  <2>3. CASE page' = Respawn(p, outcome)
    BY <1>1, <2>2, <2>3, RespawnSettled DEF LaidOut, Told
  <2>4. CASE page' = UpdatePlaceholderAndClient(p, outcome)
    <3>1. Settled(p, page') /\ (Known(p) => Known(page'))
      BY <1>1, <2>2, <2>4, UpdateKeeps, KeepsSettled
    <3> QED
      BY <1>4, <1>9, <2>2, <3>1 DEF ReconnectTick, Settled
  <2> QED
    BY <2>1, <2>3, <2>4 DEF DoReconnect
<1>10. CASE Timers
  <2>1. /\ \/ page' = [page EXCEPT !.cooldown = FALSE]
           \/ page' = [page EXCEPT !.pendingConnect = "expired"]
           \/ page' = [page EXCEPT !.startRequested = "expired"]
        /\ UNCHANGED uiq
    BY <1>10 DEF Timers, CooldownExpires, PendingConnectExpires,
                 StartRequestExpires, UiStep
  <2>2. /\ page'.host = page.host /\ page'.placeholder = page.placeholder
        /\ page'.border = page.border /\ page'.wantsVisible = page.wantsVisible
        /\ page'.popupSuppressed = page.popupSuppressed
        /\ page'.connected = page.connected /\ page'.shown = page.shown
        /\ page'.deferredShow = page.deferredShow /\ page'.pinned = page.pinned
    BY <1>1, <2>1 DEF PageState
  <2> QED
    BY <1>3, <1>4, <2>1, <2>2 DEF Fit, Cleared, LaidOut, Known, ShowKept, HasClient
<1>11. CASE Load
  <2>1. PICK b \in {"pending", "measured"}, outcome \in SpawnOutcomes :
          InTabStrip(OnLoaded([page EXCEPT !.border = b], outcome))
    BY <1>11 DEF Load
  <2> DEFINE p == [[page EXCEPT !.border = b] EXCEPT !.loaded = TRUE]
             u == UpdatePlaceholderAndClient(p, outcome)
  <2>2. page' = ResolveDeferredShow(UpdateRdphostBounds(u)) /\ UNCHANGED uiq
    BY <2>1 DEF InTabStrip, UiStep, OnLoaded
  <2>3. /\ p \in PageState /\ p.border = b /\ p.host = page.host
        /\ p.connected = page.connected /\ p.shown = page.shown
        /\ p.wantsVisible = page.wantsVisible /\ p.deferredShow = page.deferredShow
        /\ p.popupSuppressed = page.popupSuppressed
    BY <1>1 DEF PageState
  <2> HIDE DEF p
  <2>4. Keeps(p, u) /\ Cleared(u)
    BY <1>1, <2>3, UpdateKeeps
  <2> HIDE DEF u
  <2>5. u \in PageState /\ u.border # "unmounted"
    BY <2>3, <2>4 DEF Keeps
  <2>6. Fit(page') /\ page'.host = u.host
    BY <2>2, <2>4, <2>5, LayoutSettled
  <2>7. u.host = "live" => page.host = "live"
    BY <2>3, <2>4 DEF Keeps
  <2>8. u.host = "live" /\ Known(page) => Known(page')
    <3>1. u.host = "live" /\ Known(page)
            => u.connected /\ (u.wantsVisible /\ ~u.popupSuppressed
                                 => u.shown \/ u.deferredShow)
      BY <2>3, <2>4, <2>7 DEF Keeps, Known, ShowKept
    <3> QED
      BY <2>2, <2>4, <2>5, <3>1, LayoutSettled
  <2> QED
    BY <1>4, <2>2, <2>6, <2>7, <2>8 DEF Known
<1>12. CASE Measure
  <2> DEFINE p == [page EXCEPT !.border = "measured"]
  <2>1. page' = ResolveDeferredShow(UpdateRdphostBounds(p)) /\ UNCHANGED uiq
    BY <1>12 DEF Measure, InTabStrip, UiStep, OnRdpHostSizeChanged
  <2>2. /\ p \in PageState /\ p.border = "measured" /\ p.host = page.host
        /\ p.connected = page.connected /\ p.shown = page.shown
        /\ p.wantsVisible = page.wantsVisible /\ p.deferredShow = page.deferredShow
        /\ p.popupSuppressed = page.popupSuppressed
        /\ p.placeholder = page.placeholder
    BY <1>1 DEF PageState
  <2> HIDE DEF p
  <2>3. Cleared(p)
    BY <1>3, <2>2 DEF Fit, Cleared, HasClient
  <2>4. Fit(page') /\ page'.host = page.host
    BY <2>1, <2>2, <2>3, LayoutSettled
  <2>5. page'.host = "live" /\ Known(page) => Known(page')
    <3>1. page.host = "live" /\ Known(page)
            => p.connected /\ (p.wantsVisible /\ ~p.popupSuppressed
                                 => p.shown \/ p.deferredShow)
      BY <2>2 DEF Known, ShowKept
    <3> QED
      BY <2>1, <2>2, <2>3, <2>4, <3>1, LayoutSettled
  <2> QED
    BY <1>4, <2>1, <2>4, <2>5 DEF Known
<1>13. CASE Activate
  <2> DEFINE p == [page EXCEPT !.border = "pending", !.pinned = FALSE]
  <2>1. page' = ShowPopup(p) /\ UNCHANGED uiq
    BY <1>13 DEF Activate, InTabStrip, UiStep
  <2>2. /\ p \in PageState /\ p.border = "pending" /\ p.host = page.host
        /\ p.connected = page.connected /\ p.placeholder = page.placeholder
    BY <1>1 DEF PageState
  <2> HIDE DEF p
  <2>3. Fit(p)
    BY <1>3, <2>2 DEF Fit, Cleared, LaidOut, HasClient
  <2>4. /\ Fit(page') /\ page'.host = page.host
        /\ page.connected => Known(page')
    BY <2>1, <2>2, <2>3, ShowSettled
  <2> QED
    BY <1>4, <2>1, <2>4 DEF Known
<1>14. CASE Deactivate
  <2>1. page' = [HidePopup(page) EXCEPT !.border = "unmounted"] /\ UNCHANGED uiq
    BY <1>14 DEF Deactivate, InTabStrip, UiStep
  <2>2. page' = [page EXCEPT !.wantsVisible = FALSE, !.deferredShow = FALSE,
                             !.shown = FALSE, !.border = "unmounted"]
    BY <2>1 DEF HidePopup, Hide
  <2>3. /\ page'.host = page.host /\ page'.placeholder = page.placeholder
        /\ page'.border = "unmounted" /\ ~page'.wantsVisible
        /\ page'.connected = page.connected
    BY <1>1, <2>2 DEF PageState
  <2> QED
    BY <1>3, <1>4, <2>1, <2>3 DEF Fit, Cleared, LaidOut, Known, ShowKept, HasClient
<1>15. CASE OpenDialog \/ CloseDialog
  <2>1. PICK b \in BOOLEAN : page' = SetPopupSuppressed(page, b) /\ UNCHANGED uiq
    BY <1>15 DEF OpenDialog, CloseDialog, InTabStrip, UiStep
  <2> DEFINE p == [page EXCEPT !.popupSuppressed = b]
  <2>2. /\ p \in PageState /\ p.host = page.host /\ p.placeholder = page.placeholder
        /\ p.border = page.border /\ p.wantsVisible = page.wantsVisible
        /\ p.connected = page.connected /\ p.pinned = page.pinned
        /\ p.popupSuppressed = b
    BY <1>1 DEF PageState
  <2>3. CASE b
    <3>1. page' = [p EXCEPT !.shown = FALSE]
      BY <2>1, <2>3 DEF SetPopupSuppressed, Hide
    <3> HIDE DEF p
    <3>2. /\ page'.host = page.host /\ page'.placeholder = page.placeholder
          /\ page'.border = page.border /\ page'.wantsVisible = page.wantsVisible
          /\ page'.connected = page.connected /\ page'.pinned = page.pinned
          /\ page'.popupSuppressed
      BY <2>2, <2>3, <3>1 DEF PageState
    <3> QED
      BY <1>3, <1>4, <2>1, <3>2 DEF Fit, Cleared, LaidOut, Known, ShowKept, HasClient
  <2>4. CASE ~b /\ page.wantsVisible
    <3>1. page' = ShowPopup(p)
      BY <2>1, <2>4 DEF SetPopupSuppressed
    <3> HIDE DEF p
    <3>2. Fit(p) /\ p.border # "unmounted"
      BY <1>3, <2>2, <2>4 DEF Fit, Cleared, LaidOut, HasClient
    <3>3. /\ Fit(page') /\ page'.host = page.host
          /\ page.connected => Known(page')
      BY <2>2, <3>1, <3>2, ShowSettled
    <3> QED
      BY <1>4, <2>1, <3>3 DEF Known
  <2>5. CASE ~b /\ ~page.wantsVisible
    <3>1. page' = p
      BY <2>1, <2>5 DEF SetPopupSuppressed
    <3> HIDE DEF p
    <3> QED
      BY <1>3, <1>4, <2>1, <2>2, <2>5, <3>1
         DEF Fit, Cleared, LaidOut, Known, ShowKept, HasClient
  <2> QED
    BY <2>3, <2>4, <2>5
<1>16. CASE ClickStart \/ ClickRetry
  <2> DEFINE f == ForgetConnectError(page)
             s == [f EXCEPT !.startRequested = "fresh", !.pendingConnect = "fresh",
                            !.placeholder = "starting"]
             Like(p) == /\ p \in PageState /\ LaidOut(p) /\ p.host = page.host
                        /\ Known(page) => Known(p)
  <2>1. PICK outcome \in SpawnOutcomes, p \in {f, s} :
          page' = UpdatePlaceholderAndClient(p, outcome) /\ UNCHANGED uiq
    BY <1>16 DEF ClickStart, ClickRetry, OnPlaceholderStartClick,
                 OnPlaceholderRetryClick, InTabStrip, UiStep
  <2>2. Like(f)
    BY <1>1, <1>3 DEF ForgetConnectError, PageState, Fit, LaidOut, Known, ShowKept, HasClient
  <2> HIDE DEF f
  <2>3. Like(s)
    <3>1. {"fresh"} \subseteq Latch /\ "starting" \in Placeholders
      BY DEF Latch, Placeholders
    <3> QED
      BY <2>2, <3>1 DEF PageState, LaidOut, Known, ShowKept, HasClient
  <2> HIDE DEF s
  <2>4. Like(p)
    BY <2>1, <2>2, <2>3
  <2>5. Settled(p, page') /\ (Known(p) => Known(page'))
    BY <1>1, <2>1, <2>4, UpdateKeeps, KeepsSettled
  <2> QED
    BY <1>4, <2>1, <2>4, <2>5 DEF Settled
<1>17. CASE ApplySettings
  <2>1. PICK outcome \in SpawnOutcomes : page' = Respawn(page, outcome)
    BY <1>17 DEF ApplySettings, InTabStrip, UiStep, ReapplyConnectionSettings
  <2> QED
    BY <1>1, <1>3, <2>1, RespawnSettled DEF Fit, LaidOut, Told
<1>18. CASE CloseTab \/ Release
  BY <1>18 DEF CloseTab, Release
<1>19. CASE UNCHANGED vars
  BY <1>3, <1>19 DEF vars
<1>20. CASE Elapse
  <2> DEFINE n == IF page.reconnectIn = 0 THEN 0 ELSE page.reconnectIn - 1
  <2>1. page' = [page EXCEPT !.reconnectIn = n] /\ UNCHANGED uiq
    BY <1>20 DEF Elapse
  <2> HIDE DEF n
  <2>2. /\ page'.host = page.host /\ page'.placeholder = page.placeholder
        /\ page'.border = page.border /\ page'.wantsVisible = page.wantsVisible
        /\ page'.popupSuppressed = page.popupSuppressed
        /\ page'.connected = page.connected /\ page'.shown = page.shown
        /\ page'.deferredShow = page.deferredShow /\ page'.pinned = page.pinned
    BY <1>1, <2>1 DEF PageState
  <2> QED
    BY <1>3, <1>4, <1>20, <2>2 DEF Elapse, Fit, Cleared, LaidOut, Known, ShowKept, HasClient
<1> QED
  BY <1>5, <1>6, <1>7, <1>8, <1>9, <1>10, <1>11, <1>12, <1>13, <1>14, <1>15,
     <1>16, <1>17, <1>18, <1>19, <1>20 DEF Next, Host, User

\* While an rdphost.exe is there to spawn, pane, child and popup agree: the pane
\* is cleared only for a client, offers Start only without one, and once the
\* queue is drained a live session is known and on screen where it is wanted
\* (UpdatePlaceholderAndClient, OnConnected, ShowPopup, OnRdpHostSizeChanged).
THEOREM PageAgreement ==
  ASSUME "none" \notin SpawnOutcomes
  PROVE  Spec => []PageAgreesWithChild
<1>1. Init => Agreed
  BY DEF Init, InitPage, Agreed, Fit, Cleared, LaidOut, Told, HasClient
<1>2. IInv /\ Agreed /\ [Next]_vars => Agreed'
  BY NextAgreed
<1>3. Agreed => PageAgreesWithChild
  <2> SUFFICES ASSUME life = "open", Fit(page), Told(page, uiq)
               PROVE  PageAgreesWithChild
    BY DEF Agreed, PageAgreesWithChild
  <2>1. uiq = <<>> /\ page.host = "live" => Known(page)
    BY DEF Told, ConnectDue
  <2> QED
    BY <2>1 DEF PageAgreesWithChild, Fit, Cleared, LaidOut, Known, ShowKept, HasClient
<1> QED
  BY <1>1, <1>2, <1>3, InitIInv, NextIInv, PTL DEF Spec

\* A tick that does not yet see the VM running never stops the child a Start
\* click spawned (OnVmManagerChanged, UpdatePlaceholderAndClient).
THEOREM PreconnectedChildKept == Spec => TickKeepsPreconnectedChild
<1>1. ASSUME IInv, [Next]_vars, uiq # <<>>, uiq' = Tail(uiq), Head(uiq) = "changed",
             page.pendingConnect = "fresh", vm \notin {"missing", "unpolled"},
             ~page.hadConnectError
      PROVE  page'.host = page.host \/ page.host = "none"
  <2>1. /\ page \in PageState /\ uiq \in Seq(Events)
        /\ Len(uiq') # Len(uiq) /\ Len(uiq') # Len(uiq) + 1
    BY <1>1 DEF IInv, TypeOK
  <2>2. CASE Dispatch
    <3>1. PICK outcome \in SpawnOutcomes : page' = Handle("changed", page, outcome)
      BY <1>1, <2>2 DEF Dispatch, AutoCloses, UiStep
    <3>2. CASE life # "open"
      BY <3>1, <3>2 DEF Handle
    <3>3. CASE life = "open"
      <4> DEFINE q == ScheduleReconnect(page, UpgradeDelay)
      <4>1. PICK p \in {page, q} : page' = UpdatePlaceholderAndClient(p, outcome)
        BY <3>1, <3>3 DEF Handle, OnVmManagerChanged
      <4>2. /\ p \in PageState /\ p.host = page.host
            /\ p.pendingConnect = "fresh" /\ ~p.hadConnectError
        BY ZenonT(60), <1>1, <2>1, <4>1, TimesAssumption DEF ScheduleReconnect, PageState
      <4> HIDE DEF q
      <4> DEFINE aged == AgePendingConnect(p)
      <4>3. /\ aged \in PageState /\ aged.host = page.host
            /\ ~aged.hadConnectError /\ WantClient(aged)
        BY <4>2 DEF AgePendingConnect, WantClient, PageState, Latch
      <4>4. page' = DriveClient(aged, outcome)
        BY <1>1, <4>1, <4>3 DEF UpdatePlaceholderAndClient
      <4> HIDE DEF aged
      <4>5. HasClient(aged) => page'.host = aged.host
        BY <4>3, <4>4 DEF DriveClient, PageState
      <4> QED
        BY <4>3, <4>5 DEF HasClient
    <3> QED
      BY <3>2, <3>3
  <2>3. Dispatch
    <3>1. CASE Poll \/ Kick \/ Host
      <4>1. uiq' = uiq \/ \E e \in Events : uiq' = Append(uiq, e)
        BY <3>1 DEF Poll, Kick, Notify, Host, HostConnects, HostLogsIn, HostDrops, HostReportsError,
                    HostExits, HostEvent, Enqueue, Events
      <4> QED
        BY <2>1, <4>1
    <3>2. CASE \/ Elapse \/ ReconnectTick \/ Timers \/ Load \/ Measure \/ User \/ UNCHANGED vars
      <4>1. uiq' = uiq
        BY <3>2 DEF Elapse, ReconnectTick, Timers, CooldownExpires, PendingConnectExpires,
             StartRequestExpires, Load, Measure, User, Activate, Deactivate, OpenDialog,
             CloseDialog, ClickStart, ClickRetry, ApplySettings, CloseTab, Release,
             InTabStrip, vars
      <4> QED
        BY <2>1, <4>1
    <3> QED
      BY <1>1, <3>1, <3>2 DEF Next
  <2> QED
    BY <2>2, <2>3
<1> QED
  BY <1>1, InitIInv, NextIInv, PTL DEF Spec, TickKeepsPreconnectedChild

=============================================================================
