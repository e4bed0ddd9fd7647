------------------------------ MODULE TabStrip ------------------------------
(***************************************************************************)
(* The windows and their tab strips (MainWindow, WindowManager): opening,   *)
(* closing, replacing and reordering tabs, tearing a tab out into a window  *)
(* of its own and dropping it into another, dialogs over the strip, the     *)
(* restore on launch and the list of open tabs that is saved for it.        *)
(*                                                                          *)
(* Everything runs on the UI thread, one handler at a time; the difficulty  *)
(* is what runs between two of them.  SelectionChanged is delivered after   *)
(* the change that raised it; a drop and the welcome page's "replace" are   *)
(* put off to the next turn of the dispatcher; a torn-out window takes its  *)
(* tab when it is activated.  Ticks of the VM list, which close the tabs of *)
(* deleted VMs, and error dialogs come in between.                          *)
(*                                                                          *)
(* A tab is a TabViewItem; its page is in its Tag.  Handlers are operators  *)
(* from one state of the UI to the next, composed as in the code.           *)
(***************************************************************************)
EXTENDS Integers, Sequences, FiniteSets, SequencesExt

CONSTANTS
  VMs, Hosts,  \* what a session tab may be of
  Windows,     \* bound: windows at a time, the primary among them
  Primary,     \* the window the process starts with
  Tabs,        \* bound: TabViewItems at a time
  MaxDialogs,  \* bound: dialogs at a time in any two windows
  None         \* no tab, no page, nothing owed

Sessions == VMs \cup Hosts
Pages    == Sessions \cup {"welcome", "settings"}

ASSUME WindowsAssumption == Primary \in Windows /\ IsFiniteSet(Windows)
ASSUME TabsAssumption    == IsFiniteSet(Tabs) /\ Tabs # {}
ASSUME PagesAssumption   == Sessions \cap {"welcome", "settings"} = {}
ASSUME NoneAssumption    == None \notin Pages \cup Tabs \cup Windows
ASSUME DialogsAssumption == MaxDialogs \in Nat \ {0}

VARIABLES
  ui,     \* the windows, their strips and pages, and the saved list
  later,  \* the work a gesture has put off to the next turn, or None
  drag,   \* g_dragItem while a drag is under way, or None
  hosts,  \* the saved remote hosts
  vms,    \* VMManager's cache
  polled  \* HasFirstSnapshot

vars == <<ui, later, drag, hosts, vms, polled>>

UiState ==
  [open: SUBSET Windows,               \* WindowManager's windows
   adopt: [Windows -> Tabs \cup {None}], \* m_pendingAdoptItem
   strip: [Windows -> Seq(Tabs)],
   selected: [Windows -> Tabs \cup {None}],
   raised: SUBSET Windows,             \* SelectionChanged not yet delivered
   depth: [Windows -> 0..MaxDialogs],    \* m_popupSuppressionDepth
   tag: [Tabs -> Pages \cup {None}],   \* None: closed, the page is gone
   child: SUBSET Tabs,                 \* session pages not shut down
   wanted: SUBSET Tabs,                \* m_wantsVisible
   suppressed: SUBSET Tabs,            \* m_popupSuppressed
   saved: [tabs: Seq(Pages), sel: Nat], \* openTabs, selectedTabIndex (0: none)
   reordered: BOOLEAN]                 \* history: a reorder since the last save

\* The process is not running: only the saved list is left.
Off(saved) ==
  [open |-> {}, adopt |-> [w \in Windows |-> None],
   strip |-> [w \in Windows |-> <<>>], selected |-> [w \in Windows |-> None],
   raised |-> {}, depth |-> [w \in Windows |-> 0],
   tag |-> [t \in Tabs |-> None], child |-> {}, wanted |-> {},
   suppressed |-> {}, saved |-> saved, reordered |-> FALSE]

InStrip(u, w) == ToSet(u.strip[w])

\* Tabs a pending gesture still refers to.
Carried == {drag, IF later = None THEN None ELSE later.tab} \ {None}

Free(u) == Tabs \ ( Carried \cup (UNION {InStrip(u, w) : w \in Windows})
                            \cup {u.adopt[w] : w \in Windows} )

Room == Free(ui) # {}

\* A closed tab makes room for the welcome tab that may have to follow it,
\* unless a gesture holds it.
RoomToClose == Room \/ Carried = {}

\* A free tab has no page and is in no set of the state, so that tabs are
\* interchangeable and the next one taken may be any of the free ones.
TabSymmetry == Permutations(Tabs)

----------------------------------------------------------------------------
(* What the TabView does.                                                   *)

Select(u, w, t) ==
  IF u.selected[w] = t THEN u
  ELSE [u EXCEPT !.selected[w] = t, !.raised = @ \cup {w}]

PlaceOf(u, w, t) == CHOOSE i \in DOMAIN u.strip[w] : u.strip[w][i] = t

\* The neighbour takes over the selection of a tab that is removed.
RemoveItem(u, w, t) ==
  LET i    == PlaceOf(u, w, t)
      rest == RemoveAt(u.strip[w], i)
      next == CASE rest = <<>>     -> None
                [] i <= Len(rest)  -> rest[i]
                [] OTHER           -> Last(rest)
      removed == [u EXCEPT !.strip[w] = rest]
  IN IF u.selected[w] = t THEN Select(removed, w, next) ELSE removed

----------------------------------------------------------------------------
(* The saved list.                                                          *)

\* A tab without a page is skipped, and counts for no position.
Snapshot(u, w) ==
  LET keep(kept, t) == IF u.tag[t] # None THEN Append(kept, t) ELSE kept
      kept == FoldLeft(keep, <<>>, u.strip[w])
  IN [tabs |-> [i \in DOMAIN kept |-> u.tag[kept[i]]],
      sel  |-> IF Contains(kept, u.selected[w])
               THEN CHOOSE i \in DOMAIN kept : kept[i] = u.selected[w]
               ELSE 0]

\* Mutation: torn-out windows save their strip too.
PersistFromAnyWindow(u, w) ==
  [u EXCEPT !.saved = Snapshot(u, w), !.reordered = FALSE]

PersistOpenTabs(u, w) ==
  IF w = Primary
  THEN [u EXCEPT !.saved = Snapshot(u, w), !.reordered = FALSE]
  ELSE u

\* Hide every popup of the window but the selected tab's, then save.
OnTabSelectionChanged(u, w) ==
  LET active == {t \in InStrip(u, w) :
                   t = u.selected[w] /\ u.tag[t] \in Sessions}
  IN PersistOpenTabs(
       [u EXCEPT !.raised = @ \ {w},
                 !.wanted = (@ \ InStrip(u, w)) \cup active], w)

----------------------------------------------------------------------------
(* Opening and closing.                                                     *)

\* The places of a page's tabs in a strip; the first is the one found.
OpenTabsOf(u, w, g) == {i \in DOMAIN u.strip[w] : u.tag[u.strip[w][i]] = g}
FindTab(u, w, g)    == u.strip[w][Min(OpenTabsOf(u, w, g))]

\* Focus the page's tab if this window has one; welcome tabs are not unique.
AlreadyOpen(u, w, g) == g # "welcome" /\ OpenTabsOf(u, w, g) # {}

AddTab(u, w, g) ==
  LET t == CHOOSE x \in Free(u) : TRUE
  IN Select([u EXCEPT !.strip[w] = Append(@, t), !.tag[t] = g,
                      !.child = IF g \in Sessions THEN @ \cup {t} ELSE @],
            w, t)

\* During a restore nothing is saved (m_restoringTabs).
Restored(u, w, g) ==
  IF AlreadyOpen(u, w, g) THEN Select(u, w, FindTab(u, w, g))
  ELSE AddTab(u, w, g)

OpenPage(u, w, g) ==
  IF AlreadyOpen(u, w, g) THEN Select(u, w, FindTab(u, w, g))
  ELSE PersistOpenTabs(AddTab(u, w, g), w)

\* Mutation: the children of a closed window are left to the job object.
CloseWindowOnly(u, w) ==
  LET gone == InStrip(u, w) \ Carried
  IN [u EXCEPT !.open = @ \ {w}, !.strip[w] = <<>>, !.selected[w] = None,
               !.raised = @ \ {w}, !.depth[w] = 0,
               !.wanted = @ \ gone, !.suppressed = @ \ gone,
               !.tag = [t \in Tabs |-> IF t \in gone THEN None ELSE @[t]]]

\* Closed: the window and its strip are released, its children shut down.  A
\* tab some gesture still holds survives with its page.
CloseWindow(u, w) ==
  LET gone == InStrip(u, w) \ Carried
  IN [u EXCEPT !.open = @ \ {w}, !.strip[w] = <<>>, !.selected[w] = None,
               !.raised = @ \ {w}, !.depth[w] = 0,
               !.child = @ \ InStrip(u, w),
               !.wanted = @ \ gone, !.suppressed = @ \ gone,
               !.tag = [t \in Tabs |-> IF t \in gone THEN None ELSE @[t]]]

\* The page goes whether or not the tab is in this window; a strip left empty
\* by a session gets a welcome tab, by anything else ends its window.
CloseTabItem(u, w, t) ==
  LET g == u.tag[t]
      shut == [u EXCEPT !.tag[t] = None, !.child = @ \ {t},
                        !.wanted = @ \ {t}, !.suppressed = @ \ {t}]
      closed == IF t \in InStrip(u, w) THEN RemoveItem(shut, w, t) ELSE shut
  IN CASE closed.strip[w] # <<>> -> PersistOpenTabs(closed, w)
       [] closed.strip[w] = <<>> /\ g \in Sessions ->
            OpenPage(closed, w, "welcome")
       [] OTHER -> CloseWindow(closed, w)

\* Open (or focus) the session, close the welcome tab, select the session.
ReplaceTabWith(u, w, t, g) ==
  LET opened == OpenPage(u, w, g)
      page   == opened.selected[w]
  IN Select(CloseTabItem(opened, w, t), w, page)

----------------------------------------------------------------------------
(* Tear-out.                                                                *)

\* Re-wire a tab to its new window; the settings tab is unique in a window.
AdoptMovedTab(u, w, t) ==
  LET older == {s \in InStrip(u, w) \ {t} : u.tag[s] = "settings"}
      alone == IF u.tag[t] = "settings" /\ older # {}
               THEN CloseTabItem(u, w, CHOOSE s \in older : TRUE) ELSE u
  IN PersistOpenTabs(Select(alone, w, t), w)

\* Mutation: an empty strip is left as it is.
DetachLeaves(u, w) == PersistOpenTabs(u, w)

HandleSourceAfterDetach(u, w) ==
  CASE u.strip[w] # <<>>                  -> PersistOpenTabs(u, w)
    [] u.strip[w] = <<>> /\ w = Primary   -> OpenPage(u, w, "welcome")
    [] OTHER                              -> CloseWindow(u, w)

\* ParentTabView: a closed tab, or one whose window is gone, has none.
SourceOf(u, t) == {w \in u.open : t \in InStrip(u, w)}

MoveTabToThisWindow(u, w, t, i) ==
  IF t \in InStrip(u, w) THEN u
  ELSE LET from  == SourceOf(u, t)
           src   == CHOOSE s \in from : TRUE
           freed == IF from = {} THEN u ELSE RemoveItem(u, src, t)
           there == [freed EXCEPT !.strip[w] = InsertAt(@, i, t)]
           mine  == AdoptMovedTab(there, w, t)
       IN IF from = {} THEN mine ELSE HandleSourceAfterDetach(mine, src)

\* A window's only tab is not torn out.
SpawnWindowForTab(u, t, n) ==
  LET from  == SourceOf(u, t)
      src   == CHOOSE s \in from : TRUE
      born(v) == [v EXCEPT !.open = @ \cup {n}, !.adopt[n] = t]
  IN CASE from = {}                -> born(u)
       [] Len(u.strip[src]) = 1    -> u
       [] OTHER -> HandleSourceAfterDetach(born(RemoveItem(u, src, t)), src)

----------------------------------------------------------------------------
(* Dialogs hide the popups of the tabs in their window.                     *)

SessionTabs(u, w) == {t \in InStrip(u, w) : u.tag[t] \in Sessions}

PushPopupSuppression(u, w) ==
  [u EXCEPT !.depth[w] = @ + 1,
            !.suppressed = IF u.depth[w] = 0 THEN @ \cup SessionTabs(u, w)
                           ELSE @]

\* Mutation: every dialog that closes uncovers the popups.
PopUncovers(u, w) ==
  [u EXCEPT !.depth[w] = @ - 1, !.suppressed = @ \ SessionTabs(u, w)]

\* Mutation: released by hand and again by the scope.
PopTwice(u, w) ==
  [u EXCEPT !.depth[w] = @ - 2, !.suppressed = @ \ SessionTabs(u, w)]

PopPopupSuppression(u, w) ==
  IF u.depth[w] = 0 THEN u
  ELSE [u EXCEPT !.depth[w] = @ - 1,
                 !.suppressed = IF u.depth[w] = 1 THEN @ \ SessionTabs(u, w)
                                ELSE @]

----------------------------------------------------------------------------
(* Launch: VM tabs are restored unseen, the cache being still empty; hosts  *)
(* are looked up among the saved ones; the saved position is applied to     *)
(* what has been restored.                                                  *)

\* Mutation: tabs are looked up in the cache first.
RestoreKnown(u) ==
  LET saved == u.saved
      open(v, g) == IF g \in vms \cup hosts \cup {"welcome", "settings"}
                    THEN Restored(v, Primary, g) ELSE v
      filled == FoldLeft(open, u, saved.tabs)
      strip  == filled.strip[Primary]
  IN CASE saved.tabs = <<>> \/ strip = <<>> ->
            OpenPage(filled, Primary, "welcome")
       [] OTHER ->
            PersistOpenTabs(
              Select(filled, Primary,
                     strip[IF saved.sel \in DOMAIN strip THEN saved.sel
                           ELSE 1]), Primary)

RestoreOpenTabs(u) ==
  LET saved == u.saved
      open(v, g) == IF g \in Hosts \ hosts THEN v ELSE Restored(v, Primary, g)
      filled == FoldLeft(open, u, saved.tabs)
      strip  == filled.strip[Primary]
  IN CASE saved.tabs = <<>> \/ strip = <<>> ->
            OpenPage(filled, Primary, "welcome")
       [] OTHER ->
            PersistOpenTabs(
              Select(filled, Primary,
                     strip[IF saved.sel \in DOMAIN strip THEN saved.sel
                           ELSE 1]), Primary)

----------------------------------------------------------------------------
(* Steps.  The process ends with its last window.                           *)

Becomes(u, owed, dragged) ==
  IF u.open = {}
  THEN /\ ui' = Off(u.saved) /\ later' = None /\ drag' = None
  ELSE /\ ui' = u /\ later' = owed /\ drag' = dragged

Does(u) == Becomes(u, later, drag)

Init ==
  /\ ui = Off([tabs |-> <<>>, sel |-> 0])
  /\ later = None
  /\ drag = None
  /\ hosts = {}
  /\ vms = {}
  /\ polled = FALSE

Launch ==
  /\ ui.open = {}
  /\ vms' = {}
  /\ polled' = FALSE
  /\ Does(RestoreOpenTabs([ui EXCEPT !.open = {Primary}]))
  /\ UNCHANGED hosts

\* A crash, or the process being killed, at any time.
Crash ==
  /\ ui.open # {}
  /\ Becomes(Off(ui.saved), None, None)
  /\ UNCHANGED <<hosts, vms, polled>>

\* VMs come and go in Hyper-V; the poll publishes them.
Poll ==
  /\ ui.open # {}
  /\ vms' \in SUBSET VMs
  /\ polled' = TRUE
  /\ polled => vms' # vms
  /\ UNCHANGED <<ui, later, drag, hosts>>

Ready(w) == w \in ui.open /\ ui.adopt[w] = None

\* Close the tabs of deleted VMs.
OnVmManagerChanged(w) ==
  /\ Ready(w) /\ polled /\ RoomToClose
  /\ LET toClose == {t \in InStrip(ui, w) : ui.tag[t] \in VMs \ vms}
         close(u, t) == IF t \in toClose THEN CloseTabItem(u, w, t) ELSE u
     IN /\ toClose # {}
        /\ Does(FoldLeft(close, ui, ui.strip[w]))
  /\ UNCHANGED <<hosts, vms, polled>>

SelectionChanged(w) ==
  /\ w \in ui.raised
  /\ Does(OnTabSelectionChanged(ui, w))
  /\ UNCHANGED <<hosts, vms, polled>>

\* The torn-out window's OnActivated takes its tab.
Activate(n) ==
  /\ n \in ui.open /\ ui.adopt[n] # None
  /\ LET t == ui.adopt[n]
     IN Does(AdoptMovedTab([ui EXCEPT !.strip[n] = Append(@, t),
                                      !.adopt[n] = None], n, t))
  /\ UNCHANGED <<hosts, vms, polled>>

----------------------------------------------------------------------------
(* The user, slower than the UI thread: a click finds it with nothing owed, *)
(* and a drag in hand leaves no hand for anything else.                     *)

Idle == later = None /\ ui.raised = {} /\ \A w \in ui.open : Ready(w)

User(w) == Idle /\ drag = None /\ w \in ui.open /\ ui.depth[w] = 0

OpenTab(w) ==
  /\ User(w) /\ Room
  /\ \E g \in vms \cup hosts \cup {"welcome", "settings"} :
       Does(OpenPage(ui, w, g))
  /\ UNCHANGED <<hosts, vms, polled>>

\* A tile of the welcome page: its tab is to be replaced, on the next turn.
OpenFromWelcome(w) ==
  /\ User(w) /\ Room
  /\ ui.selected[w] # None /\ ui.tag[ui.selected[w]] = "welcome"
  /\ \E g \in vms \cup hosts :
       later' = [do |-> "replace", win |-> w, tab |-> ui.selected[w],
                 page |-> g]
  /\ UNCHANGED <<ui, drag, hosts, vms, polled>>

SelectTab(w) ==
  /\ User(w)
  /\ \E t \in InStrip(ui, w) \ {ui.selected[w]} : Does(Select(ui, w, t))
  /\ UNCHANGED <<hosts, vms, polled>>

CloseTab(w) ==
  /\ User(w) /\ RoomToClose
  /\ \E t \in InStrip(ui, w) : Does(CloseTabItem(ui, w, t))
  /\ UNCHANGED <<hosts, vms, polled>>

\* The title bar's close button.
Close(w) ==
  /\ Idle /\ drag = None /\ w \in ui.open
  /\ Does(CloseWindow(ui, w))
  /\ UNCHANGED <<hosts, vms, polled>>

\* Close the host's tab in this window, then forget the host.
ForgetRemoteHost(w) ==
  /\ User(w) /\ RoomToClose
  /\ \E h \in hosts :
       /\ Does(IF OpenTabsOf(ui, w, h) = {} THEN ui
               ELSE CloseTabItem(ui, w, FindTab(ui, w, h)))
       /\ hosts' = hosts \ {h}
  /\ UNCHANGED <<vms, polled>>

\* A dialog of this window, or an error box, which comes unasked; one that
\* comes during a drag is taken to come after the drop (bound).
OpenDialog(w) ==
  /\ Ready(w) /\ drag = None
  /\ \A v \in Windows :
       ui.depth[v] + (IF v = w THEN 0 ELSE ui.depth[w]) < MaxDialogs
  /\ Does(PushPopupSuppression(ui, w))
  /\ UNCHANGED <<hosts, vms, polled>>

CloseDialog(w) ==
  /\ Idle /\ drag = None /\ w \in ui.open /\ ui.depth[w] > 0
  /\ Does(PopPopupSuppression(ui, w))
  /\ UNCHANGED <<hosts, vms, polled>>

\* New VM and New remote host open the tab before their scope ends.
FinishDialog(w) ==
  /\ Idle /\ drag = None /\ w \in ui.open /\ ui.depth[w] = 1 /\ Room
  /\ \E g \in vms \cup Hosts :
       /\ Does(PopPopupSuppression(OpenPage(ui, w, g), w))
       /\ hosts' = hosts \cup ({g} \cap Hosts)
  /\ UNCHANGED <<vms, polled>>

----------------------------------------------------------------------------
(* Dragging a tab.  What a drop means is decided at once and done on the    *)
(* next turn.                                                               *)

OnTabDragStarting(w) ==
  /\ User(w)
  /\ drag' \in InStrip(ui, w)
  /\ UNCHANGED <<ui, later, hosts, vms, polled>>

\* Within its own strip the TabView reorders, and need not reselect.
Reorder(w) ==
  /\ Ready(w) /\ drag # None /\ drag \in InStrip(ui, w)
  /\ \E i \in DOMAIN ui.strip[w] \ {PlaceOf(ui, w, drag)}, reselects \in BOOLEAN :
       LET rest  == RemoveAt(ui.strip[w], PlaceOf(ui, w, drag))
           moved == [ui EXCEPT !.strip[w] = InsertAt(rest, i, drag),
                               !.reordered = @ \/ w = Primary,
                               !.raised = IF reselects THEN @ \cup {w} ELSE @]
       IN Becomes(moved, later, None)
  /\ UNCHANGED <<hosts, vms, polled>>

\* On another window's strip or title bar.
DropOnStrip(w) ==
  /\ Ready(w) /\ drag # None /\ drag \notin InStrip(ui, w)
  /\ later' = [do |-> "move", win |-> w, tab |-> drag, page |-> None]
  /\ drag' = None
  /\ UNCHANGED <<ui, hosts, vms, polled>>

\* On a window's body or outside; the handler is that of some window.
DropOutside(w) ==
  /\ Ready(w) /\ drag # None
  /\ Windows \ ui.open # {} /\ Windows \ ui.open # {Primary}
  /\ later' = [do |-> "spawn", win |-> w, tab |-> drag, page |-> None]
  /\ drag' = None
  /\ UNCHANGED <<ui, hosts, vms, polled>>

CancelDrag ==
  /\ drag # None
  /\ drag' = None
  /\ UNCHANGED <<ui, later, hosts, vms, polled>>

\* The next turn.  The window is held weakly, the tab strongly.
NextTurn ==
  /\ later # None /\ Room
  /\ LET w == later.win  t == later.tab
     IN \/ w \notin ui.open /\ Becomes(ui, None, drag)
        \/ /\ w \in ui.open /\ later.do = "replace"
           /\ Becomes(ReplaceTabWith(ui, w, t, later.page), None, drag)
        \/ /\ w \in ui.open /\ later.do = "move"
           /\ \E i \in 1..(Len(ui.strip[w]) + 1) :
                Becomes(MoveTabToThisWindow(ui, w, t, i), None, drag)
        \/ /\ w \in ui.open /\ later.do = "spawn"
           /\ \E n \in Windows \ (ui.open \cup {Primary}) :
                Becomes(SpawnWindowForTab(ui, t, n), None, drag)
  /\ UNCHANGED <<hosts, vms, polled>>

----------------------------------------------------------------------------

Handle(w) ==
  OnVmManagerChanged(w) \/ SelectionChanged(w) \/ Activate(w)

Click(w) ==
  \/ OpenTab(w) \/ OpenFromWelcome(w) \/ SelectTab(w) \/ CloseTab(w)
  \/ Close(w) \/ ForgetRemoteHost(w)
  \/ OpenDialog(w) \/ CloseDialog(w) \/ FinishDialog(w)

Drag(w) ==
  OnTabDragStarting(w) \/ Reorder(w) \/ DropOnStrip(w) \/ DropOutside(w)

Next ==
  \/ Launch \/ Crash \/ Poll \/ CancelDrag \/ NextTurn
  \/ \E w \in Windows : Handle(w) \/ Click(w) \/ Drag(w)

Spec == Init /\ [][Next]_vars

----------------------------------------------------------------------------
(* Properties.                                                              *)

\* Every variable has its type.
TypeOK ==
  /\ ui \in UiState
  /\ later \in {None} \cup [do: {"move", "spawn", "replace"}, win: Windows,
                            tab: Tabs, page: Sessions \cup {None}]
  /\ drag \in Tabs \cup {None}
  /\ hosts \subseteq Hosts
  /\ vms \subseteq VMs
  /\ polled \in BOOLEAN

\* Whenever the process ends, what was saved is the primary window's strip and
\* the place of its selected tab, up to a SelectionChanged under way; what the
\* other windows do never shows in it.  Only a reorder is not saved at once,
\* and then the same tabs are there (PersistOpenTabs and its callers).
SavedIsStrip ==
  Primary \in ui.open \ ui.raised =>
    LET now == Snapshot(ui, Primary)
    IN IF ui.reordered
       THEN /\ Len(ui.saved.tabs) = Len(now.tabs)
            /\ ToSet(ui.saved.tabs) = ToSet(now.tabs)
       ELSE ui.saved = now

\* The places a tab is in: a position of a strip, or the hands of a window that
\* is to adopt it.
Places(t) ==
  LET at(w) == {i \in DOMAIN ui.strip[w] : ui.strip[w][i] = t}
  IN {<<w, 0>> : w \in {v \in ui.open : ui.adopt[v] = t}}
       \cup (UNION {{w} \X at(w) : w \in ui.open})

\* A session whose child has not been shut down is in one place of one open
\* window: tearing a tab out, dropping it, closing its window or its tab in the
\* middle of that neither loses a running child nor shows it twice
\* (MoveTabToThisWindow, SpawnWindowForTab, ShutdownAllTabClients).
SessionsOwned == \A t \in ui.child : Cardinality(Places(t)) = 1

\* No window is left without a tab, or without a selected one, whoever took the
\* last: the user, a deletion, a drag.  Once SelectionChanged is delivered, the
\* popup a window shows is its selected tab's and no other's, wherever the tabs
\* come from (CloseTabItem, HandleSourceAfterDetach, OnTabSelectionChanged).
WindowsShowSelected ==
  \A w \in ui.open :
    /\ ui.adopt[w] = None => ui.selected[w] \in InStrip(ui, w)
    /\ w \notin ui.raised =>
         \A t \in SessionTabs(ui, w) : t \in ui.wanted <=> ui.selected[w] = t

\* A launch brings back every tab of the saved list, except those of hosts that
\* are no longer saved, and nothing else but a welcome tab in an empty strip;
\* in particular the VMs, of which nothing is known yet (RestoreOpenTabs).
RestoreKeepsTabs ==
  [][ui.open = {} /\ ui'.open # {} =>
       LET kept == ToSet(ui.saved.tabs) \ (Hosts \ hosts)
       IN ToSet(ui'.saved.tabs) = IF kept = {} THEN {"welcome"} ELSE kept]_vars

\* A popup hidden for a dialog comes back only with the last dialog of the
\* window its tab is then in (PopPopupSuppression).
UncoveredByLastDialog ==
  [][\A t \in (ui.suppressed \ ui'.suppressed) \cap ui'.child :
       \A w \in ui'.open :
         t \in ToSet(ui'.strip[w]) => ui'.depth[w] = 0]_vars
=============================================================================
